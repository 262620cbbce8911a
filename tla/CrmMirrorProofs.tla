--------------------------- MODULE CrmMirrorProofs ---------------------------
(***************************************************************************)
(* Theorems about CrmMirror for every set of jobs and runs.                *)
(***************************************************************************)
EXTENDS CrmMirror, TLAPS

Fetched == Version \cup {None, Lost}

\* A fetch changes one cell of what its run fetched, to the version the job
\* has now or to Lost.
LEMMA FetchCell ==
  ASSUME TypeOK, NEW r \in Run, NEW j \in Job, NEW kind \in {"job", "visits"},
         NEW mayFail \in BOOLEAN, Fetch(r, j, kind, mayFail)
  PROVE  /\ got' \in [Run -> [Rows -> Fetched]]
         /\ got'[r][<<j, kind>>] \in {crm[j], Lost}
         /\ \A x \in Rows : x # <<j, kind>> => got'[r][x] = got[r][x]
         /\ \A s \in Run : s # r => got'[s] = got[s]
         /\ faults' \in 0..MaxFaults
         /\ UNCHANGED <<crm, inList, due, raw, above, platform, pc, stubs,
                        complete, changed, since, newer, buffer>>
<1> USE DEF TypeOK, Fetched
<1>1. <<j, kind>> \in Rows BY DEF Rows
<1>2. PICK v \in {crm[j], Lost} :
        got' = [got EXCEPT ![r][<<j, kind>>] = v]
  BY DEF Fetch
<1>3. v \in Fetched BY <1>2
<1>4. [got[r] EXCEPT ![<<j, kind>>] = v] \in [Rows -> Fetched]
  BY <1>1, <1>3
<1>5. got' = [got EXCEPT ![r] = [got[r] EXCEPT ![<<j, kind>>] = v]]
  BY <1>2
<1>6. got' \in [Run -> [Rows -> Fetched]] BY <1>4, <1>5
<1>7. faults' \in 0..MaxFaults BY BoundAssumption DEF Fetch
<1>8. got'[r] = [got[r] EXCEPT ![<<j, kind>>] = v] BY <1>5
<1>9. /\ got'[r][<<j, kind>>] \in {crm[j], Lost}
      /\ \A x \in Rows : x # <<j, kind>> => got'[r][x] = got[r][x]
  BY <1>1, <1>2, <1>8
<1>10. \A s \in Run : s # r => got'[s] = got[s] BY <1>5
<1> QED BY <1>6, <1>7, <1>9, <1>10 DEF Fetch, mirror

\* A fetch keeps the types.
LEMMA FetchTypes ==
  ASSUME TypeOK, NEW r \in Run, NEW j \in Job, NEW kind \in {"job", "visits"},
         NEW mayFail \in BOOLEAN, Fetch(r, j, kind, mayFail)
  PROVE  TypeOK'
<1>1. /\ got' \in [Run -> [Rows -> Fetched]]
      /\ faults' \in 0..MaxFaults
      /\ UNCHANGED <<crm, inList, due, raw, above, platform, pc, stubs,
                     complete, changed, since, newer, buffer>>
  BY FetchCell
<1> QED BY <1>1 DEF TypeOK, Fetched, Version, Rows

\* A run that is over leaves well-typed local state behind.
LEMMA LeaveTypes ==
  ASSUME TypeOK, NEW r \in Run, Leave(r)
  PROVE  /\ pc' \in [Run -> Point]
         /\ stubs' \in [Run -> SUBSET Job]
         /\ complete' \in [Run -> BOOLEAN]
         /\ got' \in [Run -> [Rows -> Fetched]]
         /\ changed' \in [Run -> SUBSET Job]
         /\ since' \in [Run -> SUBSET Rows]
         /\ newer' \in [Run -> SUBSET Rows]
         /\ buffer' \in [Run -> [Rows -> Version \cup {None}]]
<1> USE DEF TypeOK, Leave, Go, Fetched
<1>1. Nothing \in [Rows -> Fetched] BY DEF Nothing
<1>2. complete' \in [Run -> BOOLEAN] OBVIOUS
<1>3. pc' \in [Run -> Point] BY DEF Point
<1>4. got' \in [Run -> [Rows -> Fetched]] BY <1>1
<1>5. buffer' \in [Run -> [Rows -> Version \cup {None}]]
  <2>1. Nothing \in [Rows -> Version \cup {None}] BY DEF Nothing
  <2> QED BY <2>1
<1> QED BY <1>2, <1>3, <1>4, <1>5

\* An upsert writes versions only, for the rows it writes were answered.
LEMMA UpsertTypes ==
  ASSUME TypeOK, NEW r \in Run, NEW X \in SUBSET Rows, Upsert(r, X),
         \A x \in X : got[r][x] \in Version
  PROVE  /\ raw' \in [Rows -> Version]
         /\ above' \subseteq Rows
         /\ newer' \in [Run -> SUBSET Rows]
BY DEF TypeOK, Upsert

\* The rows a run upserts were answered.
LEMMA Answered ==
  ASSUME TypeOK, NEW r \in Run
  PROVE  /\ (\A j \in stubs[r] : got[r][<<j, "job">>] # None) =>
              \A x \in Of(Jobs(r), "job") : got[r][x] \in Version
         /\ (\A j \in Jobs(r) : got[r][<<j, "visits">>] # None) =>
              \A x \in Of(Jobs(r), "visits") : got[r][x] # Lost
                => got[r][x] \in Version
<1> SUFFICES ASSUME NEW kind \in {"job", "visits"}, NEW x \in Of(Jobs(r), kind)
             PROVE  /\ x = <<x[1], kind>> /\ x[1] \in Jobs(r) /\ x[1] \in stubs[r]
                    /\ kind = "job" => got[r][x] # Lost
                    /\ got[r][x] \in Version \cup {None, Lost}
  OBVIOUS
<1>1. x \in Rows /\ x[1] \in Jobs(r) /\ x[2] = kind BY DEF Of
<1>2. x = <<x[1], kind>> BY <1>1 DEF Rows
<1>3. x[1] \in stubs[r] /\ got[r][<<x[1], "job">>] # Lost BY <1>1 DEF Jobs
<1>4. got[r] \in [Rows -> Version \cup {None, Lost}] BY DEF TypeOK
<1> QED BY <1>1, <1>2, <1>3, <1>4

\* Every step of Next keeps the types.
LEMMA TypeStep ==
  ASSUME TypeOK, [Next]_vars
  PROVE  TypeOK'
<1> USE BoundAssumption, FlagAssumption DEF TypeOK, Go
<1>1. ASSUME NEW j \in Job, Change(j) PROVE TypeOK'
  <2>1. crm' \in [Job -> Version] BY <1>1 DEF Change, Version
  <2>2. inList' \in [Job -> BOOLEAN]
    <3>1. CASE inList' = inList BY <3>1
    <3>2. CASE inList' = [inList EXCEPT ![j] = FALSE] BY <3>2
    <3> QED BY <1>1, <3>1, <3>2 DEF Change
  <2>3. changed' \in [Run -> SUBSET Job] BY <1>1 DEF Change
  <2> QED BY <1>1, <2>1, <2>2, <2>3 DEF Change, local
<1>2. ASSUME NEW r \in Run, StartPoll(r) PROVE TypeOK'
  <2> DEFINE all == {j \in due : inList[j]}
  <2>1. PICK S \in SUBSET all :
          /\ S # all => DetailsFail /\ faults < MaxFaults
          /\ faults' = IF S = all THEN faults ELSE faults + 1
          /\ stubs' = [stubs EXCEPT ![r] = S]
          /\ complete' = [complete EXCEPT ![r] = (S = all)]
    BY <1>2 DEF StartPoll
  <2>2. S \subseteq Job BY <2>1
  <2>3. stubs' \in [Run -> SUBSET Job] BY <2>1, <2>2
  <2>4. complete' \in [Run -> BOOLEAN]
    <3> DEFINE b == (S = all)
    <3>1. b \in BOOLEAN OBVIOUS
    <3>2. complete' = [complete EXCEPT ![r] = b] BY <2>1
    <3> HIDE DEF b
    <3> QED BY <3>1, <3>2
  <2>5. faults' \in 0..MaxFaults BY <2>1
  <2>6. pc' \in [Run -> Point] BY <1>2 DEF StartPoll, Point, Fetching
  <2> QED BY <1>2, <2>3, <2>4, <2>5, <2>6 DEF StartPoll, mirror
<1>3. ASSUME NEW r \in Run, StartTargeted(r) PROVE TypeOK'
  <2>1. complete' \in [Run -> BOOLEAN] BY <1>3 DEF StartTargeted
  <2>2. stubs' \in [Run -> SUBSET Job] BY <1>3 DEF StartTargeted
  <2>3. pc' \in [Run -> Point] BY <1>3 DEF StartTargeted, Point, Fetching
  <2> QED BY <1>3, <2>1, <2>2, <2>3 DEF StartTargeted, mirror
<1>4. ASSUME NEW r \in Run, NEW j \in Job, FetchDetail(r, j) \/ FetchVisits(r, j)
      PROVE  TypeOK'
  BY <1>4, FetchTypes DEF FetchDetail, FetchVisits
<1>5. ASSUME NEW r \in Run, WriteJobs(r) PROVE TypeOK'
  <2>1. Of(Jobs(r), "job") \in SUBSET Rows BY DEF Of
  <2>2. Upsert(r, Of(Jobs(r), "job")) /\ \A j \in stubs[r] : got[r][<<j, "job">>] # None
    BY <1>5 DEF WriteJobs
  <2>3. /\ raw' \in [Rows -> Version] /\ above' \subseteq Rows
        /\ newer' \in [Run -> SUBSET Rows]
    BY <2>1, <2>2, Answered, UpsertTypes
  <2>4. complete' \in [Run -> BOOLEAN]
    <3> DEFINE b == Jobs(r) = stubs[r]
    <3>1. complete' = [complete EXCEPT ![r] = @ /\ b] BY <1>5 DEF WriteJobs
    <3> HIDE DEF b
    <3> QED BY <3>1
  <2>5. pc' \in [Run -> Point] BY <1>5 DEF WriteJobs, Point, Fetching
  <2> QED BY <1>5, <2>3, <2>4, <2>5 DEF WriteJobs
<1>6. ASSUME NEW r \in Run, WriteVisits(r) PROVE TypeOK'
  <2> DEFINE X == {x \in Of(Jobs(r), "visits") : got[r][x] # Lost}
  <2>1. X \in SUBSET Rows BY DEF Of
  <2>2. Upsert(r, X) /\ \A j \in Jobs(r) : got[r][<<j, "visits">>] # None
    BY <1>6 DEF WriteVisits
  <2>3. \A x \in X : got[r][x] \in Version BY <2>2, Answered
  <2>4. /\ raw' \in [Rows -> Version] /\ above' \subseteq Rows
        /\ newer' \in [Run -> SUBSET Rows]
    BY <2>1, <2>2, <2>3, UpsertTypes
  <2>5. pc' \in [Run -> Point] BY <1>6 DEF WriteVisits, Point, Fetching
  <2> QED BY <1>6, <2>4, <2>5 DEF WriteVisits, local
<1>7. ASSUME NEW r \in Run, StampCursor(r) PROVE TypeOK'
  <2>1. due' \subseteq Job BY <1>7 DEF StampCursor
  <2> QED BY <1>7, <2>1 DEF StampCursor, local, Point
<1>8. ASSUME NEW r \in Run, StartNormalize(r) PROVE TypeOK'
  BY <1>8 DEF StartNormalize, mirror, Point, Normalizing
<1>9. ASSUME NEW r \in Run, NEW kind \in {"job", "visits"},
             NEW from, NEW to \in Normalizing, ReadRaw(r, kind, from, to)
      PROVE  TypeOK'
  <2> DEFINE b == [x \in Rows |->
                    IF x[2] # kind THEN buffer[r][x]
                    ELSE IF x \in since[r] \cup newer[r] THEN raw[x] ELSE None]
  <2>1. b \in [Rows -> Version \cup {None}] OBVIOUS
  <2>2. buffer' = [buffer EXCEPT ![r] = b] BY <1>9 DEF ReadRaw
  <2> HIDE DEF b
  <2>3. buffer' \in [Run -> [Rows -> Version \cup {None}]] BY <2>1, <2>2
  <2>4. pc' \in [Run -> Point] BY <1>9 DEF ReadRaw, Point
  <2> QED BY <1>9, <2>3, <2>4 DEF ReadRaw, mirror
<1>10. ASSUME NEW r \in Run, NEW kind \in {"job", "visits"},
              NEW from, NEW to \in Normalizing, WritePlatform(r, kind, from, to)
       PROVE  TypeOK'
  <2>1. platform' \in [Rows -> Version] BY <1>10 DEF WritePlatform
  <2>2. pc' \in [Run -> Point] BY <1>10 DEF WritePlatform, Point
  <2> QED BY <1>10, <2>1, <2>2 DEF WritePlatform, local
<1>11. ASSUME NEW r \in Run, AdvanceMark(r) PROVE TypeOK'
  <2>1. above' \subseteq Rows BY <1>11 DEF AdvanceMark, StillAbove
  <2> QED BY <1>11, <2>1, LeaveTypes DEF AdvanceMark, Fetched
<1>12. ASSUME NEW r \in Run, Fail(r) PROVE TypeOK'
  <2>1. faults' \in 0..MaxFaults BY <1>12 DEF Fail
  <2> QED BY <1>12, <2>1, LeaveTypes DEF Fail, mirror, Fetched
<1>13. CASE UNCHANGED vars BY <1>13 DEF vars, mirror, local
<1>14. ASSUME NEW r \in Run, Pass(r) PROVE TypeOK'
  BY <1>9, <1>10, <1>14 DEF Pass, Normalizing
<1> QED
  BY <1>1, <1>2, <1>3, <1>4, <1>5, <1>6, <1>7, <1>8, <1>11, <1>12, <1>13, <1>14
  DEF Next, Step

\* Initially everything has its type.
LEMMA TypeInit == Init => TypeOK
BY BoundAssumption DEF Init, TypeOK, Version, Point, Nothing

\* Type correctness: in particular no unanswered request is ever written.
THEOREM MirrorTypes == Spec => []TypeOK
BY TypeInit, TypeStep, PTL DEF Spec

-----------------------------------------------------------------------------
(* The watermark.                                                          *)

\* The kinds of rows a run has read, and those it has written once.
Read(point) == CASE point = "reading" -> {}
                 [] point \in {"writing", "rereading"} -> {"job"}
                 [] OTHER -> {"job", "visits"}
Written(point) == CASE point \in {"reading", "writing"} -> {}
                    [] point \in {"rereading", "visiting"} -> {"job"}
                    [] OTHER -> {"job", "visits"}

\* What holds at every step while normalizeAll runs do not overlap: a platform
\* row that differs from its raw row is above the watermark; a run that
\* normalizes is told of every such row, either by the watermark it read or
\* because the row was written since; and the rows it has read are current
\* unless they were written since.
MarkInv ==
  /\ \A r, s \in Run : pc[r] \in Normalizing /\ pc[s] \in Normalizing => r = s
  /\ \A x \in Rows : platform[x] # raw[x] => x \in above
  /\ \A r \in Run : pc[r] \in Normalizing =>
       /\ newer[r] \subseteq above
       /\ above \subseteq since[r] \cup newer[r]
       /\ \A x \in Rows \ newer[r] :
            /\ x[2] \in Read(pc[r]) =>
                 /\ buffer[r][x] \in {None, raw[x]}
                 /\ x \in since[r] => buffer[r][x] # None
            /\ x[2] \in Written(pc[r]) => platform[x] = raw[x]

\* MarkInv survives a step that writes raw rows and tells every normalizer.
LEMMA MarkUpsert ==
  ASSUME TypeOK, MarkInv, NEW r \in Run, NEW X \in SUBSET Rows, Upsert(r, X),
         UNCHANGED <<platform, since, buffer>>,
         pc[r] \notin Normalizing, NEW point \in Point \ Normalizing, Go(r, point)
  PROVE  MarkInv'
<1> USE DEF MarkInv
<1>1. \A s \in Run : /\ pc'[s] \in Normalizing <=> pc[s] \in Normalizing
                     /\ pc[s] \in Normalizing => pc'[s] = pc[s]
  BY DEF Go, TypeOK
<1>2. \A x \in Rows \ X : raw'[x] = raw[x] BY DEF Upsert
<1>3. above' = above \cup X BY DEF Upsert
<1>4. \A s \in Run : pc[s] \in Normalizing => newer'[s] = newer[s] \cup X
  BY DEF Upsert
<1>5. \A x \in Rows : platform'[x] # raw'[x] => x \in above'
  BY <1>2, <1>3
<1>6. ASSUME NEW s \in Run, pc'[s] \in Normalizing
      PROVE  /\ newer'[s] \subseteq above'
             /\ above' \subseteq since'[s] \cup newer'[s]
             /\ \A x \in Rows \ newer'[s] :
                  /\ x[2] \in Read(pc'[s]) =>
                       /\ buffer'[s][x] \in {None, raw'[x]}
                       /\ x \in since'[s] => buffer'[s][x] # None
                  /\ x[2] \in Written(pc'[s]) => platform'[x] = raw'[x]
  <2>1. pc[s] \in Normalizing /\ pc'[s] = pc[s] BY <1>1, <1>6
  <2>2. newer'[s] = newer[s] \cup X BY <1>4, <2>1
  <2> QED BY <1>2, <1>3, <2>1, <2>2
<1> QED BY <1>1, <1>5, <1>6

\* MarkInv survives steps that leave the rows alone and in which no run enters
\* or moves within normalizing; runs may leave it.
LEMMA MarkFrame ==
  ASSUME TypeOK, MarkInv, UNCHANGED <<raw, above, platform>>,
         \A s \in Run : pc'[s] \in Normalizing =>
           /\ pc'[s] = pc[s]
           /\ since'[s] = since[s] /\ newer'[s] = newer[s]
           /\ buffer'[s] = buffer[s]
  PROVE  MarkInv'
BY DEF MarkInv

\* Every step of Next keeps MarkInv.
LEMMA MarkStep ==
  ASSUME ~NormalizeOverlaps, TypeOK, MarkInv, [Next]_vars
  PROVE  MarkInv'
<1> USE DEF Go
<1>1. ASSUME NEW j \in Job, Change(j) PROVE MarkInv'
  BY <1>1, MarkFrame DEF Change, local
<1>2. ASSUME NEW r \in Run, StartPoll(r) \/ StartTargeted(r) PROVE MarkInv'
  <2>1. /\ pc' = [pc EXCEPT ![r] = "details"]
        /\ UNCHANGED <<raw, above, platform, since, newer, buffer>>
    BY <1>2 DEF StartPoll, StartTargeted, mirror
  <2>2. \A s \in Run : pc'[s] \in Normalizing => pc'[s] = pc[s]
    BY <2>1 DEF TypeOK, Normalizing
  <2> QED BY <2>1, <2>2, MarkFrame
<1>3. ASSUME NEW r \in Run, NEW j \in Job, FetchDetail(r, j) \/ FetchVisits(r, j)
      PROVE  MarkInv'
  <2>1. UNCHANGED <<raw, above, platform, pc, since, newer, buffer>>
    BY <1>3 DEF FetchDetail, FetchVisits, Fetch, mirror
  <2> QED BY <2>1, MarkFrame
<1>4. ASSUME NEW r \in Run, WriteJobs(r) PROVE MarkInv'
  <2>1. /\ Upsert(r, Of(Jobs(r), "job")) /\ Go(r, "visits") /\ pc[r] = "details"
        /\ UNCHANGED <<platform, since, buffer>>
    BY <1>4 DEF WriteJobs
  <2>2. Of(Jobs(r), "job") \in SUBSET Rows BY DEF Of
  <2>3. pc[r] \notin Normalizing /\ "visits" \in Point \ Normalizing
    BY <2>1 DEF Normalizing, Point, Fetching
  <2> QED BY <2>1, <2>2, <2>3, MarkUpsert
<1>5. ASSUME NEW r \in Run, WriteVisits(r) PROVE MarkInv'
  <2> DEFINE X == {x \in Of(Jobs(r), "visits") : got[r][x] # Lost}
  <2>1. /\ Upsert(r, X) /\ Go(r, "stamping") /\ pc[r] = "visits"
        /\ UNCHANGED <<platform, since, buffer>>
    BY <1>5 DEF WriteVisits, local
  <2>2. X \in SUBSET Rows BY DEF Of
  <2>3. pc[r] \notin Normalizing /\ "stamping" \in Point \ Normalizing
    BY <2>1 DEF Normalizing, Point, Fetching
  <2> HIDE DEF X
  <2> QED BY <2>1, <2>2, <2>3, MarkUpsert
<1>6. ASSUME NEW r \in Run, StampCursor(r) PROVE MarkInv'
  <2>1. /\ pc' = [pc EXCEPT ![r] = "normalize"]
        /\ UNCHANGED <<raw, above, platform, since, newer, buffer>>
    BY <1>6 DEF StampCursor, local
  <2>2. \A s \in Run : pc'[s] \in Normalizing => pc'[s] = pc[s]
    BY <2>1 DEF TypeOK, Normalizing
  <2> QED BY <2>1, <2>2, MarkFrame
<1>7. ASSUME NEW r \in Run, StartNormalize(r) PROVE MarkInv'
  <2>1. /\ \A s \in Run : pc[s] \notin Normalizing
        /\ since' = [since EXCEPT ![r] = above]
        /\ newer' = [newer EXCEPT ![r] = {}]
        /\ pc' = [pc EXCEPT ![r] = "reading"]
        /\ UNCHANGED <<raw, above, platform>>
    BY <1>7 DEF StartNormalize, mirror
  <2>2. \A s \in Run : pc'[s] \in Normalizing => s = r /\ pc'[s] = "reading"
    BY <2>1 DEF TypeOK
  <2>3. since'[r] = above /\ newer'[r] = {} BY <2>1 DEF TypeOK
  <2>4. Read("reading") = {} /\ Written("reading") = {} BY DEF Read, Written
  <2> QED BY <2>1, <2>2, <2>3, <2>4 DEF MarkInv
<1>8. ASSUME NEW r \in Run, NEW kind \in {"job", "visits"},
             NEW from \in Normalizing, NEW to \in Normalizing,
             Read(to) = Read(from) \cup {kind}, Written(to) = Written(from),
             ReadRaw(r, kind, from, to)
      PROVE  MarkInv'
  <2>1. /\ pc[r] = from /\ pc' = [pc EXCEPT ![r] = to]
        /\ buffer' = [buffer EXCEPT ![r] = [x \in Rows |->
             IF x[2] # kind THEN buffer[r][x]
             ELSE IF x \in since[r] \cup newer[r] THEN raw[x] ELSE None]]
        /\ UNCHANGED <<raw, above, platform, since, newer>>
    BY <1>8 DEF ReadRaw, mirror
  <2>2. \A s \in Run : pc'[s] \in Normalizing => s = r
    BY <2>1 DEF MarkInv, TypeOK
  <2>3. /\ pc'[r] = to
        /\ \A x \in Rows : buffer'[r][x] =
             IF x[2] # kind THEN buffer[r][x]
             ELSE IF x \in since[r] \cup newer[r] THEN raw[x] ELSE None
    BY <2>1 DEF TypeOK
  <2>4. \A x \in Rows : raw[x] # None BY BoundAssumption DEF TypeOK, Version
  <2>5. ASSUME NEW x \in Rows \ newer[r]
        PROVE  /\ x[2] \in Read(to) => /\ buffer'[r][x] \in {None, raw[x]}
                                       /\ x \in since[r] => buffer'[r][x] # None
               /\ x[2] \in Written(to) => platform[x] = raw[x]
    BY <1>8, <2>1, <2>3, <2>4 DEF MarkInv
  <2> QED BY <1>8, <2>1, <2>2, <2>3, <2>5 DEF MarkInv
<1>9. ASSUME NEW r \in Run, NEW kind \in {"job", "visits"},
             NEW from \in Normalizing, NEW to \in Normalizing,
             kind \in Read(from), Read(to) = Read(from),
             Written(to) = Written(from) \cup {kind},
             WritePlatform(r, kind, from, to)
      PROVE  MarkInv'
  <2>1. /\ pc[r] = from /\ pc' = [pc EXCEPT ![r] = to]
        /\ platform' = [x \in Rows |->
             IF x[2] = kind /\ buffer[r][x] # None THEN buffer[r][x]
             ELSE platform[x]]
        /\ UNCHANGED <<raw, above, since, newer, buffer>>
    BY <1>9 DEF WritePlatform, local
  <2>2. \A s \in Run : pc'[s] \in Normalizing => s = r
    BY <2>1 DEF MarkInv, TypeOK
  <2>3. pc'[r] = to BY <2>1 DEF TypeOK
  <2>4. ASSUME NEW x \in Rows \ newer[r]
        PROVE  /\ x[2] \in Written(to) => platform'[x] = raw[x]
               /\ platform'[x] # raw[x] => x \in above
    <3>1. above \subseteq since[r] \cup newer[r] BY <2>1 DEF MarkInv
    <3>2. platform[x] # raw[x] => x \in above BY DEF MarkInv
    <3>3. x[2] \in Written(from) => platform[x] = raw[x] BY <2>1 DEF MarkInv
    <3>4. CASE x[2] # kind BY <1>9, <2>1, <3>2, <3>3, <3>4
    <3>5. CASE x[2] = kind
      <4>1. /\ buffer[r][x] \in {None, raw[x]}
            /\ x \in since[r] => buffer[r][x] # None
        BY <1>9, <2>1, <3>5 DEF MarkInv
      <4>2. CASE buffer[r][x] = None BY <2>1, <3>1, <3>2, <4>1, <4>2
      <4>3. CASE buffer[r][x] # None BY <2>1, <3>5, <4>1, <4>3
      <4> QED BY <4>2, <4>3
    <3> QED BY <3>4, <3>5
  <2>5. ASSUME NEW x \in Rows, platform'[x] # raw'[x] PROVE x \in above'
    \* A row written since the run started is above the watermark anyway.
    <3>1. newer[r] \subseteq above BY <2>1 DEF MarkInv
    <3> QED BY <2>1, <2>4, <2>5, <3>1
  <2>6. \A x \in Rows \ newer[r] : x[2] \in Read(to) =>
          /\ buffer[r][x] \in {None, raw[x]}
          /\ x \in since[r] => buffer[r][x] # None
    BY <1>9, <2>1 DEF MarkInv
  <2>7. newer[r] \subseteq above /\ above \subseteq since[r] \cup newer[r]
    BY <2>1 DEF MarkInv
  <2> QED BY <2>1, <2>2, <2>3, <2>4, <2>5, <2>6, <2>7 DEF MarkInv
<1>10. ASSUME NEW r \in Run, AdvanceMark(r) PROVE MarkInv'
  <2>1. /\ pc[r] = "advancing" /\ above' = newer[r]
        /\ pc' = [pc EXCEPT ![r] = "idle"]
        /\ UNCHANGED <<raw, platform>>
    BY <1>10 DEF AdvanceMark, StillAbove, Leave
  <2>2. pc[r] \in Normalizing BY <2>1 DEF Normalizing
  <2>3. \A s \in Run : pc'[s] \notin Normalizing
    BY <2>1, <2>2 DEF MarkInv, TypeOK, Normalizing
  <2>4. \A x \in Rows \ newer[r] : platform[x] = raw[x]
    <3>1. Written("advancing") = {"job", "visits"} BY DEF Written
    <3>2. \A x \in Rows : x[2] \in {"job", "visits"} BY DEF Rows
    <3> QED BY <2>1, <2>2, <3>1, <3>2 DEF MarkInv
  <2> QED BY <2>1, <2>3, <2>4 DEF MarkInv
<1>11. ASSUME NEW r \in Run, Fail(r) PROVE MarkInv'
  <2>1. UNCHANGED <<raw, above, platform>> BY <1>11 DEF Fail, mirror
  <2>2. \A s \in Run : s # r => /\ pc'[s] = pc[s] /\ since'[s] = since[s]
                                /\ newer'[s] = newer[s] /\ buffer'[s] = buffer[s]
    BY <1>11 DEF Fail, Leave, TypeOK
  <2>3. pc'[r] \notin Normalizing BY <1>11 DEF Fail, Leave, TypeOK, Normalizing
  <2> QED BY <2>1, <2>2, <2>3, MarkFrame
<1>12. CASE UNCHANGED vars
  BY <1>12, MarkFrame DEF vars, mirror, local
<1>13. ASSUME NEW r \in Run, Pass(r) PROVE MarkInv'
  <2>1. /\ Read("reading") = {} /\ Read("writing") = {"job"}
        /\ Read("rereading") = {"job"} /\ Read("visiting") = {"job", "visits"}
        /\ Read("rewriting") = {"job", "visits"}
        /\ Read("advancing") = {"job", "visits"}
    BY DEF Read
  <2>2. /\ Written("reading") = {} /\ Written("writing") = {}
        /\ Written("rereading") = {"job"} /\ Written("visiting") = {"job"}
        /\ Written("rewriting") = {"job", "visits"}
        /\ Written("advancing") = {"job", "visits"}
    BY DEF Written
  <2>3. CASE ReadRaw(r, "job", "reading", "writing")
    BY <1>8, <2>1, <2>2, <2>3 DEF Normalizing
  <2>4. CASE WritePlatform(r, "job", "writing", "rereading")
    BY <1>9, <2>1, <2>2, <2>4 DEF Normalizing
  <2>5. CASE ReadRaw(r, "visits", "rereading", "visiting")
    BY <1>8, <2>1, <2>2, <2>5 DEF Normalizing
  <2>6. CASE WritePlatform(r, "visits", "visiting", "rewriting")
    BY <1>9, <2>1, <2>2, <2>6 DEF Normalizing
  <2>7. CASE WritePlatform(r, "job", "rewriting", "advancing")
    BY <1>9, <2>1, <2>2, <2>7 DEF Normalizing
  <2> QED BY <1>13, <2>3, <2>4, <2>5, <2>6, <2>7 DEF Pass
<1> QED
  BY <1>1, <1>2, <1>3, <1>4, <1>5, <1>6, <1>7, <1>10, <1>11, <1>12, <1>13
  DEF Next, Step

\* As long as normalizeAll runs do not overlap, no raw change is ever lost
\* below the watermark, however many syncs write while one normalizes.
THEOREM MarkKept ==
  ASSUME ~NormalizeOverlaps
  PROVE  Spec => []RawNotMissed
<1>1. Init => TypeOK /\ MarkInv
  BY TypeInit DEF Init, MarkInv, Normalizing
<1>2. TypeOK /\ MarkInv /\ [Next]_vars => (TypeOK /\ MarkInv)'
  BY TypeStep, MarkStep
<1>3. MarkInv => RawNotMissed
  BY DEF MarkInv, RawNotMissed
<1> QED BY <1>1, <1>2, <1>3, PTL DEF Spec

-----------------------------------------------------------------------------
(* The jobs cursor.                                                        *)

\* Syncs that do not overlap: one run is fetching at most, and an idle one
\* holds nothing of an earlier run.
Alone ==
  /\ \A r, s \in Run : pc[r] \in Fetching /\ pc[s] \in Fetching => r = s
  /\ \A r \in Run : pc[r] = "idle" => changed[r] = {} /\ got[r] = Nothing

\* What a run fetched is current unless the job changed since the run started,
\* and such a job stays listed whatever the cursor does.
Fresh ==
  \A r \in Run :
    /\ changed[r] \subseteq due
    /\ \A j \in Job \ changed[r] : got[r][<<j, "job">>] \in {None, Lost, crm[j]}

\* What is not listed is up to date; a poll that may still move the cursor has
\* every listed job in hand, and later has written it, unless it changed since.
Covered ==
  /\ \A j \in Job \ due : raw[<<j, "job">>] = crm[j]
  /\ \A r \in Poll : complete[r] =>
       /\ pc[r] = "details" => due \ changed[r] \subseteq stubs[r]
       /\ pc[r] \in {"visits", "stamping"} =>
            \A j \in due \ changed[r] : raw[<<j, "job">>] = crm[j]

CursorInv == (\A j \in Job : inList[j]) /\ Alone /\ Fresh /\ Covered

\* CursorInv survives a step of an active run from stamping the cursor on.
LEMMA CursorFrame ==
  ASSUME TypeOK, CursorInv, NEW r \in Run, pc[r] # "idle",
         NEW point \in Normalizing \cup {"normalize"}, Go(r, point),
         UNCHANGED <<crm, inList, due, raw, stubs, complete, got, changed>>
  PROVE  CursorInv'
<1>1. \A s \in Run : s # r => pc'[s] = pc[s] BY DEF Go, TypeOK
<1>2. pc'[r] = point /\ point \notin {"idle", "details", "visits", "stamping"}
  BY DEF Go, TypeOK, Normalizing
<1>3. Alone' BY <1>1, <1>2 DEF CursorInv, Alone, Fetching
<1>4. Fresh' BY DEF CursorInv, Fresh
<1>5. Covered' BY <1>1, <1>2, RunAssumption DEF CursorInv, Covered
<1> QED BY <1>3, <1>4, <1>5 DEF CursorInv

\* CursorInv survives the end of a run.
LEMMA CursorLeave ==
  ASSUME TypeOK, CursorInv, NEW r \in Run, Leave(r),
         UNCHANGED <<crm, inList, due, raw>>
  PROVE  CursorInv'
<1>1. \A s \in Run : s # r => /\ pc'[s] = pc[s] /\ changed'[s] = changed[s]
                              /\ got'[s] = got[s] /\ stubs'[s] = stubs[s]
                              /\ complete'[s] = complete[s]
  BY DEF Leave, Go, TypeOK
<1>2. pc'[r] = "idle" /\ changed'[r] = {} /\ got'[r] = Nothing
  BY DEF Leave, Go, TypeOK
<1>3. \A j \in Job : Nothing[<<j, "job">>] = None BY DEF Nothing, Rows
<1>4. Alone' BY <1>1, <1>2 DEF CursorInv, Alone, Fetching
<1>5. Fresh' BY <1>1, <1>2, <1>3 DEF CursorInv, Fresh
<1>6. Covered' BY <1>1, <1>2, RunAssumption DEF CursorInv, Covered
<1> QED BY <1>4, <1>5, <1>6 DEF CursorInv

\* Every step of Next keeps CursorInv.
LEMMA CursorStep ==
  ASSUME ~SyncOverlaps, ~JobsLeave, TypeOK, CursorInv, [Next]_vars
  PROVE  CursorInv'
<1> USE RunAssumption DEF CursorInv, Go
<1>1. ASSUME NEW j \in Job, Change(j) PROVE CursorInv'
  <2>1. /\ crm' = [crm EXCEPT ![j] = @ + 1] /\ due' = due \cup {j}
        /\ changed' = [r \in Run |-> IF r \in Active THEN changed[r] \cup {j}
                                     ELSE {}]
        /\ UNCHANGED <<inList, raw, pc, stubs, complete, got>>
    BY <1>1 DEF Change, local
  <2>2. \A r \in Run : /\ pc[r] # "idle" => changed'[r] = changed[r] \cup {j}
                       /\ pc[r] = "idle" => changed'[r] = {} /\ changed[r] = {}
    BY <2>1 DEF Active, Alone
  <2>3. \A i \in Job : i # j => crm'[i] = crm[i] BY <2>1 DEF TypeOK
  <2>4. Alone' BY <2>1, <2>2 DEF Alone
  <2>5. ASSUME NEW r \in Run
        PROVE  /\ changed'[r] \subseteq due'
               /\ \A i \in Job \ changed'[r] :
                    got'[r][<<i, "job">>] \in {None, Lost, crm'[i]}
    <3>1. CASE pc[r] = "idle"
      <4>1. got[r] = Nothing BY <3>1 DEF Alone
      <4>2. \A i \in Job : Nothing[<<i, "job">>] = None BY DEF Nothing, Rows
      <4> QED BY <2>1, <2>2, <3>1, <4>1, <4>2
    <3>2. CASE pc[r] # "idle" BY <2>1, <2>2, <2>3, <3>2 DEF Fresh
    <3> QED BY <3>1, <3>2
  <2>6. Fresh' BY <2>5 DEF Fresh
  <2>7. ASSUME NEW r \in Poll, complete'[r]
        PROVE  /\ pc'[r] = "details" => due' \ changed'[r] \subseteq stubs'[r]
               /\ pc'[r] \in {"visits", "stamping"} =>
                    \A i \in due' \ changed'[r] : raw'[<<i, "job">>] = crm'[i]
    <3>1. pc[r] # "idle" => j \in changed'[r] /\ changed[r] \subseteq changed'[r]
      BY <2>2
    <3>2. due \subseteq Job BY DEF TypeOK
    <3> QED BY <2>1, <2>3, <2>7, <3>1, <3>2 DEF Covered
  <2>8. Covered' BY <2>1, <2>3, <2>7 DEF Covered
  <2> QED BY <2>1, <2>4, <2>6, <2>8
<1>2. ASSUME NEW r \in Run, StartPoll(r) \/ StartTargeted(r) PROVE CursorInv'
  <2>1. /\ pc[r] = "idle" /\ \A s \in Run : pc[s] \notin Fetching
        /\ pc' = [pc EXCEPT ![r] = "details"]
        /\ UNCHANGED <<crm, inList, due, raw, got, changed>>
    BY <1>2 DEF StartPoll, StartTargeted, mirror
  <2>2. /\ \A s \in Run : s # r => pc'[s] = pc[s] /\ pc'[s] \notin Fetching
        /\ pc'[r] = "details" /\ changed'[r] = {} /\ got'[r] = Nothing
    BY <2>1 DEF Alone, TypeOK
  <2>3. Alone' BY <2>1, <2>2 DEF Alone
  <2>4. Fresh' BY <2>1 DEF Fresh
  <2>5. ASSUME r \in Poll, complete'[r] PROVE due \subseteq stubs'[r]
    <3>1. StartPoll(r) BY <1>2, <2>5 DEF StartTargeted
    <3>2. PICK S \in SUBSET {j \in due : inList[j]} :
            /\ stubs' = [stubs EXCEPT ![r] = S]
            /\ complete' = [complete EXCEPT ![r] = (S = {j \in due : inList[j]})]
      BY <3>1 DEF StartPoll
    <3>3. {j \in due : inList[j]} = due BY DEF TypeOK
    <3>4. S = due BY <2>5, <3>2, <3>3 DEF TypeOK
    <3> QED BY <3>2, <3>4 DEF TypeOK
  <2>6. pc'[r] = "details" BY <2>1 DEF TypeOK
  <2>7. Covered' BY <2>1, <2>2, <2>5, <2>6 DEF Covered, Fetching
  <2> QED BY <2>1, <2>3, <2>4, <2>7
<1>3. ASSUME NEW r \in Run, NEW j \in Job, FetchDetail(r, j) \/ FetchVisits(r, j)
      PROVE  CursorInv'
  <2>1. PICK kind \in {"job", "visits"}, mayFail \in BOOLEAN :
          Fetch(r, j, kind, mayFail)
    BY <1>3, FlagAssumption DEF FetchDetail, FetchVisits
  <2>2. pc[r] \in {"details", "visits"} BY <1>3 DEF FetchDetail, FetchVisits
  <2>3. /\ got'[r][<<j, kind>>] \in {crm[j], Lost}
        /\ \A x \in Rows : x # <<j, kind>> => got'[r][x] = got[r][x]
        /\ \A s \in Run : s # r => got'[s] = got[s]
        /\ UNCHANGED <<crm, inList, due, raw, pc, stubs, complete, changed>>
    <3> HIDE DEF CursorInv, Go
    <3> QED BY <2>1, FetchCell, Zenon
  <2>4. Alone' BY <2>2, <2>3 DEF Alone
  <2>5. ASSUME NEW i \in Job \ changed[r]
        PROVE  got'[r][<<i, "job">>] \in {None, Lost, crm[i]}
    <3>1. CASE <<i, "job">> = <<j, kind>> BY <2>3, <3>1
    <3>2. CASE <<i, "job">> # <<j, kind>>
      <4>1. <<i, "job">> \in Rows BY DEF Rows
      <4> QED BY <2>3, <3>2, <4>1 DEF Fresh
    <3> QED BY <3>1, <3>2
  <2>6. Fresh' BY <2>3, <2>5 DEF Fresh
  <2>7. Covered' BY <2>3 DEF Covered
  <2> QED BY <2>3, <2>4, <2>6, <2>7
<1>4. ASSUME NEW r \in Run, WriteJobs(r) PROVE CursorInv'
  <2>1. /\ pc[r] = "details"
        /\ \A j \in stubs[r] : got[r][<<j, "job">>] # None
        /\ complete' = [complete EXCEPT ![r] = @ /\ Jobs(r) = stubs[r]]
        /\ raw' = [x \in Rows |-> IF x \in Of(Jobs(r), "job") THEN got[r][x]
                                  ELSE raw[x]]
        /\ pc' = [pc EXCEPT ![r] = "visits"]
        /\ UNCHANGED <<crm, inList, due, stubs, got, changed>>
    BY <1>4 DEF WriteJobs, Upsert
  <2>2. \A s \in Run : s # r => pc'[s] = pc[s] /\ pc'[s] \notin Fetching
    BY <2>1 DEF Alone, TypeOK, Fetching
  <2>3. pc'[r] = "visits" BY <2>1 DEF TypeOK
  <2>4. Alone' BY <2>1, <2>2, <2>3 DEF Alone
  <2>5. Fresh' BY <2>1 DEF Fresh
  <2>6. ASSUME NEW j \in Job
        PROVE  raw'[<<j, "job">>] = IF j \in Jobs(r) THEN got[r][<<j, "job">>]
                                    ELSE raw[<<j, "job">>]
    <3>1. <<j, "job">> \in Rows BY DEF Rows
    <3>2. <<j, "job">> \in Of(Jobs(r), "job") <=> j \in Jobs(r)
      BY <3>1 DEF Of
    <3> QED BY <2>1, <3>1, <3>2
  <2>7. ASSUME NEW j \in Job \ changed[r], j \in Jobs(r)
        PROVE  raw'[<<j, "job">>] = crm[j]
    <3>1. j \in stubs[r] /\ got[r][<<j, "job">>] # Lost BY <2>7 DEF Jobs
    <3>2. got[r][<<j, "job">>] = crm[j] BY <2>1, <3>1 DEF Fresh
    <3> QED BY <2>6, <2>7, <3>2
  <2>8. \A j \in Job \ due' : raw'[<<j, "job">>] = crm'[j]
    BY <2>1, <2>6, <2>7 DEF Fresh, Covered
  <2>9. ASSUME r \in Poll, complete'[r], NEW j \in due' \ changed'[r]
        PROVE  raw'[<<j, "job">>] = crm'[j]
    <3>1. complete[r] /\ Jobs(r) = stubs[r] BY <2>1, <2>9 DEF TypeOK
    <3>2. j \in stubs[r] BY <2>1, <2>9, <3>1 DEF Covered
    <3>3. j \in Job BY <2>1, <2>9 DEF TypeOK
    <3> QED BY <2>1, <2>7, <2>9, <3>1, <3>2, <3>3
  <2>10. Covered' BY <2>2, <2>3, <2>8, <2>9 DEF Covered, Fetching
  <2> QED BY <2>1, <2>4, <2>5, <2>10
<1>5. ASSUME NEW r \in Run, WriteVisits(r) PROVE CursorInv'
  <2> DEFINE X == {x \in Of(Jobs(r), "visits") : got[r][x] # Lost}
  <2>1. /\ pc[r] = "visits"
        /\ raw' = [x \in Rows |-> IF x \in X THEN got[r][x] ELSE raw[x]]
        /\ pc' = [pc EXCEPT ![r] = "stamping"]
        /\ UNCHANGED <<crm, inList, due, stubs, complete, got, changed>>
    BY <1>5 DEF WriteVisits, Upsert, local
  <2>2. \A j \in Job : raw'[<<j, "job">>] = raw[<<j, "job">>]
    <3>1. \A j \in Job : <<j, "job">> \in Rows /\ <<j, "job">> \notin X
      BY DEF Rows, Of
    <3> HIDE DEF X
    <3> QED BY <2>1, <3>1
  <2>3. \A s \in Run : s # r => pc'[s] = pc[s] /\ pc'[s] \notin Fetching
    BY <2>1 DEF Alone, TypeOK, Fetching
  <2>4. pc'[r] = "stamping" BY <2>1 DEF TypeOK
  <2>5. Alone' BY <2>1, <2>3, <2>4 DEF Alone
  <2>6. Fresh' BY <2>1 DEF Fresh
  <2>7. due \subseteq Job BY DEF TypeOK
  <2>8. Covered' BY <2>1, <2>2, <2>3, <2>4, <2>7 DEF Covered
  <2> QED BY <2>1, <2>5, <2>6, <2>8
<1>6. ASSUME NEW r \in Run, StampCursor(r) PROVE CursorInv'
  <2>1. /\ pc[r] = "stamping"
        /\ due' \in IF MovesCursor(r)
                    THEN {D \in SUBSET due : Recent \cap due \subseteq D} ELSE {due}
        /\ pc' = [pc EXCEPT ![r] = "normalize"]
        /\ UNCHANGED <<crm, inList, raw, stubs, complete, got, changed>>
    BY <1>6 DEF StampCursor, local
  <2>2. \A s \in Run : s # r => pc'[s] = pc[s] /\ pc'[s] \notin Fetching
    BY <2>1 DEF Alone, TypeOK, Fetching
  <2>3. pc'[r] = "normalize" BY <2>1 DEF TypeOK
  <2>4. due' \subseteq due BY <2>1
  <2>5. ASSUME NEW s \in Run PROVE changed[s] \subseteq due'
    <3>1. CASE pc[s] = "idle" BY <3>1 DEF Alone
    <3>2. CASE pc[s] # "idle"
      <4>1. changed[s] \subseteq due BY DEF Fresh
      <4>2. changed[s] \subseteq Recent BY <3>2 DEF Recent, Active
      <4> QED BY <2>1, <4>1, <4>2
    <3> QED BY <3>1, <3>2
  <2>6. ASSUME NEW j \in Job \ due' PROVE raw'[<<j, "job">>] = crm'[j]
    <3>1. CASE j \notin due BY <2>1, <3>1 DEF Covered
    <3>2. CASE j \in due
      <4>1. MovesCursor(r) BY <2>1, <2>6, <3>2
      <4>2. j \notin changed[r] BY <2>5, <2>6
      <4> QED BY <2>1, <3>2, <4>1, <4>2 DEF MovesCursor, Covered
    <3> QED BY <3>1, <3>2
  <2>7. Alone' BY <2>1, <2>2, <2>3 DEF Alone, Fetching
  <2>8. Fresh' BY <2>1, <2>5 DEF Fresh
  <2>9. Covered' BY <2>2, <2>3, <2>6 DEF Covered, Fetching
  <2> QED BY <2>1, <2>7, <2>8, <2>9
<1>7. ASSUME NEW r \in Run, StartNormalize(r) \/ Pass(r)
      PROVE  CursorInv'
  <2>1. PICK point \in Normalizing : Go(r, point)
    BY <1>7 DEF StartNormalize, Pass, ReadRaw, WritePlatform, Normalizing
  <2>2. /\ pc[r] # "idle"
        /\ UNCHANGED <<crm, inList, due, raw, stubs, complete, got, changed>>
    BY <1>7 DEF StartNormalize, Pass, ReadRaw, WritePlatform, mirror, local
  <2> QED BY <2>1, <2>2, CursorFrame
<1>8. ASSUME NEW r \in Run, AdvanceMark(r) \/ Fail(r) PROVE CursorInv'
  BY <1>8, CursorLeave DEF AdvanceMark, Fail, mirror
<1>9. CASE UNCHANGED vars
  BY <1>9 DEF vars, mirror, local, Alone, Fresh, Covered
<1> QED
  BY <1>1, <1>2, <1>3, <1>4, <1>5, <1>6, <1>7, <1>8, <1>9 DEF Next, Step

\* As long as syncs do not overlap, whatever normalizes meanwhile, and jobs stay
\* in the polled list, the cursor never skips a change of a job: whatever
\* requests and runs fail, a job whose raw detail is out of date is listed by the
\* next poll.
THEOREM CursorKept ==
  ASSUME ~SyncOverlaps, ~JobsLeave
  PROVE  Spec => []JobsNotMissed
<1>1. Init => TypeOK /\ CursorInv
  <2> SUFFICES ASSUME Init PROVE TypeOK /\ CursorInv OBVIOUS
  <2>1. TypeOK BY TypeInit
  <2>2. \A j \in Job : /\ <<j, "job">> \in Rows
                       /\ Nothing[<<j, "job">>] = None
    BY DEF Rows, Nothing
  <2>3. Alone BY DEF Init, Alone, Fetching
  <2>4. Fresh BY <2>2 DEF Init, Fresh
  <2>5. Covered BY <2>2, RunAssumption DEF Init, Covered
  <2> QED BY <2>1, <2>3, <2>4, <2>5 DEF Init, CursorInv
<1>2. TypeOK /\ CursorInv /\ [Next]_vars => (TypeOK /\ CursorInv)'
  BY TypeStep, CursorStep
<1>3. CursorInv => JobsNotMissed
  BY DEF CursorInv, Covered, JobsNotMissed
<1> QED BY <1>1, <1>2, <1>3, PTL DEF Spec
=============================================================================
