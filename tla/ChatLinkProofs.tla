--------------------------- MODULE ChatLinkProofs ---------------------------
(***************************************************************************)
(* Theorems about ChatLink for every set of links, requests and sweeps.    *)
(***************************************************************************)
EXTENDS ChatLink, SequenceTheorems, TLAPS

Statuses == {"sent", "in_progress", "ended", "expired"}
StatusOK == status \in [Token -> Statuses]

\* What a step may do to the status column.
LEMMA StatusStep ==
  ASSUME StatusOK, [Next]_vars
  PROVE  /\ StatusOK'
         /\ \A t \in Token :
              /\ status[t] = "ended" => status'[t] = "ended"
              /\ status[t] = "expired" => status'[t] \in {"expired", "ended"}
<1> DEFINE Goal == /\ StatusOK'
                   /\ \A t \in Token :
                        /\ status[t] = "ended" => status'[t] = "ended"
                        /\ status[t] = "expired" => status'[t] \in {"expired", "ended"}
<1>1. ASSUME UNCHANGED status PROVE Goal
  BY <1>1 DEF StatusOK
<1>2. ASSUME NEW p \in Turn, NEW t \in Token, Open(p, t) PROVE Goal
  <2>1. status' = [status EXCEPT ![t] =
                     IF status[t] = "sent" THEN "in_progress" ELSE status[t]]
    BY <1>2 DEF Open, Opened
  <2> QED BY <2>1 DEF StatusOK, Statuses
<1>3. ASSUME NEW p \in Turn, MarkEnded(p) PROVE Goal
  <2>1. status' = [status EXCEPT ![at[p]] = "ended"]
    BY <1>3 DEF MarkEnded
  <2> QED BY <2>1 DEF StatusOK, Statuses
<1>4. ASSUME NEW s \in Sweep, Expire(s) PROVE Goal
  <2>1. status' = [t \in Token |-> IF t \in Stale THEN "expired" ELSE status[t]]
    BY <1>4 DEF Expire
  <2>2. \A t \in Stale : status[t] \in {"sent", "in_progress"}
    BY DEF Stale, Live
  <2> QED BY <2>1, <2>2 DEF StatusOK, Statuses
<1>5. ASSUME NEW t \in Token, Lapse(t) PROVE UNCHANGED status
  BY <1>5 DEF Lapse
<1>6. ASSUME NEW p \in Turn, TurnStep(p), ~MarkEnded(p) PROVE UNCHANGED status
  BY <1>6 DEF TurnStep, Greet, Act, SaveTools, Save, ReadBack, row
<1>7. ASSUME NEW p \in Turn, MarkFails(p) \/ TurnDies(p) PROVE UNCHANGED status
  BY <1>7 DEF MarkFails, TurnDies, row
<1>8. ASSUME NEW p \in Turn, NEW t \in Token, Send(p, t) PROVE UNCHANGED status
  BY <1>8 DEF Send, row
<1>9. ASSUME NEW s \in Sweep, SweepStep(s), ~Expire(s) PROVE UNCHANGED status
  BY <1>9 DEF SweepStep, Stamp, Visit, row
<1>10. ASSUME NEW s \in Sweep, List(s) \/ SweepDies(s) PROVE UNCHANGED status
  BY <1>10 DEF List, SweepDies, row
<1>11. ASSUME NEW s \in Sweep, NEW t \in Token, RowFails(s, t) PROVE UNCHANGED status
  BY <1>11 DEF RowFails, row
<1>12. ASSUME NEW w \in Worker, CommentStep(w) \/ CheckFails(w) \/ PostFails(w)
       PROVE UNCHANGED status
  BY <1>12 DEF CommentStep, Skip, Check, Post, CheckFails, PostFails, row
<1>13. ASSUME UNCHANGED vars PROVE UNCHANGED status
  BY <1>13 DEF vars, row
<1>14. CASE Next
  BY <1>14, <1>1, <1>2, <1>3, <1>4, <1>5, <1>6, <1>7, <1>8, <1>9, <1>10, <1>11, <1>12
  DEF Next
<1> QED BY <1>1, <1>13, <1>14

(* A link that was ended stays ended, and an expired one is only ever ended *)
(* by a turn that was under way: no opening, sweep or catch-up undoes what  *)
(* markEnded or expireStale wrote.                                          *)
THEOREM ChatEndedStays == Spec => EndedStays
<1>1. Init => StatusOK
  BY DEF Init, StatusOK, Statuses
<1>2. StatusOK /\ [Next]_vars => StatusOK'
  BY StatusStep
<1>3. StatusOK /\ [Next]_vars =>
        [\A t \in Token :
           /\ status[t] = "ended" => status'[t] = "ended"
           /\ status[t] = "expired" => status'[t] \in {"expired", "ended"}]_vars
  BY StatusStep
<1> QED BY <1>1, <1>2, <1>3, PTL DEF Spec, EndedStays

-----------------------------------------------------------------------------
(* Types.                                                                  *)

Points  == TurnPoint \cup SweepPoint
RepType == [n : Nat, acts : SUBSET Turn]

WorkerTypes ==
  /\ pc \in [Worker -> Points]
  /\ \A p \in Turn : pc[p] \in TurnPoint
  /\ \A s \in Sweep : pc[s] \in SweepPoint
  /\ at \in [Worker -> Token \cup {None}]
  /\ \A w \in Worker : at[w] = None <=> pc[w] \in {"idle", "done", "visiting"}
  /\ rep \in [Worker -> RepType]

HistoryTypes ==
  /\ thread \in [Token -> Seq(Entry)]
  /\ mine \in [Turn -> Seq(Entry)]
  /\ since \in [Turn -> Nat]

RecordTypes ==
  /\ changed \in [Token -> SUBSET Turn]
  /\ crm \in [Token -> SUBSET RepType]
  /\ todo \in [Sweep -> SUBSET Token]
  /\ late \in [Turn -> {"no", "swept", "shut"}]
  /\ lost \in [Token -> SUBSET {"forked", "refused", "masked", "turn", "sweep"}]
  /\ faults \in 0 .. MaxFaults

Typed == StatusOK /\ WorkerTypes /\ HistoryTypes /\ RecordTypes

\* Worker w is at a point now, with a link and a comment in hand.
Arrive(w, point, place, r) ==
  /\ pc' = [pc EXCEPT ![w] = point]
  /\ at' = [at EXCEPT ![w] = place]
  /\ rep' = [rep EXCEPT ![w] = r]

Others(w) ==
  \A v \in Worker \ {w} : pc'[v] = pc[v] /\ at'[v] = at[v] /\ rep'[v] = rep[v]

LEMMA Arrived ==
  ASSUME WorkerTypes, NEW w \in Worker, NEW point, NEW place, NEW r, Arrive(w, point, place, r)
  PROVE  Others(w) /\ pc'[w] = point /\ at'[w] = place /\ rep'[w] = r
BY DEF WorkerTypes, Arrive, Others

LEMMA ArrivedTyped ==
  ASSUME WorkerTypes, NEW w \in Worker, NEW point \in Points, NEW place \in Token \cup {None},
         NEW r \in RepType, Arrive(w, point, place, r),
         w \in Turn => point \in TurnPoint, w \in Sweep => point \in SweepPoint,
         place = None <=> point \in {"idle", "done", "visiting"}
  PROVE  WorkerTypes'
BY DEF WorkerTypes, Arrive

LEMMA Stays ==
  ASSUME WorkerTypes, NEW w \in Worker
  PROVE  /\ at = [at EXCEPT ![w] = at[w]] /\ rep = [rep EXCEPT ![w] = rep[w]]
         /\ pc = [pc EXCEPT ![w] = pc[w]]
BY DEF WorkerTypes

\* Where a turn goes in each of its steps.
LEMMA TurnArrives ==
  ASSUME WorkerTypes, NEW p \in Turn
  PROVE  /\ \A t \in Token : Open(p, t) =>
              UNCHANGED <<pc, at, rep>> \/ Arrive(p, "greeting", t, rep[p])
         /\ Greet(p) => Arrive(p, "thinking", at[p], rep[p])
         /\ \A t \in Token : Send(p, t) => Arrive(p, "thinking", t, rep[p])
         /\ Act(p) => Arrive(p, "acted", at[p], rep[p])
         /\ \A ends \in BOOLEAN : SaveTools(p, ends) =>
              Arrive(p, "saved", at[p], rep[p]) \/ Arrive(p, "answering", at[p], rep[p])
         /\ \A ends \in BOOLEAN : Save(p, ends) => Arrive(p, "saved", at[p], rep[p])
         /\ ReadBack(p) => \/ Arrive(p, "closing", at[p], Told(thread[at[p]], since[p]))
                           \/ Arrive(p, "done", None, NoRep)
         /\ MarkEnded(p) \/ MarkFails(p) =>
              \/ rep[p].acts = {} /\ Arrive(p, "done", None, NoRep)
              \/ rep[p].acts # {} /\ Arrive(p, "checking", at[p], rep[p])
         /\ TurnDies(p) => Arrive(p, "done", None, NoRep)
<1>0. p \in Worker BY DEF Worker
<1>1. ASSUME NEW t \in Token, Open(p, t)
      PROVE  UNCHANGED <<pc, at, rep>> \/ Arrive(p, "greeting", t, rep[p])
  BY <1>0, <1>1, Stays DEF Open, Arrive, Go
<1>2. ASSUME Greet(p) PROVE Arrive(p, "thinking", at[p], rep[p])
  BY <1>0, <1>2, Stays DEF Greet, Begin, Arrive, Go
<1>3. ASSUME NEW t \in Token, Send(p, t) PROVE Arrive(p, "thinking", t, rep[p])
  BY <1>0, <1>3, Stays DEF Send, Begin, Arrive, Go
<1>4. ASSUME Act(p) PROVE Arrive(p, "acted", at[p], rep[p])
  BY <1>0, <1>4, Stays DEF Act, Arrive, Go, held
<1>5. ASSUME NEW ends \in BOOLEAN, SaveTools(p, ends)
      PROVE  Arrive(p, "saved", at[p], rep[p]) \/ Arrive(p, "answering", at[p], rep[p])
  BY <1>0, <1>5, Stays DEF SaveTools, Arrive, Go
<1>6. ASSUME NEW ends \in BOOLEAN, Save(p, ends) PROVE Arrive(p, "saved", at[p], rep[p])
  BY <1>0, <1>6, Stays DEF Save, Arrive, Go
<1>7. ASSUME ReadBack(p)
      PROVE  \/ Arrive(p, "closing", at[p], Told(thread[at[p]], since[p]))
             \/ Arrive(p, "done", None, NoRep)
  BY <1>0, <1>7, Stays DEF ReadBack, Finish, Arrive, Go
<1>8. ASSUME ToComment(p)
      PROVE  \/ rep[p].acts = {} /\ Arrive(p, "done", None, NoRep)
             \/ rep[p].acts # {} /\ Arrive(p, "checking", at[p], rep[p])
  BY <1>0, <1>8, Stays DEF ToComment, Finish, Arrive, Go, held
<1>9. ASSUME TurnDies(p) PROVE Arrive(p, "done", None, NoRep)
  BY <1>0, <1>9 DEF TurnDies, Finish, Arrive, Go
<1> QED BY <1>1, <1>2, <1>3, <1>4, <1>5, <1>6, <1>7, <1>8, <1>9 DEF MarkEnded, MarkFails

\* Where a sweep goes in each of its steps.
LEMMA SweepArrives ==
  ASSUME WorkerTypes, NEW s \in Sweep
  PROVE  /\ Expire(s) \/ List(s) => Arrive(s, "visiting", at[s], rep[s])
         /\ \A t \in Token : NextRow(s, t) =>
              \/ todo[s] # {t} /\ Arrive(s, "visiting", None, NoRep)
              \/ todo[s] = {t} /\ Arrive(s, "idle", None, NoRep)
         /\ \A t \in Token : Visit(s, t) =>
              \/ Lines(t) = {} /\ NextRow(s, t)
              \/ /\ Lines(t) # {} /\ UNCHANGED todo
                 /\ Arrive(s, "checking", t, [n |-> Len(thread[t]), acts |-> Lines(t)])
         /\ SweepDies(s) => Arrive(s, "idle", None, NoRep)
<1>0. s \in Worker BY DEF Worker
<1>1. ASSUME Expire(s) \/ List(s) PROVE Arrive(s, "visiting", at[s], rep[s])
  BY <1>0, <1>1, Stays DEF Expire, List, Arrive, Go, held
<1>2. ASSUME NEW t \in Token, NextRow(s, t)
      PROVE  \/ todo[s] # {t} /\ Arrive(s, "visiting", None, NoRep)
             \/ todo[s] = {t} /\ Arrive(s, "idle", None, NoRep)
  BY <1>2 DEF NextRow, Arrive, Go
<1>3. ASSUME NEW t \in Token, Visit(s, t)
      PROVE  \/ Lines(t) = {} /\ NextRow(s, t)
             \/ /\ Lines(t) # {} /\ UNCHANGED todo
                /\ Arrive(s, "checking", t, [n |-> Len(thread[t]), acts |-> Lines(t)])
  BY <1>3 DEF Visit, Arrive, Go
<1>4. ASSUME SweepDies(s) PROVE Arrive(s, "idle", None, NoRep)
  BY <1>4 DEF SweepDies, Arrive, Go
<1> QED BY <1>1, <1>2, <1>3, <1>4

\* A sweep moves nobody but itself.
LEMMA SweepAlone ==
  ASSUME WorkerTypes, NEW s \in Sweep
  PROVE  /\ \A t : NextRow(s, t) => Others(s)
         /\ SweepStep(s) \/ List(s) \/ SweepDies(s) => Others(s)
<1>0. s \in Worker BY DEF Worker
<1>1. ASSUME NEW t, NextRow(s, t) PROVE Others(s)
  <2>1. Arrive(s, "visiting", None, NoRep) \/ Arrive(s, "idle", None, NoRep)
    BY <1>1 DEF NextRow, Arrive, Go
  <2> QED BY <1>0, <2>1, Arrived
<1>2. CASE Stamp(s) BY <1>1, <1>2 DEF Stamp
<1>3. CASE Expire(s) \/ List(s) \/ SweepDies(s) BY <1>0, <1>3, SweepArrives, Arrived
<1>4. ASSUME NEW t \in Token, Visit(s, t) PROVE Others(s)
  <2> DEFINE r == [n |-> Len(thread[t]), acts |-> Lines(t)]
  <2>1. NextRow(s, t) \/ Arrive(s, "checking", t, r) BY <1>4, SweepArrives
  <2> HIDE DEF r
  <2> QED BY <1>0, <1>1, <2>1, Arrived
<1> QED BY <1>1, <1>2, <1>3, <1>4 DEF SweepStep

\* Where a worker goes when it writes its comment.
LEMMA CommentArrives ==
  ASSUME WorkerTypes, NEW w \in Worker
  PROVE  /\ Check(w) \/ CheckFails(w) => Arrive(w, "posting", at[w], rep[w])
         /\ Skip(w) \/ Post(w) \/ PostFails(w) =>
              \/ w \in Turn /\ Arrive(w, "done", None, NoRep)
              \/ w \notin Turn /\ Arrive(w, "stamping", at[w], NoRep)
<1>1. ASSUME Check(w) \/ CheckFails(w) PROVE Arrive(w, "posting", at[w], rep[w])
  BY <1>1, Stays DEF Check, CheckFails, Arrive, Go, held
<1>2. ASSUME Leave(w) PROVE \/ w \in Turn /\ Arrive(w, "done", None, NoRep)
                            \/ w \notin Turn /\ Arrive(w, "stamping", at[w], NoRep)
  BY <1>2, Stays DEF Leave, Finish, Arrive, Go
<1> QED BY <1>1, <1>2 DEF Skip, Post, PostFails

\* What a history says was changed.
LEMMA ActsTyped ==
  ASSUME NEW h \in Seq(Entry)
  PROVE  /\ Acts(h) \subseteq Turn
         /\ \A a : a \in Acts(h) <=> \E i \in 1 .. Len(h) : h[i].kind = "did" /\ h[i].by = a
<1>1. DOMAIN h = 1 .. Len(h) BY LenProperties
<1>2. \A i \in 1 .. Len(h) : h[i] \in Entry BY ElementOfSeq
<1> QED BY <1>1, <1>2 DEF Acts, Entry

LEMMA ToldTyped ==
  ASSUME NEW h \in Seq(Entry), NEW n
  PROVE  Told(h, n) \in RepType
BY ActsTyped, LenProperties DEF Told, RepType

LEMMA WorkerTypesStep == WorkerTypes /\ HistoryTypes /\ [Next]_vars => WorkerTypes'
<1> SUFFICES ASSUME WorkerTypes, HistoryTypes, [Next]_vars PROVE WorkerTypes' OBVIOUS
<1> DEFINE Resting == {"idle", "done", "visiting"}
<1>1. ASSUME UNCHANGED <<pc, at, rep>> PROVE WorkerTypes' BY <1>1 DEF WorkerTypes
<1>2. \A w \in Worker : at[w] \in Token \cup {None} /\ rep[w] \in RepType /\ (at[w] = None <=> pc[w] \in Resting)
  BY DEF WorkerTypes
<1>3. NoRep \in RepType BY DEF NoRep, RepType
<1>4. /\ \A p \in Turn : p \in Worker /\ p \notin Sweep
      /\ \A s \in Sweep : s \in Worker /\ s \notin Turn
      /\ None \notin Token
  BY ChatAssumption DEF Worker
<1>5. ASSUME NEW p \in Turn, NEW point \in TurnPoint \ Resting, NEW place \in Token, NEW r \in RepType,
             Arrive(p, point, place, r)
      PROVE  WorkerTypes'
  <2>1. point \in Points /\ point \notin Resting BY DEF Points
  <2> HIDE DEF Resting
  <2>2. place = None <=> point \in {"idle", "done", "visiting"} BY <1>4, <2>1 DEF Resting
  <2> QED BY <1>4, <1>5, <2>1, <2>2, ArrivedTyped
<1>6. ASSUME NEW p \in Turn, Arrive(p, "done", None, NoRep) PROVE WorkerTypes'
  <2>1. "done" \in Points /\ "done" \in TurnPoint BY DEF Points, TurnPoint
  <2> QED BY <1>3, <1>4, <1>6, <2>1, ArrivedTyped
<1>7. ASSUME NEW s \in Sweep, NEW point \in {"idle", "visiting"}, Arrive(s, point, None, NoRep) PROVE WorkerTypes'
  <2>1. point \in Points /\ point \in SweepPoint BY DEF Points, SweepPoint
  <2> QED BY <1>3, <1>4, <1>7, <2>1, ArrivedTyped
<1>8. ASSUME NEW s \in Sweep, NEW point \in SweepPoint \ Resting, NEW place \in Token, NEW r \in RepType,
             Arrive(s, point, place, r)
      PROVE  WorkerTypes'
  <2>1. point \in Points /\ point \notin Resting BY DEF Points
  <2> HIDE DEF Resting
  <2>2. place = None <=> point \in {"idle", "done", "visiting"} BY <1>4, <2>1 DEF Resting
  <2> QED BY <1>4, <1>8, <2>1, <2>2, ArrivedTyped
<1>9. ASSUME NEW s \in Sweep, NEW t \in Token, NextRow(s, t) PROVE WorkerTypes'
  BY <1>7, <1>9, SweepArrives
<1>10. ASSUME NEW p \in Turn, NEW t \in Token, Open(p, t) \/ Send(p, t) PROVE WorkerTypes'
  <2>1. "greeting" \in TurnPoint \ Resting /\ "thinking" \in TurnPoint \ Resting BY DEF TurnPoint
  <2> QED BY <1>1, <1>2, <1>4, <1>5, <1>10, <2>1, TurnArrives
<1>11. ASSUME NEW p \in Turn, TurnStep(p) PROVE WorkerTypes'
  <2>1. /\ {"thinking", "acted", "saved", "answering", "closing", "checking"} \subseteq TurnPoint \ Resting
    BY DEF TurnPoint
  <2>2. pc[p] \in {"greeting", "thinking", "acted", "answering", "saved", "closing"}
    BY <1>11 DEF TurnStep, Greet, Act, SaveTools, Save, ReadBack, MarkEnded
  <2>3. at[p] \in Token BY <1>2, <1>4, <2>2
  <2>4. Told(thread[at[p]], since[p]) \in RepType BY <2>3, ToldTyped DEF HistoryTypes
  <2>5. \/ \E point \in {"thinking", "acted", "saved", "answering", "checking"} :
             Arrive(p, point, at[p], rep[p])
        \/ Arrive(p, "closing", at[p], Told(thread[at[p]], since[p]))
        \/ Arrive(p, "done", None, NoRep)
    BY <1>11, TurnArrives DEF TurnStep
  <2> QED BY <1>2, <1>4, <1>5, <1>6, <2>1, <2>3, <2>4, <2>5
<1>12. ASSUME NEW p \in Turn, MarkFails(p) \/ TurnDies(p) PROVE WorkerTypes'
  <2>1. CASE Arrive(p, "done", None, NoRep) BY <1>6, <2>1
  <2>2. CASE ~Arrive(p, "done", None, NoRep)
    <3>1. Arrive(p, "checking", at[p], rep[p]) /\ MarkFails(p) BY <1>12, <2>2, TurnArrives
    <3>2. at[p] \in Token BY <1>2, <1>4, <3>1 DEF MarkFails
    <3>3. "checking" \in TurnPoint \ Resting BY DEF TurnPoint
    <3> QED BY <1>2, <1>4, <1>5, <3>1, <3>2, <3>3
  <2> QED BY <2>1, <2>2
<1>13. ASSUME NEW s \in Sweep, Expire(s) \/ List(s) PROVE WorkerTypes'
  <2>1. Arrive(s, "visiting", at[s], rep[s]) BY <1>13, SweepArrives
  <2>2. at[s] = None BY <1>2, <1>4, <1>13 DEF Expire, List
  <2>3. "visiting" \in Points /\ "visiting" \in SweepPoint BY DEF Points, SweepPoint
  <2> QED BY <1>2, <1>4, <2>1, <2>2, <2>3, ArrivedTyped
<1>14. ASSUME NEW s \in Sweep, NEW t \in Token, Visit(s, t) PROVE WorkerTypes'
  <2>1. [n |-> Len(thread[t]), acts |-> Lines(t)] \in RepType
    BY ActsTyped, LenProperties DEF HistoryTypes, Lines, RepType
  <2>2. "checking" \in SweepPoint \ Resting BY DEF SweepPoint
  <2> QED BY <1>8, <1>9, <1>14, <2>1, <2>2, SweepArrives
<1>15. ASSUME NEW s \in Sweep, Stamp(s) PROVE WorkerTypes'
  <2>1. at[s] \in Token BY <1>2, <1>4, <1>15 DEF Stamp
  <2> QED BY <1>9, <1>15, <2>1 DEF Stamp
<1>16. ASSUME NEW s \in Sweep, NEW t \in Token, RowFails(s, t) PROVE WorkerTypes'
  BY <1>9, <1>16 DEF RowFails
<1>17. ASSUME NEW s \in Sweep, SweepDies(s) PROVE WorkerTypes'
  BY <1>7, <1>17, SweepArrives
<1>18. ASSUME NEW w \in Worker, CommentStep(w) \/ CheckFails(w) \/ PostFails(w) PROVE WorkerTypes'
  <2>1. pc[w] \in {"checking", "posting"}
    BY <1>18 DEF CommentStep, Skip, Check, Post, CheckFails, PostFails
  <2>2. at[w] \in Token BY <1>2, <1>4, <2>1
  <2>3. /\ "posting" \in TurnPoint \ Resting /\ "posting" \in SweepPoint \ Resting
        /\ "stamping" \in SweepPoint \ Resting
    BY DEF TurnPoint, SweepPoint
  <2>4. w \in Turn \/ w \in Sweep BY DEF Worker
  <2>5. \/ Arrive(w, "posting", at[w], rep[w])
        \/ w \in Turn /\ Arrive(w, "done", None, NoRep)
        \/ w \notin Turn /\ Arrive(w, "stamping", at[w], NoRep)
    BY <1>18, CommentArrives DEF CommentStep
  <2> QED BY <1>2, <1>3, <1>4, <1>5, <1>6, <1>8, <2>2, <2>3, <2>4, <2>5
<1>19. ASSUME NEW t \in Token, Lapse(t) PROVE WorkerTypes'
  BY <1>1, <1>19 DEF Lapse, held
<1>20. CASE UNCHANGED vars BY <1>1, <1>20 DEF vars, held
<1> QED
  BY <1>10, <1>11, <1>12, <1>13, <1>14, <1>15, <1>16, <1>17, <1>18, <1>19, <1>20
  DEF Next, SweepStep

\* A turn takes up a history and adds to it; one that is over holds none.
LEMMA HistoryTypesStep == WorkerTypes /\ HistoryTypes /\ [Next]_vars => HistoryTypes'
<1> SUFFICES ASSUME WorkerTypes, HistoryTypes, [Next]_vars PROVE HistoryTypes' OBVIOUS
<1>0. /\ thread \in [Token -> Seq(Entry)] /\ mine \in [Turn -> Seq(Entry)]
      /\ since \in [Turn -> Nat] /\ <<>> \in Seq(Entry)
  BY DEF HistoryTypes
<1>1. ASSUME UNCHANGED <<thread, mine, since>> PROVE HistoryTypes' BY <1>1 DEF HistoryTypes
<1>2. ASSUME NEW p \in Turn, UNCHANGED thread, Finish(p) PROVE HistoryTypes'
  BY <1>0, <1>2 DEF Finish, HistoryTypes
<1>3. \A p \in Turn, kind \in {"in", "did", "said", "bye"} : E(kind, p) \in Entry BY DEF E, Entry
<1>4. \A w \in Worker : pc[w] \notin {"idle", "done", "visiting"} => at[w] \in Token
  BY ChatAssumption DEF WorkerTypes
<1>5. ASSUME NEW p \in Turn, NEW t \in Token, Begin(p, t) PROVE HistoryTypes'
  <2> DEFINE h == Append(thread[t], E("in", p))
  <2>1. thread[t] \in Seq(Entry) /\ E("in", p) \in Entry BY <1>0, <1>3
  <2>2. h \in Seq(Entry) /\ Len(thread[t]) \in Nat BY <2>1, AppendProperties, LenProperties
  <2>3. /\ thread' = [thread EXCEPT ![t] = h] /\ mine' = [mine EXCEPT ![p] = h]
        /\ since' = [since EXCEPT ![p] = Len(thread[t])]
    BY <1>5 DEF Begin
  <2> HIDE DEF h
  <2> QED BY <1>0, <2>2, <2>3 DEF HistoryTypes
<1>6. ASSUME NEW p \in Turn, NEW kind \in {"did", "said"}, NEW ends \in BOOLEAN, at[p] \in Token,
             UNCHANGED since, Write(p, mine[p] \o Ending(p, E(kind, p), ends))
      PROVE  HistoryTypes'
  <2> DEFINE h == mine[p] \o Ending(p, E(kind, p), ends)
  <2>1. Ending(p, E(kind, p), ends) \in Seq(Entry) BY <1>3 DEF Ending
  <2>2. h \in Seq(Entry) BY <1>0, <2>1, ConcatProperties
  <2>3. thread' = [thread EXCEPT ![at[p]] = h] /\ mine' = [mine EXCEPT ![p] = h]
    BY <1>6 DEF Write
  <2> HIDE DEF h
  <2> QED BY <1>0, <1>6, <2>2, <2>3 DEF HistoryTypes
<1>7. ASSUME NEW p \in Turn, NEW t \in Token, Open(p, t) \/ Send(p, t) PROVE HistoryTypes'
  BY <1>1, <1>5, <1>7 DEF Open, Send, book
<1>8. ASSUME NEW p \in Turn, TurnStep(p) PROVE HistoryTypes'
  <2>1. p \in Worker BY DEF Worker
  <2>2. CASE Greet(p) BY <1>4, <1>5, <2>1, <2>2 DEF Greet
  <2>3. CASE Act(p) BY <1>1, <2>3 DEF Act, held
  <2>4. CASE \E ends \in BOOLEAN : SaveTools(p, ends) BY <1>4, <1>6, <2>1, <2>4 DEF SaveTools
  <2>5. CASE \E ends \in BOOLEAN : Save(p, ends) BY <1>4, <1>6, <2>1, <2>5 DEF Save
  <2>6. CASE ReadBack(p)
    <3>1. UNCHANGED thread BY <2>6 DEF ReadBack, book
    <3>2. CASE Finish(p) BY <1>2, <3>1, <3>2
    <3>3. CASE ~Finish(p)
      <4>1. mine' = [mine EXCEPT ![p] = <<>>] /\ since' = [since EXCEPT ![p] = 0]
        BY <2>6, <3>3 DEF ReadBack
      <4> QED BY <1>0, <3>1, <4>1 DEF HistoryTypes
    <3> QED BY <3>2, <3>3
  <2>7. CASE MarkEnded(p) BY <1>1, <1>2, <2>7 DEF MarkEnded, ToComment, book, held
  <2> QED BY <1>8, <2>2, <2>3, <2>4, <2>5, <2>6, <2>7 DEF TurnStep
<1>9. ASSUME NEW p \in Turn, MarkFails(p) \/ TurnDies(p) PROVE HistoryTypes'
  BY <1>1, <1>2, <1>9 DEF MarkFails, ToComment, TurnDies, book, held
<1>10. ASSUME NEW s \in Sweep, SweepStep(s) \/ List(s) \/ SweepDies(s) PROVE HistoryTypes'
  BY <1>1, <1>10 DEF SweepStep, Expire, Stamp, Visit, NextRow, List, SweepDies, book, held
<1>11. ASSUME NEW s \in Sweep, NEW t \in Token, RowFails(s, t) PROVE HistoryTypes'
  BY <1>1, <1>11 DEF RowFails, NextRow, book
<1>12. ASSUME NEW w \in Worker, CommentStep(w) \/ CheckFails(w) \/ PostFails(w) PROVE HistoryTypes'
  BY <1>1, <1>2, <1>12
  DEF CommentStep, Skip, Check, Post, CheckFails, PostFails, Leave, book, held
<1>13. ASSUME NEW t \in Token, Lapse(t) PROVE HistoryTypes' BY <1>1, <1>13 DEF Lapse, book, held
<1>14. CASE UNCHANGED vars BY <1>1, <1>14 DEF vars, book, held
<1> QED
  BY <1>7, <1>8, <1>9, <1>10, <1>11, <1>12, <1>13, <1>14 DEF Next

LEMMA RecordTypesStep == WorkerTypes /\ RecordTypes /\ [Next]_vars => RecordTypes'
<1> SUFFICES ASSUME WorkerTypes, RecordTypes, [Next]_vars PROVE RecordTypes' OBVIOUS
<1> DEFINE Slips == SUBSET {"forked", "refused", "masked", "turn", "sweep"}
<1>0. /\ changed \in [Token -> SUBSET Turn] /\ crm \in [Token -> SUBSET RepType]
      /\ todo \in [Sweep -> SUBSET Token] /\ late \in [Turn -> {"no", "swept", "shut"}]
      /\ lost \in [Token -> Slips] /\ faults \in 0 .. MaxFaults
  BY DEF RecordTypes
<1>1. ASSUME changed' \in [Token -> SUBSET Turn], crm' \in [Token -> SUBSET RepType],
             todo' \in [Sweep -> SUBSET Token], late' \in [Turn -> {"no", "swept", "shut"}],
             lost' \in [Token -> Slips], faults' \in 0 .. MaxFaults
      PROVE  RecordTypes'
  BY <1>1 DEF RecordTypes
<1> HIDE DEF Slips
<1>2. ASSUME UNCHANGED <<changed, crm, todo, late, lost, faults>> PROVE RecordTypes'
  BY <1>0, <1>1, <1>2
<1>3. \A w \in Worker : pc[w] \notin {"idle", "done", "visiting"} => at[w] \in Token
  BY ChatAssumption DEF WorkerTypes
<1>4. \A w : Fault(w) => faults' \in 0 .. MaxFaults BY <1>0, ChatAssumption DEF Fault
<1>5. ASSUME NEW t \in Token, NEW what \in {"forked", "refused", "masked", "turn", "sweep"}, Note(t, what)
      PROVE  lost' \in [Token -> Slips]
  BY <1>0, <1>5 DEF Note, Slips
<1>6. \A p \in Turn : p \in Worker BY DEF Worker
<1>7. ASSUME NEW p \in Turn, NEW t \in Token, Open(p, t) \/ Send(p, t) PROVE RecordTypes'
  BY <1>2, <1>7 DEF Open, Send, Begin, book, hist
<1>8. ASSUME NEW p \in Turn, NEW h, at[p] \in Token, Write(p, h) PROVE lost' \in [Token -> Slips]
  BY <1>0, <1>8 DEF Write, Slips
<1>9. ASSUME NEW p \in Turn, TurnStep(p) PROVE RecordTypes'
  <2>1. CASE Act(p)
    <3>1. changed' \in [Token -> SUBSET Turn] BY <1>0, <2>1 DEF Act
    <3> QED BY <1>0, <1>1, <2>1, <3>1 DEF Act, hist
  <2>2. ASSUME NEW ends \in BOOLEAN, SaveTools(p, ends) PROVE RecordTypes'
    <3>1. lost' \in [Token -> Slips] BY <1>3, <1>6, <1>8, <2>2 DEF SaveTools
    <3>2. late' \in [Turn -> {"no", "swept", "shut"}] BY <1>0, <2>2 DEF SaveTools, Lateness
    <3> QED BY <1>0, <1>1, <2>2, <3>1, <3>2 DEF SaveTools
  <2>3. ASSUME NEW ends \in BOOLEAN, Save(p, ends) PROVE RecordTypes'
    <3>1. lost' \in [Token -> Slips] BY <1>3, <1>6, <1>8, <2>3 DEF Save
    <3> QED BY <1>0, <1>1, <2>3, <3>1 DEF Save
  <2>4. CASE Greet(p) \/ ReadBack(p) \/ MarkEnded(p)
    BY <1>2, <2>4 DEF Greet, Begin, ReadBack, MarkEnded, book, hist
  <2> QED BY <1>9, <2>1, <2>2, <2>3, <2>4 DEF TurnStep
<1>10. ASSUME NEW p \in Turn, MarkFails(p) PROVE RecordTypes'
  BY <1>0, <1>1, <1>4, <1>10 DEF MarkFails, book
<1>11. ASSUME NEW p \in Turn, TurnDies(p) PROVE RecordTypes'
  <2>1. lost' \in [Token -> Slips] BY <1>0, <1>3, <1>5, <1>6, <1>11 DEF TurnDies
  <2> QED BY <1>0, <1>1, <1>4, <1>11, <2>1 DEF TurnDies, book
<1>12. ASSUME NEW s \in Sweep, Expire(s) \/ List(s) PROVE RecordTypes'
  <2>1. Stale \subseteq Token /\ Awaiting \subseteq Token BY DEF Stale, Live, Awaiting
  <2>2. todo' \in [Sweep -> SUBSET Token] BY <1>0, <1>12, <2>1 DEF Expire, List
  <2> QED BY <1>0, <1>1, <1>12, <2>2 DEF Expire, List, book, hist
<1>13. ASSUME NEW s \in Sweep, NEW t, NextRow(s, t) PROVE todo' \in [Sweep -> SUBSET Token]
  BY <1>0, <1>13 DEF NextRow
<1>14. ASSUME NEW s \in Sweep, NEW t \in Token, Visit(s, t) PROVE RecordTypes'
  <2>1. todo' \in [Sweep -> SUBSET Token] BY <1>0, <1>13, <1>14 DEF Visit
  <2> QED BY <1>0, <1>1, <1>14, <2>1 DEF Visit, book, hist
<1>15. ASSUME NEW s \in Sweep, Stamp(s) PROVE RecordTypes'
  <2>1. todo' \in [Sweep -> SUBSET Token] BY <1>0, <1>13, <1>15 DEF Stamp
  <2> QED BY <1>0, <1>1, <1>15, <2>1 DEF Stamp, book, hist
<1>16. ASSUME NEW s \in Sweep, NEW t \in Token, RowFails(s, t) PROVE RecordTypes'
  <2>1. todo' \in [Sweep -> SUBSET Token] BY <1>0, <1>13, <1>16 DEF RowFails
  <2>2. lost' \in [Token -> Slips] BY <1>5, <1>16 DEF RowFails
  <2> QED BY <1>0, <1>1, <1>4, <1>16, <2>1, <2>2 DEF RowFails, book
<1>17. ASSUME NEW s \in Sweep, SweepDies(s) PROVE RecordTypes'
  <2>1. todo' \in [Sweep -> SUBSET Token] BY <1>0, <1>17 DEF SweepDies
  <2>2. lost' \in [Token -> Slips] BY <1>0, <1>17 DEF SweepDies, Slips
  <2> QED BY <1>0, <1>1, <1>4, <1>17, <2>1, <2>2 DEF SweepDies, book
<1>18. ASSUME NEW w \in Worker, Skip(w) \/ PostFails(w) PROVE RecordTypes'
  <2>1. at[w] \in Token BY <1>3, <1>18 DEF Skip, PostFails
  <2>2. lost' \in [Token -> Slips] BY <1>0, <1>5, <1>18, <2>1 DEF Skip, PostFails
  <2>3. faults' \in 0 .. MaxFaults BY <1>0, <1>4, <1>18 DEF Skip, PostFails
  <2> QED BY <1>0, <1>1, <1>18, <2>2, <2>3 DEF Skip, PostFails, book
<1>19. ASSUME NEW w \in Worker, Check(w) \/ CheckFails(w) PROVE RecordTypes'
  BY <1>0, <1>1, <1>4, <1>19 DEF Check, CheckFails, book, hist
<1>20. ASSUME NEW w \in Worker, Post(w) PROVE RecordTypes'
  <2>1. rep[w] \in RepType BY DEF WorkerTypes
  <2>2. crm' \in [Token -> SUBSET RepType] BY <1>0, <1>20, <2>1 DEF Post
  <2> QED BY <1>0, <1>1, <1>20, <2>2 DEF Post, book, hist
<1>21. ASSUME NEW t \in Token, Lapse(t) PROVE RecordTypes' BY <1>2, <1>21 DEF Lapse, book, hist
<1>22. CASE UNCHANGED vars BY <1>2, <1>22 DEF vars, book, hist
<1> QED
  BY <1>7, <1>9, <1>10, <1>11, <1>12, <1>14, <1>15, <1>16, <1>17, <1>18, <1>19, <1>20, <1>21,
     <1>22
  DEF Next, SweepStep, CommentStep

LEMMA TypedStep == Typed /\ [Next]_vars => Typed'
BY StatusStep, WorkerTypesStep, HistoryTypesStep, RecordTypesStep DEF Typed

LEMMA TypedStart == Init => Typed
<1> SUFFICES ASSUME Init PROVE Typed OBVIOUS
<1>1. StatusOK BY DEF Init, StatusOK, Statuses
<1>2. WorkerTypes
  <2>1. NoRep \in RepType BY DEF NoRep, RepType
  <2> QED BY <2>1 DEF Init, WorkerTypes, Points, TurnPoint, SweepPoint, Worker
<1>3. HistoryTypes BY DEF Init, HistoryTypes
<1>4. RecordTypes BY ChatAssumption DEF Init, RecordTypes
<1> QED BY <1>1, <1>2, <1>3, <1>4 DEF Typed

\* The two columns that are only ever set.
FlagsOK == lapsed \in [Token -> BOOLEAN] /\ stamped \in [Token -> BOOLEAN]

LEMMA FlagsStep == FlagsOK /\ [Next]_vars => FlagsOK'
<1> SUFFICES ASSUME FlagsOK, [Next]_vars PROVE FlagsOK' OBVIOUS
<1>1. ASSUME UNCHANGED <<lapsed, stamped>> PROVE FlagsOK' BY <1>1 DEF FlagsOK
<1>2. ASSUME NEW t \in Token, Lapse(t) PROVE FlagsOK' BY <1>2 DEF Lapse, FlagsOK
<1>3. ASSUME NEW s \in Sweep, Stamp(s) PROVE FlagsOK' BY <1>3 DEF Stamp, FlagsOK
<1>4. ASSUME NEW p \in Turn, NEW t \in Token, Open(p, t) \/ Send(p, t) PROVE FlagsOK'
  BY <1>1, <1>4 DEF Open, Send, row
<1>5. ASSUME NEW p \in Turn, TurnStep(p) \/ MarkFails(p) \/ TurnDies(p) PROVE FlagsOK'
  BY <1>1, <1>5
  DEF TurnStep, Greet, Act, SaveTools, Save, ReadBack, MarkEnded, MarkFails, TurnDies, row
<1>6. ASSUME NEW s \in Sweep, SweepStep(s) \/ List(s) \/ SweepDies(s) PROVE FlagsOK'
  BY <1>1, <1>3, <1>6 DEF SweepStep, Expire, Visit, List, SweepDies, row
<1>7. ASSUME NEW s \in Sweep, NEW t \in Token, RowFails(s, t) PROVE FlagsOK'
  BY <1>1, <1>7 DEF RowFails, row
<1>8. ASSUME NEW w \in Worker, CommentStep(w) \/ CheckFails(w) \/ PostFails(w) PROVE FlagsOK'
  BY <1>1, <1>8 DEF CommentStep, Skip, Check, Post, CheckFails, PostFails, row
<1>9. CASE UNCHANGED vars BY <1>1, <1>9 DEF vars, row
<1> QED BY <1>2, <1>4, <1>5, <1>6, <1>7, <1>8, <1>9 DEF Next

(* Every variable holds a value of its kind, and a worker has a link        *)
(* exactly while it works on one, for every set of links and requests.      *)
THEOREM ChatTyped == Spec => []TypeOK
<1>1. Init => FlagsOK BY DEF Init, FlagsOK
<1>2. Typed /\ FlagsOK => TypeOK
  BY DEF Typed, FlagsOK, TypeOK, StatusOK, Statuses, WorkerTypes, HistoryTypes, RecordTypes,
         Points, RepType
<1> QED BY <1>1, <1>2, TypedStart, TypedStep, FlagsStep, PTL DEF Spec

-----------------------------------------------------------------------------
(* What becomes of an outcome.                                             *)

Over(t) == status[t] \in {"expired", "ended"}

\* The rows a sweep has left are over, the one it works on is among them, and a
\* sweep that is idle has none left.
InOrder(s) ==
  /\ \A t \in todo[s] : Over(t)
  /\ at[s] # None => at[s] \in todo[s]
  /\ pc[s] = "idle" => todo[s] = {}

SweepsInOrder ==
  /\ \A t \in Token : stamped[t] => Over(t)
  /\ \A s \in Sweep : InOrder(s)

LEMMA SweepsInOrderStep == Typed /\ FlagsOK /\ SweepsInOrder /\ [Next]_vars => SweepsInOrder'
<1> SUFFICES ASSUME Typed, FlagsOK, SweepsInOrder, [Next]_vars PROVE SweepsInOrder' OBVIOUS
<1>0. WorkerTypes /\ RecordTypes /\ todo \in [Sweep -> SUBSET Token]
  BY DEF Typed, RecordTypes
<1>1. \A t \in Token : Over(t) => Over(t)'
  <2>1. StatusOK BY DEF Typed
  <2> QED BY <2>1, StatusStep DEF Over
<1>2. /\ \A p \in Turn : p \in Worker /\ p \notin Sweep
      /\ \A s \in Sweep : s \in Worker /\ s \notin Turn
      /\ None \notin Token
  BY ChatAssumption DEF Worker
<1>3. ASSUME UNCHANGED <<pc, at, stamped, todo>> PROVE SweepsInOrder'
  <2>1. ASSUME NEW s \in Sweep PROVE InOrder(s)'
    BY <1>0, <1>1, <1>3 DEF SweepsInOrder, InOrder
  <2> QED BY <1>1, <1>3, <2>1 DEF SweepsInOrder
<1>4. ASSUME NEW p \in Turn, Others(p), UNCHANGED <<stamped, todo>> PROVE SweepsInOrder'
  <2>1. ASSUME NEW s \in Sweep PROVE InOrder(s)'
    <3>1. s # p /\ s \in Worker BY <1>2
    <3>2. pc'[s] = pc[s] /\ at'[s] = at[s] /\ todo'[s] = todo[s] /\ todo[s] \subseteq Token
      BY <1>0, <1>4, <3>1 DEF Others
    <3> QED BY <1>1, <3>2 DEF SweepsInOrder, InOrder
  <2> QED BY <1>1, <1>4, <2>1 DEF SweepsInOrder
<1>5. ASSUME NEW s \in Sweep, Others(s), \A r \in Sweep \ {s} : todo'[r] = todo[r], InOrder(s)',
             \A t \in Token : stamped'[t] => stamped[t] \/ Over(t)
      PROVE  SweepsInOrder'
  <2>1. ASSUME NEW r \in Sweep, r # s PROVE InOrder(r)'
    <3>1. pc'[r] = pc[r] /\ at'[r] = at[r] /\ todo'[r] = todo[r] /\ todo[r] \subseteq Token
      BY <1>0, <1>2, <1>5, <2>1 DEF Others
    <3> QED BY <1>1, <3>1 DEF SweepsInOrder, InOrder
  <2> QED BY <1>1, <1>5, <2>1 DEF SweepsInOrder
<1>6. ASSUME NEW p \in Turn, NEW t \in Token, Open(p, t) \/ Send(p, t) PROVE SweepsInOrder'
  <2>1. UNCHANGED <<stamped, todo>> BY <1>6 DEF Open, Send, row
  <2>2. UNCHANGED <<pc, at>> \/ Others(p) BY <1>0, <1>2, <1>6, TurnArrives, Arrived
  <2> QED BY <1>3, <1>4, <2>1, <2>2
<1>7. ASSUME NEW p \in Turn, TurnStep(p) \/ MarkFails(p) \/ TurnDies(p) PROVE SweepsInOrder'
  <2>1. UNCHANGED <<stamped, todo>>
    BY <1>7 DEF TurnStep, Greet, Act, SaveTools, Save, ReadBack, MarkEnded, MarkFails, TurnDies, row
  <2>2. Others(p) BY <1>0, <1>2, <1>7, TurnArrives, Arrived DEF TurnStep
  <2> QED BY <1>4, <2>1, <2>2
<1>8. ASSUME NEW w \in Worker, CommentStep(w) \/ CheckFails(w) \/ PostFails(w) PROVE SweepsInOrder'
  <2>1. UNCHANGED <<stamped, todo>>
    BY <1>8 DEF CommentStep, Skip, Check, Post, CheckFails, PostFails, row
  <2>2. \/ Arrive(w, "posting", at[w], rep[w])
        \/ w \in Turn /\ Arrive(w, "done", None, NoRep)
        \/ w \notin Turn /\ Arrive(w, "stamping", at[w], NoRep)
    BY <1>0, <1>8, CommentArrives DEF CommentStep
  <2>3. Others(w) BY <1>0, <2>2, Arrived
  <2>4. CASE w \in Turn BY <1>4, <2>1, <2>3, <2>4
  <2>5. CASE w \notin Turn
    <3>1. w \in Sweep BY <2>5 DEF Worker
    <3>2. at'[w] = at[w] /\ pc'[w] \in {"posting", "stamping"} BY <1>0, <2>2, <2>5, Arrived
    <3>3. InOrder(w)' BY <1>0, <1>1, <2>1, <3>1, <3>2 DEF SweepsInOrder, InOrder
    <3> QED BY <1>5, <2>1, <2>3, <3>1, <3>3
  <2> QED BY <2>4, <2>5
<1>9. ASSUME NEW s \in Sweep, NEW t, NextRow(s, t) PROVE
          Others(s) /\ InOrder(s)' /\ \A r \in Sweep \ {s} : todo'[r] = todo[r]
  <2>1. \/ todo[s] # {t} /\ Arrive(s, "visiting", None, NoRep)
        \/ todo[s] = {t} /\ Arrive(s, "idle", None, NoRep)
    BY <1>9 DEF NextRow, Arrive, Go
  <2>2. todo' = [todo EXCEPT ![s] = @ \ {t}] BY <1>9 DEF NextRow
  <2>3. Others(s) /\ at'[s] = None /\ (pc'[s] = "idle" => todo[s] = {t})
    BY <1>0, <1>2, <2>1, Arrived
  <2> QED BY <1>0, <1>1, <2>2, <2>3 DEF SweepsInOrder, InOrder
<1>10. ASSUME NEW s \in Sweep, Expire(s) \/ List(s) PROVE SweepsInOrder'
  <2>1. Others(s) /\ pc'[s] = "visiting" /\ at'[s] = at[s]
    BY <1>0, <1>2, <1>10, SweepArrives, Arrived
  <2>2. at[s] = None BY <1>2, <1>10 DEF Expire, List, Typed, WorkerTypes
  <2>3. ASSUME NEW t \in todo'[s] PROVE Over(t)'
    BY <1>0, <1>10, <2>3 DEF Expire, List, Stale, Live, Awaiting, Over, row
  <2>4. UNCHANGED stamped /\ \A r \in Sweep \ {s} : todo'[r] = todo[r]
    BY <1>0, <1>10 DEF Expire, List, row
  <2> QED BY <1>5, <2>1, <2>2, <2>3, <2>4 DEF InOrder
<1>11. ASSUME NEW s \in Sweep, NEW t \in Token, Visit(s, t) PROVE SweepsInOrder'
  <2>1. UNCHANGED stamped BY <1>11 DEF Visit, row
  <2>2. CASE Lines(t) = {} /\ NextRow(s, t) BY <1>5, <1>9, <2>1, <2>2
  <2>3. CASE UNCHANGED todo /\ Arrive(s, "checking", t, [n |-> Len(thread[t]), acts |-> Lines(t)])
    <3>1. Others(s) /\ pc'[s] = "checking" /\ at'[s] = t BY <1>0, <1>2, <2>3, Arrived
    <3>2. t \in todo[s] BY <1>11 DEF Visit
    <3>3. InOrder(s)' BY <1>0, <1>1, <2>3, <3>1, <3>2 DEF SweepsInOrder, InOrder
    <3> QED BY <1>5, <2>1, <2>3, <3>1, <3>3
  <2> QED BY <1>0, <1>11, <2>2, <2>3, SweepArrives
<1>12. ASSUME NEW s \in Sweep, Stamp(s) PROVE SweepsInOrder'
  <2>1. NextRow(s, at[s]) /\ stamped' = [stamped EXCEPT ![at[s]] = TRUE] BY <1>12 DEF Stamp
  <2>5. at[s] # None BY <1>0, <1>2, <1>12 DEF Stamp, WorkerTypes
  <2>2. at[s] \in todo[s] BY <2>5 DEF SweepsInOrder, InOrder
  <2>3. Over(at[s]) BY <2>2 DEF SweepsInOrder, InOrder
  <2>4. \A t \in Token : stamped'[t] => stamped[t] \/ Over(t) BY <2>1, <2>3 DEF FlagsOK
  <2> QED BY <1>5, <1>9, <2>1, <2>4
<1>13. ASSUME NEW s \in Sweep, NEW t \in Token, RowFails(s, t) PROVE SweepsInOrder'
  BY <1>5, <1>9, <1>13 DEF RowFails, row
<1>14. ASSUME NEW s \in Sweep, SweepDies(s) PROVE SweepsInOrder'
  <2>1. Others(s) /\ at'[s] = None BY <1>0, <1>2, <1>14, SweepArrives, Arrived
  <2>2. UNCHANGED stamped /\ todo' = [todo EXCEPT ![s] = {}] BY <1>14 DEF SweepDies, row
  <2> QED BY <1>0, <1>5, <2>1, <2>2 DEF InOrder
<1>15. CASE (\E t \in Token : Lapse(t)) \/ UNCHANGED vars
  BY <1>3, <1>15 DEF Lapse, vars, row, held
<1> QED
  BY <1>6, <1>7, <1>8, <1>10, <1>11, <1>12, <1>13, <1>14, <1>15 DEF Next, SweepStep

\* A turn changes its visit once, on its own link.
ActsOnce ==
  \A t \in Token : \A p \in changed[t] :
    /\ pc[p] \notin {"idle", "greeting", "thinking"}
    /\ pc[p] = "acted" => at[p] = t

LEMMA ActsOnceStep == Typed /\ ActsOnce /\ [Next]_vars => ActsOnce'
<1> SUFFICES ASSUME Typed, ActsOnce, [Next]_vars PROVE ActsOnce' OBVIOUS
<1>0. /\ WorkerTypes /\ changed \in [Token -> SUBSET Turn]
      /\ \A p \in Turn : p \in Worker /\ p \notin Sweep
      /\ \A s \in Sweep : s \in Worker /\ s \notin Turn
  BY ChatAssumption DEF Typed, RecordTypes, Worker
<1>1. ASSUME NEW w \in Worker, Others(w), UNCHANGED changed,
             w \in Turn => \/ pc[w] \in {"idle", "greeting", "thinking"}
                           \/ pc'[w] \notin {"idle", "greeting", "thinking", "acted"}
      PROVE  ActsOnce'
  <2>1. ASSUME NEW t \in Token, NEW p \in changed[t], p # w PROVE pc'[p] = pc[p] /\ at'[p] = at[p]
    BY <1>0, <1>1, <2>1 DEF Others
  <2> QED BY <1>0, <1>1, <2>1 DEF ActsOnce
<1>2. ASSUME UNCHANGED <<changed, pc, at>> PROVE ActsOnce' BY <1>2 DEF ActsOnce
<1>3. ASSUME NEW p \in Turn, NEW t \in Token, Open(p, t) \/ Send(p, t) PROVE ActsOnce'
  <2>1. UNCHANGED changed /\ pc[p] = "idle" BY <1>3 DEF Open, Send, book
  <2>2. UNCHANGED <<pc, at>> \/ Others(p) BY <1>0, <1>3, TurnArrives, Arrived
  <2> QED BY <1>0, <1>1, <1>2, <2>1, <2>2
<1>4. ASSUME NEW p \in Turn, Act(p) PROVE ActsOnce'
  <2>1. Others(p) /\ pc'[p] = "acted" /\ at'[p] = at[p] BY <1>0, <1>4, TurnArrives, Arrived
  <2>2. changed' = [changed EXCEPT ![at[p]] = @ \cup {p}] /\ pc[p] = "thinking" BY <1>4 DEF Act
  <2>3. ASSUME NEW t \in Token, NEW q \in changed'[t]
        PROVE  /\ pc'[q] \notin {"idle", "greeting", "thinking"}
               /\ pc'[q] = "acted" => at'[q] = t
    <3>1. CASE q = p
      <4>1. p \notin changed[t] BY <2>2 DEF ActsOnce
      <4>2. t = at[p] BY <1>0, <2>2, <2>3, <3>1, <4>1
      <4> QED BY <2>1, <3>1, <4>2
    <3>2. CASE q # p
      <4>1. q \in changed[t] BY <1>0, <2>2, <2>3, <3>2
      <4>2. pc'[q] = pc[q] /\ at'[q] = at[q] BY <1>0, <2>1, <3>2, <4>1 DEF Others
      <4> QED BY <4>1, <4>2 DEF ActsOnce
    <3> QED BY <3>1, <3>2
  <2> QED BY <2>3 DEF ActsOnce
<1>5. ASSUME NEW p \in Turn, TurnStep(p) \/ MarkFails(p) \/ TurnDies(p), ~Act(p) PROVE ActsOnce'
  <2>1. UNCHANGED changed
    BY <1>5 DEF TurnStep, Greet, Begin, SaveTools, Save, ReadBack, MarkEnded, MarkFails, TurnDies, book
  <2>2. Others(p) /\ pc'[p] \in {"thinking", "saved", "answering", "closing", "done", "checking"}
    BY <1>0, <1>5, TurnArrives, Arrived DEF TurnStep
  <2>3. pc'[p] = "thinking" => pc[p] = "greeting"
    <3>1. CASE Greet(p) BY <3>1 DEF Greet
    <3>2. CASE ~Greet(p)
      <4>1. pc'[p] \in {"saved", "answering", "closing", "done", "checking"}
        BY <1>0, <1>5, <3>2, TurnArrives, Arrived DEF TurnStep
      <4> QED BY <4>1
    <3> QED BY <3>1, <3>2
  <2> QED BY <1>0, <1>1, <2>1, <2>2, <2>3
<1>6. ASSUME NEW s \in Sweep, SweepStep(s) \/ List(s) \/ SweepDies(s) PROVE ActsOnce'
  <2>1. UNCHANGED changed BY <1>6 DEF SweepStep, Expire, Stamp, Visit, List, SweepDies, book
  <2>3. Others(s) BY <1>0, <1>6, SweepAlone
  <2> QED BY <1>0, <1>1, <2>1, <2>3
<1>7. ASSUME NEW s \in Sweep, NEW t \in Token, RowFails(s, t) PROVE ActsOnce'
  <2>1. UNCHANGED changed /\ NextRow(s, t) BY <1>7 DEF RowFails, book
  <2>2. Others(s) BY <1>0, <2>1, SweepAlone
  <2> QED BY <1>0, <1>1, <2>1, <2>2
<1>8. ASSUME NEW w \in Worker, CommentStep(w) \/ CheckFails(w) \/ PostFails(w) PROVE ActsOnce'
  <2>1. UNCHANGED changed
    BY <1>8 DEF CommentStep, Skip, Check, Post, CheckFails, PostFails, book
  <2>2. Others(w) /\ pc'[w] \in {"posting", "done", "stamping"}
    BY <1>0, <1>8, CommentArrives, Arrived DEF CommentStep
  <2> QED BY <1>1, <2>1, <2>2
<1>9. CASE (\E t \in Token : Lapse(t)) \/ UNCHANGED vars
  BY <1>2, <1>9 DEF Lapse, vars, book, held
<1> QED BY <1>3, <1>4, <1>5, <1>6, <1>7, <1>8, <1>9 DEF Next

\* One of the things that excuse a link's missing outcomes.
Slipped(t) == lost[t] \cap {"forked", "refused", "masked", "turn"} # {}

Unsettled(t, a) ==
  /\ a \in changed[t] /\ pc[a] # "acted"
  /\ a \notin Reported(t) /\ late[a] # "shut" /\ ~Slipped(t)

Writing(w, t, a) == at[w] = t /\ pc[w] \in {"checking", "posting"} /\ a \in rep[w].acts

\* Where outcome a of link t is: in its history; in what the turn about to end the
\* link has read; with a turn that writes it, once the link is ended; with the sweep
\* that works on the link, or left out by it, once the link is expired; and with a
\* sweep that has still to look, unless that failed or the outcome came late.
Traced(t, a) ==
  /\ a \in Acts(thread[t])
  /\ \A p \in Turn : at[p] = t /\ pc[p] = "closing" => a \in rep[p].acts
  /\ status[t] = "ended" => \E p \in Turn : Writing(p, t, a)
  /\ status[t] = "expired" => \A s \in Sweep : at[s] = t => a \in Booking \/ Writing(s, t, a)
  /\ status[t] = "expired" /\ stamped[t] => a \in Booking
  /\ status[t] = "expired" /\ ~stamped[t] =>
       \/ a \in Booking \/ late[a] # "no" \/ lost[t] # {}
       \/ \E s \in Sweep : t \in todo[s]

AllTraced == \A t \in Token, a \in Turn : Unsettled(t, a) => Traced(t, a)

LEMMA ReportedIn == \A t, a : a \in Reported(t) <=> \E c \in crm[t] : a \in c.acts
BY DEF Reported

\* A longer history tells at least as much.
LEMMA ActsGrow ==
  ASSUME NEW h \in Seq(Entry), NEW g \in Seq(Entry)
  PROVE  h \o g \in Seq(Entry) /\ Acts(h) \subseteq Acts(h \o g) /\ Acts(g) \subseteq Acts(h \o g)
<1> DEFINE k == h \o g
<1>1. /\ k \in Seq(Entry) /\ Len(k) = Len(h) + Len(g)
      /\ \A i \in 1 .. Len(h) + Len(g) : k[i] = IF i <= Len(h) THEN h[i] ELSE g[i - Len(h)]
  BY ConcatProperties
<1> HIDE DEF k
<1>2. Len(h) \in Nat /\ Len(g) \in Nat BY LenProperties
<1>3. ASSUME NEW a \in Acts(h) PROVE a \in Acts(k)
  <2>1. PICK i \in 1 .. Len(h) : h[i].kind = "did" /\ h[i].by = a BY ActsTyped
  <2>2. i \in 1 .. Len(h) + Len(g) /\ i <= Len(h) BY <1>2
  <2>3. k[i] = h[i] /\ i \in 1 .. Len(k) BY <1>1, <2>2
  <2> QED BY <1>1, <2>1, <2>3, ActsTyped
<1>4. ASSUME NEW a \in Acts(g) PROVE a \in Acts(k)
  <2>1. PICK i \in 1 .. Len(g) : g[i].kind = "did" /\ g[i].by = a BY ActsTyped
  <2> DEFINE j == Len(h) + i
  <2>2. j \in 1 .. Len(h) + Len(g) /\ ~(j <= Len(h)) /\ j - Len(h) = i BY <1>2
  <2> HIDE DEF j
  <2>3. k[j] = g[i] /\ j \in 1 .. Len(k) BY <1>1, <2>2
  <2>4. \E x \in 1 .. Len(k) : k[x].kind = "did" /\ k[x].by = a BY <2>1, <2>3
  <2> QED BY ONLY <1>1, <2>4, ActsTyped, Zenon
<1> QED BY <1>1, <1>3, <1>4 DEF k

LEMMA ActsAppended ==
  ASSUME NEW h \in Seq(Entry), NEW e \in Entry
  PROVE  Acts(h) \subseteq Acts(Append(h, e))
<1> DEFINE k == Append(h, e)
<1>1. /\ k \in Seq(Entry) /\ Len(k) = Len(h) + 1
      /\ \A i \in 1 .. Len(h) : k[i] = h[i]
  BY AppendProperties
<1> HIDE DEF k
<1>2. ASSUME NEW a \in Acts(h) PROVE a \in Acts(k)
  <2>1. PICK i \in 1 .. Len(h) : h[i].kind = "did" /\ h[i].by = a BY ActsTyped
  <2>2. i \in 1 .. Len(k) /\ k[i] = h[i] BY <1>1, LenProperties
  <2> QED BY <1>1, <2>1, <2>2, ActsTyped
<1> QED BY <1>2 DEF k

\* A tool round that is saved is in the history, whatever else the message says.
LEMMA DidIsTold ==
  ASSUME NEW p \in Turn, NEW ends \in BOOLEAN, NEW h \in Seq(Entry)
  PROVE  p \in Acts(h \o Ending(p, E("did", p), ends))
<1> DEFINE g == Ending(p, E("did", p), ends)
<1>2. /\ E("did", p).kind = "did" /\ E("did", p).by = p
      /\ E("did", p) \in Entry /\ E("bye", p) \in Entry
  BY DEF E, Entry
<1>1. g \in Seq(Entry) /\ 1 \in 1 .. Len(g) /\ g[1] = E("did", p)
  <2>1. CASE ends BY <1>2, <2>1 DEF Ending
  <2>2. CASE ~ends BY <1>2, <2>2 DEF Ending
  <2> QED BY <2>1, <2>2
<1> HIDE DEF g
<1>3. p \in Acts(g) BY <1>1, <1>2, ActsTyped
<1>4. Acts(g) \subseteq Acts(h \o g) BY ONLY <1>1, ActsGrow, h \in Seq(Entry), Zenon
<1> QED BY <1>3, <1>4 DEF g

\* What a step of worker w leaves as it was, for outcome a of link t.
Undisturbed(w, t, a) ==
  /\ (a \in changed'[t] => a \in changed[t]) /\ crm[t] \subseteq crm'[t] /\ lost[t] \subseteq lost'[t]
  /\ late'[a] = late[a] /\ (pc[a] = "acted" => pc'[a] = "acted")
  /\ a \in Acts(thread[t]) => a \in Acts(thread'[t])
  /\ status'[t] = status[t] \/ ~Over(t)'
  /\ stamped'[t] = stamped[t] \/ a \in Booking \/ status[t] # "expired"
  /\ lost'[t] # {} \/ a \in Booking \/ \A s \in Sweep : t \in todo[s] => t \in todo'[s]

LEMMA TraceKept ==
  ASSUME AllTraced, NEW w \in Worker, NEW t \in Token, NEW a \in Turn, Others(w),
         Unsettled(t, a)' => Undisturbed(w, t, a),
         Unsettled(t, a)' /\ w \in Turn =>
           /\ at'[w] = t /\ pc'[w] = "closing" => a \in rep'[w].acts
           /\ Writing(w, t, a) => Writing(w, t, a)',
         Unsettled(t, a)' /\ w \in Sweep /\ status[t] = "expired" /\ at'[w] = t =>
           a \in Booking \/ Writing(w, t, a)'
  PROVE  Unsettled(t, a)' => Traced(t, a)'
<1> SUFFICES ASSUME Unsettled(t, a)' PROVE Traced(t, a)' OBVIOUS
<1>1. Unsettled(t, a) BY ReportedIn DEF Unsettled, Slipped, Undisturbed, Reported
<1>2. Traced(t, a) BY <1>1 DEF AllTraced
<1>3. /\ \A p \in Turn : p \in Worker
      /\ \A s \in Sweep : s \in Worker
  BY DEF Worker
<1>4. a \in Acts(thread'[t]) BY <1>2 DEF Undisturbed, Traced
<1>5. ASSUME NEW p \in Turn, at'[p] = t, pc'[p] = "closing" PROVE a \in rep'[p].acts
  <2>1. CASE p = w BY <1>5, <2>1
  <2>2. CASE p # w BY <1>2, <1>3, <1>5, <2>2 DEF Traced, Others
  <2> QED BY <2>1, <2>2
<1>6. ASSUME status'[t] = "ended" PROVE \E p \in Turn : Writing(p, t, a)'
  <2>1. status[t] = "ended" BY <1>6 DEF Undisturbed, Over
  <2>2. PICK p \in Turn : Writing(p, t, a) BY <1>2, <2>1 DEF Traced
  <2>3. CASE p = w BY <2>2, <2>3
  <2>4. CASE p # w BY <1>3, <2>2, <2>4 DEF Writing, Others
  <2> QED BY <2>3, <2>4
<1>7. ASSUME status'[t] = "expired", NEW s \in Sweep, at'[s] = t PROVE a \in Booking \/ Writing(s, t, a)'
  <2>1. status[t] = "expired" BY <1>7 DEF Undisturbed, Over
  <2>2. CASE s = w BY <1>7, <2>1, <2>2
  <2>3. CASE s # w BY <1>2, <1>3, <1>7, <2>1, <2>3 DEF Traced, Writing, Others
  <2> QED BY <2>2, <2>3
<1>8. status'[t] = "expired" => status[t] = "expired" BY DEF Undisturbed, Over
<1>9. status'[t] = "expired" /\ stamped'[t] => a \in Booking BY <1>2, <1>8 DEF Traced, Undisturbed
<1>10. ASSUME status'[t] = "expired", ~stamped'[t], a \notin Booking, late'[a] = "no", lost'[t] = {}
       PROVE  \E s \in Sweep : t \in todo'[s]
  <2>1. stamped'[t] = stamped[t] /\ late[a] = "no" /\ lost[t] = {} BY <1>8, <1>10 DEF Undisturbed
  <2>2. PICK s \in Sweep : t \in todo[s] BY <1>2, <1>8, <1>10, <2>1 DEF Traced
  <2> QED BY <1>10, <2>2 DEF Undisturbed
<1> QED BY <1>4, <1>5, <1>6, <1>7, <1>9, <1>10 DEF Traced, Writing

ChatInv == Typed /\ FlagsOK /\ SweepsInOrder /\ ActsOnce /\ AllTraced

\* A step of worker w that changes no table.
Tableless == UNCHANGED <<status, stamped, thread, changed, crm, todo, late, lost>>

LEMMA TablelessKept ==
  ASSUME Tableless, NEW w \in Worker, Others(w), pc[w] # "acted", NEW t \in Token, NEW a \in Turn
  PROVE  Undisturbed(w, t, a)
BY DEF Tableless, Others, Undisturbed, Worker

\* A turn writes its history where nobody has written since, or the link has forked.
LEMMA Wrote ==
  ASSUME Typed, NEW p \in Turn, at[p] \in Token, NEW g \in Seq(Entry), Write(p, mine[p] \o g),
         NEW t \in Token
  PROVE  /\ lost[t] \subseteq lost'[t]
         /\ Slipped(t)' \/ Acts(thread[t]) \subseteq Acts(thread'[t])
         /\ t # at[p] => lost'[t] = lost[t] /\ thread'[t] = thread[t]
         /\ t = at[p] => thread'[t] = mine[p] \o g
<1> DEFINE h == mine[p] \o g
           slips == IF thread[at[p]] = mine[p] THEN lost[at[p]] ELSE lost[at[p]] \cup {"forked"}
<1>0. /\ thread \in [Token -> Seq(Entry)] /\ mine[p] \in Seq(Entry)
      /\ lost \in [Token -> SUBSET {"forked", "refused", "masked", "turn", "sweep"}]
  BY DEF Typed, HistoryTypes, RecordTypes
<1>1. Acts(mine[p]) \subseteq Acts(h) BY <1>0, ActsGrow
<1>2. thread' = [thread EXCEPT ![at[p]] = h] /\ lost' = [lost EXCEPT ![at[p]] = slips]
  BY DEF Write
<1>3. t = at[p] => h = mine[p] \o g OBVIOUS
<1> HIDE DEF h
<1>4. CASE t # at[p] BY <1>0, <1>2, <1>4
<1>5. CASE t = at[p] /\ thread[t] = mine[p] BY <1>0, <1>1, <1>2, <1>3, <1>5
<1>6. CASE t = at[p] /\ thread[t] # mine[p]
  <2>1. lost'[t] = lost[t] \cup {"forked"} /\ thread'[t] = h BY <1>0, <1>2, <1>6
  <2> QED BY <1>3, <1>6, <2>1 DEF Slipped
<1> QED BY <1>4, <1>5, <1>6

LEMMA EndingTyped ==
  ASSUME NEW p \in Turn, NEW ends \in BOOLEAN, NEW kind \in {"did", "said"}
  PROVE  Ending(p, E(kind, p), ends) \in Seq(Entry)
<1>1. E(kind, p) \in Entry /\ E("bye", p) \in Entry BY DEF E, Entry
<1>2. CASE ends BY <1>1, <1>2 DEF Ending
<1>3. CASE ~ends BY <1>1, <1>3 DEF Ending
<1> QED BY <1>2, <1>3

\* Begin adds to the history of its link.
LEMMA Began ==
  ASSUME Typed, NEW p \in Turn, NEW u \in Token, Begin(p, u), NEW t \in Token
  PROVE  Acts(thread[t]) \subseteq Acts(thread'[t])
<1> DEFINE h == Append(thread[u], E("in", p))
<1>0. thread \in [Token -> Seq(Entry)] BY DEF Typed, HistoryTypes
<1>1. E("in", p) \in Entry BY DEF E, Entry
<1>2. Acts(thread[u]) \subseteq Acts(h) BY <1>0, <1>1, ActsAppended
<1>3. thread' = [thread EXCEPT ![u] = h] BY DEF Begin
<1> HIDE DEF h
<1> QED BY <1>0, <1>2, <1>3

\* Whoever saves an outcome that is not shut out finds a link nobody has read off.
LEMMA FreshTraced ==
  ASSUME ChatInv, NEW p \in Turn, NEW ends \in BOOLEAN, SaveTools(p, ends),
         NEW t \in Token, Unsettled(t, p)'
  PROVE  Traced(t, p)'
<1>0. /\ WorkerTypes /\ p \in Worker
      /\ \A q \in Turn : q \in Worker
      /\ \A s \in Sweep : s \in Worker /\ s # p
  BY ChatAssumption DEF ChatInv, Typed, Worker
<1>1. pc[p] = "acted" /\ t = at[p]
  BY DEF SaveTools, Unsettled, ChatInv, ActsOnce
<1>2. /\ Others(p) /\ pc'[p] \in {"saved", "answering"} /\ at'[p] = t /\ rep'[p] = rep[p]
  BY <1>0, <1>1, TurnArrives, Arrived
<1>3. late' = [late EXCEPT ![p] = Lateness(p, t)] /\ UNCHANGED <<status, stamped, todo>>
  BY <1>1 DEF SaveTools, row
<1>4. late \in [Turn -> {"no", "swept", "shut"}] BY DEF ChatInv, Typed, RecordTypes
<1>5. ~ReadOff(p, t) /\ (status[t] = "expired" => late'[p] = "swept")
  BY <1>3, <1>4 DEF Unsettled, Lateness
<1>6. status[t] # "ended" /\ ~(status[t] = "expired" /\ stamped[t]) BY <1>5 DEF ReadOff
<1>7. \A w \in Worker \ {p} :
        ~(at[w] = t /\ pc[w] \in {"closing", "checking", "posting", "stamping"})
  BY <1>5 DEF ReadOff
<1>8. p \in Acts(thread'[t])
  <2> DEFINE g == Ending(p, E("did", p), ends)
  <2>1. mine[p] \in Seq(Entry) BY DEF ChatInv, Typed, HistoryTypes
  <2>2. p \in Acts(mine[p] \o g) BY <2>1, DidIsTold
  <2>3. thread' = [thread EXCEPT ![t] = mine[p] \o g] BY <1>1 DEF SaveTools, Write
  <2>4. thread \in [Token -> Seq(Entry)] BY DEF ChatInv, Typed, HistoryTypes
  <2> QED BY <2>2, <2>3, <2>4
<1>9. ASSUME NEW q \in Turn, at'[q] = t PROVE pc'[q] # "closing"
  BY <1>0, <1>2, <1>7, <1>9 DEF Others
<1>10. ASSUME NEW s \in Sweep PROVE at'[s] # t
  <2>1. at'[s] = at[s] /\ pc[s] \in SweepPoint BY <1>0, <1>2 DEF Others, WorkerTypes
  <2>2. ~(pc[s] \in {"checking", "posting", "stamping"} /\ at[s] = t) BY <1>0, <1>7
  <2>3. pc[s] \in {"idle", "visiting"} => at[s] = None BY <1>0 DEF WorkerTypes
  <2>4. t # None BY ChatAssumption
  <2> QED BY <2>1, <2>2, <2>3, <2>4 DEF SweepPoint
<1> QED BY <1>3, <1>5, <1>6, <1>8, <1>9, <1>10 DEF Traced

LEMMA TurnTraced ==
  ASSUME ChatInv, NEW p \in Turn,
         TurnStep(p) \/ MarkFails(p) \/ TurnDies(p) \/ \E t \in Token : Open(p, t) \/ Send(p, t)
  PROVE  AllTraced'
<1>0. /\ WorkerTypes /\ Typed /\ AllTraced /\ p \in Worker /\ p \notin Sweep
      /\ (pc[p] \notin {"idle", "done", "visiting"} => at[p] \in Token)
  BY ChatAssumption DEF ChatInv, Typed, WorkerTypes, Worker
<1> SUFFICES ASSUME NEW t \in Token, NEW a \in Turn PROVE Unsettled(t, a)' => Traced(t, a)'
  BY DEF AllTraced
<1>1. ASSUME Others(p), Unsettled(t, a)' => Undisturbed(p, t, a), pc'[p] # "closing", pc[p] \notin {"checking", "posting"}
      PROVE  Unsettled(t, a)' => Traced(t, a)'
  BY <1>0, <1>1, TraceKept DEF Writing
<1>2. ASSUME NEW u \in Token, Open(p, u) PROVE Unsettled(t, a)' => Traced(t, a)'
  <2>1. /\ UNCHANGED <<stamped, thread, changed, crm, todo, late, lost>> /\ pc[p] = "idle"
        /\ status' = Opened(u)
    BY <1>2 DEF Open, book, hist
  <2>2. status'[t] = status[t] \/ ~Over(t)' BY <1>0, <2>1 DEF Typed, StatusOK, Opened, Over
  <2>3. CASE Others(p) /\ pc'[p] = "greeting"
    <3>1. Undisturbed(p, t, a) BY <2>1, <2>2, <2>3 DEF Undisturbed, Others, Worker
    <3> QED BY <1>1, <2>1, <2>3, <3>1
  <2>4. CASE UNCHANGED <<pc, at, rep>>
    <3>1. Undisturbed(p, t, a) /\ Others(p) BY <2>1, <2>2, <2>4 DEF Undisturbed, Others
    <3> QED BY <1>1, <2>1, <2>4, <3>1
  <2> QED BY <1>0, <1>2, <2>3, <2>4, TurnArrives, Arrived
<1>3. ASSUME NEW u \in Token, Begin(p, u), Others(p), pc'[p] = "thinking",
             pc[p] \in {"idle", "greeting"}, UNCHANGED <<row, changed, crm, todo, hist>>
      PROVE  Unsettled(t, a)' => Traced(t, a)'
  <2>1. Acts(thread[t]) \subseteq Acts(thread'[t]) BY <1>0, <1>3, Began
  <2>2. Undisturbed(p, t, a) BY <1>3, <2>1 DEF Undisturbed, Others, Worker, row, hist
  <2> QED BY <1>1, <1>3, <2>2
<1>4. ASSUME NEW u \in Token, Send(p, u) PROVE Unsettled(t, a)' => Traced(t, a)'
  <2>1. Others(p) /\ pc'[p] = "thinking" BY <1>0, <1>4, TurnArrives, Arrived
  <2> QED BY <1>3, <1>4, <2>1 DEF Send
<1>5. ASSUME Greet(p) PROVE Unsettled(t, a)' => Traced(t, a)'
  <2>1. Others(p) /\ pc'[p] = "thinking" BY <1>0, <1>5, TurnArrives, Arrived
  <2> QED BY <1>0, <1>3, <1>5, <2>1 DEF Greet
<1>6. ASSUME Act(p) PROVE Unsettled(t, a)' => Traced(t, a)'
  <2>1. Others(p) /\ pc'[p] = "acted" /\ pc[p] = "thinking"
    BY <1>0, <1>6, TurnArrives, Arrived DEF Act
  <2>2. changed' = [changed EXCEPT ![at[p]] = @ \cup {p}] BY <1>6 DEF Act
  <2>3. changed'[t] \subseteq changed[t] \cup {p}
    BY <1>0, <2>2 DEF Typed, RecordTypes
  <2>4. ASSUME Unsettled(t, a)' PROVE Undisturbed(p, t, a)
    <3>1. a # p BY <2>1, <2>4 DEF Unsettled
    <3>2. a \in changed[t] BY <2>3, <2>4, <3>1 DEF Unsettled
    <3>3. UNCHANGED <<status, stamped, thread, crm, todo, late, lost>> BY <1>6 DEF Act, row, hist
    <3> QED BY <2>1, <2>3, <3>1, <3>2, <3>3 DEF Undisturbed, Others, Worker
  <2> QED BY <1>1, <2>1, <2>4
<1>7. ASSUME NEW ends \in BOOLEAN, SaveTools(p, ends) PROVE Unsettled(t, a)' => Traced(t, a)'
  <2>1. CASE a = p BY <1>7, <2>1, FreshTraced
  <2>2. CASE a # p
    <3>1. Others(p) /\ pc'[p] \in {"saved", "answering"} /\ pc[p] = "acted" /\ at[p] \in Token
      BY <1>0, <1>7, TurnArrives, Arrived DEF SaveTools
    <3>2. Ending(p, E("did", p), ends) \in Seq(Entry) BY EndingTyped
    <3>3. lost[t] \subseteq lost'[t] /\ (Slipped(t)' \/ Acts(thread[t]) \subseteq Acts(thread'[t]))
      BY <1>0, <1>7, <3>1, <3>2, Wrote DEF SaveTools
    <3>4. late'[a] = late[a] /\ UNCHANGED <<status, stamped, changed, crm, todo>>
      BY <1>0, <1>7, <2>2 DEF SaveTools, row, Typed, RecordTypes
    <3>5. Unsettled(t, a)' => Undisturbed(p, t, a)
      BY <2>2, <3>1, <3>3, <3>4 DEF Undisturbed, Unsettled, Others, Worker
    <3> QED BY <1>1, <3>1, <3>5
  <2> QED BY <2>1, <2>2
<1>8. ASSUME NEW ends \in BOOLEAN, Save(p, ends) PROVE Unsettled(t, a)' => Traced(t, a)'
  <2>1. /\ Others(p) /\ pc'[p] = "saved" /\ pc[p] \in {"thinking", "answering"} /\ at[p] \in Token
    BY <1>0, <1>8, TurnArrives, Arrived DEF Save
  <2>2. Ending(p, E("said", p), ends) \in Seq(Entry) BY EndingTyped
  <2>3. lost[t] \subseteq lost'[t] /\ (Slipped(t)' \/ Acts(thread[t]) \subseteq Acts(thread'[t]))
    BY <1>0, <1>8, <2>1, <2>2, Wrote DEF Save
  <2>4. UNCHANGED <<status, stamped, changed, crm, todo, late>> BY <1>8 DEF Save, row
  <2>5. Unsettled(t, a)' => Undisturbed(p, t, a)
    BY <2>1, <2>3, <2>4 DEF Undisturbed, Unsettled, Others, Worker
  <2> QED BY <1>1, <2>1, <2>5
<1>9. ASSUME ReadBack(p) PROVE Unsettled(t, a)' => Traced(t, a)'
  <2>1. Tableless /\ pc[p] = "saved" BY <1>9 DEF ReadBack, Tableless, row, book, hist
  <2>2. CASE Arrive(p, "done", None, NoRep)
    <3>1. Others(p) /\ pc'[p] = "done" BY <1>0, <2>2, Arrived
    <3> QED BY <1>0, <1>1, <2>1, <3>1, TablelessKept
  <2>3. CASE Arrive(p, "closing", at[p], Told(thread[at[p]], since[p]))
    <3>1. /\ Others(p) /\ at'[p] = at[p] /\ rep'[p] = Told(thread[at[p]], since[p])
      BY <1>0, <2>3, Arrived
    <3>2. Undisturbed(p, t, a) BY <1>0, <2>1, <3>1, TablelessKept
    <3>3. Unsettled(t, a)' => Unsettled(t, a)
      BY <3>2, ReportedIn DEF Unsettled, Slipped, Undisturbed, Reported
    <3>4. Unsettled(t, a)' /\ at'[p] = t => a \in rep'[p].acts
      BY <1>0, <3>1, <3>3 DEF AllTraced, Traced, Told
    <3> QED BY <1>0, <2>1, <3>1, <3>2, <3>4, TraceKept DEF Writing
  <2> QED BY <1>0, <1>9, <2>2, <2>3, TurnArrives
<1>10. ASSUME pc[p] = "closing",
              \/ rep[p].acts = {} /\ Arrive(p, "done", None, NoRep)
              \/ rep[p].acts # {} /\ Arrive(p, "checking", at[p], rep[p])
       PROVE  /\ Others(p) /\ pc'[p] \in {"done", "checking"}
              /\ pc'[p] = "checking" => at'[p] = at[p] /\ rep'[p] = rep[p]
              /\ pc'[p] = "done" => rep[p].acts = {}
  BY <1>0, <1>10, Arrived
<1>11. ASSUME MarkFails(p) PROVE Unsettled(t, a)' => Traced(t, a)'
  <2>1. Tableless /\ pc[p] = "closing" BY <1>11 DEF MarkFails, Tableless, row, book
  <2>2. Others(p) /\ pc'[p] \in {"done", "checking"} BY <1>0, <1>10, <1>11, <2>1, TurnArrives
  <2> QED BY <1>0, <1>1, <2>1, <2>2, TablelessKept
<1>12. ASSUME MarkEnded(p) PROVE Unsettled(t, a)' => Traced(t, a)'
  <2>1. /\ UNCHANGED <<stamped, thread, changed, crm, todo, late, lost>> /\ pc[p] = "closing"
        /\ status' = [status EXCEPT ![at[p]] = "ended"]
    BY <1>12 DEF MarkEnded, book, hist
  <2>2. /\ Others(p) /\ pc'[p] \in {"done", "checking"}
        /\ pc'[p] = "checking" => at'[p] = at[p] /\ rep'[p] = rep[p]
        /\ pc'[p] = "done" => rep[p].acts = {}
    BY <1>0, <1>10, <1>12, <2>1, TurnArrives
  <2>3. CASE t # at[p]
    <3>1. status'[t] = status[t] BY <1>0, <2>1, <2>3 DEF Typed, StatusOK
    <3>2. Undisturbed(p, t, a) BY <2>1, <2>2, <3>1 DEF Undisturbed, Others, Worker
    <3> QED BY <1>1, <2>1, <2>2, <3>2
  <2>4. ASSUME t = at[p], Unsettled(t, a)' PROVE Traced(t, a)'
    <3>1. status'[t] = "ended" BY <1>0, <2>1, <2>4 DEF Typed, StatusOK
    <3>2. Unsettled(t, a)
      BY <2>1, <2>2, <2>4, ReportedIn DEF Unsettled, Slipped, Reported, Others, Worker
    <3>3. Traced(t, a) /\ a \in rep[p].acts BY <1>0, <2>1, <2>4, <3>2 DEF AllTraced, Traced
    <3>4. Writing(p, t, a)' BY <2>2, <2>4, <3>3 DEF Writing
    <3>5. ASSUME NEW q \in Turn, at'[q] = t, pc'[q] = "closing" PROVE a \in rep'[q].acts
      BY <2>2, <3>3, <3>5 DEF Traced, Others, Worker
    <3> QED BY <2>1, <3>1, <3>3, <3>4, <3>5 DEF Traced, Writing
  <2> QED BY <2>3, <2>4
<1>13. ASSUME TurnDies(p) PROVE Unsettled(t, a)' => Traced(t, a)'
  <2>1. Others(p) /\ at'[p] = None /\ pc'[p] = "done" BY <1>0, <1>13, TurnArrives, Arrived
  <2>2. UNCHANGED <<status, stamped, thread, changed, crm, todo, late>>
    BY <1>13 DEF TurnDies, row, book
  <2>3. lost \in [Token -> SUBSET {"forked", "refused", "masked", "turn", "sweep"}]
    BY <1>0 DEF Typed, RecordTypes
  <2>4. CASE pc[p] \in {"acted", "checking", "posting"}
    <3>1. lost' = [lost EXCEPT ![at[p]] = @ \cup {"turn"}] BY <1>13, <2>4 DEF TurnDies, Note
    <3>2. t = at[p] => Slipped(t)' BY <2>3, <3>1 DEF Slipped
    <3>3. ASSUME Unsettled(t, a)' PROVE Undisturbed(p, t, a) /\ ~Writing(p, t, a)
      <4>1. t # at[p] BY <3>2, <3>3 DEF Unsettled
      <4>2. lost'[t] = lost[t] BY <2>3, <3>1, <4>1
      <4>3. a \in changed[t] BY <2>2, <3>3 DEF Unsettled
      <4>4. pc[a] = "acted" => a # p BY <4>1, <4>3 DEF ChatInv, ActsOnce
      <4> QED BY <2>1, <2>2, <4>1, <4>2, <4>4 DEF Undisturbed, Writing, Others, Worker
    <3> QED BY <1>0, <2>1, <3>3, TraceKept
  <2>5. CASE pc[p] \notin {"acted", "checking", "posting"}
    <3>1. UNCHANGED lost BY <1>13, <2>5 DEF TurnDies
    <3>2. Undisturbed(p, t, a) BY <2>1, <2>2, <2>5, <3>1 DEF Undisturbed, Others, Worker
    <3> QED BY <1>1, <2>1, <2>5, <3>2
  <2> QED BY <2>4, <2>5
<1> QED
  BY <1>2, <1>4, <1>5, <1>6, <1>7, <1>8, <1>9, <1>11, <1>12, <1>13 DEF TurnStep

LEMMA SweepTraced ==
  ASSUME ChatInv, NEW s \in Sweep,
         SweepStep(s) \/ List(s) \/ SweepDies(s) \/ \E t \in Token : RowFails(s, t)
  PROVE  AllTraced'
<1>0. /\ WorkerTypes /\ AllTraced /\ s \in Worker /\ s \notin Turn
      /\ todo \in [Sweep -> SUBSET Token] /\ None \notin Token
      /\ lost \in [Token -> SUBSET {"forked", "refused", "masked", "turn", "sweep"}]
      /\ StatusOK
  BY ChatAssumption DEF ChatInv, Typed, RecordTypes, Worker
<1> SUFFICES ASSUME NEW t \in Token, NEW a \in Turn PROVE Unsettled(t, a)' => Traced(t, a)'
  BY DEF AllTraced
<1>1. ASSUME Others(s), Unsettled(t, a)' => Undisturbed(s, t, a), at'[s] # t
      PROVE  Unsettled(t, a)' => Traced(t, a)'
  BY <1>0, <1>1, TraceKept
<1>2. ASSUME Others(s), UNCHANGED <<thread, changed, crm, late, lost>> PROVE
         Unsettled(t, a)' => Unsettled(t, a)
  BY <1>0, <1>2 DEF Unsettled, Slipped, Reported, Others, Worker
<1>3. ASSUME Expire(s) PROVE Unsettled(t, a)' => Traced(t, a)'
  <2>1. /\ UNCHANGED <<stamped, thread, changed, crm, late, lost>> /\ pc[s] = "idle"
        /\ status' = [u \in Token |-> IF u \in Stale THEN "expired" ELSE status[u]]
        /\ todo' = [todo EXCEPT ![s] = Stale]
    BY <1>3 DEF Expire, book, hist
  <2>2. Others(s) /\ pc'[s] = "visiting" /\ at'[s] = at[s]
    BY <1>0, <1>3, SweepArrives, Arrived
  <2>3. at[s] = None /\ todo[s] = {}
    BY <1>0, <2>1 DEF WorkerTypes, ChatInv, SweepsInOrder, InOrder
  <2>4. CASE t \notin Stale
    <3>1. status'[t] = status[t] BY <2>1, <2>4
    <3>2. \A r \in Sweep : t \in todo[r] => t \in todo'[r] BY <1>0, <2>1, <2>3
    <3>3. Undisturbed(s, t, a)
      BY <1>0, <2>1, <2>2, <3>1, <3>2 DEF Undisturbed, Others, Worker
    <3> QED BY <1>0, <1>1, <2>2, <2>3, <3>3
  <2>5. ASSUME t \in Stale, Unsettled(t, a)' PROVE Traced(t, a)'
    <3>1. Traced(t, a) BY <1>0, <1>2, <2>1, <2>2, <2>5 DEF AllTraced
    <3>2. status'[t] = "expired" /\ t \in todo'[s] BY <1>0, <2>1, <2>5
    <3>3. ~Over(t) BY <2>5 DEF Stale, Live, Over
    <3>4. ~stamped'[t] BY <2>1, <3>3 DEF ChatInv, SweepsInOrder
    <3>5. ASSUME NEW r \in Sweep PROVE at'[r] # t
      <4>1. at'[r] = at[r] BY <2>2 DEF Others, Worker
      <4>2. at[r] = t => t \in todo[r] /\ Over(t)
        BY <1>0 DEF ChatInv, SweepsInOrder, InOrder
      <4> QED BY <3>3, <4>1, <4>2
    <3>6. ASSUME NEW q \in Turn, at'[q] = t, pc'[q] = "closing" PROVE a \in rep'[q].acts
      <4>1. q \in Worker \ {s} BY <1>0 DEF Worker
      <4> QED BY <2>2, <3>1, <3>6, <4>1 DEF Traced, Others
    <3> QED BY <2>1, <3>1, <3>2, <3>4, <3>5, <3>6 DEF Traced
  <2> QED BY <2>4, <2>5
<1>4. ASSUME List(s) PROVE Unsettled(t, a)' => Traced(t, a)'
  <2>1. /\ UNCHANGED <<status, stamped, thread, changed, crm, late, lost>> /\ pc[s] = "idle"
        /\ todo' = [todo EXCEPT ![s] = Awaiting]
    BY <1>4 DEF List, row, book, hist
  <2>2. Others(s) /\ at'[s] = at[s] BY <1>0, <1>4, SweepArrives, Arrived
  <2>3. at[s] = None /\ todo[s] = {}
    BY <1>0, <2>1 DEF WorkerTypes, ChatInv, SweepsInOrder, InOrder
  <2>4. \A r \in Sweep : t \in todo[r] => t \in todo'[r] BY <1>0, <2>1, <2>3
  <2>5. Undisturbed(s, t, a) BY <1>0, <2>1, <2>2, <2>4 DEF Undisturbed, Others, Worker
  <2> QED BY <1>0, <1>1, <2>2, <2>3, <2>5
<1>5. ASSUME NEW u \in Token, NextRow(s, u)
      PROVE  /\ Others(s) /\ at'[s] = None
             /\ \A r \in Sweep : t \in todo[r] => t \in todo'[r] \/ (r = s /\ t = u)
  <2>1. Arrive(s, "visiting", None, NoRep) \/ Arrive(s, "idle", None, NoRep)
    BY <1>5 DEF NextRow, Arrive, Go
  <2>2. todo' = [todo EXCEPT ![s] = @ \ {u}] BY <1>5 DEF NextRow
  <2> QED BY <1>0, <2>1, <2>2, Arrived
<1>6. ASSUME NEW u \in Token, Visit(s, u) PROVE Unsettled(t, a)' => Traced(t, a)'
  <2>1. UNCHANGED <<status, stamped, thread, changed, crm, late, lost>>
    BY <1>6 DEF Visit, row, book, hist
  <2>2. CASE Lines(u) = {} /\ NextRow(s, u)
    <3>1. ASSUME Unsettled(t, a)' PROVE Undisturbed(s, t, a)
      <4>1. Traced(t, a) BY <1>0, <1>2, <1>5, <2>1, <2>2, <3>1 DEF AllTraced
      <4>2. t = u => a \in Booking BY <2>2, <4>1 DEF Traced, Lines
      <4> QED BY <1>0, <1>5, <2>1, <2>2, <4>2 DEF Undisturbed, Others, Worker
    <3> QED BY <1>0, <1>1, <1>5, <2>2, <3>1
  <2>3. CASE UNCHANGED todo /\ Arrive(s, "checking", u, [n |-> Len(thread[u]), acts |-> Lines(u)])
    <3> DEFINE r == [n |-> Len(thread[u]), acts |-> Lines(u)]
    <3>1. r.acts = Lines(u) OBVIOUS
    <3> HIDE DEF r
    <3>2. Others(s) /\ pc'[s] = "checking" /\ at'[s] = u /\ rep'[s] = r
      BY <1>0, <2>3, Arrived DEF r
    <3>3. Undisturbed(s, t, a) BY <1>0, <2>1, <2>3, <3>2 DEF Undisturbed, Others, Worker
    <3>4. ASSUME Unsettled(t, a)', at'[s] = t PROVE a \in Booking \/ Writing(s, t, a)'
      <4>1. a \in Acts(thread[t]) BY <1>0, <1>2, <2>1, <3>2, <3>4 DEF AllTraced, Traced
      <4> QED BY <3>1, <3>2, <3>4, <4>1 DEF Writing, Lines
    <3> QED BY <1>0, <3>2, <3>3, <3>4, TraceKept
  <2> QED BY <1>0, <1>6, <2>2, <2>3, SweepArrives
<1>7. ASSUME Stamp(s) PROVE Unsettled(t, a)' => Traced(t, a)'
  <2>1. /\ UNCHANGED <<status, thread, changed, crm, late, lost>> /\ pc[s] = "stamping"
        /\ NextRow(s, at[s]) /\ stamped' = [stamped EXCEPT ![at[s]] = TRUE]
    BY <1>7 DEF Stamp, book, hist
  <2>2. at[s] \in Token BY <1>0, <2>1 DEF WorkerTypes
  <2>3. CASE t # at[s]
    <3>1. stamped'[t] = stamped[t] BY <2>1, <2>3 DEF ChatInv, FlagsOK
    <3>2. Undisturbed(s, t, a)
      BY <1>0, <1>5, <2>1, <2>2, <2>3, <3>1 DEF Undisturbed, Others, Worker
    <3> QED BY <1>0, <1>1, <1>5, <2>1, <2>2, <3>2
  <2>4. ASSUME t = at[s], Unsettled(t, a)' PROVE Traced(t, a)'
    <3>0. Others(s) /\ at'[s] = None BY <1>5, <2>1, <2>2
    <3>1. Traced(t, a) BY <1>0, <1>2, <2>1, <2>4, <3>0 DEF AllTraced
    <3>2. status[t] = "expired" => a \in Booking BY <2>1, <2>4, <3>1 DEF Traced, Writing
    <3>3. ASSUME NEW q \in Turn PROVE at'[q] = at[q] /\ pc'[q] = pc[q] /\ rep'[q] = rep[q]
      <4>1. q \in Worker \ {s} BY <1>0 DEF Worker
      <4> QED BY <3>0, <4>1 DEF Others
    <3> QED BY <2>1, <3>1, <3>2, <3>3 DEF Traced, Writing
  <2> QED BY <2>3, <2>4
<1>8. ASSUME NEW u \in Token, RowFails(s, u) PROVE Unsettled(t, a)' => Traced(t, a)'
  <2>1. /\ UNCHANGED <<status, stamped, thread, changed, crm, late>>
        /\ lost' = [lost EXCEPT ![u] = @ \cup {"sweep"}] /\ NextRow(s, u)
    BY <1>8 DEF RowFails, Note, row, book
  <2>2. lost[t] \subseteq lost'[t] /\ (t = u => lost'[t] # {}) BY <1>0, <2>1
  <2>3. Undisturbed(s, t, a) BY <1>0, <1>5, <2>1, <2>2 DEF Undisturbed, Others, Worker
  <2> QED BY <1>0, <1>1, <1>5, <2>1, <2>3
<1>9. ASSUME SweepDies(s) PROVE Unsettled(t, a)' => Traced(t, a)'
  <2>1. /\ UNCHANGED <<status, stamped, thread, changed, crm, late>>
        /\ lost' = [u \in Token |-> IF u \in todo[s] THEN lost[u] \cup {"sweep"} ELSE lost[u]]
        /\ todo' = [todo EXCEPT ![s] = {}]
    BY <1>9 DEF SweepDies, row, book
  <2>2. lost[t] \subseteq lost'[t] /\ (t \in todo[s] => lost'[t] # {}) BY <1>0, <2>1
  <2>3. \A r \in Sweep : t \in todo[r] => t \in todo'[r] \/ lost'[t] # {} BY <1>0, <2>1, <2>2
  <2>4. Others(s) /\ at'[s] = None BY <1>0, <1>9, SweepArrives, Arrived
  <2>5. Undisturbed(s, t, a) BY <1>0, <2>1, <2>2, <2>3, <2>4 DEF Undisturbed, Others, Worker
  <2> QED BY <1>0, <1>1, <2>4, <2>5
<1> QED BY <1>3, <1>4, <1>6, <1>7, <1>8, <1>9 DEF SweepStep

\* A comment that is written, found written or given up.
LEMMA CommentTraced ==
  ASSUME ChatInv, NEW w \in Worker, CommentStep(w) \/ CheckFails(w) \/ PostFails(w)
  PROVE  AllTraced'
<1>0. /\ WorkerTypes /\ AllTraced /\ (w \in Sweep => w \notin Turn)
      /\ crm \in [Token -> SUBSET RepType]
      /\ lost \in [Token -> SUBSET {"forked", "refused", "masked", "turn", "sweep"}]
      /\ UNCHANGED <<status, stamped, thread, changed, todo, late>>
  BY ChatAssumption
  DEF ChatInv, Typed, RecordTypes, CommentStep, Skip, Check, Post, CheckFails, PostFails,
      row, book, hist
<1>1. pc[w] \in {"checking", "posting"}
  BY DEF CommentStep, Skip, Check, Post, CheckFails, PostFails
<1>2. at[w] \in Token BY <1>0, <1>1 DEF WorkerTypes
<1> SUFFICES ASSUME NEW t \in Token, NEW a \in Turn, Unsettled(t, a)' PROVE Traced(t, a)'
  BY DEF AllTraced
<1>3. CASE Check(w) \/ CheckFails(w)
  <2>1. UNCHANGED <<crm, lost>> BY <1>3 DEF Check, CheckFails, hist
  <2>2. Others(w) /\ pc'[w] = "posting" /\ at'[w] = at[w] /\ rep'[w] = rep[w]
    BY <1>0, <1>3, CommentArrives, Arrived
  <2>3. Undisturbed(w, t, a) BY <1>0, <1>1, <2>1, <2>2 DEF Undisturbed, Others, Worker
  <2>4. Unsettled(t, a) BY <1>0, <2>1, <2>3 DEF Undisturbed, Unsettled, Slipped, Reported
  <2>5. Writing(w, t, a) => Writing(w, t, a)' BY <2>2 DEF Writing
  <2>6. w \in Sweep /\ status[t] = "expired" /\ at'[w] = t => a \in Booking \/ Writing(w, t, a)'
    BY <1>0, <2>2, <2>4, <2>5 DEF AllTraced, Traced
  <2> QED BY <1>0, <2>2, <2>3, <2>5, <2>6, TraceKept
<1>4. CASE Skip(w) \/ Post(w) \/ PostFails(w)
  <2>1. /\ Others(w) /\ pc'[w] \in {"done", "stamping"}
        /\ (w \in Sweep => at'[w] = at[w])
    BY <1>0, <1>4, CommentArrives, Arrived
  <2>2. lost[t] \subseteq lost'[t] /\ crm[t] \subseteq crm'[t]
    BY <1>0, <1>2, <1>4 DEF Skip, Post, PostFails, Note, hist
  <2>3. Undisturbed(w, t, a) BY <1>0, <1>1, <2>1, <2>2 DEF Undisturbed, Others, Worker
  <2>4. Unsettled(t, a)
    BY <1>0, <2>2, <2>3, ReportedIn DEF Undisturbed, Unsettled, Slipped, Reported
  <2>5. ~Writing(w, t, a)
    <3>1. SUFFICES ASSUME at[w] = t, a \in rep[w].acts PROVE FALSE BY DEF Writing
    <3>2. ~Slipped(t)' /\ a \notin Reported(t) /\ ~(\E c \in crm'[t] : a \in c.acts)
      BY <2>4 DEF Unsettled, Reported
    <3>3. CASE Skip(w)
      <4>1. ~(rep[w].acts \subseteq Reported(t)) BY <3>1, <3>2
      <4>2. lost' = [lost EXCEPT ![t] = @ \cup {"masked"}] BY <3>1, <3>3, <4>1 DEF Skip, Note
      <4> QED BY <1>0, <3>2, <4>2 DEF Slipped
    <3>4. CASE Post(w)
      <4>1. crm' = [crm EXCEPT ![t] = @ \cup {rep[w]}] BY <3>1, <3>4 DEF Post
      <4> QED BY <1>0, <3>1, <3>2, <4>1
    <3>5. CASE PostFails(w)
      <4>1. lost' = [lost EXCEPT ![t] = @ \cup {"refused"}] BY <3>1, <3>5 DEF PostFails, Note
      <4> QED BY <1>0, <3>2, <4>1 DEF Slipped
    <3> QED BY <1>4, <3>3, <3>4, <3>5
  <2>6. w \in Sweep /\ status[t] = "expired" /\ at'[w] = t => a \in Booking
    BY <1>0, <2>1, <2>4, <2>5 DEF AllTraced, Traced
  <2> QED BY <1>0, <2>1, <2>3, <2>5, <2>6, TraceKept
<1> QED BY <1>3, <1>4 DEF CommentStep

LEMMA ChatInvStep == ChatInv /\ [Next]_vars => ChatInv'
<1> SUFFICES ASSUME ChatInv, [Next]_vars PROVE ChatInv' OBVIOUS
<1>1. Typed' /\ FlagsOK' /\ SweepsInOrder' /\ ActsOnce'
  BY TypedStep, FlagsStep, SweepsInOrderStep, ActsOnceStep DEF ChatInv
<1>2. ASSUME \E w \in Worker : CommentStep(w) \/ CheckFails(w) \/ PostFails(w)
      PROVE  AllTraced'
  BY <1>2, CommentTraced
<1>3. ASSUME \E s \in Sweep : \/ SweepStep(s) \/ List(s) \/ SweepDies(s)
                              \/ \E t \in Token : RowFails(s, t)
      PROVE  AllTraced'
  BY <1>3, SweepTraced
<1>4. ASSUME \E p \in Turn : \/ TurnStep(p) \/ MarkFails(p) \/ TurnDies(p)
                             \/ \E t \in Token : Open(p, t) \/ Send(p, t)
      PROVE  AllTraced'
  BY <1>4, TurnTraced
<1>5. ASSUME (\E t \in Token : Lapse(t)) \/ UNCHANGED vars PROVE AllTraced'
  <2>1. UNCHANGED <<status, stamped, book, crm, pc, at, rep, todo, late, lost>>
    BY <1>5 DEF Lapse, vars, row, held, hist
  <2> QED
    BY <2>1 DEF ChatInv, AllTraced, Unsettled, Slipped, Reported, Traced, Writing, book
<1>6. AllTraced' BY <1>2, <1>3, <1>4, <1>5 DEF Next
<1> QED BY <1>1, <1>6 DEF ChatInv

LEMMA ChatInvAlways == Spec => []ChatInv
<1>1. Init => FlagsOK BY DEF Init, FlagsOK
<1>2. Init => SweepsInOrder BY DEF Init, SweepsInOrder, InOrder, Worker
<1>3. Init => ActsOnce /\ AllTraced BY DEF Init, ActsOnce, AllTraced, Unsettled
<1>4. Init => ChatInv BY <1>1, <1>2, <1>3, TypedStart DEF ChatInv
<1> QED BY <1>4, ChatInvStep, PTL DEF Spec

(* A visit the customer changed is never out of everyone's hands, for any   *)
(* number of links, overlapping requests and sweeps.  Requests may die, the *)
(* CRM may refuse and sweeps may fail anywhere.                             *)
THEOREM ChatOutcomeKept == Spec => []OutcomeKept
<1>1. ASSUME ChatInv PROVE OutcomeKept
  <2> SUFFICES ASSUME NEW t \in Token, NEW a \in changed[t]
               PROVE  \/ a \in Reported(t) \/ pc[a] = "acted" \/ InHand(t, a)
                      \/ (a \in Acts(thread[t]) /\ t \in Live \cup Awaiting)
                      \/ LeftOut(t, a) \/ late[a] = "shut" \/ Slipped(t)
    BY DEF OutcomeKept, Slipped
  <2>1. a \in Turn /\ status[t] \in Statuses
    BY <1>1 DEF ChatInv, Typed, RecordTypes, StatusOK
  <2>2. CASE ~Unsettled(t, a) BY <2>2 DEF Unsettled
  <2>3. CASE Unsettled(t, a)
    <3>1. Traced(t, a) BY <1>1, <2>1, <2>3 DEF ChatInv, AllTraced
    <3>2. CASE status[t] = "ended"
      <4>1. PICK p \in Turn : Writing(p, t, a) BY <3>1, <3>2 DEF Traced
      <4> QED BY <4>1 DEF Writing, InHand, Worker
    <3>3. CASE status[t] = "expired" /\ stamped[t] BY <3>1, <3>3 DEF Traced, LeftOut
    <3>4. CASE status[t] = "expired" /\ ~stamped[t] BY <3>1, <3>4 DEF Traced, Awaiting
    <3>5. CASE status[t] \in {"sent", "in_progress"} BY <3>1, <3>5 DEF Traced, Live
    <3> QED BY <2>1, <3>2, <3>3, <3>4, <3>5 DEF Statuses
  <2> QED BY <2>2, <2>3
<1> QED BY <1>1, ChatInvAlways, PTL

(* When nothing is under way and every link has been turned over, each      *)
(* changed visit is reported or one of the named slips explains it; the     *)
(* administrator's catch-up need not have run.                              *)
THEOREM ChatQuietReported == Spec => []QuietMeansReported
<1>1. ASSUME ChatInv PROVE QuietMeansReported
  <2> SUFFICES ASSUME Quiet, NEW t \in Token, NEW a \in changed[t]
               PROVE  a \in Reported(t) \/ LeftOut(t, a) \/ late[a] # "no" \/ lost[t] # {}
    BY DEF QuietMeansReported
  <2>1. a \in Turn /\ status[t] \in Statuses
    BY <1>1 DEF ChatInv, Typed, RecordTypes, StatusOK
  <2>2. /\ \A p \in Turn : pc[p] \in {"idle", "done"}
        /\ \A s \in Sweep : todo[s] = {}
        /\ status[t] \notin {"sent", "in_progress"}
    BY <1>1 DEF Quiet, Stale, Live, ChatInv, SweepsInOrder, InOrder
  <2>3. CASE ~Unsettled(t, a) BY <2>1, <2>2, <2>3 DEF Unsettled, Slipped
  <2>4. CASE Unsettled(t, a)
    <3>1. Traced(t, a) BY <1>1, <2>1, <2>4 DEF ChatInv, AllTraced
    <3>2. status[t] # "ended" BY <2>2, <3>1 DEF Traced, Writing
    <3>3. status[t] = "expired" BY <2>1, <2>2, <3>2 DEF Statuses
    <3> QED BY <2>2, <3>1, <3>3 DEF Traced, LeftOut
  <2> QED BY <2>3, <2>4
<1> QED BY <1>1, ChatInvAlways, PTL
=============================================================================
