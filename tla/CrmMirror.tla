------------------------------- MODULE CrmMirror -------------------------------
(***************************************************************************)
(* How one company's jobs and visits get from ServiceTrade into the raw    *)
(* tables and from there into the platform tables                          *)
(* (src/services/servicetrade-sync.js, normalizeAll of                     *)
(* src/services/crm/servicetrade/provider.js).  A run is one invocation of *)
(* runSync followed by normalizeAll: a poll (cron or button) over all jobs *)
(* changed since the jobs cursor, or a targeted run over the jobs a        *)
(* webhook named.  Nothing wraps a run in a transaction.                   *)
(*                                                                         *)
(* A job's content is the number of changes ServiceTrade made to it; its   *)
(* detail and its visits are two rows that are fetched one after the other.*)
(* Timestamps are kept as sets: due is what updatedAfter would list, above *)
(* is what was written after the normalize watermark.                      *)
(***************************************************************************)
EXTENDS Integers, FiniteSets

CONSTANTS
  Job,
  Run,               \* concurrent invocations
  Poll,              \* those of them that poll
  None, Lost,        \* not asked for; asked for without an answer
  SyncOverlaps,      \* may a run start while another is fetching?
  NormalizeOverlaps, \* may two normalizeAll overlap?
  JobsLeave,         \* may jobs leave the list filter of the poll?
  DetailsFail,       \* may the list, or GET /job/{id}, fail for good?
  VisitsFail,        \* may GET /appointment?jobId= fail for good?
  MaxChanges,        \* bound: changes of one job
  MaxFaults          \* bound: failed requests and failed runs

ASSUME RunAssumption   == Poll \subseteq Run
ASSUME BoundAssumption == /\ MaxChanges \in Nat /\ MaxFaults \in Nat
                          /\ None \notin Nat /\ Lost \notin Nat
                          /\ None # Lost
ASSUME FlagAssumption  == /\ SyncOverlaps \in BOOLEAN
                          /\ NormalizeOverlaps \in BOOLEAN
                          /\ JobsLeave \in BOOLEAN
                          /\ DetailsFail \in BOOLEAN
                          /\ VisitsFail \in BOOLEAN

VARIABLES
  crm,       \* a job in ServiceTrade: how often it changed
  inList,    \* it has status scheduled and a date in the polled window
  due,       \* jobs changed after last_jobs_updated_at - 5 minutes
  raw,       \* servicetrade_jobs and servicetrade_appointments
  above,     \* raw rows whose updated_at is after last_normalized_at
  platform,  \* jobs and appointments
  pc,        \* where a run is
  stubs,     \* job ids a run works on
  complete,  \* its complete.jobs
  got,       \* rows it fetched
  changed,   \* jobs that changed since it started
  since,     \* raw rows after the watermark it read
  newer,     \* raw rows written since its runStartedAt
  buffer,    \* raw rows it read for normalizing
  faults

mirror == <<due, raw, above, platform>>
local  == <<stubs, complete, got, since, buffer>>
vars   == <<crm, inList, mirror, pc, local, changed, newer, faults>>

Rows == Job \X {"job", "visits"}
Of(S, kind) == {x \in Rows : x[1] \in S /\ x[2] = kind}
Version == 0..MaxChanges
Nothing == [x \in Rows |-> None]
Fetching == {"details", "visits", "stamping"}
Normalizing == {"reading", "writing", "rereading", "visiting", "rewriting",
                "advancing"}
Point == {"idle", "normalize"} \cup Fetching \cup Normalizing

Active == {r \in Run : pc[r] # "idle"}

Init ==
  /\ crm = [j \in Job |-> 0]
  /\ inList = [j \in Job |-> TRUE]
  /\ due = {}
  /\ raw = [x \in Rows |-> 0]
  /\ above = {}
  /\ platform = [x \in Rows |-> 0]
  /\ pc = [r \in Run |-> "idle"]
  /\ stubs = [r \in Run |-> {}]
  /\ complete = [r \in Run |-> TRUE]
  /\ got = [r \in Run |-> Nothing]
  /\ changed = [r \in Run |-> {}]
  /\ since = [r \in Run |-> {}]
  /\ newer = [r \in Run |-> {}]
  /\ buffer = [r \in Run |-> Nothing]
  /\ faults = 0

-----------------------------------------------------------------------------
(* ServiceTrade.                                                           *)

\* A job or a visit of it is edited; or it is closed, or moved to a date
\* outside the polled window, where buildJobParams lists it no more.
Change(j) ==
  /\ crm[j] < MaxChanges
  /\ crm' = [crm EXCEPT ![j] = @ + 1]
  /\ \/ UNCHANGED inList
     \/ JobsLeave /\ inList' = [inList EXCEPT ![j] = FALSE]
  /\ due' = due \cup {j}
  /\ changed' = [r \in Run |-> IF r \in Active THEN changed[r] \cup {j}
                               ELSE {}]
  /\ UNCHANGED <<raw, above, platform, pc, local, newer, faults>>

-----------------------------------------------------------------------------
(* runSync.                                                                *)

Go(r, at) == pc' = [pc EXCEPT ![r] = at]

\* A poll lists what changed since the cursor; when a page of the list fails
\* for good it goes on with what it has, and complete.jobs is false.
StartPoll(r) ==
  LET all == {j \in due : inList[j]}
  IN /\ pc[r] = "idle" /\ r \in Poll
     /\ SyncOverlaps \/ \A s \in Run : pc[s] \notin Fetching
     /\ \E S \in SUBSET all :
          /\ S # all => DetailsFail /\ faults < MaxFaults
          /\ faults' = IF S = all THEN faults ELSE faults + 1
          /\ stubs' = [stubs EXCEPT ![r] = S]
          /\ complete' = [complete EXCEPT ![r] = (S = all)]
     /\ Go(r, "details")
     /\ UNCHANGED <<crm, inList, mirror, got, changed, since, newer, buffer>>

\* A targeted run takes the job ids it is given.
StartTargeted(r) ==
  /\ pc[r] = "idle" /\ r \notin Poll
  /\ SyncOverlaps \/ \A s \in Run : pc[s] \notin Fetching
  /\ \E S \in SUBSET Job \ {{}} : stubs' = [stubs EXCEPT ![r] = S]
  /\ complete' = [complete EXCEPT ![r] = TRUE]
  /\ Go(r, "details")
  /\ UNCHANGED <<crm, inList, mirror, got, changed, since, newer, buffer, faults>>

\* One GET with its retries: the row as it is now, or no answer.
Fetch(r, j, kind, mayFail) ==
  /\ got[r][<<j, kind>>] = None
  /\ \/ /\ got' = [got EXCEPT ![r][<<j, kind>>] = crm[j]]
        /\ UNCHANGED faults
     \/ /\ mayFail /\ faults < MaxFaults
        /\ faults' = faults + 1
        /\ got' = [got EXCEPT ![r][<<j, kind>>] = Lost]
  /\ UNCHANGED <<crm, inList, mirror, pc, stubs, complete, changed, since,
                 newer, buffer>>

FetchDetail(r, j) ==
  /\ pc[r] = "details"
  /\ j \in stubs[r]
  /\ Fetch(r, j, "job", DetailsFail)

\* The jobs whose detail arrived: jobDetailResults.filter(Boolean).
Jobs_All(r) == stubs[r]            \* mutant: no filter
Jobs(r) == {j \in stubs[r] : got[r][<<j, "job">>] # Lost}

\* The upserts overwrite the rows that were fetched, whatever they hold.
Upsert(r, X) ==
  /\ raw' = [x \in Rows |-> IF x \in X THEN got[r][x] ELSE raw[x]]
  /\ above' = above \cup X
  /\ newer' = [s \in Run |-> IF pc[s] \in Normalizing THEN newer[s] \cup X
                             ELSE {}]

\* upsertJobsBatch, once every detail has been asked for; a missing one makes
\* complete.jobs false.
WriteJobs(r) ==
  /\ pc[r] = "details"
  /\ \A j \in stubs[r] : got[r][<<j, "job">>] # None
  /\ complete' = [complete EXCEPT ![r] = @ /\ Jobs(r) = stubs[r]]
  /\ Upsert(r, Of(Jobs(r), "job"))
  /\ Go(r, "visits")
  /\ UNCHANGED <<crm, inList, due, platform, stubs, got, since, buffer,
                 changed, faults>>

FetchVisits(r, j) ==
  /\ pc[r] = "visits"
  /\ j \in Jobs(r)
  /\ Fetch(r, j, "visits", VisitsFail)

\* reconcileAppointmentsForJob and upsertAppointmentsBatch.  A job whose pages
\* failed keeps the visits it has, and only complete.appointments is told.
WriteVisits(r) ==
  /\ pc[r] = "visits"
  /\ \A j \in Jobs(r) : got[r][<<j, "visits">>] # None
  /\ Upsert(r, {x \in Of(Jobs(r), "visits") : got[r][x] # Lost})
  /\ Go(r, "stamping")
  /\ UNCHANGED <<crm, inList, due, platform, local, changed, faults>>

\* Changes less than five minutes old stay behind the cursor's overlap: at
\* least those made during a run that is still active, for it is younger.
Recent_None == {}                  \* mutant: no overlap
Recent == UNION {changed[s] : s \in Active}

\* The jobs cursor is set to now, by a poll whose job fetches were complete.
MovesCursor_Always(r) == r \in Poll  \* mutant: complete.jobs is not looked at
MovesCursor(r) == r \in Poll /\ complete[r]

StampCursor(r) ==
  /\ pc[r] = "stamping"
  /\ due' \in IF MovesCursor(r) THEN {D \in SUBSET due : Recent \cap due \subseteq D}
              ELSE {due}
  /\ Go(r, "normalize")
  /\ UNCHANGED <<crm, inList, raw, above, platform, local, changed, newer, faults>>

-----------------------------------------------------------------------------
(* normalizeAll.                                                           *)

\* runStartedAt is taken and the watermark is read.
StartNormalize(r) ==
  /\ pc[r] = "normalize"
  /\ NormalizeOverlaps \/ \A s \in Run : pc[s] \notin Normalizing
  /\ since' = [since EXCEPT ![r] = above]
  /\ newer' = [newer EXCEPT ![r] = {}]
  /\ Go(r, "reading")
  /\ UNCHANGED <<crm, inList, mirror, stubs, complete, got, buffer, changed, faults>>

\* The raw rows of one kind that are after the watermark are read ...
ReadRaw(r, kind, from, to) ==
  /\ pc[r] = from
  /\ buffer' = [buffer EXCEPT ![r] = [x \in Rows |->
                  IF x[2] # kind THEN buffer[r][x]
                  ELSE IF x \in since[r] \cup newer[r] THEN raw[x] ELSE None]]
  /\ Go(r, to)
  /\ UNCHANGED <<crm, inList, mirror, stubs, complete, got, since, newer,
                 changed, faults>>

\* ... and overwrite the platform rows.
WritePlatform(r, kind, from, to) ==
  /\ pc[r] = from
  /\ platform' = [x \in Rows |->
                    IF x[2] = kind /\ buffer[r][x] # None THEN buffer[r][x]
                    ELSE platform[x]]
  /\ Go(r, to)
  /\ UNCHANGED <<crm, inList, due, raw, above, local, changed, newer, faults>>

\* Jobs, then visits, which are read only now; at the end the second pass over
\* the jobs writes the rows of the first read again.
Pass(r) ==
  \/ ReadRaw(r, "job", "reading", "writing")
  \/ WritePlatform(r, "job", "writing", "rereading")
  \/ ReadRaw(r, "visits", "rereading", "visiting")
  \/ WritePlatform(r, "visits", "visiting", "rewriting")
  \/ WritePlatform(r, "job", "rewriting", "advancing")

\* A run that is over keeps nothing.
Leave(r) ==
  /\ Go(r, "idle")
  /\ stubs' = [stubs EXCEPT ![r] = {}]
  /\ complete' = [complete EXCEPT ![r] = TRUE]
  /\ got' = [got EXCEPT ![r] = Nothing]
  /\ changed' = [changed EXCEPT ![r] = {}]
  /\ since' = [since EXCEPT ![r] = {}]
  /\ newer' = [newer EXCEPT ![r] = {}]
  /\ buffer' = [buffer EXCEPT ![r] = Nothing]

\* The watermark becomes runStartedAt.
StillAbove_None(r) == {}           \* mutant: stamped with the time at the end
StillAbove(r) == newer[r]

AdvanceMark(r) ==
  /\ pc[r] = "advancing"
  /\ above' = StillAbove(r)
  /\ Leave(r)
  /\ UNCHANGED <<crm, inList, due, raw, platform, faults>>

\* A statement throws or the instance dies: neither cursor nor watermark is
\* touched any more.
Fail(r) ==
  /\ pc[r] # "idle" /\ faults < MaxFaults
  /\ faults' = faults + 1
  /\ Leave(r)
  /\ UNCHANGED <<crm, inList, mirror>>

-----------------------------------------------------------------------------
Step(r) ==
  \/ \E j \in Job : FetchDetail(r, j) \/ FetchVisits(r, j)
  \/ WriteJobs(r) \/ WriteVisits(r) \/ StampCursor(r)
  \/ StartNormalize(r) \/ Pass(r) \/ AdvanceMark(r)

Next ==
  \/ \E j \in Job : Change(j)
  \/ \E r \in Run : StartPoll(r) \/ StartTargeted(r) \/ Step(r) \/ Fail(r)

Spec == Init /\ [][Next]_vars

\* The cron keeps polling and a started run keeps stepping; that normalizes do
\* not overlap is an assumption, in the code no run waits for another.  No
\* webhook is promised: ServiceTrade drops a message after three failed
\* deliveries.
Fairness ==
  /\ \A r \in Poll : SF_vars(StartPoll(r))
  /\ \A r \in Run : WF_vars(Step(r)) /\ SF_vars(StartNormalize(r))

FairSpec == Spec /\ Fairness

-----------------------------------------------------------------------------
(* Properties.                                                             *)

\* Every variable has its type.
TypeOK ==
  /\ crm \in [Job -> Version]
  /\ inList \in [Job -> BOOLEAN]
  /\ due \subseteq Job
  /\ raw \in [Rows -> Version]
  /\ above \subseteq Rows
  /\ platform \in [Rows -> Version]
  /\ pc \in [Run -> Point]
  /\ stubs \in [Run -> SUBSET Job]
  /\ complete \in [Run -> BOOLEAN]
  /\ got \in [Run -> [Rows -> Version \cup {None, Lost}]]
  /\ changed \in [Run -> SUBSET Job]
  /\ since \in [Run -> SUBSET Rows]
  /\ newer \in [Run -> SUBSET Rows]
  /\ buffer \in [Run -> [Rows -> Version \cup {None}]]
  /\ faults \in 0..MaxFaults

\* While nobody fetches, a job whose raw detail is out of date will be listed
\* by the next poll: the cursor never skips a change, whatever request or run
\* failed and however targeted runs wrote in between.
JobsNotMissed ==
  (\A r \in Run : pc[r] \notin Fetching) =>
    \A j \in Job : raw[<<j, "job">>] # crm[j] => j \in due

\* Comment: an incomplete entity keeps its old cursor, so that the next run
\* covers it again instead of silently skipping it.  The same for visits.
VisitsNotMissed ==
  Active = {} => \A j \in Job : raw[<<j, "visits">>] # crm[j] => j \in due

\* Comment: rows a concurrent sync wrote mid-normalize stay above the
\* watermark.  While nobody normalizes, a platform row that differs from its
\* raw row is one the next normalize will read.
RawNotMissed ==
  (\A r \in Run : pc[r] \notin Normalizing) =>
    \A x \in Rows : platform[x] # raw[x] => x \in above

\* Comment: the poll is the correctness backstop, also for changes whose
\* webhooks were lost.  The platform catches up with ServiceTrade.
EventuallyMirrored ==
  \A j \in Job : <>[](\A x \in Of({j}, "job") \cup Of({j}, "visits") :
                        platform[x] = crm[j])
=============================================================================
