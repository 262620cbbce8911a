----------------------------- MODULE WebhookQueue -----------------------------
(***************************************************************************)
(* ServiceTrade pushes its changes to the webhook receiver, which only     *)
(* stores them (src/routes/servicetrade-webhooks.js); drains claim stored  *)
(* events, turn each into the jobs it affects and refresh those jobs       *)
(* (src/db/servicetrade-webhooks.js,                                       *)
(* src/services/servicetrade-webhook-processor.js).  A drain is one call   *)
(* of drainCompany for one company: from the every-minute cron, or from    *)
(* the refresh button.  An action is one statement or one request.         *)
(*                                                                         *)
(* An event stands for the change it reports.  What a fetch of a job reads *)
(* is the set of changes that had reached it, so "the copy of job j is up  *)
(* to date with event e" is e \in seen[j], and a copy can also lose e.     *)
(***************************************************************************)
EXTENDS Integers, FiniteSets

CONSTANTS
  Event,        \* (message, entity type, entity id, action) of one company
  Job,          \* ServiceTrade jobs of that company
  Affects,      \* the jobs an event is about
  Known,        \* events whose jobs are found without asking ServiceTrade
  Drain,        \* concurrent calls of drainCompany
  Cron,         \* those of them made by drainAll
  BatchSize,    \* SERVICETRADE_WEBHOOK_BATCH
  MAX_ATTEMPTS,
  MAX_TRIES,    \* how often ServiceTrade sends a message
  DetailsFail,  \* may GET /job/{id} fail for good?
  LookupsFail,  \* may GET /appointment/{id} fail for good?
  MaxCrashes,   \* bound: drains that die
  MaxOutages    \* bound: times the company disconnects

ASSUME EventAssumption == /\ IsFiniteSet(Event)
                          /\ Affects \in [Event -> SUBSET Job]
                          /\ Known \subseteq Event
ASSUME DrainAssumption == Cron \subseteq Drain
ASSUME BoundAssumption == /\ BatchSize \in Nat \ {0}
                          /\ MAX_ATTEMPTS \in Nat \ {0}
                          /\ MAX_TRIES \in Nat \ {0}
                          /\ MaxCrashes \in Nat
                          /\ MaxOutages \in Nat
                          /\ DetailsFail \in BOOLEAN
                          /\ LookupsFail \in BOOLEAN

VARIABLES
  wire,       \* what ServiceTrade does with the message of an event
  tries,      \* deliveries of it so far
  status,     \* servicetrade_webhook_events.status, or absent / purged
  attempts,   \* the attempts column
  stuck,      \* claimed_at < NOW() - STUCK_AFTER_MS
  seen,       \* changes in our copy of a job (servicetrade_jobs and below)
  connected,  \* credentials are present
  pc,         \* where a drain is
  batch,      \* claimed events it has still to resolve
  resolved,   \* resolvedIds
  skipped,    \* skippedIds
  failed,     \* failedIds
  got,        \* job details fetched, by job
  missed,     \* jobs whose detail fetch failed
  crashes, outages

sender == <<wire, tries>>
table  == <<status, attempts, stuck>>
drain  == <<pc, batch, resolved, skipped, failed, got, missed>>
world  == <<connected, crashes, outages>>
vars   == <<sender, table, seen, drain, world>>

Settled == {"done", "failed", "skipped"}
Status  == {"absent", "pending", "processing", "purged"} \cup Settled
Point   == {"idle", "listed", "claimed", "resolving", "marking", "fetching",
            "written", "normalized", "failing"}

Happened == {e \in Event : wire[e] # "none"}
Touching(j) == {e \in Event : j \in Affects[e]}
NoJobs == [j \in Job |-> {}]

Init ==
  /\ wire = [e \in Event |-> "none"]
  /\ tries = [e \in Event |-> 0]
  /\ status = [e \in Event |-> "absent"]
  /\ attempts = [e \in Event |-> 0]
  /\ stuck = [e \in Event |-> FALSE]
  /\ seen = NoJobs
  /\ connected = TRUE
  /\ pc = [d \in Drain |-> "idle"]
  /\ batch = [d \in Drain |-> {}]
  /\ resolved = [d \in Drain |-> {}]
  /\ skipped = [d \in Drain |-> {}]
  /\ failed = [d \in Drain |-> {}]
  /\ got = [d \in Drain |-> NoJobs]
  /\ missed = [d \in Drain |-> {}]
  /\ crashes = 0
  /\ outages = 0

-----------------------------------------------------------------------------
(* ServiceTrade and the receiver.                                          *)

\* Something changes in the CRM, and a message about it is due.
Change(e) ==
  /\ wire[e] = "none"
  /\ wire' = [wire EXCEPT ![e] = "sending"]
  /\ UNCHANGED <<tries, table, seen, drain, world>>

\* enqueueEvents: ON CONFLICT DO NOTHING.
Enqueued_Upsert(e) == [status EXCEPT ![e] = "pending"]  \* mutant: DO UPDATE
Enqueued(e) ==
  [status EXCEPT ![e] = IF @ = "absent" THEN "pending" ELSE @]

\* One delivery.  Stored and answered 200; stored, but the answer is lost or
\* is the 503 of the statement after the INSERT; or not stored at all.  The
\* message is sent again until it is answered or has been tried MAX_TRIES times.
Deliver(e) ==
  /\ wire[e] = "sending"
  /\ tries' = [tries EXCEPT ![e] = @ + 1]
  /\ \E stored, acked \in BOOLEAN :
       /\ acked => stored
       /\ status' = IF stored THEN Enqueued(e) ELSE status
       /\ wire' = [wire EXCEPT ![e] = IF acked \/ tries[e] + 1 >= MAX_TRIES
                                      THEN "settled" ELSE @]
  /\ UNCHANGED <<attempts, stuck, seen, drain, world>>

\* purgeOld, days after the last delivery.
Purge(e) ==
  /\ status[e] \in Settled
  /\ wire[e] = "settled"
  /\ status' = [status EXCEPT ![e] = "purged"]
  /\ UNCHANGED <<sender, attempts, stuck, seen, drain, world>>

Disconnect ==
  /\ connected /\ outages < MaxOutages
  /\ connected' = FALSE
  /\ outages' = outages + 1
  /\ UNCHANGED <<sender, table, seen, drain, crashes>>

Reconnect ==
  /\ ~connected
  /\ connected' = TRUE
  /\ UNCHANGED <<sender, table, seen, drain, crashes, outages>>

-----------------------------------------------------------------------------
(* drainCompany.                                                           *)

Hand(d) == batch[d] \cup resolved[d] \cup skipped[d] \cup failed[d]

\* Ten minutes pass.  A function instance is gone after 300 s, and with it
\* the drain that claimed the row.
HolderGone_Unknown(e) == TRUE      \* mutant: a drain may outlive the ten minutes
HolderGone(e) == \A d \in Drain : e \notin Hand(d)

Lapse(e) ==
  /\ status[e] = "processing" /\ ~stuck[e]
  /\ HolderGone(e)
  /\ stuck' = [stuck EXCEPT ![e] = TRUE]
  /\ UNCHANGED <<sender, status, attempts, seen, drain, world>>

Pending == {e \in Event : status[e] = "pending"}

\* listCompaniesWithPending lets the cron at a company only if a row is
\* pending; the refresh button does not ask.
HasWork_Failed == \E e \in Event : status[e] = "failed"  \* mutant: wrong status
HasWork == Pending # {}

StartDrain(d) ==
  /\ pc[d] = "idle"
  /\ d \in Cron => HasWork
  /\ pc' = [pc EXCEPT ![d] = "listed"]
  /\ UNCHANGED <<sender, table, seen, batch, resolved, skipped, failed, got,
                 missed, world>>

Claimable ==
  {e \in Event : /\ attempts[e] < MAX_ATTEMPTS
                 /\ \/ status[e] = "pending"
                    \/ status[e] = "processing" /\ stuck[e]}

\* claimPending: here the locked SELECT is from the table itself, so the
\* statement is atomic.  Rows come in the order they were received, which is
\* any order.
ClaimPending(d) ==
  /\ pc[d] = "listed"
  /\ \E B \in SUBSET Claimable :
       /\ B # Claimable => Cardinality(B) = BatchSize
       /\ Cardinality(B) <= BatchSize
       /\ pc' = [pc EXCEPT ![d] = IF B = {} THEN "idle" ELSE "claimed"]
       /\ batch' = [batch EXCEPT ![d] = B]
       /\ status' = [e \in Event |-> IF e \in B THEN "processing" ELSE status[e]]
       /\ attempts' = [e \in Event |-> IF e \in B THEN attempts[e] + 1 ELSE attempts[e]]
       /\ stuck' = [e \in Event |-> stuck[e] /\ e \notin B]
  /\ UNCHANGED <<sender, seen, resolved, skipped, failed, got, missed, world>>

Buried(e) == attempts[e] >= MAX_ATTEMPTS

\* markFailed(S), by id whatever the status is.
MarkFailed(S) ==
  status' = [e \in Event |-> IF e \notin S THEN status[e]
                             ELSE IF Buried(e) THEN "failed" ELSE "pending"]

Leave_Keeps(d) ==                  \* mutant: job details outlive the call
  /\ pc' = [pc EXCEPT ![d] = "idle"]
  /\ batch' = [batch EXCEPT ![d] = {}]
  /\ resolved' = [resolved EXCEPT ![d] = {}]
  /\ skipped' = [skipped EXCEPT ![d] = {}]
  /\ failed' = [failed EXCEPT ![d] = {}]
  /\ UNCHANGED <<got, missed>>

\* drainCompany returns, or an exception leaves it: the local state is gone.
Leave(d) ==
  /\ pc' = [pc EXCEPT ![d] = "idle"]
  /\ batch' = [batch EXCEPT ![d] = {}]
  /\ resolved' = [resolved EXCEPT ![d] = {}]
  /\ skipped' = [skipped EXCEPT ![d] = {}]
  /\ failed' = [failed EXCEPT ![d] = {}]
  /\ got' = [got EXCEPT ![d] = NoJobs]
  /\ missed' = [missed EXCEPT ![d] = {}]

\* Without credentials the whole batch goes through markFailed.
CheckCredentials(d) ==
  /\ pc[d] = "claimed"
  /\ \/ /\ connected
        /\ pc' = [pc EXCEPT ![d] = "resolving"]
        /\ UNCHANGED <<status, batch, resolved, skipped, failed, got, missed>>
     \/ /\ ~connected
        /\ MarkFailed(batch[d])
        /\ Leave(d)
  /\ UNCHANGED <<sender, attempts, stuck, seen, world>>

\* resolveJobIds for one event.  No job affected, or the lookup of an unknown
\* appointment was refused (jobForAppointment returns null): skipped.  The
\* query throws: failed.
Resolve(d, e) ==
  /\ pc[d] = "resolving"
  /\ e \in batch[d]
  /\ batch' = [batch EXCEPT ![d] = @ \ {e}]
  /\ \/ /\ Affects[e] # {}
        /\ resolved' = [resolved EXCEPT ![d] = @ \cup {e}]
        /\ UNCHANGED <<skipped, failed>>
     \/ /\ Affects[e] = {} \/ (e \notin Known /\ LookupsFail)
        /\ skipped' = [skipped EXCEPT ![d] = @ \cup {e}]
        /\ UNCHANGED <<resolved, failed>>
     \/ /\ failed' = [failed EXCEPT ![d] = @ \cup {e}]
        /\ UNCHANGED <<resolved, skipped>>
  /\ UNCHANGED <<sender, table, seen, pc, got, missed, world>>

\* markSkipped(skippedIds).
MarkSkipped(d) ==
  /\ pc[d] = "resolving" /\ batch[d] = {}
  /\ status' = [e \in Event |-> IF e \in skipped[d] THEN "skipped" ELSE status[e]]
  /\ skipped' = [skipped EXCEPT ![d] = {}]
  /\ pc' = [pc EXCEPT ![d] = "marking"]
  /\ UNCHANGED <<sender, attempts, stuck, seen, batch, resolved, failed, got,
                 missed, world>>

\* markFailed(failedIds); then return, if no job is left to refresh.
MarkUnresolved(d) ==
  /\ pc[d] = "marking"
  /\ MarkFailed(failed[d])
  /\ \/ /\ resolved[d] = {}
        /\ Leave(d)
     \/ /\ resolved[d] # {}
        /\ failed' = [failed EXCEPT ![d] = {}]
        /\ pc' = [pc EXCEPT ![d] = "fetching"]
        /\ UNCHANGED <<batch, resolved, skipped, got, missed>>
  /\ UNCHANGED <<sender, attempts, stuck, seen, world>>

Wanted(d) == UNION {Affects[e] : e \in resolved[d]}

\* runSync with jobIds: the detail of one job, with all that hangs on it.
Fetched_Cached(d, j) ==            \* mutant: a job we have is not asked for again
  IF seen[j] # {} THEN seen[j] ELSE Happened \cap Touching(j)
Fetched(d, j) == Happened \cap Touching(j)

Fetch(d, j) ==
  /\ pc[d] = "fetching"
  /\ j \in Wanted(d) \ missed[d] /\ got[d][j] = {}
  /\ \/ /\ got' = [got EXCEPT ![d][j] = Fetched(d, j)]
        /\ UNCHANGED missed
     \/ /\ DetailsFail
        /\ missed' = [missed EXCEPT ![d] = @ \cup {j}]
        /\ UNCHANGED got
  /\ UNCHANGED <<sender, table, seen, pc, batch, resolved, skipped, failed, world>>

\* The upserts: whatever was fetched overwrites the copy.  A job whose detail
\* is missing is left out, and the run still reports success.
Write(d) ==
  /\ pc[d] = "fetching"
  /\ \A j \in Wanted(d) : j \in missed[d] \/ got[d][j] # {}
  /\ seen' = [j \in Job |-> IF j \in Wanted(d) \ missed[d] THEN got[d][j]
                            ELSE seen[j]]
  /\ pc' = [pc EXCEPT ![d] = "written"]
  /\ UNCHANGED <<sender, table, batch, resolved, skipped, failed, got, missed, world>>

\* normalizeAll.
Normalize(d) ==
  /\ pc[d] = "written"
  /\ pc' = [pc EXCEPT ![d] = "normalized"]
  /\ UNCHANGED <<sender, table, seen, batch, resolved, skipped, failed, got,
                 missed, world>>

\* runSync fails (disconnected, or a statement throws), or normalizeAll does.
SyncFails(d) ==
  /\ pc[d] \in {"fetching", "written"}
  /\ pc' = [pc EXCEPT ![d] = "failing"]
  /\ UNCHANGED <<sender, table, seen, batch, resolved, skipped, failed, got,
                 missed, world>>

\* The catch block: every resolved event goes back.
GiveBack(d) ==
  /\ pc[d] = "failing"
  /\ MarkFailed(resolved[d])
  /\ Leave(d)
  /\ UNCHANGED <<sender, attempts, stuck, seen, world>>

\* markDoneWithRefs.
MarkDone(d) ==
  /\ pc[d] = "normalized"
  /\ status' = [e \in Event |-> IF e \in resolved[d] THEN "done" ELSE status[e]]
  /\ Leave(d)
  /\ UNCHANGED <<sender, attempts, stuck, seen, world>>

\* The instance dies, times out, or a mark* statement throws.
Crash(d) ==
  /\ pc[d] # "idle"
  /\ crashes < MaxCrashes
  /\ crashes' = crashes + 1
  /\ Leave(d)
  /\ UNCHANGED <<sender, table, seen, connected, outages>>

-----------------------------------------------------------------------------
Step(d) ==
  \/ ClaimPending(d) \/ CheckCredentials(d) \/ MarkSkipped(d)
  \/ MarkUnresolved(d) \/ Write(d) \/ Normalize(d) \/ SyncFails(d)
  \/ GiveBack(d) \/ MarkDone(d)
  \/ \E e \in Event : Resolve(d, e)
  \/ \E j \in Job : Fetch(d, j)

Next ==
  \/ \E e \in Event : Change(e) \/ Deliver(e) \/ Purge(e) \/ Lapse(e)
  \/ Disconnect \/ Reconnect
  \/ \E d \in Drain : StartDrain(d) \/ Step(d) \/ Crash(d)

Spec == Init /\ [][Next]_vars

\* The cron fires every minute and a started drain keeps stepping; ten
\* minutes pass.  Nobody has to press the refresh button or reconnect.
Fairness ==
  /\ \A d \in Cron : WF_vars(StartDrain(d))
  /\ \A d \in Drain : WF_vars(Step(d))
  /\ \A e \in Event : WF_vars(Lapse(e))

FairSpec == Spec /\ Fairness

-----------------------------------------------------------------------------
(* Properties.                                                             *)

\* A drain that has not begun to refresh jobs holds no job details, least of
\* all those of an earlier drain.
Unfetched ==
  \A d \in Drain :
    pc[d] \in {"idle", "listed", "claimed", "resolving", "marking"} =>
      got[d] = NoJobs /\ missed[d] = {}

\* Every variable has its type, and details are never carried over.
TypeOK ==
  /\ wire \in [Event -> {"none", "sending", "settled"}]
  /\ tries \in [Event -> Nat]
  /\ status \in [Event -> Status]
  /\ attempts \in [Event -> Nat]
  /\ stuck \in [Event -> BOOLEAN]
  /\ seen \in [Job -> SUBSET Event]
  /\ connected \in BOOLEAN
  /\ pc \in [Drain -> Point]
  /\ batch \in [Drain -> SUBSET Event]
  /\ resolved \in [Drain -> SUBSET Event]
  /\ skipped \in [Drain -> SUBSET Event]
  /\ failed \in [Drain -> SUBSET Event]
  /\ got \in [Drain -> [Job -> SUBSET Event]]
  /\ missed \in [Drain -> SUBSET Job]
  /\ crashes \in Nat
  /\ outages \in Nat
  /\ Unfetched

\* An event is in the hands of one drain only, and while it is, no one else
\* has marked it or can claim it: marking by id alone is safe for that reason.
EventCustody ==
  /\ \A d \in Drain : \A e \in Hand(d) : status[e] = "processing" /\ ~stuck[e]
  /\ \A c, d \in Drain : c # d => Hand(c) \cap Hand(d) = {}
  /\ \A d \in Drain : pc[d] \in {"idle", "listed"} => Hand(d) = {}

\* The attempts of an event are bounded, a buried event has used all of them,
\* and a pending one still has some: none waits that no drain may claim.
BudgetKept ==
  \A e \in Event : /\ attempts[e] <= MAX_ATTEMPTS
                   /\ status[e] = "failed" => attempts[e] = MAX_ATTEMPTS
                   /\ status[e] = "pending" => attempts[e] < MAX_ATTEMPTS
                   /\ status[e] = "absent" => attempts[e] = 0

\* A settled event is never revived: not by a duplicate delivery, nor by a
\* drain that marks its batch late.
SettledStays ==
  [][\A e \in Event : status[e] \in Settled
                        => status'[e] \in {status[e], "purged"}]_vars

\* Comments: a failed sync must not be reported as done, and the locked claim
\* makes concurrent drains safe.  An event marked done is in our copy of every
\* job it affects.
DoneMeansApplied ==
  \A e \in Event : status[e] = "done" => \A j \in Affects[e] : e \in seen[j]

\* Every stored event is settled eventually, whatever fails on the way.
Handled == \A e \in Event : status[e] \in Settled \cup {"purged", "absent"}
EventuallyHandled == <>[]Handled

\* Comment: rows a crashed drain left in processing are reclaimed.
StrandedReclaimed ==
  \A e \in Event : stuck[e] ~> ~stuck[e]
=============================================================================
