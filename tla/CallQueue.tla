------------------------------ MODULE CallQueue ------------------------------
(***************************************************************************)
(* The scheduled_calls table and the dispatcher runs that drain it         *)
(* (src/db/scheduled-calls.js, src/services/scheduler.js).  A dispatcher   *)
(* is one invocation of runDispatcher: the cron tick, or the poke that     *)
(* follows "Call now".  Every action below is one database statement or    *)
(* one call to the outside, so two runs, staff and crashes interleave at   *)
(* exactly the awaits of the code.                                         *)
(*                                                                         *)
(* The columns that never change after the INSERT are the constant Row;    *)
(* scheduled_at <= NOW() is the flag due, last_attempted_at older than     *)
(* five minutes is the flag lapsed, and the office hours of a tenant are   *)
(* the flag open.                                                          *)
(***************************************************************************)
EXTENDS Integers, FiniteSets

CONSTANTS
  Call,          \* ids of the rows that may be inserted
  Tenant,        \* companies
  Job,           \* (job_id, call_type) pairs; a company owns its jobs
  NoJob,         \* job_id IS NULL
  Recipient,     \* COALESCE(recipient_contact_id, 0)
  Phone,         \* phone_number
  NoPhone,       \* phone_number IS NULL
  Row,           \* the immutable columns of every row
  Dispatcher,    \* concurrent invocations of runDispatcher
  Cron,          \* those of them started by the two-minute cron
  AllTenants,    \* the scope of a cron run (companyId = null)
  AutoDispatch,  \* tenants with auto_dispatch_enabled = true
  TenantCap,     \* GREATEST(max_concurrent_calls, PER_TENANT_MIN_CONCURRENT)
  SystemCap,     \* MAX_CONCURRENT_CALLS
  BatchSize,     \* largest batchSize a run is called with
  MaxAttempts,   \* the max_attempts column
  NoCall,        \* no row in hand
  ClaimRaces,    \* may others commit while a claim statement is in flight?
  CancelInFlight,\* may staff cancel a row that is in_progress?
  MaxCrashes,    \* bound: dispatcher crashes in a behaviour
  MaxClosings    \* bound: how often office hours end in a behaviour

Columns == [tenant: Tenant, job: Job \cup {NoJob}, rcp: Recipient,
            phone: Phone \cup {NoPhone}, rank: 0..5, bypass: BOOLEAN,
            channel: {"voice", "web_chat"}]

ASSUME RowAssumption   == Row \in [Call -> Columns]
ASSUME JobAssumption   == \A a, b \in Call :
                            Row[a].job = Row[b].job /\ Row[a].job # NoJob
                              => Row[a].tenant = Row[b].tenant
ASSUME FiniteAssumption == IsFiniteSet(Call)
ASSUME NameAssumption  == /\ NoCall \notin Call
                          /\ AllTenants \notin Tenant
                          /\ Cron \subseteq Dispatcher
ASSUME CapAssumption   == /\ SystemCap \in Nat
                          /\ TenantCap \in [Tenant -> Nat]
                          /\ BatchSize \in Nat \ {0}
                          /\ MaxAttempts \in Nat
                          /\ MaxCrashes \in Nat
                          /\ MaxClosings \in Nat
ASSUME FlagAssumption  == /\ ClaimRaces \in BOOLEAN
                          /\ CancelInFlight \in BOOLEAN

VARIABLES
  status,    \* scheduled_calls.status, or "absent" before the INSERT
  attempt,   \* attempt_number
  due,       \* scheduled_at <= NOW()
  lapsed,    \* last_attempted_at < NOW() - 5 minutes
  open,      \* isWithinActiveHours, per tenant
  pc,        \* where each run of the dispatcher is
  scope,     \* the companyId a run was called with
  window,    \* inWindow: tenants found open by step A of this run
  snap,      \* ids the claim statement read in its snapshot
  held,      \* claimed rows this run has still to process
  current,   \* the row of the processing loop's current iteration
  dials,     \* history: contacts made for a row (call placed, link sent)
  lost,      \* history: contacts whose markCompleted was never written
  crashes,   \* history: crashes so far
  closings   \* history: ends of office hours so far

table == <<status, attempt, due, lapsed>>
run   == <<pc, scope, window, snap, held, current>>
past  == <<dials, lost>>
world == <<open, crashes, closings>>
vars  == <<table, run, past, world>>

Final  == {"completed", "failed", "cancelled"}
Status == {"absent", "pending", "in_progress"} \cup Final

\* Where a run can be; at the last three it has a row in hand.
AtRow == {"dialing", "placed", "failing"}
Point == {"idle", "reaped", "planned", "claiming", "claimed", "running"} \cup AtRow

InProgress == {c \in Call : status[c] = "in_progress"}
Active     == {c \in Call : status[c] \in {"pending", "in_progress"}}
OfTenant(S, t) == {c \in S : Row[c].tenant = t}

(***************************************************************************)
(* scheduled_calls_active_uniq: one pending or in_progress row per         *)
(* (company, job, call type, recipient); a NULL job id never conflicts.    *)
(***************************************************************************)
SameSlot(a, b) == /\ Row[a].job # NoJob
                  /\ Row[a].job = Row[b].job
                  /\ Row[a].rcp = Row[b].rcp
NoConflict(S) == \A a, b \in S : a # b => ~SameSlot(a, b)

\* Does the index admit S as the set of active rows?
Admits_Always(S) == TRUE           \* mutant: no unique index
Admits(S) == NoConflict(S)

Init ==
  /\ status  = [c \in Call |-> "absent"]
  /\ attempt = [c \in Call |-> 0]
  /\ due     = [c \in Call |-> FALSE]
  /\ lapsed  = [c \in Call |-> FALSE]
  /\ open    = [t \in Tenant |-> TRUE]
  /\ pc      = [d \in Dispatcher |-> "idle"]
  /\ scope   = [d \in Dispatcher |-> AllTenants]
  /\ window  = [d \in Dispatcher |-> {}]
  /\ snap    = [d \in Dispatcher |-> {}]
  /\ held    = [d \in Dispatcher |-> {}]
  /\ current = [d \in Dispatcher |-> NoCall]
  /\ dials   = [c \in Call |-> 0]
  /\ lost    = [c \in Call |-> 0]
  /\ crashes = 0
  /\ closings = 0

\* No claim statement is between its snapshot and its write, unless the
\* instance allows statements to overlap there.
Quiet == ClaimRaces \/ \A d \in Dispatcher : pc[d] # "claiming"

-----------------------------------------------------------------------------
(* Everybody who writes the table without being a dispatcher.              *)

\* insertScheduledCall, whoever calls it: sweep, manual route, retry,
\* callback, fallback.  A duplicate (error 23505) leaves no trace.
Insert(c) ==
  /\ status[c] = "absent"
  /\ Admits(Active \cup {c})
  /\ status' = [status EXCEPT ![c] = "pending"]
  /\ \E now \in BOOLEAN : due' = [due EXCEPT ![c] = now]
  /\ UNCHANGED <<attempt, lapsed, run, past, world>>

\* DELETE /scheduled-calls/:id.
Cancellable == Active

Cancel(c) ==
  /\ c \in Cancellable
  /\ status[c] = "in_progress" => CancelInFlight
  /\ Quiet
  /\ status' = [status EXCEPT ![c] = "cancelled"]
  /\ UNCHANGED <<attempt, due, lapsed, run, past, world>>

\* "Call now" with force: every active row of the job and call type, of any
\* recipient, is cancelled; the INSERT that follows is a statement of its own.
ForceCancel(j) ==
  LET hit == {c \in Active : Row[c].job = j}
  IN /\ hit # {}
     /\ (hit \cap InProgress # {}) => CancelInFlight
     /\ Quiet
     /\ status' = [c \in Call |-> IF c \in hit THEN "cancelled" ELSE status[c]]
     /\ UNCHANGED <<attempt, due, lapsed, run, past, world>>

\* processUnopenedChatLinks: a day after it was sent, a link nobody opened is
\* followed by a new row (an Insert of its own), and then marked failed.
MarkUnopened(c) ==
  /\ status[c] = "completed"
  /\ Row[c].channel = "web_chat"
  /\ status' = [status EXCEPT ![c] = "failed"]
  /\ UNCHANGED <<attempt, due, lapsed, run, past, world>>

\* scheduled_at passes.
MakeDue(c) ==
  /\ status[c] = "pending" /\ ~due[c]
  /\ due' = [due EXCEPT ![c] = TRUE]
  /\ UNCHANGED <<status, attempt, lapsed, run, past, world>>

Held(d) == held[d] \cup ({current[d]} \ {NoCall})

\* The run that claimed c is over.
RunOver_Unknown(c) == TRUE         \* mutant: runs may outlive the five minutes
RunOver(c) == \A d \in Dispatcher : c \notin Held(d)

\* Five minutes pass.  A function instance lives at most 300 s (vercel.json
\* maxDuration), so the run that stamped last_attempted_at is over by then.
Lapse(c) ==
  /\ status[c] = "in_progress" /\ ~lapsed[c]
  /\ RunOver(c)
  /\ lapsed' = [lapsed EXCEPT ![c] = TRUE]
  /\ UNCHANGED <<status, attempt, due, run, past, world>>

OpenWindow(t) ==
  /\ ~open[t]
  /\ open' = [open EXCEPT ![t] = TRUE]
  /\ UNCHANGED <<table, run, past, crashes, closings>>

CloseWindow(t) ==
  /\ open[t] /\ closings < MaxClosings
  /\ open' = [open EXCEPT ![t] = FALSE]
  /\ closings' = closings + 1
  /\ UNCHANGED <<table, run, past, crashes>>

-----------------------------------------------------------------------------
(* claimPending.                                                           *)

Go(d, at) == pc' = [pc EXCEPT ![d] = at]

Orphans_All  == InProgress         \* mutant: the reaper takes every row
Orphans_None == {}                 \* mutant: no reaper
Orphans == {c \in InProgress : lapsed[c]}

\* A run starts with the reaper: rows stuck in_progress go back to pending.
StartRun(d) ==
  /\ pc[d] = "idle"
  /\ Go(d, "reaped")
  /\ scope' \in {[scope EXCEPT ![d] = s] :
                   s \in IF d \in Cron THEN {AllTenants} ELSE Tenant}
  /\ status' = [c \in Call |-> IF c \in Orphans THEN "pending"
                               ELSE status[c]]
  /\ UNCHANGED <<attempt, due, lapsed, window, snap, held, current, past, world>>

InScope(d, t) == scope[d] \in {AllTenants, t}

\* Steps A and B: find the tenants with due rows that are in their office
\* hours, and move the due rows of the others to their next window.  Step B
\* tests its rows again, so a row inserted between the two is treated alike.
Plan(d) ==
  LET waiting == {c \in Call : /\ status[c] = "pending" /\ due[c]
                               /\ ~Row[c].bypass}
      seen    == {t \in Tenant : /\ OfTenant(waiting, t) # {}
                                 /\ InScope(d, t)}
      late    == {c \in waiting : /\ Row[c].tenant \in seen
                                  /\ ~open[Row[c].tenant]}
  IN /\ pc[d] = "reaped"
     /\ Go(d, "planned")
     /\ window' = [window EXCEPT ![d] = {t \in seen : open[t]}]
     /\ due' = [c \in Call |-> due[c] /\ c \notin late]
     /\ UNCHANGED <<status, attempt, lapsed, scope, snap, held, current,
                    past, world>>

PhoneBusy_Never(c) == FALSE        \* mutant: no NOT EXISTS (... busy)
PhoneBusy(c) == /\ Row[c].phone # NoPhone
                /\ \E b \in InProgress : Row[b].phone = Row[c].phone

\* The CTE due: what this run may claim.
DueFor(d) ==
  {c \in Call :
     /\ status[c] = "pending" /\ due[c]
     /\ Row[c].tenant \in window[d] \/ Row[c].bypass
     /\ InScope(d, Row[c].tenant)
     /\ scope[d] = AllTenants => Row[c].tenant \in AutoDispatch
     /\ ~PhoneBusy(c)}

Room_Whole(cap, S) == cap          \* mutant: in-flight rows not subtracted
Room(cap, S) == IF Cardinality(S) >= cap THEN 0 ELSE cap - Cardinality(S)
Least(m, n)  == IF m <= n THEN m ELSE n

\* The first n rows of S by priority; ties (scheduled_at) fall either way.
Best(S, n) ==
  {B \in SUBSET S : /\ Cardinality(B) = Least(n, Cardinality(S))
                    /\ \A b \in B, c \in S \ B : Row[b].rank <= Row[c].rank}

Eligible(d) ==
  {E \in SUBSET DueFor(d) :
     \A t \in Tenant :
       OfTenant(E, t) \in Best(OfTenant(DueFor(d), t),
                               Room(TenantCap[t], OfTenant(InProgress, t)))}

\* The claim statement reads its snapshot.  FOR UPDATE SKIP LOCKED stands on
\* a SELECT from the CTE eligible, and PostgreSQL applies a locking clause to
\* no WITH query, so the rows picked here are not locked.
ClaimSnapshot(d) ==
  /\ pc[d] = "planned"
  /\ Quiet
  /\ \E n \in 1..BatchSize, E \in Eligible(d) :
       \E S \in Best(E, Least(n, Room(SystemCap, InProgress))) :
         snap' = [snap EXCEPT ![d] = S]
  /\ Go(d, "claiming")
  /\ UNCHANGED <<table, scope, window, held, current, past, world>>

\* An exception leaves runDispatcher: what it held stays as it is.
Abort(d) ==
  /\ Go(d, "idle")
  /\ held' = [held EXCEPT ![d] = {}]
  /\ snap' = [snap EXCEPT ![d] = {}]
  /\ current' = [current EXCEPT ![d] = NoCall]
  /\ window' = [window EXCEPT ![d] = {}]
  /\ scope' = [scope EXCEPT ![d] = AllTenants]

\* The same statement writes: UPDATE ... WHERE id IN (snapshot), whatever
\* became of those rows meanwhile.  The unique index can still refuse it.
ClaimApply(d) ==
  /\ pc[d] = "claiming"
  /\ IF Admits(Active \cup snap[d])
     THEN /\ Go(d, "claimed")
          /\ status' = [c \in Call |-> IF c \in snap[d] THEN "in_progress"
                                       ELSE status[c]]
          /\ lapsed' = [c \in Call |-> IF c \in snap[d] THEN FALSE
                                       ELSE lapsed[c]]
          /\ held' = [held EXCEPT ![d] = snap[d]]
          /\ snap' = [snap EXCEPT ![d] = {}]
          /\ window' = [window EXCEPT ![d] = {}]
          /\ UNCHANGED <<scope, current>>
     ELSE /\ Abort(d)
          /\ UNCHANGED <<status, lapsed>>
  /\ UNCHANGED <<attempt, due, past, world>>

\* One row per phone number, of the best priority; no phone, no contest.
Winners(S) ==
  {W \in SUBSET S :
     /\ \A c \in S : \/ c \in W
                     \/ \E w \in W : /\ Row[w].phone = Row[c].phone
                                     /\ Row[w].phone # NoPhone
                                     /\ Row[w].rank <= Row[c].rank
     /\ \A v, w \in W : v # w => \/ Row[v].phone # Row[w].phone
                                 \/ Row[v].phone = NoPhone}

\* The JS dedupe by phone; losers go back to pending by id alone.
Settle(d) ==
  /\ pc[d] = "claimed"
  /\ \E W \in Winners(held[d]) :
       LET losers == held[d] \ W
       IN IF Admits(Active \cup losers)
          THEN /\ Go(d, "running")
               /\ held' = [held EXCEPT ![d] = W]
               /\ status' = [c \in Call |-> IF c \in losers THEN "pending"
                                            ELSE status[c]]
               /\ UNCHANGED <<scope, window, snap, current>>
          ELSE Abort(d) /\ UNCHANGED status
  /\ UNCHANGED <<attempt, due, lapsed, past, world>>

-----------------------------------------------------------------------------
(* The loop of runDispatcher over the claimed rows.                        *)

Take(d, c, at) ==
  /\ Go(d, at)
  /\ held' = [held EXCEPT ![d] = @ \ {c}]
  /\ current' = [current EXCEPT ![d] = c]

\* Per-row office-hours check.  It does not look at bypass_office_hours.
\* A closed tenant's row is put back by id alone (advanceToNextWindow); if
\* the index refuses that, or a query fails, the catch block takes over.
Gate(d, c) ==
  /\ pc[d] = "running"
  /\ c \in held[d]
  /\ \A b \in held[d] : Row[c].rank <= Row[b].rank
  /\ \/ /\ open[Row[c].tenant]
        /\ Take(d, c, "dialing")
        /\ UNCHANGED <<status, due>>
     \/ /\ ~open[Row[c].tenant]
        /\ Admits(Active \cup {c})
        /\ status' = [status EXCEPT ![c] = "pending"]
        /\ due' = [due EXCEPT ![c] = FALSE]
        /\ held' = [held EXCEPT ![d] = @ \ {c}]
        /\ UNCHANGED <<pc, current>>
     \/ /\ ~open[Row[c].tenant]
        /\ Take(d, c, "failing")
        /\ UNCHANGED <<status, due>>
  /\ UNCHANGED <<attempt, lapsed, scope, window, snap, past, world>>

\* Building the dynamic variables, the voicemail text or the link throws,
\* or the provider refuses: nothing reached the customer.
ContactFails(d) ==
  /\ pc[d] = "dialing"
  /\ Go(d, "failing")
  /\ UNCHANGED <<table, scope, window, snap, held, current, past, world>>

\* retell.createCall answers with a call id.
PlaceCall(d) ==
  LET c == current[d]
  IN /\ pc[d] = "dialing"
     /\ Row[c].channel = "voice"
     /\ Go(d, "placed")
     /\ dials' = [dials EXCEPT ![c] = @ + 1]
     /\ UNCHANGED <<table, scope, window, snap, held, current, lost, world>>

\* A link row, by e-mail, text or both: a leg went out and no error is rethrown.
SendLink(d) ==
  LET c == current[d]
  IN /\ pc[d] = "dialing"
     /\ Row[c].channel = "web_chat"
     /\ Go(d, "placed")
     /\ dials' = [dials EXCEPT ![c] = @ + 1]
     /\ UNCHANGED <<table, scope, window, snap, held, current, lost, world>>

Drop_Keeps(d, at) ==               \* mutant: the row in hand is not released
  /\ Go(d, at)
  /\ UNCHANGED current

Drop(d, at) ==
  /\ Go(d, at)
  /\ current' = [current EXCEPT ![d] = NoCall]

\* markCompleted / markCompletedWithChatLink: by id, whatever the status.
Complete(d) ==
  /\ pc[d] = "placed"
  /\ status' = [status EXCEPT ![current[d]] = "completed"]
  /\ Drop(d, "running")
  /\ UNCHANGED <<attempt, due, lapsed, scope, window, snap, held, past, world>>

\* That write fails, or the provider's answer never came: the catch block
\* treats the contact as failed.
CompleteFails(d) ==
  /\ pc[d] = "placed"
  /\ Go(d, "failing")
  /\ lost' = [lost EXCEPT ![current[d]] = @ + 1]
  /\ UNCHANGED <<table, scope, window, snap, held, current, dials, world>>

Exhausted(c) == attempt[c] + 1 > MaxAttempts

\* markFailedOrRetry, in the catch block: a throw here leaves runDispatcher.
FailOrRetry(d) ==
  LET c    == current[d]
      over == Exhausted(c)
  IN /\ pc[d] = "failing"
     /\ \/ /\ over \/ Admits(Active \cup {c})
           /\ attempt' = [attempt EXCEPT ![c] = @ + 1]
           /\ status' = [status EXCEPT ![c] = IF over THEN "failed" ELSE "pending"]
           /\ due' = [due EXCEPT ![c] = over /\ @]
           /\ Drop(d, "running")
           /\ UNCHANGED <<scope, window, snap, held>>
        \/ /\ ~over /\ ~Admits(Active \cup {c})
           /\ Abort(d)
           /\ UNCHANGED <<attempt, status, due>>
     /\ UNCHANGED <<lapsed, past, world>>

FinishRun(d) ==
  /\ pc[d] = "running"
  /\ held[d] = {}
  /\ Abort(d)
  /\ UNCHANGED <<table, past, world>>

\* The instance dies, times out, or loses its database.
Crash(d) ==
  /\ pc[d] # "idle"
  /\ crashes < MaxCrashes
  /\ crashes' = crashes + 1
  /\ lost' = [c \in Call |-> IF pc[d] = "placed" /\ c = current[d]
                             THEN lost[c] + 1 ELSE lost[c]]
  /\ Abort(d)
  /\ UNCHANGED <<table, dials, open, closings>>

-----------------------------------------------------------------------------
\* One step of a run that has started.
Step(d) ==
  \/ Plan(d) \/ ClaimSnapshot(d) \/ ClaimApply(d) \/ Settle(d)
  \/ \E c \in Call : Gate(d, c)
  \/ ContactFails(d) \/ PlaceCall(d) \/ SendLink(d)
  \/ Complete(d) \/ CompleteFails(d) \/ FailOrRetry(d) \/ FinishRun(d)

Next ==
  \/ \E c \in Call : \/ Insert(c) \/ Cancel(c) \/ MarkUnopened(c)
                      \/ MakeDue(c) \/ Lapse(c)
  \/ \E j \in Job : ForceCancel(j)
  \/ \E t \in Tenant : OpenWindow(t) \/ CloseWindow(t)
  \/ \E d \in Dispatcher : StartRun(d) \/ Step(d) \/ Crash(d)

Spec == Init /\ [][Next]_vars

\* The cron keeps firing, a started run keeps stepping, clocks move on and
\* offices open again.  Nothing else is promised: no one has to insert,
\* cancel, hang up or click.  The claim statement waits for no other (Quiet
\* only keeps it atomic), so overlapping runs cannot keep it from executing.
Fairness ==
  /\ \A d \in Cron : WF_vars(StartRun(d))
  /\ \A d \in Dispatcher : WF_vars(Step(d)) /\ SF_vars(ClaimSnapshot(d))
  /\ \A c \in Call : WF_vars(MakeDue(c)) /\ WF_vars(Lapse(c))
  /\ \A t \in Tenant : WF_vars(OpenWindow(t))

FairSpec == Spec /\ Fairness

-----------------------------------------------------------------------------
(* Properties.                                                             *)

\* Every variable has its type, and a run has a row in hand exactly while it
\* is between taking it and writing its outcome.
TypeOK ==
  /\ status \in [Call -> Status]
  /\ attempt \in [Call -> Nat]
  /\ due \in [Call -> BOOLEAN]
  /\ lapsed \in [Call -> BOOLEAN]
  /\ open \in [Tenant -> BOOLEAN]
  /\ pc \in [Dispatcher -> Point]
  /\ scope \in [Dispatcher -> Tenant \cup {AllTenants}]
  /\ window \in [Dispatcher -> SUBSET Tenant]
  /\ snap \in [Dispatcher -> SUBSET Call]
  /\ held \in [Dispatcher -> SUBSET Call]
  /\ current \in [Dispatcher -> Call \cup {NoCall}]
  /\ dials \in [Call -> Nat]
  /\ lost \in [Call -> Nat]
  /\ crashes \in Nat
  /\ closings \in Nat
  /\ \A d \in Dispatcher :
       current[d] # NoCall <=> pc[d] \in AtRow

\* No job, call type and recipient ever has two active rows, although six
\* writers move rows back to pending or in_progress by id alone.
OneActivePerSlot == NoConflict(Active)

\* What a run may rely on between its statements: the rows it claimed are its
\* own, stay in_progress unless staff cancel them, and cannot be reaped from
\* under it; the rows a claim is about to take are still pending.  (This is
\* the inductive invariant behind the properties below; instances where claim
\* statements overlap do not have it.)
Custody ==
  /\ \A d \in Dispatcher :
       /\ pc[d] \in {"idle", "reaped", "planned", "claiming"} => held[d] = {}
       /\ current[d] \notin held[d]
       /\ \A c \in Held(d) : status[c] \in {"in_progress", "cancelled"} /\ ~lapsed[c]
       /\ pc[d] = "claiming" => \A c \in snap[d] : status[c] = "pending"
  /\ \A d, e \in Dispatcher : d # e =>
       /\ Held(d) \cap Held(e) = {}
       /\ pc[d] # "claiming" \/ pc[e] # "claiming"

\* Every further contact for a row is explained by an earlier one whose
\* completion was never recorded: neither retries, reaping, office hours nor
\* cancelling alone can reach the customer twice for one row.
NoUnexplainedRedial ==
  \A c \in Call : dials[c] <= 1 + lost[c]

Dialing(d) == pc[d] \in {"dialing", "placed"}

\* Two runs are never placing a call to one phone number at a time.
NoParallelDial ==
  \A d, e \in Dispatcher :
    d # e /\ Dialing(d) /\ Dialing(e) =>
      \/ Row[current[d]].phone # Row[current[e]].phone
      \/ Row[current[d]].phone = NoPhone

Stage(s) ==
  CASE s = "absent" -> "absent"
    [] s = "pending" -> "waiting"
    [] s = "in_progress" -> "working"
    [] OTHER -> "settled"

Promise == INSTANCE QueuePromise WITH
  Owner <- [c \in Call |-> Row[c].tenant],
  Rivals <- {p \in Call \X Call : p[1] # p[2] /\ SameSlot(p[1], p[2])},
  TenantLimit <- TenantCap, SystemLimit <- SystemCap,
  stage <- [c \in Call |-> Stage(status[c])], told <- dials, unsure <- lost

\* The queue keeps its promise: claims, leases, retries, crashes and office
\* hours are all means to the abstract steps of QueuePromise, or no step of it.
PromiseKept == Promise!PromiseSpec

\* A row on the queue of an auto-dispatching tenant is settled eventually, for
\* good: crashes, lost writes, late writes to a cancelled row, closing offices
\* and full caps only delay it.
EventuallySettled ==
  \A c \in Call :
    Row[c].tenant \in AutoDispatch => <>[](status[c] \in Final \cup {"absent"})
=============================================================================
