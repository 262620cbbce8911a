------------------------------- MODULE Visits -------------------------------
(***************************************************************************)
(* The visits of one job: what the customer, the office and the sync do to *)
(* jobs and appointments (routes/retell-tools.js, routes/jobs.js,          *)
(* confirmation-agent/tools/handlers, services/crm/servicetrade/provider), *)
(* the status of the job derived from them (job-confirmation-status.js),   *)
(* and the copy ServiceTrade keeps (servicetrade-appointments.js).         *)
(*                                                                         *)
(* A handler is the sequence of its statements that change state; each     *)
(* statement is atomic and handlers interleave between them.  A voice      *)
(* call, a chat, a request of the office and the normalizer run side by    *)
(* side.  Reading an early return is part of starting the handler.  Chat   *)
(* link states and the service link are ChatLink's and ServiceLink's.      *)
(***************************************************************************)
EXTENDS Integers, Sequences, FiniteSets

CONSTANTS
  Visit,
  Booked,       \* visits that exist from the start
  Slot,         \* start times
  Actor,        \* who acts: some of "voice", "chat", "desk", "sync"
  MaxBusy,      \* bound: handlers in flight at a time
  ByHand,       \* job statuses the office sets
  SameVisit,    \* may two handlers work on the same visit?
  AgentChanges, \* call_settings.agent_can_make_changes
  MaxEvents     \* bound: handlers started by people, changes made in
                \* ServiceTrade, visits that begin and handlers that die

OwnedStatuses == {"scheduled", "confirmed", "completed"}
JobStatuses == OwnedStatuses \cup {"open", "in_progress", "rescheduled", "cancelled"}

ASSUME VisitAssumption ==
  /\ Booked \subseteq Visit /\ Slot # {} /\ Slot \subseteq Nat \ {0}
  /\ Actor \subseteq {"voice", "chat", "desk", "sync"}
  /\ MaxBusy \in Nat /\ ByHand \subseteq JobStatuses
  /\ SameVisit \in BOOLEAN /\ AgentChanges \in BOOLEAN
  /\ MaxEvents \in Nat

VARIABLES
  crm,        \* appointments in ServiceTrade
  crmJob,     \* status of the job in ServiceTrade
  visit,      \* appointments
  past,       \* visits whose start has passed
  job,        \* jobs.status
  crmTodo,    \* CRM_SYNC todos, by what they are about
  work,       \* the handler an actor is in
  rows,       \* raw rows as last read, which kinds changed in ServiceTrade
              \* since then, and which are above the watermark
  unsynced,   \* the status was set by hand, or its recomputation was cut off
  agreed,     \* the start the customer agreed to
  loose,      \* visits others moved, or whose handler died
  calledOff,  \* visits the agent cancelled and ServiceTrade agreed to cancel
  events

copies    == <<crm, crmJob, rows>>
history   == <<agreed, loose, calledOff>>
visitVars == <<copies, visit, past, job, crmTodo, work, unsynced,
               history, events>>

Outstanding == {"scheduled", "confirmed", "rescheduled"}

NoVisit == [status |-> "none", slot |-> 0, confirmed |-> FALSE]
NoCopy  == [status |-> "none", slot |-> 0]
Rest    == [targets |-> {}, left |-> {}, slot |-> 0, steps |-> <<>>]

Exists(v) == visit[v].status # "none"
Upcoming(v) == visit[v].status \in Outstanding /\ v \notin past
Asked == {v \in Visit : Upcoming(v) /\ ~visit[v].confirmed}
Busy(a) == work[a].steps # <<>>
Linked(v) == crm[v].status # "none"
Free(a) == ~Busy(a) /\ Cardinality({b \in Actor : Busy(b)}) < MaxBusy
Event == events < MaxEvents /\ events' = events + 1

VisitInit ==
  LET t == CHOOSE s \in Slot : \A r \in Slot : s <= r IN
    /\ crm = [v \in Visit |-> IF v \in Booked
                THEN [status |-> "scheduled", slot |-> t] ELSE NoCopy]
    /\ crmJob = "scheduled"
    /\ rows = [job |-> crmJob, visits |-> crm, behind |-> {}, above |-> {}]
    /\ visit = [v \in Visit |-> IF v \in Booked
                  THEN [status |-> "scheduled", slot |-> t, confirmed |-> FALSE]
                  ELSE NoVisit]
    /\ past = {} /\ job = "scheduled"
    /\ crmTodo = {}
    /\ work = [a \in Actor |-> Rest]
    /\ unsynced = FALSE
    /\ agreed = [v \in Visit |-> 0]
    /\ loose = {} /\ calledOff = {}
    /\ events = 0

-----------------------------------------------------------------------------
(* Status.                                                                 *)

\* The tallies of one job, and the status they give: completed when every
\* visit not cancelled is, confirmed when no outstanding one is unconfirmed.
\* Outstanding does not ask whether the visit has begun.
Tally(S) == {v \in Visit : visit[v].status \in S}

DerivedStatus_Upcoming ==           \* mutant: outstanding means still to come
  LET out == {v \in Tally(Outstanding) : v \notin past}
  IN  CASE Tally({"completed"}) # {} /\ out = {} -> "completed"
        [] out # {} /\ \A v \in out : visit[v].confirmed -> "confirmed"
        [] OTHER -> "scheduled"
DerivedStatus ==
  LET active == {v \in Visit : Exists(v) /\ visit[v].status # "cancelled"}
      out    == Tally(Outstanding)
  IN  CASE active # {} /\ active = Tally({"completed"}) -> "completed"
        [] out # {} /\ \A v \in out : visit[v].confirmed -> "confirmed"
        [] OTHER -> "scheduled"

\* syncJobConfirmationStatus: a job without visits, or whose status belongs to
\* another flow, is left alone.
Derived(status) ==
  IF status \in OwnedStatuses /\ \E v \in Visit : Exists(v) THEN DerivedStatus
  ELSE status

\* What GET /jobs?confirmed=true lists, and getJobById shows as active.
ListedConfirmed ==
  Tally(Outstanding) # {} /\ \A v \in Tally(Outstanding) : visit[v].confirmed

\* Of the statuses ServiceTrade uses, those the mapper does not know, with the
\* cancellations among them, come out as scheduled.
MapAppointmentStatus_Raw(s) == s     \* mutant: ServiceTrade's own word is kept
MapAppointmentStatus(s) == IF s = "completed" THEN s ELSE "scheduled"
MapJobStatus(s) == IF s = "canceled" THEN "cancelled" ELSE s

-----------------------------------------------------------------------------
(* Handlers: what each of them does, in order.                             *)

VoiceConfirm    == <<"confirm", "derive">>
VoiceConfirmJob == <<"confirm each", "derive">>
VoiceReschedule == <<"move", "mirror move", "derive">>
VoiceCreate     == <<"create", "open", "derive", "mirror create">>
VoiceCancel     == <<"cancel", "derive", "mirror cancel">>
VoiceCancelJob  == <<"cancel", "cancel job", "mirror cancel",
                     "mirror job">>
RescheduleJob   == <<"move job", "mirror job">>

ChatConfirm     == <<"confirm", "derive">>
ChatConfirmJob  == <<"confirm", "derive">>
ChatReschedule  == <<"move", "mirror move", "derive">>
ChatCreate      == <<"create", "open", "derive", "mirror create">>
ChatCancel      == <<"cancel", "derive", "mirror cancel">>
ChatCancelJob   == <<"cancel", "cancel job", "mirror cancel",
                     "mirror job">>

DeskMove    == <<"set time", "derive">>
DeskConfirm == <<"confirm", "derive">>
DeskCancel  == <<"cancel", "reopen", "derive">>
DeskCreate  == <<"create", "open", "derive">>

\* normalizeAll: the raw jobs are read first and written twice, the visits are
\* read in between, inference comes after them, the statuses come last.
Normalize_NoDerive ==                \* mutant: syncAllJobStatuses not called
  <<"read job", "write job", "read visits", "write visits", "infer", "write job",
    "advance">>
Normalize ==
  <<"read job", "write job", "read visits", "write visits", "infer", "write job",
    "derive", "advance">>
Inferred == <<"confirm asked", "derive">>

\* An actor begins a handler on the visits S.
Begin(a, S, t, steps) ==
  /\ Free(a) /\ Event
  /\ SameVisit \/ \A b \in Actor : work[b].targets \cap S = {} \/ b = "sync"
  /\ work' = [work EXCEPT ![a] =
       [targets |-> S, left |-> S, slot |-> t, steps |-> steps]]
  /\ UNCHANGED <<copies, visit, past, job, crmTodo, unsynced, history>>

\* The tools of a voice call check that the row exists.  confirm_job takes
\* upcoming visits of the job that are unconfirmed.
VoiceTool(v, t) ==
  \/ Exists(v) /\ \/ Begin("voice", {v}, 0, VoiceConfirm)
                  \/ Begin("voice", {v}, t, VoiceReschedule)
                  \/ Begin("voice", {v}, 0, VoiceCancel)
                  \/ Begin("voice", {v}, 0, VoiceCancelJob)
  \/ ~Exists(v) /\ Begin("voice", {v}, t, VoiceCreate)
  \/ Begin("voice", {}, 0, RescheduleJob)

VoiceToolJob ==
  \E S \in SUBSET Asked \ {{}} : Begin("voice", S, 0, VoiceConfirmJob)

\* Those of a chat also return early on a visit that is confirmed already.
ChatTool(v, t) ==
  \/ Exists(v) /\ \/ ~visit[v].confirmed /\ Begin("chat", {v}, 0, ChatConfirm)
                  \/ Begin("chat", {v}, t, ChatReschedule)
                  \/ Begin("chat", {v}, 0, ChatCancel)
                  \/ Begin("chat", {v}, 0, ChatCancelJob)
  \/ ~Exists(v) /\ Begin("chat", {v}, t, ChatCreate)

ChatToolJob ==
  \E S \in SUBSET Asked \ {{}} : Begin("chat", S, 0, ChatConfirmJob)

\* PATCH /jobs/appointments/:id and POST /jobs/:id/appointments.
DeskRequest(v, t) ==
  \/ Exists(v) /\ \/ Begin("desk", {v}, t, DeskMove)
                  \/ Begin("desk", {v}, 0, DeskConfirm)
                  \/ Begin("desk", {v}, 0, DeskCancel)
  \/ ~Exists(v) /\ Begin("desk", {v}, t, DeskCreate)

\* PATCH /jobs/:id and /:id/reschedule: one statement, nothing is recomputed.
DeskJob(s) ==
  /\ ~Busy("desk") /\ Event
  /\ job' = s
  /\ unsynced' = TRUE
  /\ UNCHANGED <<copies, visit, past, crmTodo, work, history>>

StartSync ==
  /\ Free("sync")
  /\ work' = [work EXCEPT !["sync"].steps = Normalize]
  /\ UNCHANGED <<copies, visit, past, job, crmTodo, unsynced, history,
                 events>>

-----------------------------------------------------------------------------
(* Steps of a handler.                                                     *)

At(a, step) == Busy(a) /\ Head(work[a].steps) = step
Advance(a) == work' = [work EXCEPT ![a] =
                IF Len(@.steps) = 1 THEN Rest ELSE [work[a] EXCEPT !.steps = Tail(@)]]

\* The customer agrees to the start they heard; the desk takes their word.
MarkConfirmed(S) ==
  /\ visit' = [v \in Visit |-> IF v \in S
                 THEN [visit[v] EXCEPT !.confirmed = TRUE] ELSE visit[v]]
  /\ agreed' = [v \in Visit |-> IF v \in S THEN visit[v].slot ELSE agreed[v]]

\* updateAppointment or bulkConfirmAppointments: whatever the visits' status.
StepConfirm(a) ==
  /\ At(a, "confirm")
  /\ MarkConfirmed(work[a].targets)
  /\ Advance(a)
  /\ UNCHANGED <<copies, past, job, crmTodo, unsynced, loose, calledOff,
                 events>>

\* confirm_job_appointments of a voice call: one statement per visit.
StepConfirmEach(a) ==
  /\ At(a, "confirm each")
  /\ \E v \in work[a].left :
       /\ MarkConfirmed({v})
       /\ IF work[a].left = {v} THEN Advance(a)
          ELSE work' = [work EXCEPT ![a].left = @ \ {v}]
  /\ UNCHANGED <<copies, past, job, crmTodo, unsynced, loose, calledOff,
                 events>>

\* A tool moves a visit: rescheduled, and no longer confirmed.
Moved_KeepsConsent(v, t) ==         \* mutant: customer_confirmed left alone
  [visit[v] EXCEPT !.status = "rescheduled", !.slot = t]
Moved(v, t) == [status |-> "rescheduled", slot |-> t, confirmed |-> FALSE]

StepMove(a) ==
  /\ At(a, "move")
  /\ visit' = [v \in Visit |-> IF v \in work[a].targets THEN Moved(v, work[a].slot)
                               ELSE visit[v]]
  /\ past' = past \ work[a].targets
  /\ calledOff' = calledOff \ work[a].targets
  /\ Advance(a)
  /\ UNCHANGED <<copies, job, crmTodo, unsynced, agreed, loose, events>>

\* The office moves it: status rescheduled, the confirmation stays as it is.
StepSetTime(a) ==
  /\ At(a, "set time")
  /\ visit' = [v \in Visit |-> IF v \in work[a].targets
                 THEN [visit[v] EXCEPT !.status = "rescheduled", !.slot = work[a].slot]
                 ELSE visit[v]]
  /\ past' = past \ work[a].targets
  /\ loose' = loose \cup work[a].targets
  /\ calledOff' = calledOff \ work[a].targets
  /\ Advance(a)
  /\ UNCHANGED <<copies, job, crmTodo, unsynced, agreed, events>>

StepCreate(a) ==
  /\ At(a, "create")
  /\ visit' = [v \in Visit |-> IF v \in work[a].targets
                 THEN [status |-> "scheduled", slot |-> work[a].slot, confirmed |-> FALSE]
                 ELSE visit[v]]
  /\ loose' = IF a = "desk" THEN loose \cup work[a].targets ELSE loose
  /\ Advance(a)
  /\ UNCHANGED <<copies, past, job, crmTodo, unsynced, agreed, calledOff,
                 events>>

StepCancel(a) ==
  /\ At(a, "cancel")
  /\ visit' = [v \in Visit |-> IF v \in work[a].targets
                 THEN [visit[v] EXCEPT !.status = "cancelled"] ELSE visit[v]]
  /\ Advance(a)
  /\ UNCHANGED <<copies, past, job, crmTodo, unsynced, history, events>>

\* UPDATEs of jobs.status: promotion of an open job, cancellation of the whole
\* job, the date of a job moved, a job back to open when no visit is left that
\* is neither cancelled nor rescheduled, the recomputation.
SetJob(a, s) ==
  /\ job' = s
  /\ Advance(a)
  /\ UNCHANGED <<copies, visit, past, crmTodo, history, events>>

StepJob(a) ==
  \/ /\ At(a, "open")
     /\ SetJob(a, IF job = "open" THEN "scheduled" ELSE job)
     /\ UNCHANGED unsynced
  \/ /\ At(a, "cancel job")
     /\ SetJob(a, "cancelled") /\ UNCHANGED unsynced
  \/ /\ At(a, "move job")
     /\ SetJob(a, "rescheduled") /\ UNCHANGED unsynced
  \/ /\ At(a, "reopen")
     /\ SetJob(a, IF /\ job \in {"scheduled", "confirmed"}
                     /\ \A v \in Visit \ work[a].targets :
                          visit[v].status \in {"none", "cancelled", "rescheduled"}
                  THEN "open" ELSE job)
     /\ UNCHANGED unsynced
  \/ /\ At(a, "derive")
     /\ SetJob(a, Derived(job))
     /\ unsynced' = FALSE

CrmIs(new) == crm' = [v \in Visit |-> IF v \in DOMAIN new THEN new[v] ELSE crm[v]]

Behind(kind) == rows' = [rows EXCEPT !.behind = @ \cup {kind}]

\* The mirrors: PUT or POST, awaited and best effort; a refusal leaves a todo,
\* and so does an answer that is lost, with the change made.  A visit
\* ServiceTrade does not have is skipped; creating stamps its id back.
Applied(accepted, about, kind) ==
  accepted /\ IF about = {} THEN UNCHANGED rows ELSE Behind(kind)
Untouched == UNCHANGED <<copies, calledOff>>

Mirror_Silent(accepted, about, kind) ==   \* mutant: no todo is raised
  /\ \/ AgentChanges /\ Applied(accepted, about, kind)
     \/ Untouched
  /\ UNCHANGED crmTodo
Mirror(accepted, about, kind) ==
  \/ AgentChanges /\ Applied(accepted, about, kind) /\ UNCHANGED crmTodo
  \/ /\ AgentChanges
     /\ Applied(accepted, about, kind) \/ Untouched
     /\ crmTodo' = crmTodo \cup about
  \/ ~AgentChanges /\ Untouched /\ UNCHANGED crmTodo

StepMirror(a) ==
  LET here == {v \in work[a].targets : Linked(v)}
  IN /\ \/ /\ At(a, "mirror move")
           /\ Mirror(/\ CrmIs([v \in here |-> [crm[v] EXCEPT !.slot = work[a].slot]])
                     /\ UNCHANGED <<crmJob, calledOff>>, here, "visits")
        \/ /\ At(a, "mirror cancel")
           /\ Mirror(/\ CrmIs([v \in here |->
                          [crm[v] EXCEPT !.status = "canceled_by_customer"]])
                     /\ calledOff' = calledOff \cup here
                     /\ UNCHANGED crmJob, here, "visits")
        \/ /\ At(a, "mirror create")
           /\ Mirror(/\ CrmIs([v \in work[a].targets |->
                          [status |-> "scheduled", slot |-> work[a].slot]])
                     /\ UNCHANGED <<crmJob, calledOff>>, work[a].targets, "visits")
        \/ /\ At(a, "mirror job")
           /\ Mirror(/\ crmJob' = IF work[a].targets = {} THEN crmJob ELSE "canceled"
                     /\ UNCHANGED <<crm, calledOff>>, {"job"}, "job")
     /\ Advance(a)
     /\ UNCHANGED <<visit, past, job, unsynced, agreed, loose, events>>

-----------------------------------------------------------------------------
(* The normalizer.                                                         *)

\* The rows of one kind are read; they are written again if one changed since
\* they were last read, and perhaps if none did.
Read(kind, now) ==
  \E above \in {rows.above, rows.above \cup {kind}} :
    /\ kind \in rows.behind => kind \in above
    /\ rows' = [now EXCEPT !.behind = rows.behind \ {kind}, !.above = above]

StepRead ==
  /\ \/ At("sync", "read job") /\ Read("job", [rows EXCEPT !.job = crmJob])
     \/ At("sync", "read visits") /\ Read("visits", [rows EXCEPT !.visits = crm])
  /\ Advance("sync")
  /\ UNCHANGED <<crm, crmJob, visit, past, job, crmTodo, unsynced, history,
                 events>>

StepWriteJob ==
  /\ At("sync", "write job")
  /\ job' = IF "job" \in rows.above THEN MapJobStatus(rows.job) ELSE job
  /\ Advance("sync")
  /\ UNCHANGED <<copies, visit, past, crmTodo, unsynced, history, events>>

\* The upsert sets status and times and leaves customer_confirmed alone.
FromRow(v) ==
  [visit[v] EXCEPT !.status = MapAppointmentStatus(rows.visits[v].status),
                   !.slot = rows.visits[v].slot]

StepWriteVisits ==
  LET seen == {v \in Visit : "visits" \in rows.above /\ rows.visits[v].status # "none"}
      new  == [v \in Visit |-> IF v \in seen THEN FromRow(v) ELSE visit[v]]
      moved == {v \in seen : new[v].slot # visit[v].slot}
  IN /\ At("sync", "write visits")
     /\ visit' = new
     /\ loose' = loose \cup moved
     /\ past' = past \ moved
     /\ Advance("sync")
     /\ UNCHANGED <<copies, job, crmTodo, unsynced, agreed, calledOff, events>>

\* inferJobConfirmations: when the comments say yes, one statement confirms
\* the visits of the job that are upcoming and unconfirmed by then.
StepInfer ==
  /\ At("sync", "infer")
  /\ \/ Advance("sync") /\ UNCHANGED events
     \/ /\ Asked # {} /\ Event
        /\ work' = [work EXCEPT !["sync"].steps = Inferred \o Tail(@)]
  /\ UNCHANGED <<copies, visit, past, job, crmTodo, unsynced, history>>

StepConfirmAsked ==
  /\ At("sync", "confirm asked")
  /\ MarkConfirmed(Asked)
  /\ work' = [work EXCEPT !["sync"].targets = Asked, !["sync"].steps = Tail(@)]
  /\ UNCHANGED <<copies, past, job, crmTodo, unsynced, loose, calledOff,
                 events>>

\* The watermark becomes the start of the run.
StepAdvance ==
  /\ At("sync", "advance")
  /\ rows' = [rows EXCEPT !.above = {}]
  /\ Advance("sync")
  /\ UNCHANGED <<crm, crmJob, visit, past, job, crmTodo, unsynced, history,
                 events>>

SyncStep ==
  StepRead \/ StepWriteJob \/ StepWriteVisits \/ StepInfer \/ StepConfirmAsked
    \/ StepAdvance

-----------------------------------------------------------------------------
(* Around them.                                                            *)

\* Dispatchers book, move, complete or cancel visits in ServiceTrade, or end
\* the job.
CrmEdit(v) ==
  /\ Event
  /\ \/ /\ \/ \E t \in Slot : crm' = [crm EXCEPT ![v] = [status |-> "scheduled", slot |-> t]]
           \/ Linked(v) /\ \E s \in {"completed", "canceled_by_vendor"} :
                             crm' = [crm EXCEPT ![v].status = s]
        /\ Behind("visits") /\ UNCHANGED crmJob
     \/ crmJob' \in {"completed", "canceled"} /\ Behind("job") /\ UNCHANGED crm
  /\ calledOff' = calledOff \ {v}
  /\ UNCHANGED <<visit, past, job, crmTodo, work, unsynced, agreed, loose>>

Begins(v) ==
  /\ Upcoming(v) /\ Event
  /\ past' = past \cup {v}
  /\ UNCHANGED <<copies, visit, job, crmTodo, work, unsynced, history>>

\* The instance dies, or a statement throws: the rest of the handler is not
\* run.  A normalize that fails does not move its watermark.
Dies(a) ==
  /\ Busy(a) /\ Event
  /\ work' = [work EXCEPT ![a] = Rest]
  /\ unsynced' = \/ unsynced
                  \/ \E i \in DOMAIN work[a].steps :
                       work[a].steps[i] \in {"derive", "cancel job"}
  /\ loose' = loose \cup work[a].targets
  /\ UNCHANGED <<copies, visit, past, job, crmTodo, agreed, calledOff>>

Handling(a) ==
  \/ StepConfirm(a) \/ StepConfirmEach(a) \/ StepMove(a) \/ StepSetTime(a)
  \/ StepCreate(a) \/ StepCancel(a) \/ StepJob(a) \/ StepMirror(a)
  \/ a = "sync" /\ SyncStep

VisitNext ==
  \/ \E v \in Visit, t \in Slot :
       \/ "voice" \in Actor /\ VoiceTool(v, t)
       \/ "chat" \in Actor /\ ChatTool(v, t)
       \/ "desk" \in Actor /\ DeskRequest(v, t)
  \/ "voice" \in Actor /\ VoiceToolJob
  \/ "chat" \in Actor /\ ChatToolJob
  \/ "desk" \in Actor /\ \E s \in ByHand : DeskJob(s)
  \/ "sync" \in Actor /\ StartSync
  \/ \E a \in Actor : Handling(a) \/ Dies(a)
  \/ \E v \in Visit : CrmEdit(v) \/ Begins(v)

VisitSpec == VisitInit /\ [][VisitNext]_visitVars

-----------------------------------------------------------------------------
(* Properties.                                                             *)

VisitRow == [status: {"none", "scheduled", "rescheduled", "completed", "cancelled"},
             slot: Slot \cup {0}, confirmed: BOOLEAN]
CopyRow == [status: {"none", "scheduled", "completed", "canceled_by_customer",
                     "canceled_by_vendor"}, slot: Slot \cup {0}]

\* Every variable has its type.
VisitTypeOK ==
  /\ crm \in [Visit -> CopyRow]
  /\ crmJob \in {"scheduled", "completed", "canceled"}
  /\ visit \in [Visit -> VisitRow]
  /\ past \subseteq Visit
  /\ job \in JobStatuses
  /\ crmTodo \subseteq Visit \cup {"job"}
  /\ \A a \in Actor : work[a].left \subseteq work[a].targets
  /\ rows.visits \in [Visit -> CopyRow] /\ rows.above \cup rows.behind \subseteq {"job", "visits"}
  /\ agreed \in [Visit -> Slot \cup {0}]
  /\ loose \subseteq Visit /\ calledOff \subseteq Visit
  /\ events \in 0..MaxEvents

VisitsQuiet == \A a \in Actor : ~Busy(a)

\* The status is confirmed when every outstanding visit is, the same test as
\* the list of confirmed jobs makes, and completed when all that is not
\* cancelled is done.
InStep ==
  job \in OwnedStatuses /\ (\E v \in Visit : Exists(v)) =>
    /\ (job = "confirmed") = ListedConfirmed
    /\ (job = "completed") =
         /\ Tally({"completed"}) # {}
         /\ Tally(Outstanding) = {}

\* Comment: jobs.status is kept in step with its appointments.  When nobody is
\* in a handler, the status agrees with the visits, whatever calls, chats, the
\* office and the sync did at the same time; a status set by hand waits for
\* the next recomputation.
JobInStep == VisitsQuiet /\ ~unsynced => InStep

\* Comment: a moved appointment is no longer confirmed, the customer agreed to
\* the old time.  A confirmed visit is at the time that was agreed to, unless
\* the office or ServiceTrade moved it.
ConsentIsFresh ==
  \A v \in Visit : visit[v].confirmed /\ visit[v].slot # agreed[v] => v \in loose

\* Comment: best effort, the platform is the source of truth.  A time that the
\* agent, when it may make changes, and ServiceTrade do not share leaves a
\* todo, or ServiceTrade changed it after the last sync read it.
MoveReported ==
  AgentChanges /\ VisitsQuiet =>
    \A v \in Visit :
      Exists(v) /\ Linked(v) /\ visit[v].slot # crm[v].slot =>
        \/ v \in crmTodo \cup loose
        \/ "visits" \in rows.behind \cup rows.above

\* Comment: cancelling is fully actioned here, platform and ServiceTrade.  A
\* visit the agent cancelled, and ServiceTrade told the sync is cancelled, is
\* cancelled when nobody is in a handler.
CancelledStays ==
  VisitsQuiet =>
    \A v \in calledOff :
      rows.visits[v].status = "canceled_by_customer" => visit[v].status = "cancelled"

\* A status left behind, by a handler that died or by hand, is put right by
\* the sync.
JobHeals == []<>InStep
=============================================================================
