------------------------------ MODULE FollowUp ------------------------------
(***************************************************************************)
(* Who is contacted about a job, and what follows a contact: the daily     *)
(* sweep and the office's requests (scheduler.js, manual-call.js), the     *)
(* webhooks of a call (routes/retell.js), the retries, callbacks and links *)
(* they queue (db/scheduled-calls.js) and the todos they leave (todos.js). *)
(*                                                                         *)
(* Days are relative: a row is due today (0) or in the next window (1), a  *)
(* sent link is fresh (0) or a day old (1).  How a due row is claimed and  *)
(* dialled is CallQueue's; here a due row is simply sent out.  The unique  *)
(* index on active rows makes "slot" a function of the recipient.          *)
(***************************************************************************)
EXTENDS Integers, Sequences, FiniteSets

CONSTANTS
  Recipient,     \* the customer, and contacts the company also writes to
  Reachable,     \* recipients with the phone or e-mail the channel needs
  Call,
  Flags,         \* what the customer wants: some of "voice", "link"
  Outcome,       \* how a call may end, see Answers
  HasDue,        \* jobs.scheduled_date is set, to the day of the visit
  Ahead,         \* days until the visit
  MaxRetries,    \* MAX_NO_ANSWER_RETRIES
  MaxAttempts,   \* call_settings.max_attempts
  MaxFollowFaults \* bound: repeated webhooks, requests of the office, crashes

CONSTANT Customer

NoAnswer == {"no answer", "voicemail"}
Answers == NoAnswer \cup {"yes", "unclear", "reschedule", "cancel", "callback"}

ASSUME FollowAssumption ==
  /\ Customer \in Recipient /\ Reachable \subseteq Recipient
  /\ Flags \subseteq {"voice", "link"} /\ Outcome \subseteq Answers /\ HasDue \in BOOLEAN
  /\ Ahead \in Nat /\ MaxRetries \in Nat /\ MaxAttempts \in Nat /\ MaxFollowFaults \in Nat

VARIABLES
  ahead,       \* days until the visit, 0 once it has begun
  slot,        \* the active row of a recipient
  sent,        \* completed link rows not followed up yet
  call,        \* calls between dialling and their last webhook
  table,       \* calls, by id
  callTodos,   \* todos about a call
  missing,     \* recipients with an open MISSING_PHONE or MISSING_EMAIL todo
  confirmed,   \* no upcoming visit of the job is unconfirmed
  sweep,       \* the sweep of today: recipients and links left, link to mark
  followFaults

followVars == <<ahead, slot, sent, call, table, callTodos, missing, confirmed, sweep,
                followFaults>>

NoRow   == [status |-> "none", channel |-> "none", retry |-> 0, day |-> 0]
NoCall  == [phase |-> "free", to |-> Customer, channel |-> "none", retry |-> 0,
            answer |-> "none", cancelled |-> FALSE, handling |-> "none", lost |-> FALSE]
NoEntry == [status |-> "none", answer |-> "none"]
Resting == [on |-> FALSE, left |-> {}, links |-> {}, mark |-> {}]

FollowInit ==
  /\ ahead = Ahead
  /\ slot = [r \in Recipient |-> NoRow]
  /\ sent = {}
  /\ call = [c \in Call |-> NoCall]
  /\ table = [c \in Call |-> NoEntry]
  /\ callTodos = [c \in Call |-> 0]
  /\ missing = {} /\ confirmed = FALSE
  /\ sweep = Resting /\ followFaults = 0

Fault == followFaults < MaxFollowFaults /\ followFaults' = followFaults + 1

-----------------------------------------------------------------------------
(* Channel and queue.                                                      *)

\* resolveOutboundChannel with the customer's flags: voice while it is wanted
\* and not used up, else a link, else voice.
Channel(exhausted) ==
  IF "link" \in Flags /\ ("voice" \notin Flags \/ exhausted) THEN "web_chat" ELSE "voice"

Row(channel, retry, day) ==
  [status |-> "pending", channel |-> channel, retry |-> retry, day |-> day]

\* create: a second active row of the recipient is refused by the index.
Enqueue(r, row) == slot' = [slot EXCEPT ![r] = IF @ = NoRow THEN row ELSE @]

\* scheduleRetry: at most MaxRetries, and before the due date.
RetryRow(c) ==
  IF call[c].retry >= MaxRetries \/ (HasDue /\ ahead <= 1) THEN NoRow
  ELSE Row(Channel(call[c].retry + 1 >= MaxRetries), call[c].retry + 1, 1)

\* parseCallbackTime: the days a time said in words can be on; others are
\* refused, as are times that have passed.
CallbackDay == {0, 1}

\* scheduleCallback, from the tool during the call and again after it.
CallbackRow_NoDue(d) == Row("voice", 0, d)   \* mutant: the due date is not looked at
CallbackRow(d) == IF HasDue /\ d >= ahead THEN NoRow ELSE Row("voice", 0, d)

\* fallbackToLink: the count starts over, no due date.
LinkRow == Row("web_chat", 0, 0)

-----------------------------------------------------------------------------
(* The daily job.                                                          *)

\* runDailyJob: the links nobody opened first, then the triggers.  That a link
\* was opened is never recorded where this query looks (retell_chat_id).
StartDaily ==
  /\ ~sweep.on
  /\ sweep' = [Resting EXCEPT !.on = TRUE,
                 !.left = IF ahead > 0 /\ ~confirmed THEN Recipient ELSE {},
                 !.links = {l \in sent : l.age = 1}]
  /\ UNCHANGED <<ahead, slot, sent, call, table, callTodos, missing, confirmed,
                 followFaults>>

\* processUnopenedChatLinks: a row with the count one higher, in the slot of
\* the customer; then the old row is marked failed.
FollowLink(l) ==
  LET row == Row(IF "voice" \in Flags THEN "voice" ELSE "web_chat", l.retry + 1, 0)
  IN  /\ sweep.on /\ sweep.mark = {} /\ l \in sweep.links
      /\ IF slot[Customer] # NoRow \/ l.retry >= MaxAttempts
         THEN /\ sweep' = [sweep EXCEPT !.links = @ \ {l}]
              /\ UNCHANGED slot
         ELSE /\ Enqueue(Customer, row)
              /\ sweep' = [sweep EXCEPT !.links = @ \ {l}, !.mark = {l}]
      /\ UNCHANGED <<ahead, sent, call, table, callTodos, missing, confirmed,
                     followFaults>>

MarkLinkFailed ==
  /\ sweep.on /\ sweep.mark # {}
  /\ sent' = sent \ sweep.mark
  /\ sweep' = [sweep EXCEPT !.mark = {}]
  /\ UNCHANGED <<ahead, slot, call, table, callTodos, missing, confirmed, followFaults>>

\* enqueueConfirmationForRecipient: no phone or e-mail for the channel leaves
\* one open todo, an active row for this recipient leaves things as they are.
EnqueueConfirmation(r) ==
  IF r \notin Reachable
  THEN missing' = missing \cup {r} /\ UNCHANGED slot
  ELSE Enqueue(r, Row(Channel(FALSE), 0, 0)) /\ UNCHANGED missing

\* processScheduledUnconfirmed: the jobs were read when the sweep began.
SweepRecipient(r) ==
  /\ sweep.on /\ sweep.links = {} /\ sweep.mark = {} /\ r \in sweep.left
  /\ EnqueueConfirmation(r)
  /\ sweep' = [sweep EXCEPT !.left = @ \ {r}]
  /\ UNCHANGED <<ahead, sent, call, table, callTodos, confirmed, followFaults>>

SweepDies ==
  /\ sweep.on /\ Fault
  /\ sweep' = [Resting EXCEPT !.on = TRUE]
  /\ UNCHANGED <<ahead, slot, sent, call, table, callTodos, missing, confirmed>>

\* The next day: windows open, links age, the cron fires again.
NextDay ==
  /\ sweep.on /\ sweep.left = {} /\ sweep.links = {} /\ sweep.mark = {}
  /\ ahead' = IF ahead > 0 THEN ahead - 1 ELSE 0
  /\ slot' = [r \in Recipient |-> [slot[r] EXCEPT !.day = 0]]
  /\ sent' = {[l EXCEPT !.age = 1] : l \in sent}
  /\ sweep' = Resting
  /\ UNCHANGED <<call, table, callTodos, missing, confirmed, followFaults>>

\* POST /jobs/bulk-send-confirmation: as the sweep, for the jobs staff chose.
BulkSend(r) ==
  /\ ahead > 0 /\ Fault
  /\ EnqueueConfirmation(r)
  /\ UNCHANGED <<ahead, sent, call, table, callTodos, confirmed, sweep>>

\* POST /calls/manual: the hydrators want an upcoming visit, missing details
\* are an error, the channel may be chosen.  Without force an active row is an
\* error too; with it the row is cancelled and replaced.
ManualSend(r) ==
  /\ ahead > 0 /\ r \in Reachable /\ Fault
  /\ \E channel \in {"voice", "web_chat"} : slot' = [slot EXCEPT ![r] = Row(channel, 0, 0)]
  /\ UNCHANGED <<ahead, sent, call, table, callTodos, missing, confirmed, sweep>>

\* PATCH /todos/:id/status.
ResolveTodo(r) ==
  /\ r \in missing /\ Fault
  /\ missing' = missing \ {r}
  /\ UNCHANGED <<ahead, slot, sent, call, table, callTodos, confirmed, sweep>>

-----------------------------------------------------------------------------
(* A contact.                                                              *)

\* The row is completed as soon as the call is placed or the link is sent.
Dial(r, c) ==
  /\ slot[r].status = "pending" /\ slot[r].day = 0 /\ slot[r].channel = "voice"
  /\ call[c].phase = "free"
  /\ call' = [call EXCEPT ![c] = [NoCall EXCEPT !.phase = "talking", !.to = r,
                                    !.channel = "voice", !.retry = slot[r].retry]]
  /\ slot' = [slot EXCEPT ![r] = NoRow]
  /\ UNCHANGED <<ahead, sent, table, callTodos, missing, confirmed, sweep, followFaults>>

Send(r) ==
  /\ slot[r].status = "pending" /\ slot[r].day = 0 /\ slot[r].channel = "web_chat"
  /\ sent' = sent \cup {[to |-> r, retry |-> slot[r].retry, age |-> 0]}
  /\ slot' = [slot EXCEPT ![r] = NoRow]
  /\ UNCHANGED <<ahead, call, table, callTodos, missing, confirmed, sweep, followFaults>>

\* schedule_callback during the call: refused after the due date or when a row
\* of this recipient is active.
ToolCallback(c, d) ==
  /\ call[c].phase = "talking" /\ call[c].answer = "none" /\ "callback" \in Outcome
  /\ Enqueue(call[c].to, CallbackRow(d))
  /\ call' = [call EXCEPT ![c].answer = "callback"]
  /\ UNCHANGED <<ahead, sent, table, callTodos, missing, confirmed, sweep, followFaults>>

\* The call ends.  A confirmation, or a cancellation the agent carried out,
\* took place during it.
HangUp(c) ==
  /\ call[c].phase = "talking"
  /\ \E a \in IF call[c].answer = "none" THEN Outcome ELSE {call[c].answer},
        live \in BOOLEAN :
       /\ live => a = "cancel"
       /\ call' = [call EXCEPT ![c].phase = "over", ![c].answer = a, ![c].cancelled = live]
       /\ confirmed' = (confirmed \/ a = "yes" \/ live)
  /\ UNCHANGED <<ahead, slot, sent, table, callTodos, missing, sweep, followFaults>>

-----------------------------------------------------------------------------
(* Webhooks of a call: in any order, possibly repeated or never delivered. *)

\* call_ended, upsertStub: on conflict the row keeps its status and analysis.
Stub_Overwrites(c) == [status |-> "ended", answer |-> "none"]   \* mutant: plain upsert
Stub(c) ==
  IF table[c].status = "none" THEN [status |-> "ended", answer |-> "none"] ELSE table[c]

CallEnded(c) ==
  /\ call[c].phase = "over"
  /\ table' = [table EXCEPT ![c] = Stub(c)]
  /\ UNCHANGED <<ahead, slot, sent, call, callTodos, missing, confirmed, sweep,
                 followFaults>>

\* call_analyzed: the outcome is stored first.
CallAnalyzed(c) ==
  /\ call[c].phase = "over" /\ call[c].handling = "none"
  /\ IF table[c].status = "analyzed" THEN Fault ELSE UNCHANGED followFaults
  /\ table' = [table EXCEPT ![c] = [status |-> "analyzed", answer |-> call[c].answer]]
  /\ call' = [call EXCEPT ![c].handling = "stored"]
  /\ UNCHANGED <<ahead, slot, sent, callTodos, missing, confirmed, sweep>>

\* deriveTodoType: every outcome but a confirmation; a cancellation the agent
\* carried out has left its own todo.
NeedsTodo_OnlyRequests(c) ==        \* mutant: only when the customer asked for something
  call[c].answer \in {"reschedule", "cancel"} /\ ~call[c].cancelled
NeedsTodo(c) ==
  call[c].answer # "yes" /\ ~call[c].cancelled

CallTodo(c) ==
  /\ call[c].handling = "stored"
  /\ callTodos' = IF NeedsTodo(c) THEN [callTodos EXCEPT ![c] = @ + 1] ELSE callTodos
  /\ call' = [call EXCEPT ![c].handling = "told"]
  /\ UNCHANGED <<ahead, slot, sent, table, missing, confirmed, sweep, followFaults>>

\* handleRetryOrCallback: a callback in the future; no answer: a link when the
\* retries are used up and links are wanted, a retry otherwise.
CallFollowUp(c) ==
  LET exhausted == call[c].retry + 1 >= MaxRetries
      row == IF exhausted /\ "link" \in Flags THEN LinkRow ELSE RetryRow(c)
  IN /\ call[c].handling = "told"
     /\ CASE call[c].answer = "callback" ->
                \/ \E d \in CallbackDay : Enqueue(call[c].to, CallbackRow(d))
                \/ UNCHANGED slot
          [] call[c].answer \in NoAnswer -> Enqueue(call[c].to, row)
          [] OTHER                       -> UNCHANGED slot
     /\ call' = [call EXCEPT ![c].handling = "none"]
     /\ UNCHANGED <<ahead, sent, table, callTodos, missing, confirmed, sweep, followFaults>>

HandlerDies(c) ==
  /\ call[c].handling # "none" /\ Fault
  /\ call' = [call EXCEPT ![c].handling = "none", ![c].lost = TRUE]
  /\ UNCHANGED <<ahead, slot, sent, table, callTodos, missing, confirmed, sweep>>

\* Nothing more comes from Retell about this call.
LastWebhook(c) ==
  /\ call[c].phase = "over" /\ call[c].handling = "none"
  /\ call' = [call EXCEPT ![c] = NoCall]
  /\ table' = [table EXCEPT ![c] = NoEntry]
  /\ callTodos' = [callTodos EXCEPT ![c] = 0]
  /\ UNCHANGED <<ahead, slot, sent, missing, confirmed, sweep, followFaults>>

-----------------------------------------------------------------------------

SweepStep ==
  \/ StartDaily \/ MarkLinkFailed \/ NextDay
  \/ \E l \in sent : FollowLink(l)
  \/ \E r \in Recipient : SweepRecipient(r)

Contact(r) == Send(r) \/ \E c \in Call : Dial(r, c)
Handle(c) == HangUp(c) \/ CallTodo(c) \/ CallFollowUp(c)

FollowNext ==
  \/ SweepStep \/ SweepDies
  \/ \E r \in Recipient : Contact(r) \/ BulkSend(r) \/ ManualSend(r) \/ ResolveTodo(r)
  \/ \E c \in Call :
       \/ Handle(c) \/ CallEnded(c) \/ CallAnalyzed(c) \/ HandlerDies(c) \/ LastWebhook(c)
       \/ \E d \in CallbackDay : ToolCallback(c, d)

FollowSpec == FollowInit /\ [][FollowNext]_followVars

-----------------------------------------------------------------------------
(* Properties.                                                             *)

\* Every variable has its type.
FollowTypeOK ==
  /\ ahead \in 0..Ahead
  /\ slot \in [Recipient -> {NoRow} \cup
       [status: {"pending"}, channel: {"voice", "web_chat"}, retry: 0..(MaxRetries + MaxAttempts),
        day: {0, 1}]]
  /\ sent \subseteq [to: Recipient, retry: 0..(MaxRetries + MaxAttempts), age: {0, 1}]
  /\ table \in [Call -> [status: {"none", "ended", "analyzed"}, answer: Answers \cup {"none"}]]
  /\ callTodos \in [Call -> Nat]
  /\ missing \subseteq Recipient \ Reachable /\ confirmed \in BOOLEAN
  /\ sweep.left \subseteq Recipient
  /\ followFaults \in 0..MaxFollowFaults

\* Comment: upserts, so a repeat of a webhook is safe.  What the analysis of a
\* call found stays in its row, in whatever order and however often call_ended
\* and call_analyzed arrive.
AnalysisKept ==
  [][\A c \in Call :
       table[c].status = "analyzed" /\ call'[c].phase # "free" => table'[c] = table[c]]_followVars

\* A call that did not end in a confirmation leaves somebody something to do,
\* also when its webhooks come twice or out of order.
TodoTold ==
  \A c \in Call :
    /\ table[c].status = "analyzed" /\ call[c].handling = "none" /\ ~call[c].lost
    => callTodos[c] > 0 \/ table[c].answer = "yes" \/ call[c].cancelled

\* Comment: a customer who never engages on any channel is not messaged
\* forever.  Contacts about a job come to an end.
ChaseEnds == <>[](\A r \in Recipient : slot[r] = NoRow)
=============================================================================
