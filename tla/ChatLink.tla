------------------------------- MODULE ChatLink -------------------------------
(***************************************************************************)
(* A confirmation chat: the customer opens a tokenised link, talks to the  *)
(* agent turn by turn, and the outcome is written as a comment on the job  *)
(* in the CRM, either when the agent closes the conversation               *)
(* (src/confirmation-agent/index.js, runGraph) or when the link's day is   *)
(* over (the sweep at the head of runDispatcher, and the administrator's   *)
(* catch-up).  An action is one statement, one checkpoint of the graph or  *)
(* one request to the CRM; requests on one token may overlap (two tabs).   *)
(*                                                                         *)
(* A turn is one GET or POST of the widget, and changes at most one visit, *)
(* which is named by the turn.  A history is a sequence of what was said:  *)
(* "in" the customer's message (or the trigger), "did" a round of tools    *)
(* that changed a visit, "said" an answer, "bye" a call of                 *)
(* end_conversation.                                                       *)
(***************************************************************************)
EXTENDS Integers, FiniteSets, Sequences

CONSTANTS
  Token,      \* chat_links rows; the token is also the thread id
  Turn,       \* requests of the widget, each used once
  Booking,    \* turns whose outcome, if any, is create_appointment
  Sweep,      \* processes that post comments for lapsed links
  CatchUp,    \* those of them that are the administrator's catch-up
  None,
  Faulty,     \* bound: workers to which something may happen
  MaxFaults   \* bound: deaths, failed statements and comments not accepted

ASSUME ChatAssumption == /\ IsFiniteSet(Token)
                         /\ IsFiniteSet(Turn)
                         /\ Booking \subseteq Turn
                         /\ CatchUp \subseteq Sweep
                         /\ Turn \cap Sweep = {}
                         /\ Faulty \subseteq Turn \cup Sweep
                         /\ None \notin Token
                         /\ MaxFaults \in Nat

VARIABLES
  status,   \* chat_links.status
  lapsed,   \* expires_at < NOW()
  stamped,  \* outcome_comment_posted_at is set
  thread,   \* the latest checkpoint of the thread
  changed,  \* the visits a conversation has changed in our own tables
  crm,      \* the comments on the job, by marker and content
  pc,       \* where a turn or a sweep is
  at,       \* the link it is working on
  mine,     \* the history a running turn holds
  since,    \* and the length of the one it found
  rep,      \* marker and lines of the comment about to be written
  todo,     \* rows a sweep has still to visit
  late,     \* history: outcomes saved after the link was closed, and how
  lost,     \* history: what else went wrong with a link
  faults

row  == <<status, lapsed, stamped>>
book == <<thread, changed>>
held == <<at, mine, since, rep>>
hist == <<late, lost, faults>>
vars == <<row, book, crm, pc, held, todo, hist>>

Worker == Turn \cup Sweep
Entry  == [kind : {"in", "did", "said", "bye"}, by : Turn]
NoRep  == [n |-> 0, acts |-> {}]

E(kind, p) == [kind |-> kind, by |-> p]
Has(h, kind) == \E i \in DOMAIN h : h[i].kind = kind

\* The visits whose change the history h records.
Acts(h) == {h[i].by : i \in {j \in DOMAIN h : h[j].kind = "did"}}

TurnPoint  == {"idle", "greeting", "thinking", "acted", "answering", "saved",
               "closing", "checking", "posting", "done"}
SweepPoint == {"idle", "visiting", "checking", "posting", "stamping"}

Live == {t \in Token : status[t] \in {"sent", "in_progress"}}

-----------------------------------------------------------------------------
Init == /\ status = [t \in Token |-> "sent"]
        /\ lapsed = [t \in Token |-> FALSE]
        /\ stamped = [t \in Token |-> FALSE]
        /\ thread = [t \in Token |-> <<>>]
        /\ changed = [t \in Token |-> {}]
        /\ crm = [t \in Token |-> {}]
        /\ pc = [w \in Worker |-> "idle"]
        /\ at = [w \in Worker |-> None]
        /\ mine = [p \in Turn |-> <<>>]
        /\ since = [p \in Turn |-> 0]
        /\ rep = [w \in Worker |-> NoRep]
        /\ todo = [s \in Sweep |-> {}]
        /\ late = [p \in Turn |-> "no"]
        /\ lost = [t \in Token |-> {}]
        /\ faults = 0

(* Twenty-four hours after the link was made.                               *)
Lapse(t) ==
  /\ ~lapsed[t]
  /\ lapsed' = [lapsed EXCEPT ![t] = TRUE]
  /\ UNCHANGED <<status, stamped, book, crm, pc, held, todo, hist>>

Fault(w) == w \in Faulty /\ faults < MaxFaults /\ faults' = faults + 1

Note(t, what) == lost' = [lost EXCEPT ![t] = @ \cup {what}]

-----------------------------------------------------------------------------
(* Turns.  getByToken hides a row whose day is over, and looks at nothing  *)
(* else: a closed conversation can be continued until then.                *)

Go(w, point) == pc' = [pc EXCEPT ![w] = point]

(* A turn takes up the latest checkpoint and writes its input to it.        *)
Begin(p, t) ==
  LET h == Append(thread[t], E("in", p))
  IN /\ at' = [at EXCEPT ![p] = t]
     /\ since' = [since EXCEPT ![p] = Len(thread[t])]
     /\ mine' = [mine EXCEPT ![p] = h]
     /\ thread' = [thread EXCEPT ![t] = h]
     /\ Go(p, "thinking")

\* A turn is over; what it held is forgotten.
Finish(p) == /\ Go(p, "done")
             /\ at' = [at EXCEPT ![p] = None]
             /\ mine' = [mine EXCEPT ![p] = <<>>]
             /\ since' = [since EXCEPT ![p] = 0]
             /\ rep' = [rep EXCEPT ![p] = NoRep]

(* GET: the first open moves the status on, and a thread without messages   *)
(* gets its opening turn.                                                   *)
Opened_Bad(t) == [status EXCEPT ![t] = IF @ = "sent" THEN "opened" ELSE @]  \* mutant: a status the column lacks
Opened(t) == [status EXCEPT ![t] = IF @ = "sent" THEN "in_progress" ELSE @]

Open(p, t) ==
  /\ pc[p] = "idle"
  /\ ~lapsed[t]
  /\ status' = Opened(t)
  /\ IF thread[t] # <<>>
     THEN UNCHANGED <<pc, at>>
     ELSE /\ Go(p, "greeting")
          /\ at' = [at EXCEPT ![p] = t]
  /\ UNCHANGED <<lapsed, stamped, book, crm, mine, since, rep, todo, hist>>

Greet(p) ==
  /\ pc[p] = "greeting"
  /\ Begin(p, at[p])
  /\ UNCHANGED <<row, changed, crm, rep, todo, hist>>

Send(p, t) ==
  /\ pc[p] = "idle"
  /\ ~lapsed[t]
  /\ Begin(p, t)
  /\ UNCHANGED <<row, changed, crm, rep, todo, hist>>

(* A tool changes the visit in our own tables first ...                     *)
Act(p) ==
  /\ pc[p] = "thinking"
  /\ changed' = [changed EXCEPT ![at[p]] = @ \cup {p}]
  /\ Go(p, "acted")
  /\ UNCHANGED <<row, thread, crm, held, todo, hist>>

(* Who has already read the conversation of t for the last time.            *)
ReadOff(p, t) ==
  \/ status[t] = "ended"
  \/ status[t] = "expired" /\ stamped[t]
  \/ \E w \in Worker \ {p} :
       /\ at[w] = t
       /\ pc[w] \in {"closing", "checking", "posting", "stamping"}

Lateness(p, t) == IF ReadOff(p, t) THEN "shut"
                  ELSE IF status[t] = "expired" THEN "swept" ELSE "no"

(* A checkpoint holds a whole history, so it replaces one written since.    *)
Write(p, h) ==
  LET t == at[p]
  IN /\ thread' = [thread EXCEPT ![t] = h]
     /\ mine' = [mine EXCEPT ![p] = h]
     /\ lost' = [lost EXCEPT ![t] = IF thread[t] = mine[p] THEN @ ELSE @ \cup {"forked"}]

(* The opening turn is not offered end_conversation.                        *)
CanEnd(p) == \E kind \in {"did", "said", "bye"} : Has(mine[p], kind)

\* What a message of turn p adds after entry e, if it ends the conversation.
Ending(p, e, ends) == IF ends THEN <<e, E("bye", p)>> ELSE <<e>>

(* ... and its result enters the history with the checkpoint of the tools.  *)
SaveTools(p, ends) ==
  /\ pc[p] = "acted"
  /\ ends => CanEnd(p)
  /\ Write(p, mine[p] \o Ending(p, E("did", p), ends))
  /\ late' = [late EXCEPT ![p] = Lateness(p, at[p])]
  /\ Go(p, IF ends THEN "saved" ELSE "answering")
  /\ UNCHANGED <<row, changed, crm, at, since, rep, todo, faults>>

(* The last message of a turn that changes nothing more.                    *)
Save(p, ends) ==
  /\ pc[p] \in {"thinking", "answering"}
  /\ ends => CanEnd(p)
  /\ Write(p, mine[p] \o Ending(p, E("said", p), ends))
  /\ Go(p, "saved")
  /\ UNCHANGED <<row, changed, crm, at, since, rep, todo, late, faults>>

(* The whole history is summarised, not the turn.                           *)
Told_Turn(h, n) == [n |-> Len(h), acts |-> Acts(SubSeq(h, n + 1, Len(h)))]  \* mutant: the turn is
Told(h, n) == [n |-> Len(h), acts |-> Acts(h)]

(* endedNow: a message beyond those the turn found calls end_conversation.  *)
ReadBack(p) ==
  LET h == thread[at[p]]
  IN /\ pc[p] = "saved"
     /\ IF Has(SubSeq(h, since[p] + 1, Len(h)), "bye")
        THEN /\ rep' = [rep EXCEPT ![p] = Told(h, since[p])]
             /\ mine' = [mine EXCEPT ![p] = <<>>]
             /\ since' = [since EXCEPT ![p] = 0]
             /\ Go(p, "closing")
             /\ UNCHANGED at
        ELSE Finish(p)
     /\ UNCHANGED <<row, book, crm, todo, hist>>

\* On from the ended mark to the comment, if there is anything to report.
ToComment(p) == IF rep[p].acts = {}
                THEN Finish(p)
                ELSE Go(p, "checking") /\ UNCHANGED held

MarkEnded(p) ==
  /\ pc[p] = "closing"
  /\ status' = [status EXCEPT ![at[p]] = "ended"]
  /\ ToComment(p)
  /\ UNCHANGED <<lapsed, stamped, book, crm, todo, hist>>

(* A failed ended mark is logged, and the comment is written all the same.  *)
MarkFails(p) ==
  /\ pc[p] = "closing"
  /\ Fault(p)
  /\ ToComment(p)
  /\ UNCHANGED <<row, book, crm, todo, late, lost>>

TurnDies(p) ==
  /\ pc[p] \notin {"idle", "done"}
  /\ Fault(p)
  /\ IF pc[p] \in {"acted", "checking", "posting"}
     THEN Note(at[p], "turn")
     ELSE UNCHANGED lost
  /\ Finish(p)
  /\ UNCHANGED <<row, book, crm, todo, late>>

-----------------------------------------------------------------------------
(* The sweep.                                                              *)

\* The rows expireStale turns over.
Stale_All == {t \in Token : lapsed[t] /\ status[t] # "expired"}  \* mutant: ended ones too
Stale_Sent == {t \in Live : lapsed[t] /\ status[t] = "sent"}      \* mutant: unopened ones only
Stale == {t \in Live : lapsed[t]}

Expire(s) ==
  /\ s \notin CatchUp
  /\ pc[s] = "idle"
  /\ Stale # {}
  /\ status' = [t \in Token |-> IF t \in Stale THEN "expired" ELSE status[t]]
  /\ todo' = [todo EXCEPT ![s] = Stale]
  /\ Go(s, "visiting")
  /\ UNCHANGED <<lapsed, stamped, book, crm, held, hist>>

\* The rows listExpiredAwaitingOutcomeComment returns.
Awaiting == {t \in Token : status[t] = "expired" /\ ~stamped[t]}

List(s) ==
  /\ s \in CatchUp
  /\ pc[s] = "idle"
  /\ Awaiting # {}
  /\ todo' = [todo EXCEPT ![s] = Awaiting]
  /\ Go(s, "visiting")
  /\ UNCHANGED <<row, book, crm, held, hist>>

\* A sweep is done with row t.
NextRow(s, t) == /\ todo' = [todo EXCEPT ![s] = @ \ {t}]
                 /\ Go(s, IF todo[s] = {t} THEN "idle" ELSE "visiting")
                 /\ at' = [at EXCEPT ![s] = None]
                 /\ rep' = [rep EXCEPT ![s] = NoRep]
                 /\ UNCHANGED <<mine, since>>

(* A booking is no outcome of a lapsed chat, by decision.                   *)
Lines(t) == Acts(thread[t]) \ Booking

Visit(s, t) ==
  /\ pc[s] = "visiting"
  /\ t \in todo[s]
  /\ IF Lines(t) = {}
     THEN NextRow(s, t)
     ELSE /\ rep' = [rep EXCEPT ![s] = [n |-> Len(thread[t]), acts |-> Lines(t)]]
          /\ at' = [at EXCEPT ![s] = t]
          /\ Go(s, "checking")
          /\ UNCHANGED <<mine, since, todo>>
  /\ UNCHANGED <<row, book, crm, hist>>

(* Whatever became of the comment.                                          *)
Stamp(s) ==
  /\ pc[s] = "stamping"
  /\ stamped' = [stamped EXCEPT ![at[s]] = TRUE]
  /\ NextRow(s, at[s])
  /\ UNCHANGED <<status, lapsed, book, crm, hist>>

(* A row that fails, before its comment or at its stamp, is passed over.    *)
RowFails(s, t) ==
  /\ \/ pc[s] = "visiting" /\ t \in todo[s]
     \/ pc[s] \in {"checking", "stamping"} /\ t = at[s]
  /\ Fault(s)
  /\ Note(t, "sweep")
  /\ NextRow(s, t)
  /\ UNCHANGED <<row, book, crm, late>>

SweepDies(s) ==
  /\ pc[s] # "idle"
  /\ Fault(s)
  /\ lost' = [t \in Token |-> IF t \in todo[s] THEN lost[t] \cup {"sweep"} ELSE lost[t]]
  /\ todo' = [todo EXCEPT ![s] = {}]
  /\ Go(s, "idle")
  /\ at' = [at EXCEPT ![s] = None]
  /\ rep' = [rep EXCEPT ![s] = NoRep]
  /\ UNCHANGED <<row, book, crm, mine, since, late>>

-----------------------------------------------------------------------------
(* postConfirmationAgentComment, for both kinds of worker.                  *)

Reported(t) == UNION {c.acts : c \in crm[t]}

Marked(t, n) == \E c \in crm[t] : c.n = n

\* The comment step is over, with or without a comment.
Leave(w) == IF w \in Turn THEN Finish(w)
                          ELSE /\ Go(w, "stamping")
                               /\ rep' = [rep EXCEPT ![w] = NoRep]
                               /\ UNCHANGED <<at, mine, since>>

(* A comment with this marker is taken to say the same thing.               *)
Skip(w) ==
  /\ pc[w] = "checking"
  /\ Marked(at[w], rep[w].n)
  /\ IF rep[w].acts \subseteq Reported(at[w])
     THEN UNCHANGED lost
     ELSE Note(at[w], "masked")
  /\ Leave(w)
  /\ UNCHANGED <<row, book, crm, todo, late, faults>>

Check(w) ==
  /\ pc[w] = "checking"
  /\ ~Marked(at[w], rep[w].n)
  /\ Go(w, "posting")
  /\ UNCHANGED <<row, book, crm, held, todo, hist>>

(* Comments that cannot be read do not block a comment.                     *)
CheckFails(w) ==
  /\ pc[w] = "checking"
  /\ Marked(at[w], rep[w].n)
  /\ Fault(w)
  /\ Go(w, "posting")
  /\ UNCHANGED <<row, book, crm, held, todo, late, lost>>

Post(w) ==
  /\ pc[w] = "posting"
  /\ crm' = [crm EXCEPT ![at[w]] = @ \cup {rep[w]}]
  /\ Leave(w)
  /\ UNCHANGED <<row, book, todo, hist>>

(* The company has write-back off, or the CRM declines or cannot be         *)
(* reached: logged, and not reported to the caller.                         *)
PostFails(w) ==
  /\ pc[w] \in {"checking", "posting"}
  /\ Fault(w)
  /\ Note(at[w], "refused")
  /\ Leave(w)
  /\ UNCHANGED <<row, book, crm, todo, late>>

-----------------------------------------------------------------------------
TurnStep(p) == \/ Greet(p) \/ Act(p)
               \/ \E ends \in BOOLEAN : SaveTools(p, ends) \/ Save(p, ends)
               \/ ReadBack(p) \/ MarkEnded(p)

SweepStep(s) == \/ Expire(s) \/ Stamp(s)
                \/ \E t \in Token : Visit(s, t)

CommentStep(w) == Skip(w) \/ Check(w) \/ Post(w)

Next == \/ \E t \in Token : Lapse(t)
        \/ \E p \in Turn : \/ TurnStep(p) \/ MarkFails(p) \/ TurnDies(p)
                           \/ \E t \in Token : Open(p, t) \/ Send(p, t)
        \/ \E s \in Sweep : \/ SweepStep(s) \/ List(s) \/ SweepDies(s)
                            \/ \E t \in Token : RowFails(s, t)
        \/ \E w \in Worker : CommentStep(w) \/ CheckFails(w) \/ PostFails(w)

Spec == Init /\ [][Next]_vars

-----------------------------------------------------------------------------
(* Every variable holds a value of its kind; a worker has a link exactly    *)
(* while it works on one.                                                   *)
TypeOK ==
  /\ status \in [Token -> {"sent", "in_progress", "ended", "expired"}]
  /\ lapsed \in [Token -> BOOLEAN]
  /\ stamped \in [Token -> BOOLEAN]
  /\ thread \in [Token -> Seq(Entry)]
  /\ changed \in [Token -> SUBSET Turn]
  /\ crm \in [Token -> SUBSET [n : Nat, acts : SUBSET Turn]]
  /\ pc \in [Worker -> TurnPoint \cup SweepPoint]
  /\ \A p \in Turn : pc[p] \in TurnPoint
  /\ \A s \in Sweep : pc[s] \in SweepPoint
  /\ at \in [Worker -> Token \cup {None}]
  /\ \A w \in Worker : at[w] = None <=> pc[w] \in {"idle", "done", "visiting"}
  /\ mine \in [Turn -> Seq(Entry)]
  /\ since \in [Turn -> Nat]
  /\ rep \in [Worker -> [n : Nat, acts : SUBSET Turn]]
  /\ todo \in [Sweep -> SUBSET Token]
  /\ late \in [Turn -> {"no", "swept", "shut"}]
  /\ lost \in [Token -> SUBSET {"forked", "refused", "masked", "turn", "sweep"}]
  /\ faults \in 0 .. MaxFaults

\* A worker that will write outcome a of link t, or still has to read it.
InHand(t, a) ==
  \/ \E w \in Worker : /\ at[w] = t
                       /\ pc[w] \in {"closing", "checking", "posting"}
                       /\ a \in rep[w].acts
  \/ \E s \in Sweep : t \in todo[s] /\ at[s] # t

\* Bookings of a lapsed chat are left out on purpose.
LeftOut(t, a) == a \in Booking /\ status[t] = "expired"

(* OutcomeKept: a visit the customer changed is never out of everyone's     *)
(* hands.  Its outcome is in a comment, or a worker holds it, or it is in   *)
(* the history of a link that the sweep will still turn over or the         *)
(* catch-up will still list.  The exceptions are an outcome that arrived    *)
(* after the conversation was read for the last time, two requests that     *)
(* overwrote each other's history, a comment the CRM did not take, one      *)
(* whose marker stood already under a comment that said less, and a request *)
(* that died between the change and its checkpoint or between the ended     *)
(* mark and its comment (runGraph, expireStale, postExpiredOutcomeComment). *)
OutcomeKept ==
  \A t \in Token : \A a \in changed[t] :
    \/ a \in Reported(t)
    \/ pc[a] = "acted"
    \/ InHand(t, a)
    \/ a \in Acts(thread[t]) /\ t \in Live \cup Awaiting
    \/ LeftOut(t, a)
    \/ late[a] = "shut"
    \/ lost[t] \cap {"forked", "refused", "masked", "turn"} # {}

(* EndedStays: what the conversation reached is final.  Neither a customer  *)
(* who opens the link again nor a sweep whose rows were stale takes a link  *)
(* out of 'ended', and an expired one can only be ended by its own late     *)
(* turn (markOpened, markEnded, expireStale).                               *)
EndedStays == [][\A t \in Token :
                   /\ status[t] = "ended" => status'[t] = "ended"
                   /\ status[t] = "expired" => status'[t] \in {"expired", "ended"}]_vars

(* QuietMeansReported: when every link has lapsed and been turned over, and *)
(* no request or sweep is under way, each visit a customer changed is       *)
(* reported, also if the administrator never helped, unless its outcome     *)
(* came after the link was turned over or one of the listed things went     *)
(* wrong (the sweep of runDispatcher is there so that a customer who        *)
(* confirms and walks away is not lost).                                    *)
Quiet == /\ \A t \in Token : lapsed[t]
         /\ Stale = {}
         /\ \A p \in Turn : pc[p] \in {"idle", "done"}
         /\ \A s \in Sweep : pc[s] = "idle"

QuietMeansReported ==
  Quiet => \A t \in Token : \A a \in changed[t] :
             a \in Reported(t) \/ LeftOut(t, a) \/ late[a] # "no" \/ lost[t] # {}
=============================================================================
