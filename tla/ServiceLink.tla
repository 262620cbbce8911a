---------------------------- MODULE ServiceLink ----------------------------
(***************************************************************************)
(* Mailing the customer the ServiceTrade page of the job during or after a *)
(* conversation (routes/retell-tools.js, confirmation-agent/tools,         *)
(* servicetrade-service-link.js, db/service-link-messages.js).             *)
(*                                                                         *)
(* Two things are needed, a confirmed visit and somebody to write to; the  *)
(* tool that brings the second one sends.  Tools of a chat overlap when    *)
(* its turns do, and those of a call overlap the webhook that follows it.  *)
(* A tool refuses an address the customer has not confirmed, so a handler  *)
(* begins with a confirmed one.  Tools that only mint the URL, and the     *)
(* text message sent along, change nothing here.  Service links are on.    *)
(***************************************************************************)
EXTENDS Integers, Sequences, FiniteSets

CONSTANTS
  Address,
  Handler,       \* tool handlers and webhooks in flight
  MaxLinkEvents  \* bound: handlers started, visits moved and handlers that die

ASSUME LinkAssumption == MaxLinkEvents \in Nat /\ "none" \notin Address

VARIABLES
  heard,      \* some upcoming visit of the job is confirmed
  links,      \* service_link_messages of the conversation, oldest first
  mailed,     \* addresses ServiceTrade wrote to
  contacts,   \* contacts in ServiceTrade, by address
  task,       \* where a handler is
  linkTodo,   \* a SERVICE_LINK todo exists
  ended,      \* the webhook after the call has been handled
  blind,      \* a search for a contact failed, or missed one being created
  crossed,    \* a recipient was recorded while another handler was sending
  lostLink,   \* a handler died
  linkEvents

linkVars == <<heard, links, mailed, contacts, task, linkTodo, ended, blind, crossed,
              lostLink, linkEvents>>

NoTask == [at |-> "idle", to |-> "none", named |-> FALSE, id |-> 0, ok |-> FALSE]
Last == links[Len(links)]
HasRecipient == links # <<>> /\ Last.to # "none"
Sending(h) == task[h].at \in {"post", "mark"}

LinkInit ==
  /\ heard = FALSE /\ links = <<>> /\ mailed = {}
  /\ contacts = [a \in Address |-> 0]
  /\ task = [h \in Handler |-> NoTask]
  /\ linkTodo = FALSE /\ ended = FALSE
  /\ blind = FALSE /\ crossed = FALSE /\ lostLink = FALSE /\ linkEvents = 0

LinkEvent == linkEvents < MaxLinkEvents /\ linkEvents' = linkEvents + 1
GoTo(h, at) == task' = [task EXCEPT ![h].at = at]
Return(h) == task' = [task EXCEPT ![h] = NoTask]

-----------------------------------------------------------------------------
(* A handler starts.                                                       *)

StartLink(h, at, to, named) ==
  /\ task[h].at = "idle" /\ LinkEvent
  /\ task' = [task EXCEPT ![h] = [NoTask EXCEPT !.at = at, !.to = to, !.named = named]]
  /\ UNCHANGED <<heard, links, mailed, contacts, linkTodo, ended, blind, crossed, lostLink>>

\* confirm_appointment and confirm_job_appointments write the visit first.
ConfirmTool(h) == StartLink(h, "confirm", "none", FALSE)

\* resolve_service_link_contact, with or without a name to create one under.
ResolveTool(h) ==
  \E a \in Address, named \in BOOLEAN : StartLink(h, "search", a, named)

\* postCallServiceLink: the analysis of the call says confirmed.
PostCall(h) ==
  /\ ~ended /\ task[h].at = "idle" /\ LinkEvent
  /\ ended' = TRUE
  /\ GoTo(h, "send")
  /\ UNCHANGED <<heard, links, mailed, contacts, linkTodo, blind, crossed, lostLink>>

-----------------------------------------------------------------------------
(* Whom to write to.                                                       *)

\* What follows either write: try to send.
TryToSend_Later(h) == Return(h)     \* mutant: left to the webhook after the call
TryToSend(h) == GoTo(h, "gate")

LinkConfirm(h) ==
  /\ task[h].at = "confirm"
  /\ heard' = TRUE
  /\ TryToSend(h)
  /\ UNCHANGED <<links, mailed, contacts, linkTodo, ended, blind, crossed, lostLink,
                 linkEvents>>

\* searchContacts by e-mail always comes first; one that fails finds nobody.
\* Nobody found and no name given: the agent is told to ask for more.
Search_TrustsName(h) ==             \* mutant: a name given means a new contact
  /\ task[h].at = "search"
  /\ IF task[h].named THEN GoTo(h, "create") ELSE Return(h)
  /\ UNCHANGED <<heard, links, mailed, contacts, linkTodo, ended, blind, crossed,
                 lostLink, linkEvents>>
Search(h) ==
  /\ task[h].at = "search"
  /\ \E failed \in BOOLEAN :
       /\ blind' = (blind \/ failed)
       /\ IF contacts[task[h].to] > 0 /\ ~failed THEN GoTo(h, "lookup")
          ELSE IF task[h].named THEN GoTo(h, "create") ELSE Return(h)
  /\ UNCHANGED <<heard, links, mailed, contacts, linkTodo, ended, crossed, lostLink,
                 linkEvents>>

CreateContact(h) ==
  /\ task[h].at = "create"
  /\ \/ /\ contacts' = [contacts EXCEPT ![task[h].to] = @ + 1]
        /\ blind' = (blind \/ \E g \in Handler \ {h} :
                               task[g].at = "create" /\ task[g].to = task[h].to)
        /\ GoTo(h, "lookup")
     \/ Return(h) /\ UNCHANGED <<contacts, blind>>
  /\ UNCHANGED <<heard, links, mailed, linkTodo, ended, crossed, lostLink, linkEvents>>

\* setRecipient: the newest row of the conversation is looked up, and is
\* updated or, when there was none, inserted.  The send starts over.
Lookup(h) ==
  /\ task[h].at = "lookup"
  /\ task' = [task EXCEPT ![h].id = Len(links), ![h].at = "record"]
  /\ UNCHANGED <<heard, links, mailed, contacts, linkTodo, ended, blind, crossed,
                 lostLink, linkEvents>>

SetRecipient_KeepsStatus(old, a) ==    \* mutant: status not set back to pending
  [old EXCEPT !.to = a]
SetRecipient(old, a) == [old EXCEPT !.to = a, !.status = "pending"]

RecordRecipient(h) ==
  /\ task[h].at = "record"
  /\ links' = IF task[h].id = 0
                THEN Append(links, SetRecipient([to |-> "none", status |-> "pending"], task[h].to))
                ELSE [links EXCEPT ![task[h].id] = SetRecipient(@, task[h].to)]
  /\ crossed' = (crossed \/ \E g \in Handler \ {h} : task[g].at \in {"post", "mark"})
  /\ TryToSend(h)
  /\ UNCHANGED <<heard, mailed, contacts, linkTodo, ended, blind, lostLink, linkEvents>>

-----------------------------------------------------------------------------
(* maybeSendServiceLinkNow, sendRecordedServiceLink.                       *)

\* Both conditions are read from the tables, in this order.
CheckConfirmed(h) ==
  /\ task[h].at = "gate"
  /\ IF heard THEN GoTo(h, "row") ELSE Return(h)
  /\ UNCHANGED <<heard, links, mailed, contacts, linkTodo, ended, blind, crossed,
                 lostLink, linkEvents>>

CheckRecipient(h) ==
  /\ task[h].at = "row"
  /\ IF HasRecipient THEN GoTo(h, "send") ELSE Return(h)
  /\ UNCHANGED <<heard, links, mailed, contacts, linkTodo, ended, blind, crossed,
                 lostLink, linkEvents>>

RaiseLinkTodo_Never == UNCHANGED linkTodo     \* mutant: nobody is told
RaiseLinkTodo == linkTodo' = TRUE

\* The row is read again: sent already, or nobody to send to (skipped, with a
\* todo), or a send that goes to the row and the contact just read.
ReadLink(h) ==
  /\ task[h].at = "send"
  /\ \/ /\ HasRecipient /\ Last.status = "sent"
        /\ Return(h)
        /\ UNCHANGED <<links, linkTodo>>
     \/ /\ HasRecipient /\ Last.status # "sent"
        /\ task' = [task EXCEPT ![h].at = "post", ![h].to = Last.to,
                                ![h].id = Len(links)]
        /\ UNCHANGED <<links, linkTodo>>
     \/ /\ ~HasRecipient
        /\ links' = IF links = <<>> THEN <<[to |-> "none", status |-> "skipped"]>>
                    ELSE [links EXCEPT ![Len(links)].status = "skipped"]
        /\ RaiseLinkTodo
        /\ Return(h)
  /\ UNCHANGED <<heard, mailed, contacts, ended, blind, crossed, lostLink, linkEvents>>

\* POST /message, which ServiceTrade may refuse (or the job has no id there).
PostMessage(h) ==
  /\ task[h].at = "post"
  /\ \E ok \in BOOLEAN :
       /\ mailed' = IF ok THEN mailed \cup {task[h].to} ELSE mailed
       /\ task' = [task EXCEPT ![h].at = "mark", ![h].ok = ok]
  /\ UNCHANGED <<heard, links, contacts, linkTodo, ended, blind, crossed, lostLink,
                 linkEvents>>

\* markSent, or markFailed and a todo, by the id of the row.
MarkLink(h) ==
  /\ task[h].at = "mark"
  /\ links' = [links EXCEPT ![task[h].id].status = IF task[h].ok THEN "sent" ELSE "failed"]
  /\ IF task[h].ok THEN UNCHANGED linkTodo ELSE RaiseLinkTodo
  /\ Return(h)
  /\ UNCHANGED <<heard, mailed, contacts, ended, blind, crossed, lostLink, linkEvents>>

-----------------------------------------------------------------------------

\* The only confirmed visit is moved, cancelled or begins.
Unheard ==
  /\ heard /\ LinkEvent
  /\ heard' = FALSE
  /\ UNCHANGED <<links, mailed, contacts, task, linkTodo, ended, blind, crossed, lostLink>>

LinkDies(h) ==
  /\ task[h].at # "idle" /\ LinkEvent
  /\ Return(h)
  /\ lostLink' = TRUE
  /\ UNCHANGED <<heard, links, mailed, contacts, linkTodo, ended, blind, crossed>>

LinkNext ==
  \/ \E h \in Handler :
       \/ ConfirmTool(h) \/ ResolveTool(h) \/ PostCall(h)
       \/ LinkConfirm(h) \/ Search(h) \/ CreateContact(h) \/ Lookup(h)
       \/ RecordRecipient(h) \/ CheckConfirmed(h) \/ CheckRecipient(h)
       \/ ReadLink(h) \/ PostMessage(h) \/ MarkLink(h) \/ LinkDies(h)
  \/ Unheard

LinkSpec == LinkInit /\ [][LinkNext]_linkVars

-----------------------------------------------------------------------------
(* Properties.                                                             *)

\* Every variable has its type.
LinkTypeOK ==
  /\ heard \in BOOLEAN /\ linkTodo \in BOOLEAN /\ ended \in BOOLEAN
  /\ \A i \in DOMAIN links :
       /\ links[i].to \in Address \cup {"none"}
       /\ links[i].status \in {"pending", "sent", "failed", "skipped"}
  /\ mailed \subseteq Address
  /\ contacts \in [Address -> Nat]
  /\ \A h \in Handler : Sending(h) => task[h].id \in DOMAIN links
  /\ linkEvents \in 0..MaxLinkEvents

LinksQuiet == \A h \in Handler : task[h].at = "idle"

\* Comment: whichever of the two facts becomes true last triggers the send.
\* When no handler runs, a confirmed visit and a recorded recipient do not sit
\* beside a send that was never tried, in whatever order the tools were called.
LinkNotLost ==
  LinksQuiet /\ heard /\ HasRecipient /\ ~lostLink => Last.status # "pending"

\* An address given after the link was sent is a new send: a row marked sent
\* holds an address that was written to, unless the row was changed under a
\* send in flight.
CorrectedIsMailed ==
  HasRecipient /\ Last.status = "sent" /\ ~crossed => Last.to \in mailed

\* Comment: anything not sent is a status and a SERVICE_LINK todo.  After a
\* call that ended in a confirmation, the customer was written to or somebody
\* is told.
UnsentTold ==
  LinksQuiet /\ ended /\ ~lostLink => linkTodo \/ mailed # {}

\* Comment: it always searches by e-mail first, so a duplicate contact is
\* never created in whatever order the agent asks its questions.  It may be
\* when a search failed, or two tools created it at the same time.
ContactOnce ==
  \A a \in Address : contacts[a] > 1 => blind
=============================================================================
