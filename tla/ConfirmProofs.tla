---------------------------- MODULE ConfirmProofs ----------------------------
(***************************************************************************)
(* Theorems about ServiceLink for every set of addresses and handlers,     *)
(* about FollowUp for every set of recipients and calls, about Visits for  *)
(* every set of visits, times and actors, and about the three side by side.*)
(***************************************************************************)
EXTENDS MCConfirm, SequenceTheorems, WellFoundedInduction, TLAPS

-----------------------------------------------------------------------------
(* ServiceLink: types.                                                     *)

LinkRecord == [to : Address \cup {"none"}, status : {"pending", "sent", "failed", "skipped"}]
TaskType == [at : {"idle", "confirm", "search", "create", "lookup", "record", "gate", "row",
                   "send", "post", "mark"},
             to : Address \cup {"none"}, named : BOOLEAN, id : Nat, ok : BOOLEAN]

\* A handler that works for an address has one, and one that writes to a row by
\* its number writes to a row that is there.
Grounded(h) ==
  /\ task[h].at \in {"search", "create", "lookup", "record", "post", "mark"} =>
       task[h].to \in Address
  /\ task[h].at = "record" => task[h].id \in 0 .. Len(links)
  /\ task[h].at \in {"post", "mark"} => task[h].id \in 1 .. Len(links)

LinkTypes ==
  /\ links \in Seq(LinkRecord)
  /\ mailed \subseteq Address
  /\ contacts \in [Address -> Nat]
  /\ task \in [Handler -> TaskType]
  /\ linkEvents \in 0 .. MaxLinkEvents
  /\ \A h \in Handler : Grounded(h)

\* The table keeps its rows, but for one that is written or added.
LEMMA RowChanged ==
  ASSUME NEW s \in Seq(LinkRecord), NEW i \in 1 .. Len(s), NEW row \in LinkRecord
  PROVE  /\ [s EXCEPT ![i] = row] \in Seq(LinkRecord)
         /\ Len([s EXCEPT ![i] = row]) = Len(s)
         /\ \A j \in 1 .. Len(s) : [s EXCEPT ![i] = row][j] = IF j = i THEN row ELSE s[j]
BY ExceptSeq

LEMMA RowAdded ==
  ASSUME NEW s \in Seq(LinkRecord), NEW row \in LinkRecord
  PROVE  /\ Append(s, row) \in Seq(LinkRecord)
         /\ Len(Append(s, row)) = Len(s) + 1
         /\ \A j \in 1 .. Len(s) : Append(s, row)[j] = s[j]
         /\ Append(s, row)[Len(s) + 1] = row
BY AppendProperties

\* What one step may do to the table: nothing, a write of one row by its number, or
\* a new row at the end.
Written(i, row) ==
  /\ links' \in Seq(LinkRecord) /\ Len(links') = Len(links)
  /\ \A j \in 1 .. Len(links) : links'[j] = IF j = i THEN row ELSE links[j]
Added(row) ==
  /\ links' \in Seq(LinkRecord) /\ Len(links') = Len(links) + 1
  /\ \A j \in 1 .. Len(links) : links'[j] = links[j]
  /\ links'[Len(links) + 1] = row

\* setRecipient leaves a pending row with the address.
LEMMA RecordRow ==
  ASSUME LinkTypes, NEW h \in Handler, RecordRecipient(h)
  PROVE  \E row \in LinkRecord :
           /\ row.to = task[h].to /\ row.status = "pending"
           /\ \/ task[h].id = 0 /\ Added(row)
              \/ task[h].id \in 1 .. Len(links) /\ Written(task[h].id, row)
<1> DEFINE old == IF task[h].id = 0 THEN [to |-> "none", status |-> "pending"]
                  ELSE links[task[h].id]
           row == SetRecipient(old, task[h].to)
<1>1. /\ task[h].id \in 0 .. Len(links) /\ task[h].to \in Address /\ Len(links) \in Nat
      /\ links \in Seq(LinkRecord)
  BY DEF LinkTypes, Grounded, RecordRecipient
<1>2. old \in LinkRecord
  <2>1. [to |-> "none", status |-> "pending"] \in LinkRecord BY DEF LinkRecord
  <2>2. task[h].id # 0 => links[task[h].id] \in LinkRecord BY <1>1, ElementOfSeq
  <2> QED BY <2>1, <2>2
<1>3. row \in LinkRecord /\ row.to = task[h].to /\ row.status = "pending"
  BY <1>1, <1>2 DEF LinkRecord, SetRecipient
<1>4. links' = IF task[h].id = 0 THEN Append(links, row) ELSE [links EXCEPT ![task[h].id] = row]
  BY DEF RecordRecipient
<1> HIDE DEF row
<1>5. CASE task[h].id = 0 BY <1>1, <1>3, <1>4, <1>5, RowAdded DEF Added
<1>6. CASE task[h].id # 0
  <2>1. task[h].id \in 1 .. Len(links) BY <1>1, <1>6
  <2> QED BY <1>1, <1>3, <1>4, <1>6, <2>1, RowChanged DEF Written
<1> QED BY <1>5, <1>6

\* markSent and markFailed leave the address alone.
LEMMA MarkRow ==
  ASSUME LinkTypes, NEW h \in Handler, MarkLink(h)
  PROVE  \E row \in LinkRecord :
           /\ row.to = links[task[h].id].to
           /\ row.status = IF task[h].ok THEN "sent" ELSE "failed"
           /\ task[h].id \in 1 .. Len(links) /\ Written(task[h].id, row)
<1>1. task[h].id \in 1 .. Len(links) /\ links \in Seq(LinkRecord)
  BY DEF LinkTypes, Grounded, MarkLink
<1>2. links[task[h].id] \in LinkRecord BY <1>1, ElementOfSeq
<1> DEFINE row == [links[task[h].id] EXCEPT !.status = IF task[h].ok THEN "sent" ELSE "failed"]
<1>3. /\ row \in LinkRecord /\ row.to = links[task[h].id].to
      /\ row.status = IF task[h].ok THEN "sent" ELSE "failed"
  BY <1>2 DEF LinkRecord
<1>4. links' = [links EXCEPT ![task[h].id] = row] BY DEF MarkLink
<1> HIDE DEF row
<1> QED BY <1>1, <1>3, <1>4, RowChanged DEF Written

\* Nobody to send to: the newest row is skipped, and there is one.
LEMMA SkipRow ==
  ASSUME LinkTypes, NEW h \in Handler, ReadLink(h), ~HasRecipient
  PROVE  \E row \in LinkRecord :
           /\ row.to = "none" /\ row.status = "skipped"
           /\ \/ links = <<>> /\ Added(row)
              \/ Len(links) \in 1 .. Len(links) /\ Written(Len(links), row)
<1> DEFINE row == IF links = <<>> THEN [to |-> "none", status |-> "skipped"]
                  ELSE [links[Len(links)] EXCEPT !.status = "skipped"]
<1>1. links \in Seq(LinkRecord) BY DEF LinkTypes
<1>2. CASE links = <<>>
  <2>1. row \in LinkRecord /\ row.to = "none" /\ row.status = "skipped"
    BY <1>2 DEF LinkRecord
  <2>2. links' = <<row>> BY <1>2 DEF ReadLink
  <2>3. links' = Append(links, row) BY <1>2, <2>2
  <2> HIDE DEF row
  <2> QED BY <1>1, <1>2, <2>1, <2>3, RowAdded DEF Added
<1>3. CASE links # <<>>
  <2>1. Len(links) \in 1 .. Len(links) BY <1>1, <1>3, EmptySeq
  <2>2. links[Len(links)] \in LinkRecord BY <1>1, <2>1, ElementOfSeq
  <2>3. links[Len(links)].to = "none" BY <1>3 DEF HasRecipient, Last
  <2>4. row \in LinkRecord /\ row.to = "none" /\ row.status = "skipped"
    BY <1>3, <2>2, <2>3 DEF LinkRecord
  <2>5. links' = [links EXCEPT ![Len(links)] = row] BY <1>3 DEF ReadLink
  <2> HIDE DEF row
  <2> QED BY <1>1, <2>1, <2>4, <2>5, RowChanged DEF Written
<1> QED BY <1>2, <1>3

LEMMA LinkTypesStart == LinkInit => LinkTypes
<1> SUFFICES ASSUME LinkInit PROVE LinkTypes OBVIOUS
<1>1. NoTask \in TaskType BY DEF NoTask, TaskType
<1>2. links \in Seq(LinkRecord) BY DEF LinkInit
<1> QED BY <1>1, <1>2, LinkAssumption DEF LinkInit, LinkTypes, Grounded, NoTask

TableGrows == \/ links' = links
              \/ links' \in Seq(LinkRecord) /\ Len(links') >= Len(links)

\* One handler moves on; the table may grow.
LEMMA HandlerMoves ==
  ASSUME LinkTypes, NEW h \in Handler, NEW new \in TaskType, task' = [task EXCEPT ![h] = new],
         TableGrows, Grounded(h)',
         mailed' \subseteq Address, contacts' \in [Address -> Nat],
         linkEvents' \in 0 .. MaxLinkEvents
  PROVE  LinkTypes'
<1>1. task' \in [Handler -> TaskType] BY DEF LinkTypes
<1>2. /\ links' \in Seq(LinkRecord) /\ Len(links) \in Nat /\ Len(links') \in Nat
      /\ Len(links') >= Len(links)
  BY DEF LinkTypes, TableGrows
<1>3. ASSUME NEW g \in Handler, g # h PROVE Grounded(g)'
  <2>1. task'[g] = task[g] BY <1>3 DEF LinkTypes
  <2>2. Grounded(g) BY DEF LinkTypes
  <2>3. task[g].id \in Nat BY DEF LinkTypes, TaskType
  <2> QED BY <1>2, <2>1, <2>2, <2>3 DEF Grounded
<1> QED BY <1>1, <1>2, <1>3 DEF LinkTypes

LEMMA LinkTypesStep == LinkTypes /\ [LinkNext]_linkVars => LinkTypes'
<1> SUFFICES ASSUME LinkTypes, [LinkNext]_linkVars PROVE LinkTypes' OBVIOUS
<1> USE LinkAssumption
<1>0. /\ links \in Seq(LinkRecord) /\ Len(links) \in Nat /\ task \in [Handler -> TaskType]
      /\ mailed \subseteq Address /\ contacts \in [Address -> Nat]
      /\ linkEvents \in 0 .. MaxLinkEvents
  BY DEF LinkTypes
<1>1. ASSUME LinkEvent PROVE linkEvents' \in 0 .. MaxLinkEvents
  BY <1>0, <1>1 DEF LinkEvent
<1>2. ASSUME NEW h \in Handler PROVE task[h] \in TaskType /\ Grounded(h)
  BY DEF LinkTypes
<1>2a. ASSUME UNCHANGED links PROVE TableGrows BY <1>2a DEF TableGrows
<1>3. NoTask \in TaskType BY DEF NoTask, TaskType
<1>4. ASSUME NEW h \in Handler, ConfirmTool(h) \/ ResolveTool(h) PROVE LinkTypes'
  <2>1. PICK at \in {"confirm", "search"}, to \in Address \cup {"none"}, named \in BOOLEAN :
          /\ at = "search" => to \in Address
          /\ StartLink(h, at, to, named)
    BY <1>4 DEF ConfirmTool, ResolveTool
  <2> DEFINE new == [NoTask EXCEPT !.at = at, !.to = to, !.named = named]
  <2>2. new \in TaskType BY DEF NoTask, TaskType
  <2>3. task' = [task EXCEPT ![h] = new] /\ LinkEvent BY <2>1 DEF StartLink
  <2>4. task'[h] = new BY <1>0, <2>3
  <2>5. Grounded(h)' BY <2>1, <2>4 DEF Grounded, NoTask
  <2> HIDE DEF new
  <2> QED BY <1>0, <1>1, <2>1, <2>2, <2>3, <2>5, <1>2a, HandlerMoves DEF StartLink
<1>5. ASSUME NEW h \in Handler, PostCall(h) PROVE LinkTypes'
  <2> DEFINE new == [task[h] EXCEPT !.at = "send"]
  <2>1. new \in TaskType BY <1>2 DEF TaskType
  <2>2. task' = [task EXCEPT ![h] = new] BY <1>5 DEF PostCall, GoTo
  <2>3. task'[h].at = "send" BY <1>0, <1>2, <2>2 DEF TaskType
  <2>4. Grounded(h)' BY <2>3 DEF Grounded
  <2> HIDE DEF new
  <2> QED BY <1>0, <1>1, <1>5, <2>1, <2>2, <2>4, <1>2a, HandlerMoves DEF PostCall
<1>6. ASSUME NEW h \in Handler, LinkDies(h) \/ MarkLink(h) PROVE LinkTypes'
  <2>1. task' = [task EXCEPT ![h] = NoTask] BY <1>6 DEF LinkDies, MarkLink, Return
  <2>2. Grounded(h)' BY <1>0, <2>1 DEF Grounded, NoTask
  <2>3. TableGrows BY <1>0, <1>6, MarkRow DEF LinkDies, Written, TableGrows
  <2> QED BY <1>0, <1>1, <1>3, <1>6, <2>1, <2>2, <2>3, HandlerMoves
      DEF LinkDies, MarkLink, RaiseLinkTodo
<1>7. ASSUME NEW h \in Handler, LinkConfirm(h) PROVE LinkTypes'
  <2> DEFINE new == [task[h] EXCEPT !.at = "gate"]
  <2>1. new \in TaskType BY <1>2 DEF TaskType
  <2>2. task' = [task EXCEPT ![h] = new] BY <1>7 DEF LinkConfirm, TryToSend, GoTo
  <2>3. task'[h].at = "gate" BY <1>0, <1>2, <2>2 DEF TaskType
  <2>4. Grounded(h)' BY <2>3 DEF Grounded
  <2> HIDE DEF new
  <2> QED BY <1>0, <1>7, <2>1, <2>2, <2>4, <1>2a, HandlerMoves DEF LinkConfirm
<1>8. ASSUME NEW h \in Handler, Search(h) \/ CreateContact(h) PROVE LinkTypes'
  <2>1. task[h].to \in Address BY <1>2, <1>8 DEF Grounded, Search, CreateContact
  <2>2. /\ contacts' \in [Address -> Nat]
        /\ UNCHANGED <<heard, links, mailed, linkTodo, ended, crossed, lostLink, linkEvents>>
    BY <1>0, <1>8, <2>1 DEF Search, CreateContact
  <2>3. CASE Return(h)
    <3>1. task' = [task EXCEPT ![h] = NoTask] BY <2>3 DEF Return
    <3>2. Grounded(h)' BY <1>0, <3>1 DEF Grounded, NoTask
    <3> QED BY <1>0, <1>3, <2>2, <3>1, <3>2, <1>2a, HandlerMoves
  <2>4. ASSUME NEW at \in {"create", "lookup"}, GoTo(h, at) PROVE LinkTypes'
    <3> DEFINE new == [task[h] EXCEPT !.at = at]
    <3>1. new \in TaskType BY <1>2 DEF TaskType
    <3>2. task' = [task EXCEPT ![h] = new] BY <2>4 DEF GoTo
    <3>3. task'[h].at = at /\ task'[h].to = task[h].to BY <1>0, <1>2, <3>2 DEF TaskType
    <3>4. Grounded(h)' BY <2>1, <3>3 DEF Grounded
    <3> HIDE DEF new
    <3> QED BY <1>0, <2>2, <3>1, <3>2, <3>4, <1>2a, HandlerMoves
  <2> QED BY <1>8, <2>3, <2>4 DEF Search, CreateContact
<1>9. ASSUME NEW h \in Handler, Lookup(h) PROVE LinkTypes'
  <2> DEFINE new == [task[h] EXCEPT !.id = Len(links), !.at = "record"]
  <2>1. new \in TaskType BY <1>0, <1>2 DEF TaskType
  <2>2. task' = [task EXCEPT ![h] = new] BY <1>9 DEF Lookup
  <2>3. task'[h].at = "record" /\ task'[h].to = task[h].to /\ task'[h].id = Len(links)
    BY <1>0, <1>2, <2>2 DEF TaskType
  <2>4. Grounded(h)' BY <1>0, <1>2, <1>9, <2>3 DEF Grounded, Lookup
  <2> HIDE DEF new
  <2> QED BY <1>0, <1>9, <2>1, <2>2, <2>4, <1>2a, HandlerMoves DEF Lookup
<1>10. ASSUME NEW h \in Handler, RecordRecipient(h) PROVE LinkTypes'
  <2> DEFINE new == [task[h] EXCEPT !.at = "gate"]
  <2>1. new \in TaskType BY <1>2 DEF TaskType
  <2>2. task' = [task EXCEPT ![h] = new] BY <1>10 DEF RecordRecipient, TryToSend, GoTo
  <2>3. task'[h].at = "gate" BY <1>0, <1>2, <2>2 DEF TaskType
  <2>4. Grounded(h)' BY <2>3 DEF Grounded
  <2>5. TableGrows BY <1>0, <1>10, RecordRow DEF Written, Added, TableGrows
  <2> HIDE DEF new
  <2> QED BY <1>0, <1>10, <2>1, <2>2, <2>4, <2>5, HandlerMoves DEF RecordRecipient
<1>11. ASSUME NEW h \in Handler, CheckConfirmed(h) \/ CheckRecipient(h) PROVE LinkTypes'
  <2>1. PICK new \in TaskType : /\ task' = [task EXCEPT ![h] = new]
                                /\ new.at \in {"idle", "row", "send"}
    <3>1. CASE Return(h) BY <1>3, <3>1 DEF Return, NoTask
    <3>2. ASSUME NEW at \in {"row", "send"}, GoTo(h, at)
          PROVE  \E new \in TaskType : /\ task' = [task EXCEPT ![h] = new]
                                        /\ new.at \in {"idle", "row", "send"}
      <4>1. [task[h] EXCEPT !.at = at] \in TaskType BY <1>2 DEF TaskType
      <4>2. [task[h] EXCEPT !.at = at].at = at BY <1>2 DEF TaskType
      <4> QED BY <3>2, <4>1, <4>2 DEF GoTo
    <3> QED BY <1>11, <3>1, <3>2 DEF CheckConfirmed, CheckRecipient
  <2>2. Grounded(h)' BY <1>0, <2>1 DEF Grounded
  <2> QED BY <1>0, <1>11, <2>1, <2>2, <1>2a, HandlerMoves DEF CheckConfirmed, CheckRecipient
<1>12. ASSUME NEW h \in Handler, ReadLink(h) PROVE LinkTypes'
  <2>1. CASE Return(h)
    <3>1. task' = [task EXCEPT ![h] = NoTask] BY <2>1 DEF Return
    <3>2. Grounded(h)' BY <1>0, <3>1 DEF Grounded, NoTask
    <3>3. TableGrows
      <4>1. CASE HasRecipient BY <1>2a, <1>12, <4>1 DEF ReadLink
      <4>2. CASE ~HasRecipient BY <1>0, <1>12, <4>2, SkipRow DEF Written, Added, TableGrows
      <4> QED BY <4>1, <4>2
    <3> QED BY <1>0, <1>3, <1>12, <3>1, <3>2, <3>3, HandlerMoves DEF ReadLink, RaiseLinkTodo
  <2>2. CASE HasRecipient /\ ~Return(h)
    <3> DEFINE new == [task[h] EXCEPT !.at = "post", !.to = Last.to, !.id = Len(links)]
    <3>1. task' = [task EXCEPT ![h] = new] /\ UNCHANGED <<links, linkTodo>>
      BY <1>12, <2>2 DEF ReadLink
    <3>2. Len(links) \in 1 .. Len(links) BY <1>0, <2>2, EmptySeq DEF HasRecipient
    <3>3. Last \in LinkRecord BY <1>0, <3>2, ElementOfSeq DEF Last
    <3>4. Last.to \in Address BY <2>2, <3>3 DEF LinkRecord, HasRecipient
    <3>5. new \in TaskType BY <1>0, <1>2, <3>4 DEF TaskType
    <3>6. task'[h].at = "post" /\ task'[h].to = Last.to /\ task'[h].id = Len(links)
      BY <1>0, <1>2, <3>1 DEF TaskType
    <3>7. Grounded(h)' BY <3>1, <3>2, <3>4, <3>6 DEF Grounded
    <3> HIDE DEF new
    <3> QED BY <1>0, <1>12, <3>1, <3>5, <3>7, <1>2a, HandlerMoves DEF ReadLink
  <2> QED BY <1>12, <2>1, <2>2 DEF ReadLink
<1>13. ASSUME NEW h \in Handler, PostMessage(h) PROVE LinkTypes'
  <2>1. PICK ok \in BOOLEAN :
          /\ mailed' = IF ok THEN mailed \cup {task[h].to} ELSE mailed
          /\ task' = [task EXCEPT ![h].at = "mark", ![h].ok = ok]
    BY <1>13 DEF PostMessage
  <2> DEFINE new == [task[h] EXCEPT !.at = "mark", !.ok = ok]
  <2>2. new \in TaskType BY <1>2 DEF TaskType
  <2>3. task' = [task EXCEPT ![h] = new] BY <2>1
  <2>4. task'[h].at = "mark" /\ task'[h].to = task[h].to /\ task'[h].id = task[h].id
    BY <1>0, <1>2, <2>3 DEF TaskType
  <2>5. task[h].to \in Address BY <1>2, <1>13 DEF Grounded, PostMessage
  <2>6. Grounded(h)' BY <1>2, <1>13, <2>4 DEF Grounded, PostMessage
  <2> HIDE DEF new
  <2> QED BY <1>0, <1>13, <2>1, <2>2, <2>3, <2>5, <2>6, <1>2a, HandlerMoves DEF PostMessage
<1>14. ASSUME Unheard PROVE LinkTypes'
  BY <1>1, <1>14 DEF Unheard, LinkTypes, Grounded
<1>15. CASE UNCHANGED linkVars BY <1>15 DEF linkVars, LinkTypes, Grounded
<1> QED
  BY <1>4, <1>5, <1>6, <1>7, <1>8, <1>9, <1>10, <1>11, <1>12, <1>13, <1>14, <1>15
  DEF LinkNext

(* Every variable of ServiceLink has its type, whatever handlers run.       *)
THEOREM LinkTyped == LinkSpec => []LinkTypes
BY LinkTypesStart, LinkTypesStep, PTL DEF LinkSpec

-----------------------------------------------------------------------------
(* ServiceLink: what is sent, and to whom.                                 *)

\* The handlers other than the one that moves stay where they are.
Elsewhere(h) == \A g \in Handler \ {h} : task'[g] = task[g]
Arrives(h, at) == /\ task'[h].at = at /\ task'[h].to = task[h].to
                  /\ task'[h].id = task[h].id /\ task'[h].ok = task[h].ok

LEMMA Going ==
  ASSUME LinkTypes, NEW h \in Handler, NEW at, GoTo(h, at)
  PROVE  Elsewhere(h) /\ Arrives(h, at)
BY DEF GoTo, LinkTypes, TaskType, Elsewhere, Arrives

LEMMA Returning ==
  ASSUME LinkTypes, NEW h \in Handler, Return(h)
  PROVE  Elsewhere(h) /\ task'[h].at = "idle"
BY DEF Return, NoTask, LinkTypes, Elsewhere

LEMMA Starting ==
  ASSUME LinkTypes, NEW h \in Handler, ConfirmTool(h) \/ ResolveTool(h)
  PROVE  /\ Elsewhere(h) /\ task[h].at = "idle" /\ task'[h].at \in {"confirm", "search"}
         /\ UNCHANGED <<heard, links, mailed, contacts, linkTodo, ended, blind, crossed, lostLink>>
<1>1. PICK at \in {"confirm", "search"}, to \in Address \cup {"none"}, named \in BOOLEAN :
        StartLink(h, at, to, named)
  BY DEF ConfirmTool, ResolveTool
<1> QED BY <1>1 DEF StartLink, NoTask, LinkTypes, Elsewhere

LEMMA LookingUp ==
  ASSUME LinkTypes, NEW h \in Handler, Lookup(h)
  PROVE  Elsewhere(h) /\ task'[h].at = "record"
BY DEF Lookup, LinkTypes, TaskType, Elsewhere

LEMMA Posting ==
  ASSUME LinkTypes, NEW h \in Handler, PostMessage(h)
  PROVE  /\ Elsewhere(h) /\ task'[h].at = "mark"
         /\ task'[h].to = task[h].to /\ task'[h].id = task[h].id
         /\ task'[h].ok => mailed' = mailed \cup {task[h].to}
         /\ mailed \subseteq mailed'
<1>1. PICK ok \in BOOLEAN :
        /\ mailed' = IF ok THEN mailed \cup {task[h].to} ELSE mailed
        /\ task' = [task EXCEPT ![h].at = "mark", ![h].ok = ok]
  BY DEF PostMessage
<1> QED BY <1>1 DEF LinkTypes, TaskType, Elsewhere

LEMMA Reading ==
  ASSUME LinkTypes, NEW h \in Handler, ReadLink(h), HasRecipient
  PROVE  /\ Elsewhere(h) /\ UNCHANGED <<links, linkTodo>>
         /\ \/ Last.status = "sent" /\ task'[h].at = "idle"
            \/ /\ Last.status # "sent" /\ task'[h].at = "post"
               /\ task'[h].to = Last.to /\ task'[h].id = Len(links)
<1>1. CASE Last.status = "sent" BY <1>1, Returning DEF ReadLink
<1>2. CASE Last.status # "sent"
  <2>1. /\ task' = [task EXCEPT ![h].at = "post", ![h].to = Last.to, ![h].id = Len(links)]
        /\ UNCHANGED <<links, linkTodo>>
    BY <1>2 DEF ReadLink
  <2> QED BY <1>2, <2>1 DEF LinkTypes, TaskType, Elsewhere
<1> QED BY <1>1, <1>2

\* What becomes of the newest row.
LEMMA NewestWritten ==
  ASSUME LinkTypes, NEW i \in 1 .. Len(links), NEW row \in LinkRecord, Written(i, row)
  PROVE  /\ i = Len(links) => Last' = row
         /\ i # Len(links) => Last' = Last
         /\ links # <<>> /\ links' # <<>> /\ Len(links') = Len(links)
<1>1. links \in Seq(LinkRecord) /\ Len(links) \in Nat /\ Len(links') = Len(links)
  BY DEF LinkTypes, Written
<1>2. links # <<>> /\ links' # <<>> BY <1>1
<1> QED BY <1>1, <1>2 DEF Written, Last

LEMMA NewestAdded ==
  ASSUME LinkTypes, NEW row \in LinkRecord, Added(row)
  PROVE  Last' = row /\ links' # <<>>
BY DEF LinkTypes, Added, Last

\* A handler that will still look at the newest row, or is about to write what
\* became of sending it.
Trying(h) == \/ task[h].at \in {"gate", "row", "send"}
             \/ task[h].at \in {"post", "mark"} /\ task[h].id = Len(links)

\* LinkNotLost while handlers run.
Waiting == heard /\ HasRecipient /\ Last.status = "pending" /\ ~lostLink
Chased  == Waiting => \E h \in Handler : Trying(h)

LEMMA ChasedStep == LinkTypes /\ Chased /\ [LinkNext]_linkVars => Chased'
<1> SUFFICES ASSUME LinkTypes, Chased, [LinkNext]_linkVars, Waiting'
             PROVE  \E h \in Handler : Trying(h)'
  BY DEF Chased
<1>1. ASSUME UNCHANGED <<heard, links, lostLink>>
      PROVE  Waiting /\ \E h \in Handler : Trying(h)
  BY <1>1 DEF Waiting, Chased, HasRecipient, Last
<1>2. ASSUME NEW h \in Handler, Elsewhere(h), UNCHANGED <<heard, links, lostLink>>,
             Trying(h) => Trying(h)'
      PROVE  \E g \in Handler : Trying(g)'
  <2>1. PICK g \in Handler : Trying(g) BY <1>1, <1>2
  <2>2. CASE g = h BY <1>2, <2>1, <2>2
  <2>3. CASE g # h BY <1>2, <2>1, <2>3 DEF Elsewhere, Trying
  <2> QED BY <2>2, <2>3
<1>3. ASSUME NEW h \in Handler, ConfirmTool(h) \/ ResolveTool(h)
      PROVE  \E g \in Handler : Trying(g)'
  BY <1>2, <1>3, Starting DEF Trying
<1>4. ASSUME NEW h \in Handler, PostCall(h) PROVE Trying(h)'
  BY <1>4, Going DEF PostCall, Trying, Arrives
<1>5. ASSUME NEW h \in Handler, LinkConfirm(h) \/ RecordRecipient(h) PROVE Trying(h)'
  BY <1>5, Going DEF LinkConfirm, RecordRecipient, TryToSend, Trying, Arrives
<1>6. ASSUME NEW h \in Handler, Search(h) \/ CreateContact(h) \/ Lookup(h)
      PROVE  \E g \in Handler : Trying(g)'
  <2>1. ~Trying(h) /\ UNCHANGED <<heard, links, lostLink>>
    BY <1>6 DEF Search, CreateContact, Lookup, Trying
  <2>2. Elsewhere(h)
    BY <1>6, Going, Returning, LookingUp DEF Search, CreateContact
  <2> QED BY <1>2, <2>1, <2>2
<1>7. ASSUME NEW h \in Handler, CheckConfirmed(h) PROVE \E g \in Handler : Trying(g)'
  <2>1. UNCHANGED <<heard, links, lostLink>> BY <1>7 DEF CheckConfirmed
  <2>2. heard BY <1>1, <2>1 DEF Waiting
  <2>3. Elsewhere(h) /\ Trying(h)' BY <1>7, <2>2, Going DEF CheckConfirmed, Trying, Arrives
  <2> QED BY <2>3
<1>8. ASSUME NEW h \in Handler, CheckRecipient(h) PROVE \E g \in Handler : Trying(g)'
  <2>1. UNCHANGED <<heard, links, lostLink>> BY <1>8 DEF CheckRecipient
  <2>2. HasRecipient BY <1>1, <2>1 DEF Waiting
  <2>3. Elsewhere(h) /\ Trying(h)' BY <1>8, <2>2, Going DEF CheckRecipient, Trying, Arrives
  <2> QED BY <2>3
<1>9. ASSUME NEW h \in Handler, ReadLink(h) PROVE \E g \in Handler : Trying(g)'
  <2>1. CASE HasRecipient
    <3>1. UNCHANGED <<heard, links, lostLink>> BY <1>9, <2>1, Reading DEF ReadLink
    <3>2. Last.status # "sent" BY <1>1, <3>1 DEF Waiting
    <3>3. Trying(h)' BY <1>9, <2>1, <3>1, <3>2, Reading DEF Trying
    <3> QED BY <3>3
  <2>2. CASE ~HasRecipient
    <3>1. PICK row \in LinkRecord :
            /\ row.status = "skipped"
            /\ \/ links = <<>> /\ Added(row)
               \/ Len(links) \in 1 .. Len(links) /\ Written(Len(links), row)
      BY <1>9, <2>2, SkipRow
    <3>2. Last' = row BY <3>1, NewestAdded, NewestWritten
    <3> QED BY <3>1, <3>2 DEF Waiting
  <2> QED BY <2>1, <2>2
<1>10. ASSUME NEW h \in Handler, PostMessage(h) PROVE \E g \in Handler : Trying(g)'
  <2>1. UNCHANGED <<heard, links, lostLink>> BY <1>10 DEF PostMessage
  <2>2. Trying(h) => Trying(h)' BY <1>10, <2>1, Posting DEF PostMessage, Trying
  <2> QED BY <1>2, <1>10, <2>1, <2>2, Posting
<1>11. ASSUME NEW h \in Handler, MarkLink(h) PROVE \E g \in Handler : Trying(g)'
  <2>1. PICK row \in LinkRecord :
          /\ row.status = IF task[h].ok THEN "sent" ELSE "failed"
          /\ task[h].id \in 1 .. Len(links) /\ Written(task[h].id, row)
    BY <1>11, MarkRow
  <2>2. task[h].id # Len(links) BY <2>1, NewestWritten DEF Waiting
  <2>3. Last' = Last /\ links # <<>> /\ Len(links') = Len(links) BY <2>1, <2>2, NewestWritten
  <2>4. UNCHANGED <<heard, lostLink>> /\ task[h].at = "mark" BY <1>11 DEF MarkLink
  <2>5. Waiting BY <2>3, <2>4 DEF Waiting, HasRecipient
  <2>6. PICK g \in Handler : Trying(g) BY <2>5 DEF Chased
  <2>7. g # h BY <2>2, <2>4, <2>6 DEF Trying
  <2>8. Elsewhere(h) BY <1>11, Returning DEF MarkLink
  <2>9. Trying(g)' BY <2>3, <2>6, <2>7, <2>8 DEF Elsewhere, Trying
  <2> QED BY <2>9
<1>12. ASSUME Unheard \/ \E h \in Handler : LinkDies(h) PROVE FALSE
  BY <1>12 DEF Unheard, LinkDies, Waiting
<1>13. CASE UNCHANGED linkVars
  BY <1>1, <1>13 DEF linkVars, Trying
<1> QED
  BY <1>3, <1>4, <1>5, <1>6, <1>7, <1>8, <1>9, <1>10, <1>11, <1>12, <1>13 DEF LinkNext

(* Whichever of the confirmed visit and the recipient comes last, the send  *)
(* is tried: when no handler runs, no confirmed visit sits beside a         *)
(* recipient whose link was never sent, unless a handler died.              *)
THEOREM LinkIsTried == LinkSpec => []LinkNotLost
<1>1. LinkInit => Chased
  BY DEF LinkInit, Chased, Waiting, HasRecipient
<1>2. Chased => LinkNotLost
  BY DEF Chased, Waiting, LinkNotLost, LinksQuiet, Trying
<1> QED BY <1>1, <1>2, ChasedStep, LinkTyped, PTL DEF LinkSpec

\* CorrectedIsMailed of every row and of the sends in flight, unless a row was
\* changed under one of them.
RowHonest(i) == links[i].status = "sent" => mailed # {} /\ (crossed \/ links[i].to \in mailed)
SendHonest(h) ==
  /\ task[h].at \in {"post", "mark"} => crossed \/ links[task[h].id].to = task[h].to
  /\ task[h].at = "mark" /\ task[h].ok => task[h].to \in mailed
Honest == /\ \A i \in 1 .. Len(links) : RowHonest(i)
          /\ \A h \in Handler : SendHonest(h)

LEMMA HonestStep == LinkTypes /\ Honest /\ [LinkNext]_linkVars => Honest'
<1> SUFFICES ASSUME LinkTypes, Honest, [LinkNext]_linkVars PROVE Honest' OBVIOUS
<1>0. Len(links) \in Nat /\ links \in Seq(LinkRecord) BY DEF LinkTypes
<1>1. ASSUME NEW h \in Handler, Elsewhere(h), UNCHANGED <<links, crossed>>,
             mailed \subseteq mailed', SendHonest(h)'
      PROVE  Honest'
  <2>1. ASSUME NEW g \in Handler, g # h PROVE SendHonest(g)'
    BY <1>1, <2>1 DEF Honest, SendHonest, Elsewhere
  <2>2. ASSUME NEW i \in 1 .. Len(links) PROVE RowHonest(i)'
    BY <1>1 DEF Honest, RowHonest
  <2> QED BY <1>1, <2>1, <2>2 DEF Honest
<1>2. ASSUME NEW h \in Handler, ConfirmTool(h) \/ ResolveTool(h) PROVE Honest'
  BY <1>1, <1>2, Starting DEF SendHonest
<1>3. ASSUME NEW h \in Handler, PostCall(h) PROVE Honest'
  BY <1>1, <1>3, Going DEF PostCall, SendHonest, Arrives
<1>4. ASSUME NEW h \in Handler, LinkConfirm(h) \/ Search(h) \/ CreateContact(h)
                                 \/ CheckConfirmed(h) \/ CheckRecipient(h)
      PROVE  Honest'
  <2>1. UNCHANGED <<links, crossed, mailed>>
    BY <1>4 DEF LinkConfirm, Search, CreateContact, CheckConfirmed, CheckRecipient
  <2>2. Elsewhere(h) /\ task'[h].at \notin {"post", "mark"}
    BY <1>4, Going, Returning DEF LinkConfirm, TryToSend, Search, CreateContact,
                                  CheckConfirmed, CheckRecipient, Arrives
  <2> QED BY <1>1, <2>1, <2>2 DEF SendHonest
<1>5. ASSUME NEW h \in Handler, Lookup(h) PROVE Honest'
  BY <1>1, <1>5, LookingUp DEF Lookup, SendHonest
<1>6. ASSUME NEW h \in Handler, RecordRecipient(h) PROVE Honest'
  <2>1. /\ Elsewhere(h) /\ task'[h].at = "gate" /\ UNCHANGED mailed
        /\ crossed' = (crossed \/ \E g \in Handler \ {h} : task[g].at \in {"post", "mark"})
    BY <1>6, Going DEF RecordRecipient, TryToSend, Arrives
  <2>2. PICK row \in LinkRecord :
          /\ row.status = "pending"
          /\ \/ task[h].id = 0 /\ Added(row)
             \/ task[h].id \in 1 .. Len(links) /\ Written(task[h].id, row)
    BY <1>6, RecordRow
  <2>3. ASSUME NEW i \in 1 .. Len(links') PROVE RowHonest(i)'
    <3>1. links'[i] = row \/ (i \in 1 .. Len(links) /\ links'[i] = links[i])
      BY <1>0, <2>2 DEF Added, Written
    <3> QED BY <2>1, <2>2, <3>1 DEF RowHonest, Honest
  <2>4. ASSUME NEW g \in Handler PROVE SendHonest(g)'
    <3>1. CASE g = h BY <2>1, <3>1 DEF SendHonest
    <3>2. CASE g # h
      <4>1. task'[g] = task[g] /\ SendHonest(g) BY <2>1, <3>2 DEF Elsewhere, Honest
      <4>2. task[g].at \in {"post", "mark"} => crossed' BY <2>1, <3>2
      <4> QED BY <2>1, <4>1, <4>2 DEF SendHonest
    <3> QED BY <3>1, <3>2
  <2> QED BY <2>3, <2>4 DEF Honest
<1>7. ASSUME NEW h \in Handler, ReadLink(h) PROVE Honest'
  <2>1. UNCHANGED <<mailed, crossed>> BY <1>7 DEF ReadLink
  <2>2. CASE HasRecipient
    <3>1. links' = links /\ SendHonest(h)' BY <1>7, <2>2, Reading DEF SendHonest, Last
    <3> QED BY <1>1, <1>7, <2>1, <2>2, <3>1, Reading
  <2>3. CASE ~HasRecipient
    <3>1. PICK row \in LinkRecord :
            /\ row.to = "none" /\ row.status = "skipped"
            /\ \/ links = <<>> /\ Added(row)
               \/ Len(links) \in 1 .. Len(links) /\ Written(Len(links), row)
      BY <1>7, <2>3, SkipRow
    <3>2. Elsewhere(h) /\ task'[h].at = "idle" BY <1>7, <2>3, Returning DEF ReadLink
    <3>3. ASSUME NEW i \in 1 .. Len(links) PROVE links'[i].to = links[i].to
      <4>1. CASE i = Len(links) /\ Written(i, row)
        <5>1. links'[i].to = "none" BY <3>1, <4>1 DEF Written
        <5>2. links[i].to = "none" BY <1>0, <2>3, <4>1 DEF HasRecipient, Last
        <5> QED BY <5>1, <5>2
      <4>2. CASE ~(i = Len(links) /\ Written(i, row)) BY <1>0, <3>1, <4>2 DEF Added, Written
      <4> QED BY <4>1, <4>2
    <3>4. ASSUME NEW i \in 1 .. Len(links') PROVE RowHonest(i)'
      <4>1. links'[i] = row \/ (i \in 1 .. Len(links) /\ links'[i] = links[i])
        BY <1>0, <3>1 DEF Added, Written
      <4> QED BY <2>1, <3>1, <4>1 DEF RowHonest, Honest
    <3>5. ASSUME NEW g \in Handler PROVE SendHonest(g)'
      <4>1. CASE g = h BY <3>2, <4>1 DEF SendHonest
      <4>2. CASE g # h
        <5>1. task'[g] = task[g] /\ SendHonest(g) /\ Grounded(g)
          BY <3>2, <4>2 DEF Elsewhere, Honest, LinkTypes
        <5> QED BY <2>1, <3>3, <5>1 DEF SendHonest, Grounded
      <4> QED BY <4>1, <4>2
    <3> QED BY <3>4, <3>5 DEF Honest
  <2> QED BY <2>2, <2>3
<1>8. ASSUME NEW h \in Handler, PostMessage(h) PROVE Honest'
  <2>1. UNCHANGED <<links, crossed>> /\ task[h].at = "post" BY <1>8 DEF PostMessage
  <2>2. SendHonest(h)' BY <1>8, <2>1, Posting DEF SendHonest, Honest
  <2> QED BY <1>1, <1>8, <2>1, <2>2, Posting
<1>9. ASSUME NEW h \in Handler, MarkLink(h) PROVE Honest'
  <2>1. /\ Elsewhere(h) /\ task'[h].at = "idle" /\ task[h].at = "mark"
        /\ UNCHANGED <<mailed, crossed>>
    BY <1>9, Returning DEF MarkLink
  <2>2. PICK row \in LinkRecord :
          /\ row.to = links[task[h].id].to
          /\ row.status = IF task[h].ok THEN "sent" ELSE "failed"
          /\ task[h].id \in 1 .. Len(links) /\ Written(task[h].id, row)
    BY <1>9, MarkRow
  <2>3. ASSUME NEW i \in 1 .. Len(links) PROVE links'[i].to = links[i].to
    BY <2>2 DEF Written
  <2>4. ASSUME NEW i \in 1 .. Len(links') PROVE RowHonest(i)'
    <3>1. i \in 1 .. Len(links) BY <2>2 DEF Written
    <3>2. CASE i = task[h].id
      <4>1. SendHonest(h) BY DEF Honest
      <4>2. links'[i] = row BY <2>2, <3>1, <3>2 DEF Written
      <4> QED BY <2>1, <2>2, <3>2, <4>1, <4>2 DEF RowHonest, SendHonest
    <3>3. CASE i # task[h].id
      <4>1. links'[i] = links[i] BY <2>2, <3>1, <3>3 DEF Written
      <4> QED BY <2>1, <3>1, <4>1 DEF RowHonest, Honest
    <3> QED BY <3>2, <3>3
  <2>5. ASSUME NEW g \in Handler PROVE SendHonest(g)'
    <3>1. CASE g = h BY <2>1, <3>1 DEF SendHonest
    <3>2. CASE g # h
      <4>1. task'[g] = task[g] /\ SendHonest(g) /\ Grounded(g)
        BY <2>1, <3>2 DEF Elsewhere, Honest, LinkTypes
      <4> QED BY <2>1, <2>3, <4>1 DEF SendHonest, Grounded
    <3> QED BY <3>1, <3>2
  <2> QED BY <2>4, <2>5 DEF Honest
<1>10. ASSUME NEW h \in Handler, LinkDies(h) PROVE Honest'
  BY <1>1, <1>10, Returning DEF LinkDies, SendHonest
<1>11. CASE Unheard \/ UNCHANGED linkVars
  BY <1>11 DEF Unheard, linkVars, Honest, RowHonest, SendHonest
<1> QED
  BY <1>2, <1>3, <1>4, <1>5, <1>6, <1>7, <1>8, <1>9, <1>10, <1>11 DEF LinkNext

LEMMA HonestAlways == LinkSpec => []Honest
<1>1. LinkInit => Honest
  BY DEF LinkInit, Honest, RowHonest, SendHonest, NoTask
<1> QED BY <1>1, HonestStep, LinkTyped, PTL DEF LinkSpec

(* An address corrected after a send is a new send: the newest row is only  *)
(* marked sent when its address was written to, unless a recipient was      *)
(* recorded while a send was in flight.                                     *)
THEOREM CorrectionIsSent == LinkSpec => []CorrectedIsMailed
<1>1. LinkTypes /\ Honest => CorrectedIsMailed
  <2> SUFFICES ASSUME LinkTypes, Honest, links # <<>>, Last.status = "sent", ~crossed
               PROVE  Last.to \in mailed
    BY DEF CorrectedIsMailed, HasRecipient
  <2>1. Len(links) \in 1 .. Len(links) BY EmptySeq DEF LinkTypes
  <2> QED BY <2>1 DEF Honest, RowHonest, Last
<1> QED BY <1>1, HonestAlways, LinkTyped, PTL

\* UnsentTold while handlers run: somebody is still at the send.
OnIt(h) == task[h].at \in {"send", "post", "mark"}
Reached == linkTodo \/ mailed # {}
Answered == ended /\ ~lostLink => Reached \/ \E h \in Handler : OnIt(h)

LEMMA AnsweredStep == LinkTypes /\ Honest /\ Answered /\ [LinkNext]_linkVars => Answered'
<1> SUFFICES ASSUME LinkTypes, Honest, Answered, [LinkNext]_linkVars,
                    ended', ~lostLink', ~Reached'
             PROVE  \E h \in Handler : OnIt(h)'
  BY DEF Answered
<1>1. ASSUME NEW h \in Handler, Elsewhere(h), ended, ~lostLink, ~Reached, OnIt(h) => OnIt(h)'
      PROVE  \E g \in Handler : OnIt(g)'
  <2>1. PICK g \in Handler : OnIt(g) BY <1>1 DEF Answered
  <2>2. CASE g = h BY <1>1, <2>1, <2>2
  <2>3. CASE g # h BY <1>1, <2>1, <2>3 DEF Elsewhere, OnIt
  <2> QED BY <2>2, <2>3
<1>2. ASSUME UNCHANGED <<linkTodo, mailed, ended, lostLink>>
      PROVE  ended /\ ~lostLink /\ ~Reached
  BY <1>2 DEF Reached
<1>3. ASSUME NEW h \in Handler, ConfirmTool(h) \/ ResolveTool(h) PROVE \E g \in Handler : OnIt(g)'
  <2>1. /\ Elsewhere(h) /\ ~OnIt(h) /\ UNCHANGED <<linkTodo, mailed, ended, lostLink>>
    BY <1>3, Starting DEF OnIt
  <2> QED BY <1>1, <1>2, <2>1
<1>4. ASSUME NEW h \in Handler, PostCall(h) PROVE OnIt(h)'
  BY <1>4, Going DEF PostCall, OnIt, Arrives
<1>5. ASSUME NEW h \in Handler,
             LinkConfirm(h) \/ Search(h) \/ CreateContact(h) \/ Lookup(h)
               \/ RecordRecipient(h) \/ CheckConfirmed(h) \/ CheckRecipient(h)
      PROVE  \E g \in Handler : OnIt(g)'
  <2>1. /\ ~OnIt(h) /\ UNCHANGED <<linkTodo, mailed, ended, lostLink>>
    BY <1>5 DEF LinkConfirm, Search, CreateContact, Lookup, RecordRecipient, CheckConfirmed,
                CheckRecipient, OnIt
  <2>2. Elsewhere(h)
    BY <1>5, Going, Returning, LookingUp DEF LinkConfirm, TryToSend, Search, CreateContact,
                RecordRecipient, CheckConfirmed, CheckRecipient
  <2> QED BY <1>1, <1>2, <2>1, <2>2
<1>6. ASSUME NEW h \in Handler, ReadLink(h) PROVE \E g \in Handler : OnIt(g)'
  <2>1. HasRecipient BY <1>6 DEF ReadLink, RaiseLinkTodo, Reached
  <2>2. UNCHANGED <<linkTodo, mailed, ended, lostLink>> BY <1>6, <2>1, Reading DEF ReadLink
  <2>3. mailed = {} BY <1>2, <2>2 DEF Reached
  <2>4. Last.status # "sent"
    <3>1. links # <<>> BY <2>1 DEF HasRecipient
    <3>2. Len(links) \in 1 .. Len(links) BY <3>1, EmptySeq DEF LinkTypes
    <3> QED BY <2>3, <3>2 DEF Honest, RowHonest, Last
  <2>5. OnIt(h)' BY <1>6, <2>1, <2>4, Reading DEF OnIt
  <2> QED BY <2>5
<1>7. ASSUME NEW h \in Handler, PostMessage(h) PROVE OnIt(h)'
  BY <1>7, Posting DEF OnIt
<1>8. ASSUME NEW h \in Handler, MarkLink(h) PROVE FALSE
  <2>1. task[h].ok BY <1>8 DEF MarkLink, RaiseLinkTodo, Reached
  <2>2. task[h].to \in mailed BY <1>8, <2>1 DEF MarkLink, Honest, SendHonest
  <2>3. UNCHANGED mailed BY <1>8 DEF MarkLink
  <2> QED BY <2>2, <2>3 DEF Reached
<1>9. ASSUME NEW h \in Handler, LinkDies(h) PROVE FALSE
  BY <1>9 DEF LinkDies
<1>10. CASE Unheard \/ UNCHANGED linkVars
  <2>1. UNCHANGED <<linkTodo, mailed, ended, lostLink, task>>
    BY <1>10 DEF Unheard, linkVars
  <2>2. PICK h \in Handler : OnIt(h) BY <1>2, <2>1 DEF Answered
  <2> QED BY <2>1, <2>2 DEF OnIt
<1> QED BY <1>3, <1>4, <1>5, <1>6, <1>7, <1>8, <1>9, <1>10 DEF LinkNext

(* After a call that ended in a confirmation, the customer is written to or *)
(* a todo says that they were not, unless a handler died.                   *)
THEOREM UnsentIsTold == LinkSpec => []UnsentTold
<1>1. LinkInit => Answered
  BY DEF LinkInit, Answered
<1>2. Answered => UnsentTold
  BY DEF Answered, Reached, UnsentTold, LinksQuiet, OnIt
<1> QED BY <1>1, <1>2, AnsweredStep, HonestAlways, LinkTyped, PTL DEF LinkSpec

-----------------------------------------------------------------------------
(* ServiceLink: contacts.                                                  *)

\* While no search failed and no two tools created at once, whoever is about to
\* create a contact has found none.
Alone == ~blind => /\ \A a \in Address : contacts[a] <= 1
                   /\ \A h \in Handler : task[h].at = "create" => contacts[task[h].to] = 0

LEMMA AloneStep == LinkTypes /\ Alone /\ [LinkNext]_linkVars => Alone'
<1> SUFFICES ASSUME LinkTypes, Alone, [LinkNext]_linkVars PROVE Alone' OBVIOUS
<1>0. contacts \in [Address -> Nat] /\ task \in [Handler -> TaskType] BY DEF LinkTypes
<1>1. ASSUME NEW h \in Handler, Elsewhere(h), UNCHANGED contacts, ~blind' => ~blind,
             task'[h].at = "create" => blind' \/ contacts[task'[h].to] = 0
      PROVE  Alone'
  BY <1>1 DEF Alone, Elsewhere
<1>2. ASSUME NEW h \in Handler, ConfirmTool(h) \/ ResolveTool(h) PROVE Alone'
  <2>1. Elsewhere(h) /\ UNCHANGED <<contacts, blind>> /\ task'[h].at # "create"
    BY <1>2, Starting
  <2> QED BY <1>1, <2>1
<1>3. ASSUME NEW h \in Handler, Search(h) PROVE Alone'
  <2>1. UNCHANGED contacts /\ (~blind' => ~blind) BY <1>3 DEF Search
  <2>2. Elsewhere(h) BY <1>3, Going, Returning DEF Search
  <2>3. ASSUME task'[h].at = "create" PROVE blind' \/ contacts[task'[h].to] = 0
    <3>1. PICK failed \in BOOLEAN :
            /\ blind' = (blind \/ failed)
            /\ IF contacts[task[h].to] > 0 /\ ~failed THEN GoTo(h, "lookup")
               ELSE IF task[h].named THEN GoTo(h, "create") ELSE Return(h)
      BY <1>3 DEF Search
    <3>2. task'[h].to = task[h].to
      <4>1. ~Return(h) BY <2>3, Returning
      <4> QED BY <3>1, <4>1, Going DEF Arrives
    <3>3. ~GoTo(h, "lookup") BY <2>3, Going DEF Arrives
    <3>4. task[h].to \in Address BY <1>3 DEF Search, LinkTypes, Grounded
    <3>5. contacts[task[h].to] \in Nat BY <1>0, <3>4
    <3>6. CASE failed BY <3>1, <3>6
    <3>7. CASE ~failed
      <4>1. contacts[task[h].to] > 0 => GoTo(h, "lookup") BY <3>1, <3>7
      <4> QED BY <3>2, <3>3, <3>5, <4>1
    <3> QED BY <3>6, <3>7
  <2> QED BY <1>1, <2>1, <2>2, <2>3
<1>4. ASSUME NEW h \in Handler, CreateContact(h) PROVE Alone'
  <2>1. CASE Return(h) /\ UNCHANGED <<contacts, blind>>
    BY <1>1, <2>1, Returning
  <2>2. CASE ~(Return(h) /\ UNCHANGED <<contacts, blind>>)
    <3> DEFINE a == task[h].to
    <3>1. /\ contacts' = [contacts EXCEPT ![a] = @ + 1] /\ GoTo(h, "lookup")
          /\ blind' = (blind \/ \E g \in Handler \ {h} : task[g].at = "create" /\ task[g].to = a)
      BY <1>4, <2>2 DEF CreateContact
    <3>2. a \in Address BY <1>4 DEF CreateContact, LinkTypes, Grounded
    <3>3. task[h].at = "create" BY <1>4 DEF CreateContact
    <3>4. Elsewhere(h) /\ task'[h].at = "lookup" BY <3>1, Going DEF Arrives
    <3> SUFFICES ASSUME ~blind' PROVE /\ \A b \in Address : contacts'[b] <= 1
                                     /\ \A g \in Handler : task'[g].at = "create" =>
                                          contacts'[task'[g].to] = 0
      BY DEF Alone
    <3>5. ~blind /\ \A g \in Handler \ {h} : ~(task[g].at = "create" /\ task[g].to = a)
      BY <3>1
    <3>6. contacts[a] = 0 /\ \A b \in Address : contacts[b] <= 1 BY <3>3, <3>5 DEF Alone
    <3>7. ASSUME NEW b \in Address PROVE contacts'[b] <= 1 BY <1>0, <3>1, <3>2, <3>6
    <3>8. ASSUME NEW g \in Handler, task'[g].at = "create" PROVE contacts'[task'[g].to] = 0
      <4>1. g # h BY <3>4, <3>8
      <4>2. task'[g] = task[g] BY <3>4, <4>1 DEF Elsewhere
      <4>3. task[g].to # a BY <3>5, <3>8, <4>1, <4>2
      <4>4. task[g].to \in Address BY <3>8, <4>2 DEF LinkTypes, Grounded
      <4>5. contacts[task[g].to] = 0 BY <3>5, <3>8, <4>2 DEF Alone
      <4> QED BY <1>0, <3>1, <4>2, <4>3, <4>4, <4>5
    <3> QED BY <3>7, <3>8
  <2> QED BY <2>1, <2>2
<1>5. ASSUME NEW h \in Handler,
             PostCall(h) \/ LinkConfirm(h) \/ RecordRecipient(h) \/ CheckConfirmed(h)
               \/ CheckRecipient(h) \/ MarkLink(h) \/ LinkDies(h)
      PROVE  Alone'
  <2>1. UNCHANGED <<contacts, blind>>
    BY <1>5 DEF PostCall, LinkConfirm, RecordRecipient, CheckConfirmed, CheckRecipient,
                MarkLink, LinkDies
  <2>2. Elsewhere(h) /\ task'[h].at # "create"
    BY <1>5, Going, Returning DEF PostCall, LinkConfirm, TryToSend, RecordRecipient,
                CheckConfirmed, CheckRecipient, MarkLink, LinkDies, Arrives
  <2> QED BY <1>1, <2>1, <2>2
<1>6. ASSUME NEW h \in Handler, Lookup(h) \/ PostMessage(h) PROVE Alone'
  <2>1. UNCHANGED <<contacts, blind>> BY <1>6 DEF Lookup, PostMessage
  <2> QED BY <1>1, <1>6, <2>1, LookingUp, Posting
<1>7. ASSUME NEW h \in Handler, ReadLink(h) PROVE Alone'
  <2>1. UNCHANGED <<contacts, blind>> BY <1>7 DEF ReadLink
  <2>2. Elsewhere(h) /\ task'[h].at # "create"
    BY <1>7, Reading, Returning DEF ReadLink
  <2> QED BY <1>1, <2>1, <2>2
<1>8. CASE Unheard \/ UNCHANGED linkVars
  BY <1>8 DEF Unheard, linkVars, Alone
<1> QED BY <1>2, <1>3, <1>4, <1>5, <1>6, <1>7, <1>8 DEF LinkNext

(* No contact is created twice for one address, in whatever order the tools *)
(* are called, unless a search failed or two tools created it together.     *)
THEOREM ContactIsOnce == LinkSpec => []ContactOnce
<1>1. LinkInit => Alone
  BY DEF LinkInit, Alone, NoTask
<1>2. LinkTypes /\ Alone => ContactOnce
  BY DEF LinkTypes, Alone, ContactOnce
<1> QED BY <1>1, <1>2, AloneStep, LinkTyped, PTL DEF LinkSpec

-----------------------------------------------------------------------------
(* FollowUp: types.                                                        *)

Retries   == 0 .. (MaxRetries + MaxAttempts)
SlotType  == [status : {"none", "pending"}, channel : {"none", "voice", "web_chat"},
              retry : Retries, day : {0, 1}]
SentType  == [to : Recipient, retry : Retries, age : {0, 1}]
SweepType == [on : BOOLEAN, left : SUBSET Recipient, links : SUBSET SentType,
              mark : SUBSET SentType]
CallType  == [phase : {"free", "talking", "over"}, to : Recipient,
              channel : {"none", "voice", "web_chat"}, retry : Retries,
              answer : Answers \cup {"none"}, cancelled : BOOLEAN,
              handling : {"none", "stored", "told"}, lost : BOOLEAN]
EntryType == [status : {"none", "ended", "analyzed"}, answer : Answers \cup {"none"}]

FollowTypes ==
  /\ slot \in [Recipient -> SlotType]
  /\ sent \subseteq SentType /\ sweep \in SweepType
  /\ call \in [Call -> CallType]
  /\ table \in [Call -> EntryType]
  /\ callTodos \in [Call -> Nat]

\* The rows the queue is given.
LEMMA RowsTyped ==
  /\ NoRow \in SlotType /\ LinkRow \in SlotType
  /\ \A channel \in {"voice", "web_chat"} : Row(channel, 0, 0) \in SlotType
  /\ \A d \in CallbackDay : CallbackRow(d) \in SlotType
  /\ \A n \in Nat : n < MaxAttempts =>
       \A channel \in {"voice", "web_chat"} : Row(channel, n + 1, 0) \in SlotType
BY FollowAssumption
DEF SlotType, Retries, NoRow, LinkRow, Row, CallbackDay, CallbackRow

LEMMA RetryTyped ==
  ASSUME FollowTypes, NEW c \in Call
  PROVE  RetryRow(c) \in SlotType
<1>1. call[c].retry \in Nat BY FollowAssumption DEF FollowTypes, CallType, Retries
<1>2. \A b : Channel(b) \in {"voice", "web_chat"} BY DEF Channel
<1>3. ASSUME ~(call[c].retry >= MaxRetries) PROVE call[c].retry + 1 \in Retries
  BY <1>1, <1>3, FollowAssumption DEF Retries
<1>4. \A channel \in {"voice", "web_chat"}, n \in Retries : Row(channel, n, 1) \in SlotType
  BY DEF Row, SlotType
<1> QED BY <1>2, <1>3, <1>4, RowsTyped DEF RetryRow

\* A row put into a recipient's slot, or refused there.
LEMMA SlotFilled ==
  ASSUME slot \in [Recipient -> SlotType], NEW r \in Recipient, NEW row \in SlotType, Enqueue(r, row)
  PROVE  slot' \in [Recipient -> SlotType]
BY DEF Enqueue

LEMMA FollowTypesStep == FollowTypes /\ [FollowNext]_followVars => FollowTypes'
<1> SUFFICES ASSUME FollowTypes, [FollowNext]_followVars PROVE FollowTypes' OBVIOUS
<1> DEFINE Contacts == UNCHANGED <<call, table, callTodos>>
           Links == UNCHANGED <<sent, sweep>>
<1>1. ASSUME Contacts, slot' \in [Recipient -> SlotType], sent' \subseteq SentType,
             sweep' \in SweepType
      PROVE  FollowTypes'
  BY <1>1 DEF FollowTypes
<1>2. ASSUME Links, slot' \in [Recipient -> SlotType], call' \in [Call -> CallType],
             table' \in [Call -> EntryType], callTodos' \in [Call -> Nat]
      PROVE  FollowTypes'
  BY <1>2 DEF FollowTypes
<1>3. CASE StartDaily
  <2>1. Contacts /\ UNCHANGED <<slot, sent>> BY <1>3 DEF StartDaily
  <2>2. {l \in sent : l.age = 1} \subseteq SentType BY DEF FollowTypes
  <2>3. Resting \in SweepType BY DEF Resting, SweepType
  <2>4. sweep' \in SweepType BY <1>3, <2>2, <2>3 DEF StartDaily, SweepType
  <2> QED BY <1>1, <2>1, <2>4 DEF FollowTypes
<1>4. CASE MarkLinkFailed \/ SweepDies
  <2>1. Contacts /\ UNCHANGED slot /\ sent' \subseteq sent
    BY <1>4 DEF MarkLinkFailed, SweepDies
  <2>2. sweep' \in SweepType
    BY <1>4 DEF MarkLinkFailed, SweepDies, Resting, FollowTypes, SweepType
  <2> QED BY <1>1, <2>1, <2>2 DEF FollowTypes
<1>5. CASE NextDay
  <2>1. Contacts /\ sweep' \in SweepType BY <1>5 DEF NextDay, Resting, SweepType
  <2>2. slot' \in [Recipient -> SlotType] BY <1>5 DEF NextDay, FollowTypes, SlotType
  <2>3. sent' \subseteq SentType BY <1>5 DEF NextDay, FollowTypes, SentType
  <2> QED BY <1>1, <2>1, <2>2, <2>3
<1>6. ASSUME NEW l \in sent, FollowLink(l) PROVE FollowTypes'
  <2>1. Contacts /\ UNCHANGED sent BY <1>6 DEF FollowLink
  <2> DEFINE rest == [sweep EXCEPT !.links = @ \ {l}]
             marking == [sweep EXCEPT !.links = @ \ {l}, !.mark = {l}]
  <2>6. rest \in SweepType /\ marking \in SweepType BY DEF FollowTypes, SweepType
  <2>7. sweep' = rest \/ sweep' = marking BY <1>6 DEF FollowLink
  <2> HIDE DEF rest, marking
  <2>5. sweep' \in SweepType BY <2>6, <2>7
  <2>2. l.retry \in Nat BY FollowAssumption DEF FollowTypes, SentType, Retries
  <2>3. CASE UNCHANGED slot BY <1>1, <2>1, <2>3, <2>5 DEF FollowTypes
  <2>4. CASE ~UNCHANGED slot
    <3> DEFINE row == Row(IF "voice" \in Flags THEN "voice" ELSE "web_chat", l.retry + 1, 0)
    <3>1. Enqueue(Customer, row) /\ ~(l.retry >= MaxAttempts) BY <1>6, <2>4 DEF FollowLink
    <3>2. row \in SlotType BY <2>2, <3>1, RowsTyped, FollowAssumption
    <3> HIDE DEF row
    <3>3. slot' \in [Recipient -> SlotType]
      BY <3>1, <3>2, SlotFilled, FollowAssumption DEF FollowTypes
    <3> QED BY <1>1, <2>1, <2>5, <3>3 DEF FollowTypes
  <2> QED BY <2>3, <2>4
<1>7. ASSUME NEW r \in Recipient, EnqueueConfirmation(r) PROVE slot' \in [Recipient -> SlotType]
  <2>1. Row(Channel(FALSE), 0, 0) \in SlotType BY RowsTyped DEF Channel
  <2> QED BY <1>7, <2>1, SlotFilled DEF EnqueueConfirmation, FollowTypes
<1>8. ASSUME NEW r \in Recipient, SweepRecipient(r) \/ BulkSend(r) PROVE FollowTypes'
  <2>1. EnqueueConfirmation(r) /\ Contacts /\ UNCHANGED sent
    BY <1>8 DEF SweepRecipient, BulkSend
  <2>2. sweep' \in SweepType BY <1>8 DEF SweepRecipient, BulkSend, FollowTypes, SweepType
  <2> QED BY <1>1, <1>7, <2>1, <2>2 DEF FollowTypes
<1>9. ASSUME NEW r \in Recipient, ManualSend(r) PROVE FollowTypes'
  <2>1. slot' \in [Recipient -> SlotType] BY <1>9, RowsTyped DEF ManualSend, FollowTypes
  <2> QED BY <1>1, <1>9, <2>1 DEF ManualSend, FollowTypes
<1>10. ASSUME NEW r \in Recipient, ResolveTodo(r) PROVE FollowTypes'
  BY <1>1, <1>10 DEF ResolveTodo, FollowTypes
<1>11. ASSUME NEW r \in Recipient, NEW c \in Call, Dial(r, c) PROVE FollowTypes'
  <2>1. slot' \in [Recipient -> SlotType] BY <1>11, RowsTyped DEF Dial, FollowTypes
  <2>2. slot[r].retry \in Retries BY DEF FollowTypes, SlotType
  <2>3. [NoCall EXCEPT !.phase = "talking", !.to = r, !.channel = "voice", !.retry = slot[r].retry]
          \in CallType
    BY <2>2 DEF NoCall, CallType
  <2>4. call' \in [Call -> CallType] BY <1>11, <2>3 DEF Dial, FollowTypes
  <2> QED BY <1>2, <1>11, <2>1, <2>4 DEF Dial, FollowTypes
<1>12. ASSUME NEW r \in Recipient, Send(r) PROVE FollowTypes'
  <2>1. slot' \in [Recipient -> SlotType] BY <1>12, RowsTyped DEF Send, FollowTypes
  <2>2. slot[r].retry \in Retries BY DEF FollowTypes, SlotType
  <2>3. sent' \subseteq SentType BY <1>12, <2>2 DEF Send, FollowTypes, SentType
  <2> QED BY <1>1, <1>12, <2>1, <2>3 DEF Send, FollowTypes
<1>13. ASSUME NEW c \in Call, NEW d \in CallbackDay, ToolCallback(c, d) PROVE FollowTypes'
  <2>1. call[c].to \in Recipient BY DEF FollowTypes, CallType
  <2>2. slot' \in [Recipient -> SlotType]
    BY <1>13, <2>1, RowsTyped, SlotFilled DEF ToolCallback, FollowTypes
  <2>3. call' \in [Call -> CallType] BY <1>13 DEF ToolCallback, FollowTypes, CallType, Answers
  <2> QED BY <1>2, <1>13, <2>2, <2>3 DEF ToolCallback, FollowTypes
<1>14. ASSUME NEW c \in Call, HangUp(c) PROVE FollowTypes'
  <2>1. PICK a \in IF call[c].answer = "none" THEN Outcome ELSE {call[c].answer},
             live \in BOOLEAN :
             call' = [call EXCEPT ![c].phase = "over", ![c].answer = a, ![c].cancelled = live]
    BY <1>14 DEF HangUp
  <2>2. a \in Answers \cup {"none"} BY <2>1, FollowAssumption DEF FollowTypes, CallType
  <2> DEFINE new == [call[c] EXCEPT !.phase = "over", !.answer = a, !.cancelled = live]
  <2>6. call[c] \in CallType BY DEF FollowTypes
  <2>4. new \in CallType BY <2>2, <2>6 DEF CallType
  <2>5. call' = [call EXCEPT ![c] = new] BY <2>1
  <2> HIDE DEF new
  <2>3. call' \in [Call -> CallType] BY <2>4, <2>5 DEF FollowTypes
  <2> QED BY <1>2, <1>14, <2>3 DEF HangUp, FollowTypes
<1>15. ASSUME NEW c \in Call, CallEnded(c) PROVE FollowTypes'
  <2>1. table' \in [Call -> EntryType] BY <1>15 DEF CallEnded, Stub, FollowTypes, EntryType
  <2> QED BY <1>2, <1>15, <2>1 DEF CallEnded, FollowTypes
<1>16. ASSUME NEW c \in Call, CallAnalyzed(c) PROVE FollowTypes'
  <2>1. call[c].answer \in Answers \cup {"none"} BY DEF FollowTypes, CallType
  <2>2. table' \in [Call -> EntryType] BY <1>16, <2>1 DEF CallAnalyzed, FollowTypes, EntryType
  <2>3. call' \in [Call -> CallType] BY <1>16 DEF CallAnalyzed, FollowTypes, CallType
  <2> QED BY <1>2, <1>16, <2>2, <2>3 DEF CallAnalyzed, FollowTypes
<1>17. ASSUME NEW c \in Call, CallTodo(c) PROVE FollowTypes'
  <2>1. callTodos' \in [Call -> Nat] BY <1>17 DEF CallTodo, FollowTypes
  <2>2. call' \in [Call -> CallType] BY <1>17 DEF CallTodo, FollowTypes, CallType
  <2> QED BY <1>2, <1>17, <2>1, <2>2 DEF CallTodo, FollowTypes
<1>18. ASSUME NEW c \in Call, CallFollowUp(c) PROVE FollowTypes'
  <2>1. call[c].to \in Recipient BY DEF FollowTypes, CallType
  <2>2. \/ UNCHANGED slot
        \/ \E row \in SlotType : Enqueue(call[c].to, row)
    <3>1. CASE call[c].answer = "callback" BY <1>18, <3>1, RowsTyped DEF CallFollowUp, NoAnswer
    <3>2. CASE call[c].answer \in NoAnswer
      BY <1>18, <3>2, RowsTyped, RetryTyped DEF CallFollowUp, NoAnswer
    <3>3. CASE call[c].answer \notin NoAnswer \cup {"callback"}
      BY <1>18, <3>3 DEF CallFollowUp
    <3> QED BY <3>1, <3>2, <3>3
  <2>3. slot' \in [Recipient -> SlotType] BY <2>1, <2>2, SlotFilled DEF FollowTypes
  <2>4. call' \in [Call -> CallType] BY <1>18 DEF CallFollowUp, FollowTypes, CallType
  <2> QED BY <1>2, <1>18, <2>3, <2>4 DEF CallFollowUp, FollowTypes
<1>19. ASSUME NEW c \in Call, HandlerDies(c) PROVE FollowTypes'
  <2> DEFINE new == [call[c] EXCEPT !.handling = "none", !.lost = TRUE]
  <2>2. new \in CallType BY DEF FollowTypes, CallType
  <2>3. call' = [call EXCEPT ![c] = new] BY <1>19 DEF HandlerDies
  <2> HIDE DEF new
  <2>1. call' \in [Call -> CallType] BY <2>2, <2>3 DEF FollowTypes
  <2> QED BY <1>2, <1>19, <2>1 DEF HandlerDies, FollowTypes
<1>20. ASSUME NEW c \in Call, LastWebhook(c) PROVE FollowTypes'
  <2>1. NoCall \in CallType /\ NoEntry \in EntryType
    BY FollowAssumption DEF NoCall, NoEntry, CallType, EntryType, Retries
  <2> QED BY <1>2, <1>20, <2>1 DEF LastWebhook, FollowTypes
<1>21. CASE UNCHANGED followVars BY <1>1, <1>21 DEF followVars, FollowTypes
<1> QED
  BY <1>3, <1>4, <1>5, <1>6, <1>8, <1>9, <1>10, <1>11, <1>12, <1>13, <1>14, <1>15, <1>16,
     <1>17, <1>18, <1>19, <1>20, <1>21
  DEF FollowNext, SweepStep, Contact, Handle

(* FollowUp: what the rows of the queue, the links sent and the calls are,   *)
(* whatever the customer answers and the webhooks do; no row counts more    *)
(* retries than the two limits together allow.                              *)
THEOREM FollowTyped == FollowSpec => []FollowTypes
<1>1. FollowInit => FollowTypes
  BY FollowAssumption, RowsTyped
  DEF FollowInit, FollowTypes, Resting, SweepType, NoCall, CallType, Retries, NoEntry, EntryType
<1> QED BY <1>1, FollowTypesStep, PTL DEF FollowSpec

-----------------------------------------------------------------------------
(* FollowUp: the webhooks of a call.                                       *)

Told(c) == callTodos[c] > 0 \/ call[c].answer = "yes" \/ call[c].cancelled

\* Nothing is stored of a call before it is over; what is stored of its analysis
\* is its answer; and who handles it has stored that first, and told of it next.
Handled(c) ==
  /\ call[c].phase # "over" => table[c] = NoEntry /\ call[c].handling = "none"
  /\ table[c].status = "analyzed" => table[c].answer = call[c].answer
  /\ call[c].handling # "none" => table[c].status = "analyzed"
  /\ call[c].handling = "told" => Told(c)
  /\ table[c].status = "analyzed" /\ call[c].handling = "none" /\ ~call[c].lost => Told(c)

AllHandled == \A c \in Call : Handled(c)

\* A step of one call leaves the others alone.
OnlyCall(c) ==
  \A d \in Call \ {c} : call'[d] = call[d] /\ table'[d] = table[d] /\ callTodos'[d] = callTodos[d]

LEMMA HandledStep ==
  FollowTypes /\ AllHandled /\ [FollowNext]_followVars =>
    /\ AllHandled'
    /\ \A c \in Call :
         table[c].status = "analyzed" /\ call'[c].phase # "free" => table'[c] = table[c]
<1> SUFFICES ASSUME FollowTypes, AllHandled, [FollowNext]_followVars
             PROVE  /\ AllHandled'
                    /\ \A c \in Call : table[c].status = "analyzed" /\ call'[c].phase # "free" =>
                                        table'[c] = table[c]
  OBVIOUS
<1> DEFINE Kept(c) == table[c].status = "analyzed" /\ call'[c].phase # "free" => table'[c] = table[c]
           Goal == AllHandled' /\ \A c \in Call : Kept(c)
<1>0. /\ call \in [Call -> CallType] /\ table \in [Call -> EntryType]
      /\ callTodos \in [Call -> Nat]
  BY DEF FollowTypes
<1>1. ASSUME UNCHANGED <<call, table, callTodos>> PROVE Goal
  BY <1>1 DEF AllHandled, Handled, Told
<1>2. ASSUME NEW c \in Call, OnlyCall(c), Handled(c)', Kept(c) PROVE Goal
  <2>1. ASSUME NEW d \in Call, d # c PROVE Handled(d)' /\ Kept(d)
    BY <1>2, <2>1 DEF OnlyCall, AllHandled, Handled, Told
  <2> QED BY <1>2, <2>1 DEF AllHandled
<1>3. ASSUME NEW r \in Recipient, NEW c \in Call, Dial(r, c) PROVE Goal
  <2>1. OnlyCall(c) /\ UNCHANGED table BY <1>0, <1>3 DEF Dial, OnlyCall
  <2>2. table[c] = NoEntry BY <1>3 DEF Dial, AllHandled, Handled
  <2>3. call'[c].handling = "none" BY <1>0, <1>3 DEF Dial, NoCall
  <2>4. Handled(c)' BY <2>1, <2>2, <2>3 DEF Handled, NoEntry
  <2> QED BY <1>2, <2>1, <2>4
<1>4. ASSUME NEW c \in Call, NEW d \in CallbackDay, ToolCallback(c, d) PROVE Goal
  <2>1. OnlyCall(c) /\ UNCHANGED table BY <1>0, <1>4 DEF ToolCallback, OnlyCall
  <2>2. table[c] = NoEntry /\ call[c].handling = "none"
    BY <1>4 DEF ToolCallback, AllHandled, Handled
  <2>3. call'[c].handling = "none" BY <1>0, <1>4, <2>2 DEF ToolCallback, CallType
  <2>4. Handled(c)' BY <2>1, <2>2, <2>3 DEF Handled, NoEntry
  <2> QED BY <1>2, <2>1, <2>4
<1>5. ASSUME NEW c \in Call, HangUp(c) PROVE Goal
  <2>1. PICK a, live : call' = [call EXCEPT ![c].phase = "over", ![c].answer = a, ![c].cancelled = live]
    BY <1>5 DEF HangUp
  <2>2. OnlyCall(c) /\ UNCHANGED table BY <1>0, <1>5, <2>1 DEF HangUp, OnlyCall
  <2>3. table[c] = NoEntry /\ call[c].handling = "none"
    BY <1>5 DEF HangUp, AllHandled, Handled
  <2>4. call'[c].handling = "none" BY <1>0, <2>1, <2>3 DEF CallType
  <2>5. Handled(c)' BY <2>2, <2>3, <2>4 DEF Handled, NoEntry
  <2> QED BY <1>2, <2>2, <2>5
<1>6. ASSUME NEW c \in Call, CallEnded(c) PROVE Goal
  <2>1. /\ OnlyCall(c) /\ UNCHANGED <<call, callTodos>> /\ call[c].phase = "over"
        /\ table'[c] = Stub(c)
    BY <1>0, <1>6 DEF CallEnded, OnlyCall
  <2>2. CASE table[c].status = "none"
    <3>1. table'[c].status = "ended" BY <2>1, <2>2 DEF Stub
    <3>2. call[c].handling = "none" BY <2>2 DEF AllHandled, Handled
    <3>3. Handled(c)' BY <2>1, <3>1, <3>2 DEF Handled
    <3> QED BY <1>2, <2>1, <2>2, <3>3
  <2>3. CASE table[c].status # "none"
    <3>1. table'[c] = table[c] BY <2>1, <2>3 DEF Stub
    <3>2. Handled(c)' BY <2>1, <3>1 DEF AllHandled, Handled, Told
    <3> QED BY <1>2, <2>1, <3>1, <3>2
  <2> QED BY <2>2, <2>3
<1>7. ASSUME NEW c \in Call, CallAnalyzed(c) PROVE Goal
  <2>1. /\ OnlyCall(c) /\ call[c].phase = "over"
        /\ table'[c] = [status |-> "analyzed", answer |-> call[c].answer]
    BY <1>0, <1>7 DEF CallAnalyzed, OnlyCall
  <2>2. /\ call'[c].phase = "over" /\ call'[c].handling = "stored"
        /\ call'[c].answer = call[c].answer
    BY <1>0, <1>7, <2>1 DEF CallAnalyzed, CallType
  <2>3. Handled(c)' BY <2>1, <2>2 DEF Handled
  <2>4. Kept(c) BY <1>0, <2>1 DEF AllHandled, Handled, EntryType
  <2> QED BY <1>2, <2>1, <2>3, <2>4
<1>8. ASSUME NEW c \in Call, CallTodo(c) PROVE Goal
  <2>1. OnlyCall(c) /\ UNCHANGED table BY <1>0, <1>8 DEF CallTodo, OnlyCall
  <2>2. /\ call'[c].handling = "told" /\ call'[c].phase = call[c].phase
        /\ call'[c].answer = call[c].answer /\ call'[c].cancelled = call[c].cancelled
    BY <1>0, <1>8 DEF CallTodo, CallType
  <2>3. NeedsTodo(c) => callTodos'[c] > 0 BY <1>0, <1>8 DEF CallTodo
  <2>4. Told(c)' BY <2>2, <2>3 DEF Told, NeedsTodo
  <2>5. call[c].phase = "over" /\ table[c].status = "analyzed" /\ table[c].answer = call[c].answer
    BY <1>0, <1>8 DEF CallTodo, AllHandled, Handled
  <2>6. Handled(c)' BY <2>1, <2>2, <2>4, <2>5 DEF Handled
  <2> QED BY <1>2, <2>1, <2>6
<1>9. ASSUME NEW c \in Call, CallFollowUp(c) PROVE Goal
  <2>1. OnlyCall(c) /\ UNCHANGED <<table, callTodos>> BY <1>0, <1>9 DEF CallFollowUp, OnlyCall
  <2>2. /\ call'[c].handling = "none" /\ call'[c].phase = call[c].phase
        /\ call'[c].answer = call[c].answer /\ call'[c].cancelled = call[c].cancelled
    BY <1>0, <1>9 DEF CallFollowUp, CallType
  <2>3. call[c].handling = "told" BY <1>9 DEF CallFollowUp
  <2>4. Handled(c)' BY <2>1, <2>2, <2>3 DEF AllHandled, Handled, Told
  <2> QED BY <1>2, <2>1, <2>4
<1>10. ASSUME NEW c \in Call, HandlerDies(c) PROVE Goal
  <2>1. /\ OnlyCall(c) /\ UNCHANGED <<table, callTodos>> /\ call[c].handling # "none"
        /\ call' = [call EXCEPT ![c].handling = "none", ![c].lost = TRUE]
    BY <1>0, <1>10 DEF HandlerDies, OnlyCall
  <2>2. /\ call'[c].handling = "none" /\ call'[c].phase = call[c].phase
        /\ call'[c].answer = call[c].answer
    BY <1>0, <2>1 DEF CallType
  <2>3. call'[c].lost BY <1>0, <2>1 DEF CallType
  <2>4. call[c].phase = "over" BY <2>1 DEF AllHandled, Handled
  <2>5. Handled(c)' BY <2>1, <2>2, <2>3, <2>4 DEF AllHandled, Handled
  <2> QED BY <1>2, <2>1, <2>5
<1>11. ASSUME NEW c \in Call, LastWebhook(c) PROVE Goal
  <2>1. /\ OnlyCall(c) /\ call'[c] = NoCall /\ table'[c] = NoEntry
    BY <1>0, <1>11 DEF LastWebhook, OnlyCall
  <2>2. Handled(c)' /\ Kept(c) BY <2>1 DEF Handled, NoCall, NoEntry
  <2> QED BY <1>2, <2>1, <2>2
<1>12. CASE SweepStep \/ SweepDies
  BY <1>1, <1>12 DEF SweepStep, StartDaily, MarkLinkFailed, NextDay, FollowLink, SweepRecipient, SweepDies
<1>13. ASSUME NEW r \in Recipient, Send(r) \/ BulkSend(r) \/ ManualSend(r) \/ ResolveTodo(r) PROVE Goal
  BY <1>1, <1>13 DEF Send, BulkSend, ManualSend, ResolveTodo
<1>14. CASE UNCHANGED followVars BY <1>1, <1>14 DEF followVars
<1> QED
  BY <1>3, <1>4, <1>5, <1>6, <1>7, <1>8, <1>9, <1>10, <1>11, <1>12, <1>13, <1>14
  DEF FollowNext, Contact, Handle

LEMMA HandledAlways == FollowSpec => [](FollowTypes /\ AllHandled)
<1>1. FollowInit => AllHandled BY DEF FollowInit, AllHandled, Handled, NoCall, NoEntry
<1> QED BY <1>1, FollowTyped, HandledStep, PTL DEF FollowSpec

(* A call that did not end in a confirmation leaves somebody something to   *)
(* do, for every number of calls and in whatever order and however often    *)
(* its webhooks come, unless one of them died before it wrote the todo.     *)
THEOREM CallIsTold == FollowSpec => []TodoTold
<1>1. AllHandled => TodoTold BY DEF AllHandled, Handled, Told, TodoTold
<1> QED BY <1>1, HandledAlways, PTL

(* What the analysis of a call found stays in its row until Retell has      *)
(* nothing more to say about the call.                                      *)
THEOREM AnalysisStays == FollowSpec => AnalysisKept
<1>1. FollowTypes /\ AllHandled /\ [FollowNext]_followVars =>
        [\A c \in Call : table[c].status = "analyzed" /\ call'[c].phase # "free" =>
                         table'[c] = table[c]]_followVars
  BY HandledStep
<1> QED BY <1>1, HandledAlways, PTL DEF FollowSpec, AnalysisKept

-----------------------------------------------------------------------------
(* Visits: what is left of a handler.                                      *)

Has(s, B)       == \E i \in 1 .. Len(s) : s[i] \in B
Before(s, A, B) == \A i \in 1 .. Len(s) : s[i] \in A => \E j \in 1 .. Len(s) : i < j /\ s[j] \in B

\* The statements that may leave the status of the job behind, those that put
\* it right, and those that carry a time over to ServiceTrade.
Unsettling == {"confirm", "confirm each", "move", "set time", "create", "cancel", "open",
               "write job", "write visits", "confirm asked"}
Settling   == {"derive", "cancel job"}
Mirrors    == {"mirror move", "mirror create"}
Statement  == Unsettling \cup Settling \cup Mirrors \cup
              {"mirror cancel", "mirror job", "move job", "reopen", "read job", "read visits",
               "infer", "advance"}

\* Every handler puts the status right after it changed what it depends on, and
\* carries a new time over; the normalizer writes the visits it read, once.
PlanOK(a, s) ==
  /\ Before(s, Unsettling, Settling)
  /\ Before(s, {"move"}, Mirrors)
  /\ a # "desk" => Before(s, {"create"}, Mirrors)
  /\ a = "sync" =>
       /\ Before(s, {"read visits"}, {"write visits"}) /\ ~Has(s, Mirrors)
       /\ \A i, j \in 1 .. Len(s) :
            s[i] \in {"write visits", "advance"} /\ i < j => s[j] # "write visits"

LEMMA HasTail ==
  ASSUME NEW s \in Seq(Statement), s # <<>>, NEW B
  PROVE  Has(s, B) <=> Head(s) \in B \/ Has(Tail(s), B)
<1>1. Len(s) \in Nat /\ Len(s) > 0 /\ Len(Tail(s)) = Len(s) - 1 /\ Head(s) = s[1] OBVIOUS
<1>2. \A i \in 1 .. Len(Tail(s)) : Tail(s)[i] = s[i + 1] OBVIOUS
<1>3. ASSUME NEW i \in 1 .. Len(s), s[i] \in B PROVE Head(s) \in B \/ Has(Tail(s), B)
  <2>1. CASE i = 1 BY <1>1, <1>3, <2>1
  <2>2. CASE i # 1
    <3>1. i - 1 \in 1 .. Len(Tail(s)) BY <1>1, <2>2
    <3>2. Tail(s)[i - 1] = s[i] BY <1>1, <1>2, <3>1
    <3> QED BY <1>3, <3>1, <3>2 DEF Has
  <2> QED BY <2>1, <2>2
<1>4. ASSUME NEW i \in 1 .. Len(Tail(s)), Tail(s)[i] \in B PROVE Has(s, B)
  <2>1. i + 1 \in 1 .. Len(s) /\ s[i + 1] \in B BY <1>1, <1>2, <1>4
  <2> QED BY <2>1 DEF Has
<1>5. Head(s) \in B => Has(s, B)
  <2>1. 1 \in 1 .. Len(s) BY <1>1
  <2> QED BY <1>1, <2>1 DEF Has
<1> QED BY <1>3, <1>4, <1>5 DEF Has

LEMMA BeforeTail ==
  ASSUME NEW s \in Seq(Statement), s # <<>>, NEW A, NEW B, Before(s, A, B)
  PROVE  Before(Tail(s), A, B) /\ (Head(s) \in A => Has(Tail(s), B))
<1>1. Len(s) \in Nat /\ Len(s) > 0 /\ Len(Tail(s)) = Len(s) - 1 /\ Head(s) = s[1] OBVIOUS
<1>2. \A i \in 1 .. Len(Tail(s)) : Tail(s)[i] = s[i + 1] OBVIOUS
<1>3. ASSUME NEW i \in 1 .. Len(Tail(s)), Tail(s)[i] \in A
      PROVE  \E j \in 1 .. Len(Tail(s)) : i < j /\ Tail(s)[j] \in B
  <2>1. i + 1 \in 1 .. Len(s) /\ s[i + 1] \in A BY <1>1, <1>2, <1>3
  <2>2. PICK j \in 1 .. Len(s) : i + 1 < j /\ s[j] \in B BY <2>1 DEF Before
  <2>3. j - 1 \in 1 .. Len(Tail(s)) /\ i < j - 1 BY <1>1, <2>2
  <2>4. Tail(s)[j - 1] = s[j] BY <1>1, <1>2, <2>3
  <2> QED BY <2>2, <2>3, <2>4
<1>4. ASSUME Head(s) \in A PROVE Has(Tail(s), B)
  <2>1. PICK j \in 1 .. Len(s) : 1 < j /\ s[j] \in B BY <1>1, <1>4 DEF Before
  <2>2. j - 1 \in 1 .. Len(Tail(s)) BY <1>1, <2>1
  <2>3. Tail(s)[j - 1] = s[j] BY <1>1, <1>2, <2>2
  <2> QED BY <2>1, <2>2, <2>3 DEF Has
<1> QED BY <1>3, <1>4 DEF Before

\* What a handler still has to do after a statement.
LEMMA PlanTail ==
  ASSUME NEW a, NEW s \in Seq(Statement), s # <<>>, PlanOK(a, s)
  PROVE  /\ PlanOK(a, Tail(s))
         /\ Head(s) \in Unsettling => Has(Tail(s), Settling)
         /\ Head(s) = "move" => Has(Tail(s), Mirrors)
         /\ Head(s) = "create" /\ a # "desk" => Has(Tail(s), Mirrors)
         /\ a = "sync" => /\ Head(s) = "read visits" => Has(Tail(s), {"write visits"})
                          /\ Head(s) \in {"write visits", "advance"} => ~Has(Tail(s), {"write visits"})
<1>1. Len(s) \in Nat /\ Len(s) > 0 /\ Len(Tail(s)) = Len(s) - 1 /\ Head(s) = s[1] OBVIOUS
<1>2. \A i \in 1 .. Len(Tail(s)) : Tail(s)[i] = s[i + 1] OBVIOUS
<1>3. /\ Before(Tail(s), Unsettling, Settling) /\ Before(Tail(s), {"move"}, Mirrors)
      /\ a # "desk" => Before(Tail(s), {"create"}, Mirrors)
      /\ Head(s) \in Unsettling => Has(Tail(s), Settling)
      /\ Head(s) = "move" => Has(Tail(s), Mirrors)
      /\ Head(s) = "create" /\ a # "desk" => Has(Tail(s), Mirrors)
  BY BeforeTail DEF PlanOK
<1>4. ASSUME a = "sync"
      PROVE  /\ Before(Tail(s), {"read visits"}, {"write visits"}) /\ ~Has(Tail(s), Mirrors)
             /\ Head(s) = "read visits" => Has(Tail(s), {"write visits"})
  BY <1>4, BeforeTail, HasTail DEF PlanOK
<1>5. ASSUME a = "sync", NEW i \in 1 .. Len(Tail(s)), NEW j \in 1 .. Len(Tail(s)),
             Tail(s)[i] \in {"write visits", "advance"}, i < j
      PROVE  Tail(s)[j] # "write visits"
  <2>0. i < j BY <1>5, Zenon
  <2>1. i + 1 \in 1 .. Len(s) /\ j + 1 \in 1 .. Len(s) /\ i + 1 < j + 1 BY <1>1, <2>0
  <2> QED BY <1>2, <1>5, <2>1 DEF PlanOK
<1>6. ASSUME a = "sync", Head(s) \in {"write visits", "advance"}, NEW j \in 1 .. Len(Tail(s))
      PROVE  Tail(s)[j] # "write visits"
  <2>1. 1 \in 1 .. Len(s) /\ j + 1 \in 1 .. Len(s) /\ 1 < j + 1 BY <1>1
  <2> QED BY <1>1, <1>2, <1>6, <2>1 DEF PlanOK
<1>7. a = "sync" /\ Head(s) \in {"write visits", "advance"} => ~Has(Tail(s), {"write visits"})
  BY <1>6 DEF Has
<1>8. PlanOK(a, Tail(s)) BY <1>3, <1>4, <1>5 DEF PlanOK
<1> QED BY <1>3, <1>4, <1>7, <1>8

\* The handlers are planned so.
LEMMA SeqTyped ==
  /\ \A S : \A x, y \in S : <<x, y>> \in Seq(S)
  /\ \A S : \A x, y, z \in S : <<x, y, z>> \in Seq(S)
  /\ \A S : \A w, x, y, z \in S : <<w, x, y, z>> \in Seq(S)
OBVIOUS

LEMMA BeforeInTwo ==
  ASSUME NEW x, NEW y, NEW A, NEW B, x \in A => y \in B, y \notin A
  PROVE  Before(<<x, y>>, A, B)
BY DEF Before

LEMMA BeforeInThree ==
  ASSUME NEW x, NEW y, NEW z, NEW A, NEW B,
         x \in A => y \in B \/ z \in B, y \in A => z \in B, z \notin A
  PROVE  Before(<<x, y, z>>, A, B)
BY DEF Before

LEMMA BeforeInFour ==
  ASSUME NEW w, NEW x, NEW y, NEW z, NEW A, NEW B,
         w \in A => x \in B \/ y \in B \/ z \in B, x \in A => y \in B \/ z \in B,
         y \in A => z \in B, z \notin A
  PROVE  Before(<<w, x, y, z>>, A, B)
BY DEF Before

LEMMA ConfirmPlanned ==
  ASSUME NEW a \in Actor, a # "sync", NEW x \in {"confirm", "confirm each", "set time"}
  PROVE  <<x, "derive">> \in Seq(Statement) /\ PlanOK(a, <<x, "derive">>)
<1>0. {"confirm", "confirm each", "set time"} \subseteq Unsettling BY DEF Unsettling
<1>1. x \in Statement /\ "derive" \in Statement BY <1>0 DEF Statement, Settling
<1>2. <<x, "derive">> \in Seq(Statement) BY <1>1, SeqTyped
<1>3. "derive" \in Settling /\ "derive" \notin Unsettling BY DEF Settling, Unsettling
<1>4. Before(<<x, "derive">>, Unsettling, Settling) BY <1>3, BeforeInTwo
<1>5. x \notin {"move"} /\ x \notin {"create"} /\ "derive" \notin {"move"} /\ "derive" \notin {"create"}
  OBVIOUS
<1>6. Before(<<x, "derive">>, {"move"}, Mirrors) /\ Before(<<x, "derive">>, {"create"}, Mirrors)
  BY <1>5, BeforeInTwo
<1> QED BY <1>2, <1>4, <1>6 DEF PlanOK

LEMMA MovePlanned ==
  ASSUME NEW a \in Actor, a # "sync"
  PROVE  <<"move", "mirror move", "derive">> \in Seq(Statement)
         /\ PlanOK(a, <<"move", "mirror move", "derive">>)
<1>1. /\ "move" \in Statement /\ "mirror move" \in Statement /\ "derive" \in Statement
      /\ "mirror move" \in Mirrors /\ "derive" \in Settling /\ "derive" \notin Unsettling
  BY DEF Statement, Unsettling, Settling, Mirrors
<1>2. <<"move", "mirror move", "derive">> \in Seq(Statement) BY <1>1, SeqTyped
<1>3. Before(<<"move", "mirror move", "derive">>, Unsettling, Settling) BY <1>1, BeforeInThree
<1>4. /\ Before(<<"move", "mirror move", "derive">>, {"move"}, Mirrors)
      /\ Before(<<"move", "mirror move", "derive">>, {"create"}, Mirrors)
  BY <1>1, BeforeInThree
<1> QED BY <1>2, <1>3, <1>4 DEF PlanOK

LEMMA CreatePlanned ==
  ASSUME NEW a \in Actor, a # "sync"
  PROVE  <<"create", "open", "derive", "mirror create">> \in Seq(Statement)
         /\ PlanOK(a, <<"create", "open", "derive", "mirror create">>)
<1>1. /\ "create" \in Statement /\ "open" \in Statement /\ "derive" \in Statement
      /\ "mirror create" \in Statement /\ "mirror create" \in Mirrors /\ "derive" \in Settling
      /\ "derive" \notin Unsettling /\ "mirror create" \notin Unsettling
  BY DEF Statement, Unsettling, Settling, Mirrors
<1>2. <<"create", "open", "derive", "mirror create">> \in Seq(Statement) BY <1>1, SeqTyped
<1>3. Before(<<"create", "open", "derive", "mirror create">>, Unsettling, Settling)
  BY <1>1, BeforeInFour
<1>4. /\ Before(<<"create", "open", "derive", "mirror create">>, {"move"}, Mirrors)
      /\ Before(<<"create", "open", "derive", "mirror create">>, {"create"}, Mirrors)
  BY <1>1, BeforeInFour
<1> QED BY <1>2, <1>3, <1>4 DEF PlanOK

LEMMA CancelPlanned ==
  ASSUME NEW a \in Actor, a # "sync"
  PROVE  <<"cancel", "derive", "mirror cancel">> \in Seq(Statement)
         /\ PlanOK(a, <<"cancel", "derive", "mirror cancel">>)
<1>1. /\ "cancel" \in Statement /\ "derive" \in Statement /\ "mirror cancel" \in Statement
      /\ "derive" \in Settling /\ "derive" \notin Unsettling /\ "mirror cancel" \notin Unsettling
  BY DEF Statement, Unsettling, Settling
<1>2. <<"cancel", "derive", "mirror cancel">> \in Seq(Statement) BY <1>1, SeqTyped
<1>3. Before(<<"cancel", "derive", "mirror cancel">>, Unsettling, Settling) BY <1>1, BeforeInThree
<1>4. /\ Before(<<"cancel", "derive", "mirror cancel">>, {"move"}, Mirrors)
      /\ Before(<<"cancel", "derive", "mirror cancel">>, {"create"}, Mirrors)
  BY BeforeInThree
<1> QED BY <1>2, <1>3, <1>4 DEF PlanOK

LEMMA CancelJobPlanned ==
  ASSUME NEW a \in Actor, a # "sync"
  PROVE  <<"cancel", "cancel job", "mirror cancel", "mirror job">> \in Seq(Statement)
         /\ PlanOK(a, <<"cancel", "cancel job", "mirror cancel", "mirror job">>)
<1>1. /\ "cancel" \in Statement /\ "cancel job" \in Statement /\ "mirror cancel" \in Statement
      /\ "mirror job" \in Statement /\ "cancel job" \in Settling
      /\ "cancel job" \notin Unsettling /\ "mirror cancel" \notin Unsettling
      /\ "mirror job" \notin Unsettling
  BY DEF Statement, Unsettling, Settling
<1>2. <<"cancel", "cancel job", "mirror cancel", "mirror job">> \in Seq(Statement) BY <1>1, SeqTyped
<1>3. Before(<<"cancel", "cancel job", "mirror cancel", "mirror job">>, Unsettling, Settling)
  BY <1>1, BeforeInFour
<1>4. /\ Before(<<"cancel", "cancel job", "mirror cancel", "mirror job">>, {"move"}, Mirrors)
      /\ Before(<<"cancel", "cancel job", "mirror cancel", "mirror job">>, {"create"}, Mirrors)
  BY BeforeInFour
<1> QED BY <1>2, <1>3, <1>4 DEF PlanOK

LEMMA MoveJobPlanned ==
  ASSUME NEW a \in Actor, a # "sync"
  PROVE  <<"move job", "mirror job">> \in Seq(Statement)
         /\ PlanOK(a, <<"move job", "mirror job">>)
<1>1. /\ "move job" \in Statement /\ "mirror job" \in Statement
      /\ "move job" \notin Unsettling /\ "mirror job" \notin Unsettling
  BY DEF Statement, Unsettling
<1>2. <<"move job", "mirror job">> \in Seq(Statement) BY <1>1, SeqTyped
<1>3. Before(<<"move job", "mirror job">>, Unsettling, Settling) BY <1>1, BeforeInTwo
<1>4. /\ Before(<<"move job", "mirror job">>, {"move"}, Mirrors)
      /\ Before(<<"move job", "mirror job">>, {"create"}, Mirrors)
  BY BeforeInTwo
<1> QED BY <1>2, <1>3, <1>4 DEF PlanOK

LEMMA DeskPlanned ==
  ASSUME "desk" \in Actor,
         NEW x \in {<<"cancel", "reopen", "derive">>, <<"create", "open", "derive">>}
  PROVE  x \in Seq(Statement) /\ PlanOK("desk", x)
<1>1. /\ "cancel" \in Statement /\ "reopen" \in Statement /\ "derive" \in Statement
      /\ "create" \in Statement /\ "open" \in Statement
      /\ "derive" \in Settling /\ "derive" \notin Unsettling
  BY DEF Statement, Unsettling, Settling
<1>2. /\ <<"cancel", "reopen", "derive">> \in Seq(Statement)
      /\ <<"create", "open", "derive">> \in Seq(Statement)
  BY <1>1, SeqTyped
<1>3. /\ Before(<<"cancel", "reopen", "derive">>, Unsettling, Settling)
      /\ Before(<<"create", "open", "derive">>, Unsettling, Settling)
  BY <1>1, BeforeInThree
<1>4. /\ Before(<<"cancel", "reopen", "derive">>, {"move"}, Mirrors)
      /\ Before(<<"create", "open", "derive">>, {"move"}, Mirrors)
  BY BeforeInThree
<1> QED BY <1>2, <1>3, <1>4 DEF PlanOK

\* The normalizer.
LEMMA SeqOfEight ==
  ASSUME NEW S, NEW a \in S, NEW b \in S, NEW c \in S, NEW d \in S, NEW e \in S, NEW f \in S,
         NEW g \in S, NEW h \in S
  PROVE  <<a, b, c, d, e, f, g, h>> \in Seq(S)
OBVIOUS

LEMMA InEight ==
  ASSUME NEW s, NEW A, NEW B, Len(s) = 8
  PROVE  /\ s[7] \in B /\ s[7] \notin A /\ s[8] \notin A => Before(s, A, B)
         /\ s[4] \in B /\ s[4] \notin A /\ s[5] \notin A /\ s[6] \notin A /\ s[7] \notin A
              /\ s[8] \notin A => Before(s, A, B)
         /\ s[1] \notin A /\ s[2] \notin A /\ s[3] \notin A /\ s[4] \notin A /\ s[5] \notin A
              /\ s[6] \notin A /\ s[7] \notin A /\ s[8] \notin A => ~Has(s, A) /\ Before(s, A, B)
         /\ s[4] \in A => Has(s, A)
         /\ s[1] \notin A /\ s[2] \notin A /\ s[3] \notin A /\ s[5] \notin B /\ s[6] \notin B
              /\ s[7] \notin B /\ s[8] \notin B =>
                \A i, j \in 1 .. Len(s) : s[i] \in A /\ i < j => s[j] \notin B
BY DEF Before, Has

LEMMA NormalizePlanned ==
  Normalize \in Seq(Statement) /\ PlanOK("sync", Normalize) /\ Has(Normalize, {"write visits"})
<1> DEFINE s == Normalize
<1>1. /\ Len(s) = 8 /\ s[1] = "read job" /\ s[2] = "write job" /\ s[3] = "read visits"
      /\ s[4] = "write visits" /\ s[5] = "infer" /\ s[6] = "write job" /\ s[7] = "derive"
      /\ s[8] = "advance"
  BY DEF Normalize
<1>2. /\ "read job" \in Statement /\ "write job" \in Statement /\ "read visits" \in Statement
      /\ "write visits" \in Statement /\ "infer" \in Statement /\ "derive" \in Statement
      /\ "advance" \in Statement
  BY DEF Statement, Unsettling, Settling
<1>3. s \in Seq(Statement) BY <1>2, SeqOfEight DEF Normalize
<1> HIDE DEF s
<1>4. s[7] \in Settling /\ s[7] \notin Unsettling /\ s[8] \notin Unsettling
  BY <1>1 DEF Unsettling, Settling
<1>5. Before(s, Unsettling, Settling) BY <1>1, <1>4, InEight
<1>6. ASSUME NEW A \in {{"move"}, {"create"}, Mirrors}
      PROVE  ~Has(s, A) /\ Before(s, A, Mirrors)
  <2>1. /\ s[1] \notin A /\ s[2] \notin A /\ s[3] \notin A /\ s[4] \notin A /\ s[5] \notin A
        /\ s[6] \notin A /\ s[7] \notin A /\ s[8] \notin A
    BY <1>1 DEF Mirrors
  <2> QED BY <1>1, <2>1, InEight
<1>7. Before(s, {"read visits"}, {"write visits"}) /\ Has(s, {"write visits"})
  BY <1>1, InEight
<1>8. \A i, j \in 1 .. Len(s) : s[i] \in {"write visits", "advance"} /\ i < j => s[j] \notin {"write visits"}
  <2> DEFINE A == {"write visits", "advance"}
  <2> DEFINE B == {"write visits"}
  <2>1. /\ s[1] \notin A /\ s[2] \notin A /\ s[3] \notin A /\ s[5] \notin B /\ s[6] \notin B
        /\ s[7] \notin B /\ s[8] \notin B
    BY <1>1
  <2> HIDE DEF A, B
  <2>2. \A i, j \in 1 .. Len(s) : s[i] \in A /\ i < j => s[j] \notin B BY <1>1, <2>1, InEight
  <2> QED BY <2>2 DEF A, B
<1> QED BY <1>3, <1>5, <1>6, <1>7, <1>8 DEF PlanOK, s

LEMMA TwoBefore ==
  ASSUME NEW S, NEW h \in Seq(S), NEW t \in Seq(S), Len(h) = 2
  PROVE  /\ h \o t \in Seq(S) /\ Len(t) \in Nat /\ Len(h \o t) = Len(t) + 2
         /\ (h \o t)[1] = h[1] /\ (h \o t)[2] = h[2]
         /\ \A i \in 1 .. Len(t) : (h \o t)[i + 2] = t[i]
<1>0. h \o t \in Seq(S) /\ Len(h \o t) = Len(h) + Len(t) BY ConcatProperties
<1>1. Len(t) \in Nat /\ h \o t \in Seq(S) /\ Len(h \o t) = Len(t) + 2
  <2>1. Len(t) \in Nat OBVIOUS
  <2> QED BY <1>0, <2>1
<1>2. \A i \in 1 .. Len(h \o t) : (h \o t)[i] = IF i <= 2 THEN h[i] ELSE t[i - 2]
  <2>1. \A i \in 1 .. Len(h) + Len(t) : (h \o t)[i] = IF i <= Len(h) THEN h[i] ELSE t[i - Len(h)]
    BY ConcatProperties
  <2> QED BY <1>0, <2>1
<1>3. ASSUME NEW i \in 1 .. Len(t) PROVE (h \o t)[i + 2] = t[i]
  <2>1. i + 2 \in 1 .. Len(h \o t) /\ ~(i + 2 <= 2) /\ (i + 2) - 2 = i BY <1>1
  <2> QED BY <1>2, <2>1
<1>4. 1 \in 1 .. Len(h \o t) /\ 2 \in 1 .. Len(h \o t) BY <1>1
<1> QED BY <1>1, <1>2, <1>3, <1>4

\* What is left of it when comments confirm visits first.
LEMMA InferredPlanned ==
  ASSUME NEW t \in Seq(Statement), PlanOK("sync", t)
  PROVE  /\ Inferred \o t \in Seq(Statement) /\ PlanOK("sync", Inferred \o t)
         /\ Has(Inferred \o t, {"write visits"}) <=> Has(t, {"write visits"})
<1> DEFINE s == Inferred \o t
<1>1. Inferred = <<"confirm asked", "derive">> BY DEF Inferred
<1>2. "confirm asked" \in Statement /\ "derive" \in Statement
  BY DEF Statement, Unsettling, Settling
<1>3. Inferred \in Seq(Statement) BY <1>1, <1>2, SeqTyped
<1>4. Len(Inferred) = 2 /\ Inferred[1] = "confirm asked" /\ Inferred[2] = "derive" BY <1>1
<1>5. /\ s \in Seq(Statement) /\ Len(t) \in Nat /\ Len(s) = Len(t) + 2
      /\ s[1] = Inferred[1] /\ s[2] = Inferred[2]
      /\ \A i \in 1 .. Len(t) : s[i + 2] = t[i]
  BY <1>3, <1>4, TwoBefore
<1> HIDE DEF s
<1>6. \A i \in 1 .. Len(s) : i = 1 \/ i = 2 \/ (i - 2 \in 1 .. Len(t) /\ s[i] = t[i - 2])
  BY <1>5
<1>7. ASSUME NEW A, NEW B, Before(t, A, B), s[1] \in A => s[2] \in B, s[2] \notin A
      PROVE  Before(s, A, B)
  <2> SUFFICES ASSUME NEW i \in 1 .. Len(s), s[i] \in A
               PROVE  \E j \in 1 .. Len(s) : i < j /\ s[j] \in B
    BY DEF Before
  <2>1. CASE i = 1
    <3>1. 2 \in 1 .. Len(s) /\ i < 2 /\ s[2] \in B BY <1>5, <1>7, <2>1
    <3> QED BY <3>1
  <2>2. CASE i # 1
    <3>1. i # 2 BY <1>7
    <3>2. i - 2 \in 1 .. Len(t) /\ t[i - 2] \in A BY <1>6, <2>2, <3>1
    <3>3. PICK j \in 1 .. Len(t) : i - 2 < j /\ t[j] \in B BY <1>7, <3>2 DEF Before
    <3>4. j + 2 \in 1 .. Len(s) /\ i < j + 2 BY <1>5, <3>3
    <3> QED BY <1>5, <3>3, <3>4
  <2> QED BY <2>1, <2>2
<1>8. ASSUME NEW B, s[1] \notin B, s[2] \notin B PROVE Has(s, B) <=> Has(t, B)
  <2>1. ASSUME NEW i \in 1 .. Len(s), s[i] \in B PROVE Has(t, B)
    <3>1. i # 1 /\ i # 2 BY <1>8, <2>1
    <3>2. i - 2 \in 1 .. Len(t) /\ t[i - 2] \in B BY <1>6, <2>1, <3>1
    <3> QED BY <3>2 DEF Has
  <2>2. ASSUME NEW i \in 1 .. Len(t), t[i] \in B PROVE Has(s, B)
    <3>1. i + 2 \in 1 .. Len(s) /\ s[i + 2] \in B BY <1>5, <2>2
    <3> QED BY <3>1 DEF Has
  <2> QED BY <2>1, <2>2 DEF Has
<1>9. /\ s[2] \in Settling /\ s[2] \notin Unsettling /\ s[1] \notin Mirrors /\ s[2] \notin Mirrors
      /\ s[1] \notin {"move"} /\ s[2] \notin {"move"} /\ s[1] \notin {"create"} /\ s[2] \notin {"create"}
      /\ s[1] \notin {"read visits"} /\ s[2] \notin {"read visits"}
      /\ s[1] \notin {"write visits"} /\ s[2] \notin {"write visits"}
      /\ s[1] \notin {"write visits", "advance"} /\ s[2] \notin {"write visits", "advance"}
  <2>1. s[1] = "confirm asked" /\ s[2] = "derive" BY <1>4, <1>5
  <2> QED BY ONLY <2>1 DEF Settling, Unsettling, Mirrors
<1>10. /\ Before(s, Unsettling, Settling) /\ Before(s, {"move"}, Mirrors)
       /\ Before(s, {"create"}, Mirrors) /\ Before(s, {"read visits"}, {"write visits"})
  BY <1>7, <1>9 DEF PlanOK
<1>11. ~Has(s, Mirrors) /\ (Has(s, {"write visits"}) <=> Has(t, {"write visits"}))
  BY <1>8, <1>9 DEF PlanOK
<1>12. ASSUME NEW i \in 1 .. Len(s), NEW j \in 1 .. Len(s), s[i] \in {"write visits", "advance"}, i < j
       PROVE  s[j] # "write visits"
  <2>0. i < j BY <1>12, Zenon
  <2>1. i # 1 /\ i # 2 BY <1>9, <1>12
  <2>2. i - 2 \in 1 .. Len(t) /\ j - 2 \in 1 .. Len(t) /\ i - 2 < j - 2 BY <1>5, <2>0, <2>1
  <2>3. s[i] = t[i - 2] /\ s[j] = t[j - 2] BY <1>6, <2>0, <2>1
  <2> QED BY <1>12, <2>2, <2>3 DEF PlanOK
<1> QED BY <1>5, <1>10, <1>11, <1>12 DEF PlanOK, s

-----------------------------------------------------------------------------
(* Visits: types.                                                          *)

WorkType == [targets : SUBSET Visit, left : SUBSET Visit, slot : Slot \cup {0},
             steps : Seq(Statement)]
RowsType == [job : {"scheduled", "completed", "canceled"}, visits : [Visit -> CopyRow],
             behind : SUBSET {"job", "visits"}, above : SUBSET {"job", "visits"}]

\* A handler works on visits there are; the normalizer is not one that goes
\* from visit to visit.
HandlerOK(a) == /\ work[a].left \subseteq work[a].targets
                /\ a = "sync" => work[a].left = {}
                /\ PlanOK(a, work[a].steps)

WorkOK == work \in [Actor -> WorkType] /\ \A a \in Actor : HandlerOK(a)

VisitTypes == VisitTypeOK /\ rows \in RowsType /\ WorkOK

LEMMA EmptyPlanned == ASSUME NEW a PROVE <<>> \in Seq(Statement) /\ PlanOK(a, <<>>)
BY DEF PlanOK, Before, Has

LEMMA RestTyped == Rest \in WorkType /\ Rest.steps = <<>> /\ Rest.left = {} /\ Rest.targets = {}
BY EmptyPlanned DEF Rest, WorkType

Others(a) == \A b \in Actor \ {a} : work'[b] = work[b]

\* An actor's handler becomes another one.
LEMMA WorkChanged ==
  ASSUME WorkOK, NEW a \in Actor, NEW new \in WorkType, work' = [work EXCEPT ![a] = new],
         new.left \subseteq new.targets, a = "sync" => new.left = {}, PlanOK(a, new.steps)
  PROVE  /\ WorkOK' /\ work'[a] = new
         /\ \A b \in Actor \ {a} : work'[b] = work[b]
<1>1. work' \in [Actor -> WorkType] /\ work'[a] = new /\ \A b \in Actor \ {a} : work'[b] = work[b]
  BY DEF WorkOK
<1>2. \A b \in Actor : HandlerOK(b)' BY <1>1 DEF WorkOK, HandlerOK
<1> QED BY <1>1, <1>2 DEF WorkOK

\* An actor's handler comes to its end.
LEMMA Rested ==
  ASSUME WorkOK, NEW a \in Actor, work' = [work EXCEPT ![a] = Rest]
  PROVE  WorkOK' /\ work'[a] = Rest /\ Others(a)
<1>1. /\ Rest \in WorkType /\ Rest.left \subseteq Rest.targets
      /\ (a = "sync" => Rest.left = {}) /\ PlanOK(a, Rest.steps)
  BY RestTyped, EmptyPlanned
<1> QED BY <1>1, WorkChanged DEF Others

\* A handler went on to its next statement, or is at its end.
Went(a) ==
  /\ WorkOK' /\ Others(a)
  /\ work'[a].steps = Tail(work[a].steps)
  /\ work'[a].steps = <<>> \/ work'[a].targets = work[a].targets
  /\ work'[a].targets \subseteq work[a].targets

LEMMA AdvanceStep ==
  ASSUME WorkOK, NEW a \in Actor, Busy(a), Advance(a)
  PROVE  Went(a)
<1> DEFINE s == work[a].steps
<1>0. work[a] \in WorkType /\ HandlerOK(a) BY DEF WorkOK
<1>1. /\ s \in Seq(Statement) /\ s # <<>> /\ PlanOK(a, s)
      /\ work[a].left \subseteq work[a].targets /\ (a = "sync" => work[a].left = {})
  BY <1>0 DEF WorkType, HandlerOK, Busy
<1> DEFINE rest == Tail(s)
<1>2. rest \in Seq(Statement) /\ PlanOK(a, rest)
  <2>1. PlanOK(a, rest) BY <1>1, PlanTail
  <2>2. rest \in Seq(Statement) BY <1>1
  <2> QED BY <2>1, <2>2
<1> DEFINE next == [work[a] EXCEPT !.steps = rest]
<1> HIDE DEF rest
<1>3. /\ next \in WorkType /\ next.steps = rest /\ next.targets = work[a].targets
      /\ next.left = work[a].left
  BY <1>0, <1>2 DEF WorkType
<1>4. CASE Len(s) = 1
  <2>0. Len(Tail(s)) = 0
    <3>1. \A q \in Seq(Statement) : q # <<>> => Len(Tail(q)) = Len(q) - 1 OBVIOUS
    <3> QED BY <1>1, <1>4, <3>1
  <2>1. rest = <<>> BY <1>2, <2>0, EmptySeq DEF rest
  <2>2. work' = [work EXCEPT ![a] = Rest] BY <1>4 DEF Advance
  <2>3. WorkOK' /\ work'[a] = Rest /\ Others(a)
    BY <2>2, Rested
  <2> QED BY <2>1, <2>3, RestTyped DEF Went, rest
<1>5. CASE Len(s) # 1
  <2>1. work' = [work EXCEPT ![a] = next] BY <1>5 DEF Advance, rest
  <2> HIDE DEF next
  <2>2. WorkOK' /\ work'[a] = next /\ Others(a) BY <1>1, <1>2, <1>3, <2>1, WorkChanged DEF Others
  <2> QED BY <1>3, <2>2 DEF Went, rest
<1> QED BY <1>4, <1>5

\* A handler begins on visits there are.
LEMMA BeginStep ==
  ASSUME VisitTypes, NEW a \in Actor, NEW S \in SUBSET Visit, NEW t \in Slot \cup {0},
         NEW steps \in Seq(Statement), PlanOK(a, steps), a # "sync", Begin(a, S, t, steps)
  PROVE  /\ VisitTypes' /\ Others(a) /\ ~Busy(a)
         /\ work'[a].targets = S /\ work'[a].steps = steps
         /\ UNCHANGED <<copies, visit, past, job, crmTodo, unsynced, history>>
<1> DEFINE new == [targets |-> S, left |-> S, slot |-> t, steps |-> steps]
<1>1. new \in WorkType /\ new.targets = S /\ new.left = S /\ new.steps = steps BY DEF WorkType
<1>2. work' = [work EXCEPT ![a] = new] BY DEF Begin
<1> HIDE DEF new
<1>3. WorkOK' /\ work'[a] = new /\ Others(a)
  BY <1>1, <1>2, WorkChanged DEF VisitTypes, Others
<1>4. events' \in 0 .. MaxEvents BY VisitAssumption DEF Begin, Event, VisitTypes, VisitTypeOK
<1>5. UNCHANGED <<copies, visit, past, job, crmTodo, unsynced, history>> /\ ~Busy(a)
  BY DEF Begin, Free
<1>6. \A b \in Actor : work'[b].left \subseteq work'[b].targets BY <1>3 DEF WorkOK, HandlerOK
<1>7. VisitTypes'
  BY <1>3, <1>4, <1>5, <1>6 DEF VisitTypes, VisitTypeOK, copies, history
<1> QED BY <1>1, <1>3, <1>5, <1>7

\* What people start.
PersonBegins(a) ==
  /\ Others(a) /\ ~Busy(a)
  /\ work'[a].targets \subseteq {v \in Visit : Exists(v)} \/ ~Has(work'[a].steps, {"cancel"})
  /\ UNCHANGED <<copies, visit, past, job, crmTodo, unsynced, history>>

LEMMA PersonStep ==
  ASSUME VisitTypes, NEW a \in Actor, a # "sync", NEW S \in SUBSET Visit, NEW t \in Slot \cup {0},
         NEW steps \in Seq(Statement), PlanOK(a, steps), Begin(a, S, t, steps),
         (\A v \in S : Exists(v)) \/ ~Has(steps, {"cancel"})
  PROVE  VisitTypes' /\ PersonBegins(a)
BY BeginStep DEF PersonBegins

LEMMA WithoutStatement ==
  ASSUME NEW B
  PROVE  /\ \A x, y : x \notin B /\ y \notin B => ~Has(<<x, y>>, B)
         /\ \A x, y, z : x \notin B /\ y \notin B /\ z \notin B => ~Has(<<x, y, z>>, B)
         /\ \A w, x, y, z : w \notin B /\ x \notin B /\ y \notin B /\ z \notin B =>
              ~Has(<<w, x, y, z>>, B)
BY DEF Has

LEMMA NotCancelling ==
  /\ \A x \in {"confirm", "confirm each", "set time", "move job"} :
       \A y \in {"derive", "mirror job"} : ~Has(<<x, y>>, {"cancel"})
  /\ ~Has(<<"move", "mirror move", "derive">>, {"cancel"})
  /\ ~Has(<<"create", "open", "derive">>, {"cancel"})
  /\ ~Has(<<"create", "open", "derive", "mirror create">>, {"cancel"})
BY WithoutStatement

LEMMA VoiceStep ==
  ASSUME VisitTypes, "voice" \in Actor,
         VoiceToolJob \/ \E v \in Visit, t \in Slot : VoiceTool(v, t)
  PROVE  VisitTypes' /\ PersonBegins("voice")
<1>1. CASE VoiceToolJob
  <2>1. PICK S \in SUBSET Asked \ {{}} : Begin("voice", S, 0, <<"confirm each", "derive">>)
    BY <1>1 DEF VoiceToolJob, VoiceConfirmJob
  <2>2. S \in SUBSET Visit BY DEF Asked
  <2> QED BY <2>1, <2>2, ConfirmPlanned, PersonStep, NotCancelling
<1>2. ASSUME NEW v \in Visit, NEW t \in Slot, VoiceTool(v, t)
      PROVE  VisitTypes' /\ PersonBegins("voice")
  <2>0. {v} \in SUBSET Visit /\ {} \in SUBSET Visit /\ 0 \in Slot \cup {0} /\ t \in Slot \cup {0}
    OBVIOUS
  <2>1. CASE Exists(v) /\ Begin("voice", {v}, 0, <<"confirm", "derive">>)
    BY <2>0, <2>1, ConfirmPlanned, PersonStep
  <2>2. CASE Exists(v) /\ Begin("voice", {v}, t, <<"move", "mirror move", "derive">>)
    BY <2>0, <2>2, MovePlanned, PersonStep
  <2>3. CASE Exists(v) /\ Begin("voice", {v}, 0, <<"cancel", "derive", "mirror cancel">>)
    BY <2>0, <2>3, CancelPlanned, PersonStep
  <2>4. CASE Exists(v) /\ Begin("voice", {v}, 0, <<"cancel", "cancel job", "mirror cancel", "mirror job">>)
    BY <2>0, <2>4, CancelJobPlanned, PersonStep
  <2>5. CASE Begin("voice", {v}, t, <<"create", "open", "derive", "mirror create">>)
    BY <2>0, <2>5, CreatePlanned, PersonStep, NotCancelling
  <2>6. CASE Begin("voice", {}, 0, <<"move job", "mirror job">>)
    BY <2>0, <2>6, MoveJobPlanned, PersonStep
  <2> QED BY <1>2, <2>1, <2>2, <2>3, <2>4, <2>5, <2>6
          DEF VoiceTool, VoiceConfirm, VoiceReschedule, VoiceCancel, VoiceCancelJob, VoiceCreate,
              RescheduleJob
<1> QED BY <1>1, <1>2

LEMMA ChatStep ==
  ASSUME VisitTypes, "chat" \in Actor,
         ChatToolJob \/ \E v \in Visit, t \in Slot : ChatTool(v, t)
  PROVE  VisitTypes' /\ PersonBegins("chat")
<1>1. CASE ChatToolJob
  <2>1. PICK S \in SUBSET Asked \ {{}} : Begin("chat", S, 0, <<"confirm", "derive">>)
    BY <1>1 DEF ChatToolJob, ChatConfirmJob
  <2>2. S \in SUBSET Visit BY DEF Asked
  <2> QED BY <2>1, <2>2, ConfirmPlanned, PersonStep, NotCancelling
<1>2. ASSUME NEW v \in Visit, NEW t \in Slot, ChatTool(v, t)
      PROVE  VisitTypes' /\ PersonBegins("chat")
  <2>0. {v} \in SUBSET Visit /\ {} \in SUBSET Visit /\ 0 \in Slot \cup {0} /\ t \in Slot \cup {0}
    OBVIOUS
  <2>1. CASE Exists(v) /\ Begin("chat", {v}, 0, <<"confirm", "derive">>)
    BY <2>0, <2>1, ConfirmPlanned, PersonStep
  <2>2. CASE Exists(v) /\ Begin("chat", {v}, t, <<"move", "mirror move", "derive">>)
    BY <2>0, <2>2, MovePlanned, PersonStep
  <2>3. CASE Exists(v) /\ Begin("chat", {v}, 0, <<"cancel", "derive", "mirror cancel">>)
    BY <2>0, <2>3, CancelPlanned, PersonStep
  <2>4. CASE Exists(v) /\ Begin("chat", {v}, 0, <<"cancel", "cancel job", "mirror cancel", "mirror job">>)
    BY <2>0, <2>4, CancelJobPlanned, PersonStep
  <2>5. CASE Begin("chat", {v}, t, <<"create", "open", "derive", "mirror create">>)
    BY <2>0, <2>5, CreatePlanned, PersonStep, NotCancelling
  <2> QED BY <1>2, <2>1, <2>2, <2>3, <2>4, <2>5
          DEF ChatTool, ChatConfirm, ChatReschedule, ChatCancel, ChatCancelJob, ChatCreate
<1> QED BY <1>1, <1>2

LEMMA DeskStep ==
  ASSUME VisitTypes, "desk" \in Actor, NEW v \in Visit, NEW t \in Slot, DeskRequest(v, t)
  PROVE  VisitTypes' /\ PersonBegins("desk")
<1>0. {v} \in SUBSET Visit /\ 0 \in Slot \cup {0} /\ t \in Slot \cup {0} OBVIOUS
<1>1. CASE Exists(v) /\ Begin("desk", {v}, t, <<"set time", "derive">>)
  BY <1>0, <1>1, ConfirmPlanned, PersonStep
<1>2. CASE Exists(v) /\ Begin("desk", {v}, 0, <<"confirm", "derive">>)
  BY <1>0, <1>2, ConfirmPlanned, PersonStep
<1>3. CASE Exists(v) /\ Begin("desk", {v}, 0, <<"cancel", "reopen", "derive">>)
  BY <1>0, <1>3, DeskPlanned, PersonStep
<1>4. CASE Begin("desk", {v}, t, <<"create", "open", "derive">>)
  BY <1>0, <1>4, DeskPlanned, PersonStep, NotCancelling
<1> QED BY <1>1, <1>2, <1>3, <1>4 DEF DeskRequest, DeskMove, DeskConfirm, DeskCancel, DeskCreate

-----------------------------------------------------------------------------
(* Visits: what the statements write.                                      *)

LEMMA RowEdits ==
  ASSUME NEW row \in VisitRow, NEW t \in Slot \cup {0},
         NEW s \in {"none", "scheduled", "rescheduled", "completed", "cancelled"}
  PROVE  /\ [row EXCEPT !.confirmed = TRUE] \in VisitRow
         /\ [row EXCEPT !.confirmed = TRUE].status = row.status
         /\ [row EXCEPT !.confirmed = TRUE].slot = row.slot
         /\ [row EXCEPT !.status = s] \in VisitRow
         /\ [row EXCEPT !.status = s].status = s
         /\ [row EXCEPT !.status = s].slot = row.slot
         /\ [row EXCEPT !.status = s].confirmed = row.confirmed
         /\ [row EXCEPT !.status = s, !.slot = t] \in VisitRow
         /\ [row EXCEPT !.status = s, !.slot = t].status = s
         /\ [row EXCEPT !.status = s, !.slot = t].slot = t
         /\ [row EXCEPT !.status = s, !.slot = t].confirmed = row.confirmed
         /\ [status |-> s, slot |-> t, confirmed |-> FALSE] \in VisitRow
BY DEF VisitRow

\* Which visits a statement writes, and what it leaves of the others.
Writes(S) ==
  /\ visit' \in [Visit -> VisitRow]
  /\ \A v \in Visit \ S : visit'[v] = visit[v]

LEMMA HandlerTypes ==
  ASSUME VisitTypes, NEW a \in Actor, Busy(a)
  PROVE  /\ WorkOK /\ work[a].targets \subseteq Visit /\ work[a].left \subseteq work[a].targets
         /\ work[a].slot \in Slot \cup {0} /\ work[a].steps \in Seq(Statement)
         /\ work[a].steps # <<>> /\ PlanOK(a, work[a].steps)
         /\ visit \in [Visit -> VisitRow]
BY DEF VisitTypes, WorkOK, WorkType, HandlerOK, Busy, VisitTypeOK

\* The parts of the types a statement has to keep.
LEMMA TypesKept ==
  ASSUME VisitTypes, WorkOK', visit' \in [Visit -> VisitRow], past' \subseteq Visit,
         job' \in JobStatuses, agreed' \in [Visit -> Slot \cup {0}],
         loose' \subseteq Visit, calledOff' \subseteq Visit, crmTodo' \subseteq Visit \cup {"job"},
         crm' \in [Visit -> CopyRow], crmJob' \in {"scheduled", "completed", "canceled"},
         rows' \in RowsType, events' \in 0 .. MaxEvents
  PROVE  VisitTypes'
<1>1. \A a \in Actor : work'[a].left \subseteq work'[a].targets BY DEF WorkOK, HandlerOK
<1>2. rows'.visits \in [Visit -> CopyRow] /\ rows'.above \cup rows'.behind \subseteq {"job", "visits"}
  BY DEF RowsType
<1> QED BY <1>1, <1>2 DEF VisitTypes, VisitTypeOK

LEMMA Marked ==
  ASSUME VisitTypes, NEW S \in SUBSET Visit, MarkConfirmed(S)
  PROVE  /\ Writes(S) /\ agreed' \in [Visit -> Slot \cup {0}]
         /\ \A v \in Visit : /\ visit'[v].status = visit[v].status
                             /\ visit'[v].slot = visit[v].slot
         /\ \A v \in S : agreed'[v] = visit[v].slot
         /\ \A v \in Visit \ S : agreed'[v] = agreed[v]
<1>1. \A v \in Visit : visit[v] \in VisitRow /\ visit[v].slot \in Slot \cup {0}
                       /\ agreed[v] \in Slot \cup {0}
  BY DEF VisitTypes, VisitTypeOK, VisitRow
<1>2. \A v \in Visit : /\ [visit[v] EXCEPT !.confirmed = TRUE] \in VisitRow
                       /\ [visit[v] EXCEPT !.confirmed = TRUE].status = visit[v].status
                       /\ [visit[v] EXCEPT !.confirmed = TRUE].slot = visit[v].slot
  BY <1>1, RowEdits
<1>3. /\ visit' = [v \in Visit |-> IF v \in S THEN [visit[v] EXCEPT !.confirmed = TRUE] ELSE visit[v]]
      /\ agreed' = [v \in Visit |-> IF v \in S THEN visit[v].slot ELSE agreed[v]]
  BY DEF MarkConfirmed
<1>4. \A v \in Visit : /\ visit'[v] \in VisitRow /\ visit'[v].status = visit[v].status
                       /\ visit'[v].slot = visit[v].slot /\ (v \notin S => visit'[v] = visit[v])
  BY <1>1, <1>2, <1>3
<1>5. visit' \in [Visit -> VisitRow] BY <1>3, <1>4
<1>6. agreed' \in [Visit -> Slot \cup {0}] BY <1>1, <1>3
<1> QED BY <1>3, <1>4, <1>5, <1>6 DEF Writes

\* The statements that confirm visits.
LEMMA ConfirmStep ==
  ASSUME VisitTypes, NEW a \in Actor, StepConfirm(a)
  PROVE  VisitTypes' /\ Went(a) /\ MarkConfirmed(work[a].targets) /\ work[a].targets \subseteq Visit
         /\ UNCHANGED <<copies, past, job, crmTodo, unsynced, loose, calledOff>>
<1>1. Busy(a) BY DEF StepConfirm, At
<1>2. WorkOK /\ work[a].targets \subseteq Visit BY <1>1, HandlerTypes
<1>3. Went(a) BY <1>1, <1>2, AdvanceStep DEF StepConfirm
<1>4. visit' \in [Visit -> VisitRow] /\ agreed' \in [Visit -> Slot \cup {0}]
  BY <1>2, Marked DEF StepConfirm, Writes
<1>5. VisitTypes'
  BY <1>3, <1>4, TypesKept DEF StepConfirm, Went, VisitTypes, VisitTypeOK, copies
<1> QED BY <1>2, <1>3, <1>5 DEF StepConfirm

LEMMA ConfirmEachStep ==
  ASSUME VisitTypes, NEW a \in Actor, StepConfirmEach(a)
  PROVE  /\ VisitTypes' /\ At(a, "confirm each")
         /\ \E v \in work[a].targets : MarkConfirmed({v})
         /\ work[a].targets \subseteq Visit
         /\ Went(a) \/ /\ Others(a) /\ work'[a].steps = work[a].steps
                       /\ work'[a].targets = work[a].targets
         /\ UNCHANGED <<copies, past, job, crmTodo, unsynced, loose, calledOff>>
<1>1. Busy(a) BY DEF StepConfirmEach, At
<1>2. /\ WorkOK /\ work[a].targets \subseteq Visit /\ work[a].left \subseteq work[a].targets
      /\ work[a] \in WorkType /\ HandlerOK(a)
  BY <1>1, HandlerTypes DEF WorkOK
<1>3. PICK v \in work[a].left :
        /\ MarkConfirmed({v})
        /\ IF work[a].left = {v} THEN Advance(a) ELSE work' = [work EXCEPT ![a].left = @ \ {v}]
  BY DEF StepConfirmEach
<1>4. \/ Went(a)
      \/ WorkOK' /\ Others(a) /\ work'[a].steps = work[a].steps /\ work'[a].targets = work[a].targets
  <2>1. CASE work[a].left = {v} BY <1>1, <1>2, <1>3, <2>1, AdvanceStep
  <2>2. CASE work[a].left # {v}
    <3> DEFINE new == [work[a] EXCEPT !.left = work[a].left \ {v}]
    <3>1. /\ new \in WorkType /\ new.steps = work[a].steps /\ new.targets = work[a].targets
          /\ new.left \subseteq new.targets
      BY <1>2 DEF WorkType
    <3>2. work' = [work EXCEPT ![a] = new] BY <1>3, <2>2
    <3> HIDE DEF new
    <3>3. a # "sync" /\ PlanOK(a, new.steps) BY <1>2, <1>3, <3>1 DEF HandlerOK
    <3> QED BY <1>2, <3>1, <3>2, <3>3, WorkChanged DEF Others
  <2> QED BY <2>1, <2>2
<1>5. visit' \in [Visit -> VisitRow] /\ agreed' \in [Visit -> Slot \cup {0}]
  BY <1>2, <1>3, Marked DEF Writes
<1>6. VisitTypes'
  BY <1>4, <1>5, TypesKept DEF StepConfirmEach, Went, VisitTypes, VisitTypeOK, copies
<1> QED BY <1>2, <1>3, <1>4, <1>6 DEF StepConfirmEach

\* The statements that move, create or cancel visits: what becomes of the rows
\* of the visits the handler is about.
LEMMA MoveStep ==
  ASSUME VisitTypes, NEW a \in Actor, StepMove(a)
  PROVE  /\ VisitTypes' /\ Went(a) /\ At(a, "move")
         /\ Writes(work[a].targets) /\ work[a].targets \subseteq Visit
         /\ \A v \in work[a].targets : visit'[v].status = "rescheduled" /\ ~visit'[v].confirmed
         /\ UNCHANGED <<copies, job, crmTodo, unsynced, agreed, loose>>
<1>1. Busy(a) BY DEF StepMove, At
<1>2. WorkOK /\ work[a].targets \subseteq Visit /\ work[a].slot \in Slot \cup {0}
  BY <1>1, HandlerTypes
<1>3. Went(a) BY <1>1, <1>2, AdvanceStep DEF StepMove
<1>4. \A v \in Visit : visit[v] \in VisitRow BY DEF VisitTypes, VisitTypeOK
<1> DEFINE new == [status |-> "rescheduled", slot |-> work[a].slot, confirmed |-> FALSE]
<1>5. new \in VisitRow /\ new.status = "rescheduled" /\ new.confirmed = FALSE
  BY <1>2 DEF VisitRow
<1>6. visit' = [v \in Visit |-> IF v \in work[a].targets THEN new ELSE visit[v]]
  BY DEF StepMove, Moved
<1> HIDE DEF new
<1>7. Writes(work[a].targets) /\ \A v \in work[a].targets : visit'[v] = new
  BY <1>2, <1>4, <1>5, <1>6 DEF Writes
<1>8. VisitTypes'
  BY <1>3, <1>7, TypesKept DEF StepMove, Went, VisitTypes, VisitTypeOK, copies, Writes
<1> QED BY <1>2, <1>3, <1>5, <1>7, <1>8 DEF StepMove

LEMMA SetTimeStep ==
  ASSUME VisitTypes, NEW a \in Actor, StepSetTime(a)
  PROVE  /\ VisitTypes' /\ Went(a) /\ At(a, "set time")
         /\ Writes(work[a].targets) /\ work[a].targets \subseteq Visit
         /\ \A v \in work[a].targets : visit'[v].status = "rescheduled"
         /\ loose' = loose \cup work[a].targets
         /\ UNCHANGED <<copies, job, crmTodo, unsynced, agreed>>
<1>1. Busy(a) BY DEF StepSetTime, At
<1>2. WorkOK /\ work[a].targets \subseteq Visit /\ work[a].slot \in Slot \cup {0}
  BY <1>1, HandlerTypes
<1>3. Went(a) BY <1>1, <1>2, AdvanceStep DEF StepSetTime
<1>4. \A v \in Visit : visit[v] \in VisitRow BY DEF VisitTypes, VisitTypeOK
<1> DEFINE new(v) == [visit[v] EXCEPT !.status = "rescheduled", !.slot = work[a].slot]
<1>5. ASSUME NEW v \in Visit PROVE new(v) \in VisitRow /\ new(v).status = "rescheduled"
  <2>1. visit[v] \in VisitRow BY <1>4
  <2> QED BY <1>2, <2>1 DEF VisitRow
<1>6. visit' = [v \in Visit |-> IF v \in work[a].targets THEN new(v) ELSE visit[v]]
  BY DEF StepSetTime
<1> HIDE DEF new
<1>7. Writes(work[a].targets) /\ \A v \in work[a].targets : visit'[v] = new(v)
  BY <1>2, <1>4, <1>5, <1>6 DEF Writes
<1>8. VisitTypes'
  BY <1>2, <1>3, <1>7, TypesKept DEF StepSetTime, Went, VisitTypes, VisitTypeOK, copies, Writes
<1>9. \A v \in work[a].targets : visit'[v].status = "rescheduled" BY <1>2, <1>5, <1>7
<1> QED BY <1>2, <1>3, <1>7, <1>8, <1>9 DEF StepSetTime

LEMMA NewVisitStep ==
  ASSUME VisitTypes, NEW a \in Actor, StepCreate(a)
  PROVE  /\ VisitTypes' /\ Went(a) /\ At(a, "create")
         /\ Writes(work[a].targets) /\ work[a].targets \subseteq Visit
         /\ \A v \in work[a].targets : visit'[v].status = "scheduled" /\ ~visit'[v].confirmed
         /\ loose \subseteq loose' /\ (a = "desk" => work[a].targets \subseteq loose')
         /\ UNCHANGED <<copies, past, job, crmTodo, unsynced, agreed, calledOff>>
<1>1. Busy(a) BY DEF StepCreate, At
<1>2. WorkOK /\ work[a].targets \subseteq Visit /\ work[a].slot \in Slot \cup {0}
  BY <1>1, HandlerTypes
<1>3. Went(a) BY <1>1, <1>2, AdvanceStep DEF StepCreate
<1>4. \A v \in Visit : visit[v] \in VisitRow BY DEF VisitTypes, VisitTypeOK
<1> DEFINE new == [status |-> "scheduled", slot |-> work[a].slot, confirmed |-> FALSE]
<1>5. new \in VisitRow /\ new.status = "scheduled" /\ new.confirmed = FALSE
  BY <1>2 DEF VisitRow
<1>6. visit' = [v \in Visit |-> IF v \in work[a].targets THEN new ELSE visit[v]]
  BY DEF StepCreate
<1> HIDE DEF new
<1>7. Writes(work[a].targets) /\ \A v \in work[a].targets : visit'[v] = new
  BY <1>2, <1>4, <1>5, <1>6 DEF Writes
<1>8. loose \subseteq loose' /\ (a = "desk" => work[a].targets \subseteq loose')
      /\ loose' \subseteq loose \cup work[a].targets
  BY DEF StepCreate
<1>9. VisitTypes'
  BY <1>2, <1>3, <1>7, <1>8, TypesKept DEF StepCreate, Went, VisitTypes, VisitTypeOK, copies, Writes
<1> QED BY <1>2, <1>3, <1>5, <1>7, <1>8, <1>9 DEF StepCreate

LEMMA CancelStep ==
  ASSUME VisitTypes, NEW a \in Actor, StepCancel(a)
  PROVE  /\ VisitTypes' /\ Went(a) /\ At(a, "cancel")
         /\ Writes(work[a].targets) /\ work[a].targets \subseteq Visit
         /\ \A v \in work[a].targets : /\ visit'[v].status = "cancelled"
                                       /\ visit'[v].slot = visit[v].slot
                                       /\ visit'[v].confirmed = visit[v].confirmed
         /\ UNCHANGED <<copies, past, job, crmTodo, unsynced, history>>
<1>1. Busy(a) BY DEF StepCancel, At
<1>2. WorkOK /\ work[a].targets \subseteq Visit BY <1>1, HandlerTypes
<1>3. Went(a) BY <1>1, <1>2, AdvanceStep DEF StepCancel
<1>4. \A v \in Visit : visit[v] \in VisitRow BY DEF VisitTypes, VisitTypeOK
<1> DEFINE new(v) == [visit[v] EXCEPT !.status = "cancelled"]
<1>5. ASSUME NEW v \in Visit
      PROVE  /\ new(v) \in VisitRow /\ new(v).status = "cancelled"
             /\ new(v).slot = visit[v].slot /\ new(v).confirmed = visit[v].confirmed
  <2>1. visit[v] \in VisitRow BY <1>4
  <2> QED BY <2>1 DEF VisitRow
<1>6. visit' = [v \in Visit |-> IF v \in work[a].targets THEN new(v) ELSE visit[v]]
  BY DEF StepCancel
<1> HIDE DEF new
<1>7. Writes(work[a].targets) /\ \A v \in work[a].targets : visit'[v] = new(v)
  BY <1>2, <1>4, <1>5, <1>6 DEF Writes
<1>8. VisitTypes'
  BY <1>3, <1>7, TypesKept DEF StepCancel, Went, VisitTypes, VisitTypeOK, copies, history, Writes
<1>9. \A v \in work[a].targets : /\ visit'[v].status = "cancelled"
                                 /\ visit'[v].slot = visit[v].slot
                                 /\ visit'[v].confirmed = visit[v].confirmed
  BY <1>2, <1>5, <1>7
<1> QED BY <1>2, <1>3, <1>7, <1>8, <1>9 DEF StepCancel

\* What the statements on the status of the job leave alone.
LEMMA JobStep ==
  ASSUME VisitTypes, NEW a \in Actor, StepJob(a)
  PROVE  /\ VisitTypes' /\ Went(a)
         /\ \/ At(a, "open") /\ unsynced' = unsynced
            \/ At(a, "cancel job") /\ job' = "cancelled" /\ unsynced' = unsynced
            \/ At(a, "move job") /\ job' = "rescheduled" /\ unsynced' = unsynced
            \/ At(a, "reopen") /\ job' \in {job, "open"} /\ unsynced' = unsynced
            \/ At(a, "derive") /\ job' = Derived(job)
         /\ UNCHANGED <<copies, visit, past, crmTodo, history>>
<1>0. PICK s : SetJob(a, s) BY DEF StepJob
<1>1. Busy(a) BY DEF StepJob, At
<1>2. WorkOK BY <1>1, HandlerTypes
<1>3. Went(a) BY <1>0, <1>1, <1>2, AdvanceStep DEF SetJob
<1>4. UNCHANGED <<copies, visit, past, crmTodo, history, events>> BY <1>0 DEF SetJob
<1>5. \/ At(a, "open") /\ unsynced' = unsynced /\ job' \in {job, "scheduled"}
      \/ At(a, "cancel job") /\ job' = "cancelled" /\ unsynced' = unsynced
      \/ At(a, "move job") /\ job' = "rescheduled" /\ unsynced' = unsynced
      \/ At(a, "reopen") /\ job' \in {job, "open"} /\ unsynced' = unsynced
      \/ At(a, "derive") /\ job' = Derived(job)
  BY DEF StepJob, SetJob
<1>6. job \in JobStatuses /\ Derived(job) \in JobStatuses
  BY DEF VisitTypes, VisitTypeOK, Derived, DerivedStatus, JobStatuses, OwnedStatuses
<1>7. job' \in JobStatuses BY <1>5, <1>6 DEF JobStatuses, OwnedStatuses
<1>8. VisitTypes'
  BY <1>3, <1>4, <1>7, TypesKept DEF Went, VisitTypes, VisitTypeOK, copies, history
<1> QED BY <1>3, <1>4, <1>5, <1>8

\* The mirrors: what ServiceTrade holds changes, and is read again; a refusal
\* leaves a todo.
LEMMA CopiesTyped ==
  ASSUME VisitTypes, NEW S \in SUBSET Visit, NEW new \in [S -> CopyRow], CrmIs(new)
  PROVE  crm' \in [Visit -> CopyRow] /\ (S = {} => crm' = crm)
BY DEF VisitTypes, VisitTypeOK, CrmIs

LEMMA BehindTyped ==
  ASSUME VisitTypes, NEW kind \in {"job", "visits"}, Behind(kind)
  PROVE  /\ rows' \in RowsType /\ rows'.behind = rows.behind \cup {kind}
         /\ rows'.visits = rows.visits /\ rows'.above = rows.above
BY DEF VisitTypes, RowsType, Behind

\* What a mirror leaves of the rows as last read, and of the rest.
RowsAge == /\ rows' \in RowsType /\ rows'.visits = rows.visits /\ rows'.above = rows.above
           /\ rows.behind \subseteq rows'.behind
MirrorTypes == /\ crm' \in [Visit -> CopyRow]
               /\ crmJob' \in {"scheduled", "completed", "canceled"}
               /\ crmTodo \subseteq crmTodo' /\ crmTodo' \subseteq Visit \cup {"job"}
               /\ calledOff' \subseteq Visit /\ RowsAge

LEMMA RowsAged ==
  ASSUME VisitTypes, NEW kind \in {"job", "visits"}, UNCHANGED rows \/ Behind(kind)
  PROVE  RowsAge
<1>1. CASE UNCHANGED rows BY <1>1 DEF RowsAge, VisitTypes
<1>2. CASE Behind(kind) BY <1>2, BehindTyped DEF RowsAge
<1> QED BY <1>1, <1>2

\* The mirror of visits: what they become, and which visits are called off.
Sends(about, new, off) ==
  /\ CrmIs(new) /\ crmJob' = crmJob /\ calledOff' = off
  /\ IF about = {} THEN UNCHANGED rows ELSE Behind("visits")

LEMMA MirrorVisits ==
  ASSUME VisitTypes, NEW about \in SUBSET Visit, NEW new \in [about -> CopyRow],
         NEW off \in SUBSET Visit, Sends(about, new, off) \/ Untouched,
         \/ AgentChanges /\ Sends(about, new, off) /\ UNCHANGED crmTodo
         \/ crmTodo' = crmTodo \cup about
         \/ ~AgentChanges /\ UNCHANGED crmTodo
  PROVE  /\ MirrorTypes
         /\ \/ "visits" \in rows'.behind
            \/ crm' = crm /\ (AgentChanges => about \subseteq crmTodo')
<1>0. /\ crm \in [Visit -> CopyRow] /\ crmJob \in {"scheduled", "completed", "canceled"}
      /\ crmTodo \subseteq Visit \cup {"job"} /\ calledOff \subseteq Visit
  BY DEF VisitTypes, VisitTypeOK
<1>1. crmTodo \subseteq crmTodo' /\ crmTodo' \subseteq Visit \cup {"job"} BY <1>0
<1>2. CASE Sends(about, new, off)
  <2>1. crm' \in [Visit -> CopyRow] /\ (about = {} => crm' = crm)
    BY <1>2, CopiesTyped DEF Sends
  <2>2. RowsAge BY <1>2, RowsAged DEF Sends
  <2>3. about # {} => "visits" \in rows'.behind BY <1>2, BehindTyped DEF Sends
  <2>4. MirrorTypes BY <1>0, <1>1, <1>2, <2>1, <2>2 DEF MirrorTypes, Sends
  <2> QED BY <2>1, <2>3, <2>4
<1>3. CASE Untouched /\ ~Sends(about, new, off)
  <2>1. RowsAge BY <1>3, RowsAged DEF Untouched, copies
  <2>2. MirrorTypes BY <1>0, <1>1, <1>3, <2>1 DEF MirrorTypes, Untouched, copies
  <2> QED BY <1>3, <2>2 DEF Untouched, copies
<1> QED BY <1>2, <1>3

LEMMA MirrorStep ==
  ASSUME VisitTypes, NEW a \in Actor, StepMirror(a)
  PROVE  /\ VisitTypes' /\ Went(a) /\ RowsAge /\ crmTodo \subseteq crmTodo'
         /\ \/ /\ At(a, "mirror move") \/ At(a, "mirror cancel") \/ At(a, "mirror create")
               /\ \/ "visits" \in rows'.behind
                  \/ /\ crm' = crm
                     /\ AgentChanges => {v \in work[a].targets : Linked(v)} \subseteq crmTodo'
            \/ At(a, "mirror job") /\ crm' = crm
         /\ UNCHANGED <<visit, past, job, unsynced, agreed, loose>>
<1> DEFINE here == {v \in work[a].targets : Linked(v)}
<1>1. Busy(a) BY DEF StepMirror, At
<1>2. WorkOK /\ work[a].targets \subseteq Visit /\ work[a].slot \in Slot \cup {0}
  BY <1>1, HandlerTypes
<1>3. Went(a) BY <1>1, <1>2, AdvanceStep DEF StepMirror
<1>4. \A v \in Visit : crm[v] \in CopyRow BY DEF VisitTypes, VisitTypeOK
<1>5. UNCHANGED <<visit, past, job, unsynced, agreed, loose, events>> BY DEF StepMirror
<1>6. /\ here \subseteq Visit /\ here \subseteq work[a].targets /\ crm \in [Visit -> CopyRow]
      /\ crmJob \in {"scheduled", "completed", "canceled"}
      /\ crmTodo \subseteq Visit \cup {"job"} /\ calledOff \subseteq Visit
  BY <1>2 DEF VisitTypes, VisitTypeOK
<1> DEFINE moved == [v \in here |-> [crm[v] EXCEPT !.slot = work[a].slot]]
<1> DEFINE canceled == [v \in here |-> [crm[v] EXCEPT !.status = "canceled_by_customer"]]
<1> DEFINE created == [v \in work[a].targets |-> [status |-> "scheduled", slot |-> work[a].slot]]
<1>7. moved \in [here -> CopyRow] /\ canceled \in [here -> CopyRow]
      /\ created \in [work[a].targets -> CopyRow]
  BY <1>2, <1>4 DEF CopyRow
<1> DEFINE Reported(S) == \/ "visits" \in rows'.behind
                          \/ crm' = crm /\ (AgentChanges => S \subseteq crmTodo')
<1>8. ASSUME Mirror(CrmIs(moved) /\ UNCHANGED <<crmJob, calledOff>>, here, "visits")
      PROVE  MirrorTypes /\ Reported(here)
  <2> HIDE DEF moved, here
  <2>1. /\ Sends(here, moved, calledOff) \/ Untouched
        /\ \/ AgentChanges /\ Sends(here, moved, calledOff) /\ UNCHANGED crmTodo
           \/ crmTodo' = crmTodo \cup here
           \/ ~AgentChanges /\ UNCHANGED crmTodo
    BY <1>8 DEF Mirror, Applied, Sends
  <2> QED BY <1>6, <1>7, <2>1, MirrorVisits
<1>9. ASSUME Mirror(/\ CrmIs(canceled)
                    /\ calledOff' = calledOff \cup here
                    /\ UNCHANGED crmJob, here, "visits")
      PROVE  MirrorTypes /\ Reported(here)
  <2> HIDE DEF canceled, here
  <2>1. /\ Sends(here, canceled, calledOff \cup here) \/ Untouched
        /\ \/ AgentChanges /\ Sends(here, canceled, calledOff \cup here) /\ UNCHANGED crmTodo
           \/ crmTodo' = crmTodo \cup here
           \/ ~AgentChanges /\ UNCHANGED crmTodo
    BY <1>9 DEF Mirror, Applied, Sends
  <2>2. calledOff \cup here \in SUBSET Visit BY <1>6
  <2> QED BY <1>6, <1>7, <2>1, <2>2, MirrorVisits
<1>10. ASSUME Mirror(CrmIs(created) /\ UNCHANGED <<crmJob, calledOff>>, work[a].targets, "visits")
       PROVE  MirrorTypes /\ Reported(work[a].targets)
  <2> HIDE DEF created
  <2>1. /\ Sends(work[a].targets, created, calledOff) \/ Untouched
        /\ \/ AgentChanges /\ Sends(work[a].targets, created, calledOff) /\ UNCHANGED crmTodo
           \/ crmTodo' = crmTodo \cup work[a].targets
           \/ ~AgentChanges /\ UNCHANGED crmTodo
    BY <1>10 DEF Mirror, Applied, Sends
  <2> QED BY <1>2, <1>6, <1>7, <2>1, MirrorVisits
<1>11. ASSUME Mirror(/\ crmJob' = IF work[a].targets = {} THEN crmJob ELSE "canceled"
                     /\ UNCHANGED <<crm, calledOff>>, {"job"}, "job")
       PROVE  MirrorTypes /\ crm' = crm
  <2>1. UNCHANGED rows \/ Behind("job") BY <1>11 DEF Mirror, Applied, Untouched, copies
  <2>2. RowsAge BY <2>1, RowsAged
  <2> QED BY <1>6, <1>11, <2>2 DEF Mirror, Applied, Untouched, copies, MirrorTypes
<1>12. /\ MirrorTypes
       /\ \/ (At(a, "mirror move") \/ At(a, "mirror cancel")) /\ Reported(here)
          \/ At(a, "mirror create") /\ Reported(work[a].targets)
          \/ At(a, "mirror job") /\ crm' = crm
  <2> HIDE DEF Reported
  <2> QED BY <1>8, <1>9, <1>10, <1>11 DEF StepMirror
<1>13. VisitTypes'
  <2> HIDE DEF here
  <2> QED BY <1>3, <1>5, <1>12, TypesKept DEF Went, VisitTypes, VisitTypeOK, MirrorTypes, RowsAge
<1> QED BY <1>3, <1>5, <1>6, <1>12, <1>13 DEF MirrorTypes

\* The normalizer's statements.
LEMMA ReadTyped ==
  ASSUME rows \in RowsType, NEW kind \in {"job", "visits"}, NEW now \in RowsType, Read(kind, now)
  PROVE  /\ rows' \in RowsType /\ rows'.visits = now.visits
         /\ rows'.behind = rows.behind \ {kind}
         /\ rows'.above \in {rows.above, rows.above \cup {kind}}
         /\ kind \in rows.behind => kind \in rows'.above
<1>1. PICK above \in {rows.above, rows.above \cup {kind}} :
        /\ kind \in rows.behind => kind \in above
        /\ rows' = [now EXCEPT !.behind = rows.behind \ {kind}, !.above = above]
  BY DEF Read
<1>2. above \subseteq {"job", "visits"} /\ rows.behind \ {kind} \subseteq {"job", "visits"}
  BY DEF RowsType
<1> QED BY <1>1, <1>2 DEF RowsType

LEMMA ReadStep ==
  ASSUME VisitTypes, "sync" \in Actor, StepRead
  PROVE  /\ VisitTypes' /\ Went("sync")
         /\ \/ /\ At("sync", "read job") /\ rows'.visits = rows.visits
               /\ "visits" \in rows'.behind <=> "visits" \in rows.behind
               /\ "visits" \in rows'.above <=> "visits" \in rows.above
            \/ /\ At("sync", "read visits") /\ rows'.visits = crm
               /\ "visits" \in rows.behind => "visits" \in rows'.above
               /\ "visits" \in rows.above => "visits" \in rows'.above
         /\ UNCHANGED <<crm, crmJob, visit, past, job, crmTodo, unsynced, history>>
<1>1. Busy("sync") BY DEF StepRead, At
<1>2. WorkOK BY <1>1, HandlerTypes
<1>3. Went("sync") BY <1>1, <1>2, AdvanceStep DEF StepRead
<1>4. rows \in RowsType /\ crmJob \in {"scheduled", "completed", "canceled"}
      /\ crm \in [Visit -> CopyRow]
  BY DEF VisitTypes, VisitTypeOK
<1>5. ASSUME At("sync", "read job"), Read("job", [rows EXCEPT !.job = crmJob])
      PROVE  /\ rows' \in RowsType /\ rows'.visits = rows.visits
             /\ "visits" \in rows'.behind <=> "visits" \in rows.behind
             /\ "visits" \in rows'.above <=> "visits" \in rows.above
  <2> DEFINE now == [rows EXCEPT !.job = crmJob]
  <2>1. now \in RowsType /\ now.visits = rows.visits BY <1>4 DEF RowsType
  <2> HIDE DEF now
  <2> QED BY <1>4, <1>5, <2>1, ReadTyped DEF now
<1>6. ASSUME At("sync", "read visits"), Read("visits", [rows EXCEPT !.visits = crm])
      PROVE  /\ rows' \in RowsType /\ rows'.visits = crm
             /\ "visits" \in rows.behind => "visits" \in rows'.above
             /\ "visits" \in rows.above => "visits" \in rows'.above
  <2> DEFINE now == [rows EXCEPT !.visits = crm]
  <2>1. now \in RowsType /\ now.visits = crm BY <1>4 DEF RowsType
  <2> HIDE DEF now
  <2> QED BY <1>4, <1>6, <2>1, ReadTyped DEF now
<1>7. UNCHANGED <<crm, crmJob, visit, past, job, crmTodo, unsynced, history, events>>
  BY DEF StepRead
<1>8. rows' \in RowsType BY <1>5, <1>6 DEF StepRead
<1>9. VisitTypes' BY <1>3, <1>7, <1>8, TypesKept DEF Went, VisitTypes, VisitTypeOK, history
<1> QED BY <1>3, <1>5, <1>6, <1>7, <1>9 DEF StepRead

LEMMA WriteJobStep ==
  ASSUME VisitTypes, "sync" \in Actor, StepWriteJob
  PROVE  /\ VisitTypes' /\ Went("sync") /\ At("sync", "write job")
         /\ UNCHANGED <<copies, visit, past, crmTodo, unsynced, history>>
<1>1. Busy("sync") BY DEF StepWriteJob, At
<1>2. WorkOK BY <1>1, HandlerTypes
<1>3. Went("sync") BY <1>1, <1>2, AdvanceStep DEF StepWriteJob
<1>4. rows.job \in {"scheduled", "completed", "canceled"} /\ job \in JobStatuses
  BY DEF VisitTypes, VisitTypeOK, RowsType
<1>5. job' \in JobStatuses BY <1>4 DEF StepWriteJob, MapJobStatus, JobStatuses, OwnedStatuses
<1>6. UNCHANGED <<copies, visit, past, crmTodo, unsynced, history, events>> BY DEF StepWriteJob
<1>7. VisitTypes'
  BY <1>3, <1>5, <1>6, TypesKept DEF Went, VisitTypes, VisitTypeOK, copies, history
<1> QED BY <1>3, <1>6, <1>7 DEF StepWriteJob

LEMMA WriteVisitsStep ==
  ASSUME VisitTypes, "sync" \in Actor, StepWriteVisits
  PROVE  /\ VisitTypes' /\ Went("sync") /\ At("sync", "write visits")
         /\ loose \subseteq loose'
         /\ \A v \in Visit :
              /\ visit'[v].confirmed = visit[v].confirmed
              /\ visit'[v].slot = visit[v].slot \/ v \in loose'
              /\ visit'[v] = visit[v] \/ Exists(v)'
              /\ "visits" \in rows.above /\ rows.visits[v].status # "none" =>
                   visit'[v].slot = rows.visits[v].slot
              /\ ~("visits" \in rows.above /\ rows.visits[v].status # "none") =>
                   visit'[v] = visit[v]
         /\ UNCHANGED <<copies, job, crmTodo, unsynced, agreed>>
<1> DEFINE seen == {v \in Visit : "visits" \in rows.above /\ rows.visits[v].status # "none"}
<1> DEFINE moved == {v \in seen : visit'[v].slot # visit[v].slot}
<1>1. Busy("sync") BY DEF StepWriteVisits, At
<1>2. WorkOK BY <1>1, HandlerTypes
<1>3. Went("sync") BY <1>1, <1>2, AdvanceStep DEF StepWriteVisits
<1>4. /\ \A v \in Visit : visit[v] \in VisitRow /\ rows.visits[v] \in CopyRow
      /\ past \subseteq Visit /\ loose \subseteq Visit
  BY DEF VisitTypes, VisitTypeOK
<1>5. ASSUME NEW v \in Visit
      PROVE  /\ FromRow(v) \in VisitRow /\ FromRow(v).slot = rows.visits[v].slot
             /\ FromRow(v).confirmed = visit[v].confirmed /\ FromRow(v).status # "none"
  <2>1. visit[v] \in VisitRow /\ rows.visits[v].slot \in Slot \cup {0} BY <1>4 DEF CopyRow
  <2>2. MapAppointmentStatus(rows.visits[v].status) \in {"completed", "scheduled"}
    BY DEF MapAppointmentStatus
  <2> QED BY <2>1, <2>2 DEF FromRow, VisitRow
<1>6. /\ visit' = [v \in Visit |-> IF v \in seen THEN FromRow(v) ELSE visit[v]]
      /\ loose' = loose \cup moved /\ past' = past \ moved
      /\ UNCHANGED <<copies, job, crmTodo, unsynced, agreed, calledOff, events>>
      /\ At("sync", "write visits")
  <2> DEFINE new == [v \in Visit |-> IF v \in seen THEN FromRow(v) ELSE visit[v]]
  <2> DEFINE shifted == {v \in seen : new[v].slot # visit[v].slot}
  <2>1. /\ visit' = new /\ loose' = loose \cup shifted /\ past' = past \ shifted
        /\ UNCHANGED <<copies, job, crmTodo, unsynced, agreed, calledOff, events>>
        /\ At("sync", "write visits")
    BY DEF StepWriteVisits
  <2>2. moved = shifted BY <2>1
  <2> QED BY <2>1, <2>2
<1>7. /\ visit' \in [Visit -> VisitRow]
      /\ \A v \in seen : visit'[v] = FromRow(v)
      /\ \A v \in Visit \ seen : visit'[v] = visit[v]
  BY <1>4, <1>5, <1>6
<1>8. VisitTypes'
  BY <1>3, <1>4, <1>6, <1>7, TypesKept DEF Went, VisitTypes, VisitTypeOK, copies
<1>9. ASSUME NEW v \in Visit
      PROVE  /\ visit'[v].confirmed = visit[v].confirmed
             /\ visit'[v].slot = visit[v].slot \/ v \in loose'
             /\ visit'[v] = visit[v] \/ Exists(v)'
             /\ v \in seen => visit'[v].slot = rows.visits[v].slot
             /\ v \notin seen => visit'[v] = visit[v]
  <2>1. CASE v \in seen
    <3>1. visit'[v] = FromRow(v) BY <1>7, <2>1
    <3>2. visit'[v].slot = visit[v].slot \/ v \in moved BY <2>1
    <3> HIDE DEF seen, moved
    <3> QED BY <1>5, <1>6, <2>1, <3>1, <3>2 DEF Exists
  <2>2. CASE v \notin seen
    <3>1. visit'[v] = visit[v] BY <1>7, <2>2
    <3> QED BY <2>2, <3>1
  <2> QED BY <2>1, <2>2
<1> QED BY <1>3, <1>6, <1>8, <1>9

LEMMA InferStep ==
  ASSUME VisitTypes, "sync" \in Actor, StepInfer
  PROVE  /\ VisitTypes' /\ Others("sync") /\ At("sync", "infer")
         /\ \/ Went("sync")
            \/ /\ work'["sync"].steps = Inferred \o Tail(work["sync"].steps)
               /\ work'["sync"].targets = work["sync"].targets
         /\ UNCHANGED <<copies, visit, past, job, crmTodo, unsynced, history>>
<1> DEFINE tail == Tail(work["sync"].steps)
<1>1. Busy("sync") BY DEF StepInfer, At
<1>2. WorkOK /\ work["sync"] \in WorkType /\ HandlerOK("sync") BY <1>1, HandlerTypes DEF WorkOK
<1>3. tail \in Seq(Statement) /\ PlanOK("sync", tail)
  <2>1. work["sync"].steps \in Seq(Statement) /\ work["sync"].steps # <<>>
        /\ PlanOK("sync", work["sync"].steps)
    BY <1>1, HandlerTypes
  <2>2. PlanOK("sync", tail) BY <2>1, PlanTail
  <2>3. tail \in Seq(Statement) BY <2>1
  <2> QED BY <2>2, <2>3
<1>4. CASE Advance("sync") /\ UNCHANGED events
  <2>1. Went("sync") BY <1>1, <1>2, <1>4, AdvanceStep
  <2>2. VisitTypes'
    BY <1>4, <2>1, TypesKept DEF StepInfer, Went, VisitTypes, VisitTypeOK, copies, history
  <2> QED BY <2>1, <2>2 DEF StepInfer, Went
<1>5. CASE Event /\ work' = [work EXCEPT !["sync"].steps = Inferred \o Tail(@)]
  <2> DEFINE new == [work["sync"] EXCEPT !.steps = Inferred \o tail]
  <2>1. Inferred \o tail \in Seq(Statement) /\ PlanOK("sync", Inferred \o tail)
    <3> HIDE DEF tail
    <3> QED BY <1>3, InferredPlanned
  <2>2. work' = [work EXCEPT !["sync"] = new] BY <1>5
  <2>3. /\ new \in WorkType /\ new.steps = Inferred \o tail
        /\ new.targets = work["sync"].targets /\ new.left = work["sync"].left
    <3> HIDE DEF tail
    <3> QED BY <1>2, <2>1 DEF WorkType
  <2> HIDE DEF new, tail
  <2>7. new.left \subseteq new.targets /\ new.left = {} BY <1>2, <2>3 DEF HandlerOK
  <2>4. WorkOK' /\ work'["sync"] = new /\ Others("sync")
    BY <1>2, <2>1, <2>2, <2>3, <2>7, WorkChanged DEF Others
  <2>5. events' \in 0 .. MaxEvents
    BY <1>5, VisitAssumption DEF Event, VisitTypes, VisitTypeOK
  <2>6. VisitTypes'
    BY <2>4, <2>5, TypesKept DEF StepInfer, VisitTypes, VisitTypeOK, copies, history
  <2> QED BY <2>3, <2>4, <2>6 DEF StepInfer, tail
<1> QED BY <1>4, <1>5 DEF StepInfer

LEMMA ConfirmAskedStep ==
  ASSUME VisitTypes, "sync" \in Actor, StepConfirmAsked
  PROVE  /\ VisitTypes' /\ Others("sync") /\ At("sync", "confirm asked")
         /\ work'["sync"].steps = Tail(work["sync"].steps)
         /\ Asked \subseteq Visit /\ MarkConfirmed(Asked)
         /\ UNCHANGED <<copies, past, job, crmTodo, unsynced, loose, calledOff>>
<1> DEFINE tail == Tail(work["sync"].steps)
<1>1. Busy("sync") BY DEF StepConfirmAsked, At
<1>2. WorkOK /\ work["sync"] \in WorkType /\ HandlerOK("sync") BY <1>1, HandlerTypes DEF WorkOK
<1>3. tail \in Seq(Statement) /\ PlanOK("sync", tail)
  <2>1. work["sync"].steps \in Seq(Statement) /\ work["sync"].steps # <<>>
        /\ PlanOK("sync", work["sync"].steps)
    BY <1>1, HandlerTypes
  <2>2. PlanOK("sync", tail) BY <2>1, PlanTail
  <2>3. tail \in Seq(Statement) BY <2>1
  <2> QED BY <2>2, <2>3
<1>4. Asked \subseteq Visit BY DEF Asked
<1> DEFINE new == [work["sync"] EXCEPT !.targets = Asked, !.steps = tail]
<1>5. work' = [work EXCEPT !["sync"] = new]
  <2>1. work' = [work EXCEPT !["sync"].targets = Asked, !["sync"].steps = Tail(@)]
    BY DEF StepConfirmAsked
  <2> QED BY <1>2, <2>1 DEF WorkOK, WorkType
<1>6. /\ new \in WorkType /\ new.steps = tail /\ new.targets = Asked
      /\ new.left = work["sync"].left
  <2> HIDE DEF tail
  <2> QED BY <1>2, <1>3, <1>4 DEF WorkType
<1> HIDE DEF new, tail
<1>7. work["sync"].left = {} BY <1>2 DEF HandlerOK
<1>8. WorkOK' /\ work'["sync"] = new /\ Others("sync")
  BY <1>2, <1>3, <1>5, <1>6, <1>7, WorkChanged DEF Others
<1>9. visit' \in [Visit -> VisitRow] /\ agreed' \in [Visit -> Slot \cup {0}]
  BY <1>4, Marked DEF StepConfirmAsked, Writes
<1>10. VisitTypes'
  BY <1>8, <1>9, TypesKept DEF StepConfirmAsked, VisitTypes, VisitTypeOK, copies
<1> QED BY <1>4, <1>6, <1>8, <1>10 DEF StepConfirmAsked, tail

LEMMA AdvanceMarkStep ==
  ASSUME VisitTypes, "sync" \in Actor, StepAdvance
  PROVE  /\ VisitTypes' /\ Went("sync") /\ At("sync", "advance")
         /\ rows'.visits = rows.visits /\ rows'.behind = rows.behind
         /\ UNCHANGED <<crm, crmJob, visit, past, job, crmTodo, unsynced, history>>
<1>1. Busy("sync") BY DEF StepAdvance, At
<1>2. WorkOK BY <1>1, HandlerTypes
<1>3. Went("sync") BY <1>1, <1>2, AdvanceStep DEF StepAdvance
<1>4. rows' \in RowsType /\ rows'.visits = rows.visits /\ rows'.behind = rows.behind
  BY DEF StepAdvance, VisitTypes, RowsType
<1>5. UNCHANGED <<crm, crmJob, visit, past, job, crmTodo, unsynced, history, events>>
  BY DEF StepAdvance
<1>6. VisitTypes' BY <1>3, <1>4, <1>5, TypesKept DEF Went, VisitTypes, VisitTypeOK, history
<1> QED BY <1>3, <1>4, <1>5, <1>6 DEF StepAdvance

\* Around the handlers.
LEMMA DeskJobStep ==
  ASSUME VisitTypes, NEW s \in ByHand, DeskJob(s)
  PROVE  /\ VisitTypes' /\ unsynced'
         /\ UNCHANGED <<copies, visit, past, crmTodo, work, history>>
<1>1. WorkOK' /\ job' \in JobStatuses /\ events' \in 0 .. MaxEvents
  BY VisitAssumption DEF DeskJob, Event, VisitTypes, VisitTypeOK, WorkOK, HandlerOK
<1>2. UNCHANGED <<copies, visit, past, crmTodo, work, history>> /\ unsynced' BY DEF DeskJob
<1>3. VisitTypes' BY <1>1, <1>2, TypesKept DEF VisitTypes, VisitTypeOK, copies, history
<1> QED BY <1>2, <1>3

LEMMA StartStep ==
  ASSUME VisitTypes, "sync" \in Actor, StartSync
  PROVE  /\ VisitTypes' /\ Others("sync") /\ ~Busy("sync") /\ work'["sync"].steps = Normalize
         /\ UNCHANGED <<copies, visit, past, job, crmTodo, unsynced, history>>
<1>1. work["sync"] \in WorkType /\ HandlerOK("sync") /\ WorkOK BY DEF VisitTypes, WorkOK
<1> DEFINE new == [work["sync"] EXCEPT !.steps = Normalize]
<1>2. /\ new \in WorkType /\ new.steps = Normalize /\ new.targets = work["sync"].targets
      /\ new.left = work["sync"].left
  BY <1>1, NormalizePlanned DEF WorkType
<1>3. work' = [work EXCEPT !["sync"] = new] BY DEF StartSync
<1> HIDE DEF new
<1>4. WorkOK' /\ work'["sync"] = new /\ Others("sync")
  BY <1>1, <1>2, <1>3, NormalizePlanned, WorkChanged DEF HandlerOK, Others
<1>5. VisitTypes'
  BY <1>4, TypesKept DEF StartSync, VisitTypes, VisitTypeOK, copies, history
<1> QED BY <1>2, <1>4, <1>5 DEF StartSync, Free

LEMMA CrmStep ==
  ASSUME VisitTypes, NEW v \in Visit, CrmEdit(v)
  PROVE  /\ VisitTypes' /\ rows'.visits = rows.visits /\ rows'.above = rows.above
         /\ "visits" \in rows'.behind \/ (crm' = crm /\ rows.behind \subseteq rows'.behind)
         /\ UNCHANGED <<visit, past, job, crmTodo, work, unsynced, agreed, loose>>
<1>1. WorkOK' /\ events' \in 0 .. MaxEvents
  BY VisitAssumption DEF CrmEdit, Event, VisitTypes, VisitTypeOK, WorkOK, HandlerOK
<1>2. /\ UNCHANGED <<visit, past, job, crmTodo, work, unsynced, agreed, loose>>
      /\ calledOff' \subseteq calledOff
  BY DEF CrmEdit
<1>3. crm \in [Visit -> CopyRow] /\ crmJob \in {"scheduled", "completed", "canceled"}
  BY DEF VisitTypes, VisitTypeOK
<1>4. CASE /\ \/ \E t \in Slot : crm' = [crm EXCEPT ![v] = [status |-> "scheduled", slot |-> t]]
              \/ \E s \in {"completed", "canceled_by_vendor"} : crm' = [crm EXCEPT ![v].status = s]
           /\ Behind("visits") /\ UNCHANGED crmJob
  <2>1. crm' \in [Visit -> CopyRow] BY <1>3, <1>4 DEF CopyRow
  <2>2. /\ rows' \in RowsType /\ "visits" \in rows'.behind
        /\ rows'.visits = rows.visits /\ rows'.above = rows.above
    BY <1>4, BehindTyped
  <2>3. VisitTypes' BY <1>1, <1>2, <1>3, <1>4, <2>1, <2>2, TypesKept DEF VisitTypes, VisitTypeOK
  <2> QED BY <1>2, <2>2, <2>3
<1>5. CASE crmJob' \in {"completed", "canceled"} /\ Behind("job") /\ UNCHANGED crm
  <2>1. /\ rows' \in RowsType /\ rows.behind \subseteq rows'.behind
        /\ rows'.visits = rows.visits /\ rows'.above = rows.above
    BY <1>5, BehindTyped
  <2>2. VisitTypes' BY <1>1, <1>2, <1>3, <1>5, <2>1, TypesKept DEF VisitTypes, VisitTypeOK
  <2> QED BY <1>2, <1>5, <2>1, <2>2
<1> QED BY <1>4, <1>5 DEF CrmEdit

LEMMA BeginsStep ==
  ASSUME VisitTypes, NEW v \in Visit, Begins(v)
  PROVE  VisitTypes' /\ UNCHANGED <<copies, visit, job, crmTodo, work, unsynced, history>>
<1>1. WorkOK' /\ past' \subseteq Visit /\ events' \in 0 .. MaxEvents
  BY VisitAssumption DEF Begins, Event, VisitTypes, VisitTypeOK, WorkOK, HandlerOK
<1>2. UNCHANGED <<copies, visit, job, crmTodo, work, unsynced, history>> BY DEF Begins
<1>3. VisitTypes' BY <1>1, <1>2, TypesKept DEF VisitTypes, VisitTypeOK, copies, history
<1> QED BY <1>2, <1>3

LEMMA EventTyped == ASSUME VisitTypes, Event PROVE events' \in 0 .. MaxEvents
BY VisitAssumption DEF Event, VisitTypes, VisitTypeOK

LEMMA DiesStep ==
  ASSUME VisitTypes, NEW a \in Actor, Dies(a)
  PROVE  /\ VisitTypes' /\ Others(a) /\ work'[a].steps = <<>>
         /\ loose' = loose \cup work[a].targets
         /\ unsynced \/ Has(work[a].steps, Settling) => unsynced'
         /\ UNCHANGED <<copies, visit, past, job, crmTodo, agreed, calledOff>>
<1>1. Busy(a) BY DEF Dies
<1>2. WorkOK /\ work[a].targets \subseteq Visit /\ work[a].steps \in Seq(Statement)
  BY <1>1, HandlerTypes
<1>3. work' = [work EXCEPT ![a] = Rest] BY DEF Dies
<1>4. WorkOK' /\ work'[a] = Rest /\ Others(a)
  BY <1>2, <1>3, Rested
<1>5. events' \in 0 .. MaxEvents /\ loose' \subseteq Visit /\ loose' = loose \cup work[a].targets
  <2>1. events' \in 0 .. MaxEvents BY EventTyped DEF Dies
  <2>2. loose' = loose \cup work[a].targets BY DEF Dies
  <2>3. loose \subseteq Visit BY DEF VisitTypes, VisitTypeOK
  <2> QED BY <1>2, <2>1, <2>2, <2>3, Zenon
<1>6. UNCHANGED <<copies, visit, past, job, crmTodo, agreed, calledOff>> BY DEF Dies
<1>7. VisitTypes' BY <1>4, <1>5, <1>6, TypesKept DEF VisitTypes, VisitTypeOK, copies
<1>8. unsynced \/ Has(work[a].steps, Settling) => unsynced'
  <2>1. DOMAIN work[a].steps = 1 .. Len(work[a].steps) BY <1>2
  <2>2. unsynced' = \/ unsynced
                    \/ \E i \in DOMAIN work[a].steps : work[a].steps[i] \in {"derive", "cancel job"}
    BY DEF Dies
  <2> QED BY <2>1, <2>2 DEF Has, Settling
<1> QED BY <1>4, <1>5, <1>6, <1>7, <1>8, RestTyped

LEMMA VisitStart == VisitInit => VisitTypes
<1> SUFFICES ASSUME VisitInit PROVE VisitTypes OBVIOUS
<1> DEFINE t == CHOOSE s \in Slot : \A r \in Slot : s <= r
<1>1. t \in Slot
  <2>1. \E s \in Slot : \A r \in Slot : s <= r
    <3> DEFINE R == OpToRel(<, Nat)
    <3>1. Slot \in SUBSET Nat /\ Slot # {} BY VisitAssumption
    <3>2. \A x, y \in Nat : <<y, x>> \in R <=> y < x BY DEF OpToRel
    <3>3. IsWellFoundedOn(R, Nat) BY NatLessThanWellFounded
    <3> HIDE DEF R
    <3>4. PICK s \in Slot : \A r \in Slot : ~(<<r, s>> \in R) BY <3>1, <3>3, WFMin
    <3>5. \A r \in Slot : s \in Nat /\ r \in Nat /\ ~(r < s) BY <3>1, <3>2, <3>4
    <3>6. \A r \in Slot : s <= r BY <3>5
    <3> QED BY <3>6
  <2> QED BY <2>1
<1> DEFINE booked == [status |-> "scheduled", slot |-> t, confirmed |-> FALSE]
<1> DEFINE copied == [status |-> "scheduled", slot |-> t]
<1>2. booked \in VisitRow /\ copied \in CopyRow /\ NoVisit \in VisitRow /\ NoCopy \in CopyRow
  BY <1>1 DEF VisitRow, CopyRow, NoVisit, NoCopy
<1>3. /\ crm = [v \in Visit |-> IF v \in Booked THEN copied ELSE NoCopy]
      /\ visit = [v \in Visit |-> IF v \in Booked THEN booked ELSE NoVisit]
      /\ rows = [job |-> crmJob, visits |-> crm, behind |-> {}, above |-> {}]
      /\ crmJob = "scheduled" /\ past = {} /\ job = "scheduled" /\ crmTodo = {}
      /\ work = [a \in Actor |-> Rest] /\ unsynced = FALSE
      /\ agreed = [v \in Visit |-> 0] /\ loose = {} /\ calledOff = {} /\ events = 0
  BY DEF VisitInit
<1> HIDE DEF booked, copied
<1>4. crm \in [Visit -> CopyRow] /\ visit \in [Visit -> VisitRow] BY <1>2, <1>3
<1>5. rows \in RowsType BY <1>3, <1>4 DEF RowsType
<1>6. WorkOK BY <1>3, RestTyped, EmptyPlanned DEF WorkOK, HandlerOK
<1>7. \A a \in Actor : work[a].left \subseteq work[a].targets BY <1>6 DEF WorkOK, HandlerOK
<1>8. /\ agreed \in [Visit -> Slot \cup {0}] /\ job \in JobStatuses /\ events \in 0 .. MaxEvents
      /\ past \subseteq Visit /\ crmTodo \subseteq Visit \cup {"job"}
      /\ loose \subseteq Visit /\ calledOff \subseteq Visit
  BY <1>3, VisitAssumption DEF JobStatuses, OwnedStatuses
<1>9. rows.visits \in [Visit -> CopyRow] /\ rows.above \cup rows.behind \subseteq {"job", "visits"}
  BY <1>5 DEF RowsType
<1> QED BY <1>3, <1>4, <1>5, <1>6, <1>7, <1>8, <1>9 DEF VisitTypes, VisitTypeOK

\* What a step of the component is.
LEMMA VisitSteps ==
  ASSUME VisitTypes, VisitNext
  PROVE  \/ \E a \in Actor \ {"sync"} : PersonBegins(a)
         \/ \E s \in ByHand : DeskJob(s)
         \/ "sync" \in Actor /\ (StartSync \/ SyncStep)
         \/ \E a \in Actor :
              \/ StepConfirm(a) \/ StepConfirmEach(a) \/ StepMove(a) \/ StepSetTime(a)
              \/ StepCreate(a) \/ StepCancel(a) \/ StepJob(a) \/ StepMirror(a) \/ Dies(a)
         \/ \E v \in Visit : CrmEdit(v) \/ Begins(v)
BY VoiceStep, ChatStep, DeskStep DEF VisitNext, Handling

LEMMA VisitTypesStep == VisitTypes /\ [VisitNext]_visitVars => VisitTypes'
<1> SUFFICES ASSUME VisitTypes, [VisitNext]_visitVars PROVE VisitTypes' OBVIOUS
<1>1. CASE UNCHANGED visitVars
  BY <1>1, TypesKept DEF visitVars, copies, history, VisitTypes, VisitTypeOK, WorkOK, HandlerOK
<1>2. CASE VisitNext
  <2>1. CASE \E v \in Visit, t \in Slot :
               \/ "voice" \in Actor /\ VoiceTool(v, t)
               \/ "chat" \in Actor /\ ChatTool(v, t)
               \/ "desk" \in Actor /\ DeskRequest(v, t)
    BY <2>1, VoiceStep, ChatStep, DeskStep
  <2>2. CASE "voice" \in Actor /\ VoiceToolJob BY <2>2, VoiceStep
  <2>3. CASE "chat" \in Actor /\ ChatToolJob BY <2>3, ChatStep
  <2>4. CASE \E s \in ByHand : DeskJob(s) BY <2>4, DeskJobStep
  <2>5. CASE "sync" \in Actor /\ StartSync BY <2>5, StartStep
  <2>6. ASSUME NEW a \in Actor, Handling(a) \/ Dies(a) PROVE VisitTypes'
    <3>1. CASE a = "sync" /\ SyncStep
      BY <3>1, ReadStep, WriteJobStep, WriteVisitsStep, InferStep, ConfirmAskedStep, AdvanceMarkStep
      DEF SyncStep
    <3>2. CASE Dies(a) BY <3>2, DiesStep
    <3>3. CASE \/ StepConfirm(a) \/ StepConfirmEach(a) \/ StepMove(a) \/ StepSetTime(a)
               \/ StepCreate(a) \/ StepCancel(a) \/ StepJob(a) \/ StepMirror(a)
      BY <3>3, ConfirmStep, ConfirmEachStep, MoveStep, SetTimeStep, NewVisitStep, CancelStep,
         JobStep, MirrorStep
    <3> QED BY <2>6, <3>1, <3>2, <3>3 DEF Handling
  <2>7. ASSUME NEW v \in Visit, CrmEdit(v) \/ Begins(v) PROVE VisitTypes'
    BY <2>7, CrmStep, BeginsStep
  <2> QED BY <1>2, <2>1, <2>2, <2>3, <2>4, <2>5, <2>6, <2>7 DEF VisitNext
<1> QED BY <1>1, <1>2

\* Every variable of Visits has its type, and every handler in flight still has
\* the statements to come that put right what its statements disturbed: the
\* status of the job, and the time ServiceTrade holds.
THEOREM VisitTyped == VisitSpec => []VisitTypes
BY VisitStart, VisitTypesStep, PTL DEF VisitSpec

-----------------------------------------------------------------------------
(* Visits: what the customer agreed to.                                    *)

\* One visit at a time.
Fresh(v) == visit[v].confirmed /\ visit[v].slot # agreed[v] => v \in loose

\* A statement that confirms makes the start of the visit the one agreed to.
LEMMA FreshMarked ==
  ASSUME VisitTypes, ConsentIsFresh, NEW S \in SUBSET Visit, MarkConfirmed(S), UNCHANGED loose
  PROVE  ConsentIsFresh'
<1> SUFFICES ASSUME NEW v \in Visit PROVE Fresh(v)' BY DEF ConsentIsFresh, Fresh
<1>1. CASE v \in S BY <1>1, Marked DEF Fresh
<1>2. CASE v \notin S BY <1>2, Marked DEF Fresh, Writes, ConsentIsFresh
<1> QED BY <1>1, <1>2

LEMMA FreshStep == VisitTypes /\ ConsentIsFresh /\ [VisitNext]_visitVars => ConsentIsFresh'
<1> SUFFICES ASSUME VisitTypes, ConsentIsFresh, [VisitNext]_visitVars PROVE ConsentIsFresh'
  OBVIOUS
<1>1. ASSUME UNCHANGED <<visit, agreed>>, loose \subseteq loose' PROVE ConsentIsFresh'
  BY <1>1 DEF ConsentIsFresh
<1>2. ASSUME NEW S \in SUBSET Visit, Writes(S), UNCHANGED agreed, loose \subseteq loose',
             \A v \in S : \/ ~visit'[v].confirmed \/ v \in loose'
                          \/ /\ visit'[v].slot = visit[v].slot
                             /\ visit'[v].confirmed = visit[v].confirmed
      PROVE  ConsentIsFresh'
  <2> SUFFICES ASSUME NEW v \in Visit PROVE Fresh(v)' BY DEF ConsentIsFresh, Fresh
  <2>1. CASE v \in S BY <1>2, <2>1 DEF Fresh, ConsentIsFresh
  <2>2. CASE v \notin S BY <1>2, <2>2 DEF Fresh, ConsentIsFresh, Writes
  <2> QED BY <2>1, <2>2
<1>3. CASE UNCHANGED visitVars BY <1>1, <1>3 DEF visitVars, history
<1>4. ASSUME NEW a \in Actor, PersonBegins(a) PROVE ConsentIsFresh'
  BY <1>1, <1>4 DEF PersonBegins, history
<1>5. ASSUME NEW s \in ByHand, DeskJob(s) PROVE ConsentIsFresh'
  BY <1>1, <1>5, DeskJobStep DEF history
<1>6. ASSUME "sync" \in Actor, StartSync \/ StepRead \/ StepWriteJob \/ StepInfer \/ StepAdvance
      PROVE  ConsentIsFresh'
  BY <1>1, <1>6, StartStep, ReadStep, WriteJobStep, InferStep, AdvanceMarkStep DEF history
<1>7. ASSUME "sync" \in Actor, StepConfirmAsked PROVE ConsentIsFresh'
  BY <1>7, ConfirmAskedStep, FreshMarked
<1>8. ASSUME "sync" \in Actor, StepWriteVisits PROVE ConsentIsFresh'
  BY <1>8, WriteVisitsStep DEF ConsentIsFresh
<1>9. ASSUME NEW a \in Actor, StepConfirm(a) PROVE ConsentIsFresh'
  BY <1>9, ConfirmStep, FreshMarked
<1>10. ASSUME NEW a \in Actor, StepConfirmEach(a) PROVE ConsentIsFresh'
  <2>1. PICK v \in work[a].targets : MarkConfirmed({v}) BY <1>10, ConfirmEachStep
  <2>2. {v} \in SUBSET Visit /\ UNCHANGED loose BY <1>10, ConfirmEachStep
  <2> QED BY <2>1, <2>2, FreshMarked
<1>11. ASSUME NEW a \in Actor, StepMove(a) PROVE ConsentIsFresh'
  BY <1>2, <1>11, MoveStep
<1>12. ASSUME NEW a \in Actor, StepSetTime(a) PROVE ConsentIsFresh'
  BY <1>2, <1>12, SetTimeStep
<1>13. ASSUME NEW a \in Actor, StepCreate(a) PROVE ConsentIsFresh'
  BY <1>2, <1>13, NewVisitStep
<1>14. ASSUME NEW a \in Actor, StepCancel(a) PROVE ConsentIsFresh'
  BY <1>2, <1>14, CancelStep DEF history
<1>15. ASSUME NEW a \in Actor, StepJob(a) \/ StepMirror(a) \/ Dies(a) PROVE ConsentIsFresh'
  BY <1>1, <1>15, JobStep, MirrorStep, DiesStep DEF history
<1>16. ASSUME NEW v \in Visit, CrmEdit(v) \/ Begins(v) PROVE ConsentIsFresh'
  BY <1>1, <1>16, CrmStep, BeginsStep DEF history
<1> QED BY <1>3, <1>4, <1>5, <1>6, <1>7, <1>8, <1>9, <1>10, <1>11, <1>12, <1>13, <1>14, <1>15,
           <1>16, VisitSteps DEF SyncStep

\* For any number of visits, times, actors and statements in between: a
\* confirmed visit is at the time that was agreed to, unless the office or
\* ServiceTrade moved it.
THEOREM ConsentStays == VisitSpec => []ConsentIsFresh
<1>1. VisitInit => ConsentIsFresh
  BY DEF VisitInit, ConsentIsFresh, NoVisit
<1> QED BY <1>1, VisitTyped, FreshStep, PTL DEF VisitSpec

-----------------------------------------------------------------------------
(* Visits: the status of the job.                                          *)

\* The status is right, or somebody is still to put it right, or it was set by
\* hand or left behind by a handler that died.
Settled == unsynced \/ InStep \/ \E a \in Actor : Has(work[a].steps, Settling)

LEMMA SameStatus ==
  ASSUME UNCHANGED <<visit, job>>
  PROVE  InStep' <=> InStep
BY DEF InStep, Exists, ListedConfirmed, Tally

\* What the recomputation writes is in step with the visits.
LEMMA DerivedInStep ==
  ASSUME VisitTypes, visit' = visit, job' = Derived(job)
  PROVE  InStep'
<1> SUFFICES ASSUME job' \in OwnedStatuses, \E v \in Visit : Exists(v)
             PROVE  /\ (job' = "confirmed") = ListedConfirmed
                    /\ (job' = "completed") = /\ Tally({"completed"}) # {}
                                              /\ Tally(Outstanding) = {}
  BY DEF InStep, Exists, ListedConfirmed, Tally
<1>1. job' = DerivedStatus BY DEF Derived
<1> DEFINE active == {v \in Visit : Exists(v) /\ visit[v].status # "cancelled"}
<1> DEFINE out == Tally(Outstanding)
<1> DEFINE done == Tally({"completed"})
<1>2. \A v \in Visit : visit[v].status \in {"none", "scheduled", "rescheduled", "completed", "cancelled"}
  BY DEF VisitTypes, VisitTypeOK, VisitRow
<1>3. active # {} /\ active = done <=> done # {} /\ out = {}
  BY <1>2 DEF Exists, Tally, Outstanding
<1> HIDE DEF active, out, done
<1>4. job' = CASE active # {} /\ active = done -> "completed"
               [] out # {} /\ \A v \in out : visit[v].confirmed -> "confirmed"
               [] OTHER -> "scheduled"
  BY <1>1 DEF DerivedStatus, active, out, done
<1>5. ListedConfirmed <=> out # {} /\ \A v \in out : visit[v].confirmed
  BY DEF ListedConfirmed, out
<1>6. CASE active # {} /\ active = done
  <2>1. job' = "completed" BY <1>3, <1>4, <1>6
  <2> QED BY <1>3, <1>5, <1>6, <2>1 DEF out, done
<1>7. CASE ~(active # {} /\ active = done) /\ ListedConfirmed
  <2>1. job' = "confirmed" BY <1>4, <1>5, <1>7
  <2> QED BY <1>3, <1>7, <2>1 DEF out, done
<1>8. CASE ~(active # {} /\ active = done) /\ ~ListedConfirmed
  <2>1. job' = "scheduled" BY <1>4, <1>5, <1>8
  <2>2. ListedConfirmed = FALSE BY <1>8 DEF ListedConfirmed
  <2>3. (done # {} /\ out = {}) = FALSE BY <1>3, <1>8
  <2> QED BY <2>1, <2>2, <2>3 DEF out, done
<1> QED BY <1>6, <1>7, <1>8

\* A statement that leaves the visits and the status alone, and is not one that
\* somebody waits for.
LEMMA SettledKept ==
  ASSUME VisitTypes, Settled, NEW a \in Actor, Busy(a), Head(work[a].steps) \notin Settling,
         Others(a), work'[a].steps = Tail(work[a].steps),
         UNCHANGED <<visit, job>>, unsynced' = unsynced
  PROVE  Settled'
<1>1. \A b \in Actor : Has(work[b].steps, Settling) => Has(work'[b].steps, Settling)
  BY HandlerTypes, HasTail DEF Others
<1> QED BY <1>1, SameStatus DEF Settled

\* One that disturbs the status has another one behind it.
LEMMA SettledLater ==
  ASSUME VisitTypes, NEW a \in Actor, Busy(a), Head(work[a].steps) \in Unsettling,
         work'[a].steps \in {work[a].steps, Tail(work[a].steps)}
  PROVE  Settled'
<1>1. Has(Tail(work[a].steps), Settling) /\ Has(work[a].steps, Settling)
  BY HandlerTypes, PlanTail, HasTail
<1> QED BY <1>1 DEF Settled

LEMMA SettledStep == VisitTypes /\ Settled /\ [VisitNext]_visitVars => Settled'
<1> SUFFICES ASSUME VisitTypes, Settled, [VisitNext]_visitVars PROVE Settled' OBVIOUS
<1>1. ASSUME UNCHANGED <<visit, job, work, unsynced>> PROVE Settled'
  BY <1>1, SameStatus DEF Settled
<1>2. ASSUME NEW a \in Actor, ~Busy(a), Others(a), UNCHANGED <<visit, job, unsynced>> PROVE Settled'
  <2>1. ~Has(work[a].steps, Settling) BY <1>2 DEF Busy, Has
  <2> QED BY <1>2, <2>1, SameStatus DEF Settled, Others
<1>3. CASE UNCHANGED visitVars BY <1>1, <1>3 DEF visitVars
<1>4. ASSUME NEW a \in Actor, PersonBegins(a) PROVE Settled'
  BY <1>2, <1>4 DEF PersonBegins
<1>5. ASSUME NEW s \in ByHand, DeskJob(s) PROVE Settled' BY <1>5, DeskJobStep DEF Settled
<1>6. ASSUME "sync" \in Actor, StartSync PROVE Settled' BY <1>2, <1>6, StartStep
<1>7. ASSUME "sync" \in Actor, StepRead \/ StepAdvance PROVE Settled'
  <2>1. Busy("sync") /\ Head(work["sync"].steps) \notin Settling
    BY <1>7, ReadStep, AdvanceMarkStep DEF At, Settling
  <2>2. Went("sync") /\ UNCHANGED <<visit, job, unsynced>> BY <1>7, ReadStep, AdvanceMarkStep
  <2> QED BY <1>7, <2>1, <2>2, SettledKept DEF Went
<1>8. ASSUME "sync" \in Actor, StepWriteJob \/ StepWriteVisits \/ StepConfirmAsked PROVE Settled'
  <2>1. Busy("sync") /\ Head(work["sync"].steps) \in Unsettling
    BY <1>8, WriteJobStep, WriteVisitsStep, ConfirmAskedStep DEF At, Unsettling
  <2>2. work'["sync"].steps = Tail(work["sync"].steps)
    BY <1>8, WriteJobStep, WriteVisitsStep, ConfirmAskedStep DEF Went
  <2> QED BY <1>8, <2>1, <2>2, SettledLater
<1>9. ASSUME "sync" \in Actor, StepInfer PROVE Settled'
  <2>1. Busy("sync") /\ Head(work["sync"].steps) \notin Settling /\ UNCHANGED <<visit, job, unsynced>>
    BY <1>9, InferStep DEF At, Settling
  <2>2. CASE Went("sync") BY <1>9, <2>1, <2>2, SettledKept DEF Went
  <2>3. CASE work'["sync"].steps = Inferred \o Tail(work["sync"].steps)
    <3>1. Tail(work["sync"].steps) \in Seq(Statement) BY <1>9, <2>1, HandlerTypes
    <3>2. Inferred \in Seq(Statement) /\ Len(Inferred) = 2 /\ Inferred[2] = "derive"
      <4>1. "confirm asked" \in Statement /\ "derive" \in Statement
        BY DEF Statement, Unsettling, Settling
      <4> QED BY <4>1, SeqTyped DEF Inferred
    <3>3. 2 \in 1 .. Len(work'["sync"].steps) /\ work'["sync"].steps[2] = "derive"
      BY <2>3, <3>1, <3>2, TwoBefore
    <3>4. Has(work'["sync"].steps, Settling) BY <3>3 DEF Has, Settling
    <3> QED BY <1>9, <3>4 DEF Settled
  <2> QED BY <1>9, <2>2, <2>3, InferStep
<1>10. ASSUME NEW a \in Actor, StepConfirm(a) \/ StepConfirmEach(a) \/ StepMove(a) \/ StepSetTime(a)
                               \/ StepCreate(a) \/ StepCancel(a)
       PROVE  Settled'
  <2>1. Busy(a) /\ Head(work[a].steps) \in Unsettling
    BY <1>10 DEF StepConfirm, StepConfirmEach, StepMove, StepSetTime, StepCreate, StepCancel, At,
                 Unsettling
  <2>2. work'[a].steps \in {work[a].steps, Tail(work[a].steps)}
    BY <1>10, ConfirmStep, ConfirmEachStep, MoveStep, SetTimeStep, NewVisitStep, CancelStep DEF Went
  <2> QED BY <2>1, <2>2, SettledLater
<1>11. ASSUME NEW a \in Actor, StepJob(a) PROVE Settled'
  <2>1. Went(a) /\ UNCHANGED visit BY <1>11, JobStep
  <2>2. CASE At(a, "open")
    BY <2>1, <2>2, SettledLater DEF At, Unsettling, Went
  <2>3. CASE job' \in {"cancelled", "rescheduled", "open"}
    BY <2>3 DEF Settled, InStep, OwnedStatuses
  <2>4. CASE At(a, "reopen") /\ job' = job /\ unsynced' = unsynced
    BY <2>1, <2>4, SettledKept DEF At, Settling, Went
  <2>5. CASE job' = Derived(job) BY <2>1, <2>5, DerivedInStep DEF Settled
  <2> QED BY <1>11, <2>2, <2>3, <2>4, <2>5, JobStep
<1>12. ASSUME NEW a \in Actor, StepMirror(a) PROVE Settled'
  <2>1. Busy(a) /\ Head(work[a].steps) \notin Settling
    BY <1>12, MirrorStep DEF At, Settling
  <2>2. Went(a) /\ UNCHANGED <<visit, job, unsynced>> BY <1>12, MirrorStep
  <2> QED BY <2>1, <2>2, SettledKept DEF Went
<1>13. ASSUME NEW a \in Actor, Dies(a) PROVE Settled'
  <2>1. Others(a) /\ UNCHANGED <<visit, job>> BY <1>13, DiesStep
  <2>2. unsynced \/ Has(work[a].steps, Settling) => unsynced' BY <1>13, DiesStep
  <2> QED BY <2>1, <2>2, SameStatus DEF Settled, Others
<1>14. ASSUME NEW v \in Visit, CrmEdit(v) \/ Begins(v) PROVE Settled'
  BY <1>1, <1>14, CrmStep, BeginsStep
<1> QED BY <1>3, <1>4, <1>5, <1>6, <1>7, <1>8, <1>9, <1>10, <1>11, <1>12, <1>13, <1>14,
           VisitSteps DEF SyncStep

\* However calls, chats, the office and the normalizer interleave: when nobody
\* is in a handler, the status of the job agrees with its visits, unless it was
\* set by hand or a handler died before it recomputed it.
THEOREM JobStaysInStep == VisitSpec => []JobInStep
<1>1. VisitInit => Settled
  <2> SUFFICES ASSUME VisitInit PROVE InStep BY DEF Settled
  <2>1. job = "scheduled" /\ \A v \in Visit : visit[v].status \in {"none", "scheduled"} /\ ~visit[v].confirmed
    BY DEF VisitInit, NoVisit
  <2>2. ASSUME NEW v \in Visit, Exists(v) PROVE ListedConfirmed = FALSE
    BY <2>1, <2>2 DEF Exists, ListedConfirmed, Tally, Outstanding
  <2>3. Tally({"completed"}) = {} BY <2>1 DEF Tally
  <2> QED BY <2>1, <2>2, <2>3 DEF InStep
<1>2. Settled => JobInStep
  BY DEF Settled, JobInStep, VisitsQuiet, Busy, Has
<1> QED BY <1>1, <1>2, VisitTyped, SettledStep, PTL DEF VisitSpec

-----------------------------------------------------------------------------
(* Visits: the time ServiceTrade holds.                                    *)

\* A handler cancels visits there are; the normalizer's, too, are there.
Held(a) == a = "sync" \/ Has(work[a].steps, {"cancel"}) => \A v \in work[a].targets : Exists(v)
HeldOK  == \A a \in Actor : Held(a)

\* The rows as last read are ServiceTrade's, unless those changed since then.
CopyOK == "visits" \notin rows.behind => rows.visits = crm

\* The normalizer is past writing the visits it read.
WroteVisits == /\ "sync" \in Actor /\ Busy("sync")
               /\ ~Has(work["sync"].steps, {"write visits"})

\* Why a time the agent and ServiceTrade do not share has not been dealt with:
\* staff are told or moved it, ServiceTrade changed it after the last sync
\* read it or the sync is still to write it, or a handler is to mirror it.
Excused(v) ==
  \/ v \in crmTodo \cup loose \/ "visits" \in rows.behind
  \/ "visits" \in rows.above /\ ~WroteVisits
  \/ \E a \in Actor : v \in work[a].targets /\ Has(work[a].steps, Mirrors)
Matched(v) ==
  AgentChanges /\ Exists(v) /\ Linked(v) /\ visit[v].slot # crm[v].slot => Excused(v)

MoveInv == HeldOK /\ CopyOK /\ \A v \in Visit : Matched(v)

LEMMA HeldKept ==
  ASSUME VisitTypes, HeldOK, NEW a \in Actor, Others(a), work'[a].targets \subseteq work[a].targets,
         \A v \in Visit : Exists(v) => Exists(v)',
         \/ work'[a].steps = work[a].steps
         \/ Busy(a) /\ work'[a].steps = Tail(work[a].steps)
         \/ work'[a].steps = <<>> \/ a = "sync"
  PROVE  HeldOK'
<1>1. \A b \in Actor : work[b].targets \subseteq Visit BY DEF VisitTypes, WorkOK, WorkType
<1>2. ASSUME NEW b \in Actor \ {a} PROVE Held(b)'
  BY <1>1 DEF Others, HeldOK, Held
<1>3. Has(work'[a].steps, {"cancel"}) => a = "sync" \/ Has(work[a].steps, {"cancel"})
  <2>1. CASE Busy(a) /\ work'[a].steps = Tail(work[a].steps) BY <2>1, HandlerTypes, HasTail
  <2>2. CASE work'[a].steps = <<>> BY <2>2 DEF Has
  <2> QED BY <2>1, <2>2
<1>4. Held(a)' BY <1>1, <1>3 DEF HeldOK, Held
<1> QED BY <1>2, <1>4 DEF HeldOK

LEMMA HeldWent ==
  ASSUME VisitTypes, HeldOK, NEW a \in Actor, Busy(a), Went(a),
         \A v \in Visit : Exists(v) => Exists(v)'
  PROVE  HeldOK'
BY HeldKept DEF Went

\* A step that leaves the times of a visit alone.
LEMMA MatchedKept ==
  ASSUME VisitTypes, NEW v \in Visit, Matched(v), NEW a \in Actor, Others(a),
         Exists(v)' => Exists(v), visit'[v].slot = visit[v].slot, crm'[v] = crm[v],
         crmTodo \subseteq crmTodo', loose \subseteq loose',
         "visits" \in rows.behind => "visits" \in rows'.behind,
         "visits" \in rows.above => "visits" \in rows'.above,
         v \in work[a].targets /\ Has(work[a].steps, Mirrors) =>
           v \in loose' \/ (v \in work'[a].targets /\ Has(work'[a].steps, Mirrors)),
         a = "sync" /\ WroteVisits' => WroteVisits
  PROVE  Matched(v)'
<1> SUFFICES ASSUME AgentChanges, Exists(v)', Linked(v)', visit'[v].slot # crm'[v].slot PROVE Excused(v)'
  BY DEF Matched
<1>1. Excused(v) BY DEF Matched, Linked
<1>2. WroteVisits' => WroteVisits
  <2>1. CASE a # "sync" BY <2>1 DEF Others, WroteVisits, Busy
  <2> QED BY <2>1
<1>3. ASSUME NEW b \in Actor, v \in work[b].targets, Has(work[b].steps, Mirrors) PROVE Excused(v)'
  <2>1. CASE b = a BY <1>3, <2>1 DEF Excused
  <2>2. CASE b # a BY <1>3, <2>2 DEF Excused, Others
  <2> QED BY <2>1, <2>2
<1> QED BY <1>1, <1>2, <1>3 DEF Excused

\* What a statement that neither mirrors nor writes the visits that were read
\* leaves to be done.
LEMMA SyncStill ==
  ASSUME VisitTypes, NEW a \in Actor, Busy(a), Went(a), a = "sync",
         Head(work[a].steps) # "write visits", WroteVisits'
  PROVE  WroteVisits
<1>1. work[a].steps \in Seq(Statement) /\ work[a].steps # <<>> BY HandlerTypes
<1>2. ~Has(Tail(work["sync"].steps), {"write visits"}) BY DEF WroteVisits, Went
<1>3. ~Has(work["sync"].steps, {"write visits"}) BY <1>1, <1>2, HasTail
<1> QED BY <1>3 DEF WroteVisits

LEMMA StillToDo ==
  ASSUME VisitTypes, NEW a \in Actor, Busy(a), Went(a), Head(work[a].steps) \notin Mirrors
  PROVE  \A v : v \in work[a].targets /\ Has(work[a].steps, Mirrors) =>
                  v \in work'[a].targets /\ Has(work'[a].steps, Mirrors)
<1>1. work[a].steps \in Seq(Statement) /\ work[a].steps # <<>> BY HandlerTypes
<1>2. ASSUME Has(work[a].steps, Mirrors)
      PROVE  Has(work'[a].steps, Mirrors) /\ work'[a].targets = work[a].targets
  <2>1. Has(work'[a].steps, Mirrors) BY <1>1, <1>2, HasTail DEF Went
  <2>2. work'[a].steps # <<>> BY <2>1 DEF Has
  <2> QED BY <2>1, <2>2 DEF Went
<1> QED BY <1>2

LEMMA MatchedWent ==
  ASSUME VisitTypes, NEW v \in Visit, Matched(v), NEW a \in Actor, Busy(a), Went(a),
         Head(work[a].steps) \notin Mirrors, Head(work[a].steps) # "write visits",
         Exists(v)' => Exists(v), visit'[v].slot = visit[v].slot, crm'[v] = crm[v],
         crmTodo \subseteq crmTodo', loose \subseteq loose',
         "visits" \in rows.behind => "visits" \in rows'.behind,
         "visits" \in rows.above => "visits" \in rows'.above
  PROVE  Matched(v)'
BY StillToDo, SyncStill, MatchedKept DEF Went

\* A visit that a handler is about, with the statement that mirrors it to come.
LEMMA MirrorsAhead ==
  ASSUME VisitTypes, NEW a \in Actor, Busy(a), Went(a), NEW v \in work[a].targets,
         Head(work[a].steps) = "move" \/ (Head(work[a].steps) = "create" /\ a # "desk")
  PROVE  Matched(v)'
<1>1. Has(work'[a].steps, Mirrors) BY HandlerTypes, PlanTail DEF Went
<1>2. work'[a].steps # <<>> BY <1>1 DEF Has
<1>3. v \in work'[a].targets BY <1>2 DEF Went
<1> QED BY <1>1, <1>3 DEF Matched, Excused

\* No step makes a visit disappear.
LEMMA VisitsStay ==
  ASSUME VisitTypes, [VisitNext]_visitVars, NEW v \in Visit, Exists(v)
  PROVE  Exists(v)'
<1>1. ASSUME visit'[v] = visit[v] \/ visit'[v].status = visit[v].status PROVE Exists(v)'
  BY <1>1 DEF Exists
<1>2. CASE UNCHANGED visitVars BY <1>1, <1>2 DEF visitVars
<1>3. ASSUME NEW a \in Actor, PersonBegins(a) PROVE Exists(v)' BY <1>1, <1>3 DEF PersonBegins
<1>4. ASSUME NEW s \in ByHand, DeskJob(s) PROVE Exists(v)' BY <1>1, <1>4, DeskJobStep
<1>5. ASSUME "sync" \in Actor,
             StartSync \/ StepRead \/ StepWriteJob \/ StepWriteVisits \/ StepInfer \/ StepAdvance
      PROVE  Exists(v)'
  BY <1>1, <1>5, StartStep, ReadStep, WriteJobStep, WriteVisitsStep, InferStep, AdvanceMarkStep
<1>6. ASSUME "sync" \in Actor, StepConfirmAsked PROVE Exists(v)'
  BY <1>1, <1>6, ConfirmAskedStep, Marked
<1>7. ASSUME NEW a \in Actor, StepConfirm(a) \/ StepConfirmEach(a) PROVE Exists(v)'
  <2>1. PICK S \in SUBSET Visit : MarkConfirmed(S)
    <3>1. CASE StepConfirm(a) BY <3>1, ConfirmStep
    <3>2. CASE StepConfirmEach(a)
      <4>1. PICK w \in work[a].targets : MarkConfirmed({w}) BY <3>2, ConfirmEachStep
      <4>2. {w} \in SUBSET Visit BY <3>2, ConfirmEachStep
      <4> QED BY <4>1, <4>2
    <3> QED BY <1>7, <3>1, <3>2
  <2> QED BY <1>1, <2>1, Marked
<1>8. ASSUME NEW a \in Actor, StepMove(a) \/ StepSetTime(a) \/ StepCreate(a) \/ StepCancel(a)
      PROVE  Exists(v)'
  <2>1. Writes(work[a].targets)
        /\ \A w \in work[a].targets : visit'[w].status \in {"rescheduled", "scheduled", "cancelled"}
    BY <1>8, MoveStep, SetTimeStep, NewVisitStep, CancelStep
  <2>2. CASE v \in work[a].targets BY <2>1, <2>2 DEF Exists
  <2>3. CASE v \notin work[a].targets BY <1>1, <2>1, <2>3 DEF Writes
  <2> QED BY <2>2, <2>3
<1>9. ASSUME NEW a \in Actor, StepJob(a) \/ StepMirror(a) \/ Dies(a) PROVE Exists(v)'
  BY <1>1, <1>9, JobStep, MirrorStep, DiesStep
<1>10. ASSUME NEW w \in Visit, CrmEdit(w) \/ Begins(w) PROVE Exists(v)'
  BY <1>1, <1>10, CrmStep, BeginsStep
<1> QED BY <1>2, <1>3, <1>4, <1>5, <1>6, <1>7, <1>8, <1>9, <1>10, VisitSteps DEF SyncStep

LEMMA HeldStep == VisitTypes /\ HeldOK /\ [VisitNext]_visitVars => HeldOK'
<1> SUFFICES ASSUME VisitTypes, HeldOK, [VisitNext]_visitVars PROVE HeldOK' OBVIOUS
<1>0. \A v \in Visit : Exists(v) => Exists(v)' BY VisitsStay
<1>1. ASSUME UNCHANGED work PROVE HeldOK'
  <2>1. \A a \in Actor : work[a].targets \subseteq Visit BY DEF VisitTypes, WorkOK, WorkType
  <2> QED BY <1>0, <1>1, <2>1 DEF HeldOK, Held
<1>2. CASE UNCHANGED visitVars BY <1>1, <1>2 DEF visitVars
<1>3. ASSUME NEW a \in Actor, a # "sync", PersonBegins(a) PROVE HeldOK'
  <2>1. \A b \in Actor : work[b].targets \subseteq Visit BY DEF VisitTypes, WorkOK, WorkType
  <2>2. ASSUME NEW b \in Actor \ {a} PROVE Held(b)'
    BY <1>0, <1>3, <2>1 DEF PersonBegins, Others, HeldOK, Held
  <2>3. Held(a)' BY <1>0, <1>3 DEF PersonBegins, Held
  <2> QED BY <2>2, <2>3 DEF HeldOK
<1>4. ASSUME NEW s \in ByHand, DeskJob(s) PROVE HeldOK' BY <1>1, <1>4, DeskJobStep
<1>5. ASSUME "sync" \in Actor, StartSync PROVE HeldOK'
  <2>1. work'["sync"].targets = work["sync"].targets
    BY <1>5 DEF StartSync, VisitTypes, WorkOK, WorkType
  <2> QED BY <1>0, <1>5, <2>1, StartStep, HeldKept
<1>6. ASSUME "sync" \in Actor, StepRead \/ StepWriteJob \/ StepWriteVisits \/ StepAdvance
      PROVE  HeldOK'
  BY <1>0, <1>6, ReadStep, WriteJobStep, WriteVisitsStep, AdvanceMarkStep, HeldWent DEF At
<1>7. ASSUME "sync" \in Actor, StepInfer PROVE HeldOK'
  <2>1. work'["sync"].targets \subseteq work["sync"].targets /\ Others("sync")
    BY <1>7, InferStep DEF Went
  <2> QED BY <1>0, <1>7, <2>1, HeldKept
<1>8. ASSUME "sync" \in Actor, StepConfirmAsked PROVE HeldOK'
  <2>1. \A a \in Actor : work[a].targets \subseteq Visit BY DEF VisitTypes, WorkOK, WorkType
  <2>2. ASSUME NEW b \in Actor \ {"sync"} PROVE Held(b)'
    BY <1>0, <1>8, <2>1, ConfirmAskedStep DEF Others, HeldOK, Held
  <2>3. work'["sync"].targets = Asked
    BY <1>8 DEF StepConfirmAsked, VisitTypes, WorkOK, WorkType
  <2>4. \A v \in Asked : v \in Visit /\ Exists(v) BY DEF Asked, Upcoming, Outstanding, Exists
  <2>5. Held("sync")' BY <1>0, <2>3, <2>4 DEF Held
  <2> QED BY <2>2, <2>5 DEF HeldOK
<1>9. ASSUME NEW a \in Actor, StepConfirmEach(a) PROVE HeldOK'
  <2>1. Busy(a) BY <1>9, ConfirmEachStep DEF At
  <2>2. CASE Went(a) BY <1>0, <2>1, <2>2, HeldWent
  <2>3. CASE Others(a) /\ work'[a].steps = work[a].steps /\ work'[a].targets = work[a].targets
    BY <1>0, <2>3, HeldKept
  <2> QED BY <1>9, <2>2, <2>3, ConfirmEachStep
<1>10. ASSUME NEW a \in Actor,
              \/ StepConfirm(a) \/ StepMove(a) \/ StepSetTime(a) \/ StepCreate(a)
              \/ StepCancel(a) \/ StepJob(a) \/ StepMirror(a)
       PROVE  HeldOK'
  <2>1. Busy(a) BY <1>10 DEF StepConfirm, StepMove, StepSetTime, StepCreate, StepCancel, StepJob,
                             StepMirror, At
  <2>2. Went(a) BY <1>10, ConfirmStep, MoveStep, SetTimeStep, NewVisitStep, CancelStep, JobStep,
                   MirrorStep
  <2> QED BY <1>0, <2>1, <2>2, HeldWent
<1>11. ASSUME NEW a \in Actor, Dies(a) PROVE HeldOK'
  <2>1. work'[a].targets \subseteq work[a].targets
    BY <1>11, RestTyped DEF Dies, VisitTypes, WorkOK
  <2> QED BY <1>0, <1>11, <2>1, DiesStep, HeldKept
<1>12. ASSUME NEW v \in Visit, CrmEdit(v) \/ Begins(v) PROVE HeldOK'
  BY <1>1, <1>12, CrmStep, BeginsStep
<1> QED BY <1>2, <1>3, <1>4, <1>5, <1>6, <1>7, <1>8, <1>9, <1>10, <1>11, <1>12, VisitSteps
        DEF SyncStep

LEMMA CopyStep == VisitTypes /\ CopyOK /\ [VisitNext]_visitVars => CopyOK'
<1> SUFFICES ASSUME VisitTypes, CopyOK, [VisitNext]_visitVars PROVE CopyOK' OBVIOUS
<1>1. ASSUME UNCHANGED <<crm, rows>> PROVE CopyOK' BY <1>1 DEF CopyOK
<1>2. ASSUME rows'.visits = rows.visits,
             "visits" \in rows'.behind \/ (crm' = crm /\ rows.behind \subseteq rows'.behind)
      PROVE  CopyOK'
  BY <1>2 DEF CopyOK
<1>3. CASE UNCHANGED visitVars BY <1>1, <1>3 DEF visitVars, copies
<1>4. ASSUME NEW a \in Actor, PersonBegins(a) PROVE CopyOK' BY <1>1, <1>4 DEF PersonBegins, copies
<1>5. ASSUME NEW s \in ByHand, DeskJob(s) PROVE CopyOK' BY <1>1, <1>5, DeskJobStep DEF copies
<1>6. ASSUME "sync" \in Actor,
             StartSync \/ StepWriteJob \/ StepWriteVisits \/ StepInfer \/ StepConfirmAsked
      PROVE  CopyOK'
  BY <1>1, <1>6, StartStep, WriteJobStep, WriteVisitsStep, InferStep, ConfirmAskedStep DEF copies
<1>7. ASSUME "sync" \in Actor, StepRead PROVE CopyOK' BY <1>7, ReadStep DEF CopyOK
<1>8. ASSUME "sync" \in Actor, StepAdvance PROVE CopyOK' BY <1>8, AdvanceMarkStep DEF CopyOK
<1>9. ASSUME NEW a \in Actor,
             \/ StepConfirm(a) \/ StepConfirmEach(a) \/ StepMove(a) \/ StepSetTime(a)
             \/ StepCreate(a) \/ StepCancel(a) \/ StepJob(a) \/ Dies(a)
      PROVE  CopyOK'
  BY <1>1, <1>9, ConfirmStep, ConfirmEachStep, MoveStep, SetTimeStep, NewVisitStep, CancelStep,
     JobStep, DiesStep DEF copies
<1>10. ASSUME NEW a \in Actor, StepMirror(a) PROVE CopyOK'
  BY <1>2, <1>10, MirrorStep DEF RowsAge
<1>11. ASSUME NEW v \in Visit, CrmEdit(v) PROVE CopyOK' BY <1>2, <1>11, CrmStep
<1>12. ASSUME NEW v \in Visit, Begins(v) PROVE CopyOK' BY <1>1, <1>12, BeginsStep DEF copies
<1> QED BY <1>3, <1>4, <1>5, <1>6, <1>7, <1>8, <1>9, <1>10, <1>11, <1>12, VisitSteps DEF SyncStep

\* The normalizer is past its writing when the watermark moves, and has it to
\* come when it reads.
LEMMA SyncPlan ==
  ASSUME VisitTypes, "sync" \in Actor, Busy("sync")
  PROVE  /\ ~Has(work["sync"].steps, Mirrors)
         /\ Head(work["sync"].steps) = "read visits" =>
              Has(Tail(work["sync"].steps), {"write visits"})
         /\ Head(work["sync"].steps) = "advance" => WroteVisits
<1>1. work["sync"].steps \in Seq(Statement) /\ work["sync"].steps # <<>>
      /\ PlanOK("sync", work["sync"].steps)
  BY HandlerTypes
<1>2. Head(work["sync"].steps) = "read visits" => Has(Tail(work["sync"].steps), {"write visits"})
  BY <1>1, PlanTail
<1>3. ASSUME Head(work["sync"].steps) = "advance" PROVE WroteVisits
  <2>1. ~Has(Tail(work["sync"].steps), {"write visits"}) BY <1>1, <1>3, PlanTail
  <2>2. ~Has(work["sync"].steps, {"write visits"}) BY <1>1, <1>3, <2>1, HasTail
  <2> QED BY <2>2 DEF WroteVisits
<1> QED BY <1>1, <1>2, <1>3 DEF PlanOK

\* What the normalizer read and wrote is what ServiceTrade holds, unless that
\* changed since.
LEMMA MatchedWritten ==
  ASSUME VisitTypes, MoveInv, "sync" \in Actor, StepWriteVisits, NEW v \in Visit
  PROVE  Matched(v)'
<1>1. /\ Went("sync") /\ At("sync", "write visits") /\ loose \subseteq loose'
      /\ UNCHANGED <<crm, rows, crmTodo>>
  BY WriteVisitsStep DEF copies
<1>2. Busy("sync") /\ Head(work["sync"].steps) = "write visits" BY <1>1 DEF At
<1>3. CASE "visits" \in rows.above /\ rows.visits[v].status # "none"
  <2>1. visit'[v].slot = rows.visits[v].slot BY <1>3, WriteVisitsStep
  <2>2. "visits" \in rows.behind \/ visit'[v].slot = crm'[v].slot
    BY <1>1, <2>1 DEF MoveInv, CopyOK
  <2> QED BY <1>1, <2>2 DEF Matched, Excused
<1>4. CASE ~("visits" \in rows.above /\ rows.visits[v].status # "none")
  <2>1. visit'[v] = visit[v] BY <1>4, WriteVisitsStep
  <2> SUFFICES ASSUME AgentChanges, Exists(v)', Linked(v)', visit'[v].slot # crm'[v].slot PROVE Excused(v)'
    BY DEF Matched
  <2>2. Exists(v) /\ Linked(v) /\ visit[v].slot # crm[v].slot BY <1>1, <2>1 DEF Exists, Linked
  <2>3. Excused(v) BY <2>2 DEF MoveInv, Matched
  <2>4. CASE v \in crmTodo \cup loose \/ "visits" \in rows.behind BY <1>1, <2>4 DEF Excused
  <2>5. CASE "visits" \in rows.above /\ "visits" \notin rows.behind
    <3>1. rows.visits[v] = crm[v] BY <2>5 DEF MoveInv, CopyOK
    <3> QED BY <1>4, <2>2, <2>5, <3>1 DEF Linked
  <2>6. CASE \E a \in Actor : v \in work[a].targets /\ Has(work[a].steps, Mirrors)
    <3>1. PICK a \in Actor : v \in work[a].targets /\ Has(work[a].steps, Mirrors) BY <2>6
    <3>2. a # "sync" BY <1>2, <3>1, SyncPlan
    <3>3. work'[a] = work[a] BY <1>1, <3>2 DEF Went, Others
    <3> QED BY <3>1, <3>3 DEF Excused
  <2> QED BY <2>3, <2>4, <2>5, <2>6 DEF Excused
<1> QED BY <1>3, <1>4

LEMMA MatchedRead ==
  ASSUME VisitTypes, MoveInv, "sync" \in Actor, StepRead \/ StepAdvance, NEW v \in Visit
  PROVE  Matched(v)'
<1>1. Went("sync") /\ UNCHANGED <<crm, visit, crmTodo, loose>> /\ Busy("sync")
  BY ReadStep, AdvanceMarkStep DEF history, At
<1>2. Matched(v) BY DEF MoveInv
<1>3. CASE At("sync", "read job") /\ StepRead
  <2>1. Head(work["sync"].steps) \notin Mirrors /\ Head(work["sync"].steps) # "write visits"
    BY <1>3 DEF At, Mirrors
  <2>2. /\ "visits" \in rows'.behind <=> "visits" \in rows.behind
        /\ "visits" \in rows'.above <=> "visits" \in rows.above
    BY <1>3, ReadStep DEF At
  <2> QED BY <1>1, <1>2, <2>1, <2>2, MatchedWent DEF Exists
<1> SUFFICES ASSUME AgentChanges, Exists(v)', Linked(v)', visit'[v].slot # crm'[v].slot,
                    ~(At("sync", "read job") /\ StepRead)
             PROVE  Excused(v)'
  BY <1>3 DEF Matched
<1>4. Exists(v) /\ Linked(v) /\ visit[v].slot # crm[v].slot BY <1>1 DEF Exists, Linked
<1>5. Excused(v) BY <1>2, <1>4 DEF Matched
<1>6. CASE v \in crmTodo \cup loose BY <1>1, <1>6 DEF Excused
<1>7. CASE \E a \in Actor : v \in work[a].targets /\ Has(work[a].steps, Mirrors)
  <2>1. PICK a \in Actor : v \in work[a].targets /\ Has(work[a].steps, Mirrors) BY <1>7
  <2>2. a # "sync" BY <1>1, <2>1, SyncPlan
  <2>3. work'[a] = work[a] BY <1>1, <2>2 DEF Went, Others
  <2> QED BY <2>1, <2>3 DEF Excused
<1>8. CASE At("sync", "read visits") /\ StepRead
  <2>1. Has(Tail(work["sync"].steps), {"write visits"}) BY <1>8, SyncPlan DEF At
  <2>2. ~WroteVisits' BY <1>1, <2>1 DEF WroteVisits, Went
  <2>3. "visits" \in rows.behind \/ "visits" \in rows.above => "visits" \in rows'.above
    BY <1>8, ReadStep DEF At
  <2> QED BY <1>5, <1>6, <1>7, <2>2, <2>3 DEF Excused
<1>9. CASE StepAdvance
  <2>1. WroteVisits BY <1>9, AdvanceMarkStep, SyncPlan DEF At
  <2>2. rows'.behind = rows.behind BY <1>9, AdvanceMarkStep
  <2> QED BY <1>5, <1>6, <1>7, <2>1, <2>2 DEF Excused
<1> QED BY <1>8, <1>9, ReadStep

LEMMA MoveInvStep == VisitTypes /\ MoveInv /\ [VisitNext]_visitVars => MoveInv'
<1> SUFFICES ASSUME VisitTypes, MoveInv, [VisitNext]_visitVars, NEW v \in Visit PROVE Matched(v)'
  BY HeldStep, CopyStep DEF MoveInv
<1>0. Matched(v) BY DEF MoveInv
<1>1. ASSUME UNCHANGED <<crm, rows, visit, crmTodo, loose, work>> PROVE Matched(v)'
  BY <1>0, <1>1 DEF Matched, Excused, Exists, Linked, WroteVisits, Busy
<1>2. CASE UNCHANGED visitVars BY <1>1, <1>2 DEF visitVars, copies, history
<1>3. ASSUME NEW a \in Actor, a # "sync", PersonBegins(a) PROVE Matched(v)'
  <2>1. ~Has(work[a].steps, Mirrors) BY <1>3 DEF PersonBegins, Busy, Has
  <2> QED BY <1>0, <1>3, <2>1, MatchedKept DEF PersonBegins, copies, history, Exists
<1>4. ASSUME NEW s \in ByHand, DeskJob(s) PROVE Matched(v)'
  BY <1>1, <1>4, DeskJobStep DEF copies, history
<1>5. ASSUME "sync" \in Actor, StartSync PROVE Matched(v)'
  <2>1. ~Has(work["sync"].steps, Mirrors) BY <1>5, StartStep DEF Busy, Has
  <2>2. ~WroteVisits' BY <1>5, StartStep, NormalizePlanned DEF WroteVisits
  <2>3. Others("sync") /\ UNCHANGED <<crm, rows, visit, crmTodo, loose>>
    BY <1>5, StartStep DEF copies, history
  <2> QED BY <1>0, <1>5, <2>1, <2>2, <2>3, MatchedKept DEF Exists
<1>6. ASSUME "sync" \in Actor, StepWriteJob PROVE Matched(v)'
  <2>1. Busy("sync") /\ Head(work["sync"].steps) = "write job" BY <1>6, WriteJobStep DEF At
  <2>2. Head(work["sync"].steps) \notin Mirrors BY <2>1 DEF Mirrors
  <2>3. Went("sync") /\ UNCHANGED <<crm, rows, visit, crmTodo, loose>>
    BY <1>6, WriteJobStep DEF copies, history
  <2> QED BY <1>0, <1>6, <2>1, <2>2, <2>3, MatchedWent DEF Exists
<1>7. ASSUME "sync" \in Actor, StepInfer PROVE Matched(v)'
  <2>1. Busy("sync") /\ Head(work["sync"].steps) = "infer" BY <1>7, InferStep DEF At
  <2>2. Head(work["sync"].steps) \notin Mirrors BY <2>1 DEF Mirrors
  <2>3. Others("sync") /\ UNCHANGED <<crm, rows, visit, crmTodo, loose>>
    BY <1>7, InferStep DEF copies, history
  <2>4. CASE Went("sync") BY <1>0, <1>7, <2>1, <2>2, <2>3, <2>4, MatchedWent DEF Exists
  <2>5. CASE work'["sync"].steps = Inferred \o Tail(work["sync"].steps)
    <3>1. work["sync"].steps \in Seq(Statement) /\ work["sync"].steps # <<>>
          /\ PlanOK("sync", work["sync"].steps)
      BY <1>7, <2>1, HandlerTypes
    <3>2. Tail(work["sync"].steps) \in Seq(Statement) /\ PlanOK("sync", Tail(work["sync"].steps))
      <4>1. PlanOK("sync", Tail(work["sync"].steps)) BY <3>1, PlanTail
      <4>2. Tail(work["sync"].steps) \in Seq(Statement) BY <3>1
      <4> QED BY <4>1, <4>2
    <3>3. Has(work'["sync"].steps, {"write visits"}) <=> Has(Tail(work["sync"].steps), {"write visits"})
      BY <2>5, <3>2, InferredPlanned
    <3>4. Has(work["sync"].steps, {"write visits"}) => Has(Tail(work["sync"].steps), {"write visits"})
      BY <2>1, <3>1, HasTail
    <3>5. WroteVisits' => WroteVisits BY <2>1, <3>3, <3>4 DEF WroteVisits
    <3>6. ~Has(work["sync"].steps, Mirrors) BY <1>7, <2>1, SyncPlan
    <3> QED BY <1>0, <1>7, <2>3, <3>5, <3>6, MatchedKept DEF Exists
  <2> QED BY <1>7, <2>4, <2>5, InferStep
<1>8. ASSUME "sync" \in Actor, StepConfirmAsked PROVE Matched(v)'
  <2>1. Busy("sync") /\ Head(work["sync"].steps) = "confirm asked"
    BY <1>8, ConfirmAskedStep DEF At
  <2>2. ~Has(work["sync"].steps, Mirrors) BY <1>8, <2>1, SyncPlan
  <2>3. WroteVisits' => WroteVisits
    <3>1. work["sync"].steps \in Seq(Statement) /\ work["sync"].steps # <<>>
      BY <1>8, <2>1, HandlerTypes
    <3>2. Has(work["sync"].steps, {"write visits"}) => Has(Tail(work["sync"].steps), {"write visits"})
      BY <2>1, <3>1, HasTail
    <3> QED BY <1>8, <2>1, <3>2, ConfirmAskedStep DEF WroteVisits
  <2>4. Others("sync") /\ UNCHANGED <<crm, rows, crmTodo, loose>>
    BY <1>8, ConfirmAskedStep DEF copies
  <2>5. visit'[v].status = visit[v].status /\ visit'[v].slot = visit[v].slot
    BY <1>8, ConfirmAskedStep, Marked
  <2> QED BY <1>0, <1>8, <2>2, <2>3, <2>4, <2>5, MatchedKept DEF Exists
<1>9. ASSUME "sync" \in Actor, StepRead \/ StepAdvance PROVE Matched(v)' BY <1>9, MatchedRead
<1>10. ASSUME "sync" \in Actor, StepWriteVisits PROVE Matched(v)' BY <1>10, MatchedWritten
<1>11. ASSUME NEW a \in Actor, StepConfirm(a) PROVE Matched(v)'
  <2>1. Busy(a) /\ Head(work[a].steps) = "confirm" BY <1>11 DEF StepConfirm, At
  <2>2. Head(work[a].steps) \notin Mirrors BY <2>1 DEF Mirrors
  <2>3. Went(a) /\ UNCHANGED <<crm, rows, crmTodo, loose>> BY <1>11, ConfirmStep DEF copies
  <2>4. visit'[v].status = visit[v].status /\ visit'[v].slot = visit[v].slot
    BY <1>11, ConfirmStep, Marked
  <2> QED BY <1>0, <2>1, <2>2, <2>3, <2>4, MatchedWent DEF Exists
<1>12. ASSUME NEW a \in Actor, StepConfirmEach(a) PROVE Matched(v)'
  <2>1. Busy(a) /\ Head(work[a].steps) = "confirm each" BY <1>12, ConfirmEachStep DEF At
  <2>2. Head(work[a].steps) \notin Mirrors BY <2>1 DEF Mirrors
  <2>3. UNCHANGED <<crm, rows, crmTodo, loose>> BY <1>12, ConfirmEachStep DEF copies
  <2>4. visit'[v].status = visit[v].status /\ visit'[v].slot = visit[v].slot
    <3>1. PICK w \in work[a].targets : MarkConfirmed({w}) BY <1>12, ConfirmEachStep
    <3>2. {w} \in SUBSET Visit BY <1>12, ConfirmEachStep
    <3> QED BY <3>1, <3>2, Marked
  <2>5. CASE Went(a) BY <1>0, <2>1, <2>2, <2>3, <2>4, <2>5, MatchedWent DEF Exists
  <2>6. CASE Others(a) /\ work'[a].steps = work[a].steps /\ work'[a].targets = work[a].targets
    <3>1. a = "sync" /\ WroteVisits' => WroteVisits BY <2>6 DEF WroteVisits, Busy
    <3> QED BY <1>0, <2>3, <2>4, <2>6, <3>1, MatchedKept DEF Exists
  <2> QED BY <1>12, <2>5, <2>6, ConfirmEachStep
<1>13. ASSUME NEW a \in Actor,
              StepMove(a) \/ StepSetTime(a) \/ StepCreate(a) \/ StepCancel(a)
       PROVE  Matched(v)'
  <2>1. /\ Busy(a) /\ Went(a) /\ Writes(work[a].targets) /\ loose \subseteq loose'
        /\ Head(work[a].steps) \in {"move", "set time", "create", "cancel"}
        /\ UNCHANGED <<crm, rows, crmTodo>>
    BY <1>13, MoveStep, SetTimeStep, NewVisitStep, CancelStep DEF At, copies, history
  <2>2. Head(work[a].steps) \notin Mirrors /\ Head(work[a].steps) # "write visits"
    BY <2>1 DEF Mirrors
  <2>3. ASSUME Exists(v)' => Exists(v), visit'[v].slot = visit[v].slot PROVE Matched(v)'
    BY <1>0, <2>1, <2>2, <2>3, MatchedWent
  <2>4. CASE v \notin work[a].targets BY <2>1, <2>3, <2>4 DEF Writes, Exists
  <2>5. CASE v \in work[a].targets /\ StepMove(a)
    BY <2>1, <2>5, MoveStep, MirrorsAhead DEF At
  <2>6. CASE v \in work[a].targets /\ StepSetTime(a)
    BY <2>6, SetTimeStep DEF Matched, Excused
  <2>7. CASE v \in work[a].targets /\ StepCreate(a)
    <3>1. Head(work[a].steps) = "create" BY <2>7, NewVisitStep DEF At
    <3>2. CASE a = "desk" BY <2>7, <3>2, NewVisitStep DEF Matched, Excused
    <3>3. CASE a # "desk" BY <2>1, <2>7, <3>1, <3>3, MirrorsAhead
    <3> QED BY <3>2, <3>3
  <2>8. CASE v \in work[a].targets /\ StepCancel(a)
    <3>1. Head(work[a].steps) \in {"cancel"} BY <2>8, CancelStep DEF At
    <3>2. Has(work[a].steps, {"cancel"}) BY <2>1, <3>1, HandlerTypes, HasTail
    <3>3. Exists(v) BY <2>8, <3>2 DEF MoveInv, HeldOK, Held
    <3>4. visit'[v].slot = visit[v].slot BY <2>8, CancelStep
    <3> QED BY <2>3, <3>3, <3>4
  <2> QED BY <1>13, <2>4, <2>5, <2>6, <2>7, <2>8
<1>14. ASSUME NEW a \in Actor, StepJob(a) PROVE Matched(v)'
  <2>1. /\ Busy(a) /\ Went(a) /\ UNCHANGED <<crm, rows, visit, crmTodo, loose>>
        /\ Head(work[a].steps) \in {"open", "cancel job", "move job", "reopen", "derive"}
    BY <1>14, JobStep DEF At, copies, history
  <2>2. Head(work[a].steps) \notin Mirrors /\ Head(work[a].steps) # "write visits"
    BY <2>1 DEF Mirrors
  <2> QED BY <1>0, <2>1, <2>2, MatchedWent DEF Exists
<1>15. ASSUME NEW a \in Actor, StepMirror(a) PROVE Matched(v)'
  <2>0. /\ Busy(a) /\ Went(a) /\ UNCHANGED <<visit, loose>> /\ crmTodo \subseteq crmTodo'
        /\ rows'.above = rows.above /\ rows.behind \subseteq rows'.behind
    BY <1>15, MirrorStep DEF At, RowsAge
  <2>1. CASE "visits" \in rows'.behind BY <2>1 DEF Matched, Excused
  <2>2. CASE (crm' = crm /\ v \in crmTodo') \/ ~AgentChanges
    BY <2>2 DEF Matched, Excused
  <2>3. CASE crm' = crm /\ ~Linked(v) BY <2>3 DEF Matched, Linked
  <2>4. CASE crm' = crm /\ v \notin work[a].targets
    <3>1. a = "sync" => (WroteVisits' => WroteVisits)
      <4>1. a = "sync" => Head(work[a].steps) # "write visits"
        BY <1>15, MirrorStep DEF At
      <4> QED BY <2>0, <4>1, SyncStill
    <3> QED BY <1>0, <2>0, <2>4, <3>1, MatchedKept DEF Went, Exists
  <2>5. CASE (At(a, "mirror cancel") \/ At(a, "mirror job")) /\ crm' = crm
    <3>1. Head(work[a].steps) \in {"mirror cancel", "mirror job"} BY <2>5 DEF At
    <3>2. Head(work[a].steps) \notin Mirrors /\ Head(work[a].steps) # "write visits"
      BY <3>1 DEF Mirrors
    <3> QED BY <1>0, <2>0, <2>5, <3>2, MatchedWent DEF Exists
  <2> QED BY <1>15, <2>1, <2>2, <2>3, <2>4, <2>5, MirrorStep
<1>16. ASSUME NEW a \in Actor, Dies(a) PROVE Matched(v)'
  <2>1. /\ Others(a) /\ work'[a].steps = <<>> /\ loose' = loose \cup work[a].targets
        /\ UNCHANGED <<crm, rows, visit, crmTodo>>
    BY <1>16, DiesStep DEF copies
  <2>2. a = "sync" => ~WroteVisits' BY <2>1 DEF WroteVisits, Busy
  <2> QED BY <1>0, <2>1, <2>2, MatchedKept DEF Exists
<1>17. ASSUME NEW w \in Visit, CrmEdit(w) PROVE Matched(v)'
  <2>1. CASE "visits" \in rows'.behind BY <2>1 DEF Matched, Excused
  <2>2. CASE crm' = crm /\ rows.behind \subseteq rows'.behind
    <3>1. UNCHANGED <<visit, crmTodo, work, loose>> /\ rows'.above = rows.above
      BY <1>17, CrmStep
    <3> QED BY <1>0, <2>2, <3>1 DEF Matched, Excused, Exists, Linked, WroteVisits, Busy
  <2> QED BY <1>17, <2>1, <2>2, CrmStep
<1>18. ASSUME NEW w \in Visit, Begins(w) PROVE Matched(v)'
  BY <1>1, <1>18, BeginsStep DEF copies, history
<1> QED BY <1>2, <1>3, <1>4, <1>5, <1>6, <1>7, <1>8, <1>9, <1>10, <1>11, <1>12, <1>13, <1>14, <1>15,
           <1>16, <1>17, <1>18, VisitSteps DEF SyncStep

\* A time the agent and ServiceTrade do not share is one staff were told of or
\* chose, or one that ServiceTrade changed since the sync last wrote it: a
\* refused mirror is never passed over in silence.
THEOREM MoveIsReported == VisitSpec => []MoveReported
<1>1. VisitInit => MoveInv
  <2> SUFFICES ASSUME VisitInit PROVE MoveInv OBVIOUS
  <2>1. HeldOK BY DEF VisitInit, HeldOK, Held, Rest
  <2>2. CopyOK BY DEF VisitInit, CopyOK
  <2>3. ASSUME NEW v \in Visit PROVE Matched(v)
    BY DEF VisitInit, Matched, Exists, NoVisit
  <2> QED BY <2>1, <2>2, <2>3 DEF MoveInv
<1>2. MoveInv => MoveReported
  <2> SUFFICES ASSUME MoveInv, AgentChanges, VisitsQuiet, NEW v \in Visit,
                      Exists(v), Linked(v), visit[v].slot # crm[v].slot
               PROVE  v \in crmTodo \cup loose \/ "visits" \in rows.behind \cup rows.above
    BY DEF MoveReported
  <2>1. Excused(v) BY DEF MoveInv, Matched
  <2>2. \A a \in Actor : ~Has(work[a].steps, Mirrors) BY DEF VisitsQuiet, Busy, Has
  <2> QED BY <2>1, <2>2 DEF Excused
<1> QED BY <1>1, <1>2, VisitTyped, MoveInvStep, PTL DEF VisitSpec

-----------------------------------------------------------------------------
(* The three side by side.                                                 *)

LEMMA SideBySide == Spec => VisitSpec /\ LinkSpec /\ FollowSpec
<1>1. Init => VisitInit /\ LinkInit /\ FollowInit BY DEF Init
<1>2. [Next]_confirmVars => [VisitNext]_visitVars /\ [LinkNext]_linkVars /\ [FollowNext]_followVars
  BY DEF Next, confirmVars
<1> QED BY <1>1, <1>2, PTL DEF Spec, VisitSpec, LinkSpec, FollowSpec

\* What the types above leave out: the flags of ServiceLink; and of FollowUp its
\* days, flags and faults, and that a slot that is not empty is a due contact.
LinkFlags == heard \in BOOLEAN /\ linkTodo \in BOOLEAN /\ ended \in BOOLEAN

LEMMA LinkFlagsStep == LinkFlags /\ [LinkNext]_linkVars => LinkFlags'
<1> SUFFICES ASSUME LinkFlags, [LinkNext]_linkVars PROVE LinkFlags' OBVIOUS
<1>1. ASSUME NEW h \in Handler, ConfirmTool(h) \/ ResolveTool(h) \/ PostCall(h) PROVE LinkFlags'
  BY <1>1 DEF LinkFlags, ConfirmTool, ResolveTool, StartLink, PostCall
<1>2. ASSUME NEW h \in Handler,
             \/ LinkConfirm(h) \/ Search(h) \/ CreateContact(h) \/ Lookup(h)
             \/ RecordRecipient(h) \/ CheckConfirmed(h) \/ CheckRecipient(h)
      PROVE  LinkFlags'
  BY <1>2 DEF LinkFlags, LinkConfirm, Search, CreateContact, Lookup, RecordRecipient,
              CheckConfirmed, CheckRecipient
<1>3. ASSUME NEW h \in Handler, ReadLink(h) \/ PostMessage(h) \/ MarkLink(h) \/ LinkDies(h)
      PROVE  LinkFlags'
  BY <1>3 DEF LinkFlags, ReadLink, PostMessage, MarkLink, LinkDies, RaiseLinkTodo
<1>4. CASE Unheard BY <1>4 DEF LinkFlags, Unheard
<1>5. CASE UNCHANGED linkVars BY <1>5 DEF linkVars, LinkFlags
<1> QED BY <1>1, <1>2, <1>3, <1>4, <1>5 DEF LinkNext

Due(row) == row.status = "pending" /\ row.channel \in {"voice", "web_chat"}
Slots == \A r \in Recipient : slot[r] = NoRow \/ Due(slot[r])
FollowRest == /\ ahead \in 0 .. Ahead /\ confirmed \in BOOLEAN
              /\ missing \subseteq Recipient \ Reachable
              /\ followFaults \in 0 .. MaxFollowFaults

LEMMA RowsDue ==
  /\ \A channel \in {"voice", "web_chat"} : \A n, d : Due(Row(channel, n, d))
  /\ \A exhausted : Channel(exhausted) \in {"voice", "web_chat"}
  /\ Due(LinkRow)
  /\ \A d : CallbackRow(d) = NoRow \/ Due(CallbackRow(d))
  /\ \A c : RetryRow(c) = NoRow \/ Due(RetryRow(c))
<1>1. \A channel \in {"voice", "web_chat"} : \A n, d : Due(Row(channel, n, d)) BY DEF Due, Row
<1>2. \A exhausted : Channel(exhausted) \in {"voice", "web_chat"} BY DEF Channel
<1> QED BY <1>1, <1>2 DEF LinkRow, CallbackRow, RetryRow

LEMMA SlotDue ==
  ASSUME slot \in [Recipient -> SlotType], Slots, NEW r \in Recipient, NEW row,
         row = NoRow \/ Due(row), Enqueue(r, row)
  PROVE  Slots'
BY DEF Enqueue, Slots

LEMMA SlotsStep == FollowTypes /\ Slots /\ [FollowNext]_followVars => Slots'
<1> SUFFICES ASSUME FollowTypes, Slots, [FollowNext]_followVars PROVE Slots' OBVIOUS
<1>0. slot \in [Recipient -> SlotType] BY DEF FollowTypes
<1>1. ASSUME UNCHANGED slot PROVE Slots' BY <1>1 DEF Slots
<1>2. ASSUME NEW r \in Recipient, slot' = [slot EXCEPT ![r] = NoRow] PROVE Slots'
  BY <1>0, <1>2 DEF Slots
<1>3. ASSUME NEW r \in Recipient, EnqueueConfirmation(r) PROVE Slots'
  BY <1>0, <1>1, <1>3, RowsDue, SlotDue DEF EnqueueConfirmation
<1>4. ASSUME NEW l \in sent, FollowLink(l) PROVE Slots'
  <2> DEFINE row == Row(IF "voice" \in Flags THEN "voice" ELSE "web_chat", l.retry + 1, 0)
  <2>1. UNCHANGED slot \/ Enqueue(Customer, row) BY <1>4 DEF FollowLink
  <2>2. Due(row) BY RowsDue
  <2> HIDE DEF row
  <2> QED BY <1>0, <1>1, <2>1, <2>2, SlotDue, FollowAssumption
<1>5. CASE NextDay
  <2>1. slot' = [r \in Recipient |-> [slot[r] EXCEPT !.day = 0]] BY <1>5 DEF NextDay
  <2>2. ASSUME NEW r \in Recipient PROVE slot'[r] = NoRow \/ Due(slot'[r])
    <3>1. slot'[r] = [slot[r] EXCEPT !.day = 0] /\ slot[r] \in SlotType BY <1>0, <2>1
    <3>2. CASE slot[r] = NoRow BY <3>1, <3>2 DEF NoRow
    <3>3. CASE Due(slot[r]) BY <3>1, <3>3 DEF Due, SlotType
    <3> QED BY <3>2, <3>3 DEF Slots
  <2> QED BY <2>2 DEF Slots
<1>6. ASSUME NEW r \in Recipient, BulkSend(r) \/ SweepRecipient(r) PROVE Slots'
  BY <1>3, <1>6 DEF BulkSend, SweepRecipient
<1>7. ASSUME NEW r \in Recipient, ManualSend(r) PROVE Slots'
  BY <1>0, <1>7, RowsDue DEF ManualSend, Slots
<1>8. ASSUME NEW r \in Recipient, Contact(r) PROVE Slots'
  BY <1>2, <1>8 DEF Contact, Send, Dial
<1>9. ASSUME NEW c \in Call, NEW d \in CallbackDay, ToolCallback(c, d) PROVE Slots'
  <2>1. call[c].to \in Recipient BY DEF FollowTypes, CallType
  <2> QED BY <1>0, <1>9, <2>1, RowsDue, SlotDue DEF ToolCallback
<1>10. ASSUME NEW c \in Call, CallFollowUp(c) PROVE Slots'
  <2>1. call[c].to \in Recipient BY DEF FollowTypes, CallType
  <2>2. UNCHANGED slot \/ \E row : (row = NoRow \/ Due(row)) /\ Enqueue(call[c].to, row)
    <3>1. CASE call[c].answer = "callback" BY <1>10, <3>1, RowsDue DEF CallFollowUp, NoAnswer
    <3>2. CASE call[c].answer \in NoAnswer BY <1>10, <3>2, RowsDue DEF CallFollowUp, NoAnswer
    <3>3. CASE call[c].answer \notin NoAnswer \cup {"callback"} BY <1>10, <3>3 DEF CallFollowUp
    <3> QED BY <3>1, <3>2, <3>3
  <2> QED BY <1>0, <1>1, <2>1, <2>2, SlotDue
<1>11. ASSUME NEW c \in Call,
              \/ HangUp(c) \/ CallTodo(c) \/ CallEnded(c) \/ CallAnalyzed(c)
              \/ HandlerDies(c) \/ LastWebhook(c)
       PROVE  Slots'
  BY <1>1, <1>11 DEF HangUp, CallTodo, CallEnded, CallAnalyzed, HandlerDies, LastWebhook
<1>12. CASE StartDaily \/ MarkLinkFailed \/ SweepDies
  BY <1>1, <1>12 DEF StartDaily, MarkLinkFailed, SweepDies
<1>13. ASSUME NEW r \in Recipient, ResolveTodo(r) PROVE Slots' BY <1>1, <1>13 DEF ResolveTodo
<1>14. CASE UNCHANGED followVars BY <1>1, <1>14 DEF followVars
<1> QED BY <1>4, <1>5, <1>6, <1>7, <1>8, <1>9, <1>10, <1>11, <1>12, <1>13, <1>14
        DEF FollowNext, SweepStep, Handle

LEMMA FollowRestStep == FollowRest /\ [FollowNext]_followVars => FollowRest'
<1> SUFFICES ASSUME FollowRest, [FollowNext]_followVars PROVE FollowRest' OBVIOUS
<1> USE FollowAssumption
<1>0. ASSUME Fault PROVE followFaults' \in 0 .. MaxFollowFaults
  BY <1>0 DEF Fault, FollowRest
<1>1. ASSUME NEW r \in Recipient, EnqueueConfirmation(r)
      PROVE  missing' \subseteq Recipient \ Reachable
  BY <1>1 DEF EnqueueConfirmation, FollowRest
<1>2. CASE NextDay
  <2>1. ahead' \in 0 .. Ahead BY <1>2 DEF NextDay, FollowRest
  <2> QED BY <1>2, <2>1 DEF NextDay, FollowRest
<1>3. CASE StartDaily \/ MarkLinkFailed \/ SweepDies
  BY <1>0, <1>3 DEF StartDaily, MarkLinkFailed, SweepDies, FollowRest
<1>4. ASSUME NEW l \in sent, FollowLink(l) PROVE FollowRest' BY <1>4 DEF FollowLink, FollowRest
<1>5. ASSUME NEW r \in Recipient, BulkSend(r) \/ SweepRecipient(r) PROVE FollowRest'
  BY <1>0, <1>1, <1>5 DEF BulkSend, SweepRecipient, FollowRest
<1>6. ASSUME NEW r \in Recipient, ManualSend(r) \/ ResolveTodo(r) PROVE FollowRest'
  BY <1>0, <1>6 DEF ManualSend, ResolveTodo, FollowRest
<1>7. ASSUME NEW r \in Recipient, Contact(r) PROVE FollowRest'
  BY <1>7 DEF Contact, Send, Dial, FollowRest
<1>8. ASSUME NEW c \in Call, HangUp(c) PROVE FollowRest' BY <1>8 DEF HangUp, FollowRest
<1>9. ASSUME NEW c \in Call, CallAnalyzed(c) \/ HandlerDies(c) PROVE FollowRest'
  BY <1>0, <1>9 DEF CallAnalyzed, HandlerDies, FollowRest
<1>10. ASSUME NEW c \in Call, CallTodo(c) \/ CallFollowUp(c) \/ CallEnded(c) \/ LastWebhook(c)
       PROVE  FollowRest'
  BY <1>10 DEF CallTodo, CallFollowUp, CallEnded, LastWebhook, FollowRest
<1>11. ASSUME NEW c \in Call, NEW d \in CallbackDay, ToolCallback(c, d) PROVE FollowRest'
  BY <1>11 DEF ToolCallback, FollowRest
<1>12. CASE UNCHANGED followVars BY <1>12 DEF followVars, FollowRest
<1> QED BY <1>2, <1>3, <1>4, <1>5, <1>6, <1>7, <1>8, <1>9, <1>10, <1>11, <1>12
        DEF FollowNext, SweepStep, Handle

LEMMA LinkTyping == LinkTypes /\ LinkFlags => LinkTypeOK
<1> SUFFICES ASSUME LinkTypes, LinkFlags PROVE LinkTypeOK OBVIOUS
<1>1. links \in Seq(LinkRecord) /\ DOMAIN links = 1 .. Len(links)
  BY LenProperties DEF LinkTypes
<1>2. ASSUME NEW i \in DOMAIN links PROVE links[i] \in LinkRecord BY <1>1, ElementOfSeq
<1>3. ASSUME NEW h \in Handler, Sending(h) PROVE task[h].id \in DOMAIN links
  BY <1>1, <1>3 DEF LinkTypes, Grounded, Sending
<1>4. \A i \in DOMAIN links : /\ links[i].to \in Address \cup {"none"}
                              /\ links[i].status \in {"pending", "sent", "failed", "skipped"}
  BY <1>2 DEF LinkRecord
<1> QED BY <1>3, <1>4 DEF LinkTypes, LinkFlags, LinkTypeOK

LEMMA FollowTyping == FollowTypes /\ Slots /\ FollowRest => FollowTypeOK
<1> SUFFICES ASSUME FollowTypes, Slots, FollowRest PROVE FollowTypeOK OBVIOUS
<1> DEFINE Pending == [status : {"pending"}, channel : {"voice", "web_chat"},
                       retry : Retries, day : {0, 1}]
<1>1. ASSUME NEW r \in Recipient PROVE slot[r] \in {NoRow} \cup Pending
  <2>1. slot[r] \in SlotType BY DEF FollowTypes
  <2>2. CASE Due(slot[r]) BY <2>1, <2>2 DEF Due, SlotType
  <2> QED BY <2>2 DEF Slots
<1>2. slot \in [Recipient -> {NoRow} \cup Pending] BY <1>1 DEF FollowTypes
<1>3. sent \subseteq SentType /\ sweep.left \subseteq Recipient BY DEF FollowTypes, SweepType
<1>4. table \in [Call -> EntryType] /\ callTodos \in [Call -> Nat] BY DEF FollowTypes
<1> QED BY <1>2, <1>3, <1>4 DEF FollowTypeOK, FollowRest, SentType, EntryType, Retries

\* Every variable of the three has its type, in every behaviour of one of them.
THEOREM ConfirmTyped == Spec => []ConfirmTypeOK
<1>1. LinkSpec => []LinkFlags
  <2>1. LinkInit => LinkFlags BY DEF LinkInit, LinkFlags
  <2> QED BY <2>1, LinkFlagsStep, PTL DEF LinkSpec
<1>2. FollowSpec => [](Slots /\ FollowRest)
  <2>1. FollowInit => Slots BY DEF FollowInit, Slots
  <2>2. FollowInit => FollowRest
    <3>1. Ahead \in 0 .. Ahead /\ 0 \in 0 .. MaxFollowFaults BY ONLY FollowAssumption
    <3> QED BY <3>1 DEF FollowInit, FollowRest
  <2> QED BY <2>1, <2>2, FollowTyped, SlotsStep, FollowRestStep, PTL DEF FollowSpec
<1>3. VisitTypes /\ LinkTypeOK /\ FollowTypeOK => ConfirmTypeOK BY DEF VisitTypes, ConfirmTypeOK
<1> QED BY <1>1, <1>2, <1>3, SideBySide, VisitTyped, LinkTyped, FollowTyped,
           LinkTyping, FollowTyping, PTL
=============================================================================
