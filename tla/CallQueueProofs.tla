--------------------------- MODULE CallQueueProofs ---------------------------
(***************************************************************************)
(* Theorems about CallQueue for every set of rows, tenants and runs; and   *)
(* while claim statements do not overlap and staff do not cancel rows in   *)
(* progress, that no two runs dial one number at a time and that CallQueue *)
(* implements QueuePromise.                                                *)
(***************************************************************************)
EXTENDS CallQueue, FiniteSetTheorems, TLAPS

\* The types are preserved by the steps of everybody but the dispatchers.
LEMMA TypeOutside ==
  ASSUME TypeOK,
         \/ \E c \in Call : \/ Insert(c) \/ Cancel(c) \/ MarkUnopened(c)
                             \/ MakeDue(c) \/ Lapse(c)
         \/ \E j \in Job : ForceCancel(j)
         \/ \E t \in Tenant : OpenWindow(t) \/ CloseWindow(t)
  PROVE  TypeOK'
<1> USE DEF TypeOK, Status, Final
<1>1. ASSUME NEW c \in Call, Insert(c) PROVE TypeOK'
  BY <1>1 DEF Insert, run, past, world
<1>2. ASSUME NEW c \in Call, Cancel(c) PROVE TypeOK'
  BY <1>2 DEF Cancel, run, past, world
<1>3. ASSUME NEW c \in Call, MakeDue(c) PROVE TypeOK'
  BY <1>3 DEF MakeDue, run, past, world
<1>4. ASSUME NEW c \in Call, Lapse(c) PROVE TypeOK'
  BY <1>4 DEF Lapse, run, past, world
<1>5. ASSUME NEW j \in Job, ForceCancel(j) PROVE TypeOK'
  BY <1>5 DEF ForceCancel, run, past, world
<1>6. ASSUME NEW t \in Tenant, OpenWindow(t) PROVE TypeOK'
  BY <1>6 DEF OpenWindow, table, run, past
<1>7. ASSUME NEW t \in Tenant, CloseWindow(t) PROVE TypeOK'
  BY <1>7 DEF CloseWindow, table, run, past
<1>8. ASSUME NEW c \in Call, MarkUnopened(c) PROVE TypeOK'
  BY <1>8 DEF MarkUnopened, run, past, world
<1> QED BY <1>1, <1>2, <1>3, <1>4, <1>5, <1>6, <1>7, <1>8

\* Leaving runDispatcher keeps the types of what it resets.
LEMMA TypeAbort ==
  ASSUME TypeOK, NEW d \in Dispatcher, Abort(d)
  PROVE  /\ pc' \in [Dispatcher -> Point]
         /\ scope' \in [Dispatcher -> Tenant \cup {AllTenants}]
         /\ window' \in [Dispatcher -> SUBSET Tenant]
         /\ snap' \in [Dispatcher -> SUBSET Call]
         /\ held' \in [Dispatcher -> SUBSET Call]
         /\ current' \in [Dispatcher -> Call \cup {NoCall}]
         /\ \A e \in Dispatcher : current'[e] # NoCall <=> pc'[e] \in AtRow
BY DEF TypeOK, Abort, Go, AtRow, Point

\* The types are preserved by every step of a run.
LEMMA TypeRun ==
  ASSUME TypeOK, NEW d \in Dispatcher,
         StartRun(d) \/ Step(d) \/ Crash(d)
  PROVE  TypeOK'
<1> USE NameAssumption, CapAssumption DEF TypeOK, Status, Final, Go, AtRow, Point
<1>1. ASSUME StartRun(d) PROVE TypeOK'
  BY <1>1 DEF StartRun, past, world
<1>2. ASSUME Plan(d) PROVE TypeOK'
  BY <1>2 DEF Plan, past, world
<1>3. ASSUME ClaimSnapshot(d) PROVE TypeOK'
  <2>1. PICK n \in 1..BatchSize, E \in Eligible(d) :
          \E S \in Best(E, Least(n, Room(SystemCap, InProgress))) :
            snap' = [snap EXCEPT ![d] = S]
    BY <1>3 DEF ClaimSnapshot
  <2>2. E \subseteq Call BY DEF Eligible, DueFor
  <2>3. snap' \in [Dispatcher -> SUBSET Call]
    BY <2>1, <2>2 DEF Best
  <2> QED BY <1>3, <2>3 DEF ClaimSnapshot, table, past, world
<1>4. ASSUME ClaimApply(d) PROVE TypeOK'
  <2>1. CASE Admits(Active \cup snap[d])
    <3>0. lapsed' = [c \in Call |-> IF c \in snap[d] THEN FALSE ELSE lapsed[c]]
      BY <1>4, <2>1 DEF ClaimApply
    <3>1. lapsed' \in [Call -> BOOLEAN]
      BY <3>0
    <3>2. status' \in [Call -> Status]
      BY <1>4, <2>1 DEF ClaimApply
    <3>3. /\ pc[d] = "claiming" /\ pc' = [pc EXCEPT ![d] = "claimed"]
          /\ held' = [held EXCEPT ![d] = snap[d]]
          /\ snap' = [snap EXCEPT ![d] = {}]
          /\ window' = [window EXCEPT ![d] = {}]
          /\ UNCHANGED <<scope, current, attempt, due, dials, lost, open,
                         crashes, closings>>
      BY <1>4, <2>1 DEF ClaimApply, past, world
    <3> QED BY <3>1, <3>2, <3>3
  <2>2. CASE ~Admits(Active \cup snap[d])
    BY <1>4, <2>2, TypeAbort DEF ClaimApply, past, world
  <2> QED BY <2>1, <2>2
<1>5. ASSUME Settle(d) PROVE TypeOK'
  <2>1. PICK W \in Winners(held[d]) :
          LET losers == held[d] \ W
          IN IF Admits(Active \cup losers)
             THEN /\ Go(d, "running")
                  /\ held' = [held EXCEPT ![d] = W]
                  /\ status' = [c \in Call |-> IF c \in losers THEN "pending"
                                               ELSE status[c]]
                  /\ UNCHANGED <<scope, window, snap, current>>
             ELSE Abort(d) /\ UNCHANGED status
    BY <1>5 DEF Settle
  <2>2. W \subseteq Call BY DEF Winners
  <2>3. CASE Admits(Active \cup (held[d] \ W))
    BY <1>5, <2>1, <2>2, <2>3 DEF Settle, past, world
  <2>4. CASE ~Admits(Active \cup (held[d] \ W))
    BY <1>5, <2>1, <2>4, TypeAbort DEF Settle, past, world
  <2> QED BY <2>3, <2>4
<1>6. ASSUME NEW c \in Call, Gate(d, c) PROVE TypeOK'
  <2>1. /\ pc[d] = "running"
        /\ UNCHANGED <<attempt, lapsed, scope, window, snap, dials, lost, open,
                       crashes, closings>>
    BY <1>6 DEF Gate, past, world
  <2>2. ASSUME NEW at \in AtRow, Take(d, c, at), UNCHANGED <<status, due>>
        PROVE  TypeOK'
    BY <2>1, <2>2 DEF Take
  <2>3. CASE /\ status' = [status EXCEPT ![c] = "pending"]
             /\ due' = [due EXCEPT ![c] = FALSE]
             /\ held' = [held EXCEPT ![d] = @ \ {c}]
             /\ UNCHANGED <<pc, current>>
    <3>1. due' \in [Call -> BOOLEAN] BY <2>3
    <3>2. status' \in [Call -> Status] BY <2>3
    <3>3. held' \in [Dispatcher -> SUBSET Call] BY <2>3
    <3>4. \A e \in Dispatcher : current'[e] # NoCall <=> pc'[e] \in AtRow BY <2>3
    <3>5. /\ pc' \in [Dispatcher -> Point] /\ current' \in [Dispatcher -> Call \cup {NoCall}]
      BY <2>3
    <3> QED BY <2>1, <3>1, <3>2, <3>3, <3>4, <3>5
  <2> QED BY <1>6, <2>2, <2>3 DEF Gate
<1>7. ASSUME ContactFails(d) PROVE TypeOK'
  BY <1>7 DEF ContactFails, table, past, world
<1>8. ASSUME PlaceCall(d) \/ SendLink(d) PROVE TypeOK'
  <2>1. current[d] \in Call BY <1>8 DEF PlaceCall, SendLink
  <2>2. /\ pc[d] = "dialing" /\ pc' = [pc EXCEPT ![d] = "placed"]
        /\ dials' = [dials EXCEPT ![current[d]] = @ + 1]
        /\ UNCHANGED <<table, scope, window, snap, held, current, lost, world>>
    BY <1>8 DEF PlaceCall, SendLink
  <2>3. dials' \in [Call -> Nat] BY <2>1, <2>2
  <2>4. pc' \in [Dispatcher -> Point] BY <2>2
  <2>5. \A e \in Dispatcher : current'[e] # NoCall <=> pc'[e] \in AtRow BY <2>2
  <2> QED BY <2>2, <2>3, <2>4, <2>5 DEF table, world
<1>9. ASSUME Complete(d) PROVE TypeOK'
  <2>1. status' \in [Call -> Status]
    BY <1>9 DEF Complete
  <2>2. /\ pc' = [pc EXCEPT ![d] = "running"]
        /\ current' = [current EXCEPT ![d] = NoCall]
        /\ UNCHANGED <<attempt, due, lapsed, scope, window, snap, held, dials,
                       lost, open, crashes, closings>>
    BY <1>9 DEF Complete, Drop, past, world
  <2> QED BY <2>1, <2>2
<1>10. ASSUME CompleteFails(d) PROVE TypeOK'
  <2>1. current[d] \in Call BY <1>10 DEF CompleteFails
  <2> QED BY <1>10, <2>1 DEF CompleteFails, table, world
<1>11. ASSUME FailOrRetry(d) PROVE TypeOK'
  <2>1. current[d] \in Call BY <1>11 DEF FailOrRetry
  <2>2. CASE Exhausted(current[d]) \/ Admits(Active \cup {current[d]})
    <3> DEFINE c == current[d]
    <3>1. /\ attempt' = [attempt EXCEPT ![c] = @ + 1]
          /\ status' = [status EXCEPT
                          ![c] = IF Exhausted(c) THEN "failed" ELSE "pending"]
          /\ due' = [due EXCEPT ![c] = Exhausted(c) /\ @]
          /\ pc' = [pc EXCEPT ![d] = "running"]
          /\ current' = [current EXCEPT ![d] = NoCall]
          /\ UNCHANGED <<scope, window, snap, held, lapsed, dials, lost, open,
                         crashes, closings>>
      BY <1>11, <2>2 DEF FailOrRetry, Drop, past, world
    <3>2. Exhausted(c) \in BOOLEAN BY DEF Exhausted
    <3>3. due' \in [Call -> BOOLEAN] BY <3>1, <3>2, <2>1
    <3>4. status' \in [Call -> Status] BY <3>1, <2>1
    <3> QED BY <2>1, <3>1, <3>3, <3>4
  <2>3. CASE ~(Exhausted(current[d]) \/ Admits(Active \cup {current[d]}))
    BY <1>11, <2>3, TypeAbort DEF FailOrRetry, past, world
  <2> QED BY <2>2, <2>3
<1>12. ASSUME FinishRun(d) PROVE TypeOK'
  <2>1. /\ Abort(d)
        /\ UNCHANGED <<status, attempt, due, lapsed, dials, lost, open,
                       crashes, closings>>
    BY <1>12 DEF FinishRun, table, past, world
  <2> QED BY <2>1, TypeAbort
<1>13. ASSUME Crash(d) PROVE TypeOK'
  BY <1>13, TypeAbort DEF Crash, table
<1> QED BY <1>1, <1>2, <1>3, <1>4, <1>5, <1>6, <1>7, <1>8, <1>9, <1>10, <1>11,
           <1>12, <1>13 DEF Step

\* Every variable keeps its type, and a run has a row in hand exactly while
\* it is between taking it and writing its outcome.
THEOREM TypeCorrect == Spec => []TypeOK
<1>1. Init => TypeOK
  BY NameAssumption DEF Init, TypeOK, Status, Final, Point, AtRow
<1>2. TypeOK /\ [Next]_vars => TypeOK'
  <2>1. TypeOK /\ Next => TypeOK'
    BY TypeOutside, TypeRun DEF Next
  <2>2. TypeOK /\ UNCHANGED vars => TypeOK'
    BY DEF TypeOK, vars, table, run, past, world
  <2> QED BY <2>1, <2>2
<1> QED BY <1>1, <1>2, PTL DEF Spec

-----------------------------------------------------------------------------
\* Rows that the index admits together are admitted in any selection.
LEMMA FewerConflictLess ==
  ASSUME NEW S, NEW T, T \subseteq S, NoConflict(S)
  PROVE  NoConflict(T)
BY DEF NoConflict

\* A write that activates the rows X, and which the index admits, keeps one
\* active row per slot.
LEMMA AdmittedWrite ==
  ASSUME NEW X, Admits(Active \cup X), Active' \subseteq Active \cup X
  PROVE  OneActivePerSlot'
BY FewerConflictLess DEF Admits, OneActivePerSlot, NoConflict, SameSlot

\* A write that activates nothing keeps one active row per slot.
LEMMA NothingActivated ==
  ASSUME OneActivePerSlot, Active' \subseteq Active
  PROVE  OneActivePerSlot'
BY DEF OneActivePerSlot, NoConflict, SameSlot

\* No job, call type and recipient ever has two active rows, although six
\* writers move rows back to pending or in_progress by id alone: whatever
\* statements overlap and whatever staff cancel.
THEOREM OneActive == Spec => []OneActivePerSlot
<1>1. Init => OneActivePerSlot
  BY DEF Init, OneActivePerSlot, NoConflict, Active
<1>2. ASSUME TypeOK, OneActivePerSlot, [Next]_vars PROVE OneActivePerSlot'
  <2> USE <1>2
  <2>1. ASSUME UNCHANGED status PROVE OneActivePerSlot'
    BY <2>1 DEF OneActivePerSlot, NoConflict, SameSlot, Active
  <2>2. ASSUME NEW c \in Call, Insert(c) PROVE OneActivePerSlot'
    BY <2>2, AdmittedWrite, Active' \subseteq Active \cup {c}
    DEF Insert, Active, TypeOK
  <2>3. ASSUME NEW c \in Call, Cancel(c) PROVE OneActivePerSlot'
    BY <2>3, NothingActivated, Active' \subseteq Active
    DEF Cancel, Active, TypeOK
  <2>4. ASSUME NEW j \in Job, ForceCancel(j) PROVE OneActivePerSlot'
    BY <2>4, NothingActivated, Active' \subseteq Active
    DEF ForceCancel, Active, TypeOK
  <2>5. ASSUME NEW d \in Dispatcher, StartRun(d) PROVE OneActivePerSlot'
    BY <2>5, NothingActivated, Active' \subseteq Active
    DEF StartRun, Orphans, InProgress, Active, TypeOK
  <2>6. ASSUME NEW d \in Dispatcher, ClaimApply(d) PROVE OneActivePerSlot'
    <3>1. CASE Admits(Active \cup snap[d])
      <4>1. Active' \subseteq Active \cup snap[d]
        BY <2>6, <3>1 DEF ClaimApply, Active, TypeOK
      <4> QED BY <3>1, <4>1, AdmittedWrite
    <3>2. CASE ~Admits(Active \cup snap[d])
      BY <2>6, <3>2, <2>1 DEF ClaimApply
    <3> QED BY <3>1, <3>2
  <2>7. ASSUME NEW d \in Dispatcher, Settle(d) PROVE OneActivePerSlot'
    <3>1. PICK W \in Winners(held[d]) :
            IF Admits(Active \cup (held[d] \ W))
            THEN status' = [c \in Call |-> IF c \in held[d] \ W THEN "pending"
                                           ELSE status[c]]
            ELSE UNCHANGED status
      BY <2>7 DEF Settle
    <3>2. CASE Admits(Active \cup (held[d] \ W))
      <4>1. Active' \subseteq Active \cup (held[d] \ W)
        BY <3>1, <3>2 DEF Active, TypeOK
      <4> QED BY <3>2, <4>1, AdmittedWrite
    <3>3. CASE ~Admits(Active \cup (held[d] \ W))
      BY <3>1, <3>3, <2>1
    <3> QED BY <3>2, <3>3
  <2>8. ASSUME NEW d \in Dispatcher, NEW c \in Call, Gate(d, c)
        PROVE  OneActivePerSlot'
    <3>1. CASE /\ Admits(Active \cup {c})
               /\ status' = [status EXCEPT ![c] = "pending"]
      BY <3>1, AdmittedWrite, Active' \subseteq Active \cup {c}
      DEF Active, TypeOK
    <3> QED BY <2>8, <3>1, <2>1 DEF Gate
  <2>9. ASSUME NEW d \in Dispatcher, Complete(d) PROVE OneActivePerSlot'
    BY <2>9, NothingActivated, Active' \subseteq Active
    DEF Complete, Active, TypeOK
  <2>10. ASSUME NEW d \in Dispatcher, FailOrRetry(d) PROVE OneActivePerSlot'
    <3> DEFINE c == current[d]
    <3>1. CASE /\ Exhausted(c)
               /\ status' = [status EXCEPT ![c] = "failed"]
      BY <3>1, NothingActivated, Active' \subseteq Active DEF Active, TypeOK
    <3>2. CASE /\ Admits(Active \cup {c})
               /\ status' = [status EXCEPT ![c] = "pending"]
      BY <3>2, AdmittedWrite, Active' \subseteq Active \cup {c}
      DEF Active, TypeOK
    <3>3. CASE UNCHANGED status BY <3>3, <2>1
    <3>4. \/ /\ Exhausted(c) \/ Admits(Active \cup {c})
             /\ status' = [status EXCEPT ![c] = IF Exhausted(c) THEN "failed"
                                                ELSE "pending"]
          \/ UNCHANGED status
      BY <2>10 DEF FailOrRetry
    <3> QED BY <3>1, <3>2, <3>3, <3>4
  <2>11. ASSUME NEW c \in Call, MarkUnopened(c) PROVE OneActivePerSlot'
    BY <2>11, NothingActivated, Active' \subseteq Active
    DEF MarkUnopened, Active, TypeOK
  <2>12. Next \/ UNCHANGED vars BY DEF Next
  <2> QED BY <2>1, <2>2, <2>3, <2>4, <2>5, <2>6, <2>7, <2>8, <2>9, <2>10, <2>11,
             <2>12
          DEF Next, Step, vars, table, run, MakeDue, Lapse, OpenWindow,
              CloseWindow, Plan, ClaimSnapshot, ContactFails, PlaceCall,
              SendLink, CompleteFails, FinishRun, Crash
<1> QED BY <1>1, <1>2, TypeCorrect, PTL DEF Spec

-----------------------------------------------------------------------------
(* Claim statements that do not overlap.                                   *)

\* A step of run d that touches none but the rows it holds, and takes no new
\* ones, leaves every run in custody of its rows.
LEMMA OwnStep ==
  ASSUME TypeOK, Custody, NEW d \in Dispatcher,
         pc'[d] # "claiming",
         \A e \in Dispatcher \ {d} :
           /\ pc'[e] = pc[e] /\ held'[e] = held[e]
           /\ current'[e] = current[e] /\ snap'[e] = snap[e],
         \A c \in Call \ Held(d) :
           status'[c] = status[c] /\ lapsed'[c] = lapsed[c],
         Held(d)' \subseteq Held(d),
         current'[d] \notin held'[d],
         pc'[d] \in {"idle", "reaped", "planned"} => held'[d] = {},
         \A c \in Held(d)' :
           status'[c] \in {"in_progress", "cancelled"} /\ ~lapsed'[c]
  PROVE  Custody'
<1>1. \A e \in Dispatcher \ {d} : Held(e)' = Held(e) BY DEF Held
<1>2. \A e \in Dispatcher : Held(e) \subseteq Call BY DEF Held, TypeOK
<1>3. \A e \in Dispatcher \ {d} : \A c \in Held(e) : c \in Call \ Held(d)
  BY <1>2 DEF Custody
<1>4. ASSUME NEW e \in Dispatcher
      PROVE  /\ pc'[e] \in {"idle", "reaped", "planned", "claiming"} => held'[e] = {}
             /\ current'[e] \notin held'[e]
             /\ \A c \in Held(e)' : /\ status'[c] \in {"in_progress", "cancelled"}
                                    /\ ~lapsed'[c]
             /\ pc'[e] = "claiming" => \A c \in snap'[e] : status'[c] = "pending"
  <2>1. CASE e = d BY <2>1
  <2>2. CASE e # d
    <3>1. \A c \in Held(e)' : /\ status'[c] \in {"in_progress", "cancelled"}
                              /\ ~lapsed'[c]
      BY <2>2, <1>1, <1>3 DEF Custody
    <3>2. ASSUME pc[e] = "claiming", NEW c \in snap[e] PROVE status'[c] = "pending"
      <4>1. c \in Call /\ status[c] = "pending" BY <3>2 DEF Custody, TypeOK
      <4>2. c \notin Held(d) BY <4>1 DEF Custody
      <4> QED BY <4>1, <4>2
    <3> QED BY <2>2, <3>1, <3>2 DEF Custody
  <2> QED BY <2>1, <2>2
<1>5. ASSUME NEW e \in Dispatcher, NEW f \in Dispatcher, e # f
      PROVE  /\ Held(e)' \cap Held(f)' = {}
             /\ pc'[e] # "claiming" \/ pc'[f] # "claiming"
  <2>1. Held(e)' \subseteq Held(e) /\ Held(f)' \subseteq Held(f) BY <1>1
  <2>2. Held(e) \cap Held(f) = {} BY <1>5 DEF Custody
  <2>3. pc'[e] # "claiming" \/ pc'[f] # "claiming" BY <1>5 DEF Custody
  <2> QED BY <2>1, <2>2, <2>3
<1> QED BY <1>4, <1>5 DEF Custody

\* Leaving runDispatcher lets go of the rows and changes none.
LEMMA AbortKeepsCustody ==
  ASSUME TypeOK, Custody, NEW d \in Dispatcher,
         Abort(d), UNCHANGED <<status, lapsed>>
  PROVE  Custody'
<1> USE NameAssumption DEF TypeOK, Go
<1>1. Held(d)' = {} BY DEF Abort, Held
<1>2. /\ pc'[d] = "idle" /\ held'[d] = {} /\ current'[d] = NoCall
      /\ \A e \in Dispatcher \ {d} :
           /\ pc'[e] = pc[e] /\ held'[e] = held[e]
           /\ current'[e] = current[e] /\ snap'[e] = snap[e]
  BY DEF Abort
<1> QED BY <1>1, <1>2, OwnStep

\* The steps of a run between claiming and finishing are such steps.
LEMMA RunKeepsCustody ==
  ASSUME TypeOK, Custody, NEW d \in Dispatcher,
         \/ StartRun(d) \/ Plan(d) \/ Settle(d) \/ ContactFails(d)
         \/ PlaceCall(d) \/ SendLink(d) \/ Complete(d) \/ CompleteFails(d)
         \/ FailOrRetry(d) \/ FinishRun(d) \/ Crash(d)
         \/ \E c \in Call : Gate(d, c)
  PROVE  Custody'
<1> USE NameAssumption DEF TypeOK, Go
<1> DEFINE Mine == Held(d)
<1>0. Mine \subseteq Call BY DEF Held
<1>1. CASE Abort(d) /\ UNCHANGED <<status, lapsed>>
  BY <1>1, AbortKeepsCustody
<1>2. CASE StartRun(d)
  <2>0. pc[d] = "idle" /\ held' = held /\ current' = current BY <1>2 DEF StartRun
  <2>1. /\ Held(d)' = {} /\ held'[d] = {}
    <3>1. held[d] = {} BY <2>0 DEF Custody
    <3>2. current[d] = NoCall BY <2>0 DEF AtRow
    <3> QED BY <2>0, <3>1, <3>2 DEF Held
  <2>2. \A e \in Dispatcher : \A c \in Held(e) : c \notin Orphans
    BY DEF Orphans, Custody
  <2>3. ASSUME NEW e \in Dispatcher
        PROVE /\ Held(e)' = Held(e)
              /\ \A c \in Held(e) : status'[c] = status[c] /\ lapsed'[c] = lapsed[c]
              /\ pc[e] = "claiming" => \A c \in snap[e] : status'[c] = status[c]
    BY <1>2, <2>2 DEF StartRun, Held, Custody, Orphans, InProgress
  <2>4. \A e \in Dispatcher : \/ pc'[e] = pc[e] /\ held'[e] = held[e]
                              \/ pc'[e] = "reaped" /\ held'[e] = {}
    BY <1>2, <2>1 DEF StartRun
  <2>5. current' = current /\ snap' = snap BY <1>2 DEF StartRun
  <2>6. \A e \in Dispatcher :
          /\ pc'[e] \in {"idle", "reaped", "planned", "claiming"} => held'[e] = {}
          /\ current'[e] \notin held'[e]
    BY <2>4, <2>5 DEF Custody
  <2>7. \A e \in Dispatcher :
          /\ \A c \in Held(e)' : status'[c] \in {"in_progress", "cancelled"} /\ ~lapsed'[c]
          /\ pc'[e] = "claiming" => \A c \in snap'[e] : status'[c] = "pending"
    BY <2>3, <2>4, <2>5 DEF Custody
  <2> QED BY <2>3, <2>4, <2>6, <2>7 DEF Custody
<1>3. CASE Plan(d)
  <2>1. Held(d)' = Held(d) BY <1>3 DEF Plan, Held
  <2>2. /\ pc[d] = "reaped" /\ pc' = [pc EXCEPT ![d] = "planned"]
        /\ UNCHANGED <<status, lapsed, held, current, snap>>
    BY <1>3 DEF Plan
  <2> QED BY <2>1, <2>2, <1>0, OwnStep DEF Custody
<1>4. CASE ContactFails(d) \/ PlaceCall(d) \/ SendLink(d) \/ CompleteFails(d)
  <2>1. Held(d)' = Held(d)
    BY <1>4 DEF ContactFails, PlaceCall, SendLink, CompleteFails, Held
  <2>2. /\ \E at \in AtRow : pc' = [pc EXCEPT ![d] = at]
        /\ UNCHANGED <<status, lapsed, held, current, snap>>
    BY <1>4 DEF ContactFails, PlaceCall, SendLink, CompleteFails, table, AtRow
  <2>3. \A e \in Dispatcher \ {d} : pc'[e] = pc[e] BY <2>2
  <2>4. pc'[d] \notin {"idle", "reaped", "planned", "claiming"} BY <2>2 DEF AtRow
  <2>5. current'[d] \notin held'[d] BY <2>2 DEF Custody
  <2>6. \A c \in Held(d)' : status'[c] \in {"in_progress", "cancelled"} /\ ~lapsed'[c]
    BY <2>1, <2>2 DEF Custody
  <2> QED BY <2>1, <2>2, <2>3, <2>4, <2>5, <2>6, OwnStep
<1>5. ASSUME NEW c \in Call, Gate(d, c) PROVE Custody'
  <2>1. c \in held[d] /\ c # NoCall /\ current[d] = NoCall /\ c \in Mine
    BY <1>5 DEF Gate, AtRow, Held
  <2>2. ASSUME NEW at \in AtRow, Take(d, c, at), UNCHANGED <<status, lapsed, snap>>
        PROVE  Custody'
    <3>1. Held(d)' = Held(d) BY <2>1, <2>2 DEF Take, Held
    <3>2. /\ pc' = [pc EXCEPT ![d] = at]
          /\ held' = [held EXCEPT ![d] = @ \ {c}]
          /\ current' = [current EXCEPT ![d] = c]
      BY <2>2 DEF Take
    <3>3. \A e \in Dispatcher \ {d} :
            pc'[e] = pc[e] /\ held'[e] = held[e] /\ current'[e] = current[e]
      BY <3>2
    <3>4. pc'[d] \notin {"idle", "reaped", "planned", "claiming"} BY <3>2 DEF AtRow
    <3>5. current'[d] \notin held'[d] BY <3>2
    <3>6. \A b \in Held(d)' : status'[b] \in {"in_progress", "cancelled"} /\ ~lapsed'[b]
      BY <2>2, <3>1 DEF Custody
    <3> QED BY <2>2, <3>1, <3>3, <3>4, <3>5, <3>6, OwnStep
  <2>3. CASE /\ status' = [status EXCEPT ![c] = "pending"]
             /\ held' = [held EXCEPT ![d] = @ \ {c}]
             /\ UNCHANGED <<pc, current, lapsed, snap>>
    <3>1. Held(d)' = Held(d) \ {c} BY <2>1, <2>3 DEF Held
    <3>2. pc[d] = "running" BY <1>5 DEF Gate
    <3>3. \A e \in Dispatcher \ {d} : held'[e] = held[e] BY <2>3
    <3>4. current'[d] \notin held'[d] BY <2>3 DEF Custody
    <3>5. \A b \in Call \ {c} : status'[b] = status[b] BY <2>3
    <3>6. \A b \in Held(d)' : status'[b] \in {"in_progress", "cancelled"} /\ ~lapsed'[b]
      BY <2>3, <3>1, <3>5, <1>0 DEF Custody
    <3>7. \A b \in Call \ Held(d) : status'[b] = status[b] BY <2>1, <3>5
    <3> QED BY <2>3, <3>1, <3>2, <3>3, <3>4, <3>6, <3>7, OwnStep
  <2> QED BY <1>5, <2>2, <2>3 DEF Gate, AtRow
<1>6. CASE Settle(d)
  <2>1. PICK W \in Winners(held[d]) :
          LET losers == held[d] \ W
          IN IF Admits(Active \cup losers)
             THEN /\ Go(d, "running")
                  /\ held' = [held EXCEPT ![d] = W]
                  /\ status' = [c \in Call |-> IF c \in losers THEN "pending"
                                               ELSE status[c]]
                  /\ UNCHANGED <<scope, window, snap, current>>
             ELSE Abort(d) /\ UNCHANGED status
    BY <1>6 DEF Settle
  <2>2. pc[d] = "claimed" /\ lapsed' = lapsed BY <1>6 DEF Settle
  <2>3. CASE Admits(Active \cup (held[d] \ W))
    <3>1. W \subseteq held[d] BY DEF Winners
    <3>2. current[d] = NoCall BY <2>2 DEF AtRow
    <3>3. Held(d)' = W /\ Held(d) = held[d] BY <2>1, <2>3, <3>1, <3>2 DEF Held
    <3>4. current'[d] \notin held'[d] BY <2>1, <2>3, <3>1, <3>2 DEF Custody
    <3>5. /\ pc' = [pc EXCEPT ![d] = "running"] /\ held' = [held EXCEPT ![d] = W]
          /\ current' = current /\ snap' = snap
          /\ status' = [c \in Call |-> IF c \in held[d] \ W THEN "pending" ELSE status[c]]
      BY <2>1, <2>3
    <3>6. pc'[d] = "running" BY <3>5
    <3>7. \A e \in Dispatcher \ {d} : pc'[e] = pc[e] /\ held'[e] = held[e] BY <3>5
    <3>8. \A c \in Call : c \notin held[d] \ W => status'[c] = status[c] BY <3>5
    <3>9. \A c \in Held(d)' : status'[c] \in {"in_progress", "cancelled"} /\ ~lapsed'[c]
      BY <2>2, <3>1, <3>3, <3>8, <1>0 DEF Custody
    <3>10. \A c \in Call \ Held(d) : status'[c] = status[c] BY <3>3, <3>8
    <3>11. current' = current /\ snap' = snap BY <3>5
    <3> QED BY <2>2, <3>1, <3>3, <3>4, <3>6, <3>7, <3>9, <3>10, <3>11, OwnStep
  <2>4. CASE ~Admits(Active \cup (held[d] \ W))
    BY <2>1, <2>2, <2>4, <1>1
  <2> QED BY <2>3, <2>4
<1>7. CASE Complete(d)
  <2>1. Held(d)' = Held(d) \ {current[d]} /\ current[d] \in Mine
    BY <1>7 DEF Complete, Drop, Held, Custody, AtRow
  <2>2. /\ pc' = [pc EXCEPT ![d] = "running"]
        /\ current' = [current EXCEPT ![d] = NoCall]
        /\ UNCHANGED <<lapsed, held, snap>>
    BY <1>7 DEF Complete, Drop
  <2>3. status' = [status EXCEPT ![current[d]] = "completed"] BY <1>7 DEF Complete
  <2>4. NoCall \notin held[d] OBVIOUS
  <2>5. \A c \in Call \ {current[d]} : status'[c] = status[c] BY <2>3
  <2>6. \A c \in Held(d)' : /\ status'[c] \in {"in_progress", "cancelled"}
                            /\ ~lapsed'[c]
    BY <2>1, <2>2, <2>5, <1>0 DEF Custody
  <2>7. \A c \in Call \ Held(d) : status'[c] = status[c] /\ lapsed'[c] = lapsed[c]
    BY <2>1, <2>2, <2>5
  <2> QED BY <2>1, <2>2, <2>4, <2>6, <2>7, OwnStep
<1>8. CASE FailOrRetry(d)
  <2>1. CASE /\ status' \in {[status EXCEPT ![current[d]] = s] :
                               s \in {"failed", "pending"}}
             /\ Drop(d, "running")
             /\ UNCHANGED <<snap, held, lapsed>>
    <3>1. Held(d)' = Held(d) \ {current[d]} /\ current[d] \in Mine
      BY <1>8, <2>1 DEF FailOrRetry, Drop, Held, Custody, AtRow
    <3>2. /\ pc' = [pc EXCEPT ![d] = "running"]
          /\ current' = [current EXCEPT ![d] = NoCall]
      BY <2>1 DEF Drop
    <3>3. NoCall \notin held[d] OBVIOUS
    <3>4. \A c \in Call \ {current[d]} : status'[c] = status[c] BY <2>1
    <3>5. \A c \in Held(d)' : /\ status'[c] \in {"in_progress", "cancelled"}
                              /\ ~lapsed'[c]
      BY <2>1, <3>1, <3>4, <1>0 DEF Custody
    <3>6. \A c \in Call \ Held(d) : status'[c] = status[c] /\ lapsed'[c] = lapsed[c]
      BY <2>1, <3>1, <3>4
    <3> QED BY <2>1, <3>1, <3>2, <3>3, <3>5, <3>6, OwnStep
  <2>2. CASE Abort(d) /\ UNCHANGED <<status, lapsed>> BY <2>2, <1>1
  <2> QED BY <1>8, <2>1, <2>2 DEF FailOrRetry
<1>9. CASE FinishRun(d) \/ Crash(d)
  BY <1>9, <1>1 DEF FinishRun, Crash, table
<1> QED BY <1>2, <1>3, <1>4, <1>5, <1>6, <1>7, <1>8, <1>9

\* What a claim picks is pending.
LEMMA PickedIsDue ==
  ASSUME NEW d \in Dispatcher, NEW E \in Eligible(d), NEW n, NEW S \in Best(E, n)
  PROVE  /\ S \subseteq DueFor(d) /\ S \subseteq Call
         /\ \A c \in S : status[c] = "pending"
BY DEF Eligible, Best, DueFor

\* Claiming hands over rows that nobody holds.
LEMMA ClaimKeepsCustody ==
  ASSUME ~ClaimRaces, TypeOK, Custody, NEW d \in Dispatcher,
         ClaimSnapshot(d) \/ ClaimApply(d)
  PROVE  Custody'
<1> USE DEF TypeOK, Go
<1>1. CASE ClaimSnapshot(d)
  <2>1. PICK n \in 1..BatchSize, E \in Eligible(d) :
          \E S \in Best(E, Least(n, Room(SystemCap, InProgress))) :
            snap' = [snap EXCEPT ![d] = S]
    BY <1>1 DEF ClaimSnapshot
  <2>2. PICK S \in Best(E, Least(n, Room(SystemCap, InProgress))) :
          snap' = [snap EXCEPT ![d] = S]
    BY <2>1
  <2>3. \A c \in S : status[c] = "pending" BY PickedIsDue
  <2>4. /\ \A e \in Dispatcher : pc[e] # "claiming"
        /\ pc[d] = "planned" /\ pc' = [pc EXCEPT ![d] = "claiming"]
        /\ UNCHANGED <<status, lapsed, held, current>>
    BY <1>1 DEF ClaimSnapshot, Quiet, table
  <2>5. \A e \in Dispatcher : Held(e)' = Held(e) BY <2>4 DEF Held
  <2>6. \A e \in Dispatcher : pc'[e] = "claiming" => e = d BY <2>4
  <2>7. snap'[d] = S /\ held[d] = {} BY <2>2, <2>4 DEF Custody
  <2>8. \A e \in Dispatcher \ {d} : pc'[e] = pc[e] BY <2>4
  <2> QED BY <2>3, <2>4, <2>5, <2>6, <2>7, <2>8 DEF Custody
<1>2. CASE ClaimApply(d)
  <2>0. pc[d] = "claiming" /\ held[d] = {} /\ current[d] = NoCall
    BY <1>2 DEF ClaimApply, Custody, AtRow
  <2>1. CASE Admits(Active \cup snap[d])
    <3>1. /\ pc' = [pc EXCEPT ![d] = "claimed"]
          /\ status' = [c \in Call |-> IF c \in snap[d] THEN "in_progress"
                                       ELSE status[c]]
          /\ lapsed' = [c \in Call |-> IF c \in snap[d] THEN FALSE ELSE lapsed[c]]
          /\ held' = [held EXCEPT ![d] = snap[d]]
          /\ snap' = [snap EXCEPT ![d] = {}]
          /\ current' = current
      BY <1>2, <2>1 DEF ClaimApply
    <3>2. Held(d)' = snap[d] BY <2>0, <3>1, NameAssumption DEF Held
    <3>3. ASSUME NEW e \in Dispatcher \ {d}
          PROVE /\ Held(e)' = Held(e) /\ Held(e) \subseteq Call
                /\ Held(e) \cap snap[d] = {}
                /\ pc'[e] = pc[e] /\ pc[e] # "claiming"
                /\ held'[e] = held[e] /\ current'[e] = current[e]
      BY <2>0, <3>1 DEF Held, Custody
    <3>4. pc'[d] = "claimed" /\ current'[d] = NoCall /\ held'[d] = snap[d]
          /\ NoCall \notin snap[d]
      BY <2>0, <3>1, NameAssumption
    <3>5. \A c \in snap[d] : status'[c] = "in_progress" /\ ~lapsed'[c]
      BY <3>1
    <3>6. ASSUME NEW e \in Dispatcher
          PROVE  /\ pc'[e] \in {"idle", "reaped", "planned", "claiming"} => held'[e] = {}
                 /\ current'[e] \notin held'[e]
                 /\ \A c \in Held(e)' : /\ status'[c] \in {"in_progress", "cancelled"}
                                        /\ ~lapsed'[c]
                 /\ pc'[e] # "claiming"
      <4>1. CASE e = d BY <4>1, <3>2, <3>4, <3>5
      <4>2. CASE e # d
        <5>0. \A c \in Held(e)' : c \in Held(e) /\ c \in Call /\ c \notin snap[d]
          BY <4>2, <3>3
        <5>1. \A c \in Held(e)' : status'[c] = status[c] /\ lapsed'[c] = lapsed[c]
          BY <3>1, <5>0
        <5> QED BY <4>2, <3>3, <5>1 DEF Custody
      <4> QED BY <4>1, <4>2
    <3>7. ASSUME NEW e \in Dispatcher, NEW f \in Dispatcher, e # f
          PROVE  Held(e)' \cap Held(f)' = {}
      <4>1. CASE e = d BY <4>1, <3>2, <3>3, <3>7
      <4>2. CASE f = d BY <4>2, <3>2, <3>3, <3>7
      <4>3. CASE e # d /\ f # d BY <4>3, <3>3, <3>7 DEF Custody
      <4> QED BY <4>1, <4>2, <4>3
    <3> QED BY <3>6, <3>7 DEF Custody
  <2>2. CASE ~Admits(Active \cup snap[d])
    <3>1. Abort(d) /\ UNCHANGED <<status, lapsed>> BY <1>2, <2>2 DEF ClaimApply
    <3> QED BY <3>1, AbortKeepsCustody
  <2> QED BY <2>1, <2>2
<1> QED BY <1>1, <1>2

\* Nobody outside takes a row from a run, or a picked row from a claim.
LEMMA OutsideKeepsCustody ==
  ASSUME ~ClaimRaces, TypeOK, Custody,
         \/ \E c \in Call : \/ Insert(c) \/ Cancel(c) \/ MarkUnopened(c)
                             \/ MakeDue(c) \/ Lapse(c)
         \/ \E j \in Job : ForceCancel(j)
         \/ \E t \in Tenant : OpenWindow(t) \/ CloseWindow(t)
         \/ UNCHANGED vars
  PROVE  Custody'
<1> USE NameAssumption DEF TypeOK
<1>0. UNCHANGED <<pc, held, current, snap>>
  BY DEF Insert, Cancel, MarkUnopened, MakeDue, Lapse, ForceCancel, OpenWindow,
         CloseWindow,
         vars, run
<1>1. \A e \in Dispatcher : Held(e)' = Held(e) /\ Held(e) \subseteq Call
  BY <1>0 DEF Held
<1>2. ASSUME \A e \in Dispatcher :
               /\ \A c \in Held(e) : /\ status'[c] \in {"in_progress", "cancelled"}
                                     /\ ~lapsed'[c]
               /\ pc[e] = "claiming" => \A c \in snap[e] : status'[c] = "pending"
      PROVE  Custody'
  BY <1>0, <1>1, <1>2 DEF Custody
<1>3. ASSUME NEW c \in Call, Insert(c) PROVE Custody'
  <2>1. status[c] = "absent" /\ status' = [status EXCEPT ![c] = "pending"]
        /\ lapsed' = lapsed
    BY <1>3 DEF Insert
  <2> QED BY <2>1, <1>1, <1>2 DEF Custody
<1>4. ASSUME NEW c \in Call, Cancel(c) PROVE Custody'
  <2>1. /\ status' = [status EXCEPT ![c] = "cancelled"] /\ lapsed' = lapsed
        /\ \A e \in Dispatcher : pc[e] # "claiming"
    BY <1>4 DEF Cancel, Quiet
  <2> QED BY <2>1, <1>1, <1>2 DEF Custody
<1>5. ASSUME NEW c \in Call, Lapse(c) PROVE Custody'
  <2>1. /\ status' = status /\ lapsed' = [lapsed EXCEPT ![c] = TRUE]
        /\ \A e \in Dispatcher : c \notin Held(e)
    BY <1>5 DEF Lapse, RunOver
  <2>2. \A e \in Dispatcher : \A b \in Held(e) : b \in Call /\ b # c
    BY <2>1, <1>1
  <2>3. \A e \in Dispatcher : \A b \in Held(e) : lapsed'[b] = lapsed[b]
    BY <2>1, <2>2
  <2> QED BY <2>1, <2>3, <1>1, <1>2 DEF Custody
<1>6. ASSUME NEW j \in Job, ForceCancel(j) PROVE Custody'
  <2>1. /\ \A c \in Call : status'[c] \in {status[c], "cancelled"}
        /\ lapsed' = lapsed
        /\ \A e \in Dispatcher : pc[e] # "claiming"
    BY <1>6 DEF ForceCancel, Quiet
  <2> QED BY <2>1, <1>1, <1>2 DEF Custody
<1>7. CASE UNCHANGED <<status, lapsed>>
  BY <1>7, <1>1, <1>2 DEF Custody
<1>8. ASSUME NEW c \in Call, MarkUnopened(c) PROVE Custody'
  <2>1. /\ status[c] = "completed" /\ lapsed' = lapsed
        /\ status' = [status EXCEPT ![c] = "failed"]
    BY <1>8 DEF MarkUnopened
  <2> QED BY <2>1, <1>1, <1>2 DEF Custody
<1> QED BY <1>3, <1>4, <1>5, <1>6, <1>7, <1>8
        DEF MakeDue, OpenWindow, CloseWindow, table, vars

\* While claim statements do not overlap, every run keeps custody of the rows
\* it claimed until it has written their outcome.
THEOREM CustodyKept ==
  ASSUME ~ClaimRaces
  PROVE  Spec => []Custody
<1>1. Init => Custody
  BY DEF Init, Custody, Held
<1>2. ASSUME TypeOK, Custody, [Next]_vars PROVE Custody'
  BY <1>2, RunKeepsCustody, ClaimKeepsCustody, OutsideKeepsCustody DEF Next, Step
<1> QED BY <1>1, <1>2, TypeCorrect, PTL DEF Spec

-----------------------------------------------------------------------------
(* No row is contacted twice without a lost completion.                    *)

\* The contact of row c has been made and its completion is still to write.
Placed(c) == \E d \in Dispatcher : pc[d] = "placed" /\ current[d] = c

\* Row c may still be contacted.
InPlay(c) == \/ status[c] \in {"absent", "pending", "in_progress"}
             \/ \E d \in Dispatcher : c \in Held(d)

Contacted ==
  \A c \in Call : /\ dials[c] <= 1 + lost[c]
                  /\ InPlay(c) => dials[c] <= lost[c] \/ Placed(c)

\* A step that contacts nobody, brings no row into play and forgets no contact.
LEMMA NothingContacted ==
  ASSUME Contacted, UNCHANGED <<dials, lost>>,
         \A c \in Call : InPlay(c)' => InPlay(c) /\ (Placed(c) => Placed(c)')
  PROVE  Contacted'
BY DEF Contacted

\* A row in hand is in nobody else's hands.
LEMMA InHand ==
  ASSUME TypeOK, Custody, NEW d \in Dispatcher, pc[d] \in AtRow
  PROVE  /\ current[d] \in Call /\ current[d] \in Held(d)
         /\ status[current[d]] \in {"in_progress", "cancelled"}
         /\ InPlay(current[d])
         /\ \A e \in Dispatcher : current[e] = current[d] => e = d
<1>1. current[d] \in Call /\ current[d] \in Held(d) BY DEF TypeOK, Held
<1>2. status[current[d]] \in {"in_progress", "cancelled"} BY <1>1 DEF Custody
<1>3. ASSUME NEW e \in Dispatcher, current[e] = current[d], e # d PROVE FALSE
  <2>1. current[d] \in Held(e) BY <1>1, <1>3, NameAssumption DEF Held
  <2> QED BY <1>1, <1>3, <2>1 DEF Custody
<1> QED BY <1>1, <1>2, <1>3 DEF InPlay

LEMMA OutsideContactsNobody ==
  ASSUME TypeOK, Custody, Contacted,
         \/ \E c \in Call : \/ Insert(c) \/ Cancel(c) \/ MarkUnopened(c)
                             \/ MakeDue(c) \/ Lapse(c)
         \/ \E j \in Job : ForceCancel(j)
         \/ \E t \in Tenant : OpenWindow(t) \/ CloseWindow(t)
         \/ UNCHANGED vars
  PROVE  Contacted'
<1>1. UNCHANGED <<pc, held, current, dials, lost>>
  BY DEF Insert, Cancel, MarkUnopened, MakeDue, Lapse, ForceCancel, OpenWindow,
         CloseWindow,
         vars, run, past
<1>2. \A c \in Call : Placed(c)' <=> Placed(c) BY <1>1 DEF Placed
<1>3. \A e \in Dispatcher : Held(e)' = Held(e) BY <1>1 DEF Held
<1>4. \A c \in Call : \/ status'[c] \in {status[c], "cancelled", "failed"}
                      \/ status[c] = "absent"
  BY DEF Insert, Cancel, MarkUnopened, MakeDue, Lapse, ForceCancel, OpenWindow,
         CloseWindow,
         vars, table, TypeOK
<1>5. \A c \in Call : InPlay(c)' => InPlay(c) BY <1>3, <1>4 DEF InPlay
<1> QED BY <1>1, <1>2, <1>5, NothingContacted

\* The steps of a run that neither contact nor lose anything.
LEMMA RunContactsNobody ==
  ASSUME TypeOK, Custody, Contacted, NEW d \in Dispatcher,
         \/ StartRun(d) \/ Plan(d) \/ ClaimSnapshot(d) \/ ClaimApply(d)
         \/ Settle(d) \/ ContactFails(d) \/ Complete(d) \/ FailOrRetry(d)
         \/ FinishRun(d)
         \/ /\ Abort(d) /\ pc[d] # "placed"
            /\ UNCHANGED <<status, dials, lost>>
         \/ \E c \in Call : Gate(d, c)
  PROVE  Contacted'
<1> USE NameAssumption DEF TypeOK, Go
<1>1. ASSUME UNCHANGED <<dials, lost>>, pc[d] # "placed",
             \A e \in Dispatcher \ {d} :
               pc'[e] = pc[e] /\ held'[e] = held[e] /\ current'[e] = current[e],
             \A c \in Held(d)' : InPlay(c),
             \A c \in Call : \/ status'[c] \in {status[c], "cancelled", "completed", "failed"}
                             \/ InPlay(c)
      PROVE  Contacted'
  <2>1. \A e \in Dispatcher \ {d} : Held(e)' = Held(e) BY <1>1 DEF Held
  <2>2. \A c \in Call : InPlay(c)' => InPlay(c)
    BY <1>1, <2>1 DEF InPlay
  <2>3. \A c \in Call : Placed(c) => Placed(c)' BY <1>1 DEF Placed
  <2> QED BY <1>1, <2>2, <2>3, NothingContacted
<1>2. \A c \in Held(d) : c \in Call /\ InPlay(c) BY DEF InPlay, Held
<1>3. CASE Abort(d) /\ pc[d] # "placed" /\ UNCHANGED <<status, dials, lost>>
  <2>1. Held(d)' = {} BY <1>3 DEF Abort, Held
  <2> QED BY <1>1, <1>3, <2>1 DEF Abort
<1>4. CASE StartRun(d) \/ Plan(d) \/ ContactFails(d) \/ ClaimSnapshot(d)
  <2>1. /\ UNCHANGED <<held, current, dials, lost>>
        /\ pc[d] # "placed"
        /\ \A e \in Dispatcher \ {d} : pc'[e] = pc[e]
        /\ \A c \in Call : status'[c] = status[c] \/ status[c] = "in_progress"
    BY <1>4 DEF StartRun, Plan, ContactFails, ClaimSnapshot, Orphans, InProgress,
                table, past
  <2>2. Held(d)' = Held(d) BY <2>1 DEF Held
  <2> QED BY <1>1, <1>2, <2>1, <2>2 DEF InPlay
<1>5. CASE ClaimApply(d)
  <2>1. CASE Admits(Active \cup snap[d])
    <3>1. /\ pc[d] = "claiming" /\ pc' = [pc EXCEPT ![d] = "claimed"]
          /\ status' = [c \in Call |-> IF c \in snap[d] THEN "in_progress"
                                       ELSE status[c]]
          /\ held' = [held EXCEPT ![d] = snap[d]]
          /\ UNCHANGED <<current, dials, lost>>
      BY <1>5, <2>1 DEF ClaimApply, past
    <3>2. \A c \in snap[d] : c \in Call /\ InPlay(c)
      BY <3>1 DEF Custody, InPlay
    <3>3. Held(d)' = snap[d] BY <3>1 DEF Held, AtRow
    <3> QED BY <1>1, <3>1, <3>2, <3>3
  <2>2. CASE ~Admits(Active \cup snap[d])
    BY <1>5, <2>2, <1>3 DEF ClaimApply, past
  <2> QED BY <2>1, <2>2
<1>6. CASE Settle(d)
  <2>1. PICK W \in Winners(held[d]) :
          LET losers == held[d] \ W
          IN IF Admits(Active \cup losers)
             THEN /\ Go(d, "running")
                  /\ held' = [held EXCEPT ![d] = W]
                  /\ status' = [c \in Call |-> IF c \in losers THEN "pending"
                                               ELSE status[c]]
                  /\ UNCHANGED <<scope, window, snap, current>>
             ELSE Abort(d) /\ UNCHANGED status
    BY <1>6 DEF Settle
  <2>2. pc[d] = "claimed" /\ UNCHANGED <<dials, lost>> BY <1>6 DEF Settle, past
  <2>3. CASE Admits(Active \cup (held[d] \ W))
    <3>1. W \subseteq held[d] /\ held[d] \subseteq Held(d) BY DEF Winners, Held
    <3>2. Held(d)' \subseteq Held(d) BY <2>1, <2>3, <3>1 DEF Held
    <3>3. \A c \in Call : status'[c] = status[c] \/ InPlay(c)
      BY <2>1, <2>3, <3>1, <1>2
    <3> QED BY <1>1, <1>2, <2>1, <2>2, <2>3, <3>2, <3>3
  <2>4. CASE ~Admits(Active \cup (held[d] \ W))
    BY <2>1, <2>2, <2>4, <1>3
  <2> QED BY <2>3, <2>4
<1>7. ASSUME NEW c \in Call, Gate(d, c) PROVE Contacted'
  <2>1. /\ pc[d] = "running" /\ c \in Held(d) /\ UNCHANGED <<dials, lost>>
    BY <1>7 DEF Gate, Held, past
  <2>2. /\ \A e \in Dispatcher \ {d} :
              pc'[e] = pc[e] /\ held'[e] = held[e] /\ current'[e] = current[e]
        /\ Held(d)' \subseteq Held(d)
    BY <1>7, <2>1 DEF Gate, Take, Held
  <2>3. \A b \in Call : status'[b] = status[b] \/ b = c BY <1>7 DEF Gate
  <2> QED BY <1>1, <1>2, <2>1, <2>2, <2>3
<1>8. CASE Complete(d)
  <2>0. PICK c \in Call : c = current[d] BY <1>8, InHand DEF Complete, AtRow
  <2>1. c = current[d] /\ \A e \in Dispatcher : current[e] = c => e = d
    BY <1>8, <2>0, InHand DEF Complete, AtRow
  <2>2. /\ pc' = [pc EXCEPT ![d] = "running"]
        /\ status' = [status EXCEPT ![c] = "completed"]
        /\ current' = [current EXCEPT ![d] = NoCall]
        /\ UNCHANGED <<held, dials, lost>>
    BY <1>8, <2>0 DEF Complete, Drop, past
  <2>3. \A e \in Dispatcher : c \notin Held(e)'
    <3>1. c \in Held(d) /\ c \notin held[d]
      BY <1>8, <2>0, InHand DEF Complete, AtRow, Custody
    <3>2. \A e \in Dispatcher \ {d} : c \notin Held(e) /\ Held(e)' = Held(e)
      BY <3>1, <2>2 DEF Custody, Held
    <3>3. Held(d)' = held[d] BY <2>2 DEF Held
    <3> QED BY <3>1, <3>2, <3>3
  <2>4. ~InPlay(c)' BY <2>1, <2>2, <2>3 DEF InPlay
  <2>5. ASSUME NEW b \in Call, b # c
        PROVE  /\ InPlay(b)' => InPlay(b)
               /\ Placed(b) => Placed(b)'
    <3>1. \A e \in Dispatcher : b \in Held(e)' => b \in Held(e)
      BY <2>2 DEF Held
    <3>2. status'[b] = status[b] BY <2>2, <2>5
    <3>3. Placed(b) => Placed(b)' BY <2>1, <2>2, <2>5 DEF Placed
    <3> QED BY <3>1, <3>2, <3>3 DEF InPlay
  <2> QED BY <2>2, <2>4, <2>5, NothingContacted
<1>9. CASE FailOrRetry(d)
  <2>0. PICK c \in Call : c = current[d] BY <1>9, InHand DEF FailOrRetry, AtRow
  <2>1. pc[d] = "failing" /\ UNCHANGED <<dials, lost>> /\ c \in Held(d)
    BY <1>9, <2>0, InHand DEF FailOrRetry, past, AtRow
  <2>2. CASE /\ status' \in {[status EXCEPT ![c] = s] : s \in {"failed", "pending"}}
             /\ Drop(d, "running")
             /\ UNCHANGED held
    <3>1. /\ pc' = [pc EXCEPT ![d] = "running"]
          /\ current' = [current EXCEPT ![d] = NoCall]
      BY <2>2 DEF Drop
    <3>2. Held(d)' = held[d] BY <2>2, <3>1 DEF Held
    <3>3. Held(d)' \subseteq Held(d) BY <3>2 DEF Held
    <3>4. \A b \in Call : status'[b] = status[b] \/ b = c BY <2>2
    <3>5. \A e \in Dispatcher \ {d} :
            pc'[e] = pc[e] /\ held'[e] = held[e] /\ current'[e] = current[e]
      BY <2>2, <3>1
    <3> QED BY <1>1, <1>2, <2>1, <3>3, <3>4, <3>5
  <2>3. CASE Abort(d) /\ UNCHANGED status BY <2>1, <2>3, <1>3
  <2> QED BY <1>9, <2>0, <2>2, <2>3 DEF FailOrRetry
<1>10. CASE FinishRun(d)
  BY <1>10, <1>3 DEF FinishRun, table, past
<1> QED BY <1>3, <1>4, <1>5, <1>6, <1>7, <1>8, <1>9, <1>10

\* Contacting, and losing the record of it, keep the account.
LEMMA ContactStep ==
  ASSUME TypeOK, Custody, Contacted, NEW d \in Dispatcher,
         PlaceCall(d) \/ SendLink(d) \/ CompleteFails(d) \/ Crash(d)
  PROVE  Contacted'
<1> USE NameAssumption DEF TypeOK, Go
<1>1. CASE PlaceCall(d) \/ SendLink(d)
  <2>0. PICK c \in Call : /\ c = current[d] /\ c \in Held(d)
                         /\ \A e \in Dispatcher : current[e] = c => e = d
    BY <1>1, InHand DEF PlaceCall, SendLink, AtRow
  <2>1. /\ pc[d] = "dialing" /\ pc' = [pc EXCEPT ![d] = "placed"]
        /\ dials' = [dials EXCEPT ![c] = @ + 1]
        /\ UNCHANGED <<status, held, current, lost>>
    BY <1>1, <2>0 DEF PlaceCall, SendLink, table
  <2>2. InPlay(c) /\ ~Placed(c) BY <2>0, <2>1 DEF InPlay, Placed
  <2>3. Placed(c)' BY <2>0, <2>1 DEF Placed
  <2>4. \A e \in Dispatcher : Held(e)' = Held(e) BY <2>1 DEF Held
  <2>5. ASSUME NEW b \in Call, b # c
        PROVE  /\ dials'[b] = dials[b] /\ lost'[b] = lost[b]
               /\ InPlay(b)' => InPlay(b)
               /\ Placed(b) => Placed(b)'
    <3>1. Placed(b) => Placed(b)' BY <2>0, <2>1, <2>5 DEF Placed
    <3> QED BY <2>1, <2>4, <2>5, <3>1 DEF InPlay
  <2>6. dials'[c] = dials[c] + 1 /\ lost'[c] = lost[c] /\ dials[c] <= lost[c]
        /\ dials[c] \in Nat /\ lost[c] \in Nat
    BY <2>1, <2>2 DEF Contacted
  <2> QED BY <2>3, <2>5, <2>6 DEF Contacted
<1>2. CASE CompleteFails(d) \/ (Crash(d) /\ pc[d] = "placed")
  <2>0. PICK c \in Call : /\ c = current[d]
                         /\ \A e \in Dispatcher : current[e] = c => e = d
    BY <1>2, InHand DEF CompleteFails, AtRow
  <2>1. /\ pc[d] = "placed" /\ lost'[c] = lost[c] + 1 /\ lost[c] \in Nat
        /\ \A b \in Call \ {c} : lost'[b] = lost[b]
        /\ UNCHANGED <<status, dials>>
        /\ Held(d)' \subseteq Held(d)
        /\ \A e \in Dispatcher \ {d} :
             pc'[e] = pc[e] /\ held'[e] = held[e] /\ current'[e] = current[e]
    <3>1. CASE CompleteFails(d)
      BY <3>1, <2>0 DEF CompleteFails, table, Held
    <3>2. CASE Crash(d) /\ pc[d] = "placed"
      BY <3>2, <2>0 DEF Crash, Abort, table, Held
    <3> QED BY <1>2, <3>1, <3>2
  <2>2. \A e \in Dispatcher \ {d} : Held(e)' = Held(e) BY <2>1 DEF Held
  <2>3. \A b \in Call : InPlay(b)' => InPlay(b) BY <2>1, <2>2 DEF InPlay
  <2>4. \A b \in Call \ {c} : Placed(b) => Placed(b)'
    BY <2>0, <2>1 DEF Placed
  <2>5. dials'[c] <= lost'[c] /\ lost'[c] \in Nat /\ dials'[c] \in Nat
    BY <2>1 DEF Contacted
  <2>6. \A b \in Call \ {c} : dials'[b] = dials[b] /\ lost'[b] = lost[b]
    BY <2>1
  <2> QED BY <2>3, <2>4, <2>5, <2>6 DEF Contacted
<1>3. CASE Crash(d) /\ pc[d] # "placed"
  <2>1. lost' = lost BY <1>3 DEF Crash
  <2> QED BY <1>3, <2>1, RunContactsNobody DEF Crash, table
<1> QED BY <1>1, <1>2, <1>3

LEMMA ContactsKept ==
  ASSUME ~ClaimRaces
  PROVE  Spec => []Contacted
<1>1. Init => Contacted
  BY DEF Init, Contacted
<1>2. ASSUME TypeOK, Custody, Contacted, [Next]_vars PROVE Contacted'
  BY <1>2, OutsideContactsNobody, RunContactsNobody, ContactStep DEF Next, Step
<1> QED BY <1>1, <1>2, TypeCorrect, CustodyKept, PTL DEF Spec

\* Every further contact for a row is explained by an earlier one whose
\* completion was never recorded: neither retries, reaping, office hours nor
\* cancelling alone can reach the customer twice for one row.
THEOREM RedialsExplained ==
  ASSUME ~ClaimRaces
  PROVE  Spec => []NoUnexplainedRedial
<1>1. Contacted => NoUnexplainedRedial
  BY DEF Contacted, NoUnexplainedRedial
<1> QED BY <1>1, ContactsKept, PTL

-----------------------------------------------------------------------------
(* The refinement of QueuePromise.                                         *)


\* What may become of the rows in a run's hands in one step.
LEMMA HandsStep ==
  ASSUME TypeOK, Custody, [Next]_vars, NEW d \in Dispatcher
  PROVE  \/ Held(d)' \subseteq Held(d)
         \/ /\ pc[d] = "claiming" /\ Held(d)' \subseteq snap[d]
            /\ \A c \in snap[d] : status'[c] = "in_progress"
<1> USE NameAssumption DEF TypeOK, Go
<1>1. CASE UNCHANGED <<held, current>> BY <1>1 DEF Held
<1>2. ASSUME NEW e \in Dispatcher, e # d, StartRun(e) \/ Step(e) \/ Crash(e)
      PROVE  Held(d)' \subseteq Held(d)
  <2>1. held'[d] = held[d] /\ current'[d] = current[d]
    BY <1>2 DEF StartRun, Step, Crash, Abort, Plan, ClaimSnapshot, ClaimApply, Settle, Gate,
                Take, ContactFails, PlaceCall, SendLink, Complete, CompleteFails, FailOrRetry,
                FinishRun, Drop
  <2> QED BY <2>1 DEF Held
<1>3. ASSUME Abort(d) PROVE Held(d)' \subseteq Held(d)
  BY <1>3 DEF Abort, Held
<1>4. ASSUME ClaimApply(d)
      PROVE  \/ Held(d)' \subseteq Held(d)
             \/ /\ pc[d] = "claiming" /\ Held(d)' \subseteq snap[d]
                /\ \A c \in snap[d] : status'[c] = "in_progress"
  <2>1. CASE Admits(Active \cup snap[d])
    <3>1. /\ pc[d] = "claiming" /\ current' = current
          /\ status' = [c \in Call |-> IF c \in snap[d] THEN "in_progress" ELSE status[c]]
          /\ held' = [held EXCEPT ![d] = snap[d]]
      BY <1>4, <2>1 DEF ClaimApply
    <3> QED BY <3>1 DEF Held, AtRow
  <2>2. CASE ~Admits(Active \cup snap[d]) BY <1>4, <2>2, <1>3 DEF ClaimApply
  <2> QED BY <2>1, <2>2
<1>5. ASSUME Settle(d) PROVE Held(d)' \subseteq Held(d)
  <2>1. PICK W \in Winners(held[d]) :
          \/ held' = [held EXCEPT ![d] = W] /\ UNCHANGED current
          \/ Abort(d)
    BY <1>5 DEF Settle
  <2>2. W \subseteq held[d] BY DEF Winners
  <2> QED BY <2>1, <2>2, <1>3 DEF Held
<1>6. ASSUME NEW c \in Call, Gate(d, c) PROVE Held(d)' \subseteq Held(d)
  BY <1>6 DEF Gate, Take, Held
<1>7. ASSUME Complete(d) \/ FailOrRetry(d) PROVE Held(d)' \subseteq Held(d)
  <2>1. CASE Abort(d) BY <2>1, <1>3
  <2>2. CASE UNCHANGED held /\ current' = [current EXCEPT ![d] = NoCall] BY <2>2 DEF Held
  <2> QED BY <1>7, <2>1, <2>2 DEF Complete, FailOrRetry, Drop
<1>8. ASSUME FinishRun(d) \/ Crash(d) PROVE Held(d)' \subseteq Held(d)
  BY <1>8, <1>3 DEF FinishRun, Crash
<1>9. ASSUME StartRun(d) \/ Plan(d) \/ ClaimSnapshot(d) \/ ContactFails(d) \/ PlaceCall(d)
             \/ SendLink(d) \/ CompleteFails(d)
      PROVE  UNCHANGED <<held, current>>
  BY <1>9 DEF StartRun, Plan, ClaimSnapshot, ContactFails, PlaceCall, SendLink, CompleteFails
<1>10. ASSUME \/ \E c \in Call : \/ Insert(c) \/ Cancel(c) \/ MarkUnopened(c)
                                 \/ MakeDue(c) \/ Lapse(c)
              \/ \E j \in Job : ForceCancel(j)
              \/ \E t \in Tenant : OpenWindow(t) \/ CloseWindow(t)
              \/ UNCHANGED vars
       PROVE  UNCHANGED <<held, current>>
  BY <1>10 DEF Insert, Cancel, MarkUnopened, MakeDue, Lapse, ForceCancel, OpenWindow,
               CloseWindow, vars, run
<1> QED BY <1>1, <1>2, <1>4, <1>5, <1>6, <1>7, <1>8, <1>9, <1>10 DEF Next, Step

\* Nobody but staff cancels a row.
LEMMA WhoCancels ==
  ASSUME TypeOK, ~CancelInFlight, [Next]_vars, NEW c \in Call, status'[c] = "cancelled"
  PROVE  status[c] # "in_progress"
<1> USE NameAssumption DEF TypeOK
<1>1. ASSUME NEW b \in Call, Cancel(b) PROVE status[c] # "in_progress"
  BY <1>1 DEF Cancel
<1>2. ASSUME NEW j \in Job, ForceCancel(j) PROVE status[c] # "in_progress"
  BY <1>2 DEF ForceCancel, InProgress, Active
<1>3. ASSUME NEW d \in Dispatcher, StartRun(d) \/ Step(d) \/ Crash(d)
      PROVE  status'[c] = status[c] \/ status'[c] # "cancelled"
  <2>0. CASE StartRun(d)
    <3>1. status' = [b \in Call |-> IF b \in Orphans THEN "pending" ELSE status[b]]
      BY <2>0 DEF StartRun
    <3> QED BY <3>1
  <2>1. CASE ClaimApply(d)
    <3>1. \/ status' = [b \in Call |-> IF b \in snap[d] THEN "in_progress" ELSE status[b]]
          \/ status' = status
      BY <2>1 DEF ClaimApply
    <3> QED BY <3>1
  <2>2. CASE Settle(d) BY <2>2 DEF Settle
  <2>3. ASSUME NEW b \in Call, Gate(d, b) PROVE status'[c] = status[c] \/ status'[c] # "cancelled"
    BY <2>3 DEF Gate
  <2>4. CASE Complete(d) BY <2>4 DEF Complete
  <2>5. CASE FailOrRetry(d) BY <2>5 DEF FailOrRetry
  <2>6. CASE \/ Plan(d) \/ ClaimSnapshot(d) \/ ContactFails(d) \/ PlaceCall(d) \/ SendLink(d)
             \/ CompleteFails(d) \/ FinishRun(d) \/ Crash(d)
    <3>1. CASE Plan(d) BY <3>1 DEF Plan
    <3>4. CASE ClaimSnapshot(d) BY <3>4 DEF ClaimSnapshot, table
    <3>2. CASE ContactFails(d) \/ PlaceCall(d) \/ SendLink(d) \/ CompleteFails(d)
      BY <3>2 DEF ContactFails, PlaceCall, SendLink, CompleteFails, table
    <3>3. CASE FinishRun(d) \/ Crash(d) BY <3>3 DEF FinishRun, Crash, table
    <3> QED BY <2>6, <3>1, <3>2, <3>3, <3>4
  <2> QED BY <1>3, <2>0, <2>1, <2>2, <2>3, <2>4, <2>5, <2>6 DEF Step
<1>4. ASSUME \/ \E b \in Call : Insert(b) \/ MarkUnopened(b) \/ MakeDue(b) \/ Lapse(b)
             \/ \E t \in Tenant : OpenWindow(t) \/ CloseWindow(t)
             \/ UNCHANGED vars
      PROVE  status'[c] = status[c] \/ status'[c] # "cancelled"
  BY <1>4 DEF Insert, MarkUnopened, MakeDue, Lapse, OpenWindow, CloseWindow, vars, table
<1> QED BY <1>1, <1>2, <1>3, <1>4 DEF Next

\* A row in the hands of a run is in progress.
Firm == \A d \in Dispatcher : \A c \in Held(d) : status[c] = "in_progress"

LEMMA FirmKept ==
  ASSUME ~ClaimRaces, ~CancelInFlight
  PROVE  Spec => []Firm
<1>1. Init => Firm BY DEF Init, Firm, Held
<1>2. ASSUME TypeOK, Custody, Custody', Firm, [Next]_vars PROVE Firm'
  <2> SUFFICES ASSUME NEW d \in Dispatcher, NEW c \in Held(d)'
               PROVE  status'[c] = "in_progress"
    BY DEF Firm
  <2>1. status'[c] \in {"in_progress", "cancelled"} BY <1>2 DEF Custody
  <2>2. CASE c \in Held(d)
    <3>1. c \in Call /\ status[c] = "in_progress"
      BY <1>2, <2>2 DEF Firm, Held, TypeOK
    <3> QED BY <1>2, <2>1, <3>1, WhoCancels
  <2>3. CASE c \notin Held(d) BY <1>2, <2>3, HandsStep
  <2> QED BY <2>2, <2>3
<1> QED BY <1>1, <1>2, TypeCorrect, CustodyKept, PTL DEF Spec

-----------------------------------------------------------------------------
(* No two runs dial one number.                                            *)

\* The rows a run holds or is about to.
Reserved(d) == Held(d) \cup (IF pc[d] = "claiming" THEN snap[d] ELSE {})

Apart(b, c) == Row[b].phone # Row[c].phone \/ Row[c].phone = NoPhone

PhonesApart ==
  \A d, e \in Dispatcher : d # e => \A b \in Reserved(d), c \in Reserved(e) : Apart(b, c)

\* A claim that is under way began with its snapshot.
LEMMA ClaimsStep ==
  ASSUME TypeOK, [Next]_vars, NEW d \in Dispatcher, pc'[d] = "claiming"
  PROVE  ClaimSnapshot(d) \/ (pc[d] = "claiming" /\ snap'[d] = snap[d])
<1> USE NameAssumption DEF TypeOK, Go
<1>1. ASSUME NEW e \in Dispatcher, StartRun(e) \/ Step(e) \/ Crash(e), e # d
      PROVE  pc'[d] = pc[d] /\ snap'[d] = snap[d]
  <2>1. CASE StartRun(e) BY <1>1, <2>1 DEF StartRun
  <2>2. CASE Crash(e) \/ FinishRun(e) BY <1>1, <2>2 DEF Crash, FinishRun, Abort
  <2>3. CASE Plan(e) BY <1>1, <2>3 DEF Plan
  <2>9. CASE ClaimSnapshot(e)
    <3>1. PICK S : snap' = [snap EXCEPT ![e] = S] BY <2>9 DEF ClaimSnapshot
    <3>2. pc' = [pc EXCEPT ![e] = "claiming"] BY <2>9 DEF ClaimSnapshot
    <3> QED BY <1>1, <3>1, <3>2
  <2>4. CASE ClaimApply(e)
    <3>1. \E at \in {"claimed", "idle"} : pc' = [pc EXCEPT ![e] = at] BY <2>4 DEF ClaimApply, Abort
    <3>2. snap' = [snap EXCEPT ![e] = {}] BY <2>4 DEF ClaimApply, Abort
    <3> QED BY <1>1, <3>1, <3>2
  <2>5. CASE Settle(e) BY <1>1, <2>5 DEF Settle, Abort
  <2>6. CASE \E c \in Call : Gate(e, c) BY <1>1, <2>6 DEF Gate, Take
  <2>7. CASE ContactFails(e) \/ PlaceCall(e) \/ SendLink(e)
    BY <1>1, <2>7 DEF ContactFails, PlaceCall, SendLink
  <2>8. CASE Complete(e) \/ CompleteFails(e) \/ FailOrRetry(e)
    BY <1>1, <2>8 DEF Complete, CompleteFails, FailOrRetry, Drop, Abort
  <2> QED BY <1>1, <2>1, <2>2, <2>3, <2>4, <2>5, <2>6, <2>7, <2>8, <2>9 DEF Step
<1>2. ASSUME StartRun(d) \/ Step(d) \/ Crash(d), ~ClaimSnapshot(d)
      PROVE  pc'[d] # "claiming"
  <2>1. CASE StartRun(d) \/ Plan(d) \/ Crash(d) \/ FinishRun(d)
    BY <2>1 DEF StartRun, Plan, Crash, FinishRun, Abort
  <2>2. CASE ClaimApply(d) BY <2>2 DEF ClaimApply, Abort
  <2>3. CASE Settle(d) BY <2>3 DEF Settle, Abort
  <2>4. ASSUME NEW c \in Call, Gate(d, c) PROVE pc'[d] # "claiming"
    BY <2>4 DEF Gate, Take
  <2>5. CASE ContactFails(d) \/ PlaceCall(d) \/ SendLink(d) \/ Complete(d) \/ CompleteFails(d)
    BY <2>5 DEF ContactFails, PlaceCall, SendLink, Complete, CompleteFails, Drop
  <2>6. CASE FailOrRetry(d) BY <2>6 DEF FailOrRetry, Drop, Abort
  <2> QED BY <1>2, <2>1, <2>2, <2>3, <2>4, <2>5, <2>6 DEF Step
<1>3. ASSUME \/ \E c \in Call : \/ Insert(c) \/ Cancel(c) \/ MarkUnopened(c)
                                \/ MakeDue(c) \/ Lapse(c)
             \/ \E j \in Job : ForceCancel(j)
             \/ \E t \in Tenant : OpenWindow(t) \/ CloseWindow(t)
             \/ UNCHANGED vars
      PROVE  pc' = pc /\ snap' = snap
  BY <1>3 DEF Insert, Cancel, MarkUnopened, MakeDue, Lapse, ForceCancel, OpenWindow,
              CloseWindow, vars, run
<1>4. ASSUME NEW e \in Dispatcher, StartRun(e) \/ Step(e) \/ Crash(e)
      PROVE  pc'[d] = "claiming" => ClaimSnapshot(d) \/ (pc[d] = "claiming" /\ snap'[d] = snap[d])
  <2>1. CASE e # d BY <1>1, <1>4, <2>1
  <2>2. CASE e = d BY <1>2, <1>4, <2>2
  <2> QED BY <2>1, <2>2
<1> QED BY <1>3, <1>4 DEF Next

\* Only the snapshot of a claim reserves more rows.
LEMMA ReservedStep ==
  ASSUME TypeOK, Custody, [Next]_vars, NEW d \in Dispatcher
  PROVE  \/ Reserved(d)' \subseteq Reserved(d)
         \/ ClaimSnapshot(d)
<1>1. Held(d)' \subseteq Reserved(d)
  BY HandsStep DEF Reserved
<1>2. pc'[d] = "claiming" => ClaimSnapshot(d) \/ (pc[d] = "claiming" /\ snap'[d] = snap[d])
  BY ClaimsStep
<1>3. CASE pc'[d] # "claiming"
  <2>1. Reserved(d)' = Held(d)' BY <1>3 DEF Reserved
  <2> QED BY <1>1, <2>1
<1>4. CASE pc[d] = "claiming" /\ snap'[d] = snap[d]
  <2>1. Reserved(d)' \subseteq Held(d)' \cup snap[d] BY <1>4 DEF Reserved
  <2>2. Reserved(d) = Held(d) \cup snap[d] BY <1>4 DEF Reserved
  <2> QED BY <1>1, <2>1, <2>2
<1> QED BY <1>2, <1>3, <1>4

\* A number that is in somebody's hands is not picked by a claim.
LEMMA ClaimStaysApart ==
  ASSUME ~ClaimRaces, TypeOK, Custody, Firm, PhonesApart, NEW d \in Dispatcher, ClaimSnapshot(d)
  PROVE  PhonesApart'
<1> USE NameAssumption DEF TypeOK, Go
<1>1. PICK n \in 1..BatchSize, E \in Eligible(d) :
        \E S \in Best(E, Least(n, Room(SystemCap, InProgress))) :
          snap' = [snap EXCEPT ![d] = S]
  BY DEF ClaimSnapshot
<1>2. PICK S \in Best(E, Least(n, Room(SystemCap, InProgress))) :
        snap' = [snap EXCEPT ![d] = S]
  BY <1>1
<1>3. /\ pc[d] = "planned" /\ pc' = [pc EXCEPT ![d] = "claiming"]
      /\ UNCHANGED <<held, current>>
      /\ \A e \in Dispatcher : pc[e] # "claiming"
  BY DEF ClaimSnapshot, Quiet
<1>4. \A e \in Dispatcher : Held(e)' = Held(e) BY <1>3 DEF Held
<1>5. Held(d) = {} BY <1>3 DEF Held, Custody, AtRow
<1>6. Reserved(d)' = S BY <1>2, <1>3, <1>4, <1>5 DEF Reserved
<1>7. ASSUME NEW e \in Dispatcher, e # d
      PROVE  Reserved(e)' = Held(e) /\ Reserved(e) = Held(e)
  BY <1>3, <1>4, <1>7 DEF Reserved
<1>8. ASSUME NEW c \in S, NEW e \in Dispatcher, e # d, NEW b \in Held(e)
      PROVE  Apart(b, c) /\ Apart(c, b)
  <2>1. c \in DueFor(d) BY PickedIsDue
  <2>2. ~PhoneBusy(c) BY <2>1 DEF DueFor
  <2>3. b \in InProgress BY DEF Firm, InProgress, Held
  <2> QED BY <2>2, <2>3 DEF PhoneBusy, Apart
<1>9. ASSUME NEW e \in Dispatcher, NEW f \in Dispatcher, e # f,
             NEW b \in Reserved(e)', NEW c \in Reserved(f)'
      PROVE  Apart(b, c)
  <2>1. CASE e = d BY <2>1, <1>6, <1>7, <1>8, <1>9
  <2>2. CASE f = d BY <2>2, <1>6, <1>7, <1>8, <1>9
  <2>3. CASE e # d /\ f # d BY <2>3, <1>7, <1>9 DEF PhonesApart
  <2> QED BY <2>1, <2>2, <2>3
<1> QED BY <1>9 DEF PhonesApart, Apart

LEMMA ApartKept ==
  ASSUME ~ClaimRaces, ~CancelInFlight
  PROVE  Spec => []PhonesApart
<1>1. Init => PhonesApart BY DEF Init, PhonesApart, Reserved, Held
<1>2. ASSUME TypeOK, Custody, Firm, PhonesApart, [Next]_vars PROVE PhonesApart'
  <2>1. CASE \E d \in Dispatcher : ClaimSnapshot(d) BY <1>2, <2>1, ClaimStaysApart
  <2>2. CASE \A d \in Dispatcher : Reserved(d)' \subseteq Reserved(d)
    BY <1>2, <2>2 DEF PhonesApart, Apart
  <2> QED BY <1>2, <2>1, <2>2, ReservedStep
<1> QED BY <1>1, <1>2, TypeCorrect, CustodyKept, FirmKept, PTL DEF Spec

\* Two runs are never placing a call to one phone number at a time
\* (scheduling-architecture.md: the safeguards that keep us from dialing the
\* same person twice in parallel), as long as claims are atomic and staff do
\* not cancel what is in progress.
THEOREM NumbersApart ==
  ASSUME ~ClaimRaces, ~CancelInFlight
  PROVE  Spec => []NoParallelDial
<1>1. ASSUME TypeOK, PhonesApart PROVE NoParallelDial
  <2> SUFFICES ASSUME NEW d \in Dispatcher, NEW e \in Dispatcher, d # e,
                      Dialing(d), Dialing(e)
               PROVE  \/ Row[current[d]].phone # Row[current[e]].phone
                      \/ Row[current[d]].phone = NoPhone
    BY DEF NoParallelDial
  <2>1. /\ current[d] \in Reserved(d) /\ current[e] \in Reserved(e)
    BY <1>1 DEF Reserved, Held, Dialing, TypeOK, AtRow
  <2> QED BY <1>1, <2>1 DEF PhonesApart, Apart
<1> QED BY <1>1, TypeCorrect, ApartKept, PTL

-----------------------------------------------------------------------------
(* The caps.                                                               *)

\* The rows S may be in progress at a time.
Fit(S) ==
  /\ Cardinality(S) <= SystemCap
  /\ \A t \in Tenant : Cardinality(OfTenant(S, t)) <= TenantCap[t]

\* What is in progress fits, and so does what a claim adds.
Capped ==
  /\ Fit(InProgress)
  /\ \A d \in Dispatcher :
       pc[d] = "claiming" => snap[d] = {} \/ Fit(InProgress \cup snap[d])

\* What is picked to fill the room that S leaves fits in beside S.
LEMMA RoomFits ==
  ASSUME NEW S, NEW T, IsFiniteSet(S), IsFiniteSet(T), NEW cap \in Nat,
         Cardinality(S) <= cap, Cardinality(T) <= Room(cap, S)
  PROVE  Cardinality(S \cup T) <= cap
<1>1. /\ Cardinality(S \cup T) = Cardinality(S) + Cardinality(T) - Cardinality(S \cap T)
      /\ IsFiniteSet(S \cap T)
  BY FS_Union, FS_Intersection
<1>2. Cardinality(S) \in Nat /\ Cardinality(T) \in Nat /\ Cardinality(S \cap T) \in Nat
  BY <1>1, FS_CardinalityType
<1> QED BY <1>1, <1>2 DEF Room

\* Fewer rows fit as well.
LEMMA FewerFit ==
  ASSUME NEW S \in SUBSET Call, NEW T \in SUBSET S, Fit(S)
  PROVE  Fit(T)
<1> USE FiniteAssumption, CapAssumption
<1>1. IsFiniteSet(S) BY FS_Subset
<1>2. /\ Cardinality(T) <= Cardinality(S)
      /\ Cardinality(S) \in Nat /\ Cardinality(T) \in Nat
  BY <1>1, FS_Subset, FS_CardinalityType
<1>3. ASSUME NEW t \in Tenant PROVE Cardinality(OfTenant(T, t)) <= TenantCap[t]
  <2>1. /\ OfTenant(T, t) \in SUBSET OfTenant(S, t)
        /\ OfTenant(S, t) \in SUBSET S
    BY DEF OfTenant
  <2>2. IsFiniteSet(OfTenant(S, t)) BY <1>1, <2>1, FS_Subset
  <2>3. /\ Cardinality(OfTenant(T, t)) <= Cardinality(OfTenant(S, t))
        /\ Cardinality(OfTenant(S, t)) \in Nat /\ Cardinality(OfTenant(T, t)) \in Nat
    BY <2>1, <2>2, FS_Subset, FS_CardinalityType
  <2> QED BY <2>3 DEF Fit
<1> QED BY <1>2, <1>3 DEF Fit

\* A claim picks no more than fits.
LEMMA ClaimFits ==
  ASSUME NEW d \in Dispatcher, NEW E \in Eligible(d), NEW n \in 1..BatchSize,
         NEW S \in Best(E, Least(n, Room(SystemCap, InProgress))), Fit(InProgress)
  PROVE  Fit(InProgress \cup S)
<1> USE FiniteAssumption, CapAssumption
<1>1. E \in SUBSET DueFor(d) /\ S \in SUBSET E /\ S \in SUBSET Call
      /\ InProgress \in SUBSET Call
  BY DEF Eligible, Best, DueFor, InProgress
<1>2. IsFiniteSet(S) /\ IsFiniteSet(E) /\ IsFiniteSet(InProgress)
  BY <1>1, FS_Subset DEF DueFor
<1>3. /\ Cardinality(S) \in Nat /\ Cardinality(E) \in Nat /\ Cardinality(InProgress) \in Nat
  BY <1>2, FS_CardinalityType
<1>4. Cardinality(InProgress \cup S) <= SystemCap
  <2>1. Room(SystemCap, InProgress) \in Nat BY <1>3 DEF Room
  <2>2. Cardinality(S) <= Room(SystemCap, InProgress)
    BY <1>3, <2>1 DEF Best, Least
  <2> QED BY <1>2, <2>2, RoomFits DEF Fit
<1>5. ASSUME NEW t \in Tenant PROVE Cardinality(OfTenant(InProgress \cup S, t)) <= TenantCap[t]
  <2> DEFINE I == OfTenant(InProgress, t)
  <2>1. /\ OfTenant(InProgress \cup S, t) = I \cup OfTenant(S, t)
        /\ OfTenant(S, t) \in SUBSET OfTenant(E, t) /\ OfTenant(E, t) \in SUBSET E
        /\ OfTenant(DueFor(d), t) \in SUBSET Call /\ I \in SUBSET InProgress
    BY <1>1 DEF OfTenant, DueFor
  <2>2. /\ IsFiniteSet(OfTenant(E, t)) /\ IsFiniteSet(OfTenant(S, t))
        /\ IsFiniteSet(OfTenant(DueFor(d), t)) /\ IsFiniteSet(I)
    BY <1>2, <2>1, FS_Subset
  <2>3. /\ Cardinality(OfTenant(E, t)) \in Nat /\ Cardinality(OfTenant(S, t)) \in Nat
        /\ Cardinality(OfTenant(DueFor(d), t)) \in Nat /\ Cardinality(I) \in Nat
    BY <2>2, FS_CardinalityType
  <2>4. TenantCap[t] \in Nat OBVIOUS
  <2>5. Room(TenantCap[t], I) \in Nat BY <2>3, <2>4 DEF Room
  <2>6. Cardinality(OfTenant(E, t)) <= Room(TenantCap[t], I)
    BY <2>3, <2>5 DEF Eligible, Best, Least
  <2>7. Cardinality(OfTenant(S, t)) <= Cardinality(OfTenant(E, t))
    BY <2>1, <2>2, FS_Subset
  <2>8. Cardinality(OfTenant(S, t)) <= Room(TenantCap[t], I)
    BY <2>3, <2>5, <2>6, <2>7
  <2>9. Cardinality(I) <= TenantCap[t] BY DEF Fit
  <2> HIDE DEF I
  <2> QED BY <2>1, <2>2, <2>4, <2>8, <2>9, RoomFits
<1> QED BY <1>4, <1>5 DEF Fit

\* Only a claim puts rows in progress.
LEMMA WhoClaims ==
  ASSUME TypeOK, [Next]_vars
  PROVE  \/ InProgress' \subseteq InProgress
         \/ \E d \in Dispatcher : pc[d] = "claiming" /\ InProgress' \subseteq InProgress \cup snap[d]
<1> USE NameAssumption DEF TypeOK, InProgress
<1>1. ASSUME NEW c \in Call, Insert(c) \/ Cancel(c) \/ MarkUnopened(c)
      PROVE  InProgress' \subseteq InProgress
  BY <1>1 DEF Insert, Cancel, MarkUnopened
<1>2. ASSUME NEW j \in Job, ForceCancel(j) PROVE InProgress' \subseteq InProgress
  BY <1>2 DEF ForceCancel
<1>3. ASSUME NEW d \in Dispatcher, StartRun(d) PROVE InProgress' \subseteq InProgress
  <2>1. status' = [b \in Call |-> IF b \in Orphans THEN "pending" ELSE status[b]]
    BY <1>3 DEF StartRun
  <2> QED BY <2>1
<1>4. ASSUME NEW d \in Dispatcher, ClaimApply(d)
      PROVE  pc[d] = "claiming" /\ InProgress' \subseteq InProgress \cup snap[d]
  <2>1. \/ status' = [b \in Call |-> IF b \in snap[d] THEN "in_progress" ELSE status[b]]
        \/ status' = status
    BY <1>4 DEF ClaimApply
  <2> QED BY <1>4, <2>1 DEF ClaimApply
<1>5. ASSUME NEW d \in Dispatcher, Settle(d) PROVE InProgress' \subseteq InProgress
  BY <1>5 DEF Settle
<1>6. ASSUME NEW d \in Dispatcher, NEW c \in Call, Gate(d, c) PROVE InProgress' \subseteq InProgress
  BY <1>6 DEF Gate
<1>7. ASSUME NEW d \in Dispatcher, Complete(d) PROVE InProgress' \subseteq InProgress
  BY <1>7 DEF Complete
<1>8. ASSUME NEW d \in Dispatcher, FailOrRetry(d) PROVE InProgress' \subseteq InProgress
  BY <1>8 DEF FailOrRetry
<1>9. ASSUME \/ \E c \in Call : MakeDue(c) \/ Lapse(c)
             \/ \E t \in Tenant : OpenWindow(t) \/ CloseWindow(t)
             \/ \E d \in Dispatcher : \/ Plan(d) \/ ClaimSnapshot(d) \/ ContactFails(d)
                                      \/ PlaceCall(d) \/ SendLink(d) \/ CompleteFails(d)
                                      \/ FinishRun(d) \/ Crash(d)
             \/ UNCHANGED vars
      PROVE  status' = status
  BY <1>9 DEF MakeDue, Lapse, OpenWindow, CloseWindow, Plan, ClaimSnapshot, ContactFails,
              PlaceCall, SendLink, CompleteFails, FinishRun, Crash, vars, table
<1> QED BY <1>1, <1>2, <1>3, <1>4, <1>5, <1>6, <1>7, <1>8, <1>9 DEF Next, Step

\* All runs together keep to the caps.
LEMMA CapsKept ==
  ASSUME ~ClaimRaces
  PROVE  Spec => []Capped
<1>1. Init => Capped
  <2>1. ASSUME Init PROVE Fit(InProgress)
    <3>1. InProgress = {} /\ \A t \in Tenant : OfTenant(InProgress, t) = {}
      BY <2>1 DEF Init, InProgress, OfTenant
    <3> QED BY <3>1, FS_EmptySet, CapAssumption DEF Fit
  <2> QED BY <2>1 DEF Init, Capped
<1>2. ASSUME TypeOK, Custody, Capped, [Next]_vars PROVE Capped'
  <2>1. InProgress \in SUBSET Call /\ \A d \in Dispatcher : snap[d] \in SUBSET Call
    BY <1>2 DEF InProgress, TypeOK
  <2>2. Fit(InProgress')
    <3>1. CASE InProgress' \subseteq InProgress BY <1>2, <2>1, <3>1, FewerFit DEF Capped
    <3>2. ASSUME NEW d \in Dispatcher, pc[d] = "claiming",
                 InProgress' \subseteq InProgress \cup snap[d]
          PROVE  Fit(InProgress')
      <4>1. Fit(InProgress \cup snap[d])
        <5>1. snap[d] = {} => InProgress \cup snap[d] = InProgress OBVIOUS
        <5> QED BY <1>2, <3>2, <5>1 DEF Capped
      <4> QED BY <2>1, <3>2, <4>1, FewerFit
    <3> QED BY <1>2, <3>1, <3>2, WhoClaims
  <2>3. ASSUME NEW d \in Dispatcher, pc'[d] = "claiming"
        PROVE  snap'[d] = {} \/ Fit(InProgress' \cup snap'[d])
    <3>1. CASE ClaimSnapshot(d)
      <4>1. PICK n \in 1..BatchSize, E \in Eligible(d) :
              \E S \in Best(E, Least(n, Room(SystemCap, InProgress))) :
                snap' = [snap EXCEPT ![d] = S]
        BY <3>1 DEF ClaimSnapshot
      <4>2. PICK S \in Best(E, Least(n, Room(SystemCap, InProgress))) :
              snap' = [snap EXCEPT ![d] = S]
        BY <4>1
      <4>3. snap'[d] = S BY <1>2, <4>2 DEF TypeOK
      <4>4. InProgress' = InProgress BY <3>1 DEF ClaimSnapshot, table, InProgress
      <4> QED BY <1>2, <4>3, <4>4, ClaimFits DEF Capped
    <3>2. CASE pc[d] = "claiming" /\ snap'[d] = snap[d]
      <4>1. \A e \in Dispatcher : pc[e] = "claiming" => e = d BY <1>2, <3>2 DEF Custody
      <4>2. InProgress' \cup snap'[d] \subseteq InProgress \cup snap[d]
        BY <1>2, <3>2, <4>1, WhoClaims
      <4> QED BY <1>2, <2>1, <3>2, <4>2, FewerFit DEF Capped
    <3> QED BY <1>2, <2>3, <3>1, <3>2, ClaimsStep
  <2>4. Fit(InProgress)' <=> Fit(InProgress') BY DEF Fit, OfTenant
  <2>5. \A d \in Dispatcher : Fit(InProgress \cup snap[d])' <=> Fit(InProgress' \cup snap'[d])
    BY DEF Fit, OfTenant
  <2> QED BY <2>2, <2>3, <2>4, <2>5 DEF Capped
<1> QED BY <1>1, <1>2, TypeCorrect, CustodyKept, PTL DEF Spec

-----------------------------------------------------------------------------
(* The refinement.                                                         *)

\* No more contacts are lost than were made, and one that is still to be
\* recorded is not lost.
Recorded ==
  /\ \A c \in Call : lost[c] <= dials[c]
  /\ \A d \in Dispatcher : pc[d] = "placed" => lost[current[d]] < dials[current[d]]

\* Contacting, and losing the record of it, keep that.
LEMMA RecordStep ==
  ASSUME TypeOK, Custody, Recorded, NEW d \in Dispatcher,
         PlaceCall(d) \/ SendLink(d) \/ CompleteFails(d) \/ Crash(d)
  PROVE  Recorded'
<1> USE NameAssumption DEF TypeOK, Go
<1>1. CASE PlaceCall(d) \/ SendLink(d)
  <2>1. PICK c \in Call : c = current[d]
    BY <1>1, InHand DEF PlaceCall, SendLink, AtRow
  <2>2. /\ pc' = [pc EXCEPT ![d] = "placed"] /\ dials' = [dials EXCEPT ![c] = @ + 1]
        /\ lost' = lost /\ current' = current
    BY <1>1, <2>1 DEF PlaceCall, SendLink
  <2>3. \A b \in Call : /\ dials[b] \in Nat /\ lost[b] \in Nat /\ dials'[b] \in Nat
                        /\ dials[b] <= dials'[b]
    BY <2>2
  <2>4. dials'[c] = dials[c] + 1 BY <2>2
  <2>5. ASSUME NEW e \in Dispatcher, pc'[e] = "placed"
        PROVE  lost'[current'[e]] < dials'[current'[e]]
    <3>1. CASE e = d BY <2>1, <2>2, <2>3, <2>4, <3>1 DEF Recorded
    <3>2. CASE e # d
      <4>1. pc[e] = "placed" /\ current[e] \in Call BY <2>2, <2>5, <3>2 DEF AtRow
      <4> QED BY <2>2, <2>3, <4>1 DEF Recorded
    <3> QED BY <3>1, <3>2
  <2>6. \A b \in Call : lost'[b] <= dials'[b] BY <2>2, <2>3 DEF Recorded
  <2> QED BY <2>5, <2>6 DEF Recorded
<1>2. CASE CompleteFails(d) \/ (Crash(d) /\ pc[d] = "placed")
  <2>1. pc[d] = "placed" /\ pc[d] \in AtRow BY <1>2 DEF CompleteFails, AtRow
  <2>2. PICK c \in Call : c = current[d] BY <2>1, InHand
  <2>3. /\ lost'[c] = lost[c] + 1 /\ \A b \in Call \ {c} : lost'[b] = lost[b]
        /\ dials' = dials /\ pc'[d] # "placed"
        /\ \A e \in Dispatcher \ {d} : pc'[e] = pc[e] /\ current'[e] = current[e]
    <3>1. CASE CompleteFails(d) BY <3>1, <2>2 DEF CompleteFails
    <3>2. CASE Crash(d) /\ pc[d] = "placed" BY <3>2, <2>2 DEF Crash, Abort
    <3> QED BY <1>2, <3>1, <3>2
  <2>4. \A b \in Call : dials[b] \in Nat /\ lost[b] \in Nat OBVIOUS
  <2>5. lost[c] < dials[c] BY <2>1, <2>2 DEF Recorded
  <2>6. \A b \in Call : lost'[b] <= dials'[b] BY <2>3, <2>4, <2>5 DEF Recorded
  <2>7. ASSUME NEW e \in Dispatcher, pc'[e] = "placed"
        PROVE  lost'[current'[e]] < dials'[current'[e]]
    <3>1. e # d BY <2>3, <2>7
    <3>2. pc[e] = "placed" /\ current'[e] = current[e] BY <2>3, <2>7, <3>1
    <3>3. current[e] \in Call /\ current[e] # c
      BY <2>1, <2>2, <3>1, <3>2, InHand DEF AtRow
    <3> QED BY <2>3, <3>2, <3>3 DEF Recorded
  <2> QED BY <2>6, <2>7 DEF Recorded
<1>3. CASE Crash(d) /\ pc[d] # "placed"
  <2>1. lost' = lost /\ dials' = dials BY <1>3 DEF Crash
  <2>2. \A e \in Dispatcher : pc'[e] = "placed" => pc[e] = "placed" /\ current'[e] = current[e]
    BY <1>3 DEF Crash, Abort
  <2> QED BY <2>1, <2>2 DEF Recorded
<1> QED BY <1>1, <1>2, <1>3

LEMMA RecordsKept ==
  ASSUME ~ClaimRaces
  PROVE  Spec => []Recorded
<1>1. Init => Recorded BY DEF Init, Recorded
<1>2. ASSUME TypeOK, Custody, Recorded, [Next]_vars PROVE Recorded'
  <2> USE <1>2
  <2>1. ASSUME UNCHANGED <<dials, lost>>,
               \A e \in Dispatcher :
                 pc'[e] = "placed" => pc[e] = "placed" /\ current'[e] = current[e]
        PROVE  Recorded'
    BY <2>1 DEF Recorded
  <2>2. ASSUME NEW d \in Dispatcher,
               StartRun(d) \/ (Step(d) /\ ~PlaceCall(d) /\ ~SendLink(d) /\ ~CompleteFails(d))
        PROVE  /\ UNCHANGED <<dials, lost>>
               /\ \A e \in Dispatcher :
                    pc'[e] = "placed" => pc[e] = "placed" /\ current'[e] = current[e]
    <3> USE DEF TypeOK, Go
    <3>1. CASE StartRun(d) \/ Plan(d) \/ ClaimSnapshot(d) \/ ContactFails(d)
      BY <3>1 DEF StartRun, Plan, ClaimSnapshot, ContactFails, past
    <3>2. CASE ClaimApply(d)
      <4>1. UNCHANGED <<dials, lost>> BY <3>2 DEF ClaimApply, past
      <4>2. (pc' = [pc EXCEPT ![d] = "claimed"] /\ current' = current) \/ Abort(d)
        BY <3>2 DEF ClaimApply
      <4> QED BY <4>1, <4>2 DEF Abort
    <3>3. CASE Settle(d)
      <4>1. UNCHANGED <<dials, lost>> BY <3>3 DEF Settle, past
      <4>2. (pc' = [pc EXCEPT ![d] = "running"] /\ current' = current) \/ Abort(d)
        BY <3>3 DEF Settle
      <4> QED BY <4>1, <4>2 DEF Abort
    <3>4. ASSUME NEW c \in Call, Gate(d, c)
          PROVE  /\ UNCHANGED <<dials, lost>>
                 /\ \A e \in Dispatcher :
                      pc'[e] = "placed" => pc[e] = "placed" /\ current'[e] = current[e]
      BY <3>4 DEF Gate, Take, past
    <3>5. CASE Complete(d) BY <3>5 DEF Complete, Drop, past
    <3>6. CASE FailOrRetry(d)
      <4>1. UNCHANGED <<dials, lost>> BY <3>6 DEF FailOrRetry, past
      <4>2. Drop(d, "running") \/ Abort(d) BY <3>6 DEF FailOrRetry
      <4> QED BY <4>1, <4>2 DEF Drop, Abort
    <3>7. CASE FinishRun(d) BY <3>7 DEF FinishRun, Abort, past
    <3> QED BY <2>2, <3>1, <3>2, <3>3, <3>4, <3>5, <3>6, <3>7 DEF Step
  <2>3. ASSUME \/ \E c \in Call : \/ Insert(c) \/ Cancel(c) \/ MarkUnopened(c)
                                  \/ MakeDue(c) \/ Lapse(c)
               \/ \E j \in Job : ForceCancel(j)
               \/ \E t \in Tenant : OpenWindow(t) \/ CloseWindow(t)
               \/ UNCHANGED vars
        PROVE  UNCHANGED <<dials, lost, pc, current>>
    BY <2>3 DEF Insert, Cancel, MarkUnopened, MakeDue, Lapse, ForceCancel, OpenWindow,
                CloseWindow, vars, run, past
  <2>4. ASSUME NEW d \in Dispatcher, StartRun(d) \/ Step(d) \/ Crash(d) PROVE Recorded'
    BY <2>1, <2>2, <2>4, RecordStep
  <2> QED BY <2>1, <2>3, <2>4 DEF Next
<1> QED BY <1>1, <1>2, TypeCorrect, CustodyKept, PTL DEF Spec

\* How the states of a row look from outside.
LEMMA Stages ==
  /\ Stage("absent") = "absent" /\ Stage("pending") = "waiting"
  /\ Stage("in_progress") = "working"
  /\ \A s \in Final : Stage(s) = "settled"
BY DEF Stage, Final

\* A step that changes the stage of the rows S and nothing else to be seen.
LEMMA Moved ==
  ASSUME NEW S \in SUBSET Call, NEW from, NEW to,
         \A c \in S : Stage(status[c]) \in from,
         \A c \in Call : Stage(status'[c]) = IF c \in S THEN to ELSE Stage(status[c]),
         UNCHANGED <<dials, lost>>
  PROVE  Promise!Move(S, from, to)
BY DEF Promise!Move

\* A step that nobody outside sees.
LEMMA Unseen ==
  ASSUME \A c \in Call : Stage(status'[c]) = Stage(status[c]), UNCHANGED <<dials, lost>>
  PROVE  UNCHANGED Promise!promiseVars
BY DEF Promise!promiseVars

\* Both modules count alike.
LEMMA SameCount == \A S : Promise!Cardinality(S) = Cardinality(S)
BY DEF Promise!Cardinality, Cardinality

\* The rows worked on are those in progress.
LEMMA Working ==
  ASSUME TypeOK
  PROVE  Promise!At("working") = InProgress
BY DEF Promise!At, InProgress, TypeOK, Status, Final, Stage

\* What staff, the sweeps and the clock do is offering, concluding or unseen.
LEMMA OutsideRefines ==
  ASSUME TypeOK,
         \/ \E c \in Call : \/ Insert(c) \/ Cancel(c) \/ MarkUnopened(c)
                            \/ MakeDue(c) \/ Lapse(c)
         \/ \E j \in Job : ForceCancel(j)
         \/ \E t \in Tenant : OpenWindow(t) \/ CloseWindow(t)
         \/ UNCHANGED vars
  PROVE  Promise!PromiseNext \/ UNCHANGED Promise!promiseVars
<1> USE Stages DEF TypeOK, past
<1>1. ASSUME NEW c \in Call, Insert(c) PROVE Promise!PromiseNext
  <2>1. /\ status[c] = "absent" /\ status' = [status EXCEPT ![c] = "pending"]
        /\ NoConflict(Active \cup {c}) /\ UNCHANGED <<dials, lost>>
    BY <1>1 DEF Insert, Admits
  <2>2. Promise!Move({c}, {"absent"}, "waiting") BY <2>1, Moved
  <2>3. ASSUME NEW a \in Call, Stage(status[a]) \in {"waiting", "working"}
        PROVE  ~SameSlot(a, c)
    <3>1. status[a] \in {"pending", "in_progress"} BY <2>3 DEF Stage
    <3>2. a \in Active /\ a # c BY <2>1, <3>1 DEF Active
    <3> QED BY <2>1, <3>2 DEF NoConflict
  <2>4. ~Promise!Contests(c) BY <2>3 DEF Promise!Contests, Promise!At
  <2> QED BY <2>2, <2>4 DEF Promise!Offer, Promise!PromiseNext
<1>2. ASSUME NEW c \in Call, Cancel(c) PROVE Promise!PromiseNext
  <2>1. /\ status[c] \in {"pending", "in_progress"}
        /\ status' = [status EXCEPT ![c] = "cancelled"] /\ UNCHANGED <<dials, lost>>
    BY <1>2 DEF Cancel, Cancellable, Active
  <2>2. Stage(status[c]) \in {"waiting", "working"} /\ Stage("cancelled") = "settled"
    BY <2>1 DEF Final
  <2>3. Promise!Move({c}, {"waiting", "working"}, "settled") BY <2>1, <2>2, Moved
  <2> QED BY <2>3 DEF Promise!Conclude, Promise!PromiseNext
<1>3. ASSUME NEW j \in Job, ForceCancel(j) PROVE Promise!PromiseNext
  <2> DEFINE hit == {c \in Active : Row[c].job = j}
  <2>1. /\ hit \in SUBSET Call /\ \A c \in hit : status[c] \in {"pending", "in_progress"}
        /\ status' = [c \in Call |-> IF c \in hit THEN "cancelled" ELSE status[c]]
        /\ UNCHANGED <<dials, lost>>
    BY <1>3 DEF ForceCancel, Active
  <2>2. /\ \A c \in hit : Stage(status[c]) \in {"waiting", "working"}
        /\ Stage("cancelled") = "settled"
    BY <2>1 DEF Final
  <2>3. \A c \in Call : Stage(status'[c]) = IF c \in hit THEN "settled" ELSE Stage(status[c])
    BY <2>1, <2>2
  <2> HIDE DEF hit
  <2>4. Promise!Move(hit, {"waiting", "working"}, "settled") BY <2>1, <2>2, <2>3, Moved
  <2> QED BY <2>1, <2>4 DEF Promise!Conclude, Promise!PromiseNext
<1>4. ASSUME NEW c \in Call, MarkUnopened(c) PROVE UNCHANGED Promise!promiseVars
  <2>1. /\ status[c] = "completed" /\ status' = [status EXCEPT ![c] = "failed"]
        /\ UNCHANGED <<dials, lost>>
    BY <1>4 DEF MarkUnopened
  <2>2. Stage("completed") = "settled" /\ Stage("failed") = "settled" BY DEF Final
  <2> QED BY <2>1, <2>2, Unseen
<1>5. ASSUME \/ \E c \in Call : MakeDue(c) \/ Lapse(c)
             \/ \E t \in Tenant : OpenWindow(t) \/ CloseWindow(t)
             \/ UNCHANGED vars
      PROVE  UNCHANGED Promise!promiseVars
  <2>1. UNCHANGED <<status, dials, lost>>
    BY <1>5 DEF MakeDue, Lapse, OpenWindow, CloseWindow, vars, table
  <2> QED BY <2>1, Unseen
<1> QED BY <1>1, <1>2, <1>3, <1>4, <1>5

\* Claiming works on what fits; reaping, deduplicating, closed offices and
\* retries put back; an outcome concludes.
LEMMA RowsRefine ==
  ASSUME ~CancelInFlight, TypeOK, Custody, Firm, Capped, NEW d \in Dispatcher,
         \/ StartRun(d) \/ ClaimApply(d) \/ Settle(d) \/ \E c \in Call : Gate(d, c)
         \/ Complete(d) \/ FailOrRetry(d)
  PROVE  Promise!PromiseNext \/ UNCHANGED Promise!promiseVars
<1> USE Stages DEF TypeOK, past
<1>0. ASSUME NEW S \in SUBSET Call, \A c \in S : status[c] = "in_progress",
             \A c \in Call : status'[c] = IF c \in S THEN "pending" ELSE status[c],
             UNCHANGED <<dials, lost>>
      PROVE  Promise!PromiseNext
  <2>1. Promise!Move(S, {"working"}, "waiting") BY <1>0, Moved
  <2> QED BY <2>1 DEF Promise!PromiseNext, Promise!PutBack
<1>1. CASE UNCHANGED <<status, dials, lost>> BY <1>1, Unseen
<1>2. CASE StartRun(d)
  <2>1. /\ Orphans \in SUBSET Call /\ \A c \in Orphans : status[c] = "in_progress"
        /\ status' = [c \in Call |-> IF c \in Orphans THEN "pending" ELSE status[c]]
        /\ UNCHANGED <<dials, lost>>
    BY <1>2 DEF StartRun, Orphans, InProgress
  <2> QED BY <2>1, <1>0
<1>3. CASE ClaimApply(d)
  <2>1. CASE status' = status BY <1>1, <1>3, <2>1 DEF ClaimApply
  <2>2. CASE status' = [c \in Call |-> IF c \in snap[d] THEN "in_progress" ELSE status[c]]
    <3>1. /\ pc[d] = "claiming" /\ snap[d] \in SUBSET Call
          /\ \A c \in snap[d] : status[c] = "pending" /\ UNCHANGED <<dials, lost>>
      BY <1>3 DEF ClaimApply, Custody
    <3>2. UNCHANGED <<dials, lost>> BY <1>3 DEF ClaimApply
    <3>3. CASE snap[d] = {}
      <4>1. \A c \in Call : status'[c] = status[c] BY <2>2, <3>3
      <4> QED BY <3>2, <4>1, Unseen
    <3>4. CASE Fit(InProgress \cup snap[d])
      <4>1. Promise!Move(snap[d], {"waiting"}, "working")
        BY <2>2, <3>1, <3>2, Moved
      <4>2. InProgress \cup snap[d] \in SUBSET Call BY <3>1 DEF InProgress
      <4>3. \A t \in Tenant :
              {c \in InProgress \cup snap[d] : [b \in Call |-> Row[b].tenant][c] = t}
                = OfTenant(InProgress \cup snap[d], t)
        BY <4>2 DEF OfTenant
      <4>4. Promise!Fits(InProgress \cup snap[d])
        BY <3>4, <4>3, SameCount DEF Fit, Promise!Fits
      <4>5. Promise!WorkOn(snap[d]) BY <4>1, <4>4, Working DEF Promise!WorkOn
      <4> QED BY <3>1, <4>5 DEF Promise!PromiseNext
    <3> QED BY <3>1, <3>3, <3>4 DEF Capped
  <2> QED BY <1>3, <2>1, <2>2 DEF ClaimApply
<1>4. CASE Settle(d)
  <2>1. PICK W \in Winners(held[d]) :
          \/ status' = [c \in Call |-> IF c \in held[d] \ W THEN "pending" ELSE status[c]]
          \/ status' = status
    BY <1>4 DEF Settle
  <2>2. /\ held[d] \ W \in SUBSET Call /\ UNCHANGED <<dials, lost>>
        /\ \A c \in held[d] \ W : status[c] = "in_progress"
    BY <1>4 DEF Settle, Firm, Held
  <2>3. CASE status' = status BY <1>1, <2>2, <2>3
  <2> DEFINE S == held[d] \ W
  <2>4. S \in SUBSET Call /\ \A c \in S : status[c] = "in_progress" BY <2>2
  <2>5. CASE status' = [c \in Call |-> IF c \in S THEN "pending" ELSE status[c]]
    <3> HIDE DEF S
    <3> QED BY <1>0, <2>2, <2>4, <2>5
  <2> QED BY <2>1, <2>3, <2>5
<1>5. ASSUME NEW c \in Call, Gate(d, c)
      PROVE  Promise!PromiseNext \/ UNCHANGED Promise!promiseVars
  <2>1. /\ UNCHANGED <<dials, lost>> /\ status[c] = "in_progress"
        /\ status' = status \/ status' = [status EXCEPT ![c] = "pending"]
    BY <1>5 DEF Gate, Firm, Held
  <2>2. CASE status' = [status EXCEPT ![c] = "pending"]
    <3>0. {c} \in SUBSET Call /\ \A b \in {c} : status[b] = "in_progress" BY <2>1
    <3>1. \A b \in Call : status'[b] = IF b \in {c} THEN "pending" ELSE status[b] BY <2>2
    <3> QED BY <1>0, <2>1, <3>0, <3>1
  <2> QED BY <1>1, <2>1, <2>2
<1>6. CASE Complete(d) \/ FailOrRetry(d)
  <2>1. PICK c \in Call : c = current[d] /\ c \in Held(d)
    BY <1>6, InHand DEF Complete, FailOrRetry, AtRow
  <2>2. /\ UNCHANGED <<dials, lost>> /\ status[c] = "in_progress"
        /\ \/ status' = status \/ status' = [status EXCEPT ![c] = "pending"]
           \/ status' = [status EXCEPT ![c] = "completed"]
           \/ status' = [status EXCEPT ![c] = "failed"]
    BY <1>6, <2>1 DEF Complete, FailOrRetry, Firm
  <2>3. CASE status' = [status EXCEPT ![c] = "pending"]
    <3>0. {c} \in SUBSET Call /\ \A b \in {c} : status[b] = "in_progress" BY <2>2
    <3>1. \A b \in Call : status'[b] = IF b \in {c} THEN "pending" ELSE status[b] BY <2>3
    <3> QED BY <1>0, <2>2, <3>0, <3>1
  <2>4. ASSUME NEW s \in {"completed", "failed"}, status' = [status EXCEPT ![c] = s]
        PROVE  Promise!PromiseNext
    <3>1. Stage(s) = "settled" BY <2>4 DEF Final
    <3>2. Promise!Move({c}, {"waiting", "working"}, "settled")
      BY <2>2, <2>4, <3>1, Moved
    <3> QED BY <3>2 DEF Promise!PromiseNext, Promise!Conclude
  <2> QED BY <1>1, <2>2, <2>3, <2>4
<1> QED BY <1>2, <1>3, <1>4, <1>5, <1>6

\* A contact is made when all before it went unrecorded, and recorded or lost.
LEMMA ContactsRefine ==
  ASSUME TypeOK, Custody, Firm, Contacted, Recorded, NEW d \in Dispatcher,
         \/ PlaceCall(d) \/ SendLink(d) \/ CompleteFails(d) \/ Crash(d)
         \/ Plan(d) \/ ClaimSnapshot(d) \/ ContactFails(d) \/ FinishRun(d)
  PROVE  Promise!PromiseNext \/ UNCHANGED Promise!promiseVars
<1> USE Stages DEF TypeOK
<1>1. CASE PlaceCall(d) \/ SendLink(d)
  <2>1. PICK c \in Call : /\ c = current[d] /\ c \in Held(d) /\ InPlay(c)
                         /\ \A e \in Dispatcher : current[e] = c => e = d
    BY <1>1, InHand DEF PlaceCall, SendLink, AtRow
  <2>2. /\ pc[d] = "dialing" /\ dials' = [dials EXCEPT ![c] = @ + 1]
        /\ UNCHANGED <<status, lost>>
    BY <1>1, <2>1 DEF PlaceCall, SendLink, table
  <2>3. ~Placed(c) BY <2>1, <2>2 DEF Placed
  <2>4. dials[c] = lost[c] BY <2>1, <2>3 DEF Contacted, Recorded
  <2>5. status[c] = "in_progress" BY <2>1 DEF Firm
  <2>6. Promise!Reach(c) BY <2>2, <2>4, <2>5 DEF Promise!Reach
  <2> QED BY <2>6 DEF Promise!PromiseNext
<1>2. CASE CompleteFails(d) \/ (Crash(d) /\ pc[d] = "placed")
  <2>0. pc[d] = "placed" BY <1>2 DEF CompleteFails
  <2>1. PICK c \in Call : c = current[d] /\ c \in Held(d) BY <2>0, InHand DEF AtRow
  <2>2. /\ lost' = [lost EXCEPT ![c] = @ + 1] /\ UNCHANGED <<status, dials>>
    <3>1. CASE CompleteFails(d) BY <3>1, <2>1 DEF CompleteFails, table
    <3>2. CASE Crash(d) /\ pc[d] = "placed"
      <4>1. lost' = [b \in Call |-> IF b = c THEN lost[b] + 1 ELSE lost[b]]
        BY <3>2, <2>1 DEF Crash
      <4> QED BY <3>2, <4>1 DEF Crash, table
    <3> QED BY <1>2, <3>1, <3>2
  <2>3. lost[c] < dials[c] BY <2>0, <2>1 DEF Recorded
  <2>4. status[c] = "in_progress" BY <2>1 DEF Firm
  <2>5. Promise!LoseRecord(c) BY <2>2, <2>3, <2>4 DEF Promise!LoseRecord
  <2> QED BY <2>5 DEF Promise!PromiseNext
<1>3. CASE \/ Crash(d) /\ pc[d] # "placed"
           \/ Plan(d) \/ ClaimSnapshot(d) \/ ContactFails(d) \/ FinishRun(d)
  <2>1. UNCHANGED <<dials, lost, status>>
    <3>1. CASE Crash(d) /\ pc[d] # "placed" BY <3>1 DEF Crash, table
    <3> QED BY <1>3, <3>1 DEF Plan, ClaimSnapshot, ContactFails, FinishRun, table, past
  <2> QED BY <2>1, Unseen
<1> QED BY <1>1, <1>2, <1>3

\* The queue keeps its promise: claims, leases, retries, crashes and office
\* hours are all means to the abstract steps of QueuePromise, or no step of
\* it, as long as claims are atomic and staff do not cancel what is in progress.
THEOREM Refinement ==
  ASSUME ~ClaimRaces, ~CancelInFlight
  PROVE  Spec => PromiseKept
<1>1. Init => Promise!PromiseInit
  BY Stages DEF Init, Promise!PromiseInit
<1>2. ASSUME TypeOK, Custody, Firm, Capped, Contacted, Recorded, [Next]_vars
      PROVE  [Promise!PromiseNext]_(Promise!promiseVars)
  <2>1. Promise!PromiseNext \/ UNCHANGED Promise!promiseVars
    BY <1>2, OutsideRefines, RowsRefine, ContactsRefine DEF Next, Step
  <2> QED BY <2>1
<1> QED BY <1>1, <1>2, TypeCorrect, CustodyKept, FirmKept, CapsKept, ContactsKept, RecordsKept, PTL
        DEF Spec, PromiseKept, Promise!PromiseSpec

=============================================================================
