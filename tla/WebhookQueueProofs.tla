-------------------------- MODULE WebhookQueueProofs --------------------------
(***************************************************************************)
(* Theorems about WebhookQueue for every set of events, jobs and drains.   *)
(***************************************************************************)
EXTENDS MCWebhookQueue, TLAPS

\* markFailed keeps the type of the status column.
LEMMA MarkFailedType ==
  ASSUME TypeOK, NEW S \in SUBSET Event, MarkFailed(S)
  PROVE  status' \in [Event -> Status]
BY DEF TypeOK, MarkFailed, Status, Settled

\* A drain that returns or dies leaves well-typed local state behind.
LEMMA LeaveType ==
  ASSUME TypeOK, NEW d \in Drain, Leave(d)
  PROVE  /\ pc' \in [Drain -> Point]
         /\ batch' \in [Drain -> SUBSET Event]
         /\ resolved' \in [Drain -> SUBSET Event]
         /\ skipped' \in [Drain -> SUBSET Event]
         /\ failed' \in [Drain -> SUBSET Event]
         /\ got' \in [Drain -> [Job -> SUBSET Event]]
         /\ missed' \in [Drain -> SUBSET Job]
BY DEF TypeOK, Leave, Point, NoJobs

\* No step leaves a drain that has not begun to fetch with job details.
LEMMA UnfetchedStep ==
  ASSUME TypeOK, [Next]_vars
  PROVE  Unfetched'
<1> DEFINE Early == {"idle", "listed", "claimed", "resolving", "marking"}
<1> SUFFICES ASSUME NEW d \in Drain, pc'[d] \in Early
             PROVE  got'[d] = NoJobs /\ missed'[d] = {}
  BY DEF Unfetched
<1> USE DEF TypeOK
<1>1. ASSUME UNCHANGED <<got, missed>>, pc'[d] # pc[d] => pc[d] \in Early
      PROVE  got'[d] = NoJobs /\ missed'[d] = {}
  BY <1>1 DEF Unfetched
<1>2. CASE \E e \in Event : Change(e) \/ Deliver(e) \/ Purge(e) \/ Lapse(e)
  BY <1>1, <1>2 DEF Change, Deliver, Purge, Lapse, drain
<1>3. CASE Disconnect \/ Reconnect
  BY <1>1, <1>3 DEF Disconnect, Reconnect, drain
<1>4. ASSUME NEW c \in Drain, StartDrain(c) \/ Step(c) \/ Crash(c)
      PROVE  got'[d] = NoJobs /\ missed'[d] = {}
  <2>1. CASE StartDrain(c) \/ ClaimPending(c) \/ MarkSkipped(c)
             \/ \E e \in Event : Resolve(c, e)
    BY <1>1, <2>1 DEF StartDrain, ClaimPending, MarkSkipped, Resolve
  <2>2. CASE Leave(c)
    <3>1. d = c => got'[d] = NoJobs /\ missed'[d] = {} BY <2>2 DEF Leave
    <3>2. d # c => pc'[d] = pc[d] /\ got'[d] = got[d] /\ missed'[d] = missed[d]
      BY <2>2 DEF Leave
    <3> QED BY <3>1, <3>2 DEF Unfetched
  <2>3. CASE CheckCredentials(c) \/ MarkUnresolved(c)
    BY <1>1, <2>2, <2>3 DEF CheckCredentials, MarkUnresolved
  <2>4. CASE \E j \in Job : Fetch(c, j)
    <3>1. pc[c] = "fetching" /\ pc' = pc BY <2>4 DEF Fetch
    <3>2. d # c BY <3>1
    <3>3. got'[d] = got[d] /\ missed'[d] = missed[d] BY <2>4, <3>2 DEF Fetch
    <3> QED BY <3>1, <3>3 DEF Unfetched
  <2>5. CASE Write(c) \/ Normalize(c) \/ SyncFails(c)
    <3>1. pc'[c] \notin Early BY <2>5 DEF Write, Normalize, SyncFails
    <3>2. d # c BY <3>1
    <3> QED BY <1>1, <2>5, <3>2 DEF Write, Normalize, SyncFails
  <2>6. CASE GiveBack(c) \/ MarkDone(c) \/ Crash(c)
    BY <2>2, <2>6 DEF GiveBack, MarkDone, Crash
  <2> QED BY <1>4, <2>1, <2>3, <2>4, <2>5, <2>6 DEF Step
<1>5. CASE UNCHANGED vars
  BY <1>1, <1>5 DEF vars, drain
<1> QED BY <1>2, <1>3, <1>4, <1>5 DEF Next

\* Every step of Next keeps the types.
LEMMA TypeStep ==
  ASSUME TypeOK, [Next]_vars
  PROVE  TypeOK'
<1>0. Unfetched' BY UnfetchedStep
<1> USE <1>0
<1> USE EventAssumption DEF TypeOK, Status, Settled, Point
<1>1. ASSUME NEW e \in Event, Change(e) PROVE TypeOK'
  BY <1>1 DEF Change, table, drain, world
<1>2. ASSUME NEW e \in Event, Deliver(e) PROVE TypeOK'
  <2>1. PICK stored \in BOOLEAN, acked \in BOOLEAN :
          /\ status' = IF stored THEN Enqueued(e) ELSE status
          /\ wire' = [wire EXCEPT ![e] = IF acked \/ tries[e] + 1 >= MAX_TRIES
                                         THEN "settled" ELSE @]
    BY <1>2 DEF Deliver
  <2>2. status' \in [Event -> Status] BY <2>1 DEF Enqueued
  <2>3. wire' \in [Event -> {"none", "sending", "settled"}] BY <2>1
  <2>4. /\ tries' = [tries EXCEPT ![e] = @ + 1]
        /\ UNCHANGED <<attempts, stuck, seen, pc, batch, resolved, skipped,
                       failed, got, missed, connected, crashes, outages>>
    BY <1>2 DEF Deliver, drain, world
  <2>5. tries' \in [Event -> Nat] BY <2>4
  <2> QED BY <2>2, <2>3, <2>4, <2>5
<1>3. ASSUME NEW e \in Event, Purge(e) PROVE TypeOK'
  BY <1>3 DEF Purge, sender, drain, world
<1>4. ASSUME NEW e \in Event, Lapse(e) PROVE TypeOK'
  BY <1>4 DEF Lapse, sender, drain, world
<1>5. ASSUME Disconnect \/ Reconnect PROVE TypeOK'
  <2>1. connected' \in BOOLEAN BY <1>5 DEF Disconnect, Reconnect
  <2>2. outages' \in Nat BY <1>5 DEF Disconnect, Reconnect
  <2> QED BY <1>5, <2>1, <2>2 DEF Disconnect, Reconnect, sender, table, drain
<1>6. ASSUME NEW d \in Drain, StartDrain(d) PROVE TypeOK'
  BY <1>6 DEF StartDrain, sender, table, world
<1>7. ASSUME NEW d \in Drain, ClaimPending(d) PROVE TypeOK'
  <2>1. PICK B \in SUBSET Claimable :
          /\ pc' = [pc EXCEPT ![d] = IF B = {} THEN "idle" ELSE "claimed"]
          /\ batch' = [batch EXCEPT ![d] = B]
          /\ status' = [e \in Event |-> IF e \in B THEN "processing" ELSE status[e]]
          /\ attempts' = [e \in Event |-> IF e \in B THEN attempts[e] + 1
                                          ELSE attempts[e]]
          /\ stuck' = [e \in Event |-> stuck[e] /\ e \notin B]
    BY <1>7 DEF ClaimPending
  <2>2. B \subseteq Event BY DEF Claimable
  <2>3. stuck' \in [Event -> BOOLEAN] BY <2>1
  <2>4. attempts' \in [Event -> Nat] BY <2>1
  <2>5. /\ pc' \in [Drain -> Point]
        /\ batch' \in [Drain -> SUBSET Event]
        /\ status' \in [Event -> Status]
    BY <2>1, <2>2
  <2> QED BY <1>7, <2>3, <2>4, <2>5 DEF ClaimPending, sender, world
<1>8. ASSUME NEW d \in Drain, CheckCredentials(d) PROVE TypeOK'
  <2>1. CASE connected
    BY <1>8, <2>1 DEF CheckCredentials, sender, world
  <2>2. CASE ~connected
    BY <1>8, <2>2, MarkFailedType, LeaveType DEF CheckCredentials, sender, world
  <2> QED BY <2>1, <2>2
<1>9. ASSUME NEW d \in Drain, NEW e \in Event, Resolve(d, e) PROVE TypeOK'
  <2>1. batch' \in [Drain -> SUBSET Event] BY <1>9 DEF Resolve
  <2>2. resolved' \in [Drain -> SUBSET Event] BY <1>9 DEF Resolve
  <2>3. skipped' \in [Drain -> SUBSET Event]
    <3>1. CASE skipped' = skipped BY <3>1
    <3>2. CASE skipped' = [skipped EXCEPT ![d] = @ \cup {e}] BY <3>2
    <3> QED BY <1>9, <3>1, <3>2 DEF Resolve
  <2>4. failed' \in [Drain -> SUBSET Event]
    <3>1. CASE failed' = failed BY <3>1
    <3>2. CASE failed' = [failed EXCEPT ![d] = @ \cup {e}] BY <3>2
    <3> QED BY <1>9, <3>1, <3>2 DEF Resolve
  <2> QED BY <1>9, <2>1, <2>2, <2>3, <2>4 DEF Resolve, sender, table, world
<1>10. ASSUME NEW d \in Drain, MarkSkipped(d) PROVE TypeOK'
  BY <1>10 DEF MarkSkipped, sender, world
<1>11. ASSUME NEW d \in Drain, MarkUnresolved(d) PROVE TypeOK'
  <2>1. status' \in [Event -> Status]
    BY <1>11, MarkFailedType DEF MarkUnresolved
  <2>2. CASE resolved[d] = {}
    BY <1>11, <2>1, <2>2, LeaveType DEF MarkUnresolved, sender, world
  <2>3. CASE resolved[d] # {}
    BY <1>11, <2>1, <2>3 DEF MarkUnresolved, sender, world
  <2> QED BY <2>2, <2>3
<1>12. ASSUME NEW d \in Drain, NEW j \in Job, Fetch(d, j) PROVE TypeOK'
  <2>1. Fetched(d, j) \in SUBSET Event BY DEF Fetched, Happened
  <2>2. got' \in [Drain -> [Job -> SUBSET Event]]
    <3>1. CASE got' = [got EXCEPT ![d][j] = Fetched(d, j)]
      <4>1. [got[d] EXCEPT ![j] = Fetched(d, j)] \in [Job -> SUBSET Event]
        BY <2>1
      <4>2. got' = [got EXCEPT ![d] = [got[d] EXCEPT ![j] = Fetched(d, j)]]
        BY <3>1
      <4> QED BY <4>1, <4>2
    <3>2. CASE UNCHANGED got BY <3>2
    <3> QED BY <1>12, <3>1, <3>2 DEF Fetch
  <2>3. missed' \in [Drain -> SUBSET Job] BY <1>12 DEF Fetch
  <2> QED BY <1>12, <2>2, <2>3 DEF Fetch, sender, table, world
<1>13. ASSUME NEW d \in Drain, Write(d) PROVE TypeOK'
  BY <1>13 DEF Write, sender, table, world
<1>14. ASSUME NEW d \in Drain, Normalize(d) \/ SyncFails(d) PROVE TypeOK'
  BY <1>14 DEF Normalize, SyncFails, sender, table, world
<1>15. ASSUME NEW d \in Drain, GiveBack(d) PROVE TypeOK'
  BY <1>15, MarkFailedType, LeaveType DEF GiveBack, sender, world
<1>16. ASSUME NEW d \in Drain, MarkDone(d) PROVE TypeOK'
  <2>1. status' \in [Event -> Status] BY <1>16 DEF MarkDone
  <2> QED BY <1>16, <2>1, LeaveType DEF MarkDone, sender, world
<1>17. ASSUME NEW d \in Drain, Crash(d) PROVE TypeOK'
  BY <1>17, LeaveType DEF Crash, sender, table
<1>18. CASE UNCHANGED vars
  BY <1>18 DEF vars, sender, table, drain, world
<1> QED
  BY <1>1, <1>2, <1>3, <1>4, <1>5, <1>6, <1>7, <1>8, <1>9, <1>10, <1>11, <1>12,
     <1>13, <1>14, <1>15, <1>16, <1>17, <1>18 DEF Next, Step

\* Type correctness of the queue and of its drains.
THEOREM HookTypes == Spec => []TypeOK
<1>1. Init => TypeOK
  BY BoundAssumption DEF Init, TypeOK, Unfetched, Status, Point, NoJobs
<1>2. TypeOK /\ [Next]_vars => TypeOK'
  BY TypeStep
<1> QED BY <1>1, <1>2, PTL DEF Spec

-----------------------------------------------------------------------------
(* Who holds an event.                                                     *)

\* The lists of a drain share no event: each claimed event is still to be
\* resolved, or was put on one of the three lists.
Sorted ==
  \A d \in Drain :
    /\ batch[d] \cap (resolved[d] \cup skipped[d] \cup failed[d]) = {}
    /\ resolved[d] \cap (skipped[d] \cup failed[d]) = {}
    /\ skipped[d] \cap failed[d] = {}

\* Every step of Next keeps the lists apart; a claim starts with empty hands.
LEMMA SortedStep ==
  ASSUME TypeOK, EventCustody, Sorted, [Next]_vars
  PROVE  Sorted'
<1> USE DEF Sorted, TypeOK
<1>1. CASE UNCHANGED <<batch, resolved, skipped, failed>>
  BY <1>1
<1>2. ASSUME NEW d \in Drain, ClaimPending(d) PROVE Sorted'
  <2>1. PICK B \in SUBSET Claimable : batch' = [batch EXCEPT ![d] = B]
    BY <1>2 DEF ClaimPending
  <2>2. UNCHANGED <<resolved, skipped, failed>> BY <1>2 DEF ClaimPending
  <2>3. resolved[d] = {} /\ skipped[d] = {} /\ failed[d] = {}
    BY <1>2 DEF ClaimPending, EventCustody, Hand
  <2> QED BY <2>1, <2>2, <2>3
<1>3. ASSUME NEW d \in Drain, Leave(d) PROVE Sorted'
  BY <1>3 DEF Leave
<1>4. ASSUME NEW d \in Drain, NEW e \in Event, Resolve(d, e) PROVE Sorted'
  BY <1>4 DEF Resolve
<1>5. ASSUME NEW d \in Drain, MarkSkipped(d) PROVE Sorted'
  BY <1>5 DEF MarkSkipped
<1>6. ASSUME NEW d \in Drain, MarkUnresolved(d) PROVE Sorted'
  <2>1. CASE resolved[d] = {} BY <1>3, <1>6, <2>1 DEF MarkUnresolved
  <2>2. CASE resolved[d] # {} BY <1>6, <2>2 DEF MarkUnresolved
  <2> QED BY <2>1, <2>2
<1>7. ASSUME NEW d \in Drain, CheckCredentials(d) PROVE Sorted'
  BY <1>1, <1>3, <1>7 DEF CheckCredentials
<1>8. ASSUME NEW d \in Drain,
             StartDrain(d) \/ Write(d) \/ Normalize(d) \/ SyncFails(d)
               \/ \E j \in Job : Fetch(d, j)
      PROVE  UNCHANGED <<batch, resolved, skipped, failed>>
  BY <1>8 DEF StartDrain, Write, Normalize, SyncFails, Fetch
<1>9. ASSUME NEW d \in Drain, GiveBack(d) \/ MarkDone(d) \/ Crash(d)
      PROVE  Sorted'
  BY <1>3, <1>9 DEF GiveBack, MarkDone, Crash
<1>10. ASSUME \/ \E e \in Event : Change(e) \/ Deliver(e) \/ Purge(e) \/ Lapse(e)
              \/ Disconnect \/ Reconnect \/ UNCHANGED vars
       PROVE  UNCHANGED <<batch, resolved, skipped, failed>>
  BY <1>10 DEF Change, Deliver, Purge, Lapse, Disconnect, Reconnect, vars, drain
<1> QED
  BY <1>1, <1>2, <1>4, <1>5, <1>6, <1>7, <1>8, <1>9, <1>10 DEF Next, Step

\* A drain that leaves holds nothing, and no other drain's hand changes.
LEMMA LeaveHands ==
  ASSUME TypeOK, NEW d \in Drain, Leave(d)
  PROVE  /\ Hand(d)' = {} /\ pc'[d] = "idle"
         /\ \A c \in Drain \ {d} : Hand(c)' = Hand(c) /\ pc'[c] = pc[c]
BY DEF TypeOK, Leave, Hand

\* Custody survives a step that only takes events from drain d's hand, writes
\* the status of no event but those, and lets d rest only empty-handed.
LEMMA CustodyFrame ==
  ASSUME TypeOK, EventCustody, NEW d \in Drain,
         Hand(d)' \subseteq Hand(d),
         \A c \in Drain \ {d} : Hand(c)' = Hand(c) /\ pc'[c] = pc[c],
         \A e \in Event : status'[e] # status[e] => e \in Hand(d) \ Hand(d)',
         pc'[d] \in {"idle", "listed"} => Hand(d)' = {},
         stuck' = stuck
  PROVE  EventCustody'
<1>1. ASSUME NEW c \in Drain, NEW e \in Hand(c)'
      PROVE  status'[e] = "processing" /\ ~stuck'[e]
  <2>1. e \in Event /\ e \in Hand(c) BY DEF Hand, TypeOK
  <2>2. status[e] = "processing" /\ ~stuck[e] BY <2>1 DEF EventCustody
  <2>3. c # d => e \notin Hand(d) BY <2>1 DEF EventCustody
  <2>4. status'[e] = status[e] BY <2>1, <2>3
  <2> QED BY <2>2, <2>4
<1>2. ASSUME NEW b \in Drain, NEW c \in Drain, b # c
      PROVE  Hand(b)' \cap Hand(c)' = {}
  <2>1. Hand(b)' \subseteq Hand(b) /\ Hand(c)' \subseteq Hand(c) OBVIOUS
  <2> QED BY <1>2, <2>1 DEF EventCustody
<1>3. ASSUME NEW c \in Drain, pc'[c] \in {"idle", "listed"}
      PROVE  Hand(c)' = {}
  BY <1>3 DEF EventCustody
<1> QED BY <1>1, <1>2, <1>3 DEF EventCustody

\* Custody survives the steps of the world: they touch no processing event,
\* except that one nobody holds may count as stuck.
LEMMA CustodyOutside ==
  ASSUME TypeOK, EventCustody, UNCHANGED drain,
         \A e \in Event : status[e] = "processing" => status'[e] = "processing",
         \A e \in Event : stuck'[e] => stuck[e] \/ HolderGone(e)
  PROVE  EventCustody'
<1>1. \A d \in Drain : Hand(d)' = Hand(d) /\ pc'[d] = pc[d]
  BY DEF drain, Hand
<1>2. ASSUME NEW d \in Drain, NEW e \in Hand(d)'
      PROVE  status'[e] = "processing" /\ ~stuck'[e]
  <2>1. e \in Event /\ e \in Hand(d) BY <1>1 DEF Hand, TypeOK
  <2> QED BY <2>1 DEF EventCustody, HolderGone
<1> QED BY <1>1, <1>2 DEF EventCustody

\* Every step of Next keeps custody.
LEMMA CustodyStep ==
  ASSUME TypeOK, EventCustody, Sorted, [Next]_vars
  PROVE  EventCustody'
<1>1. ASSUME NEW e \in Event, Change(e) \/ Deliver(e) \/ Purge(e) \/ Lapse(e)
      PROVE  EventCustody'
  <2>1. UNCHANGED drain BY <1>1 DEF Change, Deliver, Purge, Lapse
  <2>2. \A f \in Event : status[f] = "processing" => status'[f] = "processing"
    <3>1. CASE Deliver(e)
      <4>1. status' = Enqueued(e) \/ status' = status BY <3>1 DEF Deliver
      <4> QED BY <4>1 DEF Enqueued, TypeOK
    <3>2. CASE Purge(e) BY <3>2 DEF Purge, Settled, TypeOK
    <3>3. CASE Change(e) \/ Lapse(e) BY <3>3 DEF Change, Lapse, table
    <3> QED BY <1>1, <3>1, <3>2, <3>3
  <2>3. \A f \in Event : stuck'[f] => stuck[f] \/ HolderGone(f)
    <3>1. CASE Lapse(e)
      <4>1. stuck' = [stuck EXCEPT ![e] = TRUE] /\ HolderGone(e)
        BY <3>1 DEF Lapse
      <4>2. \A f \in Event \ {e} : stuck'[f] = stuck[f]
        BY <4>1 DEF TypeOK
      <4> QED BY <4>1, <4>2
    <3>2. CASE ~Lapse(e)
      <4>1. stuck' = stuck BY <1>1, <3>2 DEF Change, Deliver, Purge, table
      <4> QED BY <4>1
    <3> QED BY <3>1, <3>2
  <2> QED BY <2>1, <2>2, <2>3, CustodyOutside
<1>2. ASSUME Disconnect \/ Reconnect PROVE EventCustody'
  <2>1. UNCHANGED <<drain, status, stuck>>
    BY <1>2 DEF Disconnect, Reconnect, table
  <2> QED BY <2>1, CustodyOutside
<1>3. ASSUME NEW d \in Drain, StartDrain(d) PROVE EventCustody'
  <2>1. /\ \A c \in Drain : Hand(c)' = Hand(c)
        /\ \A c \in Drain \ {d} : pc'[c] = pc[c]
        /\ status' = status /\ stuck' = stuck
    BY <1>3 DEF StartDrain, Hand, table, TypeOK
  <2>2. Hand(d) = {} BY <1>3 DEF StartDrain, EventCustody
  <2> QED BY <2>1, <2>2, CustodyFrame
<1>4. ASSUME NEW d \in Drain, ClaimPending(d) PROVE EventCustody'
  <2>1. PICK B \in SUBSET Claimable :
          /\ pc' = [pc EXCEPT ![d] = IF B = {} THEN "idle" ELSE "claimed"]
          /\ batch' = [batch EXCEPT ![d] = B]
          /\ status' = [e \in Event |-> IF e \in B THEN "processing" ELSE status[e]]
          /\ stuck' = [e \in Event |-> stuck[e] /\ e \notin B]
    BY <1>4 DEF ClaimPending
  <2>2. UNCHANGED <<resolved, skipped, failed>> BY <1>4 DEF ClaimPending
  <2>3. Hand(d) = {} BY <1>4 DEF ClaimPending, EventCustody
  <2>4. Hand(d)' = B BY <2>1, <2>2, <2>3 DEF Hand, TypeOK
  <2>5. \A c \in Drain \ {d} : Hand(c)' = Hand(c) /\ pc'[c] = pc[c]
    BY <2>1, <2>2 DEF Hand, TypeOK
  <2>6. \A c \in Drain : Hand(c) \cap Claimable = {}
    BY DEF EventCustody, Claimable
  <2>7. B \subseteq Event BY DEF Claimable
  <2>8. ASSUME NEW c \in Drain, NEW e \in Hand(c)'
        PROVE  status'[e] = "processing" /\ ~stuck'[e]
    <3>1. CASE c = d
      <4>1. e \in B BY <2>4, <3>1
      <4>2. e \in Event BY <2>7, <4>1
      <4>3. stuck'[e] = (stuck[e] /\ e \notin B) BY <2>1, <4>2
      <4>4. status'[e] = "processing" BY <2>1, <4>1, <4>2
      <4> QED BY <4>1, <4>3, <4>4
    <3>2. CASE c # d
      <4>1. e \in Hand(c) BY <2>5, <3>2
      <4>2. e \in Event BY <4>1 DEF Hand, TypeOK
      <4>3. e \notin B BY <2>6, <4>1
      <4>4. stuck'[e] = (stuck[e] /\ e \notin B) BY <2>1, <4>2
      <4>5. status'[e] = status[e] BY <2>1, <4>2, <4>3
      <4>6. status[e] = "processing" /\ ~stuck[e] BY <4>1 DEF EventCustody
      <4> QED BY <4>4, <4>5, <4>6
    <3> QED BY <3>1, <3>2
  <2>9. ASSUME NEW b \in Drain, NEW c \in Drain, b # c
        PROVE  Hand(b)' \cap Hand(c)' = {}
    BY <2>4, <2>5, <2>6, <2>9 DEF EventCustody
  <2>10. ASSUME NEW c \in Drain, pc'[c] \in {"idle", "listed"}
         PROVE  Hand(c)' = {}
    <3>1. CASE c = d
      <4>1. pc'[d] = IF B = {} THEN "idle" ELSE "claimed"
        BY <2>1 DEF TypeOK
      <4> QED BY <2>4, <2>10, <3>1, <4>1
    <3>2. CASE c # d BY <2>5, <2>10, <3>2 DEF EventCustody
    <3> QED BY <3>1, <3>2
  <2> QED BY <2>8, <2>9, <2>10 DEF EventCustody
<1>5. ASSUME NEW d \in Drain, Leave(d), stuck' = stuck,
             \A e \in Event : status'[e] # status[e] => e \in Hand(d)
      PROVE  EventCustody'
  BY <1>5, LeaveHands, CustodyFrame
<1>6. ASSUME NEW d \in Drain, NEW S \in SUBSET Event, MarkFailed(S)
      PROVE  \A e \in Event : status'[e] # status[e] => e \in S
  BY <1>6 DEF MarkFailed, TypeOK
<1>7. ASSUME NEW d \in Drain, CheckCredentials(d) PROVE EventCustody'
  <2>1. CASE connected
    <3>1. UNCHANGED <<batch, resolved, skipped, failed, status, stuck>>
      BY <1>7, <2>1 DEF CheckCredentials
    <3>2. pc' = [pc EXCEPT ![d] = "resolving"]
      BY <1>7, <2>1 DEF CheckCredentials
    <3>3. Hand(d)' = Hand(d)
      BY <3>1 DEF Hand
    <3>4. \A c \in Drain \ {d} : Hand(c)' = Hand(c) /\ pc'[c] = pc[c]
      BY <3>1, <3>2 DEF Hand, TypeOK
    <3>5. pc'[d] = "resolving" BY <3>2 DEF TypeOK
    <3> QED BY <3>1, <3>3, <3>4, <3>5, CustodyFrame
  <2>2. CASE ~connected
    <3>1. MarkFailed(batch[d]) /\ Leave(d) /\ stuck' = stuck
      BY <1>7, <2>2 DEF CheckCredentials
    <3>2. batch[d] \in SUBSET Event /\ batch[d] \subseteq Hand(d)
      BY DEF TypeOK, Hand
    <3> QED BY <1>5, <1>6, <3>1, <3>2
  <2> QED BY <2>1, <2>2
<1>8. ASSUME NEW d \in Drain, NEW e \in Event, Resolve(d, e)
      PROVE  EventCustody'
  <2>1. /\ UNCHANGED <<status, stuck, pc>>
        /\ pc[d] = "resolving"
    BY <1>8 DEF Resolve, table
  <2>2. Hand(d)' \subseteq Hand(d)
    BY <1>8 DEF Resolve, Hand, TypeOK
  <2>3. \A c \in Drain \ {d} : Hand(c)' = Hand(c)
    BY <1>8 DEF Resolve, Hand, TypeOK
  <2> QED BY <2>1, <2>2, <2>3, CustodyFrame
<1>9. ASSUME NEW d \in Drain, MarkSkipped(d) PROVE EventCustody'
  <2>1. /\ batch[d] = {}
        /\ status' = [e \in Event |-> IF e \in skipped[d] THEN "skipped"
                                      ELSE status[e]]
        /\ skipped' = [skipped EXCEPT ![d] = {}]
        /\ pc' = [pc EXCEPT ![d] = "marking"]
        /\ UNCHANGED <<stuck, batch, resolved, failed>>
    BY <1>9 DEF MarkSkipped
  <2>2. Hand(d)' = resolved[d] \cup failed[d]
    BY <2>1 DEF Hand, TypeOK
  <2>3. \A c \in Drain \ {d} : Hand(c)' = Hand(c) /\ pc'[c] = pc[c]
    BY <2>1 DEF Hand, TypeOK
  <2>4. pc'[d] = "marking" BY <2>1 DEF TypeOK
  <2>5. \A e \in Event : status'[e] # status[e] => e \in skipped[d]
    BY <2>1 DEF TypeOK
  <2>6. skipped[d] \cap Hand(d)' = {} BY <2>2 DEF Sorted
  <2>7. Hand(d)' \subseteq Hand(d) /\ skipped[d] \subseteq Hand(d)
    BY <2>2 DEF Hand
  <2>8. stuck' = stuck BY <2>1
  <2> QED BY <2>3, <2>4, <2>5, <2>6, <2>7, <2>8, CustodyFrame
<1>10. ASSUME NEW d \in Drain, MarkUnresolved(d) PROVE EventCustody'
  <2>1. /\ MarkFailed(failed[d]) /\ stuck' = stuck
        /\ failed[d] \in SUBSET Event /\ failed[d] \subseteq Hand(d)
    BY <1>10 DEF MarkUnresolved, TypeOK, Hand
  <2>2. \A e \in Event : status'[e] # status[e] => e \in failed[d]
    BY <1>6, <2>1
  <2>3. CASE resolved[d] = {}
    <3>1. Leave(d) BY <1>10, <2>3 DEF MarkUnresolved
    <3> QED BY <1>5, <2>1, <2>2, <3>1
  <2>4. CASE resolved[d] # {}
    <3>1. /\ failed' = [failed EXCEPT ![d] = {}]
          /\ pc' = [pc EXCEPT ![d] = "fetching"]
          /\ UNCHANGED <<batch, resolved, skipped>>
      BY <1>10, <2>4 DEF MarkUnresolved
    <3>2. Hand(d)' = batch[d] \cup resolved[d] \cup skipped[d]
      BY <3>1 DEF Hand, TypeOK
    <3>3. Hand(d)' \subseteq Hand(d) BY <3>2 DEF Hand
    <3>4. failed[d] \cap Hand(d)' = {} BY <3>2 DEF Sorted
    <3>5. \A c \in Drain \ {d} : Hand(c)' = Hand(c) /\ pc'[c] = pc[c]
      BY <3>1 DEF Hand, TypeOK
    <3>6. pc'[d] = "fetching" BY <3>1 DEF TypeOK
    <3> QED BY <2>1, <2>2, <3>3, <3>4, <3>5, <3>6, CustodyFrame
  <2> QED BY <2>3, <2>4
<1>11. ASSUME NEW d \in Drain,
              \/ Write(d) \/ Normalize(d) \/ SyncFails(d)
              \/ \E j \in Job : Fetch(d, j)
       PROVE  EventCustody'
  <2>1. UNCHANGED <<batch, resolved, skipped, failed, status, stuck>>
    BY <1>11 DEF Write, Normalize, SyncFails, Fetch, table
  <2>2. \/ pc' = pc
        \/ \E at \in {"written", "normalized", "failing"} :
             pc' = [pc EXCEPT ![d] = at]
    BY <1>11 DEF Write, Normalize, SyncFails, Fetch
  <2>3. pc[d] \notin {"idle", "listed"}
    BY <1>11 DEF Write, Normalize, SyncFails, Fetch
  <2>4. /\ \A c \in Drain : Hand(c)' = Hand(c)
        /\ \A c \in Drain \ {d} : pc'[c] = pc[c]
        /\ pc'[d] \notin {"idle", "listed"}
    BY <2>1, <2>2, <2>3 DEF Hand, TypeOK
  <2> QED BY <2>1, <2>4, CustodyFrame
<1>12. ASSUME NEW d \in Drain, GiveBack(d) \/ MarkDone(d) \/ Crash(d)
       PROVE  EventCustody'
  <2>1. Leave(d) /\ stuck' = stuck
    BY <1>12 DEF GiveBack, MarkDone, Crash, table
  <2>2. \A e \in Event : status'[e] # status[e] => e \in resolved[d]
    <3>1. resolved[d] \in SUBSET Event BY DEF TypeOK
    <3>2. CASE GiveBack(d)
      <4>1. MarkFailed(resolved[d]) BY <3>2 DEF GiveBack
      <4> QED BY <1>6, <3>1, <4>1
    <3>3. CASE MarkDone(d) BY <3>3 DEF MarkDone, TypeOK
    <3>4. CASE Crash(d) BY <3>4 DEF Crash, table
    <3> QED BY <1>12, <3>2, <3>3, <3>4
  <2>3. resolved[d] \subseteq Hand(d) BY DEF Hand
  <2> QED BY <1>5, <2>1, <2>2, <2>3
<1>13. CASE UNCHANGED vars
  <2>1. UNCHANGED <<drain, status, stuck>> BY <1>13 DEF vars, table
  <2> QED BY <2>1, CustodyOutside
<1> QED
  BY <1>1, <1>2, <1>3, <1>4, <1>7, <1>8, <1>9, <1>10, <1>11, <1>12, <1>13
  DEF Next, Step

\* An event is in one drain's hands at most, and while it is nobody else can
\* claim or mark it.
THEOREM HookCustody == Spec => []EventCustody
<1> DEFINE I == TypeOK /\ EventCustody /\ Sorted
<1>1. Init => I
  BY BoundAssumption
  DEF Init, TypeOK, Unfetched, Status, Point, NoJobs, EventCustody, Sorted, Hand
<1>2. I /\ [Next]_vars => I'
  BY TypeStep, CustodyStep, SortedStep
<1>3. I => EventCustody OBVIOUS
<1> QED BY <1>1, <1>2, <1>3, PTL DEF Spec

-----------------------------------------------------------------------------
(* The attempts of an event.                                               *)

\* Between a number and itself there is only that number.
LEMMA Squeezed ==
  ASSUME NEW a \in Nat, NEW m \in Nat, a <= m, a >= m
  PROVE  a = m
OBVIOUS

\* Every step of Next keeps the budget.  A processing event has been claimed
\* within its budget, and markFailed buries it when nothing is left.
LEMMA BudgetStep ==
  ASSUME TypeOK, EventCustody, BudgetKept, [Next]_vars
  PROVE  BudgetKept'
<1> USE BoundAssumption DEF TypeOK, BudgetKept
<1>1. ASSUME NEW S \in SUBSET Event, MarkFailed(S), attempts' = attempts
      PROVE  BudgetKept'
  <2>1. ASSUME NEW e \in Event
        PROVE  /\ attempts'[e] = attempts[e] /\ attempts[e] \in Nat
               /\ status'[e] = IF e \notin S THEN status[e]
                              ELSE IF attempts[e] >= MAX_ATTEMPTS THEN "failed"
                              ELSE "pending"
    BY <1>1 DEF MarkFailed, Buried
  <2>2. MAX_ATTEMPTS \in Nat OBVIOUS
  <2>3. ASSUME NEW e \in Event
        PROVE  /\ attempts'[e] <= MAX_ATTEMPTS
               /\ status'[e] = "failed" => attempts'[e] = MAX_ATTEMPTS
               /\ status'[e] = "pending" => attempts'[e] < MAX_ATTEMPTS
               /\ status'[e] = "absent" => attempts'[e] = 0
    <3>0. attempts'[e] = attempts[e] /\ attempts[e] \in Nat BY <2>1
    <3>1. attempts[e] <= MAX_ATTEMPTS OBVIOUS
    <3>2. CASE e \notin S BY <2>1, <3>2
    <3>3. CASE e \in S /\ attempts[e] >= MAX_ATTEMPTS
      <4>1. status'[e] = "failed" BY <2>1, <3>3
      <4>2. attempts[e] = MAX_ATTEMPTS BY <3>0, <2>2, <3>1, <3>3, Squeezed
      <4>3. attempts'[e] = MAX_ATTEMPTS BY <3>0, <4>2
      <4> QED BY <2>2, <4>1, <4>3
    <3>4. CASE e \in S /\ ~(attempts[e] >= MAX_ATTEMPTS)
      <4>1. status'[e] = "pending" BY <2>1, <3>4
      <4>2. attempts'[e] < MAX_ATTEMPTS BY <2>1, <2>2, <3>4
      <4> QED BY <2>1, <2>2, <4>1, <4>2
    <3> QED BY <3>2, <3>3, <3>4
  <2> QED BY <2>3
<1>2. ASSUME NEW e \in Event, Deliver(e) PROVE BudgetKept'
  <2>1. status' = Enqueued(e) \/ status' = status BY <1>2 DEF Deliver
  <2>2. attempts' = attempts BY <1>2 DEF Deliver
  <2> QED BY <2>1, <2>2 DEF Enqueued
<1>3. ASSUME NEW e \in Event, Purge(e) PROVE BudgetKept'
  BY <1>3 DEF Purge
<1>4. ASSUME NEW d \in Drain, ClaimPending(d) PROVE BudgetKept'
  <2>1. PICK B \in SUBSET Claimable :
          /\ status' = [e \in Event |-> IF e \in B THEN "processing" ELSE status[e]]
          /\ attempts' = [e \in Event |-> IF e \in B THEN attempts[e] + 1
                                          ELSE attempts[e]]
    BY <1>4 DEF ClaimPending
  <2>2. \A e \in B : attempts[e] < MAX_ATTEMPTS BY DEF Claimable
  <2> QED BY <2>1, <2>2
<1>5. ASSUME NEW d \in Drain,
             \/ CheckCredentials(d) \/ MarkUnresolved(d) \/ GiveBack(d)
      PROVE  BudgetKept'
  <2>1. attempts' = attempts
    BY <1>5 DEF CheckCredentials, MarkUnresolved, GiveBack
  <2>2. batch[d] \in SUBSET Event /\ failed[d] \in SUBSET Event
          /\ resolved[d] \in SUBSET Event
    OBVIOUS
  <2>3. \/ status' = status
        \/ MarkFailed(batch[d]) \/ MarkFailed(failed[d]) \/ MarkFailed(resolved[d])
    BY <1>5 DEF CheckCredentials, MarkUnresolved, GiveBack
  <2> QED BY <1>1, <2>1, <2>2, <2>3
<1>6. ASSUME NEW d \in Drain, MarkSkipped(d) \/ MarkDone(d)
      PROVE  BudgetKept'
  BY <1>6 DEF MarkSkipped, MarkDone
<1>7. CASE UNCHANGED <<status, attempts>>
  BY <1>7
<1>8. ASSUME NEW d \in Drain,
             \/ StartDrain(d) \/ Write(d) \/ Normalize(d) \/ SyncFails(d)
             \/ Crash(d) \/ \E e \in Event : Resolve(d, e)
             \/ \E j \in Job : Fetch(d, j)
      PROVE  UNCHANGED <<status, attempts>>
  BY <1>8 DEF StartDrain, Write, Normalize, SyncFails, Crash, Resolve, Fetch, table
<1>9. ASSUME \/ \E e \in Event : Change(e) \/ Lapse(e)
             \/ Disconnect \/ Reconnect \/ UNCHANGED vars
      PROVE  UNCHANGED <<status, attempts>>
  BY <1>9 DEF Change, Lapse, Disconnect, Reconnect, vars, table
<1> QED
  BY <1>2, <1>3, <1>4, <1>5, <1>6, <1>7, <1>8, <1>9 DEF Next, Step

\* No event is attempted more than MAX_ATTEMPTS times, a buried event has used
\* all attempts, and a pending one always has one left.
THEOREM HookBudget == Spec => []BudgetKept
<1> DEFINE I == TypeOK /\ EventCustody /\ Sorted /\ BudgetKept
<1>1. Init => I
  BY BoundAssumption
  DEF Init, TypeOK, Unfetched, Status, Point, NoJobs, EventCustody, Sorted, Hand, BudgetKept
<1>2. I /\ [Next]_vars => I'
  BY TypeStep, CustodyStep, SortedStep, BudgetStep
<1>3. I => BudgetKept OBVIOUS
<1> QED BY <1>1, <1>2, <1>3, PTL DEF Spec

-----------------------------------------------------------------------------
\* A settled event is not revived.  Only holders mark events and claims take
\* pending or processing ones, so custody is what makes this true.
THEOREM HookSettled == Spec => SettledStays
<1> DEFINE I == TypeOK /\ EventCustody /\ Sorted
<1> DEFINE A == \A e \in Event : status[e] \in Settled
                               => status'[e] \in {status[e], "purged"}
<1>1. Init => I
  BY BoundAssumption
  DEF Init, TypeOK, Unfetched, Status, Point, NoJobs, EventCustody, Sorted, Hand
<1>2. I /\ [Next]_vars => I'
  BY TypeStep, CustodyStep, SortedStep
<1>3. I /\ [Next]_vars => A
  <2> SUFFICES ASSUME I, [Next]_vars PROVE A OBVIOUS
  <2> USE DEF TypeOK
  <2>0. \A d \in Drain : \A e \in Hand(d) : status[e] \notin Settled
    BY DEF EventCustody, Settled
  <2>1. ASSUME NEW d \in Drain, NEW S \in SUBSET Hand(d), S \subseteq Event,
               \A e \in Event \ S : status'[e] = status[e]
        PROVE  A
    BY <2>0, <2>1
  <2>2. ASSUME NEW S \in SUBSET Event, MarkFailed(S)
        PROVE  \A e \in Event \ S : status'[e] = status[e]
    BY <2>2 DEF MarkFailed
  <2>3. ASSUME NEW e \in Event, Deliver(e) PROVE A
    <3>1. status' = Enqueued(e) \/ status' = status BY <2>3 DEF Deliver
    <3> QED BY <3>1 DEF Enqueued, Settled
  <2>4. ASSUME NEW e \in Event, Purge(e) PROVE A
    BY <2>4 DEF Purge
  <2>5. ASSUME NEW d \in Drain, ClaimPending(d) PROVE A
    <3>1. PICK B \in SUBSET Claimable :
            status' = [e \in Event |-> IF e \in B THEN "processing" ELSE status[e]]
      BY <2>5 DEF ClaimPending
    <3>2. \A e \in B : status[e] \notin Settled BY DEF Claimable, Settled
    <3> QED BY <3>1, <3>2
  <2>6. ASSUME NEW d \in Drain,
               \/ CheckCredentials(d) \/ MarkUnresolved(d) \/ GiveBack(d)
        PROVE  A
    <3>1. \/ status' = status
          \/ MarkFailed(batch[d]) \/ MarkFailed(failed[d]) \/ MarkFailed(resolved[d])
      BY <2>6 DEF CheckCredentials, MarkUnresolved, GiveBack
    <3>2. /\ batch[d] \in SUBSET Hand(d) /\ batch[d] \in SUBSET Event
          /\ failed[d] \in SUBSET Hand(d) /\ failed[d] \in SUBSET Event
          /\ resolved[d] \in SUBSET Hand(d) /\ resolved[d] \in SUBSET Event
      BY DEF Hand
    <3> QED BY <2>1, <2>2, <3>1, <3>2
  <2>7. ASSUME NEW d \in Drain, MarkSkipped(d) PROVE A
    <3>1. /\ skipped[d] \in SUBSET Hand(d) /\ skipped[d] \subseteq Event
          /\ \A e \in Event \ skipped[d] : status'[e] = status[e]
      BY <2>7 DEF MarkSkipped, Hand
    <3> QED BY <2>1, <3>1
  <2>8. ASSUME NEW d \in Drain, MarkDone(d) PROVE A
    <3>1. /\ resolved[d] \in SUBSET Hand(d) /\ resolved[d] \subseteq Event
          /\ \A e \in Event \ resolved[d] : status'[e] = status[e]
      BY <2>8 DEF MarkDone, Hand
    <3> QED BY <2>1, <3>1
  <2>9. ASSUME NEW d \in Drain,
               \/ StartDrain(d) \/ Write(d) \/ Normalize(d) \/ SyncFails(d)
               \/ Crash(d) \/ \E e \in Event : Resolve(d, e)
               \/ \E j \in Job : Fetch(d, j)
        PROVE  status' = status
    BY <2>9 DEF StartDrain, Write, Normalize, SyncFails, Crash, Resolve, Fetch, table
  <2>10. ASSUME \/ \E e \in Event : Change(e) \/ Lapse(e)
                \/ Disconnect \/ Reconnect \/ UNCHANGED vars
         PROVE  status' = status
    BY <2>10 DEF Change, Lapse, Disconnect, Reconnect, vars, table
  <2>11. status' = status => A OBVIOUS
  <2> QED
    BY <2>3, <2>4, <2>5, <2>6, <2>7, <2>8, <2>9, <2>10, <2>11 DEF Next, Step
<1>4. Spec => [][A]_vars
  <2> HIDE DEF A, I
  <2> QED BY <1>1, <1>2, <1>3, PTL DEF Spec
<1> QED BY <1>4 DEF SettledStays

-----------------------------------------------------------------------------
(* What an event that is done means.                                       *)

\* An event that is stored has happened.
Sent == \A e \in Event : status[e] # "absent" => wire[e] # "none"

\* In a smooth behaviour only the cron drains, and every detail arrives.
Alone == \A d \in Drain : missed[d] = {} /\ (d \notin Cron => pc[d] = "idle")

\* A detail that was fetched shows what is done by now and what is being done;
\* it may have been fetched before either was.
Ready(d) ==
  pc[d] = "fetching" =>
    \A j \in Job : got[d][j] # {} =>
      \A e \in Touching(j) : status[e] = "done" \/ e \in resolved[d] => e \in got[d][j]

\* The copy was written before the events are marked.
Applied(d) ==
  pc[d] \in {"written", "normalized"} =>
    \A e \in resolved[d] : \A j \in Affects[e] : e \in seen[j]

AllApplied == DoneMeansApplied /\ \A d \in Drain : Ready(d) /\ Applied(d)
DoneInv == Sent /\ (smooth => Alone /\ AllApplied)

LEMMA SentStep ==
  ASSUME TypeOK, EventCustody, Sent, [Next]_vars
  PROVE  Sent'
<1> SUFFICES ASSUME NEW f \in Event, status'[f] # "absent" PROVE wire'[f] # "none" BY DEF Sent
<1> USE DEF TypeOK
<1>1. ASSUME UNCHANGED wire, status[f] # "absent" PROVE wire'[f] # "none" BY <1>1 DEF Sent
<1>2. \A d \in Drain : \A e \in Hand(d) : status[e] # "absent" BY DEF EventCustody
<1>3. ASSUME NEW d \in Drain, NEW S \in SUBSET Hand(d), UNCHANGED wire,
             \A e \in Event \ S : status'[e] = status[e]
      PROVE  wire'[f] # "none"
  BY <1>1, <1>2, <1>3
<1>4. ASSUME NEW S \in SUBSET Event, MarkFailed(S)
      PROVE  \A e \in Event \ S : status'[e] = status[e]
  BY <1>4 DEF MarkFailed
<1>5. ASSUME NEW e \in Event, Change(e) PROVE wire'[f] # "none"
  BY <1>5 DEF Change, table, Sent
<1>6. ASSUME NEW e \in Event, Deliver(e) PROVE wire'[f] # "none"
  <2>1. wire'[e] \in {"sending", "settled"} /\ \A g \in Event \ {e} : wire'[g] = wire[g]
    BY <1>6 DEF Deliver
  <2>2. \A g \in Event \ {e} : status'[g] = status[g] BY <1>6 DEF Deliver, Enqueued
  <2> QED BY <2>1, <2>2 DEF Sent
<1>7. ASSUME NEW e \in Event, Purge(e) PROVE wire'[f] # "none"
  BY <1>1, <1>7 DEF Purge, Settled, sender
<1>8. ASSUME NEW d \in Drain, ClaimPending(d) PROVE wire'[f] # "none"
  <2>1. PICK B \in SUBSET Claimable :
          status' = [e \in Event |-> IF e \in B THEN "processing" ELSE status[e]]
    BY <1>8 DEF ClaimPending
  <2>2. \A e \in B : status[e] # "absent" BY DEF Claimable
  <2> QED BY <1>1, <1>8, <2>1, <2>2 DEF ClaimPending, sender
<1>9. ASSUME NEW d \in Drain, CheckCredentials(d) \/ MarkUnresolved(d) \/ GiveBack(d)
      PROVE  wire'[f] # "none"
  <2>1. \/ status' = status
        \/ MarkFailed(batch[d]) \/ MarkFailed(failed[d]) \/ MarkFailed(resolved[d])
    BY <1>9 DEF CheckCredentials, MarkUnresolved, GiveBack
  <2>2. /\ batch[d] \in SUBSET Hand(d) /\ batch[d] \in SUBSET Event
        /\ failed[d] \in SUBSET Hand(d) /\ failed[d] \in SUBSET Event
        /\ resolved[d] \in SUBSET Hand(d) /\ resolved[d] \in SUBSET Event
    BY DEF Hand
  <2>3. UNCHANGED wire BY <1>9 DEF CheckCredentials, MarkUnresolved, GiveBack, sender
  <2> QED BY <1>1, <1>3, <1>4, <2>1, <2>2, <2>3
<1>10. ASSUME NEW d \in Drain, MarkSkipped(d) \/ MarkDone(d) PROVE wire'[f] # "none"
  <2>1. /\ skipped[d] \in SUBSET Hand(d) /\ resolved[d] \in SUBSET Hand(d)
        /\ UNCHANGED wire
    BY <1>10 DEF Hand, MarkSkipped, MarkDone, sender
  <2>2. \/ \A e \in Event \ skipped[d] : status'[e] = status[e]
        \/ \A e \in Event \ resolved[d] : status'[e] = status[e]
    BY <1>10 DEF MarkSkipped, MarkDone
  <2> QED BY <1>3, <2>1, <2>2
<1>11. ASSUME NEW d \in Drain,
              \/ StartDrain(d) \/ Write(d) \/ Normalize(d) \/ SyncFails(d) \/ Crash(d)
              \/ \E e \in Event : Resolve(d, e)
              \/ \E j \in Job : Fetch(d, j)
       PROVE  wire'[f] # "none"
  BY <1>1, <1>11
  DEF StartDrain, Write, Normalize, SyncFails, Crash, Resolve, Fetch, table, sender
<1>12. ASSUME (\E e \in Event : Lapse(e)) \/ Disconnect \/ Reconnect \/ UNCHANGED vars
       PROVE  wire'[f] # "none"
  BY <1>1, <1>12 DEF Lapse, Disconnect, Reconnect, vars, table, sender
<1> QED BY <1>5, <1>6, <1>7, <1>8, <1>9, <1>10, <1>11, <1>12 DEF Next, Step

\* A step that does not write the copy, marks nothing as done and brings no
\* drain to the jobs.
LEMMA AppliedKept ==
  ASSUME AllApplied, UNCHANGED seen,
         \A e \in Event : status'[e] = "done" => status[e] = "done",
         \A d \in Drain : pc'[d] \in {"fetching", "written", "normalized"} =>
           /\ resolved'[d] = resolved[d] /\ got'[d] = got[d]
           /\ pc'[d] = "fetching" => pc[d] = "fetching"
           /\ pc'[d] \in {"written", "normalized"} => pc[d] \in {"written", "normalized"}
  PROVE  AllApplied'
BY DEF AllApplied, DoneMeansApplied, Ready, Applied, Touching

LEMMA NotDone ==
  ASSUME NEW S, MarkFailed(S), NEW e \in Event, status'[e] = "done"
  PROVE  status[e] = "done"
BY DEF MarkFailed

\* What the drain of the cron does, when it is the only one.
LEMMA AppliedStep ==
  ASSUME TypeOK, EventCustody, Sent, Alone, AllApplied, Alone', Next,
         \A c, d \in Cron : c = d
  PROVE  AllApplied'
<1> USE DEF TypeOK
<1>1. ASSUME NEW e \in Event, Change(e) \/ Deliver(e) \/ Purge(e) \/ Lapse(e) PROVE AllApplied'
  <2>1. UNCHANGED <<seen, drain>> BY <1>1 DEF Change, Deliver, Purge, Lapse
  <2>2. \A f \in Event : status'[f] = "done" => status[f] = "done"
    BY <1>1 DEF Change, Deliver, Purge, Lapse, Enqueued, table
  <2> QED BY <2>1, <2>2, AppliedKept DEF drain
<1>2. CASE Disconnect \/ Reconnect
  BY <1>2, AppliedKept DEF Disconnect, Reconnect, table, drain
<1>3. ASSUME NEW d \in Drain, StartDrain(d) \/ MarkSkipped(d) \/ Normalize(d) \/ SyncFails(d)
      PROVE  AllApplied'
  <2>1. UNCHANGED <<seen, resolved, got>> /\ \A c \in Drain \ {d} : pc'[c] = pc[c]
    BY <1>3 DEF StartDrain, MarkSkipped, Normalize, SyncFails
  <2>2. \A f \in Event : status'[f] = "done" => status[f] = "done"
    BY <1>3 DEF StartDrain, MarkSkipped, Normalize, SyncFails, table
  <2>3. \/ pc'[d] \in {"listed", "marking", "failing"}
        \/ pc'[d] = "normalized" /\ pc[d] = "written"
    BY <1>3 DEF StartDrain, MarkSkipped, Normalize, SyncFails
  <2> QED BY <2>1, <2>2, <2>3, AppliedKept
<1>4. ASSUME NEW d \in Drain, ClaimPending(d) \/ \E e \in Event : Resolve(d, e) PROVE AllApplied'
  <2>1. /\ UNCHANGED <<seen, got>> /\ pc'[d] \in {"idle", "claimed", "resolving"}
        /\ \A c \in Drain \ {d} : pc'[c] = pc[c] /\ resolved'[c] = resolved[c]
    BY <1>4 DEF ClaimPending, Resolve
  <2>2. \A f \in Event : status'[f] = "done" => status[f] = "done"
    BY <1>4 DEF ClaimPending, Resolve, table
  <2> QED BY <2>1, <2>2, AppliedKept
<1>5. ASSUME NEW d \in Drain, Leave(d), UNCHANGED seen,
             \A f \in Event : status'[f] = "done" => status[f] = "done"
      PROVE  AllApplied'
  <2>1. /\ pc'[d] = "idle"
        /\ \A c \in Drain \ {d} : pc'[c] = pc[c] /\ resolved'[c] = resolved[c] /\ got'[c] = got[c]
    BY <1>5 DEF Leave
  <2> QED BY <1>5, <2>1, AppliedKept
<1>6. ASSUME NEW d \in Drain, Crash(d) \/ GiveBack(d) PROVE AllApplied'
  BY <1>5, <1>6, NotDone DEF Crash, GiveBack, table
<1>7. ASSUME NEW d \in Drain, CheckCredentials(d) PROVE AllApplied'
  <2>1. CASE ~connected BY <1>5, <1>7, <2>1, NotDone DEF CheckCredentials
  <2>2. CASE connected
    <3>1. /\ UNCHANGED <<seen, status, resolved, got>> /\ pc'[d] = "resolving"
          /\ \A c \in Drain \ {d} : pc'[c] = pc[c]
      BY <1>7, <2>2 DEF CheckCredentials
    <3> QED BY <3>1, AppliedKept
  <2> QED BY <2>1, <2>2
<1>8. ASSUME NEW d \in Drain, MarkUnresolved(d) PROVE AllApplied'
  <2>1. CASE resolved[d] = {} BY <1>5, <1>8, <2>1, NotDone DEF MarkUnresolved
  <2>2. CASE resolved[d] # {}
    <3>1. got[d] = NoJobs BY <1>8 DEF MarkUnresolved, Unfetched
    <3>2. /\ UNCHANGED <<seen, resolved, got>> /\ pc'[d] = "fetching"
          /\ \A c \in Drain \ {d} : pc'[c] = pc[c]
      BY <1>8, <2>2 DEF MarkUnresolved
    <3>3. \A f \in Event : status'[f] = "done" => status[f] = "done"
      BY <1>8, NotDone DEF MarkUnresolved
    <3>4. Ready(d)' /\ Applied(d)' BY <3>1, <3>2 DEF Ready, Applied, NoJobs
    <3>5. \A c \in Drain \ {d} : Ready(c)' /\ Applied(c)'
      BY <3>2, <3>3 DEF AllApplied, Ready, Applied, Touching
    <3>6. DoneMeansApplied' BY <3>2, <3>3 DEF AllApplied, DoneMeansApplied
    <3> QED BY <3>4, <3>5, <3>6 DEF AllApplied
  <2> QED BY <2>1, <2>2
<1>9. ASSUME NEW d \in Drain, pc[d] # "idle" PROVE \A c \in Drain \ {d} : pc[c] = "idle"
  BY <1>9 DEF Alone
<1>10. ASSUME NEW d \in Drain, pc[d] # "idle", \A c \in Drain \ {d} : pc'[c] = pc[c]
       PROVE  \A c \in Drain \ {d} : Ready(c)' /\ Applied(c)'
  BY <1>9, <1>10 DEF Ready, Applied
<1>11. ASSUME NEW d \in Drain, NEW j \in Job, Fetch(d, j) PROVE AllApplied'
  <2>1. got' = [got EXCEPT ![d][j] = Fetched(d, j)] /\ UNCHANGED <<pc, seen, status, resolved>>
    <3>1. CASE missed' = [missed EXCEPT ![d] = @ \cup {j}]
      <4>1. j \in missed'[d] BY <3>1
      <4> QED BY <4>1 DEF Alone
    <3> QED BY <1>11, <3>1 DEF Fetch, table
  <2>2. ASSUME NEW e \in Touching(j), status[e] = "done" \/ e \in resolved[d]
        PROVE  e \in Fetched(d, j)
    <3>1. e \in Event /\ status[e] # "absent" BY <2>2 DEF Touching, EventCustody, Hand
    <3> QED BY <2>2, <3>1 DEF Sent, Happened, Fetched
  <2>3. /\ got'[d][j] = Fetched(d, j)
        /\ \A i \in Job \ {j} : got'[d][i] = got[d][i]
    BY <2>1
  <2>4. pc[d] = "fetching" BY <1>11 DEF Fetch
  <2>5. Ready(d)'
    BY <2>1, <2>2, <2>3, <2>4 DEF AllApplied, Ready, Touching
  <2>6. Applied(d)' BY <2>1, <2>4 DEF Applied
  <2>7. DoneMeansApplied' BY <2>1 DEF AllApplied, DoneMeansApplied
  <2> QED BY <1>10, <2>1, <2>4, <2>5, <2>6, <2>7 DEF AllApplied
<1>12. ASSUME NEW d \in Drain, Write(d) PROVE AllApplied'
  <2>1. missed[d] = {} /\ pc[d] = "fetching" BY <1>12 DEF Alone, Write
  <2>2. /\ seen' = [j \in Job |-> IF j \in Wanted(d) THEN got[d][j] ELSE seen[j]]
        /\ \A j \in Wanted(d) : got[d][j] # {}
        /\ pc' = [pc EXCEPT ![d] = "written"] /\ UNCHANGED <<status, resolved, got>>
    BY <1>12, <2>1 DEF Write, table
  <2>3. ASSUME NEW e \in Event, NEW j \in Affects[e] \cap Wanted(d),
               status[e] = "done" \/ e \in resolved[d]
        PROVE  e \in seen'[j]
    <3>1. j \in Job /\ e \in Touching(j) BY EventAssumption DEF Touching
    <3>2. e \in got[d][j] BY <2>1, <2>2, <2>3, <3>1 DEF AllApplied, Ready
    <3> QED BY <2>2, <3>1, <3>2
  <2>4. DoneMeansApplied'
    <3> SUFFICES ASSUME NEW e \in Event, status[e] = "done", NEW j \in Affects[e]
                 PROVE  e \in seen'[j]
      BY <2>2 DEF DoneMeansApplied
    <3>1. e \in seen[j] /\ j \in Job BY EventAssumption DEF AllApplied, DoneMeansApplied
    <3> QED BY <2>2, <2>3, <3>1
  <2>5. Applied(d)'
    <3> SUFFICES ASSUME NEW e \in resolved[d], NEW j \in Affects[e] PROVE e \in seen'[j]
      BY <2>2 DEF Applied
    <3>1. j \in Wanted(d) BY DEF Wanted
    <3> QED BY <2>3, <3>1
  <2>6. Ready(d)' BY <2>2 DEF Ready
  <2> QED BY <1>10, <2>1, <2>2, <2>4, <2>5, <2>6 DEF AllApplied
<1>13. ASSUME NEW d \in Drain, MarkDone(d) PROVE AllApplied'
  <2>1. /\ pc[d] = "normalized" /\ pc'[d] = "idle" /\ UNCHANGED seen
        /\ \A c \in Drain \ {d} : pc'[c] = pc[c]
        /\ status' = [e \in Event |-> IF e \in resolved[d] THEN "done" ELSE status[e]]
    BY <1>13 DEF MarkDone, Leave
  <2>2. DoneMeansApplied' BY <2>1 DEF AllApplied, DoneMeansApplied, Applied
  <2>3. Ready(d)' /\ Applied(d)' BY <2>1 DEF Ready, Applied
  <2> QED BY <1>10, <2>1, <2>2, <2>3 DEF AllApplied
<1> QED
  BY <1>1, <1>2, <1>3, <1>4, <1>6, <1>7, <1>8, <1>11, <1>12, <1>13 DEF Next, Step

\* Where one cron at a time drains, every request is answered in the end and
\* no drain dies, an event marked done is in our copy of every job it affects:
\* also when it happened while the job was being fetched, when the company
\* disconnected in between, and when ServiceTrade sent it twice.
THEOREM DoneIsApplied ==
  ASSUME \A c, d \in Cron : c = d
  PROVE  HookSpec => []SmoothDoneMeansApplied
<1> DEFINE I == TypeOK /\ EventCustody /\ Sorted
<1>1. HookInit => I /\ DoneInv
  BY BoundAssumption
  DEF HookInit, Init, TypeOK, Unfetched, Status, Point, NoJobs, EventCustody, Sorted, Hand,
      DoneInv, Sent, Alone, AllApplied, DoneMeansApplied, Ready, Applied
<1>2. [HookNext]_hookVars => [Next]_vars BY DEF HookNext, hookVars
<1>3. I /\ [Next]_vars => I'
  BY TypeStep, CustodyStep, SortedStep
<1>4. I /\ DoneInv /\ [HookNext]_hookVars => DoneInv'
  <2> SUFFICES ASSUME I, DoneInv, [HookNext]_hookVars PROVE DoneInv' OBVIOUS
  <2>1. Sent' BY <1>2, SentStep DEF DoneInv
  <2>2. CASE UNCHANGED hookVars
    BY <2>1, <2>2
    DEF hookVars, vars, table, drain, DoneInv, Alone, AllApplied, DoneMeansApplied, Ready, Applied,
        Touching
  <2>3. CASE HookNext /\ smooth
    <3>1. Next /\ Smoothly /\ UNCHANGED smooth BY <2>3 DEF HookNext
    <3>2. Alone' BY <3>1 DEF Smoothly, Alone
    <3> QED BY <2>1, <2>3, <3>1, <3>2, AppliedStep DEF DoneInv
  <2>4. CASE HookNext /\ ~smooth
    BY <2>1, <2>4 DEF HookNext, DoneInv
  <2> QED BY <2>2, <2>3, <2>4
<1>5. DoneInv => SmoothDoneMeansApplied BY DEF DoneInv, AllApplied, SmoothDoneMeansApplied
<1> HIDE DEF I
<1> QED BY <1>1, <1>2, <1>3, <1>4, <1>5, PTL DEF HookSpec
=============================================================================
