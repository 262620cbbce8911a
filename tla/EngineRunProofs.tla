---------------------------- MODULE EngineRunProofs ----------------------------
(***************************************************************************)
(* Theorems about EngineRun for every set of runs and browsers.            *)
(***************************************************************************)
EXTENDS EngineRun, TLAPS

Event == {"started", "progress"} \cup Verdict
RowType == [status : {"absent", "running", "done", "failed", "purged"},
            history : Seq(Event), silent : BOOLEAN]
ClientType == [at : {"off", "opened", "asked", "attached", "closed"},
               near : BOOLEAN, over : BOOLEAN, upTo : Nat, since : Nat,
               got : SUBSET Nat, slipped : BOOLEAN]
WatchType == [run : RunId \cup {"none"}, client : ClientType]

EngineTypes ==
  /\ engine \in [RunId -> RowType]
  /\ actor \in [RunId -> {"none", "created", "working", "finishing", "failing", "failed",
                          "closing", "gone"}]
  /\ outbox \in [RunId -> Nat]
  /\ watch \in [Watcher -> WatchType]
  /\ reaped \subseteq RunId /\ engineFaults \in 0 .. MaxEngineFaults

-----------------------------------------------------------------------------
(* Types.                                                                  *)

LEMMA NoRunTyped == NoRun \in RowType
BY DEF NoRun, RowType

LEMMA OffTyped == [run |-> "none", client |-> Off] \in WatchType
<1>1. Off \in ClientType BY DEF Off, ClientType
<1> QED BY <1>1 DEF WatchType

LEMMA TypesStart == EngineInit => EngineTypes
BY NoRunTyped, OffTyped, EngineAssumption DEF EngineInit, EngineTypes

\* appendEvent: one event more, and it is to be published.
LEMMA Appended ==
  ASSUME EngineTypes, NEW r \in RunId, NEW type \in Event, NEW point, Append1(r, type, point)
  PROVE  /\ engine' \in [RunId -> RowType]
         /\ engine'[r].history = Append(engine[r].history, type)
         /\ engine'[r].status = engine[r].status
         /\ \A x \in RunId : x # r => engine'[x] = engine[x]
         /\ outbox[r] = 0 /\ outbox' = [outbox EXCEPT ![r] = Len(engine[r].history) + 1]
         /\ actor' = [actor EXCEPT ![r] = point]
         /\ UNCHANGED <<watch, reaped, engineFaults>>
<1> DEFINE row == [engine[r] EXCEPT !.history = Append(engine[r].history, type), !.silent = FALSE]
<1>1. engine[r] \in RowType BY DEF EngineTypes
<1>2. Append(engine[r].history, type) \in Seq(Event) BY <1>1 DEF RowType
<1>3. row \in RowType /\ row.history = Append(engine[r].history, type)
        /\ row.status = engine[r].status
  BY <1>1, <1>2 DEF RowType
<1>4. engine' = [engine EXCEPT ![r] = row] BY <1>1 DEF Append1, EngineTypes
<1> HIDE DEF row
<1> QED BY <1>3, <1>4 DEF Append1, Goes, EngineTypes

\* The four places where an event is appended.
LEMMA Emits ==
  ASSUME NEW r \in RunId,
         EmitStarted(r) \/ EmitProgress(r) \/ EmitDone(r) \/ EmitFailed(r)
  PROVE  \E type \in Event, point \in {"working", "finishing", "failed"} :
           /\ Append1(r, type, point)
           /\ point # "working" => type \in Verdict
           /\ actor[r] \in {"created", "working", "failing"}
BY DEF EmitStarted, EmitProgress, EmitDone, EmitFailed, Event, Verdict

\* A stored status.
LEMMA StatusSet ==
  ASSUME EngineTypes, NEW r \in RunId, NEW status \in {"running", "done", "failed"},
         SetStatus(r, status)
  PROVE  /\ engine' \in [RunId -> RowType]
         /\ engine'[r].history = engine[r].history /\ engine'[r].status = status
         /\ \A x \in RunId : x # r => engine'[x] = engine[x]
<1>1. engine[r] \in RowType BY DEF EngineTypes
<1>2. engine' = [engine EXCEPT ![r] = [engine[r] EXCEPT !.status = status]]
  BY DEF SetStatus, EngineTypes
<1>3. [engine[r] EXCEPT !.status = status] \in RowType BY <1>1 DEF RowType
<1> QED BY <1>1, <1>2, <1>3 DEF EngineTypes, RowType

LEMMA FaultTyped ==
  ASSUME EngineTypes, EngineFault PROVE engineFaults' \in 0 .. MaxEngineFaults
BY EngineAssumption DEF EngineTypes, EngineFault

\* A browser's record stays a record.
LEMMA ClientTyped ==
  ASSUME NEW c \in ClientType, NEW at \in {"off", "opened", "asked", "attached", "closed"},
         NEW near \in BOOLEAN, NEW over \in BOOLEAN, NEW upTo \in Nat, NEW since \in Nat,
         NEW got \in SUBSET Nat, NEW slipped \in BOOLEAN
  PROVE  /\ [c EXCEPT !.got = got, !.since = since] \in ClientType
         /\ [c EXCEPT !.slipped = slipped] \in ClientType
         /\ [c EXCEPT !.at = at] \in ClientType
         /\ [c EXCEPT !.at = at, !.near = near, !.over = over] \in ClientType
         /\ [c EXCEPT !.at = at, !.upTo = upTo] \in ClientType
         /\ [c EXCEPT !.at = at, !.got = got, !.since = since] \in ClientType
BY DEF ClientType

LEMMA WatchTyped ==
  ASSUME NEW w \in WatchType, NEW c \in ClientType, NEW r \in RunId
  PROVE  [w EXCEPT !.client = c] \in WatchType /\ [w EXCEPT !.run = r, !.client = c] \in WatchType
BY DEF WatchType

\* What a step does to the browsers' records.
PublishedTo(w, r) ==
  LET c == watch[w].client
      c1 == watch'[w].client
  IN  /\ watch'[w].run = watch[w].run /\ c1.at = c.at /\ c1.near = c.near
      /\ c1.over = c.over /\ c1.upTo = c.upTo
      /\ CASE c.near /\ watch[w].run = r /\ c.at = "attached" ->
                /\ c1.got = c.got \cup {outbox[r]} /\ c1.since = outbox[r]
                /\ c1.slipped = c.slipped
           [] c.near /\ watch[w].run = r /\ c.at = "asked" /\ c.upTo < outbox[r] ->
                c1.slipped /\ c1.got = c.got /\ c1.since = c.since
           [] OTHER -> c1 = c

LEMMA Published ==
  ASSUME EngineTypes, NEW r \in RunId, Publish(r)
  PROVE  watch' \in [Watcher -> WatchType] /\ \A w \in Watcher : PublishedTo(w, r)
<1> DEFINE follows(x) == watch[x].client.near /\ watch[x].run = r
           sent(x) == [watch[x].client EXCEPT !.got = watch[x].client.got \cup {outbox[r]},
                                              !.since = outbox[r]]
           missed(x) == [watch[x].client EXCEPT !.slipped = TRUE]
           new(x) ==
             CASE follows(x) /\ watch[x].client.at = "attached" ->
                    [watch[x] EXCEPT !.client = sent(x)]
               [] follows(x) /\ watch[x].client.at = "asked" /\ watch[x].client.upTo < outbox[r] ->
                    [watch[x] EXCEPT !.client = missed(x)]
               [] OTHER -> watch[x]
<1>1. \A x \in Watcher : watch[x] \in WatchType /\ watch[x].client \in ClientType
  BY DEF EngineTypes, WatchType
<1>2. watch' = [x \in Watcher |-> new(x)]
  BY <1>1 DEF Publish, WatchType, ClientType
<1>3. \A x \in Watcher : sent(x) \in ClientType /\ missed(x) \in ClientType
  <2> SUFFICES ASSUME NEW x \in Watcher
               PROVE  sent(x) \in ClientType /\ missed(x) \in ClientType
    OBVIOUS
  <2>1. /\ outbox[r] \in Nat /\ watch[x].client.got \cup {outbox[r]} \in SUBSET Nat
        /\ watch[x].client \in ClientType
    BY <1>1 DEF EngineTypes, ClientType
  <2> QED BY <2>1 DEF ClientType
<1>4. \A x \in Watcher : new(x) \in WatchType
  BY <1>1, <1>3 DEF WatchType
<1>5. watch' \in [Watcher -> WatchType] BY <1>2, <1>4
<1>6. ASSUME NEW w \in Watcher PROVE PublishedTo(w, r)
  <2>1. watch[w] \in WatchType /\ watch[w].client \in ClientType /\ watch'[w] = new(w)
    BY <1>1, <1>2
  <2>2. /\ sent(w).at = watch[w].client.at /\ sent(w).near = watch[w].client.near
        /\ sent(w).over = watch[w].client.over /\ sent(w).upTo = watch[w].client.upTo
        /\ sent(w).got = watch[w].client.got \cup {outbox[r]} /\ sent(w).since = outbox[r]
        /\ sent(w).slipped = watch[w].client.slipped
    BY <2>1 DEF ClientType
  <2>3. /\ missed(w).at = watch[w].client.at /\ missed(w).near = watch[w].client.near
        /\ missed(w).over = watch[w].client.over /\ missed(w).upTo = watch[w].client.upTo
        /\ missed(w).got = watch[w].client.got /\ missed(w).since = watch[w].client.since
        /\ missed(w).slipped
    BY <2>1 DEF ClientType
  <2> HIDE DEF sent, missed
  <2>4. CASE follows(w) /\ watch[w].client.at = "attached"
    <3>1. new(w) = [watch[w] EXCEPT !.client = sent(w)] BY <2>4
    <3>2. new(w).run = watch[w].run /\ new(w).client = sent(w) BY <2>1, <3>1 DEF WatchType
    <3> QED BY <2>1, <2>2, <2>4, <3>2 DEF PublishedTo
  <2>5. CASE /\ follows(w) /\ watch[w].client.at = "asked"
             /\ watch[w].client.upTo < outbox[r]
    <3>1. new(w) = [watch[w] EXCEPT !.client = missed(w)] BY <2>5
    <3>2. new(w).run = watch[w].run /\ new(w).client = missed(w) BY <2>1, <3>1 DEF WatchType
    <3> QED BY <2>1, <2>3, <2>5, <3>2 DEF PublishedTo
  <2>6. CASE /\ ~(follows(w) /\ watch[w].client.at = "attached")
             /\ ~(follows(w) /\ watch[w].client.at = "asked" /\ watch[w].client.upTo < outbox[r])
    <3>1. new(w) = watch[w] BY <2>6
    <3> QED BY <2>1, <2>6, <3>1 DEF PublishedTo
  <2> QED BY <2>4, <2>5, <2>6
<1> QED BY <1>5, <1>6

\* Some streams end.
LEMMA StreamsEnd ==
  ASSUME EngineTypes, NEW who \in SUBSET Watcher, NEW point \in {"off", "closed"},
         watch' = [w \in Watcher |->
           IF w \in who THEN [watch[w] EXCEPT !.client.at = point] ELSE watch[w]]
  PROVE  /\ watch' \in [Watcher -> WatchType]
         /\ \A w \in Watcher :
              IF w \in who
              THEN /\ watch'[w].run = watch[w].run
                   /\ watch'[w].client = [watch[w].client EXCEPT !.at = point]
              ELSE watch'[w] = watch[w]
<1>1. \A w \in Watcher : watch[w] \in WatchType /\ watch[w].client \in ClientType
  BY DEF EngineTypes, WatchType
<1>2. \A w \in Watcher : /\ [watch[w].client EXCEPT !.at = point] \in ClientType
                         /\ [watch[w] EXCEPT !.client.at = point]
                              = [watch[w] EXCEPT !.client = [watch[w].client EXCEPT !.at = point]]
  BY <1>1 DEF ClientType, WatchType
<1>3. \A w \in Watcher : [watch[w] EXCEPT !.client.at = point] \in WatchType
  BY <1>1, <1>2 DEF WatchType
<1> QED BY <1>1, <1>2, <1>3 DEF WatchType

Listening(r) == {w \in Watcher : /\ watch[w].client.near /\ watch[w].run = r
                                 /\ watch[w].client.at = "attached"}
Nearby == {w \in Watcher : /\ watch[w].client.near
                           /\ watch[w].client.at \in {"opened", "asked", "attached"}}

LEMMA StreamsClosed ==
  ASSUME NEW r \in RunId, CloseStreams(r)
  PROVE  watch' = [w \in Watcher |-> IF w \in Listening(r)
                                     THEN [watch[w] EXCEPT !.client.at = "closed"] ELSE watch[w]]
BY DEF CloseStreams, Listening

LEMMA StreamsDied ==
  ASSUME NEW r \in RunId, ProcessDies(r)
  PROVE  watch' = [w \in Watcher |-> IF w \in Nearby
                                     THEN [watch[w] EXCEPT !.client.at = "off"] ELSE watch[w]]
BY DEF ProcessDies, Nearby

\* One browser's record changes.
LEMMA OneWatch ==
  ASSUME EngineTypes, NEW w \in Watcher, NEW new \in WatchType,
         watch' = [watch EXCEPT ![w] = new]
  PROVE  /\ watch' \in [Watcher -> WatchType] /\ watch'[w] = new
         /\ \A x \in Watcher : x # w => watch'[x] = watch[x]
BY DEF EngineTypes

\* What the browser's own steps do to its record.
LEMMA Opened ==
  ASSUME EngineTypes, NEW w \in Watcher, NEW r \in RunId, NEW near \in BOOLEAN,
         OpenStream(w, r, near)
  PROVE  /\ watch' \in [Watcher -> WatchType]
         /\ \A x \in Watcher : x # w => watch'[x] = watch[x]
         /\ watch'[w].run = r /\ watch'[w].client.at = "opened"
         /\ watch'[w].client.over <=> ~Running(r)
         /\ watch'[w].client.got = watch[w].client.got
         /\ watch'[w].client.since = watch[w].client.since
         /\ watch'[w].client.slipped = watch[w].client.slipped
<1> DEFINE c == [watch[w].client EXCEPT !.at = "opened", !.near = near, !.over = ~Running(r)]
<1>1. watch[w] \in WatchType /\ watch[w].client \in ClientType BY DEF EngineTypes, WatchType
<1>2. c \in ClientType BY <1>1 DEF ClientType, Running
<1>3. watch' = [watch EXCEPT ![w] = [watch[w] EXCEPT !.run = r, !.client = c]]
  BY <1>1 DEF OpenStream, EngineTypes, WatchType, ClientType
<1> HIDE DEF c
<1>4. /\ [watch[w] EXCEPT !.run = r, !.client = c] \in WatchType
      /\ [watch[w] EXCEPT !.run = r, !.client = c].run = r
      /\ [watch[w] EXCEPT !.run = r, !.client = c].client = c
  BY <1>1, <1>2 DEF WatchType
<1>5. /\ watch' \in [Watcher -> WatchType] /\ watch'[w].run = r /\ watch'[w].client = c
      /\ \A x \in Watcher : x # w => watch'[x] = watch[x]
  BY <1>3, <1>4, OneWatch
<1>6. /\ c.at = "opened" /\ (c.over <=> ~Running(r)) /\ c.got = watch[w].client.got
      /\ c.since = watch[w].client.since /\ c.slipped = watch[w].client.slipped
  BY <1>1 DEF c, ClientType, Running
<1> QED BY <1>5, <1>6

LEMMA Listed ==
  ASSUME EngineTypes, NEW w \in Watcher, AskEvents(w), watch[w].run \in RunId
  PROVE  /\ watch' \in [Watcher -> WatchType]
         /\ \A x \in Watcher : x # w => watch'[x] = watch[x]
         /\ watch'[w].run = watch[w].run
         /\ watch'[w].client = [watch[w].client EXCEPT !.at = "asked",
                                   !.upTo = Len(engine[watch[w].run].history)]
<1> DEFINE c == [watch[w].client EXCEPT !.at = "asked",
                                        !.upTo = Len(engine[watch[w].run].history)]
<1>1. watch[w] \in WatchType /\ watch[w].client \in ClientType BY DEF EngineTypes, WatchType
<1>2. engine[watch[w].run].history \in Seq(Event) BY DEF EngineTypes, RowType
<1>3. Len(engine[watch[w].run].history) \in Nat BY <1>2
<1>4. c \in ClientType BY <1>1, <1>3 DEF ClientType
<1>5. watch' = [watch EXCEPT ![w] = [watch[w] EXCEPT !.client = c]]
  BY <1>1 DEF AskEvents, EngineTypes, WatchType, ClientType
<1> HIDE DEF c
<1>6. /\ [watch[w] EXCEPT !.client = c] \in WatchType
      /\ [watch[w] EXCEPT !.client = c].run = watch[w].run
      /\ [watch[w] EXCEPT !.client = c].client = c
  BY <1>1, <1>4 DEF WatchType
<1>7. /\ watch' \in [Watcher -> WatchType] /\ watch'[w].run = watch[w].run
      /\ watch'[w].client = c /\ \A x \in Watcher : x # w => watch'[x] = watch[x]
  BY <1>5, <1>6, OneWatch
<1> QED BY <1>7 DEF c

LEMMA Attached ==
  ASSUME EngineTypes, NEW w \in Watcher, Attach(w)
  PROVE  LET c == watch[w].client
         IN  /\ watch' \in [Watcher -> WatchType]
             /\ \A x \in Watcher : x # w => watch'[x] = watch[x]
             /\ watch'[w].run = watch[w].run
             /\ watch'[w].client =
                  [c EXCEPT !.at = IF c.over THEN "closed" ELSE "attached",
                            !.got = c.got \cup Replayed(c),
                            !.since = IF Replayed(c) = {} THEN c.since ELSE c.upTo]
<1> DEFINE c == watch[w].client
           n == [c EXCEPT !.at = IF c.over THEN "closed" ELSE "attached",
                          !.got = c.got \cup Replayed(c),
                          !.since = IF Replayed(c) = {} THEN c.since ELSE c.upTo]
<1>1. watch[w] \in WatchType /\ c \in ClientType BY DEF EngineTypes, WatchType
<1>2. /\ (IF c.over THEN "closed" ELSE "attached") \in {"closed", "attached"}
      /\ c.got \cup Replayed(c) \in SUBSET Nat
      /\ (IF Replayed(c) = {} THEN c.since ELSE c.upTo) \in Nat
  <2>1. c.since \in Nat /\ c.upTo \in Nat /\ c.got \subseteq Nat BY <1>1 DEF ClientType
  <2> QED BY <2>1 DEF Replayed
<1>3. n \in ClientType BY <1>1, <1>2 DEF ClientType
<1>4. watch' = [watch EXCEPT ![w] = [watch[w] EXCEPT !.client = n]]
  BY <1>1 DEF Attach, EngineTypes, WatchType
<1> HIDE DEF n
<1>5. /\ [watch[w] EXCEPT !.client = n] \in WatchType
      /\ [watch[w] EXCEPT !.client = n].run = watch[w].run
      /\ [watch[w] EXCEPT !.client = n].client = n
  BY <1>1, <1>3 DEF WatchType
<1>6. /\ watch' \in [Watcher -> WatchType] /\ watch'[w].run = watch[w].run
      /\ watch'[w].client = n /\ \A x \in Watcher : x # w => watch'[x] = watch[x]
  BY <1>4, <1>5, OneWatch
<1> QED BY <1>6 DEF n

-----------------------------------------------------------------------------
(* The invariant.                                                          *)

Over(r) == engine[r].status \in Verdict \cup {"purged"}
HasVerdict(r) == \E i \in 1 .. Len(engine[r].history) : engine[r].history[i] \in Verdict

\* A verdict is in the history before it is in the row, except when the cron
\* stored it; nothing is left to publish once the streams are to be closed.
RunOK(r) ==
  /\ outbox[r] <= Len(engine[r].history)
  /\ actor[r] \in {"none", "closing", "gone"} => outbox[r] = 0
  /\ actor[r] \in {"finishing", "failed", "closing"} => HasVerdict(r)
  /\ engine[r].status \in Verdict => r \in reaped \/ HasVerdict(r)
  /\ engine[r].status = "purged" => actor[r] = "gone"

\* What a browser has: only events there are; all up to the last, unless one
\* slipped by; those published while it is attached or has been listed for it.
WatchOK(w) ==
  LET c == watch[w].client
      r == watch[w].run
      past == 1 .. Len(engine[r].history)
  IN  /\ c.at # "off" => r \in RunId
      /\ r \notin RunId => c.got = {}
      /\ c.slipped \/ 1 .. c.since \subseteq c.got
      /\ r \in RunId =>
           /\ engine[r].status # "purged" =>
                /\ c.got \subseteq past
                /\ c.at = "asked" => c.upTo \in {0} \cup past
                /\ c.at = "asked" /\ c.over =>
                     \/ r \in reaped
                     \/ \E i \in 1 .. c.upTo : engine[r].history[i] \in Verdict
                /\ c.at = "closed" =>
                     \/ \E seq \in c.got : engine[r].history[seq] \in Verdict
                     \/ r \in reaped \/ c.slipped
           /\ c.at = "attached" /\ c.near /\ ~c.slipped =>
                past \ {outbox[r]} \subseteq c.got
           /\ c.at = "asked" /\ c.near /\ ~c.slipped =>
                past \ {outbox[r]} \subseteq 1 .. c.upTo
           /\ c.at \in {"opened", "asked"} /\ c.over => Over(r)

RunsOK    == \A r \in RunId : RunOK(r)
WatchesOK == \A w \in Watcher : WatchOK(w)
EngineInv == EngineTypes /\ RunsOK /\ WatchesOK

LEMMA InvStart == EngineInit => EngineInv
<1> SUFFICES ASSUME EngineInit PROVE EngineInv OBVIOUS
<1>1. EngineTypes BY TypesStart
<1>2. RunsOK BY DEF EngineInit, RunsOK, RunOK, NoRun, Verdict
<1>3. WatchesOK
  <2> SUFFICES ASSUME NEW w \in Watcher PROVE WatchOK(w) BY DEF WatchesOK
  <2>1. watch[w].client = Off BY DEF EngineInit
  <2>2. \A r \in RunId : engine[r].history = <<>> BY DEF EngineInit, NoRun
  <2> QED BY <2>1, <2>2 DEF WatchOK, Off
<1> QED BY <1>1, <1>2, <1>3 DEF EngineInv

\* How the rows may change under a browser that does nothing: a row keeps its
\* events and gains at most one, which is to be published, or it is purged; a
\* run that is over stays over.
Gains(r) ==
  \/ UNCHANGED <<engine[r].history, outbox[r]>>
  \/ /\ \E type \in Event : engine'[r].history = Append(engine[r].history, type)
     /\ outbox[r] = 0 /\ outbox'[r] = Len(engine[r].history) + 1
Emptied(r) == engine'[r].history = <<>> /\ engine'[r].status = "purged"
Advances(r) == /\ Gains(r) \/ Emptied(r)
               /\ Over(r) => Over(r)'
               /\ engine[r].status = "purged" => engine'[r].status = "purged"

LEMMA HistoryGains ==
  ASSUME EngineTypes, EngineTypes', NEW r \in RunId, Gains(r)
  PROVE  /\ Len(engine[r].history) \in Nat /\ Len(engine'[r].history) \in Nat
         /\ 1 .. Len(engine[r].history) \subseteq 1 .. Len(engine'[r].history)
         /\ \A i \in 1 .. Len(engine[r].history) : engine'[r].history[i] = engine[r].history[i]
         /\ 1 .. Len(engine'[r].history) \ {outbox'[r]}
              = (1 .. Len(engine[r].history)) \ {outbox[r]}
<1>1. engine[r] \in RowType /\ engine'[r] \in RowType BY DEF EngineTypes
<1>2. engine[r].history \in Seq(Event) /\ engine'[r].history \in Seq(Event)
  BY <1>1 DEF RowType
<1>3. CASE UNCHANGED <<engine[r].history, outbox[r]>> BY <1>2, <1>3
<1>4. CASE /\ \E type \in Event : engine'[r].history = Append(engine[r].history, type)
           /\ outbox[r] = 0 /\ outbox'[r] = Len(engine[r].history) + 1
  <2>1. PICK type \in Event : engine'[r].history = Append(engine[r].history, type)
    BY <1>4
  <2>2. Len(engine'[r].history) = Len(engine[r].history) + 1 BY <1>2, <2>1
  <2>3. \A i \in 1 .. Len(engine[r].history) : engine'[r].history[i] = engine[r].history[i]
    BY <1>2, <2>1
  <2> QED BY <1>2, <1>4, <2>2, <2>3
<1> QED BY <1>3, <1>4 DEF Gains

LEMMA BystanderOK ==
  ASSUME EngineTypes, EngineTypes', NEW w \in Watcher, WatchOK(w), watch'[w] = watch[w],
         watch[w].run \in RunId => Advances(watch[w].run), reaped \subseteq reaped'
  PROVE  WatchOK(w)'
<1> DEFINE c == watch[w].client
           r == watch[w].run
<1>0. c \in ClientType /\ c.upTo \in Nat BY DEF EngineTypes, WatchType, ClientType
<1>1. CASE r \notin RunId BY <1>1 DEF WatchOK
<1>2. CASE r \in RunId /\ Gains(r)
  <2>1. /\ Over(r) => Over(r)'
        /\ engine'[r].status # "purged" => engine[r].status # "purged"
    BY <1>2 DEF Advances
  <2>2. /\ Len(engine[r].history) \in Nat /\ Len(engine'[r].history) \in Nat
        /\ 1 .. Len(engine[r].history) \subseteq 1 .. Len(engine'[r].history)
        /\ \A i \in 1 .. Len(engine[r].history) : engine'[r].history[i] = engine[r].history[i]
        /\ 1 .. Len(engine'[r].history) \ {outbox'[r]}
              = (1 .. Len(engine[r].history)) \ {outbox[r]}
    BY <1>2, HistoryGains
  <2>3. ASSUME engine'[r].status # "purged"
        PROVE  /\ c.got \subseteq 1 .. Len(engine'[r].history)
               /\ c.at = "asked" => c.upTo \in {0} \cup 1 .. Len(engine'[r].history)
               /\ c.at = "asked" /\ c.over =>
                    \/ r \in reaped'
                    \/ \E i \in 1 .. c.upTo : engine'[r].history[i] \in Verdict
               /\ c.at = "closed" =>
                    \/ \E seq \in c.got : engine'[r].history[seq] \in Verdict
                    \/ r \in reaped' \/ c.slipped
    <3>1. c.got \subseteq 1 .. Len(engine[r].history)
      BY <1>2, <2>1, <2>3 DEF WatchOK
    <3>2. c.at = "asked" => c.upTo \in {0} \cup 1 .. Len(engine[r].history)
      BY <1>2, <2>1, <2>3 DEF WatchOK
    <3>3. ASSUME c.at = "asked", c.over, r \notin reaped'
          PROVE  \E i \in 1 .. c.upTo : engine'[r].history[i] \in Verdict
      <4>1. PICK i \in 1 .. c.upTo : engine[r].history[i] \in Verdict
        BY <1>2, <2>1, <2>3, <3>3 DEF WatchOK
      <4>2. i \in 1 .. Len(engine[r].history) BY <1>0, <2>2, <3>2, <3>3
      <4> QED BY <2>2, <4>1, <4>2
    <3>4. ASSUME c.at = "closed", ~c.slipped, r \notin reaped'
          PROVE  \E seq \in c.got : engine'[r].history[seq] \in Verdict
      <4>1. PICK seq \in c.got : engine[r].history[seq] \in Verdict
        BY <1>2, <2>1, <2>3, <3>4 DEF WatchOK
      <4> QED BY <2>2, <3>1, <4>1
    <3> QED BY <2>2, <3>1, <3>2, <3>3, <3>4
  <2> QED BY <1>2, <2>1, <2>2, <2>3 DEF WatchOK
<1>3. CASE r \in RunId /\ Emptied(r)
  <2>1. 1 .. Len(engine'[r].history) = {} BY <1>3 DEF Emptied
  <2> QED BY <1>3, <2>1 DEF WatchOK, Emptied, Over
<1> QED BY <1>1, <1>2, <1>3 DEF Advances

LEMMA TypesStep == EngineTypes /\ WatchesOK /\ [EngineNext]_engineVars => EngineTypes'
<1> SUFFICES ASSUME EngineTypes, WatchesOK, [EngineNext]_engineVars PROVE EngineTypes' OBVIOUS
<1> USE DEF EngineTypes
<1>1. ASSUME NEW r \in RunId, CreateRun(r) PROVE EngineTypes'
  <2>1. engine' = [engine EXCEPT ![r] = [engine[r] EXCEPT !.status = "running"]]
    BY <1>1 DEF CreateRun
  <2>2. engine' \in [RunId -> RowType] BY <2>1 DEF RowType
  <2> QED BY <1>1, <2>2 DEF CreateRun, Goes
<1>2. ASSUME NEW r \in RunId, NEW orphan \in RunId, CreateResent(r, orphan) PROVE EngineTypes'
  <2>1. [NoRun EXCEPT !.status = "running"] \in RowType BY NoRunTyped DEF RowType
  <2>2. /\ engine[r] = NoRun /\ engine[orphan] = NoRun /\ r # orphan
        /\ engine' = [engine EXCEPT ![r].status = "running", ![orphan].status = "running"]
    BY <1>2 DEF CreateResent
  <2>3. engine' = [x \in RunId |-> IF x \in {r, orphan} THEN [NoRun EXCEPT !.status = "running"]
                                   ELSE engine[x]]
    BY <2>2
  <2>4. engine' \in [RunId -> RowType] BY <2>1, <2>3
  <2> QED BY <1>2, <2>4, FaultTyped DEF CreateResent
<1>3. ASSUME NEW r \in RunId,
             EmitStarted(r) \/ EmitProgress(r) \/ EmitDone(r) \/ EmitFailed(r)
      PROVE  EngineTypes'
  <2>1. PICK type \in Event, point \in {"working", "finishing", "failed"} :
          Append1(r, type, point)
    BY <1>3, Emits
  <2>2. engine[r].history \in Seq(Event) BY DEF RowType
  <2>3. Len(engine[r].history) + 1 \in Nat BY <2>2
  <2>4. /\ engine' \in [RunId -> RowType]
        /\ outbox' = [outbox EXCEPT ![r] = Len(engine[r].history) + 1]
        /\ actor' = [actor EXCEPT ![r] = point] /\ UNCHANGED <<watch, reaped, engineFaults>>
    <3> HIDE DEF EngineTypes
    <3> QED BY <2>1, Appended
  <2> QED BY <2>3, <2>4
<1>4. ASSUME NEW r \in RunId, Publish(r) PROVE EngineTypes'
  BY <1>4, Published DEF Publish
<1>5. ASSUME NEW r \in RunId, StoreVerdict(r) \/ StatementFails(r) PROVE EngineTypes'
  <2>1. UNCHANGED engine \/ \E status \in {"running", "done", "failed"} : SetStatus(r, status)
    BY <1>5 DEF StoreVerdict, StatementFails
  <2>2. engine' \in [RunId -> RowType] BY <2>1, StatusSet
  <2> QED BY <1>5, <2>2, FaultTyped DEF StoreVerdict, StatementFails, Goes
<1>6. ASSUME NEW r \in RunId, CloseStreams(r) PROVE EngineTypes'
  <2>1. watch' \in [Watcher -> WatchType]
    <3> HIDE DEF EngineTypes
    <3>1. Listening(r) \in SUBSET Watcher BY DEF Listening
    <3> QED BY <1>6, <3>1, StreamsClosed, StreamsEnd
  <2> QED BY <1>6, <2>1 DEF CloseStreams, Goes
<1>7. ASSUME NEW r \in RunId, ProcessDies(r) PROVE EngineTypes'
  <2>1. watch' \in [Watcher -> WatchType]
    <3> HIDE DEF EngineTypes
    <3>1. Nearby \in SUBSET Watcher BY DEF Nearby
    <3> QED BY <1>7, <3>1, StreamsDied, StreamsEnd
  <2>2. engineFaults' \in 0 .. MaxEngineFaults BY <1>7, FaultTyped DEF ProcessDies
  <2> QED BY <1>7, <2>1, <2>2 DEF ProcessDies, Goes
<1>8. ASSUME NEW r \in RunId, Silence(r) PROVE EngineTypes'
  <2>1. engine' = [engine EXCEPT ![r] = [engine[r] EXCEPT !.silent = TRUE]]
    BY <1>8 DEF Silence
  <2>2. engine' \in [RunId -> RowType] BY <2>1 DEF RowType
  <2> QED BY <1>8, <2>2 DEF Silence
<1>9. ASSUME Reap PROVE EngineTypes'
  <2>1. \A r \in RunId : [engine[r] EXCEPT !.status = "failed"] \in RowType BY DEF RowType
  <2> QED BY <1>9, <2>1 DEF Reap, Abandoned
<1>10. ASSUME NEW r \in RunId, Purge(r) PROVE EngineTypes'
  <2>1. [NoRun EXCEPT !.status = "purged"] \in RowType BY NoRunTyped DEF RowType
  <2> QED BY <1>10, <2>1 DEF Purge
<1>11. ASSUME NEW w \in Watcher, NEW r \in RunId, NEW near \in BOOLEAN, OpenStream(w, r, near)
       PROVE  EngineTypes'
  <2>1. watch' \in [Watcher -> WatchType]
    <3> HIDE DEF EngineTypes
    <3> QED BY <1>11, Opened
  <2> QED BY <1>11, <2>1 DEF OpenStream
<1>12. ASSUME NEW w \in Watcher, AskEvents(w) PROVE EngineTypes'
  <2>1. watch' \in [Watcher -> WatchType]
    <3> HIDE DEF EngineTypes
    <3> QED BY <1>12, Listed DEF AskEvents, WatchesOK, WatchOK
  <2> QED BY <1>12, <2>1 DEF AskEvents
<1>13. ASSUME NEW w \in Watcher, Attach(w) PROVE EngineTypes'
  <2>1. watch' \in [Watcher -> WatchType]
    <3> HIDE DEF EngineTypes
    <3> QED BY <1>13, Attached
  <2> QED BY <1>13, <2>1 DEF Attach
<1>14. ASSUME NEW w \in Watcher, DropStream(w) PROVE EngineTypes'
  <2>1. watch' = [watch EXCEPT ![w] = [watch[w] EXCEPT !.client = [watch[w].client EXCEPT !.at = "off"]]]
    BY <1>14 DEF DropStream, WatchType, ClientType
  <2>2. watch[w] \in WatchType /\ [watch[w].client EXCEPT !.at = "off"] \in ClientType
    BY DEF WatchType, ClientType
  <2>3. [watch[w] EXCEPT !.client = [watch[w].client EXCEPT !.at = "off"]] \in WatchType
    BY <2>2 DEF WatchType
  <2>4. watch' \in [Watcher -> WatchType] BY <2>1, <2>3
  <2> QED BY <1>14, <2>4, FaultTyped DEF DropStream
<1>15. CASE UNCHANGED engineVars BY <1>15 DEF engineVars
<1> QED BY <1>1, <1>2, <1>3, <1>4, <1>5, <1>6, <1>7, <1>8, <1>9, <1>10, <1>11, <1>12, <1>13,
           <1>14, <1>15 DEF EngineNext, EngineStep, CronStep

LEMMA VerdictKept ==
  ASSUME EngineTypes, EngineTypes', NEW r \in RunId, Gains(r), HasVerdict(r)
  PROVE  HasVerdict(r)'
BY HistoryGains DEF HasVerdict

\* The rows and the processes.
LEMMA RunsStep ==
  ASSUME EngineInv, EngineTypes', [EngineNext]_engineVars
  PROVE  /\ RunsOK'
         /\ \A r \in RunId : Advances(r) \/ Publish(r) \/ ProcessDies(r)
         /\ reaped \subseteq reaped'
<1> DEFINE Moves(r) == Advances(r) \/ Publish(r) \/ ProcessDies(r)
           Goal == /\ RunsOK'
                   /\ \A r \in RunId : Moves(r)
                   /\ reaped \subseteq reaped'
<1> USE DEF EngineInv
<1>0. \A r \in RunId :
        /\ engine[r] \in RowType /\ engine[r].history \in Seq(Event)
        /\ Len(engine[r].history) \in Nat /\ outbox[r] \in Nat
  BY DEF EngineTypes, RowType
<1>1. ASSUME NEW x \in RunId, UNCHANGED <<engine[x], outbox[x], actor[x]>>, reaped \subseteq reaped'
      PROVE  RunOK(x)' /\ Advances(x)
  BY <1>1 DEF RunsOK, RunOK, HasVerdict, Advances, Gains, Over
<1>2. ASSUME NEW r \in RunId, CreateRun(r) PROVE Goal
  <2>1. /\ engine[r] = NoRun /\ engine' = [engine EXCEPT ![r] = [NoRun EXCEPT !.status = "running"]]
        /\ actor' = [actor EXCEPT ![r] = "created"] /\ UNCHANGED <<outbox, reaped>>
        /\ actor[r] = "none"
    BY <1>2 DEF CreateRun, Goes
  <2>2. RunOK(r)' /\ Advances(r)
    BY <2>1 DEF RunsOK, RunOK, HasVerdict, Advances, Gains, Over, NoRun, Verdict, EngineTypes
  <2>3. ASSUME NEW x \in RunId, x # r PROVE RunOK(x)' /\ Advances(x)
    BY <1>1, <2>1, <2>3 DEF EngineTypes
  <2> QED BY <2>1, <2>2, <2>3 DEF RunsOK
<1>3. ASSUME NEW r \in RunId, NEW orphan \in RunId, CreateResent(r, orphan) PROVE Goal
  <2>1. /\ engine[r] = NoRun /\ engine[orphan] = NoRun /\ r # orphan
        /\ engine' = [engine EXCEPT ![r].status = "running", ![orphan].status = "running"]
        /\ actor' = [actor EXCEPT ![r] = "created", ![orphan] = "gone"]
        /\ actor[r] = "none" /\ actor[orphan] = "none" /\ UNCHANGED <<outbox, reaped>>
    BY <1>3 DEF CreateResent
  <2>2. ASSUME NEW x \in {r, orphan} PROVE RunOK(x)' /\ Advances(x)
    <3>1. /\ engine[x] = NoRun /\ engine'[x] = [NoRun EXCEPT !.status = "running"]
          /\ actor'[x] \in {"created", "gone"} /\ actor[x] = "none" /\ x \in RunId
      BY <2>1 DEF EngineTypes
    <3>2. outbox[x] = 0 /\ outbox'[x] = 0 BY <2>1, <3>1 DEF RunsOK, RunOK
    <3>3. engine'[x].status = "running" /\ engine'[x].history = engine[x].history
      BY <3>1 DEF NoRun
    <3>4. RunOK(x)' BY <1>0, <3>1, <3>2, <3>3 DEF RunsOK, RunOK, Verdict
    <3>5. Advances(x) BY <3>1, <3>2, <3>3 DEF Advances, Gains, Over, NoRun, Verdict
    <3> QED BY <3>4, <3>5
  <2>3. ASSUME NEW x \in RunId, x \notin {r, orphan} PROVE RunOK(x)' /\ Advances(x)
    BY <1>1, <2>1, <2>3 DEF EngineTypes
  <2> QED BY <2>1, <2>2, <2>3 DEF RunsOK
<1>4. ASSUME NEW r \in RunId,
             EmitStarted(r) \/ EmitProgress(r) \/ EmitDone(r) \/ EmitFailed(r)
      PROVE  Goal
  <2>1. PICK type \in Event, point \in {"working", "finishing", "failed"} :
          /\ Append1(r, type, point)
          /\ point # "working" => type \in Verdict
          /\ actor[r] \in {"created", "working", "failing"}
    BY <1>4, Emits
  <2>2. /\ engine'[r].history = Append(engine[r].history, type)
        /\ engine'[r].status = engine[r].status
        /\ \A x \in RunId : x # r => engine'[x] = engine[x]
        /\ outbox[r] = 0 /\ outbox' = [outbox EXCEPT ![r] = Len(engine[r].history) + 1]
        /\ actor' = [actor EXCEPT ![r] = point]
        /\ UNCHANGED <<watch, reaped, engineFaults>>
    BY <2>1, Appended
  <2>3. outbox'[r] = Len(engine[r].history) + 1 /\ actor'[r] = point
    BY <2>2 DEF EngineTypes
  <2>4. Gains(r) BY <2>2, <2>3 DEF Gains
  <2>5. Advances(r) BY <2>2, <2>4 DEF Advances, Over
  <2>6. /\ Len(engine'[r].history) = Len(engine[r].history) + 1
        /\ engine'[r].history[Len(engine[r].history) + 1] = type
    BY <1>0, <2>2
  <2>7. type \in Verdict => HasVerdict(r)' BY <1>0, <2>6 DEF HasVerdict
  <2>8. HasVerdict(r) => HasVerdict(r)' BY <2>4, VerdictKept
  <2>9. engine[r].status # "purged" BY <2>1 DEF RunsOK, RunOK
  <2>10. RunOK(r)'
    BY <1>0, <2>1, <2>2, <2>3, <2>6, <2>7, <2>8, <2>9 DEF RunsOK, RunOK
  <2>11. ASSUME NEW x \in RunId, x # r PROVE RunOK(x)' /\ Advances(x)
    BY <1>1, <2>2, <2>11 DEF EngineTypes
  <2> QED BY <2>2, <2>5, <2>10, <2>11 DEF RunsOK
<1>5. ASSUME NEW r \in RunId, NEW status \in {"running", "done", "failed"}, SetStatus(r, status),
             status # "running" => HasVerdict(r),
             status = "running" => engine[r].status = "running",
             NEW point, actor' = [actor EXCEPT ![r] = point], actor[r] # "gone",
             point \in {"failing", "gone"} \/ (point = "closing" /\ HasVerdict(r)),
             outbox[r] = 0, UNCHANGED <<outbox, reaped>>
      PROVE  Goal
  <2>1. /\ engine'[r].history = engine[r].history /\ engine'[r].status = status
        /\ \A x \in RunId : x # r => engine'[x] = engine[x]
    BY <1>5, StatusSet
  <2>2. actor'[r] = point BY <1>5 DEF EngineTypes
  <2>3. engine[r].status # "purged" BY <1>5 DEF RunsOK, RunOK
  <2>4. HasVerdict(r)' = HasVerdict(r) BY <2>1 DEF HasVerdict
  <2>5. RunOK(r)' BY <1>0, <1>5, <2>1, <2>2, <2>3, <2>4 DEF RunOK, Verdict
  <2>6. Advances(r) BY <1>5, <2>1, <2>3 DEF Advances, Gains, Over, Verdict
  <2>7. ASSUME NEW x \in RunId, x # r PROVE RunOK(x)' /\ Moves(x)
    BY <1>1, <1>5, <2>1, <2>7 DEF EngineTypes
  <2> QED BY <1>5, <2>5, <2>6, <2>7 DEF RunsOK
<1>6. ASSUME NEW r \in RunId, StoreVerdict(r) PROVE Goal
  <2>1. HasVerdict(r) BY <1>6 DEF StoreVerdict, RunsOK, RunOK
  <2> QED BY <1>5, <1>6, <2>1 DEF StoreVerdict, Goes
<1>7. ASSUME NEW r \in RunId, UNCHANGED <<engine, reaped>>,
             \A x \in RunId : x # r => outbox'[x] = outbox[x], outbox'[r] = 0,
             NEW point \in {"failing", "gone", actor[r]}, actor' = [actor EXCEPT ![r] = point],
             actor[r] # "gone", outbox[r] = 0 \/ Publish(r) \/ ProcessDies(r)
      PROVE  Goal
  <2>1. actor'[r] = point BY <1>7 DEF EngineTypes
  <2>2. engine[r].status # "purged" BY <1>7 DEF RunsOK, RunOK
  <2>3. HasVerdict(r)' = HasVerdict(r) BY <1>7 DEF HasVerdict
  <2>4. RunOK(r)' BY <1>0, <1>7, <2>1, <2>2, <2>3 DEF RunsOK, RunOK
  <2>5. Moves(r) BY <1>7, <2>2 DEF Advances, Gains, Over
  <2>6. ASSUME NEW x \in RunId, x # r PROVE RunOK(x)' /\ Moves(x)
    <3>1. UNCHANGED <<engine[x], outbox[x], actor[x]>> BY <1>7, <2>6 DEF EngineTypes
    <3> QED BY <1>1, <1>7, <3>1
  <2> QED BY <1>7, <2>4, <2>5, <2>6 DEF RunsOK
<1>8. ASSUME NEW r \in RunId, StatementFails(r) PROVE Goal
  <2> DEFINE point == IF actor[r] \in {"working", "finishing"} THEN "failing" ELSE "gone"
  <2>1. /\ point \in {"failing", "gone"} /\ actor' = [actor EXCEPT ![r] = point]
        /\ outbox[r] = 0 /\ UNCHANGED <<outbox, reaped>> /\ actor[r] # "gone"
    BY <1>8 DEF StatementFails, Goes
  <2> HIDE DEF point
  <2>2. CASE UNCHANGED engine BY <1>7, <2>1, <2>2
  <2>3. CASE actor[r] = "finishing" /\ SetStatus(r, "done")
    <3>1. HasVerdict(r) BY <2>3 DEF RunsOK, RunOK
    <3> QED BY <1>5, <2>1, <2>3, <3>1
  <2>4. CASE actor[r] = "failed" /\ SetStatus(r, "failed")
    <3>1. HasVerdict(r) BY <2>4 DEF RunsOK, RunOK
    <3> QED BY <1>5, <2>1, <2>4, <3>1
  <2> QED BY <1>8, <2>2, <2>3, <2>4 DEF StatementFails
<1>9. ASSUME NEW r \in RunId, ProcessDies(r) PROVE Goal
  <2>1. /\ UNCHANGED <<engine, reaped>> /\ outbox' = [outbox EXCEPT ![r] = 0]
        /\ actor' = [actor EXCEPT ![r] = "gone"] /\ actor[r] # "gone"
    BY <1>9 DEF ProcessDies, Goes
  <2>2. outbox'[r] = 0 /\ \A x \in RunId : x # r => outbox'[x] = outbox[x]
    BY <2>1 DEF EngineTypes
  <2> QED BY <1>7, <1>9, <2>1, <2>2
<1>10. ASSUME NEW r \in RunId, CloseStreams(r) PROVE Goal
  <2>1. /\ UNCHANGED <<engine, outbox, reaped>> /\ actor[r] = "closing"
        /\ actor' = [actor EXCEPT ![r] = "gone"]
    BY <1>10 DEF CloseStreams, Goes
  <2>2. outbox[r] = 0 /\ outbox'[r] = 0 BY <2>1 DEF RunsOK, RunOK
  <2> QED BY <1>7, <2>1, <2>2
<1>11. ASSUME NEW r \in RunId, Publish(r) PROVE Goal
  <2>1. /\ outbox' = [outbox EXCEPT ![r] = 0] /\ UNCHANGED <<engine, actor, reaped>>
        /\ outbox[r] # 0
    BY <1>11 DEF Publish
  <2>2. outbox'[r] = 0 /\ \A x \in RunId : x # r => outbox'[x] = outbox[x]
    BY <2>1 DEF EngineTypes
  <2>3. actor[r] # "gone" BY <2>1 DEF RunsOK, RunOK
  <2>4. actor' = [actor EXCEPT ![r] = actor[r]] BY <2>1 DEF EngineTypes
  <2> QED BY <1>7, <1>11, <2>1, <2>2, <2>3, <2>4
<1>12. ASSUME NEW r \in RunId, Silence(r) PROVE Goal
  <2>1. /\ engine' = [engine EXCEPT ![r] = [engine[r] EXCEPT !.silent = TRUE]]
        /\ UNCHANGED <<actor, outbox, reaped>>
    BY <1>12 DEF Silence
  <2>2. \A x \in RunId : /\ engine'[x].history = engine[x].history
                         /\ engine'[x].status = engine[x].status
    BY <2>1 DEF EngineTypes, RowType
  <2>3. \A x \in RunId : HasVerdict(x)' = HasVerdict(x) BY <2>2 DEF HasVerdict
  <2>4. \A x \in RunId : RunOK(x)' BY <2>1, <2>2, <2>3 DEF RunsOK, RunOK
  <2>5. \A x \in RunId : Advances(x) BY <2>1, <2>2 DEF Advances, Gains, Over
  <2> QED BY <2>1, <2>4, <2>5 DEF RunsOK
<1>13. ASSUME Reap PROVE Goal
  <2>1. /\ \A x \in RunId : engine'[x] = IF x \in Abandoned THEN [engine[x] EXCEPT !.status = "failed"]
                                         ELSE engine[x]
        /\ reaped' = reaped \cup Abandoned /\ UNCHANGED <<actor, outbox>>
    BY <1>13 DEF Reap
  <2>2. ASSUME NEW x \in RunId, x \in Abandoned PROVE RunOK(x)' /\ Advances(x)
    <3>1. /\ engine'[x].history = engine[x].history /\ engine'[x].status = "failed"
          /\ engine[x].status = "running" /\ x \in reaped'
      BY <1>0, <2>1, <2>2 DEF Abandoned, Running, RowType
    <3>2. HasVerdict(x)' = HasVerdict(x) BY <3>1 DEF HasVerdict
    <3>3. RunOK(x)' BY <2>1, <3>1, <3>2 DEF RunsOK, RunOK
    <3>4. Advances(x) BY <2>1, <3>1 DEF Advances, Gains, Over, Verdict
    <3> QED BY <3>3, <3>4
  <2>3. ASSUME NEW x \in RunId, x \notin Abandoned PROVE RunOK(x)' /\ Advances(x)
    <3>1. UNCHANGED <<engine[x], outbox[x], actor[x]>> BY <2>1, <2>3
    <3> QED BY <1>1, <2>1, <3>1
  <2> QED BY <2>1, <2>2, <2>3 DEF RunsOK
<1>14. ASSUME NEW r \in RunId, Purge(r) PROVE Goal
  <2>1. /\ engine' = [engine EXCEPT ![r] = [NoRun EXCEPT !.status = "purged"]]
        /\ UNCHANGED <<actor, outbox, reaped>> /\ actor[r] = "gone"
    BY <1>14 DEF Purge
  <2>2. engine'[r].status = "purged" /\ engine'[r].history = <<>>
    BY <2>1 DEF EngineTypes, NoRun
  <2>3. RunOK(r)' BY <2>1, <2>2 DEF RunsOK, RunOK, Verdict
  <2>4. Advances(r) BY <2>2 DEF Advances, Emptied, Over
  <2>5. ASSUME NEW x \in RunId, x # r PROVE RunOK(x)' /\ Advances(x)
    BY <1>1, <2>1, <2>5 DEF EngineTypes
  <2> QED BY <2>1, <2>3, <2>4, <2>5 DEF RunsOK
<1>15. CASE \/ \E w \in Watcher : \/ AskEvents(w) \/ Attach(w) \/ DropStream(w)
                                  \/ \E r \in RunId, near \in BOOLEAN : OpenStream(w, r, near)
            \/ UNCHANGED engineVars
  <2>1. UNCHANGED <<engine, actor, outbox, reaped>>
    <3>1. ASSUME NEW w \in Watcher,
                 \/ AskEvents(w) \/ Attach(w) \/ DropStream(w)
                 \/ \E r \in RunId, near \in BOOLEAN : OpenStream(w, r, near)
          PROVE  UNCHANGED <<engine, actor, outbox, reaped>>
      BY <3>1 DEF AskEvents, Attach, DropStream, OpenStream
    <3>2. ASSUME UNCHANGED engineVars PROVE UNCHANGED <<engine, actor, outbox, reaped>>
      BY <3>2 DEF engineVars
    <3> QED BY <1>15, <3>1, <3>2
  <2>2. \A r \in RunId : RunOK(r)' /\ Advances(r) BY <1>1, <2>1
  <2> QED BY <2>1, <2>2 DEF RunsOK
<1> QED BY <1>2, <1>3, <1>4, <1>6, <1>8, <1>9, <1>10, <1>11, <1>12, <1>13, <1>14, <1>15
        DEF EngineNext, EngineStep, CronStep

\* A browser whose stream is off, or is not of the run's instance, is not
\* concerned by what is published there.
LEMMA FarOK ==
  ASSUME NEW w \in Watcher, WatchOK(w), watch'[w].run = watch[w].run, NEW at \in {"off", watch[w].client.at},
         watch'[w].client = [watch[w].client EXCEPT !.at = at], EngineTypes,
         at \in {"off", "closed"} \/ ~watch[w].client.near, UNCHANGED <<engine, reaped>>
  PROVE  WatchOK(w)'
<1>1. watch[w].client \in ClientType BY DEF EngineTypes, WatchType
<1>2. /\ watch'[w].client.at = at /\ watch'[w].client.near = watch[w].client.near
      /\ watch'[w].client.over = watch[w].client.over
      /\ watch'[w].client.upTo = watch[w].client.upTo
      /\ watch'[w].client.since = watch[w].client.since
      /\ watch'[w].client.got = watch[w].client.got
      /\ watch'[w].client.slipped = watch[w].client.slipped
  BY <1>1 DEF ClientType
<1>3. \A r \in RunId : Over(r)' = Over(r) BY DEF Over
<1> QED BY <1>2, <1>3 DEF WatchOK

LEMMA WatchesStep ==
  ASSUME EngineInv, EngineTypes', [EngineNext]_engineVars
  PROVE  WatchesOK'
<1> USE DEF EngineInv
<1>t. EngineTypes /\ RunsOK /\ WatchesOK BY DEF EngineInv
<1>0. \A w \in Watcher : /\ watch[w] \in WatchType /\ watch[w].client \in ClientType
                         /\ WatchOK(w)
  BY <1>t DEF EngineTypes, WatchType, WatchesOK
<1>1. \A r \in RunId : Advances(r) \/ Publish(r) \/ ProcessDies(r) BY RunsStep
<1>2. reaped \subseteq reaped' BY RunsStep
<1>3. ASSUME \A r \in RunId : ~Publish(r) /\ ~ProcessDies(r),
             NEW w \in Watcher, watch'[w] = watch[w]
      PROVE  WatchOK(w)'
  BY <1>0, <1>1, <1>2, <1>3, BystanderOK
<1>4. ASSUME NEW r \in RunId, Publish(r) PROVE WatchesOK'
  <2>1. /\ outbox' = [outbox EXCEPT ![r] = 0] /\ outbox[r] # 0 /\ UNCHANGED <<engine, actor, reaped>>
    BY <1>4 DEF Publish
  <2>2. engine[r].history \in Seq(Event) BY DEF EngineTypes, RowType
  <2>3. outbox'[r] = 0 /\ outbox[r] \in 1 .. Len(engine[r].history)
    BY <2>1, <2>2 DEF EngineTypes, RunsOK, RunOK
  <2>4. SUFFICES ASSUME NEW w \in Watcher PROVE WatchOK(w)' BY DEF WatchesOK
  <2> DEFINE c == watch[w].client
  <2>5. PublishedTo(w, r) BY <1>4, Published
  <2>6. CASE watch[w].run # r
    <3>1. /\ watch'[w].run = watch[w].run /\ watch'[w].client = c
          /\ watch[w].run \in RunId => outbox'[watch[w].run] = outbox[watch[w].run]
      BY <2>1, <2>5, <2>6 DEF PublishedTo, EngineTypes
    <3> QED BY <1>0, <2>1, <3>1 DEF WatchOK, Over
  <2>7. CASE watch[w].run = r /\ ~c.near
    <3>1. watch'[w].run = watch[w].run /\ watch'[w].client = c
      BY <2>5, <2>7 DEF PublishedTo
    <3> QED BY <1>0, <2>1, <2>7, <3>1 DEF WatchOK, Over
  <2>8. CASE watch[w].run = r /\ c.near /\ c.at \notin {"asked", "attached"}
    <3>1. watch'[w].run = watch[w].run /\ watch'[w].client = c
      BY <2>5, <2>8 DEF PublishedTo
    <3> QED BY <1>0, <2>1, <2>8, <3>1 DEF WatchOK, Over
  <2>9. CASE watch[w].run = r /\ c.near /\ c.at = "asked"
    <3>1. CASE c.upTo < outbox[r]
      <4>1. /\ watch'[w].run = r /\ watch'[w].client.at = "asked" /\ watch'[w].client.slipped
            /\ watch'[w].client.got = c.got /\ watch'[w].client.upTo = c.upTo
            /\ watch'[w].client.over = c.over
        BY <2>5, <2>9, <3>1 DEF PublishedTo
      <4> QED BY <1>0, <2>1, <2>9, <4>1 DEF WatchOK, Over
    <3>2. CASE ~(c.upTo < outbox[r])
      <4>1. watch'[w].run = r /\ watch'[w].client = c
        BY <2>5, <2>9, <3>2 DEF PublishedTo
      <4>2. outbox[r] \in 1 .. c.upTo BY <1>0, <2>2, <2>3, <3>2 DEF ClientType
      <4> QED BY <1>0, <2>1, <2>9, <4>1, <4>2 DEF WatchOK, Over
    <3> QED BY <3>1, <3>2
  <2>10. CASE watch[w].run = r /\ c.near /\ c.at = "attached"
    <3>1. /\ watch'[w].run = r /\ watch'[w].client.at = "attached"
          /\ watch'[w].client.slipped = c.slipped
          /\ watch'[w].client.got = c.got \cup {outbox[r]}
          /\ watch'[w].client.since = outbox[r]
      BY <2>5, <2>10 DEF PublishedTo
    <3>2. ~c.slipped => 1 .. Len(engine[r].history) \subseteq c.got \cup {outbox[r]}
      BY <1>0, <2>10 DEF WatchOK
    <3>3. 1 .. outbox[r] \subseteq 1 .. Len(engine[r].history) BY <2>2, <2>3
    <3> QED BY <1>0, <2>1, <2>3, <2>10, <3>1, <3>2, <3>3 DEF WatchOK, Over
  <2> QED BY <2>6, <2>7, <2>8, <2>9, <2>10
<1>5. ASSUME NEW r \in RunId, ProcessDies(r) PROVE WatchesOK'
  <2>1. Nearby \in SUBSET Watcher BY DEF Nearby
  <2>2. \A w \in Watcher :
          IF w \in Nearby
          THEN /\ watch'[w].run = watch[w].run
               /\ watch'[w].client = [watch[w].client EXCEPT !.at = "off"]
          ELSE watch'[w] = watch[w]
    BY <1>5, <2>1, StreamsDied, StreamsEnd
  <2>3. UNCHANGED <<engine, reaped>> BY <1>5 DEF ProcessDies
  <2>4. SUFFICES ASSUME NEW w \in Watcher PROVE WatchOK(w)' BY DEF WatchesOK
  <2>5. CASE w \in Nearby BY <1>0, <2>2, <2>3, <2>5, FarOK
  <2>6. CASE w \notin Nearby
    <3>1. watch[w].client.at \in {"off", "closed"} \/ ~watch[w].client.near
      BY <1>0, <2>6 DEF Nearby, ClientType
    <3>2. watch'[w].client = [watch[w].client EXCEPT !.at = watch[w].client.at]
      BY <1>0, <2>2, <2>6 DEF ClientType
    <3> QED BY <1>0, <2>2, <2>3, <2>6, <3>1, <3>2, FarOK
  <2> QED BY <2>5, <2>6
<1>6. ASSUME NEW r \in RunId, CloseStreams(r) PROVE WatchesOK'
  <2>1. Listening(r) \in SUBSET Watcher BY DEF Listening
  <2>2. \A w \in Watcher :
          IF w \in Listening(r)
          THEN /\ watch'[w].run = watch[w].run
               /\ watch'[w].client = [watch[w].client EXCEPT !.at = "closed"]
          ELSE watch'[w] = watch[w]
    BY <1>6, <2>1, StreamsClosed, StreamsEnd
  <2>3. UNCHANGED <<engine, outbox, reaped>> /\ actor[r] = "closing" BY <1>6 DEF CloseStreams
  <2>4. outbox[r] = 0 /\ HasVerdict(r) BY <2>3 DEF RunsOK, RunOK
  <2>5. SUFFICES ASSUME NEW w \in Watcher PROVE WatchOK(w)' BY DEF WatchesOK
  <2>6. CASE w \in Listening(r)
    <3>1. /\ watch'[w].run = r /\ watch[w].run = r /\ watch'[w].client.at = "closed"
          /\ watch'[w].client.got = watch[w].client.got
          /\ watch'[w].client.since = watch[w].client.since
          /\ watch'[w].client.slipped = watch[w].client.slipped
          /\ watch[w].client.at = "attached" /\ watch[w].client.near
      BY <1>0, <2>2, <2>6 DEF Listening, ClientType
    <3>2. ~watch[w].client.slipped => 1 .. Len(engine[r].history) \subseteq watch[w].client.got
      BY <1>0, <2>4, <3>1 DEF WatchOK
    <3>3. \/ watch[w].client.slipped
          \/ \E seq \in watch[w].client.got : engine[r].history[seq] \in Verdict
      BY <2>4, <3>2 DEF HasVerdict
    <3> QED BY <1>0, <2>3, <3>1, <3>3 DEF WatchOK, Over
  <2>7. CASE w \notin Listening(r)
    BY <1>0, <2>2, <2>3, <2>7 DEF WatchOK, Over
  <2> QED BY <2>6, <2>7
<1>7. ASSUME NEW w \in Watcher, NEW r \in RunId, NEW near \in BOOLEAN, OpenStream(w, r, near)
      PROVE  WatchOK(w)' /\ \A x \in Watcher : x # w => watch'[x] = watch[x]
  <2>1. /\ \A x \in Watcher : x # w => watch'[x] = watch[x]
        /\ watch'[w].run = r /\ watch'[w].client.at = "opened"
        /\ watch'[w].client.over <=> ~Running(r)
        /\ watch'[w].client.got = watch[w].client.got
        /\ watch'[w].client.since = watch[w].client.since
        /\ watch'[w].client.slipped = watch[w].client.slipped
    BY <1>t, <1>7, Opened
  <2>3. /\ watch[w].run \in {"none", r} /\ engine[r].status \in Verdict \cup {"running"}
        /\ UNCHANGED <<engine, outbox, reaped>>
    BY <1>7 DEF OpenStream
  <2>4. /\ Over(r)' <=> Over(r)
        /\ Over(r) <=> ~Running(r)
        /\ RunOK(r) /\ engine'[r] = engine[r]
    BY <1>t, <2>3 DEF Over, Running, RunsOK, Verdict
  <2>5. engine[r].status # "purged" => watch[w].client.got \subseteq 1 .. Len(engine[r].history)
    BY <1>0, <2>3, EngineAssumption DEF WatchOK
  <2>6. watch[w].client.slipped \/ 1 .. watch[w].client.since \subseteq watch[w].client.got
    BY <1>0 DEF WatchOK
  <2> QED BY <2>1, <2>4, <2>5, <2>6 DEF WatchOK
<1>8. ASSUME NEW w \in Watcher, AskEvents(w)
      PROVE  WatchOK(w)' /\ \A x \in Watcher : x # w => watch'[x] = watch[x]
  <2> DEFINE r == watch[w].run
  <2>1. /\ watch[w].client.at = "opened" /\ UNCHANGED <<engine, outbox, reaped>> /\ r \in RunId
    BY <1>0, <1>8 DEF AskEvents, WatchOK
  <2>2. /\ \A x \in Watcher : x # w => watch'[x] = watch[x]
        /\ watch'[w].run = r
        /\ watch'[w].client = [watch[w].client EXCEPT !.at = "asked",
                                                      !.upTo = Len(engine[r].history)]
    BY <1>8, <2>1, Listed
  <2>3. /\ watch'[w].client.at = "asked" /\ watch'[w].client.upTo = Len(engine[r].history)
        /\ watch'[w].client.got = watch[w].client.got
        /\ watch'[w].client.since = watch[w].client.since
        /\ watch'[w].client.over = watch[w].client.over
        /\ watch'[w].client.slipped = watch[w].client.slipped
    BY <1>0, <2>2 DEF ClientType
  <2>4. engine[r].history \in Seq(Event) BY <2>1 DEF EngineTypes, RowType
  <2>5. Len(engine[r].history) \in {0} \cup 1 .. Len(engine[r].history) BY <2>4
  <2>6. watch[w].client.over /\ engine[r].status # "purged" => r \in reaped \/ HasVerdict(r)
    BY <1>0, <2>1 DEF WatchOK, Over, RunsOK, RunOK
  <2> QED BY <1>0, <2>1, <2>2, <2>3, <2>5, <2>6 DEF WatchOK, Over, HasVerdict
<1>9. ASSUME NEW w \in Watcher, Attach(w)
      PROVE  WatchOK(w)' /\ \A x \in Watcher : x # w => watch'[x] = watch[x]
  <2> DEFINE c == watch[w].client
             r == watch[w].run
  <2>1. /\ c.at = "asked" /\ UNCHANGED <<engine, outbox, reaped>> /\ r \in RunId
    BY <1>0, <1>9 DEF Attach, WatchOK
  <2>2. /\ \A x \in Watcher : x # w => watch'[x] = watch[x]
        /\ watch'[w].run = r
        /\ watch'[w].client =
             [c EXCEPT !.at = IF c.over THEN "closed" ELSE "attached",
                       !.got = c.got \cup Replayed(c),
                       !.since = IF Replayed(c) = {} THEN c.since ELSE c.upTo]
    BY <1>9, Attached
  <2>3. /\ watch'[w].client.at = IF c.over THEN "closed" ELSE "attached"
        /\ watch'[w].client.got = c.got \cup Replayed(c)
        /\ watch'[w].client.since = IF Replayed(c) = {} THEN c.since ELSE c.upTo
        /\ watch'[w].client.slipped = c.slipped
        /\ watch'[w].client.near = c.near
    BY <1>0, <2>2 DEF ClientType
  <2>4. /\ c.upTo \in Nat /\ c.since \in Nat BY <1>0 DEF ClientType
  <2>5. ~c.slipped => 1 .. c.upTo \subseteq c.got \cup Replayed(c)
    BY <1>0, <2>4 DEF WatchOK, Replayed
  <2>6. ~c.slipped => 1 .. watch'[w].client.since \subseteq watch'[w].client.got
    BY <1>0, <2>3, <2>5 DEF WatchOK
  <2>7. engine[r].status # "purged" => c.got \cup Replayed(c) \subseteq 1 .. Len(engine[r].history)
    <3> SUFFICES ASSUME engine[r].status # "purged"
                 PROVE  c.got \cup Replayed(c) \subseteq 1 .. Len(engine[r].history)
      OBVIOUS
    <3>1. /\ c.got \subseteq 1 .. Len(engine[r].history)
          /\ c.upTo \in {0} \cup 1 .. Len(engine[r].history)
      BY <1>0, <2>1 DEF WatchOK
    <3>2. engine[r].history \in Seq(Event) BY <1>t, <2>1 DEF EngineTypes, RowType
    <3>3. Replayed(c) \subseteq 1 .. Len(engine[r].history)
      BY <2>4, <3>1, <3>2 DEF Replayed
    <3> QED BY <3>1, <3>3
  <2>8. c.over /\ engine[r].status # "purged" =>
          \/ \E seq \in c.got \cup Replayed(c) : engine[r].history[seq] \in Verdict
          \/ r \in reaped \/ c.slipped
    BY <1>0, <2>1, <2>5 DEF WatchOK
  <2>9. c.near /\ ~c.slipped => 1 .. Len(engine[r].history) \ {outbox[r]} \subseteq c.got \cup Replayed(c)
    BY <1>0, <2>1, <2>5 DEF WatchOK
  <2> QED BY <1>0, <2>1, <2>2, <2>3, <2>6, <2>7, <2>8, <2>9 DEF WatchOK, Over
<1>10. ASSUME NEW w \in Watcher, DropStream(w)
       PROVE  WatchOK(w)' /\ \A x \in Watcher : x # w => watch'[x] = watch[x]
  <2>1. /\ watch' = [watch EXCEPT ![w] = [watch[w] EXCEPT !.client = [watch[w].client EXCEPT !.at = "off"]]]
        /\ UNCHANGED <<engine, reaped>>
    BY <1>0, <1>10 DEF DropStream, WatchType, ClientType
  <2>2. /\ watch'[w].run = watch[w].run
        /\ watch'[w].client = [watch[w].client EXCEPT !.at = "off"]
        /\ \A x \in Watcher : x # w => watch'[x] = watch[x]
    BY <1>0, <2>1 DEF EngineTypes, WatchType
  <2> QED BY <1>0, <2>1, <2>2, FarOK
<1>11. CASE \E r \in RunId : Publish(r) \/ ProcessDies(r) BY <1>4, <1>5, <1>11
<1>12. CASE \A r \in RunId : ~Publish(r) /\ ~ProcessDies(r)
  <2>1. CASE \E r \in RunId : CloseStreams(r) BY <1>6, <2>1
  <2>2. ASSUME NEW w \in Watcher,
               \/ AskEvents(w) \/ Attach(w) \/ DropStream(w)
               \/ \E r \in RunId, near \in BOOLEAN : OpenStream(w, r, near)
        PROVE  WatchesOK'
    <3>1. WatchOK(w)' /\ \A x \in Watcher : x # w => watch'[x] = watch[x]
      BY <1>7, <1>8, <1>9, <1>10, <2>2
    <3>2. \A x \in Watcher : x # w => WatchOK(x)' BY <1>3, <1>12, <3>1
    <3> QED BY <3>1, <3>2 DEF WatchesOK
  <2>3. ASSUME UNCHANGED watch PROVE WatchesOK'
    BY <1>3, <1>12, <2>3 DEF WatchesOK
  <2>4. ASSUME NEW r \in RunId,
               \/ CreateRun(r) \/ EmitStarted(r) \/ EmitDone(r) \/ EmitFailed(r)
               \/ EmitProgress(r) \/ StoreVerdict(r) \/ StatementFails(r)
               \/ Purge(r) \/ Silence(r) \/ Reap
               \/ \E orphan \in RunId : CreateResent(r, orphan)
        PROVE  UNCHANGED watch
    BY <2>4 DEF CreateRun, EmitStarted, EmitDone, EmitFailed, EmitProgress, Append1,
                StoreVerdict, StatementFails, Purge, Silence, Reap, CreateResent
  <2>5. ASSUME Reap PROVE UNCHANGED watch BY <2>5 DEF Reap
  <2>6. ASSUME UNCHANGED engineVars PROVE UNCHANGED watch BY <2>6 DEF engineVars
  <2> QED BY <1>12, <2>1, <2>2, <2>3, <2>4, <2>5, <2>6 DEF EngineNext, EngineStep, CronStep
<1> QED BY <1>11, <1>12

LEMMA InvStep == EngineInv /\ [EngineNext]_engineVars => EngineInv'
<1> SUFFICES ASSUME EngineInv, [EngineNext]_engineVars PROVE EngineInv' OBVIOUS
<1>1. EngineTypes' BY TypesStep DEF EngineInv
<1>2. RunsOK' BY <1>1, RunsStep
<1>3. WatchesOK' BY <1>1, WatchesStep
<1> QED BY <1>1, <1>2, <1>3 DEF EngineInv

\* EngineTypeOK holds whatever statements fail, processes die and streams drop.
THEOREM EngineTyped == EngineSpec => []EngineTypeOK
<1>1. EngineInv => EngineTypeOK
  BY DEF EngineInv, EngineTypes, EngineTypeOK, RowType, WatchType, ClientType, Event
<1> QED BY <1>1, InvStart, InvStep, PTL DEF EngineSpec

\* VerdictTold holds for any number of runs, browsers, rounds and failures: the
\* end of a closed stream (sse.js) tells how the run ended, unless the cron
\* ended it or an event came between the replay and the subscription.
THEOREM VerdictsTold == EngineSpec => []VerdictTold
<1>1. EngineInv => VerdictTold
  <2> SUFFICES ASSUME EngineInv, NEW w \in Watcher, watch[w].client.at = "closed",
                      engine[watch[w].run].status # "purged"
               PROVE  \/ \E seq \in watch[w].client.got :
                            engine[watch[w].run].history[seq] \in Verdict
                      \/ watch[w].run \in reaped \/ watch[w].client.slipped
    BY DEF VerdictTold
  <2>1. WatchOK(w) BY DEF EngineInv, WatchesOK
  <2> QED BY <2>1 DEF WatchOK
<1> QED BY <1>1, InvStart, InvStep, PTL DEF EngineSpec
=============================================================================
