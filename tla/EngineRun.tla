------------------------------ MODULE EngineRun ------------------------------
(***************************************************************************)
(* A run of the workflow engine (src/engines): its row in engine_runs, the *)
(* process that works on it, the cron that reaps and purges rows, and the  *)
(* browsers that follow it over server-sent events.                        *)
(*                                                                         *)
(* state_history is a sequence of event types; the seq of an event is its  *)
(* index.  A statement of the process and what the process does with the   *)
(* answer are separate steps, so that a reader may come between an event's *)
(* entry in the history and its delivery.                                  *)
(***************************************************************************)
EXTENDS Integers, Sequences, FiniteSets

CONSTANTS
  RunId,          \* rows of engine_runs, each used once
  Asked,          \* those that somebody asks for, not made by a resent statement
  Watcher,        \* browsers
  MaxRounds,      \* bound: events of one run before its verdict
  MaxEngineFaults \* bound: failed or resent statements, deaths, dropped streams

ASSUME EngineAssumption == /\ IsFiniteSet(RunId) /\ "none" \notin RunId /\ Asked \subseteq RunId
                           /\ MaxRounds \in Nat /\ MaxEngineFaults \in Nat

VARIABLES
  engine,       \* the rows
  actor,        \* where the process of a run is
  outbox,       \* seq of the event it has appended and not published, or 0
  watch,        \* what a browser follows, and the events it has
  reaped,       \* history: runs the cron has failed
  engineFaults

engineVars == <<engine, actor, outbox, watch, reaped, engineFaults>>

Verdict == {"done", "failed"}
NoRun   == [status |-> "absent", history |-> <<>>, silent |-> FALSE]
Off     == [at |-> "off", near |-> FALSE, over |-> FALSE, upTo |-> 0, since |-> 0,
            got |-> {}, slipped |-> FALSE]

Running(r) == engine[r].status = "running"
EngineFault == engineFaults < MaxEngineFaults /\ engineFaults' = engineFaults + 1

EngineInit == /\ engine = [r \in RunId |-> NoRun]
              /\ actor = [r \in RunId |-> "none"]
              /\ outbox = [r \in RunId |-> 0]
              /\ watch = [w \in Watcher |-> [run |-> "none", client |-> Off]]
              /\ reaped = {} /\ engineFaults = 0

-----------------------------------------------------------------------------
(* The process: Engine.create, wrap, transition, emit, finish, fail.       *)

Goes(r, point) == actor' = [actor EXCEPT ![r] = point]

\* createRun.
CreateRun(r) ==
  /\ r \in Asked /\ actor[r] = "none" /\ engine[r] = NoRun
  /\ engine' = [engine EXCEPT ![r].status = "running"]
  /\ Goes(r, "created")
  /\ UNCHANGED <<outbox, watch, reaped, engineFaults>>

\* The connection was lost after the insert; the statement is sent again and
\* makes a second row, which is the one the process works on.
CreateResent(r, orphan) ==
  /\ r \in Asked /\ orphan \notin Asked /\ EngineFault
  /\ \A x \in {r, orphan} : actor[x] = "none" /\ engine[x] = NoRun
  /\ engine' = [engine EXCEPT ![r].status = "running", ![orphan].status = "running"]
  /\ actor' = [actor EXCEPT ![r] = "created", ![orphan] = "gone"]
  /\ UNCHANGED <<outbox, watch, reaped>>

\* appendEvent: one statement; its seq and its place agree.
Append1(r, type, point) ==
  /\ outbox[r] = 0
  /\ engine' = [engine EXCEPT ![r].history = Append(@, type), ![r].silent = FALSE]
  /\ outbox' = [outbox EXCEPT ![r] = Len(engine[r].history) + 1]
  /\ Goes(r, point)
  /\ UNCHANGED <<watch, reaped, engineFaults>>

EmitStarted(r) == actor[r] = "created" /\ Append1(r, "started", "working")

\* transition and emit, from the body of a sync or a daily job.
EmitProgress(r) ==
  /\ actor[r] = "working" /\ Len(engine[r].history) <= MaxRounds
  /\ Append1(r, "progress", "working")

EmitDone(r)   == actor[r] = "working" /\ Append1(r, "done", "finishing")
EmitFailed(r) == actor[r] \in {"working", "failing"} /\ Append1(r, "failed", "failed")

\* broker.publish: to the streams of this instance that are attached.  A stream
\* that has asked for the history and not had the answer misses the event.
Publish(r) ==
  LET seq == outbox[r]
      follows(w) == watch[w].client.near /\ watch[w].run = r
  IN  /\ seq # 0
      /\ outbox' = [outbox EXCEPT ![r] = 0]
      /\ watch' = [w \in Watcher |->
           CASE follows(w) /\ watch[w].client.at = "attached" ->
                  [watch[w] EXCEPT !.client.got = @ \cup {seq}, !.client.since = seq]
             [] follows(w) /\ watch[w].client.at = "asked" /\ watch[w].client.upTo < seq ->
                  [watch[w] EXCEPT !.client.slipped = TRUE]
             [] OTHER -> watch[w]]
      /\ UNCHANGED <<engine, actor, reaped, engineFaults>>

\* setStatus looks at nothing but the id.
SetStatus(r, status) == engine' = [engine EXCEPT ![r].status = status]

StoreVerdict(r) ==
  /\ outbox[r] = 0
  /\ \/ actor[r] = "finishing" /\ SetStatus(r, "done")
     \/ actor[r] = "failed" /\ SetStatus(r, "failed")
  /\ Goes(r, "closing")
  /\ UNCHANGED <<outbox, watch, reaped, engineFaults>>

\* The sentinel ends the streams attached here.
CloseStreams(r) ==
  /\ actor[r] = "closing"
  /\ watch' = [w \in Watcher |->
       IF watch[w].client.near /\ watch[w].run = r /\ watch[w].client.at = "attached"
       THEN [watch[w] EXCEPT !.client.at = "closed"]
       ELSE watch[w]]
  /\ Goes(r, "gone")
  /\ UNCHANGED <<engine, outbox, reaped, engineFaults>>

\* A statement fails: in create and in fail nobody catches it, elsewhere fail
\* takes over.  The status may have been stored all the same.
StatementFails(r) ==
  /\ actor[r] \in {"created", "working", "finishing", "failing", "failed"}
  /\ outbox[r] = 0 /\ EngineFault
  /\ \/ UNCHANGED engine
     \/ actor[r] = "finishing" /\ SetStatus(r, "done")
     \/ actor[r] = "failed" /\ SetStatus(r, "failed")
  /\ Goes(r, IF actor[r] \in {"working", "finishing"} THEN "failing" ELSE "gone")
  /\ UNCHANGED <<outbox, watch, reaped>>

\* The instance is frozen or killed, and its streams with it.
ProcessDies(r) ==
  /\ actor[r] \notin {"none", "gone"} /\ EngineFault
  /\ Goes(r, "gone")
  /\ outbox' = [outbox EXCEPT ![r] = 0]
  /\ watch' = [w \in Watcher |->
       IF watch[w].client.near /\ watch[w].client.at \in {"opened", "asked", "attached"}
       THEN [watch[w] EXCEPT !.client.at = "off"]
       ELSE watch[w]]
  /\ UNCHANGED <<engine, reaped>>

-----------------------------------------------------------------------------
(* The cron.                                                               *)

\* Thirty minutes without an event, or since the start of a run without any;
\* also while a slow process works on.
Silence(r) ==
  /\ Running(r) /\ ~engine[r].silent
  /\ engine' = [engine EXCEPT ![r].silent = TRUE]
  /\ UNCHANGED <<actor, outbox, watch, reaped, engineFaults>>

\* reapStaleRuns.
Abandoned_WithEvents ==  \* mutant: no fallback to started_at
  {r \in RunId : Running(r) /\ engine[r].silent /\ engine[r].history # <<>>}
Abandoned == {r \in RunId : Running(r) /\ engine[r].silent}

Reap ==
  /\ Abandoned # {}
  /\ engine' = [r \in RunId |->
       IF r \in Abandoned THEN [engine[r] EXCEPT !.status = "failed"] ELSE engine[r]]
  /\ reaped' = reaped \cup Abandoned
  /\ UNCHANGED <<actor, outbox, watch, engineFaults>>

\* gcOldRuns, a month later: no process is left.
Purge(r) ==
  /\ actor[r] = "gone" /\ engine[r].status \in Verdict
  /\ engine' = [engine EXCEPT ![r] = [NoRun EXCEPT !.status = "purged"]]
  /\ UNCHANGED <<actor, outbox, watch, reaped, engineFaults>>

-----------------------------------------------------------------------------
(* streamRun.                                                              *)

\* getRun; the snapshot's status is looked at after the replay.  Whichever
\* instance serves it, a browser follows one run.
OpenStream(w, r, near) ==
  /\ watch[w].client.at = "off" /\ watch[w].run \in {"none", r}
  /\ engine[r].status \in Verdict \cup {"running"}
  /\ watch' = [watch EXCEPT ![w].run = r, ![w].client.at = "opened",
                            ![w].client.near = near, ![w].client.over = ~Running(r)]
  /\ UNCHANGED <<engine, actor, outbox, reaped, engineFaults>>

\* getEventsSince reads the history; the answer is on its way.
AskEvents(w) ==
  /\ watch[w].client.at = "opened"
  /\ watch' = [watch EXCEPT ![w].client.at = "asked",
                            ![w].client.upTo = Len(engine[watch[w].run].history)]
  /\ UNCHANGED <<engine, actor, outbox, reaped, engineFaults>>

\* Events with seq > Last-Event-ID.
Replayed_Late(c) == (c.since + 2) .. c.upTo       \* mutant: the next one is skipped
Replayed(c) == (c.since + 1) .. c.upTo

\* Write them, then end the stream of a run that was over, or subscribe.
Attach(w) ==
  LET c == watch[w].client
  IN  /\ c.at = "asked"
      /\ watch' = [watch EXCEPT ![w].client =
           [c EXCEPT !.at = IF c.over THEN "closed" ELSE "attached",
                     !.got = c.got \cup Replayed(c),
                     !.since = IF Replayed(c) = {} THEN c.since ELSE c.upTo]]
      /\ UNCHANGED <<engine, actor, outbox, reaped, engineFaults>>

\* The connection drops; EventSource comes back with the last seq it had.
DropStream(w) ==
  /\ watch[w].client.at = "attached" /\ EngineFault
  /\ watch' = [watch EXCEPT ![w].client.at = "off"]
  /\ UNCHANGED <<engine, actor, outbox, reaped>>

-----------------------------------------------------------------------------
EngineStep(r) == \/ EmitStarted(r) \/ EmitDone(r) \/ EmitFailed(r) \/ Publish(r)
                 \/ StoreVerdict(r) \/ CloseStreams(r)

\* Time passes and the cron fires.
CronStep == Reap \/ \E r \in RunId : Silence(r)

EngineNext ==
  \/ CronStep
  \/ \E r \in RunId : \/ CreateRun(r) \/ EngineStep(r) \/ EmitProgress(r)
                      \/ StatementFails(r) \/ ProcessDies(r) \/ Purge(r)
                      \/ \E orphan \in RunId : CreateResent(r, orphan)
                      \/ \E w \in Watcher, near \in BOOLEAN : OpenStream(w, r, near)
  \/ \E w \in Watcher : AskEvents(w) \/ Attach(w) \/ DropStream(w)

EngineSpec == EngineInit /\ [][EngineNext]_engineVars

-----------------------------------------------------------------------------
(* Every variable has its type.                                            *)
EngineTypeOK ==
  /\ engine \in [RunId -> [status : {"absent", "running", "done", "failed", "purged"},
                           history : Seq({"started", "progress"} \cup Verdict),
                           silent : BOOLEAN]]
  /\ actor \in [RunId -> {"none", "created", "working", "finishing", "failing", "failed",
                          "closing", "gone"}]
  /\ outbox \in [RunId -> Nat]
  /\ \A w \in Watcher :
       /\ watch[w].run \in RunId \cup {"none"}
       /\ watch[w].client.at \in {"off", "opened", "asked", "attached", "closed"}
       /\ watch[w].client.upTo \in Nat /\ watch[w].client.since \in Nat
       /\ watch[w].client.got \subseteq Nat
  /\ reaped \subseteq RunId /\ engineFaults \in 0 .. MaxEngineFaults

(* VerdictTold: a browser whose stream the server has closed knows how the *)
(* run ended, however often it had to reconnect: "done" or "failed" is     *)
(* among the events it was sent.  The exceptions are a run failed by the   *)
(* cron, which writes no event, and an event published between the read of *)
(* the history and the subscription (engine.js: a live subscriber receives *)
(* the event with the same seq it will see on reconnect).                  *)
VerdictTold ==
  \A w \in Watcher :
    LET r == watch[w].run
        c == watch[w].client
    IN  c.at = "closed" /\ engine[r].status # "purged" =>
          \/ \E seq \in c.got : engine[r].history[seq] \in Verdict
          \/ r \in reaped
          \/ c.slipped

(* RunEnds: no run claims to be running for ever, whether its process has  *)
(* died at any point, could not store its verdict, or never existed        *)
(* (reapStaleRuns: "this account had runs claiming to be running for 31    *)
(* and 60 days").                                                          *)
RunEnds == \A r \in RunId : []<>~Running(r)
=============================================================================
