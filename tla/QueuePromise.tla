---------------------------- MODULE QueuePromise ----------------------------
(***************************************************************************)
(* What the queue of calls promises, without dispatchers, claims, leases,  *)
(* retries or office hours: a call waits, is worked on and is settled; it  *)
(* never competes with another call about the same thing; the calls worked *)
(* on fit into the caps; and the customer hears from us again only if it   *)
(* was not recorded that he had.  CallQueue is shown to implement this.    *)
(***************************************************************************)
EXTENDS Integers, FiniteSets

CONSTANTS
  Call,
  Tenant,
  Owner,       \* the tenant of a call
  Rivals,      \* pairs of calls about the same thing
  TenantLimit, \* calls of a tenant that may be worked on at a time
  SystemLimit  \* calls that may be worked on at a time

VARIABLES
  stage,       \* "absent", "waiting", "working" or "settled"
  told,        \* how often a customer was contacted for a call
  unsure       \* how many of these contacts were not recorded

promiseVars == <<stage, told, unsure>>

At(s) == {c \in Call : stage[c] = s}
Contests(c) == \E a \in At("waiting") \cup At("working") : <<a, c>> \in Rivals

PromiseInit ==
  /\ stage = [c \in Call |-> "absent"]
  /\ told = [c \in Call |-> 0] /\ unsure = [c \in Call |-> 0]

Move(S, from, to) ==
  /\ \A c \in S : stage[c] \in from
  /\ stage' = [c \in Call |-> IF c \in S THEN to ELSE stage[c]]
  /\ UNCHANGED <<told, unsure>>

Offer(c) == ~Contests(c) /\ Move({c}, {"absent"}, "waiting")

Fits(S) ==
  /\ Cardinality(S) <= SystemLimit
  /\ \A t \in Tenant : Cardinality({c \in S : Owner[c] = t}) <= TenantLimit[t]

WorkOn(S) == Fits(At("working") \cup S) /\ Move(S, {"waiting"}, "working")
PutBack(S) == Move(S, {"working"}, "waiting")
Conclude(S) == Move(S, {"waiting", "working"}, "settled")

\* Every earlier contact went unrecorded.
Reach(c) ==
  /\ stage[c] = "working" /\ told[c] = unsure[c]
  /\ told' = [told EXCEPT ![c] = @ + 1]
  /\ UNCHANGED <<stage, unsure>>

LoseRecord(c) ==
  /\ stage[c] = "working" /\ unsure[c] < told[c]
  /\ unsure' = [unsure EXCEPT ![c] = @ + 1]
  /\ UNCHANGED <<stage, told>>

PromiseNext ==
  \/ \E c \in Call : Offer(c) \/ Reach(c) \/ LoseRecord(c)
  \/ \E S \in SUBSET Call : WorkOn(S) \/ PutBack(S) \/ Conclude(S)

PromiseSpec == PromiseInit /\ [][PromiseNext]_promiseVars
=============================================================================
