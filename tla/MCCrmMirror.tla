----------------------------- MODULE MCCrmMirror -----------------------------
(* CrmMirror and EntitySync for TLC, checked by one run: a behaviour is of   *)
(* one part or the other.                                                    *)
EXTENDS CrmMirror, EntitySync, TLC

VARIABLE part
bothVars == <<vars, entityVars, part>>

BothInit == Init /\ EntityInit /\ part \in {"jobs", "records"}
BothNext ==
  \/ part = "jobs" /\ Next /\ UNCHANGED <<entityVars, part>>
  \/ part = "records" /\ EntityNext /\ UNCHANGED <<vars, part>>
BothSpec == BothInit /\ [][BothNext]_bothVars

Mirroring(A) == part = "jobs" /\ A /\ UNCHANGED <<entityVars, part>>
BothFairSpec ==
  /\ BothSpec
  /\ \A r \in Poll : SF_bothVars(Mirroring(StartPoll(r)))
  /\ \A r \in Run : WF_bothVars(Mirroring(Step(r))) /\ SF_bothVars(Mirroring(StartNormalize(r)))

(* Every variable has its type.                                             *)
BothTypeOK == TypeOK /\ EntityTypeOK

-----------------------------------------------------------------------------
(* Instances of EntitySync.                                                  *)

NoEntity  == {}
EmptyBook == <<>>
Around(E, to) == [e \in E |-> IF e \in DOMAIN to THEN to[e] ELSE {}]

J1 == <<"job", 1>>       J2 == <<"job", 2>>
K1 == <<"customer", 1>>  K2 == <<"customer", 2>>
P1 == <<"contact", 1>>   P2 == <<"contact", 2>>
L1 == <<"location", 1>>  O1 == <<"office", 1>>
V1 == <<"visit", 1>>     T1 == <<"technician", 1>>
C1 == <<"comment", 1>>   Q1 == <<"request", 1>>
G1 == <<"tag", 1>>       S1 == <<"line", 1>>

\* A job with everything around it, and a second job of the same customer.
OneOfEach == {J1, J2, K1, P1, L1, O1, V1, T1, C1, Q1, G1, S1}
OneOfEachBook == Around(OneOfEach,
  J1 :> {K1, L1, P1, O1, G1} @@ J2 :> {K1} @@ L1 :> {K1, P1, O1, G1} @@ P1 :> {K1, L1}
  @@ V1 :> {J1, T1, O1} @@ C1 :> {J1} @@ Q1 :> {V1, J1, S1})
OneInboxEach == [e \in OneOfEach |-> "none"]

\* What the theorem about RefsHeal supposes holds of it.
ASSUME OneOfEachIsWell == Entity = OneOfEach => WellBooked /\ Fixed /\ OwnInboxes

\* Two customers whose contacts share an e-mail address.
Shared == {J1, J2, K1, K2, P1, P2}
SharedBook == Around(Shared,
  J1 :> {K1, P2} @@ J2 :> {K2} @@ P2 :> {K1} @@ P1 :> {K2})
SharedInbox == [e \in Shared |-> "inbox"]
=============================================================================
