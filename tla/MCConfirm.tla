------------------------------ MODULE MCConfirm ------------------------------
(* Three components checked by one run: a behaviour is of one of the parts.  *)
EXTENDS Visits, ServiceLink, FollowUp, TLC

VARIABLE part
confirmVars == <<visitVars, linkVars, followVars, part>>

Init == VisitInit /\ LinkInit /\ FollowInit /\ part \in {"visits", "link", "follow-up"}
Next ==
  \/ part = "visits" /\ VisitNext /\ UNCHANGED <<linkVars, followVars, part>>
  \/ part = "link" /\ LinkNext /\ UNCHANGED <<visitVars, followVars, part>>
  \/ part = "follow-up" /\ FollowNext /\ UNCHANGED <<visitVars, linkVars, part>>

Visiting(A) == part = "visits" /\ A /\ UNCHANGED <<linkVars, followVars, part>>
Following(A) == part = "follow-up" /\ A /\ UNCHANGED <<visitVars, linkVars, part>>
Spec == Init /\ [][Next]_confirmVars
FairSpec ==
  /\ Spec
  /\ WF_confirmVars(Visiting(StartSync))
  /\ \A a \in Actor : WF_confirmVars(Visiting(Busy(a) /\ Handling(a)))
  /\ WF_confirmVars(Following(SweepStep))
  /\ \A r \in Recipient : WF_confirmVars(Following(Contact(r)))
  /\ \A c \in Call : WF_confirmVars(Following(Handle(c))) /\ WF_confirmVars(Following(LastWebhook(c)))

\* Every variable has its type.
ConfirmTypeOK == VisitTypeOK /\ LinkTypeOK /\ FollowTypeOK
=============================================================================
