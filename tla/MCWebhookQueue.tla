---------------------------- MODULE MCWebhookQueue ----------------------------
(* Small instances of WebhookQueue for TLC.  A behaviour is rough (two       *)
(* drains, crashes, and details that fail for good in the drain that is not  *)
(* the cron's) or smooth (the cron alone, nothing dies, every detail arrives *)
(* in the end, but the company disconnects).                                 *)
EXTENDS WebhookQueue, TLC

CONSTANTS e1, e2, j1, j2

\* Two events about one job; the second also touches a second job.
TwoEvents == (e1 :> {j1}) @@ (e2 :> {j1, j2})

VARIABLE smooth
hookVars == <<vars, smooth>>

Smoothly ==
  /\ crashes' = 0
  /\ \A d \in Drain : missed'[d] = {} /\ (d \notin Cron => pc'[d] = "idle")

HookNext ==
  /\ UNCHANGED smooth
  /\ \/ ~smooth /\ Next /\ outages' = 0 /\ \A d \in Cron : missed'[d] = {}
     \/ smooth /\ Next /\ Smoothly

HookInit == Init /\ smooth \in BOOLEAN
HookSpec == HookInit /\ [][HookNext]_hookVars /\ Fairness

\* DoneMeansApplied of the smooth behaviours.
SmoothDoneMeansApplied == smooth => DoneMeansApplied

\* EventuallyHandled of the smooth behaviours.
SmoothEventuallyHandled == <>[](smooth => Handled)
=============================================================================
