----------------------------- MODULE MCCallQueue -----------------------------
(* Small instances of CallQueue for TLC: the rows of a few queue contents.   *)
EXTENDS CallQueue, TLC

CONSTANTS d1, d2, c1, c2, c3, t1, t2, j1, j2, r0, p1, p2

Col(t, j, ph, rk, by, ch) ==
  [tenant |-> t, job |-> j, rcp |-> r0, phone |-> ph, rank |-> rk,
   bypass |-> by, channel |-> ch]

\* A sweep row, the "Call now" row that supersedes it, and a link for another job
\* with the same phone number.
ForceRows == c1 :> Col(t1, j1, p1, 3, FALSE, "voice")
          @@ c2 :> Col(t1, j1, p1, 1, TRUE, "voice")
          @@ c3 :> Col(t1, j2, p1, 3, FALSE, "web_chat")

\* A run dies or the offices close, and one that dies does so without the third
\* row.
ForceNext == Next /\ crashes' + closings' <= 1 /\ (crashes' = 0 \/ status'[c3] = "absent")
ForceSpec == Init /\ [][ForceNext]_vars /\ Fairness

\* Two rows, one phone, two tenants.
PairRows == c1 :> Col(t1, j1, p1, 3, FALSE, "voice")
         @@ c2 :> Col(t2, j2, p1, 1, TRUE, "voice")

\* Two rows of two tenants for one phone, of which one is a link sent by text.
MixedRows == c1 :> Col(t1, j1, p1, 3, FALSE, "web_chat")
          @@ c2 :> Col(t2, j2, p1, 1, TRUE, "voice")

\* As before, and a row of the first tenant, without a job, for another phone.
HandoverRows == MixedRows @@ c3 :> Col(t1, NoJob, p2, 3, FALSE, "voice")

\* The third row takes part in behaviours without crashes and failed contacts.
Bounded ==
  \/ status[c3] = "absent"
  \/ crashes = 0 /\ \A c \in Call : attempt[c] = 0

Caps == [t \in Tenant |-> 2]
TightCaps == [t \in Tenant |-> 1]
=============================================================================
