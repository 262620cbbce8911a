----------------------------- MODULE LinkDelivery -----------------------------
(***************************************************************************)
(* How the link of one visit gets to one recipient: rows of                *)
(* scheduled_calls that the dispatcher sends by e-mail, text or both       *)
(* (runDispatcher, channels web_chat and sms), and staff who copy or send  *)
(* it by hand (routes/chat-links.js).  A text carries a short URL when the *)
(* shortener gives one that leads to the chat; it is kept in the link's    *)
(* row for the next text and looked at again before it is used.            *)
(*                                                                         *)
(* Links are numbered in the order of their creation.  What the texts say, *)
(* and the best-effort records of whom they were addressed to (setRecipient)*)
(* and the log of sends), are left out.                                    *)
(***************************************************************************)
EXTENDS Integers, FiniteSets

CONSTANTS
  Notice,            \* rows of scheduled_calls, each used once
  Clerk,             \* requests of staff, each used once
  MaxLinks,          \* bound: links
  Short,             \* short URLs
  MaxTries,          \* scheduled_calls.max_attempts
  MaxDeliveryFaults  \* bound: refusals, lost answers, failed statements, deaths

ASSUME DeliveryAssumption ==
  /\ IsFiniteSet(Notice) /\ Notice \cap Clerk = {}
  /\ MaxLinks \in Nat /\ MaxTries \in Nat \ {0}
  /\ MaxDeliveryFaults \in Nat /\ Short \cap {"plain", "none"} = {}

VARIABLES
  notice,  \* the rows
  link,    \* the rows of chat_links
  leads,   \* the link a short URL leads to, or 0
  work,    \* where a sender is, what it sends and what was accepted
  told,    \* messages that have gone out, by row and medium
  slips,   \* history: sends of a row that it could not know had succeeded
  deliveryFaults

deliveryVars == <<notice, link, leads, work, told, slips, deliveryFaults>>

Medium == {"email", "sms"}
Sender == Notice \cup Clerk

NoLink == [made |-> FALSE, live |-> FALSE, short |-> "none",
           sent |-> FALSE, origin |-> "scheduler"]
Idle   == [at |-> "idle", link |-> 0, legs |-> {}, tried |-> {}, out |-> {}, url |-> "none"]

DeliveryFault == deliveryFaults < MaxDeliveryFaults /\ deliveryFaults' = deliveryFaults + 1

DeliveryInit == /\ notice = [n \in Notice |-> [status |-> "absent", channel |-> "web_chat", tries |-> 1]]
                /\ link = [k \in 1 .. MaxLinks |-> NoLink]
                /\ leads = [s \in Short |-> 0]
                /\ work = [x \in Sender |-> Idle]
                /\ told = [n \in Notice |-> [m \in Medium |-> 0]]
                /\ slips = [n \in Notice |-> 0]
                /\ deliveryFaults = 0

\* An update of the link's row.
Writes(k, row) == link' = IF link[k].live THEN [link EXCEPT ![k] = row] ELSE link

Moves(x, at) == work' = [work EXCEPT ![x].at = at]

-----------------------------------------------------------------------------
(* Who starts.                                                             *)

Pending(n) == notice[n].status \in {"pending", "in_progress"}

\* One active row per job, call type and recipient (scheduled_calls_active_uniq).
AddNotice(n) ==
  /\ notice[n].status = "absent" /\ ~\E i \in Notice : Pending(i)
  /\ \E channel \in {"web_chat", "sms"} :
       notice' = [notice EXCEPT ![n].status = "pending", ![n].channel = channel]
  /\ UNCHANGED <<link, leads, work, told, slips, deliveryFaults>>

\* The delivery method and the addresses are looked up at every attempt; with
\* no leg left the row throws.
BeginNotice(n, legs) ==
  /\ work[n].at = "idle" /\ notice[n].status = "pending"
  /\ notice[n].channel = "sms" => legs = {"sms"}
  /\ notice' = [notice EXCEPT ![n].status = "in_progress"]
  /\ work' = [work EXCEPT ![n] = [Idle EXCEPT !.legs = legs,
                                              !.at = IF legs = {} THEN "settling" ELSE "looking"]]
  /\ UNCHANGED <<link, leads, told, slips, deliveryFaults>>

\* Copy the link, mail it or text it.
BeginClerk(c, legs) ==
  /\ work[c].at = "idle" /\ legs # Medium
  /\ work' = [work EXCEPT ![c].at = "looking", ![c].legs = legs]
  /\ UNCHANGED <<notice, link, leads, told, slips, deliveryFaults>>

-----------------------------------------------------------------------------
(* createChatLinkForAppointment.                                           *)

\* Where a sender goes once it has the link.
WithLink(x) == IF work[x].legs = {} THEN "closing" ELSE "sending"

LiveLinks == {k \in 1 .. MaxLinks : link[k].live}

\* The newest live one.
FindLink(x) ==
  /\ work[x].at = "looking"
  /\ \/ LiveLinks = {} /\ Moves(x, "making")
     \/ \E k \in LiveLinks :
          /\ \A i \in LiveLinks : i <= k
          /\ work' = [work EXCEPT ![x].at = WithLink(x), ![x].link = k]
  /\ UNCHANGED <<notice, link, leads, told, slips, deliveryFaults>>

MakeLink(x, k) ==
  /\ work[x].at = "making"
  /\ k \in 1 .. MaxLinks /\ ~link[k].made /\ \A i \in 1 .. (k - 1) : link[i].made
  /\ link' = [link EXCEPT ![k] = [NoLink EXCEPT !.made = TRUE, !.live = TRUE]]
  /\ work' = [work EXCEPT ![x].at = WithLink(x), ![x].link = k]
  /\ UNCHANGED <<notice, leads, told, slips, deliveryFaults>>

\* Twenty-four hours on, or the visit is deleted.  Nobody reads the row again.
ExpireLink(k) ==
  /\ link[k].live
  /\ link' = [link EXCEPT ![k] = [NoLink EXCEPT !.made = TRUE]]
  /\ UNCHANGED <<notice, leads, work, told, slips, deliveryFaults>>

-----------------------------------------------------------------------------
(* The legs, e-mail first.                                                 *)

\* Where a sender goes after a leg.
AfterLeg(x, tried, out) ==
  IF x \in Clerk THEN IF out = {} THEN "done" ELSE "closing"
  ELSE IF tried # work[x].legs THEN "sending" ELSE "settling"

\* The provider accepts the message, refuses it, or accepts it and the answer
\* is lost.
TryLeg(x, m) ==
  \E accepted, heard \in BOOLEAN :
    LET tried == work[x].tried \cup {m}
        out   == IF accepted /\ heard THEN work[x].out \cup {m} ELSE work[x].out
    IN  /\ IF accepted /\ heard THEN UNCHANGED deliveryFaults ELSE DeliveryFault
        /\ work' = [work EXCEPT ![x].tried = tried, ![x].out = out,
                                ![x].at = AfterLeg(x, tried, out)]
        /\ told' = IF accepted /\ x \in Notice THEN [told EXCEPT ![x][m] = @ + 1] ELSE told
        /\ slips' = IF accepted /\ ~heard /\ x \in Notice THEN [slips EXCEPT ![x] = @ + 1]
                    ELSE slips

MailLink(x) ==
  /\ work[x].at = "sending" /\ "email" \in work[x].legs \ work[x].tried
  /\ TryLeg(x, "email")
  /\ UNCHANGED <<notice, link, leads>>

\* The cached short URL, if the link still has a row.
ReadShort(x) ==
  LET kept == IF link[work[x].link].live THEN link[work[x].link].short ELSE "none"
  IN  /\ work[x].at = "sending" /\ work[x].legs \ work[x].tried = {"sms"}
      /\ work' = [work EXCEPT ![x].url = kept,
                              ![x].at = IF kept = "none" THEN "minting" ELSE "checking"]
      /\ UNCHANGED <<notice, link, leads, told, slips, deliveryFaults>>

\* setShortUrl: a failure is swallowed.
Caches(x, s) ==
  \/ Writes(work[x].link, [link[work[x].link] EXCEPT !.short = s]) /\ UNCHANGED deliveryFaults
  \/ UNCHANGED link /\ DeliveryFault

\* resolvesCleanlyTo, one hop to the chat; what does not is thrown away.
CheckShort(x) ==
  LET home == leads[work[x].url] = work[x].link
  IN  /\ work[x].at = "checking"
      /\ \/ home /\ Moves(x, "texting") /\ UNCHANGED <<link, deliveryFaults>>
         \/ ~home /\ Caches(x, "none")
                  /\ work' = [work EXCEPT ![x].at = "minting", ![x].url = "none"]
      /\ UNCHANGED <<notice, leads, told, slips>>

\* The look times out.
CheckFails(x) ==
  /\ work[x].at = "checking" /\ DeliveryFault
  /\ Writes(work[x].link, [link[work[x].link] EXCEPT !.short = "none"])
  /\ work' = [work EXCEPT ![x].at = "minting", ![x].url = "none"]
  /\ UNCHANGED <<notice, leads, told, slips>>

\* shorten: a short URL that was followed to the chat, or else the plain one.
MintShort(x) ==
  /\ work[x].at = "minting"
  /\ \/ /\ work' = [work EXCEPT ![x].at = "texting", ![x].url = "plain"]
        /\ UNCHANGED <<link, leads, deliveryFaults>>
     \/ \E s \in Short :
          /\ leads[s] = 0 /\ \A k \in 1 .. MaxLinks : link[k].short # s
          /\ leads' = [leads EXCEPT ![s] = work[x].link]
          /\ work' = [work EXCEPT ![x].at = "texting", ![x].url = s]
          /\ Caches(x, s)
  /\ UNCHANGED <<notice, told, slips>>

\* The shortener sends visitors elsewhere from now on.
Divert(s) ==
  /\ leads[s] # 0
  /\ leads' = [leads EXCEPT ![s] = 0]
  /\ UNCHANGED <<notice, link, work, told, slips, deliveryFaults>>

TextLink(x) ==
  /\ work[x].at = "texting"
  /\ TryLeg(x, "sms")
  /\ UNCHANGED <<notice, link, leads>>

-----------------------------------------------------------------------------
(* How it ends.                                                            *)

\* Only a row of which no leg went out is tried again.
Undelivered_AnyLeg(n) ==  \* mutant: a failed leg repeats both
  work[n].out = {} \/ work[n].out # work[n].legs
Undelivered(n) == work[n].out = {}

\* markFailedOrRetry.
Again(n) ==
  /\ notice' = [notice EXCEPT ![n] =
       IF notice[n].tries + 1 > MaxTries THEN [notice[n] EXCEPT !.status = "failed"]
       ELSE [notice[n] EXCEPT !.status = "pending", !.tries = notice[n].tries + 1]]
  /\ work' = [work EXCEPT ![n] = Idle]

RetryNotice(n) ==
  /\ work[n].at = "settling" /\ Undelivered(n)
  /\ Again(n)
  /\ UNCHANGED <<link, leads, told, slips, deliveryFaults>>

\* markCompletedWithChatLink.
CompleteNotice(n) ==
  /\ work[n].at = "settling" /\ ~Undelivered(n)
  /\ notice' = [notice EXCEPT ![n].status = "completed"]
  /\ work' = [work EXCEPT ![n] = IF notice[n].channel = "sms" THEN Idle ELSE [@ EXCEPT !.at = "closing"]]
  /\ UNCHANGED <<link, leads, told, slips, deliveryFaults>>

\* It fails, and the catch makes the row due again.
CompletionFails(n) ==
  /\ work[n].at = "settling" /\ ~Undelivered(n) /\ DeliveryFault
  /\ Again(n)
  /\ slips' = [slips EXCEPT ![n] = @ + 1]
  /\ UNCHANGED <<link, leads, told>>

\* markSent and setOrigin, or setOrigin alone; a failure is swallowed.
Stamped(k, x) ==
  IF x \in Notice THEN [k EXCEPT !.sent = TRUE, !.origin = "scheduler"]
  ELSE [k EXCEPT !.origin = "manual"]

CloseSend(x) ==
  /\ work[x].at = "closing"
  /\ \/ Writes(work[x].link, Stamped(link[work[x].link], x)) /\ UNCHANGED deliveryFaults
     \/ UNCHANGED link /\ DeliveryFault
  /\ work' = [work EXCEPT ![x] = [Idle EXCEPT !.at = IF x \in Clerk THEN "done" ELSE "idle"]]
  /\ UNCHANGED <<notice, leads, told, slips>>

\* The dispatcher dies.  (A request of staff that dies does nothing more.)
SenderDies(n) ==
  /\ work[n].at # "idle" /\ DeliveryFault
  /\ work' = [work EXCEPT ![n] = Idle]
  /\ slips' = IF work[n].out = {} THEN slips ELSE [slips EXCEPT ![n] = @ + 1]
  /\ UNCHANGED <<notice, link, leads, told>>

\* The reaper at the head of a later run.
RecoverNotice(n) ==
  /\ notice[n].status = "in_progress" /\ work[n].at = "idle"
  /\ notice' = [notice EXCEPT ![n].status = "pending"]
  /\ UNCHANGED <<link, leads, work, told, slips, deliveryFaults>>

-----------------------------------------------------------------------------
DeliveryNext ==
  \/ \E n \in Notice : \/ AddNotice(n)
                       \/ \E legs \in SUBSET Medium : BeginNotice(n, legs)
                       \/ RetryNotice(n) \/ CompleteNotice(n)
                       \/ CompletionFails(n) \/ SenderDies(n) \/ RecoverNotice(n)
  \/ \E c \in Clerk, legs \in SUBSET Medium : BeginClerk(c, legs)
  \/ \E x \in Sender : \/ FindLink(x) \/ MailLink(x) \/ ReadShort(x) \/ CheckShort(x)
                       \/ CheckFails(x) \/ MintShort(x) \/ TextLink(x) \/ CloseSend(x)
                       \/ \E k \in 1 .. MaxLinks : MakeLink(x, k)
  \/ \E k \in 1 .. MaxLinks : ExpireLink(k)
  \/ \E s \in Short : Divert(s)

DeliverySpec == DeliveryInit /\ [][DeliveryNext]_deliveryVars

-----------------------------------------------------------------------------
\* Every variable has its type.
DeliveryTypeOK ==
  /\ notice \in [Notice -> [status : {"absent", "pending", "in_progress", "completed", "failed"},
                            channel : {"web_chat", "sms"}, tries : 1 .. MaxTries]]
  /\ link \in [1 .. MaxLinks ->
       [made : BOOLEAN, live : BOOLEAN,
        short : Short \cup {"none"}, sent : BOOLEAN, origin : {"scheduler", "manual"}]]
  /\ leads \in [Short -> 0 .. MaxLinks]
  /\ work \in [Sender ->
       [at : {"idle", "looking", "making", "sending", "checking", "minting",
              "texting", "settling", "closing", "done"},
        link : 0 .. MaxLinks, legs : SUBSET Medium, tried : SUBSET Medium,
        out : SUBSET Medium, url : Short \cup {"none", "plain"}]]
  /\ told \in [Notice -> [Medium -> Nat]]
  /\ slips \in [Notice -> Nat]
  /\ deliveryFaults \in 0 .. MaxDeliveryFaults

\* A row does not send a leg that has gone out once more, however often its
\* other leg or anything else fails and it is retried (scheduler.js: a retry
\* would re-send whichever leg already succeeded), except when the success was
\* not known or not stored.
LegOnce == \A n \in Notice, m \in Medium : told[n][m] <= 1 + slips[n]
=============================================================================
