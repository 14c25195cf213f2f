---------------------------- MODULE FraudWebhook ----------------------------
(***************************************************************************)
(* Stripe's fraud events of one customer, and what the app does on them.   *)
(*                                                                         *)
(* app/api/fraud/webhook/route.ts receives early fraud warnings and        *)
(* disputes.  A delivery claims its event in processed_webhooks            *)
(* (convex/extraUsage.ts), refunds the charge of a warning, cancels the    *)
(* subscriptions and detaches the payment methods that existed when the    *)
(* event occurred, blocks the customer, suspends the users and finalizes   *)
(* the claim.  Stripe delivers an event until an attempt is answered with  *)
(* success; attempts of one event may overlap, and each may fail or be     *)
(* killed at every await.  A claim that is never finalized goes stale      *)
(* after ten minutes and can be taken over.                                *)
(*                                                                         *)
(* One action is one await of the route with the straight-line code around *)
(* it.  An error of any request ends the delivery (Abort), before or after *)
(* the request took effect.                                                *)
(***************************************************************************)
EXTENDS Naturals

CONSTANTS
  Delivery,      \* slots in which the route handles an attempt
  Warning,       \* radar.early_fraud_warning.created events
  Fraudulent,    \* charge.dispute.created events with reason "fraudulent"
  OtherDispute,  \* charge.dispute.created events with another reason
  NoEvent,
  Sub, Card,     \* the customer's subscriptions and payment methods
  User,          \* active members of the customer's organization
  Charge,        \* cents of the charge the events are about
  MaxFailures,   \* bound on the attempts that fail
  Overrun,       \* a delivery may run longer than a claim is honoured
  Patient        \* Stripe retries late: no other attempt of the event is under
                 \* way, and no claim of an earlier one is honoured

Event == Warning \cup Fraudulent \cup OtherDispute
Blocking == Warning \cup Fraudulent
Item == Sub \cup Card

ASSUME FraudAssumption ==
  /\ NoEvent \notin Event
  /\ Warning \cap (Fraudulent \cup OtherDispute) = {}
  /\ Fraudulent \cap OtherDispute = {}
  /\ Sub \cap Card = {}
  /\ Item \cap User = {}
  /\ Charge \in Nat \ {0}
  /\ MaxFailures \in Nat
  /\ Overrun \in BOOLEAN
  /\ Patient \in BOOLEAN

VARIABLES
  occurred,    \* events that Stripe has created
  acked,       \* events of which an attempt was answered with success
  claim,       \* the row of each event in processed_webhooks
  items,       \* Stripe: the customer's subscriptions and payment methods
  later,       \* the events that had occurred when each item was created
  blocked,     \* Stripe: metadata.blocked of the customer
  refunded,    \* Stripe: cents of the charge that are refunded
  keys,        \* Stripe: idempotency keys of refunds
  suspension,  \* user_suspensions: the row of each user for each event
  work,        \* the state of each delivery
  failures     \* attempts that have failed

vars == <<occurred, acked, claim, items, later, blocked, refunded, keys,
          suspension, work, failures>>
stripeVars == <<items, later, blocked, refunded, keys>>

PCs == {"idle", "claim", "charge", "refund", "refresh", "refundRest",
        "listSubs", "cancel", "listCards", "detach", "mark", "users",
        "suspend", "finalize"}

\* A delivery: its event, the refundable cents it saw, and what is left to do
\* in the loop it is in.
Idle == [pc |-> "idle", event |-> NoEvent, seen |-> 0, todo |-> {}]
Work == [pc : PCs, event : Event \cup {NoEvent}, seen : 0..Charge,
         todo : SUBSET (Item \cup User)]

Key == Event \X {"first", "remaining"} \X (0..Charge)

\* What a delivery can have left to do in each loop.
Loop(pc) == CASE pc = "cancel" -> Sub [] pc = "detach" -> Card
              [] pc = "suspend" -> User [] OTHER -> {}

TypeOK ==
  /\ occurred \subseteq Event
  /\ acked \subseteq Event
  /\ claim \in [Event -> {"none", "pending", "stale", "completed"}]
  /\ items \in [Item -> {"none", "live", "gone"}]
  /\ later \in [Item -> SUBSET Event]
  /\ blocked \in BOOLEAN
  /\ refunded \in 0..Charge
  /\ keys \subseteq Key
  /\ suspension \in [Event -> [User -> {"none", "active", "resolved"}]]
  /\ work \in [Delivery -> Work]
  /\ failures \in 0..MaxFailures
  /\ \A d \in Delivery :
       /\ work[d].pc = "idle" <=> work[d].event = NoEvent
       /\ work[d].todo \subseteq Loop(work[d].pc)

Init ==
  /\ occurred = {}
  /\ acked = {}
  /\ claim = [e \in Event |-> "none"]
  /\ items = [x \in Item |-> "none"]
  /\ later = [x \in Item |-> {}]
  /\ blocked = FALSE
  /\ refunded = 0
  /\ keys = {}
  /\ suspension = [e \in Event |-> [u \in User |-> "none"]]
  /\ work = [d \in Delivery |-> Idle]
  /\ failures = 0

Goto(d, pc) == work' = [work EXCEPT ![d].pc = pc]
Leave(d) == work' = [work EXCEPT ![d] = Idle]

\* Answered with success: Stripe stops delivering the event.
Acknowledge(d) ==
  /\ acked' = acked \cup {work[d].event}
  /\ Leave(d)

Underway(e) == \E d \in Delivery : work[d].event = e

-----------------------------------------------------------------------------
\* Stripe and the customer.

Occur(e) ==
  /\ e \notin occurred
  /\ occurred' = occurred \cup {e}
  /\ UNCHANGED <<acked, claim, stripeVars, suspension, work, failures>>

\* The customer subscribes or adds a payment method.
Create(x) ==
  /\ items[x] = "none"
  /\ items' = [items EXCEPT ![x] = "live"]
  /\ later' = [later EXCEPT ![x] = occurred]
  /\ UNCHANGED <<occurred, acked, claim, blocked, refunded, keys, suspension,
                 work, failures>>

\* The issuer has taken the charge back: Stripe refunds it no more.
DisputeOpen == occurred \cap (Fraudulent \cup OtherDispute) # {}

\* Somebody else refunds a part of the charge.
PartialRefund ==
  /\ refunded < Charge
  /\ ~DisputeOpen
  /\ refunded' = refunded + 1
  /\ UNCHANGED <<occurred, acked, claim, items, later, blocked, keys,
                 suspension, work, failures>>

\* An attempt to deliver e; Stripe may also repeat one that was answered.
Deliver(d, e) ==
  /\ work[d].pc = "idle"
  /\ e \in occurred
  /\ Patient => ~Underway(e) /\ claim[e] # "pending"
  /\ work' = [work EXCEPT ![d] = [Idle EXCEPT !.pc = "claim", !.event = e]]
  /\ UNCHANGED <<occurred, acked, claim, stripeVars, suspension, failures>>

-----------------------------------------------------------------------------
\* claimWebhookProcessing.

\* Mutant of Claim: a claim that is held is not honoured.
ClaimAnyway(d) ==
  /\ work[d].pc = "claim"
  /\ IF claim[work[d].event] # "completed"
       THEN /\ claim' = [claim EXCEPT ![work[d].event] = "pending"]
            /\ Goto(d, "charge")
            /\ UNCHANGED acked
       ELSE /\ Acknowledge(d)
            /\ UNCHANGED claim
  /\ UNCHANGED <<occurred, stripeVars, suspension, failures>>

\* Mutant of Claim: a stale claim is not taken over.
ClaimOnce(d) ==
  /\ work[d].pc = "claim"
  /\ IF claim[work[d].event] = "none"
       THEN /\ claim' = [claim EXCEPT ![work[d].event] = "pending"]
            /\ Goto(d, "charge")
            /\ UNCHANGED acked
       ELSE /\ Acknowledge(d)
            /\ UNCHANGED claim
  /\ UNCHANGED <<occurred, stripeVars, suspension, failures>>

\* An event that is completed, or claimed by another delivery, is answered with
\* success and skipped.
Claim(d) ==
  /\ work[d].pc = "claim"
  /\ IF claim[work[d].event] \in {"none", "stale"}
       THEN /\ claim' = [claim EXCEPT ![work[d].event] = "pending"]
            /\ Goto(d, "charge")
            /\ UNCHANGED acked
       ELSE /\ Acknowledge(d)
            /\ UNCHANGED claim
  /\ UNCHANGED <<occurred, stripeVars, suspension, failures>>

\* Ten minutes pass; a delivery is over by then unless it may overrun.
GoesStale(e) ==
  /\ claim[e] = "pending"
  /\ Overrun \/ \A d \in Delivery : work[d].event = e => work[d].pc = "claim"
  /\ claim' = [claim EXCEPT ![e] = "stale"]
  /\ UNCHANGED <<occurred, acked, stripeVars, suspension, work, failures>>

-----------------------------------------------------------------------------
\* handleEarlyFraudWarning and handleDisputeCreated; refundChargeForEFW.

Refundable == Charge - refunded

RetrieveCharge(d) ==
  /\ work[d].pc = "charge"
  /\ IF work[d].event \in Warning /\ Refundable > 0
       THEN work' = [work EXCEPT ![d].pc = "refund", ![d].seen = Refundable]
       ELSE Goto(d, "listSubs")
  /\ UNCHANGED <<occurred, acked, claim, stripeVars, suspension, failures>>

\* refunds.create of an amount under a key, and where the code goes when the
\* charge has less left than that.  A charge that is disputed or refunded in
\* full has nothing to retry; a known key changes nothing.
RefundRequest(d, key, amount, short) ==
  /\ IF key \in keys \/ DisputeOpen \/ refunded = Charge
       THEN Goto(d, "listSubs") /\ UNCHANGED <<refunded, keys>>
     ELSE IF amount <= Refundable
       THEN /\ Goto(d, "listSubs")
            /\ refunded' = refunded + amount
            /\ keys' = keys \cup {key}
     ELSE work' = [work EXCEPT ![d] = short] /\ UNCHANGED <<refunded, keys>>
  /\ UNCHANGED <<occurred, acked, claim, items, later, blocked, suspension,
                 failures>>

\* Mutant of Refund: when another refund wins the race, this one is given up.
RefundOnce(d) ==
  /\ work[d].pc = "refund"
  /\ RefundRequest(d, <<work[d].event, "first", work[d].seen>>, work[d].seen,
                   [work[d] EXCEPT !.pc = "listSubs"])

Refund(d) ==
  /\ work[d].pc = "refund"
  /\ RefundRequest(d, <<work[d].event, "first", work[d].seen>>, work[d].seen,
                   [work[d] EXCEPT !.pc = "refresh"])

\* Another refund won the race: the charge is read again.
Refresh(d) ==
  /\ work[d].pc = "refresh"
  /\ IF Refundable > 0
       THEN work' = [work EXCEPT ![d].pc = "refundRest",
                                 ![d].seen = Refundable]
       ELSE Goto(d, "listSubs")
  /\ UNCHANGED <<occurred, acked, claim, stripeVars, suspension, failures>>

\* The second and last attempt; losing again fails the delivery.
RefundRest(d) ==
  /\ work[d].pc = "refundRest"
  /\ RefundRequest(d, <<work[d].event, "remaining", work[d].seen>>,
                   work[d].seen, Idle)

-----------------------------------------------------------------------------
\* cancelAllSubscriptions and detachAllPaymentMethods.

\* Mutant of Predating: items created after the event are taken, too.
AllLive(e, kind) == {x \in kind : items[x] = "live"}

\* What is live and was not created after the event.
Predating(e, kind) == {x \in kind : items[x] = "live" /\ e \notin later[x]}

List(d) ==
  /\ \/ /\ work[d].pc = "listSubs"
        /\ work' = [work EXCEPT ![d].pc = "cancel",
                                ![d].todo = Predating(work[d].event, Sub)]
     \/ /\ work[d].pc = "listCards"
        /\ work' = [work EXCEPT ![d].pc = "detach",
                                ![d].todo = Predating(work[d].event, Card)]
  /\ UNCHANGED <<occurred, acked, claim, stripeVars, suspension, failures>>

\* One request of the loop; an item that is gone already is skipped.
Remove(d) ==
  /\ work[d].pc \in {"cancel", "detach"}
  /\ \E x \in work[d].todo :
       /\ items' = [items EXCEPT ![x] = "gone"]
       /\ work' = [work EXCEPT ![d].todo = @ \ {x}]
  /\ UNCHANGED <<occurred, acked, claim, later, blocked, refunded, keys,
                 suspension, failures>>

\* Mutant of RemovedAll: an error in the loop is logged and the rest skipped.
RemovedSome(d) ==
  /\ \/ work[d].pc = "cancel" /\ Goto(d, "listCards")
     \/ work[d].pc = "detach" /\ Goto(d, IF work[d].event \in Blocking
                                           THEN "mark" ELSE "users")
  /\ UNCHANGED <<occurred, acked, claim, stripeVars, suspension, failures>>

\* Only a fraudulent event blocks the customer.
RemovedAll(d) ==
  /\ work[d].todo = {}
  /\ \/ work[d].pc = "cancel" /\ Goto(d, "listCards")
     \/ work[d].pc = "detach" /\ Goto(d, IF work[d].event \in Blocking
                                           THEN "mark" ELSE "users")
  /\ UNCHANGED <<occurred, acked, claim, stripeVars, suspension, failures>>

-----------------------------------------------------------------------------
\* markCustomerBlocked, suspendCustomerUsers, finalizeWebhookProcessing.

Mark(d) ==
  /\ work[d].pc = "mark"
  /\ blocked' = TRUE
  /\ Goto(d, "users")
  /\ UNCHANGED <<occurred, acked, claim, items, later, refunded, keys,
                 suspension, failures>>

\* resolveUserIdsFromCustomer: its errors are swallowed and find nobody.
FindUsers(d) ==
  /\ work[d].pc = "users"
  /\ \E found \in {User, {}} :
       work' = [work EXCEPT ![d].pc = "suspend", ![d].todo = found]
  /\ UNCHANGED <<occurred, acked, claim, stripeVars, suspension, failures>>

\* upsertActive.
Suspend(d) ==
  /\ work[d].pc = "suspend"
  /\ \E u \in work[d].todo :
       /\ suspension' = [suspension EXCEPT ![work[d].event][u] = "active"]
       /\ work' = [work EXCEPT ![d].todo = @ \ {u}]
  /\ UNCHANGED <<occurred, acked, claim, stripeVars, failures>>

SuspendedAll(d) ==
  /\ work[d].pc = "suspend"
  /\ work[d].todo = {}
  /\ Goto(d, "finalize")
  /\ UNCHANGED <<occurred, acked, claim, stripeVars, suspension, failures>>

\* The delivery is answered with success, whether or not this write succeeds.
Finalize(d) ==
  /\ work[d].pc = "finalize"
  /\ \/ claim' = [claim EXCEPT ![work[d].event] = "completed"]
     \/ UNCHANGED claim
  /\ Acknowledge(d)
  /\ UNCHANGED <<occurred, stripeVars, suspension, failures>>

\* A request fails and the delivery is answered with 500, or it is killed: the
\* claim stays pending.
Abort(d) ==
  /\ work[d].pc # "idle"
  /\ failures < MaxFailures
  /\ failures' = failures + 1
  /\ Leave(d)
  /\ UNCHANGED <<occurred, acked, claim, stripeVars, suspension>>

\* resolveBySource: support lifts a suspension.
Resolve(e, u) ==
  /\ suspension[e][u] = "active"
  /\ suspension' = [suspension EXCEPT ![e][u] = "resolved"]
  /\ UNCHANGED <<occurred, acked, claim, stripeVars, work, failures>>

Step(d) ==
  \/ Claim(d)
  \/ RetrieveCharge(d) \/ Refund(d) \/ Refresh(d) \/ RefundRest(d)
  \/ List(d) \/ Remove(d) \/ RemovedAll(d)
  \/ Mark(d) \/ FindUsers(d) \/ Suspend(d) \/ SuspendedAll(d)
  \/ Finalize(d)

Next ==
  \/ \E e \in Event : Occur(e) \/ GoesStale(e)
  \/ \E x \in Item : Create(x)
  \/ PartialRefund
  \/ \E d \in Delivery, e \in Event : Deliver(d, e)
  \/ \E d \in Delivery : Step(d) \/ Abort(d)
  \/ \E e \in Event, u \in User : Resolve(e, u)

Spec == Init /\ [][Next]_vars

-----------------------------------------------------------------------------
\* Properties.

\* All that event e asks of Stripe has been done: nothing that existed when it
\* occurred is left to charge, the charge of a warning is refunded in full (or
\* a dispute took the money back), and a fraudulent customer is blocked.
Enforced(e) ==
  /\ Predating(e, Item) = {}
  /\ e \in Warning => refunded = Charge \/ DisputeOpen
  /\ e \in Blocking => blocked

\* An event is completed only when it is enforced, although deliveries of it
\* may overlap, die between any two requests, and lose the race for the refund.
CompletedIsEnforced ==
  \A e \in Event : claim[e] = "completed" => Enforced(e)

\* Why: what each delivery has achieved by the step it has reached.
AfterMark == {"users", "suspend", "finalize"}
AfterCards == {"mark"} \cup AfterMark
AfterSubs == {"listCards", "detach"} \cup AfterCards
AfterRefund == {"listSubs", "cancel"} \cup AfterSubs

Achieved(d) ==
  LET pc == work[d].pc
      e == work[d].event
  IN  /\ pc # "idle" => e \in occurred
      /\ pc \in {"refund", "refundRest"} => Refundable <= work[d].seen
      /\ pc \in AfterRefund /\ e \in Warning
           => refunded = Charge \/ DisputeOpen
      /\ pc = "cancel" => Predating(e, Sub) \subseteq work[d].todo
      /\ pc \in AfterSubs => Predating(e, Sub) = {}
      /\ pc = "detach" => Predating(e, Card) \subseteq work[d].todo
      /\ pc \in AfterCards => Predating(e, Card) = {}
      /\ pc \in AfterMark /\ e \in Blocking => blocked

\* A refund that was accepted took all that was left.
RefundsAreFull == keys # {} => refunded = Charge

CompletedOccurred == \A e \in Event : claim[e] = "completed" => e \in occurred

IInv ==
  /\ TypeOK
  /\ RefundsAreFull
  /\ CompletedOccurred
  /\ CompletedIsEnforced
  /\ \A d \in Delivery : Achieved(d)

\* A subscription or card that is newer than every event is left alone, however
\* often the events are delivered again.
NewItemsAreKept ==
  [][\A x \in Item : items[x] = "live" /\ occurred \subseteq later[x] =>
       items'[x] = "live"]_vars

\* Two deliveries never handle one event at the same time, as long as none
\* outlives its claim.
OneHandler ==
  \A d, f \in Delivery :
    /\ d # f
    /\ work[d].event = work[f].event
    => work[d].pc \in {"idle", "claim"} \/ work[f].pc \in {"idle", "claim"}

\* Why: a delivery past its claim still holds it.
HoldersHold ==
  \A d \in Delivery :
    work[d].pc \in {"idle", "claim"} \/ claim[work[d].event] = "pending"

\* What support has resolved is not suspended again by a redelivery of an event
\* that is completed.
ResolvedStays ==
  [][\A e \in Event, u \in User :
       /\ claim[e] = "completed"
       /\ suspension[e][u] = "resolved"
       => suspension'[e][u] = "resolved"]_vars

\* A delivery that is late or repeated undoes nothing that came after its event:
\* neither what the customer has set up since, nor what support has resolved.
LateDeliveryKeeps == NewItemsAreKept /\ ResolvedStays

-----------------------------------------------------------------------------
\* Progress.  Stripe delivers an event again until it is acknowledged, a claim
\* that is never finalized goes stale, and a delivery that does not fail goes
\* on.
Fairness ==
  /\ \A e \in Event :
       /\ WF_vars(GoesStale(e))
       /\ SF_vars(e \notin acked /\ \E d \in Delivery : Deliver(d, e))
  /\ \A d \in Delivery : WF_vars(Step(d))

FairSpec == Spec /\ Fairness

\* Every event is enforced in the end, although deliveries fail: a failed
\* attempt leaves a claim that a later one takes over.
EveryEventIsEnforced ==
  \A e \in Event : e \in occurred ~> Enforced(e)
=============================================================================
