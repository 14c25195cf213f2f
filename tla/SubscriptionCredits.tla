------------------------ MODULE SubscriptionCredits ------------------------
(***************************************************************************)
(* The monthly credits of a subscriber under Stripe's events: the          *)
(* subscription webhook (app/api/subscription/webhook/route.ts) resets the *)
(* bucket in Redis when an invoice is paid, holds it at what is left when a *)
(* renewal fails, and carries it over to another tier's bucket when the    *)
(* plan changes (the scripts of lib/rate-limit/token-bucket.ts).           *)
(*                                                                         *)
(* Stripe delivers an event again until it is answered, in any order and   *)
(* to several handlers at once. A handler reads the subscription and its   *)
(* invoice from Stripe as they are by then, not as they were at the event, *)
(* and the scripts run one at a time, in between. Meanwhile the user       *)
(* spends, in the tier that the session's entitlement names, which follows *)
(* Stripe's only later. Time is counted in the seconds of Stripe's clock.  *)
(***************************************************************************)
EXTENDS Integers, FiniteSets

CONSTANTS
    Tiers,          \* the paid tiers
    TierMax,        \* credits of a tier's full cycle (MONTHLY_CREDITS)
    FirstTier,      \* the tier the user starts with, with a full bucket
    Invoices,
    Handlers,       \* requests to the webhook under way at once
    Share,          \* a plan change leaves 1/Share of the cycle
    NoTier, NoInvoice,
    MaxChanges,     \* bound: plan changes
    MaxAttempts,    \* bound: failed attempts to charge an invoice
    MaxSpent,       \* bound: points spent in a cycle
    MaxFaults       \* bound: handlers that die, marks and answers that are lost

ASSUME Parameters ==
    /\ TierMax \in [Tiers -> Nat]
    /\ FirstTier \in Tiers /\ NoTier \notin Tiers /\ NoInvoice \notin Invoices
    /\ Share \in Nat \ {0}
    /\ {MaxChanges, MaxAttempts, MaxSpent, MaxFaults} \subseteq Nat

VARIABLES
    now,        \* Stripe's clock
    sub,        \* Stripe: the subscription's tier, status, latest invoice and cycle
    inv,        \* Stripe: the invoices
    sent,       \* Stripe: the events that are not answered yet
    processed,  \* processed_webhooks
    bucket,     \* Redis: usage:monthly:<user>:<tier>
    stash,      \* Redis: upgrade:carryover:<user>:<invoice>
    claim,      \*   ...:claim
    completed,  \*   ...:completed
    entitled,   \* the tier of the user's session
    handler,    \* the requests to the webhook
    spent,      \* observer: points spent of the bucket that holds the cycle
    left,       \* observer: tiers whose bucket was carried over to another
    changes,    \* observer: how often an invoice's plan change was applied
    missed,     \* observer: an event was taken for handled without a lookup's answer
    faults

stripe == <<now, sub, inv>>
redis == <<bucket, stash, claim, completed>>
vars == <<stripe, sent, processed, redis, entitled, handler, spent, left, changes, missed, faults>>

Lesser(a, b) == IF a < b THEN a ELSE b
Greater(a, b) == IF a > b THEN a ELSE b

-----------------------------------------------------------------------------
(* Types *)

NoAllocation == -1
NoTransition == [type |-> "none", at |-> 0, inv |-> NoInvoice]
Transition == [type: {"none", "paid", "payment_failed"}, at: Nat, inv: Invoices \cup {NoInvoice}]
NoBucket == [exists |-> FALSE, tokens |-> 0, allocation |-> NoAllocation, trans |-> NoTransition]
Bucket == [exists: BOOLEAN, tokens: Nat, allocation: Nat \cup {NoAllocation}, trans: Transition]
\* What the first request of a tier creates: full, and without an allocation.
FreshBucket(t) == [NoBucket EXCEPT !.exists = TRUE, !.tokens = TierMax[t]]

NoState == [target |-> NoTier, remaining |-> 0, allocation |-> 0, cycle |-> 0]
\* TierChangeBucketState: the bucket that is carried over, and its cycle.
CarryOver == [target: Tiers \cup {NoTier}, remaining: Nat, allocation: Nat, cycle: Nat]

NoEvent == [kind |-> "none", inv |-> NoInvoice, at |-> 0, from |-> NoTier, to |-> NoTier]
Event == [kind: {"none", "paid", "failed", "updated"}, inv: Invoices \cup {NoInvoice},
          at: Nat, from: Tiers \cup {NoTier}, to: Tiers \cup {NoTier}]

Subscription == [tier: Tiers, status: {"active", "past_due"},
                 latest: Invoices \cup {NoInvoice}, cycle: Nat]
Invoice == [reason: {"none", "subscription_cycle", "subscription_update"},
            status: {"none", "open", "paid"}, paidAt: Nat, attempts: Nat]

PCs == {"idle", "read", "invoice", "reset", "freeze", "stash", "claim", "apply", "mark", "answer"}
Idle == [pc |-> "idle", ev |-> NoEvent, to |-> FirstTier, raw |-> NoState]
Handler == [pc: PCs, ev: Event, to: Tiers, raw: CarryOver]

Init ==
    /\ now = 1
    /\ sub = [tier |-> FirstTier, status |-> "active", latest |-> NoInvoice, cycle |-> 0]
    /\ inv = [i \in Invoices |-> [reason |-> "none", status |-> "none", paidAt |-> 0, attempts |-> 0]]
    /\ sent = {} /\ processed = {}
    /\ bucket = [t \in Tiers |-> IF t = FirstTier
                    THEN [FreshBucket(t) EXCEPT !.allocation = TierMax[t]] ELSE NoBucket]
    /\ stash = [i \in Invoices |-> NoState]
    /\ claim = [i \in Invoices |-> NoState]
    /\ completed = [i \in Invoices |-> FALSE]
    /\ entitled = FirstTier
    /\ handler = [h \in Handlers |-> Idle]
    /\ spent = 0
    /\ left = {}
    /\ changes = [i \in Invoices |-> 0]
    /\ missed = FALSE
    /\ faults = 0

-----------------------------------------------------------------------------
(* Stripe *)

PlanChanges == {i \in Invoices : inv[i].reason = "subscription_update"}

Rest == UNCHANGED <<processed, redis, entitled, handler, spent, left, changes, missed, faults>>

\* An attempt to charge an invoice: it is paid, or a renewal becomes past due.
Charged(i, reason) ==
    \/ /\ inv' = [inv EXCEPT ![i] = [@ EXCEPT !.reason = reason, !.status = "paid", !.paidAt = now']]
       /\ sub' = [sub EXCEPT !.latest = i, !.status = "active",
                             !.cycle = @ + IF inv[i].reason = "none" THEN 1 ELSE 0]
       /\ sent' = sent \cup {[NoEvent EXCEPT !.kind = "paid", !.inv = i, !.at = now']}
    \/ /\ inv[i].attempts < MaxAttempts
       /\ inv' = [inv EXCEPT ![i] = [@ EXCEPT !.reason = reason, !.status = "open",
                                              !.attempts = inv[i].attempts + 1]]
       /\ sub' = [sub EXCEPT !.latest = i, !.status = "past_due",
                             !.cycle = @ + IF inv[i].reason = "none" THEN 1 ELSE 0]
       /\ sent' = sent \cup {[NoEvent EXCEPT !.kind = "failed", !.inv = i, !.at = now']}

\* A cycle ends: its invoice is charged. A month later than any plan change:
\* the events of one are answered by then.
Renew(i) ==
    /\ inv[i].reason = "none" /\ sub.status = "active"
    /\ \A e \in sent : e.inv \notin PlanChanges
    /\ \A h \in Handlers : handler[h].ev.inv \notin PlanChanges
    /\ \A j \in Invoices : inv[j].status # "open"
    /\ now' = now + 1
    /\ Charged(i, "subscription_cycle")
    /\ Rest

\* A renewal that is past due is charged again, perhaps within the same second.
ChargeAgain(i) ==
    /\ inv[i].reason = "subscription_cycle" /\ inv[i].status = "open"
    /\ now' \in {now, now + 1}
    /\ Charged(i, "subscription_cycle")
    /\ Rest

\* The user changes the plan: the item is replaced and an invoice is issued.
ChangePlan(i, t) ==
    /\ inv[i].reason = "none" /\ sub.status = "active" /\ t # sub.tier
    /\ Cardinality(PlanChanges) < MaxChanges
    /\ inv' = [inv EXCEPT ![i] = [@ EXCEPT !.reason = "subscription_update", !.status = "open"]]
    /\ sub' = [sub EXCEPT !.tier = t, !.latest = i]
    /\ sent' = sent \cup {[kind |-> "updated", inv |-> i, at |-> now, from |-> sub.tier, to |-> t]}
    /\ UNCHANGED now /\ Rest

\* The invoice of a plan change is paid.
PayChange(i) ==
    /\ i \in PlanChanges /\ inv[i].status = "open"
    /\ inv' = [inv EXCEPT ![i] = [@ EXCEPT !.status = "paid", !.paidAt = now]]
    /\ sent' = sent \cup {[NoEvent EXCEPT !.kind = "paid", !.inv = i, !.at = now]}
    /\ UNCHANGED <<now, sub>> /\ Rest

-----------------------------------------------------------------------------
(* The user *)

\* The session's entitlement is refreshed.
Entitle ==
    /\ entitled # sub.tier
    /\ entitled' = sub.tier
    /\ UNCHANGED <<stripe, sent, processed, redis, handler, spent, left, changes, missed,
                   faults>>

\* A point is spent of the bucket of the session's tier, which is made if it is
\* not there. What a session spends in a tier whose bucket was carried over
\* already is not in what was carried over.
Spend ==
    /\ spent < MaxSpent
    /\ LET b == IF bucket[entitled].exists THEN bucket[entitled] ELSE FreshBucket(entitled)
       IN /\ b.tokens > 0
          /\ bucket' = [bucket EXCEPT ![entitled] = [b EXCEPT !.tokens = @ - 1]]
    /\ spent' = IF entitled \in left THEN spent ELSE spent + 1
    /\ UNCHANGED <<stripe, sent, processed, stash, claim, completed, entitled, handler,
                   left, changes, missed, faults>>

-----------------------------------------------------------------------------
(* The webhook: what goes for every event *)

Fault == faults < MaxFaults /\ faults' = faults + 1
Go(h, pc, to, raw) == handler' = [handler EXCEPT ![h] =
    IF pc = "mark" THEN [Idle EXCEPT !.pc = pc, !.ev = handler[h].ev]
    ELSE [@ EXCEPT !.pc = pc, !.to = to, !.raw = raw]]
To(h, pc) == Go(h, pc, handler[h].to, handler[h].raw)
Unspent == UNCHANGED <<spent, left, changes, missed>>

\* An event is delivered: it is handled unless it was marked as processed.
Receive(h, e) ==
    /\ handler[h].pc = "idle" /\ e \in sent
    /\ handler' = [handler EXCEPT ![h] = [Idle EXCEPT !.ev = e,
            !.pc = IF e \in processed THEN "answer"
                   ELSE IF e.kind = "updated" THEN "stash" ELSE "read",
            !.to = IF e.kind = "updated" THEN e.to ELSE FirstTier]]
    /\ UNCHANGED <<stripe, sent, processed, redis, entitled, faults>> /\ Unspent

\* The event is marked after it was handled; a failure to do so is only logged.
Mark(h) ==
    /\ handler[h].pc = "mark"
    /\ \/ processed' = processed \cup {handler[h].ev} /\ UNCHANGED faults
       \/ Fault /\ UNCHANGED processed
    /\ To(h, "answer")
    /\ UNCHANGED <<stripe, sent, redis, entitled>> /\ Unspent

\* The request is answered, or the answer is lost and Stripe delivers again.
Answer(h) ==
    /\ handler[h].pc = "answer"
    /\ \/ sent' = sent \ {handler[h].ev} /\ UNCHANGED faults
       \/ Fault /\ UNCHANGED sent
    /\ handler' = [handler EXCEPT ![h] = Idle]
    /\ UNCHANGED <<stripe, processed, redis, entitled>> /\ Unspent

\* A script, or a request to Stripe or Convex, throws; or the handler dies.
Die(h) ==
    /\ handler[h].pc \notin {"idle", "answer"}
    /\ Fault
    /\ handler' = [handler EXCEPT ![h] = Idle]
    /\ UNCHANGED <<stripe, sent, processed, redis, entitled>> /\ Unspent

\* The lookup of the customer's users or of the subscription fails: the error is
\* swallowed, and the event taken for handled.
Miss(h) ==
    /\ handler[h].pc \in {"read", "stash"}
    /\ Fault /\ missed' = TRUE
    /\ To(h, "mark")
    /\ UNCHANGED <<stripe, sent, processed, redis, entitled, spent, left, changes>>

-----------------------------------------------------------------------------
(* The webhook: invoice.paid and invoice.payment_failed *)

\* Only the latest invoice of a subscription that is entitled restores credits.
Eligible(i) == sub.status = "active" /\ sub.latest = i

\* The subscription is read. A paid invoice goes on if it is eligible, a failed
\* one if the subscription is past due; the tier is the one it has by now.
ReadSubscription(h) ==
    /\ handler[h].pc = "read"
    /\ LET e == handler[h].ev
           next == IF e.kind = "paid"
                   THEN IF ~Eligible(e.inv) THEN "mark"
                        ELSE IF inv[e.inv].reason = "subscription_cycle" THEN "reset" ELSE "claim"
                   ELSE IF sub.status = "past_due" THEN "invoice" ELSE "mark"
       IN Go(h, next, sub.tier, NoState)
    /\ UNCHANGED <<stripe, sent, processed, redis, entitled, faults>> /\ Unspent

\* Mutant of ReadInvoice: only invoice.paid carries a plan change over.
ReadInvoiceOfFailure(h) ==
    /\ handler[h].pc = "invoice"
    /\ LET e == handler[h].ev
       IN To(h, IF e.kind = "updated" \/ inv[e.inv].status = "paid" THEN "mark" ELSE "freeze")
    /\ UNCHANGED <<stripe, sent, processed, redis, entitled, faults>> /\ Unspent

\* The invoice is read: of a failed one, whether it was paid since (the event's
\* invoice is taken if that fails), of a plan change, whether its invoice was
\* paid before the change was stashed.
ReadInvoice(h) ==
    /\ handler[h].pc = "invoice"
    /\ LET e == handler[h].ev
           paid == inv[e.inv].status = "paid"
       IN \/ /\ UNCHANGED faults
             /\ To(h, IF e.kind = "updated" THEN IF paid THEN "claim" ELSE "mark"
                      ELSE IF paid THEN "mark" ELSE "freeze")
          \/ e.kind = "failed" /\ Fault /\ To(h, "freeze")
    /\ UNCHANGED <<stripe, sent, processed, redis, entitled>> /\ Unspent

\* APPLY_PAID_BUCKET_RESET_SCRIPT: a full bucket, unless this invoice was applied
\* or a later transition, or one of the same second that was paid.
IsStalePayment(b, e) ==
    \/ b.trans.type = "paid" /\ b.trans.inv = e.inv
    \/ b.trans.at > inv[e.inv].paidAt
    \/ b.trans.type = "paid" /\ b.trans.at = inv[e.inv].paidAt

ResetAfterPayment(h) ==
    /\ handler[h].pc = "reset"
    /\ LET e == handler[h].ev
           t == handler[h].to
       IN IF bucket[t].exists /\ IsStalePayment(bucket[t], e)
          THEN UNCHANGED <<bucket, spent, left>>
          ELSE /\ bucket' = [bucket EXCEPT ![t] =
                    [exists |-> TRUE, tokens |-> TierMax[t], allocation |-> TierMax[t],
                     trans |-> [type |-> "paid", at |-> inv[e.inv].paidAt, inv |-> e.inv]]]
               /\ spent' = IF t \in left \ {sub.tier} THEN spent ELSE 0
               /\ left' = left \ ({t} \cap {sub.tier})
    /\ To(h, "mark")
    /\ UNCHANGED <<stripe, sent, processed, stash, claim, completed, entitled, changes, missed, faults>>

\* Mutant of IsStaleFailure: a failure of the same second as a payment counts.
IsStaleFailureLater(b, e) ==
    \/ b.trans.type = "payment_failed" /\ b.trans.inv = e.inv
    \/ b.trans.type # "none" /\ b.trans.at > e.at

\* FREEZE_DELINQUENT_BUCKET_SCRIPT: the bucket is held at what remains, unless
\* it is held for this invoice already or a transition is as recent.
IsStaleFailure(b, e) ==
    \/ b.trans.type = "payment_failed" /\ b.trans.inv = e.inv
    \/ b.trans.type # "none" /\ b.trans.at >= e.at

\* Remaining credits: what is in the bucket, within what it was allocated.
Remaining(b, max) ==
    IF ~b.exists THEN 0
    ELSE Lesser(b.tokens, IF b.allocation = NoAllocation THEN max ELSE Lesser(max, b.allocation))

Freeze(h) ==
    /\ handler[h].pc = "freeze"
    /\ LET e == handler[h].ev
           t == handler[h].to
           remaining == Remaining(bucket[t], TierMax[t])
       IN IF IsStaleFailure(bucket[t], e)
          THEN UNCHANGED <<bucket, spent>>
          ELSE /\ bucket' = [bucket EXCEPT ![t] =
                    [exists |-> TRUE, tokens |-> remaining, allocation |-> remaining,
                     trans |-> [type |-> "payment_failed", at |-> e.at, inv |-> e.inv]]]
               /\ spent' = IF t \in left \ {sub.tier} THEN spent ELSE 0
    /\ To(h, "mark")
    /\ UNCHANGED <<stripe, sent, processed, stash, claim, completed, entitled, left, changes,
                   missed, faults>>

-----------------------------------------------------------------------------
(* The webhook: customer.subscription.updated and the plan change *)

\* STASH_TIER_CHANGE_BUCKET_SCRIPT: what the old tier's bucket has is kept under
\* the invoice and the bucket is deleted, both only once, the deletion always.
Stash(h) ==
    /\ handler[h].pc = "stash"
    /\ LET e == handler[h].ev
           b == IF bucket[e.from].exists THEN bucket[e.from] ELSE FreshBucket(e.from)
           allocation == IF b.allocation = NoAllocation THEN TierMax[e.from]
                         ELSE Lesser(TierMax[e.from], b.allocation)
       IN /\ stash' = IF completed[e.inv] \/ stash[e.inv] # NoState THEN stash
                      ELSE [stash EXCEPT ![e.inv] =
                              [target |-> e.to, remaining |-> Lesser(allocation, b.tokens),
                               allocation |-> allocation, cycle |-> sub.cycle]]
          /\ bucket' = [bucket EXCEPT ![e.from] = NoBucket]
          /\ left' = left \cup {e.from}
    /\ To(h, "invoice")
    /\ UNCHANGED <<stripe, sent, processed, claim, completed, entitled, spent, changes,
                   missed, faults>>

\* CLAIM_TIER_CHANGE_BUCKET_SCRIPT: what was stashed, unless it was applied. It
\* is for the tier it was stashed for, and for the cycle it was stashed in.
Claim(h) ==
    /\ handler[h].pc = "claim"
    /\ LET i == handler[h].ev.inv
           raw == IF completed[i] THEN NoState ELSE IF claim[i] # NoState THEN claim[i] ELSE stash[i]
           usable == raw # NoState /\ raw.target = handler[h].to /\ raw.cycle = sub.cycle
       IN /\ claim' = IF raw = NoState THEN claim ELSE [claim EXCEPT ![i] = raw]
          /\ Go(h, IF usable THEN "apply" ELSE "mark", handler[h].to, raw)
    /\ UNCHANGED <<stripe, sent, processed, bucket, stash, completed, entitled, faults>> /\ Unspent

\* calculateTierChangeCredits: an upgrade adds its share of the difference, a
\* downgrade caps; what was consumed stays consumed.
NewAllocation(s, max) ==
    IF max >= s.allocation THEN s.allocation + (max - s.allocation) \div Share ELSE max
NewRemaining(s, max) == Greater(0, NewAllocation(s, max) - (s.allocation - s.remaining))

\* Mutant of Provisional: the bucket that the new tier has by then is replaced.
ProvisionalIgnored(b, max) == 0

\* What was spent of a bucket that a request of the new tier made meanwhile.
Provisional(b, max) ==
    IF b.exists /\ b.allocation = NoAllocation THEN Greater(0, max - b.tokens) ELSE 0

\* Mutant of Carried: not floored at zero.
CarriedUnfloored(b, s, max) == NewRemaining(s, max) - Provisional(b, max)

\* The tokens of the new bucket.
Carried(b, s, max) == Greater(0, NewRemaining(s, max) - Provisional(b, max))

\* Mutant of StillClaimed: the claim is not looked at again.
StillClaimedOnce(i, s) == s # NoState

\* What was claimed is still there: no other handler applied it.
StillClaimed(i, s) == claim[i] = s /\ stash[i] = s

\* APPLY_TIER_CHANGE_BUCKET_SCRIPT: the new tier's bucket is written, if what was
\* claimed is still there; it is done with then.
Apply(h) ==
    /\ handler[h].pc = "apply"
    /\ LET i == handler[h].ev.inv
           t == handler[h].to
           s == handler[h].raw
       IN IF StillClaimed(i, s)
          THEN /\ bucket' = [bucket EXCEPT ![t] =
                    [exists |-> TRUE,
                     tokens |-> Carried(@, s, TierMax[t]),
                     allocation |-> NewAllocation(s, TierMax[t]),
                     trans |-> NoTransition]]
               /\ completed' = [completed EXCEPT ![i] = TRUE]
               /\ stash' = [stash EXCEPT ![i] = NoState]
               /\ claim' = [claim EXCEPT ![i] = NoState]
               /\ changes' = [changes EXCEPT ![i] = @ + 1]
               /\ left' = left \ {t}
          ELSE UNCHANGED <<redis, changes, left>>
    /\ To(h, "mark")
    /\ UNCHANGED <<stripe, sent, processed, entitled, spent, missed, faults>>

-----------------------------------------------------------------------------

Handle(h) ==
    \/ \E e \in sent : Receive(h, e)
    \/ ReadSubscription(h) \/ ReadInvoice(h) \/ ResetAfterPayment(h) \/ Freeze(h)
    \/ Stash(h) \/ Claim(h) \/ Apply(h) \/ Mark(h) \/ Answer(h)
    \/ Die(h) \/ Miss(h)

Next ==
    \/ \E i \in Invoices : Renew(i) \/ ChargeAgain(i) \/ PayChange(i)
    \/ \E i \in Invoices, t \in Tiers : ChangePlan(i, t)
    \/ Entitle \/ Spend
    \/ \E h \in Handlers : Handle(h)

Spec == Init /\ [][Next]_vars

-----------------------------------------------------------------------------
(* Properties *)

TypeOK ==
    /\ now \in Nat
    /\ sub \in Subscription
    /\ inv \in [Invoices -> Invoice]
    /\ sent \subseteq Event /\ processed \subseteq Event
    /\ bucket \in [Tiers -> Bucket]
    /\ stash \in [Invoices -> CarryOver] /\ claim \in [Invoices -> CarryOver]
    /\ completed \in [Invoices -> BOOLEAN]
    /\ entitled \in Tiers
    /\ handler \in [Handlers -> Handler]
    /\ spent \in Nat /\ left \subseteq Tiers
    /\ changes \in [Invoices -> Nat]
    /\ missed \in BOOLEAN
    /\ faults \in 0..MaxFaults

\* Nothing is under way: every event was answered.
Settled == sent = {} /\ \A h \in Handlers : handler[h].pc = "idle"

\* Once every event is answered, in whatever order they came, the bucket is held
\* for a failed renewal if and only if that renewal is still unpaid. Only a lookup
\* whose error was swallowed can leave it otherwise.
HoldFollowsPayment ==
    Settled /\ ~missed =>
        (bucket[sub.tier].trans.type = "payment_failed") = (sub.status = "past_due")

\* A plan change that was paid is carried over once every event is answered,
\* though its two events may come in either order, twice, and at once, and a
\* handler may die between the stash and the new bucket.
ChangeIsApplied ==
    Settled /\ ~missed =>
        \A i \in PlanChanges :
            inv[i].status = "paid" => completed[i] /\ stash[i] = NoState /\ changes[i] = 1

\* No plan change is carried over twice.
AppliedOnce == \A i \in Invoices : changes[i] <= 1

\* What has become of an invoice, in the ledger's terms.
StageOf(i) ==
    CASE inv[i].reason = "none" -> "unused"
      [] inv[i].reason = "subscription_cycle" -> "renewal"
      [] OTHER -> IF changes[i] > 1 THEN "twice"
                  ELSE IF changes[i] = 1 THEN "carried"
                  ELSE IF inv[i].status = "paid" THEN "paid" ELSE "changed"

plans == [i \in Invoices |-> StageOf(i)]

Ledger == INSTANCE PlanLedger WITH plan <- plans

\* The webhook implements the ledger: a bucket is carried over for a plan change
\* only, after its invoice was paid and once, whichever of its events came first,
\* however often they come and however many handlers hold the same claim.
ImplementsLedger == Ledger!LedgerSpec

\* Neither a renewal, a failed payment nor a plan change mints credits: once every
\* event is answered, what is left in the bucket and what was spent in its cycle
\* are within its allocation, the points that a request of the new tier spent
\* before the change was carried over among them.
NothingMinted ==
    Settled /\ ~missed =>
        LET b == bucket[sub.tier]
        IN b.allocation # NoAllocation => b.tokens = 0 \/ b.tokens + spent <= b.allocation

=============================================================================
