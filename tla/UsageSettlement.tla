-------------------------- MODULE UsageSettlement --------------------------
(***************************************************************************)
(* How a paid request is charged (lib/rate-limit/token-bucket.ts,          *)
(* usage-settlement.ts, refund.ts and their use in trigger/agent-long.ts   *)
(* and lib/api/chat-handler.ts): the estimate is taken before the run, from *)
(* the monthly bucket in Redis and, for what that lacks, from the Extra     *)
(* Usage wallet in Convex; steps of the run are charged as they accrue; at  *)
(* the end the charge is reconciled with the actual cost, or refunded if    *)
(* nothing was used.                                                       *)
(*                                                                         *)
(* Every command to Redis and every call to Convex is a step of its own:   *)
(* between two of them other requests of the user spend from the same      *)
(* bucket and wallet, and any of them can fail, before or after it took    *)
(* effect. An invoice that is paid replaces the bucket at any time.        *)
(* The wallet is one number here; AutoReload models it.                    *)
(***************************************************************************)
EXTENDS Integers, FiniteSets

CONSTANTS
    Requests,       \* requests of one user
    Paths,          \* what calls refund(): the "run" itself, onCancel of its task ("cancel")
    Allocation,     \* points of the billing cycle: cycleAllocation of the bucket
    Funds,          \* points in the wallet at first
    Estimates,      \* estimated costs of a request's input
    MaxCost,        \* bound: the actual cost of a run
    MaxFailures,    \* bound: calls that fail
    MaxRenewals     \* bound: invoices paid

ASSUME Bounds ==
    /\ {Allocation, Funds, MaxCost, MaxFailures, MaxRenewals} \subseteq Nat
    /\ Estimates \subseteq Nat \ {0}
    /\ IsFiniteSet(Requests)
    /\ Paths \subseteq {"run", "cancel"}

VARIABLES
    tokens,     \* tokens of the bucket
    wallet,     \* balance_points
    req,        \* what a request keeps
    refund,     \* where a path of a request is in refund()
    refunded,   \* hasRefunded of the request's UsageRefundTracker
    returned,   \* observer: points refund() gave back, to the bucket and to the wallet
    lost,       \* observer: points a failed call cost the user
    failures,
    renewals

vars == <<tokens, wallet, req, refund, refunded, returned, lost, failures, renewals>>

States == {"new", "funding", "debiting", "undoing", "running", "peeking", "taking",
           "charging", "repaying", "restoring", "capping", "stopping", "done", "rejected"}

\* What the handler of a request holds: its phase, the estimate, whether the
\* model is billed to the wallet alone and whether the wallet may be used,
\* what was peeked, what is settled so far, the cost that accrued, the part
\* under way, and whether the settlement under way is the last.
Request == [pc: States, estimate: Estimates, chargeAll: BOOLEAN, usable: BOOLEAN,
            available: Nat, included: Nat, extra: Nat, cost: Nat,
            delta: Nat, uncovered: Nat, last: BOOLEAN, failed: BOOLEAN]

Fresh == {q \in [pc: {"new"}, estimate: Estimates, chargeAll: BOOLEAN, usable: BOOLEAN,
                 available: {0}, included: {0}, extra: {0}, cost: {0}, delta: {0},
                 uncovered: {0}, last: {FALSE}, failed: {FALSE}] : q.chargeAll => q.usable}

NotRefunding == [bucket |-> "no", wallet |-> "no", value |-> 0]

Init ==
    /\ tokens = Allocation
    /\ wallet = Funds
    /\ req \in [Requests -> Fresh]
    /\ refund = [r \in Requests |-> [p \in Paths |-> NotRefunding]]
    /\ refunded = [r \in Requests |-> FALSE]
    /\ returned = [r \in Requests |-> [bucket |-> 0, wallet |-> 0]]
    /\ lost = [bucket |-> 0, wallet |-> 0]
    /\ failures = 0
    /\ renewals = 0

Lesser(a, b) == IF a < b THEN a ELSE b
Greater(a, b) == IF a > b THEN a ELSE b

\* The request goes on to a phase with what it holds by then.
Goes(r, pc, q) == req' = [req EXCEPT ![r] = [q EXCEPT !.pc = pc]]

NoRefund == UNCHANGED <<refund, refunded, returned>>
Fault == failures < MaxFailures /\ failures' = failures + 1
NoFault == UNCHANGED <<failures, lost>>

-----------------------------------------------------------------------------
(* Redis and the wallet *)

\* limit(key, { rate }): takes the whole rate or nothing.
Taken(rate) == tokens >= rate /\ tokens' = tokens - rate
\* A command that takes points and whose answer does not come.
TakenUnheard(rate) ==
    \/ UNCHANGED <<tokens, lost>>
    \/ Taken(rate) /\ lost' = [lost EXCEPT !.bucket = @ + rate]
\* The deduction from the wallet.
Deducted(points) == wallet >= points /\ wallet' = wallet - points
DeductedUnheard(points) ==
    \/ UNCHANGED <<wallet, lost>>
    \/ Deducted(points) /\ lost' = [lost EXCEPT !.wallet = @ + points]

-----------------------------------------------------------------------------
(* checkTokenBucketLimit *)

\* The remaining points are peeked and held to the cycle's allocation; what
\* they do not cover is to come from the wallet, if that may be used.
Check(r) ==
    /\ req[r].pc = "new"
    /\ tokens' = Lesser(tokens, Allocation)
    /\ LET q == req[r]
           shortfall == IF q.chargeAll THEN q.estimate
                        ELSE Greater(0, q.estimate - tokens')
       IN Goes(r, IF shortfall = 0 THEN "debiting"
                  ELSE IF q.usable THEN "funding" ELSE "rejected",
               [q EXCEPT !.delta = shortfall])
    /\ UNCHANGED wallet /\ NoRefund /\ NoFault /\ UNCHANGED renewals

\* deductFromBalance pays for the shortfall.
FundShortfall(r) ==
    /\ req[r].pc = "funding"
    /\ LET q == req[r] IN
       \/ /\ Deducted(q.delta)
          /\ Goes(r, IF q.delta < q.estimate THEN "debiting" ELSE "running",
                  [q EXCEPT !.extra = q.delta, !.delta = 0])
          /\ NoFault
       \/ wallet < q.delta /\ Goes(r, "rejected", q) /\ UNCHANGED wallet /\ NoFault
       \/ Fault /\ DeductedUnheard(q.delta) /\ Goes(r, "rejected", q)
    /\ UNCHANGED tokens /\ NoRefund /\ UNCHANGED renewals

\* Mutant of DebitBucket: the wallet keeps what it paid for a refused request.
DebitBucketNoUndo(r) ==
    /\ req[r].pc = "debiting"
    /\ LET q == req[r]
           rate == q.estimate - q.extra
       IN \/ Taken(rate) /\ Goes(r, "running", [q EXCEPT !.included = rate, !.delta = 0])
          \/ tokens < rate /\ Goes(r, "rejected", q) /\ UNCHANGED tokens
    /\ UNCHANGED wallet /\ NoRefund /\ NoFault /\ UNCHANGED renewals

\* The bucket's part is debited. If it was spent meanwhile, the wallet is paid
\* back; if the command throws, the wallet's part is not.
DebitBucket(r) ==
    /\ req[r].pc = "debiting"
    /\ LET q == req[r]
           rate == q.estimate - q.extra
       IN \/ /\ Taken(rate)
             /\ Goes(r, "running", [q EXCEPT !.included = rate, !.delta = 0])
             /\ NoFault
          \/ /\ tokens < rate
             /\ Goes(r, IF q.extra > 0 THEN "undoing" ELSE "rejected", q)
             /\ UNCHANGED tokens /\ NoFault
          \/ /\ Fault
             /\ \/ UNCHANGED tokens /\ lost' = [lost EXCEPT !.wallet = @ + q.extra]
                \/ Taken(rate) /\ lost' = [bucket |-> lost.bucket + rate,
                                           wallet |-> lost.wallet + q.extra]
             /\ Goes(r, "rejected", [q EXCEPT !.extra = 0])
    /\ UNCHANGED wallet /\ NoRefund /\ UNCHANGED renewals

\* The wallet is paid back what it gave for a request that is refused.
UndoFunding(r) ==
    /\ req[r].pc = "undoing"
    /\ \/ wallet' = wallet + req[r].extra /\ NoFault
       \/ Fault /\ lost' = [lost EXCEPT !.wallet = @ + req[r].extra] /\ UNCHANGED wallet
    /\ Goes(r, "rejected", [req[r] EXCEPT !.extra = 0])
    /\ UNCHANGED tokens /\ NoRefund /\ UNCHANGED renewals

-----------------------------------------------------------------------------
(* The run: settleUsageAfterStep and deductAccumulatedUsage *)

Covered(q) == q.included + q.extra
Refunding(r) == \E p \in Paths : refund[r][p] # NotRefunding

\* A model step ends: its cost is charged at once.
FinishStep(r) ==
    /\ req[r].pc = "running" /\ ~Refunding(r) /\ ~refunded[r]
    /\ \E c \in req[r].cost + 1..MaxCost :
         Goes(r, IF c > Covered(req[r]) THEN "peeking" ELSE "running",
              [req[r] EXCEPT !.cost = c, !.delta = Greater(0, c - Covered(req[r]))])
    /\ UNCHANGED <<tokens, wallet, renewals>> /\ NoRefund /\ NoFault

\* The last settlement: of what is missing, or of what is too much.
Last(q, points) == [q EXCEPT !.delta = points, !.last = TRUE, !.uncovered = 0]

\* Mutant of Finish: what the steps took from the wallet is forgotten.
FinishFromBucket(r) ==
    /\ req[r].pc \in {"running", "stopping"} /\ ~Refunding(r) /\ ~refunded[r]
    /\ LET q == req[r]
           over == q.included - q.cost
       IN IF q.cost = 0 THEN Goes(r, "done", q)
          ELSE IF over < 0 THEN Goes(r, "peeking", Last(q, -over))
          ELSE Goes(r, IF over = 0 THEN "done" ELSE "restoring", Last(q, over))
    /\ UNCHANGED <<tokens, wallet, renewals>> /\ NoRefund /\ NoFault

\* The stream has ended and its usage is recorded: more is charged, or what was
\* charged too much is given back, from the wallet's part first.
Finish(r) ==
    /\ req[r].pc \in {"running", "stopping"} /\ ~Refunding(r) /\ ~refunded[r]
    /\ LET q == req[r]
           over == Covered(q) - q.cost
       IN IF q.cost = 0 THEN Goes(r, "done", q)
          ELSE IF over < 0 THEN Goes(r, "peeking", Last(q, -over))
          ELSE IF over = 0 THEN Goes(r, "done", Last(q, 0))
          ELSE Goes(r, IF q.extra > 0 THEN "repaying" ELSE "restoring", Last(q, over))
    /\ UNCHANGED <<tokens, wallet, renewals>> /\ NoRefund /\ NoFault

\* deductAdditionalUsagePoints: what the bucket has is peeked at.
Peek(r) ==
    /\ req[r].pc = "peeking"
    /\ LET q == req[r]
       IN Goes(r, "taking", [q EXCEPT !.available = IF q.chargeAll THEN 0 ELSE Greater(0, tokens)])
    /\ UNCHANGED <<tokens, wallet, renewals>> /\ NoRefund /\ NoFault

\* The phase after a charge, and what stays uncovered of it.
After(q) == IF q.last THEN "done" ELSE IF q.uncovered > 0 THEN "stopping" ELSE "running"
Ends(r, included, extra, uncovered, failed) ==
    LET q == [req[r] EXCEPT !.included = included, !.extra = extra, !.delta = 0,
                            !.uncovered = @ + uncovered, !.failed = @ \/ failed]
    IN req' = [req EXCEPT ![r] = [q EXCEPT !.pc = After(q)]]

\* Where the rest of a charge comes from once the bucket gave its part.
Charge(r, included) ==
    LET q == req[r]
        rest == q.delta - (included - q.included)
    IN IF rest = 0 THEN Ends(r, included, q.extra, 0, FALSE)
       ELSE IF q.usable THEN Goes(r, "charging", [q EXCEPT !.included = included, !.delta = rest])
       ELSE Ends(r, included, q.extra, rest, FALSE)

\* Mutant of TakeFromBucket: what was peeked is taken for debited.
TakePeeked(r) ==
    /\ req[r].pc = "taking"
    /\ LET rate == Lesser(req[r].delta, req[r].available)
       IN /\ Charge(r, req[r].included + rate)
          /\ \/ Taken(rate)
             \/ tokens < rate /\ UNCHANGED tokens
    /\ UNCHANGED <<wallet, renewals>> /\ NoRefund /\ NoFault

\* The bucket gives what was peeked; if it was spent meanwhile it gives nothing.
TakeFromBucket(r) ==
    /\ req[r].pc = "taking"
    /\ LET q == req[r]
           rate == Lesser(q.delta, q.available)
       IN \/ Taken(rate) /\ Charge(r, q.included + rate) /\ NoFault
          \/ tokens < rate /\ Charge(r, q.included) /\ UNCHANGED tokens /\ NoFault
          \/ /\ rate > 0 /\ Fault /\ TakenUnheard(rate)
             /\ Ends(r, q.included, q.extra, q.delta, TRUE)
    /\ UNCHANGED <<wallet, renewals>> /\ NoRefund

\* The wallet pays the rest, or it stays uncovered.
ChargeWallet(r) ==
    /\ req[r].pc = "charging"
    /\ LET q == req[r] IN
       \/ Deducted(q.delta) /\ Ends(r, q.included, q.extra + q.delta, 0, FALSE) /\ NoFault
       \/ /\ wallet < q.delta /\ Ends(r, q.included, q.extra, q.delta, FALSE)
          /\ UNCHANGED wallet /\ NoFault
       \/ Fault /\ DeductedUnheard(q.delta) /\ Ends(r, q.included, q.extra, q.delta, TRUE)
    /\ UNCHANGED <<tokens, renewals>> /\ NoRefund

\* Mutant of RepayWallet: the wallet gets all that was charged too much.
RepayWalletWhole(r) ==
    /\ req[r].pc = "repaying"
    /\ wallet' = wallet + req[r].delta
    /\ Goes(r, "done", [req[r] EXCEPT !.extra = @ - req[r].delta])
    /\ UNCHANGED <<tokens, renewals>> /\ NoRefund /\ NoFault

\* deductUsage: the estimate was too high, the wallet gets its part back. If
\* that fails nothing more is given back.
RepayWallet(r) ==
    /\ req[r].pc = "repaying"
    /\ LET q == req[r]
           points == Lesser(q.delta, q.extra)
       IN \/ /\ wallet' = wallet + points
             /\ Goes(r, IF points < q.delta THEN "restoring" ELSE "done",
                     [q EXCEPT !.extra = @ - points, !.delta = @ - points])
             /\ NoFault
          \/ Fault /\ Goes(r, "done", [q EXCEPT !.failed = TRUE]) /\ UNCHANGED <<wallet, lost>>
    /\ UNCHANGED <<tokens, renewals>> /\ NoRefund

\* refundBucketTokens: HINCRBY. An error is logged and the points count as given back.
RestoreBucket(r) ==
    /\ req[r].pc = "restoring"
    /\ LET q == req[r] IN
       \/ /\ tokens' = tokens + q.delta
          /\ Goes(r, "capping", [q EXCEPT !.available = tokens + q.delta,
                                          !.included = @ - q.delta, !.delta = 0])
          /\ NoFault
       \/ /\ Fault
          /\ lost' = [lost EXCEPT !.bucket = @ + q.delta]
          /\ Goes(r, "done", [q EXCEPT !.included = @ - q.delta, !.delta = 0])
          /\ UNCHANGED tokens
    /\ UNCHANGED <<wallet, renewals>> /\ NoRefund

\* Mutant of Capped: refunds are not capped.
Uncapped(value) == UNCHANGED tokens

\* refundBucketTokens: HSET, if the HINCRBY went beyond the allocation.
Capped(value) == IF value > Allocation THEN tokens' = Allocation ELSE UNCHANGED tokens
CapRestored(r) ==
    /\ req[r].pc = "capping"
    /\ Capped(req[r].available)
    /\ Goes(r, "done", req[r])
    /\ UNCHANGED <<wallet, renewals>> /\ NoRefund /\ NoFault

-----------------------------------------------------------------------------
(* UsageRefundTracker.refund *)

\* An error path gives everything back: one that saw no usage, or one that ends
\* a run with a rate limit error after its usage was recorded.
StartRefund(r, p) ==
    /\ \/ req[r].pc \in {"running", "done"} /\ req[r].cost = 0
       \/ req[r].pc = "done" /\ p = "run"
    /\ refund[r][p] = NotRefunding
    /\ ~refunded[r]
    /\ Covered(req[r]) > 0
    /\ refund' = [refund EXCEPT ![r][p] =
                    [bucket |-> IF req[r].included > 0 THEN "add" ELSE "done",
                     wallet |-> IF req[r].extra > 0 THEN "add" ELSE "done", value |-> 0]]
    /\ UNCHANGED <<tokens, wallet, req, refunded, returned, renewals>> /\ NoFault

RefundBucket(r, p) ==
    /\ refund[r][p].bucket = "add"
    /\ LET points == req[r].included IN
       /\ returned' = [returned EXCEPT ![r].bucket = @ + points]
       /\ \/ /\ tokens' = tokens + points
             /\ refund' = [refund EXCEPT ![r][p] =
                             [@ EXCEPT !.bucket = "cap", !.value = tokens + points]]
             /\ NoFault
          \/ /\ Fault /\ UNCHANGED tokens
             /\ lost' = [lost EXCEPT !.bucket = @ + points]
             /\ refund' = [refund EXCEPT ![r][p].bucket = "done"]
    /\ UNCHANGED <<wallet, req, refunded, renewals>>

CapRefund(r, p) ==
    /\ refund[r][p].bucket = "cap"
    /\ Capped(refund[r][p].value)
    /\ refund' = [refund EXCEPT ![r][p].bucket = "done"]
    /\ UNCHANGED <<wallet, req, refunded, returned, renewals>> /\ NoFault

RefundWallet(r, p) ==
    /\ refund[r][p].wallet = "add"
    /\ LET points == req[r].extra IN
       /\ returned' = [returned EXCEPT ![r].wallet = @ + points]
       /\ \/ wallet' = wallet + points /\ NoFault
          \/ Fault /\ UNCHANGED wallet /\ lost' = [lost EXCEPT !.wallet = @ + points]
    /\ refund' = [refund EXCEPT ![r][p].wallet = "done"]
    /\ UNCHANGED <<tokens, req, refunded, renewals>>

\* refundUsage has returned, whatever failed in it: hasRefunded is set.
EndRefund(r, p) ==
    /\ refund[r][p].bucket = "done" /\ refund[r][p].wallet = "done"
    /\ refunded' = [refunded EXCEPT ![r] = TRUE]
    /\ refund' = [refund EXCEPT ![r][p] = NotRefunding]
    /\ UNCHANGED <<tokens, wallet, req, returned, renewals>> /\ NoFault

-----------------------------------------------------------------------------

\* An invoice is paid: the bucket is deleted and set anew.
Renew ==
    /\ renewals < MaxRenewals
    /\ renewals' = renewals + 1
    /\ tokens' = Allocation
    /\ UNCHANGED <<wallet, req>> /\ NoRefund /\ NoFault

Step(r) ==
    \/ Check(r) \/ FundShortfall(r) \/ DebitBucket(r) \/ UndoFunding(r)
    \/ FinishStep(r) \/ Finish(r) \/ Peek(r) \/ TakeFromBucket(r) \/ ChargeWallet(r)
    \/ RepayWallet(r) \/ RestoreBucket(r) \/ CapRestored(r)

RefundStep(r, p) ==
    \/ StartRefund(r, p) \/ RefundBucket(r, p) \/ CapRefund(r, p)
    \/ RefundWallet(r, p) \/ EndRefund(r, p)

Next ==
    \/ Renew
    \/ \E r \in Requests : Step(r) \/ \E p \in Paths : RefundStep(r, p)

Spec == Init /\ [][Next]_vars

-----------------------------------------------------------------------------
(* Properties *)

\* Everything is well typed.
TypeOK ==
    /\ tokens \in Nat /\ wallet \in Nat
    /\ req \in [Requests -> Request]
    /\ refund \in [Requests -> [Paths -> [bucket: {"no", "add", "cap", "done"},
                                       wallet: {"no", "add", "done"}, value: Nat]]]
    /\ refunded \in [Requests -> BOOLEAN]
    /\ returned \in [Requests -> [bucket: Nat, wallet: Nat]]
    /\ lost \in [bucket: Nat, wallet: Nat]
    /\ failures \in 0..MaxFailures /\ renewals \in 0..MaxRenewals

\* The sum of what a function gives each request: its points, counted one by one.
PointsOf(f) == UNION {{r} \X (1..f[r]) : r \in Requests}
Sum(f) == Cardinality(PointsOf(f))

\* What was taken for a request: of the bucket and of the wallet. One that is
\* refused has nothing.
InCharge(q) == IF q.pc = "rejected" THEN 0 ELSE q.included
ExCharge(q) == IF q.pc = "rejected" THEN 0 ELSE q.extra
OfBucket == [r \in Requests |-> InCharge(req[r])]
OfWallet == [r \in Requests |-> ExCharge(req[r])]
ToBucket == [r \in Requests |-> returned[r].bucket]
ToWallet == [r \in Requests |-> returned[r].wallet]

\* However checks, charges, reconciliations and refunds of the user's requests
\* interleave, every point of the cycle, and every one that a refund gave back,
\* is in the bucket, is charged to exactly one request, or was cost by a call
\* that failed: no request is charged what it did not take, and none takes what
\* it is not charged.
BucketConserved ==
    renewals = 0 => tokens + Sum(OfBucket) + lost.bucket = Allocation + Sum(ToBucket)

\* The same of the wallet, where a request that is refused after the wallet
\* paid its part gets it back.
WalletConserved == wallet + Sum(OfWallet) + lost.wallet = Funds + Sum(ToWallet)

\* After the last settlement the charge and what is reported uncovered are the
\* actual cost, whatever was charged before the run, at its steps and by other
\* requests; they exceed it only if a call failed.
SettledExactly ==
    \A r \in Requests :
        req[r].pc = "done" /\ req[r].last =>
            LET total == Covered(req[r]) + req[r].uncovered
            IN total = req[r].cost \/ (req[r].failed /\ total > req[r].cost)

\* The bucket is above the cycle's allocation only while a refund that took it
\* there is about to cap it, though an invoice may be paid between a charge and
\* its refund.
CappedAtRest ==
    tokens > Allocation =>
        \E r \in Requests :
            \/ req[r].pc = "capping"
            \/ \E p \in Paths : refund[r][p].bucket = "cap"

\* "Ensures refunds only happen once, even if multiple error handlers trigger":
\* no request gets back more than it was charged.
RefundedOnce ==
    \A r \in Requests :
        returned[r].bucket <= req[r].included /\ returned[r].wallet <= req[r].extra

\* A refund gives back what was charged, and fills no bucket beyond its cycle.
RefundIsBounded == CappedAtRest /\ RefundedOnce

=============================================================================
