----------------------------- MODULE AutoReload -----------------------------
(***************************************************************************)
(* Auto-reload of one user's Extra Usage wallet.                           *)
(*                                                                         *)
(* Every metered step of an agent calls the action deductWithAutoReload    *)
(* (convex/extraUsageActions.ts).  It debits the wallet and, when the      *)
(* wallet is too low, charges the user's card through a Stripe invoice and *)
(* credits the wallet.  The action is a sequence of awaits: transactional  *)
(* mutations of the user's extra_usage row (convex/extraUsage.ts) and      *)
(* requests to Stripe.  Any number of calls of one user interleave at the  *)
(* awaits; a call may die at any of them, and a Stripe request may fail,   *)
(* time out after it took effect, or take effect after its caller gave up. *)
(* The row carries one reload operation with an executor and a lease, so   *)
(* that the calls drive one charge between them.                           *)
(*                                                                         *)
(* One action below is one await: a mutation, or a request with its answer *)
(* and the straight-line code up to the next await.                        *)
(***************************************************************************)
EXTENDS ReloadEvaluation, FiniteSets

CONSTANTS
  Call,            \* slots in which calls of deductWithAutoReload run
  Op,              \* reload operation ids (random UUIDs in the source)
  NoOp,            \* no operation on the row
  NoCall,          \* no executor on the row
  InvoiceNo,       \* numbers that tell one operation's invoices apart
  NoInvoice,
  Amounts,         \* points a call may ask for
  InitialBalance,
  Thresholds, Reloads, Caps, \* values the user may give the settings
  MinReloadGap,    \* points a reload amount must exceed the threshold by
  MaxPolls,        \* claims a follower repeats while it waits (4)
  MaxFailures,     \* failed operations in a row before auto-reload is off (2)
  MaxPoints,       \* bound: refunds stop when balance and spending reach it
  MaxLate,         \* bound: Stripe requests under way without a caller
  MaxBilled,       \* bound: keys are not forgotten beyond these cents
  KeysExpire,      \* Stripe forgets idempotency keys of an operation
  PayMayStayOpen   \* paying may answer "open" and settle afterwards

Invoice == Op \X InvoiceNo

ASSUME ConstantAssumption ==
  /\ NoOp \notin Op
  /\ NoCall \notin Call
  /\ NoInvoice \notin Invoice
  /\ Amounts \subseteq Nat \ {0}
  /\ InitialBalance \in Nat
  /\ Thresholds \subseteq Nat
  /\ Reloads \subseteq Nat
  /\ Caps \subseteq Nat \cup {Unlimited}
  /\ MinReloadGap \in Nat
  /\ MaxPolls \in Nat
  /\ MaxFailures \in Nat \ {0}
  /\ MaxPoints \in Nat
  /\ MaxLate \in Nat
  /\ MaxBilled \in Nat
  /\ KeysExpire \in BOOLEAN
  /\ PayMayStayOpen \in BOOLEAN

VARIABLES
  wallet,    \* the user's extra_usage row
  processed, \* operations whose key is in processed_checkout_sessions
  used,      \* operation ids that have been put on the row
  status,    \* Stripe: the status of each invoice
  billed,    \* Stripe: the cents of each invoice's line items
  keys,      \* Stripe: answers kept per operation for its idempotency keys
  late,      \* Stripe requests that will take effect after their caller left
  call       \* the local state of each call

walletVars == <<wallet, processed, used>>
stripeVars == <<status, billed, keys, late>>
vars == <<wallet, processed, used, status, billed, keys, late, call>>

-----------------------------------------------------------------------------
\* Types and initial state.

PCs == {"idle", "debit", "claim", "reconcile", "retire", "recheck",
        "prepare", "create", "record", "item", "finalize", "pay",
        "voidDeclined", "credit", "complete", "countSuccess", "fail",
        "countFailure", "release", "abandon", "releaseExecutor",
        "debitFunded", "debitCovered"}

InvoiceStatus == {"none", "draft", "open", "paid", "void", "deleted"}
PayAnswer == {"none", "paid", "declined", "open"}

Wallet ==
  [balance   : Nat,      \* balance_points
   spent     : Nat,      \* monthly_spent_points of the current month
   cap       : Nat \cup {Unlimited},  \* monthly_cap_points
   enabled   : BOOLEAN,  \* auto_reload_enabled
   threshold : Nat,      \* auto_reload_threshold_points
   reload    : Nat,      \* auto_reload_amount_dollars, in points
   cooling   : BOOLEAN,  \* auto_reload_retry_after is in the future
   failures  : Nat,      \* auto_reload_consecutive_failures
   op        : Op \cup {NoOp},      \* auto_reload_operation_id
   executor  : Call \cup {NoCall},  \* auto_reload_operation_executor_id
   leased    : BOOLEAN,  \* ..._lease_expires_at is in the future
   cents     : Nat,      \* auto_reload_operation_amount_dollars, in cents
   invoice   : Invoice \cup {NoInvoice}]  \* ..._operation_stripe_invoice_id

CallState ==
  [pc      : PCs,
   want    : Nat,        \* args.amountPoints
   pending : BOOLEAN,    \* settings.autoReloadOperationPending, when read
   armed   : BOOLEAN,    \* settings.autoReloadEnabled, when read
   floor   : Nat,        \* settings.autoReloadThresholdPoints, when read
   needs   : BOOLEAN,    \* requestNeedsReload
   mayPay  : BOOLEAN,    \* a top-up is due and claim.paymentAllowed
   low     : BOOLEAN,    \* thresholdReached
   attempt : Nat,        \* reloadAttempt
   polls   : Nat,        \* claims repeated so far in this attempt
   op      : Op \cup {NoOp},            \* claim.operationId
   fresh   : BOOLEAN,    \* claim.operationId is this call's candidate
   cents   : Nat,        \* claim.amountDollars, in cents
   invoice : Invoice \cup {NoInvoice},  \* the invoice being driven
   view    : InvoiceStatus,             \* its status in the last answer
   ok      : BOOLEAN,    \* deductResult.success
   debits  : Nat]        \* debits this call has made (history)

EmptyKeys == [create |-> NoInvoice, item |-> FALSE, pay |-> "none"]
Keys == [create : Invoice \cup {NoInvoice}, item : BOOLEAN, pay : PayAnswer]

\* A Stripe request that changes state: what it does, to which invoice, cents.
Post == {"create", "item", "finalize", "pay", "void", "delete"}
          \X Invoice \X Nat

IdleCall ==
  [pc |-> "idle", want |-> 0, pending |-> FALSE, armed |-> FALSE, floor |-> 0,
   needs |-> FALSE, mayPay |-> FALSE, low |-> FALSE, attempt |-> 0,
   polls |-> 0, op |-> NoOp, fresh |-> FALSE, cents |-> 0,
   invoice |-> NoInvoice, view |-> "none", ok |-> FALSE, debits |-> 0]

TypeOK ==
  /\ wallet \in Wallet
  /\ processed \subseteq Op
  /\ used \subseteq Op
  /\ status \in [Invoice -> InvoiceStatus]
  /\ billed \in [Invoice -> Nat]
  /\ keys \in [Op -> Keys]
  /\ late \subseteq Post
  /\ call \in [Call -> CallState]

\* A user who has switched auto-reload on with some settings.
Init ==
  /\ \E t \in Thresholds, a \in Reloads, c \in Caps :
       /\ a >= t + MinReloadGap
       /\ wallet = [balance |-> InitialBalance, spent |-> 0, cap |-> c,
                    enabled |-> TRUE, threshold |-> t, reload |-> a,
                    cooling |-> FALSE, failures |-> 0, op |-> NoOp,
                    executor |-> NoCall, leased |-> FALSE, cents |-> 0,
                    invoice |-> NoInvoice]
  /\ processed = {}
  /\ used = {}
  /\ status = [i \in Invoice |-> "none"]
  /\ billed = [i \in Invoice |-> 0]
  /\ keys = [o \in Op |-> EmptyKeys]
  /\ late = {}
  /\ call = [r \in Call |-> IdleCall]

-----------------------------------------------------------------------------
\* Stripe, as the source uses it.  A request under an idempotency key that
\* Stripe remembers changes nothing and answers as it first did.

CreateEffect(i) ==
  IF keys[i[1]].create = NoInvoice /\ status[i] = "none"
    THEN /\ status' = [status EXCEPT ![i] = "draft"]
         /\ keys' = [keys EXCEPT ![i[1]].create = i]
         /\ UNCHANGED billed
    ELSE UNCHANGED <<status, billed, keys>>

ItemEffect(i, cents) ==
  IF status[i] = "draft" /\ ~keys[i[1]].item
    THEN /\ billed' = [billed EXCEPT ![i] = @ + cents]
         /\ keys' = [keys EXCEPT ![i[1]].item = TRUE]
         /\ UNCHANGED status
    ELSE UNCHANGED <<status, billed, keys>>

\* A status change that only the status `from` admits.
StatusEffect(i, from, to) ==
  /\ status' = [status EXCEPT ![i] = IF @ = from THEN to ELSE @]
  /\ UNCHANGED <<billed, keys>>

\* The card is charged or declined; a payment method that does not settle at
\* once leaves the invoice open and answers so.
PayEffect(i) ==
  IF status[i] = "open" /\ keys[i[1]].pay = "none"
    THEN \E answer \in {"paid", "declined"}
                         \cup (IF PayMayStayOpen THEN {"open"} ELSE {}) :
           /\ status' = [status EXCEPT ![i] =
                           IF answer = "paid" THEN "paid" ELSE @]
           /\ keys' = [keys EXCEPT ![i[1]].pay = answer]
           /\ UNCHANGED billed
    ELSE UNCHANGED <<status, billed, keys>>

Effect(kind, i, cents) ==
  \/ kind = "create"   /\ CreateEffect(i)
  \/ kind = "item"     /\ ItemEffect(i, cents)
  \/ kind = "finalize" /\ StatusEffect(i, "draft", "open")
  \/ kind = "pay"      /\ PayEffect(i)
  \/ kind = "void"     /\ StatusEffect(i, "open", "void")
  \/ kind = "delete"   /\ StatusEffect(i, "draft", "deleted")

\* The caller gets no answer: the request took effect, never will, or will
\* once the caller has moved on.
Unanswered(kind, i, cents) ==
  \/ Effect(kind, i, cents) /\ UNCHANGED late
  \/ UNCHANGED <<status, billed, keys, late>>
  \/ /\ Cardinality(late) < MaxLate
     /\ late' = late \cup {<<kind, i, cents>>}
     /\ UNCHANGED <<status, billed, keys>>

LatePost ==
  \E m \in late :
    /\ late' = late \ {m}
    /\ Effect(m[1], m[2], m[3])
    /\ UNCHANGED <<wallet, processed, used, call>>

\* An answered "open" settles later.
PaymentSettles ==
  \E i \in Invoice :
    /\ status[i] = "open"
    /\ keys[i[1]].pay = "open"
    /\ status' = [status EXCEPT ![i] = "paid"]
    /\ UNCHANGED <<wallet, processed, used, billed, keys, late, call>>

\* Stripe keeps keys for at least a day, longer than a call or a request of
\* an operation lives; an operation may stay on the row for longer than that.
ForgetKeys(o) ==
  /\ KeysExpire
  /\ keys[o] # EmptyKeys
  /\ \A n \in InvoiceNo : billed[<<o, n>>] <= MaxBilled
  /\ \A r \in Call : call[r].op # o
  /\ \A m \in late : m[2][1] # o
  /\ keys' = [keys EXCEPT ![o] = EmptyKeys]
  /\ UNCHANGED <<wallet, processed, used, status, billed, late, call>>

-----------------------------------------------------------------------------
\* Steps of the row and of a call that several actions share.

Owns(r) == wallet.op = call[r].op /\ wallet.executor = r

Goto(r, pc) == call' = [call EXCEPT ![r].pc = pc]

\* The handler returns; ok and debits stay as what the caller was told.
Answer(c) == [IdleCall EXCEPT !.ok = c.ok, !.debits = c.debits]

Return(r) == call' = [call EXCEPT ![r] = Answer(call[r])]

\* The second round of the reload loop (retryAutoReload).
NextAttempt(r) ==
  [call[r] EXCEPT !.pc = "claim", !.attempt = 1, !.polls = 0, !.op = NoOp,
                  !.fresh = FALSE, !.cents = 0, !.invoice = NoInvoice,
                  !.view = "none", !.mayPay = FALSE]

\* deductPoints.
Debitable(points) ==
  /\ wallet.balance >= points
  /\ wallet.cap # Unlimited => wallet.spent + points <= wallet.cap

\* Mutant of Debited: the balance check is dropped.
DebitedUnchecked(points) ==
  [wallet EXCEPT !.balance = @ - points, !.spent = @ + points]

Debited(points) ==
  IF Debitable(points)
    THEN [wallet EXCEPT !.balance = @ - points, !.spent = @ + points]
    ELSE wallet

AfterDebit(r) ==
  IF Debitable(call[r].want)
    THEN [call[r] EXCEPT !.ok = TRUE, !.debits = @ + 1]
    ELSE [call[r] EXCEPT !.ok = FALSE]

\* completeAutoReloadOperation with an outcome that clears the operation.
Cleared == [wallet EXCEPT !.op = NoOp, !.executor = NoCall, !.leased = FALSE,
                          !.cents = 0, !.invoice = NoInvoice]

-----------------------------------------------------------------------------
\* The call reads the settings, then debits.

Start(r) ==
  /\ call[r].pc = "idle"
  /\ \E amount \in Amounts :
       call' = [call EXCEPT ![r] =
                  [IdleCall EXCEPT !.pc = "debit",
                                   !.want = amount,
                                   !.pending = (wallet.op # NoOp),
                                   !.armed = wallet.enabled,
                                   !.floor = wallet.threshold]]
  /\ UNCHANGED <<wallet, processed, used, status, billed, keys, late>>

FirstDebit(r) ==
  LET c == call[r]
      paid == Debitable(c.want)
      needs == wallet.balance < c.want
      low == paid /\ wallet.balance - c.want <= c.floor
  IN  /\ c.pc = "debit"
      /\ wallet' = Debited(c.want)
      /\ IF c.pending \/ (c.armed /\ (needs \/ low))
           THEN call' = [call EXCEPT ![r] =
                  [AfterDebit(r) EXCEPT !.pc = "claim", !.needs = needs,
                     !.low = low, !.pending = FALSE, !.armed = FALSE,
                     !.floor = 0]]
           ELSE call' = [call EXCEPT ![r] = Answer(AfterDebit(r))]
      /\ UNCHANGED <<processed, used, status, billed, keys, late>>

-----------------------------------------------------------------------------
\* claimAutoReloadOperation.

Requested(r) == IF call[r].needs THEN call[r].want ELSE 0

Evaluation(r) ==
  EvaluateCharge(wallet.balance, wallet.threshold, wallet.reload,
                 Requested(r), MonthlyRemaining(wallet.cap, wallet.spent))

\* A resumed operation may charge only what a new one could charge now.
ResumeAllowed(r) ==
  /\ wallet.enabled
  /\ Evaluation(r).allowed
  /\ wallet.cents <= Evaluation(r).cents
  /\ Covered(wallet.balance + PointsOf(wallet.cents), wallet.threshold,
             Requested(r))

ClaimNew(r) ==
  LET due == call[r].needs \/ call[r].low
      cents == Evaluation(r).cents
  IN  /\ call[r].pc = "claim"
      /\ wallet.op = NoOp
      /\ wallet.enabled
      /\ ~wallet.cooling
      /\ Evaluation(r).allowed
      /\ \E o \in Op \ used :
           /\ used' = used \cup {o}
           /\ wallet' = [wallet EXCEPT !.op = o, !.executor = r,
                                       !.leased = TRUE, !.cents = cents,
                                       !.invoice = NoInvoice]
           /\ call' = [call EXCEPT ![r] =
                [@ EXCEPT !.pc = IF due THEN "prepare" ELSE "release",
                          !.op = o, !.fresh = TRUE, !.cents = cents,
                          !.invoice = NoInvoice, !.mayPay = due]]
      /\ UNCHANGED <<processed, status, billed, keys, late>>

\* Mutant of ClaimExpired: an operation is resumed only if its executor gave it
\* up, not when the executor died and the lease ran out.
ClaimGivenUp(r) ==
  LET mayPay == (call[r].needs \/ call[r].low) /\ ResumeAllowed(r)
  IN  /\ call[r].pc = "claim"
      /\ wallet.op # NoOp
      /\ ~wallet.leased
      /\ wallet.executor = NoCall
      /\ wallet' = [wallet EXCEPT !.executor = r, !.leased = TRUE]
      /\ call' = [call EXCEPT ![r] =
           [@ EXCEPT !.pc = IF wallet.invoice # NoInvoice THEN "reconcile"
                            ELSE IF mayPay THEN "prepare" ELSE "release",
                     !.op = wallet.op, !.fresh = FALSE,
                     !.cents = wallet.cents, !.invoice = wallet.invoice,
                     !.mayPay = mayPay]]
      /\ UNCHANGED <<processed, used, status, billed, keys, late>>

\* The lease of the last executor is over: take the operation over.
ClaimExpired(r) ==
  LET mayPay == (call[r].needs \/ call[r].low) /\ ResumeAllowed(r)
  IN  /\ call[r].pc = "claim"
      /\ wallet.op # NoOp
      /\ ~wallet.leased
      /\ wallet' = [wallet EXCEPT !.executor = r, !.leased = TRUE]
      /\ call' = [call EXCEPT ![r] =
           [@ EXCEPT !.pc = IF wallet.invoice # NoInvoice THEN "reconcile"
                            ELSE IF mayPay THEN "prepare" ELSE "release",
                     !.op = wallet.op, !.fresh = FALSE,
                     !.cents = wallet.cents, !.invoice = wallet.invoice,
                     !.mayPay = mayPay]]
      /\ UNCHANGED <<processed, used, status, billed, keys, late>>

\* Mutant of ClaimFollow: an underfunded call polls without a limit.
ClaimFollowForever(r) ==
  /\ call[r].pc = "claim"
  /\ wallet.op # NoOp
  /\ wallet.leased
  /\ IF call[r].needs THEN UNCHANGED call ELSE Return(r)
  /\ UNCHANGED <<wallet, processed, used, status, billed, keys, late>>

\* Another call drives the operation; only an underfunded call waits for it.
ClaimFollow(r) ==
  /\ call[r].pc = "claim"
  /\ wallet.op # NoOp
  /\ wallet.leased
  /\ IF call[r].needs /\ call[r].polls < MaxPolls
       THEN call' = [call EXCEPT ![r].polls = @ + 1]
       ELSE Return(r)
  /\ UNCHANGED <<wallet, processed, used, status, billed, keys, late>>

\* Disabled, cooling down, blocked by the evaluation, or already funded.
ClaimRefused(r) ==
  /\ call[r].pc = "claim"
  /\ wallet.op = NoOp
  /\ ~(wallet.enabled /\ ~wallet.cooling /\ Evaluation(r).allowed)
  /\ IF /\ wallet.enabled /\ ~wallet.cooling
        /\ Evaluation(r).reason = "not_needed"
        /\ call[r].needs
       THEN Goto(r, "debitCovered")
       ELSE Return(r)
  /\ UNCHANGED <<wallet, processed, used, status, billed, keys, late>>

-----------------------------------------------------------------------------
\* A resumed operation whose invoice is known.

Reconcile(r) ==
  LET s == status[call[r].invoice]
  IN  /\ call[r].pc = "reconcile"
      /\ \/ call' = [call EXCEPT ![r].view = s,
              ![r].pc = IF s = "paid" THEN "credit"
                        ELSE IF s \in {"deleted", "void"} THEN "release"
                        ELSE IF call[r].mayPay THEN "prepare"
                        ELSE "retire"]
         \/ Goto(r, "releaseExecutor")
      /\ UNCHANGED <<wallet, processed, used, status, billed, keys, late>>

\* retireAutoReloadInvoice: delete a draft, void an open invoice.
Retire(r) ==
  LET i == call[r].invoice
      kind == IF call[r].view = "draft" THEN "delete" ELSE "void"
  IN  /\ call[r].pc = "retire"
      /\ \/ /\ Effect(kind, i, 0)
            /\ UNCHANGED late
            /\ Goto(r, IF \/ kind = "delete" /\ status[i] \in {"draft", "deleted"}
                          \/ kind = "void" /\ status[i] = "open"
                         THEN "release" ELSE "recheck")
         \/ /\ Unanswered(kind, i, 0)
            /\ Goto(r, "recheck")
      /\ UNCHANGED <<wallet, processed, used>>

Recheck(r) ==
  LET s == status[call[r].invoice]
  IN  /\ call[r].pc = "recheck"
      /\ \/ Goto(r, IF s = "paid" THEN "credit"
                    ELSE IF s \in {"deleted", "void"} THEN "release"
                    ELSE "releaseExecutor")
         \/ Goto(r, "releaseExecutor")
      /\ UNCHANGED <<wallet, processed, used, status, billed, keys, late>>

-----------------------------------------------------------------------------
\* createAutoReloadPayment.

\* releasePreCharge: only an operation of this call's own is dropped.
PreChargeExit(r) == IF call[r].fresh THEN "abandon" ELSE "releaseExecutor"

\* Customer, fraud flag and payment method are looked up; any may be missing.
Prepare(r) ==
  /\ call[r].pc = "prepare"
  /\ \/ Goto(r, "create")
     \/ Goto(r, PreChargeExit(r))
  /\ UNCHANGED <<wallet, processed, used, status, billed, keys, late>>

Retrieve(r) ==
  LET s == status[call[r].invoice]
  IN  /\ call[r].pc = "create"
      /\ call[r].invoice # NoInvoice
      /\ \/ call' = [call EXCEPT ![r].view = s,
              ![r].pc = IF s = "draft" THEN "item"
                        ELSE IF s = "open" THEN "pay"
                        ELSE IF s = "paid" THEN "credit"
                        ELSE IF s = "void" THEN "fail"
                        ELSE PreChargeExit(r)]
         \/ Goto(r, "releaseExecutor")
      /\ UNCHANGED <<wallet, processed, used, status, billed, keys, late>>

Create(r) ==
  LET o == call[r].op
  IN  /\ call[r].pc = "create"
      /\ call[r].invoice = NoInvoice
      /\ \/ \E n \in InvoiceNo :
              /\ IF keys[o].create = NoInvoice
                   THEN status[<<o, n>>] = "none"
                   ELSE keys[o].create = <<o, n>>
              /\ CreateEffect(<<o, n>>)
              /\ UNCHANGED late
              /\ call' = [call EXCEPT ![r].pc = "record",
                                      ![r].invoice = <<o, n>>,
                                      ![r].view = "draft"]
         \/ \E n \in InvoiceNo :
              /\ Unanswered("create", <<o, n>>, 0)
              /\ Goto(r, "releaseExecutor")
         \/ /\ UNCHANGED <<status, billed, keys, late>>
            /\ Goto(r, PreChargeExit(r))
      /\ UNCHANGED <<wallet, processed, used>>

\* recordAutoReloadInvoice; a call that lost the operation stops here.
Record(r) ==
  /\ call[r].pc = "record"
  /\ IF Owns(r)
       THEN /\ wallet' = [wallet EXCEPT !.invoice = call[r].invoice]
            /\ Goto(r, "item")
       ELSE /\ UNCHANGED wallet
            /\ Goto(r, "releaseExecutor")
  /\ UNCHANGED <<processed, used, status, billed, keys, late>>

AddItem(r) ==
  LET i == call[r].invoice
  IN  /\ call[r].pc = "item"
      /\ \/ /\ ItemEffect(i, call[r].cents)
            /\ UNCHANGED late
            /\ Goto(r, IF status[i] = "draft" \/ keys[i[1]].item
                         THEN "finalize" ELSE "releaseExecutor")
         \/ /\ Unanswered("item", i, call[r].cents)
            /\ Goto(r, "releaseExecutor")
      /\ UNCHANGED <<wallet, processed, used>>

\* A repeated finalization answers "open", as the first one did.
Finalize(r) ==
  LET i == call[r].invoice
  IN  /\ call[r].pc = "finalize"
      /\ \/ /\ StatusEffect(i, "draft", "open")
            /\ UNCHANGED late
            /\ call' = [call EXCEPT ![r].view = "open",
                 ![r].pc = IF status[i] # "deleted"
                             THEN "pay" ELSE "releaseExecutor"]
         \/ /\ Unanswered("finalize", i, 0)
            /\ Goto(r, "releaseExecutor")
      /\ UNCHANGED <<wallet, processed, used>>

\* Mutant of AfterPayment: "open" is taken for success.
AfterPaymentHasty(answer) ==
  CASE answer \in {"paid", "open"} -> "credit"
    [] answer = "declined"         -> "voidDeclined"
    [] OTHER                       -> "releaseExecutor"

\* What a call does with the answer to its payment; "none" is an error that
\* is not the card's, such as paying an invoice that is no longer open.
AfterPayment(answer) ==
  CASE answer = "paid"     -> "credit"
    [] answer = "declined" -> "voidDeclined"
    [] answer = "open"     -> "fail"
    [] OTHER               -> "releaseExecutor"

Pay(r) ==
  LET i == call[r].invoice
  IN  /\ call[r].pc = "pay"
      /\ \/ /\ PayEffect(i)
            /\ UNCHANGED late
            /\ Goto(r, AfterPayment(keys'[i[1]].pay))
         \/ /\ Unanswered("pay", i, 0)
            /\ Goto(r, "releaseExecutor")
      /\ UNCHANGED <<wallet, processed, used>>

\* Mutant of VoidDeclined: the declined invoice is left open.
LeaveDeclined(r) ==
  /\ call[r].pc = "voidDeclined"
  /\ Goto(r, "fail")
  /\ UNCHANGED <<wallet, processed, used, status, billed, keys, late>>

\* A declined invoice is voided before the operation is given up.
VoidDeclined(r) ==
  LET i == call[r].invoice
  IN  /\ call[r].pc = "voidDeclined"
      /\ \/ /\ StatusEffect(i, "open", "void")
            /\ UNCHANGED late
            /\ Goto(r, IF status[i] \in {"open", "void"}
                         THEN "fail" ELSE "releaseExecutor")
         \/ /\ Unanswered("void", i, 0)
            /\ Goto(r, "releaseExecutor")
      /\ UNCHANGED <<wallet, processed, used>>

-----------------------------------------------------------------------------
\* The ends of an operation.

\* addCredits under the operation's key.
Credit(r) ==
  LET o == call[r].op
  IN  /\ call[r].pc = "credit"
      /\ processed' = processed \cup {o}
      /\ wallet' = IF o \in processed THEN wallet
                   ELSE [wallet EXCEPT !.balance = @ + PointsOf(call[r].cents)]
      /\ Goto(r, "complete")
      /\ UNCHANGED <<used, status, billed, keys, late>>

\* completeAutoReloadOperation, "success".
Complete(r) ==
  /\ call[r].pc = "complete"
  /\ IF Owns(r)
       THEN /\ wallet' = [Cleared EXCEPT !.cooling = FALSE]
            /\ Goto(r, "countSuccess")
       ELSE /\ UNCHANGED wallet
            /\ IF call[r].needs THEN Goto(r, "debitFunded") ELSE Return(r)
  /\ UNCHANGED <<processed, used, status, billed, keys, late>>

\* recordAutoReloadOutcome; its errors are swallowed.
CountSuccess(r) ==
  /\ call[r].pc = "countSuccess"
  /\ \/ wallet' = [wallet EXCEPT !.failures = 0]
     \/ UNCHANGED wallet
  /\ IF call[r].needs THEN Goto(r, "debitFunded") ELSE Return(r)
  /\ UNCHANGED <<processed, used, status, billed, keys, late>>

\* "definitive_failure".
Fail(r) ==
  /\ call[r].pc = "fail"
  /\ IF Owns(r)
       THEN /\ wallet' = [Cleared EXCEPT !.cooling = TRUE]
            /\ Goto(r, "countFailure")
       ELSE /\ UNCHANGED wallet
            /\ Return(r)
  /\ UNCHANGED <<processed, used, status, billed, keys, late>>

CountFailure(r) ==
  /\ call[r].pc = "countFailure"
  /\ \/ wallet' = [wallet EXCEPT !.failures = @ + 1,
                      !.enabled = @ /\ wallet.failures + 1 < MaxFailures]
     \/ UNCHANGED wallet
  /\ Return(r)
  /\ UNCHANGED <<processed, used, status, billed, keys, late>>

\* "released": the operation charged nothing; an underfunded call tries again.
Release(r) ==
  /\ call[r].pc = "release"
  /\ wallet' = IF Owns(r) THEN Cleared ELSE wallet
  /\ IF Owns(r) /\ call[r].needs /\ call[r].attempt = 0
       THEN call' = [call EXCEPT ![r] = NextAttempt(r)]
       ELSE Return(r)
  /\ UNCHANGED <<processed, used, status, billed, keys, late>>

\* "released" before any charge was prepared: no second round.
Abandon(r) ==
  /\ call[r].pc = "abandon"
  /\ wallet' = IF Owns(r) THEN Cleared ELSE wallet
  /\ Return(r)
  /\ UNCHANGED <<processed, used, status, billed, keys, late>>

\* Mutant of ReleaseExecutor: an operation whose payment is unknown is cleared.
ReleaseClears(r) ==
  /\ call[r].pc = "releaseExecutor"
  /\ wallet' = IF Owns(r) THEN Cleared ELSE wallet
  /\ Return(r)
  /\ UNCHANGED <<processed, used, status, billed, keys, late>>

\* "executor_released": the operation stays for the next call.
ReleaseExecutor(r) ==
  /\ call[r].pc = "releaseExecutor"
  /\ wallet' = IF Owns(r)
                 THEN [wallet EXCEPT !.executor = NoCall, !.leased = FALSE]
                 ELSE wallet
  /\ Return(r)
  /\ UNCHANGED <<processed, used, status, billed, keys, late>>

\* A mutation throws inside a try block.  The release of an operation without an
\* invoice is outside of them: when it throws, so does the call (Crash).
MutationThrows(r) ==
  /\ call[r].pc \in {"credit", "complete", "fail", "release", "abandon"}
  /\ call[r].pc = "release" => call[r].invoice # NoInvoice
  /\ Goto(r, "releaseExecutor")
  /\ UNCHANGED <<wallet, processed, used, status, billed, keys, late>>

\* Mutant of DebitFunded: the second round is taken whatever the debit did.
DebitFundedAgain(r) ==
  /\ call[r].pc = "debitFunded"
  /\ wallet' = Debited(call[r].want)
  /\ IF call[r].attempt = 0
       THEN call' = [call EXCEPT ![r] =
              [NextAttempt(r) EXCEPT !.ok = AfterDebit(r).ok,
                                     !.debits = AfterDebit(r).debits]]
       ELSE call' = [call EXCEPT ![r] = Answer(AfterDebit(r))]
  /\ UNCHANGED <<processed, used, status, billed, keys, late>>

\* The debit is tried again: after a top-up of this call's, or when the claim
\* found the wallet funded by somebody else.
DebitFunded(r) ==
  LET c == call[r]
      short == wallet.balance < c.want
  IN  /\ c.pc = "debitFunded"
      /\ wallet' = Debited(c.want)
      /\ IF short /\ c.attempt = 0
           THEN call' = [call EXCEPT ![r] = NextAttempt(r)]
           ELSE call' = [call EXCEPT ![r] = Answer(AfterDebit(r))]
      /\ UNCHANGED <<processed, used, status, billed, keys, late>>

DebitCovered(r) ==
  /\ call[r].pc = "debitCovered"
  /\ wallet' = Debited(call[r].want)
  /\ call' = [call EXCEPT ![r] = Answer(AfterDebit(r))]
  /\ UNCHANGED <<processed, used, status, billed, keys, late>>

-----------------------------------------------------------------------------
\* What happens around the calls.

\* The action dies: a deployment, the platform's time limit, a lost host.
Crash(r) ==
  /\ call[r].pc # "idle"
  /\ call' = [call EXCEPT ![r] = IdleCall]
  /\ UNCHANGED <<wallet, processed, used, status, billed, keys, late>>

LeaseExpires ==
  /\ wallet.leased
  /\ wallet' = [wallet EXCEPT !.leased = FALSE]
  /\ UNCHANGED <<processed, used, status, billed, keys, late, call>>

CooldownEnds ==
  /\ wallet.cooling
  /\ wallet' = [wallet EXCEPT !.cooling = FALSE]
  /\ UNCHANGED <<processed, used, status, billed, keys, late, call>>

MonthRolls ==
  /\ wallet.spent > 0
  /\ wallet' = [wallet EXCEPT !.spent = 0]
  /\ UNCHANGED <<processed, used, status, billed, keys, late, call>>

\* refundPoints: the balance grows, the month's spending stays.
Refund ==
  \E points \in Amounts :
    /\ wallet.balance + wallet.spent + points <= MaxPoints
    /\ wallet' = [wallet EXCEPT !.balance = @ + points]
    /\ UNCHANGED <<processed, used, status, billed, keys, late, call>>

\* updateExtraUsageSettings: each setting is optional and keeps its value when
\* it is not given; threshold and reload amount are compared only when the same
\* request gives both, and giving "enabled" as true clears the failure state.
Updated(e, resumed, t, a, c) ==
  [wallet EXCEPT !.enabled = e, !.threshold = t, !.reload = a, !.cap = c,
                 !.failures = IF resumed THEN 0 ELSE @,
                 !.cooling = @ /\ ~resumed]

UpdateSettings ==
  \E e \in BOOLEAN, resumed \in BOOLEAN,
     t \in Thresholds \cup {wallet.threshold},
     a \in Reloads \cup {wallet.reload}, c \in Caps \cup {wallet.cap} :
    /\ IF resumed THEN e ELSE e => wallet.enabled
    /\ t # wallet.threshold /\ a # wallet.reload => a >= t + MinReloadGap
    /\ wallet' = Updated(e, resumed, t, a, c)
    /\ UNCHANGED <<processed, used, status, billed, keys, late, call>>

-----------------------------------------------------------------------------
CallStep(r) ==
  \/ FirstDebit(r)
  \/ ClaimNew(r) \/ ClaimExpired(r) \/ ClaimFollow(r) \/ ClaimRefused(r)
  \/ Reconcile(r) \/ Retire(r) \/ Recheck(r)
  \/ Prepare(r) \/ Retrieve(r) \/ Create(r) \/ Record(r)
  \/ AddItem(r) \/ Finalize(r) \/ Pay(r) \/ VoidDeclined(r)
  \/ Credit(r) \/ Complete(r) \/ CountSuccess(r)
  \/ Fail(r) \/ CountFailure(r)
  \/ Release(r) \/ Abandon(r) \/ ReleaseExecutor(r) \/ MutationThrows(r)
  \/ DebitFunded(r) \/ DebitCovered(r)

Environment ==
  \/ LatePost
  \/ PaymentSettles
  \/ \E o \in Op : ForgetKeys(o)
  \/ LeaseExpires
  \/ CooldownEnds
  \/ MonthRolls
  \/ Refund
  \/ UpdateSettings

Next ==
  \/ \E r \in Call : Start(r) \/ CallStep(r) \/ Crash(r)
  \/ Environment

Spec == Init /\ [][Next]_vars

-----------------------------------------------------------------------------
\* Safety.

Holds(i) == wallet.op = i[1] /\ wallet.invoice = i

\* Money taken is never lost: an invoice that is paid and not credited is the
\* one the row names, so the next call finds it and credits it, whatever calls
\* died, lost their lease or gave up in between.
PaidIsRecoverable ==
  \A i \in Invoice :
    status[i] = "paid" /\ i[1] \notin processed => Holds(i)

\* An invoice that can still be paid is never forgotten: it is the one the row
\* names.  So no two operations of a user can be charged at the same time.
PayableIsHeld == \A i \in Invoice : status[i] = "open" => Holds(i)

\* Money that was taken and not credited, or can still be taken, is of the invoice
\* the row names, whatever calls died, lost their lease or gave up in between.
\* The one exception the code makes is a payment that was answered "open".
MoneyIsHeld ==
  \A i \in Invoice :
    \/ status[i] = "open"
    \/ status[i] = "paid" /\ i[1] \notin processed
    => Holds(i) \/ keys[i[1]].pay = "open"

\* Every credit is backed by exactly one paid invoice of its operation, also
\* when a stale executor and its successor both drive the operation, or when
\* Stripe has forgotten the operation's idempotency keys.
CreditBackedByPayment ==
  \A o \in processed :
    \E n \in InvoiceNo : \A m \in InvoiceNo : status[<<o, m>>] = "paid" <=> m = n

\* The wallet is credited what the card was charged, when keys do not expire.
CreditEqualsCharge ==
  [][\A i \in Invoice :
       i[1] \in processed' \ processed /\ status[i] = "paid" =>
         wallet'.balance - wallet.balance = PointsOf(billed[i])]_vars

\* A call debits at most once, over both debits and both rounds of the reload
\* loop, and reports success exactly if it debited.
AnswerMatchesDebit ==
  \A r \in Call :
    /\ call[r].debits <= 1
    /\ call[r].pc = "idle" => (call[r].ok <=> call[r].debits = 1)

-----------------------------------------------------------------------------
\* The ledger this implements.

StageOf(o) ==
  IF o \in processed THEN "credited"
  ELSE IF \E n \in InvoiceNo : status[<<o, n>>] = "paid"
         THEN IF wallet.op = o THEN "charged" ELSE "stray"
  ELSE IF wallet.op = o THEN "held"
  ELSE IF o \in used THEN "dropped"
  ELSE "unused"

stages == [o \in Op |-> StageOf(o)]

Ledger ==
  INSTANCE ReloadLedger WITH ledger <- stages, SettlesLate <- PayMayStayOpen

ImplementsLedger == Ledger!LedgerSpec

-----------------------------------------------------------------------------
\* The inductive invariant behind PaidIsRecoverable, PayableIsHeld, MoneyIsHeld,
\* CreditBackedByPayment and ImplementsLedger.

\* An invoice that was once finalized or retired.  Only the invoice that the
\* row names gets there, so there is one per operation.
Driven(i) == status[i] \in {"open", "paid", "void", "deleted"}

\* Its payment was answered "open": a call takes that for a failure, and what
\* settles later is lost.  Once Stripe forgets keys the answer cannot be told.
Adrift(i) ==
  /\ PayMayStayOpen
  /\ Driven(i)
  /\ KeysExpire \/ keys[i[1]].pay = "open"

\* Nothing can be charged, or is left to be credited, on this invoice, or the
\* row was allowed to forget it.
Settled(i) ==
  \/ status[i] \in {"void", "deleted"}
  \/ status[i] = "paid" /\ i[1] \in processed
  \/ Adrift(i)

Safe(i) == Holds(i) \/ Settled(i)

\* The phases in which a call is bound to an operation, or to an invoice.
OpPCs == PCs \ {"idle", "debit", "claim", "countSuccess", "countFailure",
                "debitFunded", "debitCovered"}
InvoicePCs == {"reconcile", "retire", "recheck", "record", "item", "finalize",
               "pay", "voidDeclined", "credit", "complete", "fail"}

RowConsistent ==
  /\ wallet.op = NoOp => wallet.invoice = NoInvoice
  /\ wallet.op # NoOp => wallet.op \in used
  /\ wallet.invoice # NoInvoice => wallet.invoice[1] = wallet.op

CallConsistent(r) ==
  LET c == call[r]
  IN  /\ c.pc \in OpPCs => c.op \in used
      /\ c.pc \in InvoicePCs => c.invoice # NoInvoice
      /\ c.invoice # NoInvoice => c.invoice[1] = c.op
      /\ c.pc = "reconcile" => ~c.fresh
      /\ c.pc \in {"prepare", "create"} /\ c.fresh => c.invoice = NoInvoice
      /\ c.pc = "abandon" => c.invoice = NoInvoice

\* An operation that was never on the row has left no trace.
UnusedIsClean ==
  \A o \in Op \ used :
    /\ o \notin processed
    /\ \A n \in InvoiceNo : status[<<o, n>>] = "none"

\* What each call knows of its invoice, and that what it clears is settled.
CallSafe(r) ==
  LET c == call[r]
  IN  /\ /\ c.pc \in {"reconcile", "retire", "prepare", "create", "item",
                      "finalize", "pay"}
         /\ c.invoice # NoInvoice
         => Safe(c.invoice)
      /\ c.pc \in {"credit", "complete"} => status[c.invoice] = "paid"
      /\ c.pc = "complete" => c.op \in processed
      /\ c.pc = "fail" => status[c.invoice] = "void" \/ Adrift(c.invoice)
      /\ /\ c.pc = "release"
         /\ c.invoice # NoInvoice
         => status[c.invoice] \in {"void", "deleted"}
      /\ /\ c.pc \in {"prepare", "create", "release", "abandon"}
         /\ c.invoice = NoInvoice
         /\ Owns(r)
         => wallet.invoice = NoInvoice
      /\ c.pc = "record" /\ Owns(r) => wallet.invoice = NoInvoice

StripeSafe ==
  /\ \A i \in Invoice : status[i] \in {"open", "paid"} => Safe(i)
  /\ \A i \in Invoice : Driven(i) /\ wallet.op = i[1] => wallet.invoice = i
  /\ \A i, j \in Invoice : Driven(i) /\ Driven(j) /\ i[1] = j[1] => i = j
  /\ \A m \in late : /\ m[2][1] \in used
                     /\ m[1] \in {"finalize", "delete"} => Safe(m[2])

\* Stripe remembers only what it did.
KeysSafe ==
  \A o \in Op :
    /\ keys[o].pay = "open" =>
         PayMayStayOpen /\ \E n \in InvoiceNo : Driven(<<o, n>>)
    /\ keys[o].pay = "paid" => \E n \in InvoiceNo : status[<<o, n>>] = "paid"

IInv ==
  /\ TypeOK
  /\ RowConsistent
  /\ \A r \in Call : CallConsistent(r)
  /\ UnusedIsClean
  /\ StripeSafe
  /\ KeysSafe
  /\ \A r \in Call : CallSafe(r)
  /\ CreditBackedByPayment

-----------------------------------------------------------------------------
\* Progress.  The user keeps making calls, leases run out, and nothing fails
\* for ever: a step of a call that is possible again and again is eventually
\* taken, and so is each step in which Stripe and Convex do what they are
\* asked and the call is not killed.
Fairness ==
  /\ WF_vars(LeaseExpires)
  /\ \A r \in Call :
       /\ WF_vars(Start(r))
       /\ WF_vars(CallStep(r))
       /\ SF_vars(FirstDebit(r))
       /\ SF_vars(ClaimExpired(r))
       /\ SF_vars(Reconcile(r) /\ call'[r].pc # "releaseExecutor")
       /\ SF_vars(Credit(r))

FairSpec == Spec /\ Fairness

\* A paid invoice is eventually credited, although any call may die anywhere.
PaidIsCredited ==
  \A o \in Op :
    (\E n \in InvoiceNo : status[<<o, n>>] = "paid") ~> o \in processed

\* What was paid is credited in the end, and with the amount that was charged.
PaymentIsCredited == PaidIsCredited /\ CreditEqualsCharge

\* No call waits for ever, on a lease or in the reload loop: it returns, or the
\* operation ids of the bounded model are used up and it cannot claim.
Scheduling == \A r \in Call : WF_vars(CallStep(r))
ScheduledSpec == Spec /\ Scheduling

OutOfIds(r) == call[r].pc = "claim" /\ wallet.op = NoOp /\ used = Op

EveryCallReturns ==
  \A r \in Call : call[r].pc # "idle" ~> call[r].pc = "idle" \/ OutOfIds(r)
=============================================================================
