-------------------------- MODULE AutoReload_proofs --------------------------
(***************************************************************************)
(* Proofs about AutoReload: type correctness; the safety of the money and  *)
(* the refinement of ReloadLedger; what a call answers; the evaluation of  *)
(* a charge, for all values; and that credit and charge are equal.         *)
(***************************************************************************)
EXTENDS AutoReload, TLAPS

LEMMA ProductIsNat ==
  ASSUME NEW a \in Nat, NEW b \in Nat
  PROVE  a * b \in Nat
BY Z3

LEMMA QuotientIsNat ==
  ASSUME NEW a \in Nat, NEW b \in Nat, b > 0
  PROVE  a \div b \in Nat
BY Z3

LEMMA RateIsPositive ==
  /\ PointsNum \in Nat /\ PointsNum > 0
  /\ PointsDen \in Nat /\ PointsDen > 0
BY ReloadAssumption

LEMMA PointsAreNat ==
  ASSUME NEW cents \in Nat
  PROVE  PointsOf(cents) \in Nat
<1>1. cents * PointsNum \in Nat
  BY RateIsPositive, ProductIsNat
<1> QED BY <1>1, RateIsPositive, QuotientIsNat DEF PointsOf

LEMMA CentsAreNat ==
  ASSUME NEW points \in Nat
  PROVE  CentsRoundedUp(points) \in Nat /\ CentsWithin(points) \in Nat
<1>1. /\ points * PointsDen \in Nat
      /\ PointsDen * (points + 1) \in Nat /\ PointsDen * (points + 1) > 0
  <2>1. \A a, b \in Nat : a * b \in Nat /\ (a > 0 /\ b > 0 => a * b > 0)
    BY Z3
  <2> QED BY <2>1, RateIsPositive
<1>2. /\ points * PointsDen + PointsNum - 1 \in Nat
      /\ PointsDen * (points + 1) - 1 \in Nat
  BY <1>1, RateIsPositive
<1> QED BY <1>2, RateIsPositive, QuotientIsNat DEF CentsRoundedUp, CentsWithin

LEMMA EvaluationType ==
  ASSUME TypeOK, NEW r \in Call
  PROVE  Evaluation(r).cents \in Nat
<1> DEFINE b == wallet.balance
           q == Requested(r)
           m == MonthlyRemaining(wallet.cap, wallet.spent)
<1>1. /\ b \in Nat /\ wallet.reload \in Nat /\ wallet.threshold \in Nat
      /\ q \in Nat /\ m \in Int
  BY DEF TypeOK, Wallet, CallState, Requested, MonthlyRemaining, Unlimited, AtLeast
<1>2. \A p \in Nat : CentsRoundedUp(p) \in Nat /\ CentsWithin(p) \in Nat
  BY CentsAreNat
<1>3. ChargeCents(b, wallet.reload, q, m) \in Nat
  BY <1>1, <1>2, ReloadAssumption
     DEF ChargeCents, DesiredCents, AtLeast, AtMost, Unlimited
<1> QED BY <1>3 DEF Evaluation, EvaluateCharge, Refused

LEMMA EffectType ==
  ASSUME TypeOK, NEW kind, NEW i \in Invoice, NEW cents \in Nat,
         Effect(kind, i, cents)
  PROVE  /\ status' \in [Invoice -> InvoiceStatus]
         /\ billed' \in [Invoice -> Nat]
         /\ keys' \in [Op -> Keys]
<1>1. i[1] \in Op
  BY DEF Invoice
<1>2. CASE CreateEffect(i)
  BY <1>1, <1>2 DEF CreateEffect, TypeOK, Keys, InvoiceStatus
<1>3. CASE ItemEffect(i, cents)
  <2>1. CASE UNCHANGED <<status, billed, keys>>
    BY <2>1 DEF TypeOK
  <2>2. CASE /\ billed' = [billed EXCEPT ![i] = @ + cents]
             /\ keys' = [keys EXCEPT ![i[1]].item = TRUE]
             /\ UNCHANGED status
    <3>1. billed' \in [Invoice -> Nat]
      BY <2>2 DEF TypeOK
    <3>2. [keys[i[1]] EXCEPT !.item = TRUE] \in Keys
      BY <1>1 DEF TypeOK, Keys
    <3>3. keys' \in [Op -> Keys]
      BY <1>1, <2>2, <3>2 DEF TypeOK
    <3> QED BY <2>2, <3>1, <3>3 DEF TypeOK
  <2> QED BY <1>3, <2>1, <2>2 DEF ItemEffect
<1>4. ASSUME NEW from, NEW to \in InvoiceStatus, StatusEffect(i, from, to)
      PROVE  /\ status' \in [Invoice -> InvoiceStatus]
             /\ billed' \in [Invoice -> Nat]
             /\ keys' \in [Op -> Keys]
  BY <1>4 DEF StatusEffect, TypeOK
<1>5. CASE PayEffect(i)
  <2>1. CASE UNCHANGED <<status, billed, keys>>
    BY <2>1 DEF TypeOK
  <2>2. ASSUME NEW answer \in {"paid", "declined", "open"},
               /\ status' = [status EXCEPT ![i] =
                               IF answer = "paid" THEN "paid" ELSE @]
               /\ keys' = [keys EXCEPT ![i[1]].pay = answer]
               /\ UNCHANGED billed
        PROVE  /\ status' \in [Invoice -> InvoiceStatus]
               /\ billed' \in [Invoice -> Nat]
               /\ keys' \in [Op -> Keys]
    <3>1. status' \in [Invoice -> InvoiceStatus]
      BY <2>2 DEF TypeOK, InvoiceStatus
    <3>2. [keys[i[1]] EXCEPT !.pay = answer] \in Keys
      BY <1>1 DEF TypeOK, Keys, PayAnswer
    <3>3. keys' \in [Op -> Keys]
      BY <1>1, <2>2, <3>2 DEF TypeOK
    <3> QED BY <2>2, <3>1, <3>3 DEF TypeOK
  <2> QED BY <1>5, <2>1, <2>2 DEF PayEffect
<1> QED BY <1>2, <1>3, <1>4, <1>5 DEF Effect, InvoiceStatus

LEMMA UnansweredType ==
  ASSUME TypeOK, NEW kind \in {"create", "item", "finalize", "pay", "void",
                               "delete"},
         NEW i \in Invoice, NEW cents \in Nat, Unanswered(kind, i, cents)
  PROVE  /\ status' \in [Invoice -> InvoiceStatus]
         /\ billed' \in [Invoice -> Nat]
         /\ keys' \in [Op -> Keys]
         /\ late' \subseteq Post
<1>1. CASE Effect(kind, i, cents) /\ UNCHANGED late
  BY <1>1, EffectType DEF TypeOK
<1>2. CASE UNCHANGED <<status, billed, keys, late>>
  BY <1>2 DEF TypeOK
<1>3. CASE late' = late \cup {<<kind, i, cents>>} /\ UNCHANGED <<status, billed, keys>>
  BY <1>3 DEF TypeOK, Post
<1> QED BY <1>1, <1>2, <1>3 DEF Unanswered

LEMMA GotoType ==
  ASSUME TypeOK, NEW r \in Call, NEW pc \in PCs, Goto(r, pc)
  PROVE  call' \in [Call -> CallState]
BY DEF TypeOK, Goto, CallState

LEMMA IdleType == IdleCall \in CallState
BY ConstantAssumption DEF IdleCall, CallState, PCs, InvoiceStatus

LEMMA AnswerType ==
  ASSUME NEW c \in CallState
  PROVE  Answer(c) \in CallState
BY IdleType DEF Answer, CallState

LEMMA ReturnType ==
  ASSUME TypeOK, NEW r \in Call, Return(r)
  PROVE  call' \in [Call -> CallState]
BY AnswerType DEF TypeOK, Return

LEMMA NextAttemptType ==
  ASSUME TypeOK, NEW r \in Call
  PROVE  NextAttempt(r) \in CallState
<1>1. call[r] \in CallState
  BY DEF TypeOK
<1>2. /\ "claim" \in PCs /\ "none" \in InvoiceStatus
      /\ NoOp \in Op \cup {NoOp} /\ NoInvoice \in Invoice \cup {NoInvoice}
  BY DEF PCs, InvoiceStatus
<1> QED BY <1>1, <1>2 DEF NextAttempt, CallState

LEMMA DebitType ==
  ASSUME TypeOK, NEW r \in Call
  PROVE  /\ Debited(call[r].want) \in Wallet
         /\ AfterDebit(r) \in CallState
         /\ Answer(AfterDebit(r)) \in CallState
<1>1. call[r].want \in Nat
  BY DEF TypeOK, CallState
<1>2. Debited(call[r].want) \in Wallet
  <2>1. CASE Debitable(call[r].want)
    <3>1. /\ wallet \in Wallet
          /\ wallet.balance - call[r].want \in Nat
          /\ wallet.spent + call[r].want \in Nat
      BY <1>1, <2>1 DEF TypeOK, Wallet, Debitable
    <3> QED BY <2>1, <3>1 DEF Wallet, Debited
  <2>2. CASE ~Debitable(call[r].want)
    BY <2>2 DEF TypeOK, Debited
  <2> QED BY <2>1, <2>2
<1>3. AfterDebit(r) \in CallState
  <2>1. call[r] \in CallState
    BY DEF TypeOK
  <2>2. call[r].debits + 1 \in Nat
    BY <2>1 DEF CallState
  <2>3. ASSUME NEW d \in Nat
        PROVE  [call[r] EXCEPT !.ok = TRUE, !.debits = d] \in CallState
    BY <2>1 DEF CallState
  <2>4. [call[r] EXCEPT !.ok = FALSE] \in CallState
    BY <2>1 DEF CallState
  <2> QED BY <2>2, <2>3, <2>4 DEF AfterDebit
<1> QED BY <1>2, <1>3, AnswerType

LEMMA ClearedType ==
  ASSUME TypeOK
  PROVE  Cleared \in Wallet
BY DEF TypeOK, Wallet, Cleared

-----------------------------------------------------------------------------
\* Type correctness.  That a call credits an operation and no other value
\* needs what CallConsistent says of its local state.

LEMMA TypeInit == Init => TypeOK
<1> SUFFICES ASSUME Init PROVE TypeOK
  OBVIOUS
<1>1. wallet \in Wallet
  BY ConstantAssumption DEF Init, Wallet
<1>2. status \in [Invoice -> InvoiceStatus] /\ billed \in [Invoice -> Nat]
  BY DEF Init, InvoiceStatus
<1>3. keys \in [Op -> Keys]
  BY DEF Init, EmptyKeys, Keys, PayAnswer
<1>4. call \in [Call -> CallState]
  BY IdleType DEF Init
<1> QED BY <1>1, <1>2, <1>3, <1>4 DEF Init, TypeOK

LEMMA WalletUpdateType ==
  ASSUME NEW w \in Wallet, NEW b \in Nat, NEW o \in Op \cup {NoOp},
         NEW e \in Call \cup {NoCall}, NEW l \in BOOLEAN, NEW c \in Nat,
         NEW i \in Invoice \cup {NoInvoice}
  PROVE  /\ [w EXCEPT !.op = o, !.executor = e, !.leased = l,
                           !.cents = c, !.invoice = i] \in Wallet
         /\ [w EXCEPT !.executor = e, !.leased = l] \in Wallet
         /\ [w EXCEPT !.invoice = i] \in Wallet
         /\ [w EXCEPT !.balance = b] \in Wallet
         /\ [w EXCEPT !.spent = b] \in Wallet
         /\ [w EXCEPT !.failures = b] \in Wallet
         /\ [w EXCEPT !.cooling = l] \in Wallet
         /\ [w EXCEPT !.leased = l] \in Wallet
<1>1. [w EXCEPT !.op = o, !.executor = e, !.leased = l,
                     !.cents = c, !.invoice = i] \in Wallet
  BY DEF Wallet
<1>2. [w EXCEPT !.executor = e, !.leased = l] \in Wallet
  BY DEF Wallet
<1>3. [w EXCEPT !.invoice = i] \in Wallet
  BY DEF Wallet
<1>4. [w EXCEPT !.balance = b] \in Wallet
  BY DEF Wallet
<1>5. [w EXCEPT !.spent = b] \in Wallet
  BY DEF Wallet
<1>6. [w EXCEPT !.failures = b] \in Wallet
  BY DEF Wallet
<1>7. [w EXCEPT !.cooling = l] \in Wallet /\ [w EXCEPT !.leased = l] \in Wallet
  BY DEF Wallet
<1> QED BY <1>1, <1>2, <1>3, <1>4, <1>5, <1>6, <1>7

\* An action that leaves the wallet and Stripe alone.
LEMMA CallOnlyType ==
  ASSUME TypeOK, call' \in [Call -> CallState],
         UNCHANGED <<wallet, processed, used, status, billed, keys, late>>
  PROVE  TypeOK'
BY DEF TypeOK

\* An action that leaves everything but the wallet and the call alone.
LEMMA RowType ==
  ASSUME TypeOK, call' \in [Call -> CallState], wallet' \in Wallet,
         UNCHANGED <<processed, used, status, billed, keys, late>>
  PROVE  TypeOK'
BY DEF TypeOK

\* An action that leaves everything but Stripe and the call alone.
LEMMA StripeType ==
  ASSUME TypeOK, call' \in [Call -> CallState],
         status' \in [Invoice -> InvoiceStatus],
         billed' \in [Invoice -> Nat],
         keys' \in [Op -> Keys],
         late' \subseteq Post,
         UNCHANGED <<wallet, processed, used>>
  PROVE  TypeOK'
BY DEF TypeOK

LEMMA StartType ==
  ASSUME TypeOK, NEW r \in Call, Start(r)
  PROVE  TypeOK'
<1>1. PICK amount \in Amounts :
        call' = [call EXCEPT ![r] =
                   [IdleCall EXCEPT !.pc = "debit", !.want = amount,
                                    !.pending = (wallet.op # NoOp),
                                    !.armed = wallet.enabled,
                                    !.floor = wallet.threshold]]
  BY DEF Start
<1>2. /\ amount \in Nat /\ wallet.enabled \in BOOLEAN
      /\ wallet.threshold \in Nat /\ "debit" \in PCs
  BY ConstantAssumption DEF TypeOK, Wallet, PCs
<1>3. ASSUME NEW a \in Nat, NEW p \in BOOLEAN, NEW e \in BOOLEAN, NEW t \in Nat
      PROVE  [IdleCall EXCEPT !.pc = "debit", !.want = a, !.pending = p,
                              !.armed = e, !.floor = t] \in CallState
  BY <1>2, IdleType DEF CallState
<1>4. (wallet.op # NoOp) \in BOOLEAN
  OBVIOUS
<1>5. [IdleCall EXCEPT !.pc = "debit", !.want = amount,
                       !.pending = (wallet.op # NoOp),
                       !.armed = wallet.enabled,
                       !.floor = wallet.threshold] \in CallState
  BY <1>2, <1>3, <1>4
<1>6. call' \in [Call -> CallState]
  BY <1>1, <1>5 DEF TypeOK
<1> QED BY <1>6, CallOnlyType DEF Start

LEMMA FirstDebitType ==
  ASSUME TypeOK, NEW r \in Call, FirstDebit(r)
  PROVE  TypeOK'
<1> DEFINE needs == wallet.balance < call[r].want
           low == /\ Debitable(call[r].want)
                  /\ wallet.balance - call[r].want <= call[r].floor
           next == [AfterDebit(r) EXCEPT !.pc = "claim", !.needs = needs,
                      !.low = low, !.pending = FALSE, !.armed = FALSE,
                      !.floor = 0]
<1>1. needs \in BOOLEAN /\ low \in BOOLEAN
  BY DEF Debitable
<1>2. ASSUME NEW c \in CallState, NEW n \in BOOLEAN, NEW l \in BOOLEAN
      PROVE  [c EXCEPT !.pc = "claim", !.needs = n, !.low = l,
                       !.pending = FALSE, !.armed = FALSE,
                       !.floor = 0] \in CallState
  BY DEF CallState, PCs
<1>3. next \in CallState
  BY <1>1, <1>2, DebitType
<1>4. wallet' \in Wallet
  BY DebitType DEF FirstDebit
<1> HIDE DEF next
<1>5. \/ call' = [call EXCEPT ![r] = next]
      \/ call' = [call EXCEPT ![r] = Answer(AfterDebit(r))]
  BY DEF FirstDebit, next
<1>6. call' \in [Call -> CallState]
  BY <1>3, <1>5, DebitType DEF TypeOK
<1> QED BY <1>4, <1>6, RowType DEF FirstDebit

LEMMA ClaimType ==
  ASSUME TypeOK, NEW r \in Call,
         ClaimNew(r) \/ ClaimExpired(r) \/ ClaimFollow(r) \/ ClaimRefused(r)
  PROVE  TypeOK'
<1>1. /\ wallet \in Wallet /\ call[r] \in CallState
      /\ {"prepare", "release", "reconcile", "claim", "debitCovered"} \subseteq PCs
  BY DEF TypeOK, PCs
<1>2. ASSUME NEW c \in CallState, NEW pc \in PCs, NEW o \in Op \cup {NoOp},
             NEW f \in BOOLEAN, NEW n \in Nat, NEW i \in Invoice \cup {NoInvoice},
             NEW p \in BOOLEAN
      PROVE  [c EXCEPT !.pc = pc, !.op = o, !.fresh = f, !.cents = n,
                       !.invoice = i, !.mayPay = p] \in CallState
  BY DEF CallState
<1>3. CASE ClaimNew(r)
  <2> DEFINE due == call[r].needs \/ call[r].low
             cents == Evaluation(r).cents
  <2>1. due \in BOOLEAN /\ cents \in Nat
    BY EvaluationType
  <2> HIDE DEF due, cents
  <2>2. PICK o \in Op \ used :
          /\ used' = used \cup {o}
          /\ wallet' = [wallet EXCEPT !.op = o, !.executor = r,
                                      !.leased = TRUE, !.cents = cents,
                                      !.invoice = NoInvoice]
          /\ call' = [call EXCEPT ![r] =
               [@ EXCEPT !.pc = IF due THEN "prepare" ELSE "release",
                         !.op = o, !.fresh = TRUE, !.cents = cents,
                         !.invoice = NoInvoice, !.mayPay = due]]
    BY <1>3 DEF ClaimNew, due, cents
  <2>3. wallet' \in Wallet
    BY <1>1, <2>1, <2>2, WalletUpdateType
  <2>4. call' \in [Call -> CallState]
    BY <1>1, <1>2, <2>1, <2>2 DEF TypeOK
  <2> QED BY <1>3, <2>2, <2>3, <2>4 DEF ClaimNew, TypeOK
<1>4. CASE ClaimExpired(r)
  <2> DEFINE mayPay == (call[r].needs \/ call[r].low) /\ ResumeAllowed(r)
             pc == IF wallet.invoice # NoInvoice THEN "reconcile"
                   ELSE IF mayPay THEN "prepare" ELSE "release"
  <2>1. mayPay \in BOOLEAN /\ pc \in PCs
    BY <1>1 DEF ResumeAllowed
  <2>2. /\ wallet' = [wallet EXCEPT !.executor = r, !.leased = TRUE]
        /\ call' = [call EXCEPT ![r] =
             [@ EXCEPT !.pc = pc, !.op = wallet.op, !.fresh = FALSE,
                       !.cents = wallet.cents, !.invoice = wallet.invoice,
                       !.mayPay = mayPay]]
    BY <1>4 DEF ClaimExpired
  <2> HIDE DEF mayPay, pc
  <2>3. wallet' \in Wallet
    BY <1>1, <2>2, WalletUpdateType
  <2>4. /\ wallet.op \in Op \cup {NoOp} /\ wallet.cents \in Nat
        /\ wallet.invoice \in Invoice \cup {NoInvoice}
    BY <1>1 DEF Wallet
  <2>5. call' \in [Call -> CallState]
    BY <1>1, <1>2, <2>1, <2>2, <2>4 DEF TypeOK
  <2> QED BY <1>4, <2>3, <2>5, RowType DEF ClaimExpired
<1>5. CASE ClaimFollow(r)
  <2>1. CASE call' = [call EXCEPT ![r].polls = @ + 1]
    <3>1. call[r].polls + 1 \in Nat
      BY <1>1 DEF CallState
    <3>2. ASSUME NEW n \in Nat
          PROVE  [call[r] EXCEPT !.polls = n] \in CallState
      BY <1>1 DEF CallState
    <3>3. call' \in [Call -> CallState]
      BY <2>1, <3>1, <3>2 DEF TypeOK
    <3> QED BY <1>5, <3>3, CallOnlyType DEF ClaimFollow
  <2>2. CASE Return(r)
    BY <1>5, <2>2, ReturnType, CallOnlyType DEF ClaimFollow
  <2> QED BY <1>5, <2>1, <2>2 DEF ClaimFollow
<1>6. CASE ClaimRefused(r)
  BY <1>1, <1>6, ReturnType, GotoType, CallOnlyType DEF ClaimRefused
<1> QED BY <1>3, <1>4, <1>5, <1>6

LEMMA PreChargeExitType ==
  ASSUME NEW r \in Call
  PROVE  PreChargeExit(r) \in PCs
BY DEF PreChargeExit, PCs

\* The steps that only ask Stripe or WorkOS for something.
LEMMA LookupType ==
  ASSUME TypeOK, NEW r \in Call, call[r].invoice # NoInvoice \/ Prepare(r),
         Reconcile(r) \/ Recheck(r) \/ Prepare(r) \/ Retrieve(r)
  PROVE  TypeOK'
<1>1. call[r] \in CallState
  BY DEF TypeOK
<1>2. /\ {"credit", "release", "prepare", "retire", "releaseExecutor", "create",
          "item", "pay", "fail"} \subseteq PCs
      /\ PreChargeExit(r) \in PCs
  BY PreChargeExitType DEF PCs
<1>3. ASSUME NEW pc \in PCs, NEW s \in InvoiceStatus,
             call' = [call EXCEPT ![r].view = s, ![r].pc = pc]
      PROVE  call' \in [Call -> CallState]
  <2>1. [call[r] EXCEPT !.view = s, !.pc = pc] \in CallState
    BY <1>1 DEF CallState
  <2> QED BY <1>3, <2>1 DEF TypeOK
<1>4. ~Prepare(r) => status[call[r].invoice] \in InvoiceStatus
  BY <1>1 DEF TypeOK, CallState
<1>5. call' \in [Call -> CallState]
  <2>1. CASE Reconcile(r)
    <3>1. CASE Goto(r, "releaseExecutor")
      BY <1>2, <3>1, GotoType
    <3>2. CASE ~Goto(r, "releaseExecutor")
      BY <1>2, <1>3, <1>4, <2>1, <3>2 DEF Reconcile, Prepare
    <3> QED BY <3>1, <3>2
  <2>2. CASE Recheck(r)
    BY <1>2, <2>2, GotoType DEF Recheck
  <2>3. CASE Prepare(r)
    BY <1>2, <2>3, GotoType DEF Prepare
  <2>4. CASE Retrieve(r)
    <3>1. CASE Goto(r, "releaseExecutor")
      BY <1>2, <3>1, GotoType
    <3>2. CASE ~Goto(r, "releaseExecutor")
      BY <1>2, <1>3, <1>4, <2>4, <3>2 DEF Retrieve, Prepare
    <3> QED BY <3>1, <3>2
  <2> QED BY <2>1, <2>2, <2>3, <2>4
<1> QED BY <1>5, CallOnlyType DEF Reconcile, Recheck, Prepare, Retrieve

\* A Stripe request of a call, answered or not, after which the call goes on.
LEMMA PostType ==
  ASSUME TypeOK, NEW r \in Call, NEW i \in Invoice, NEW cents \in Nat,
         NEW kind \in {"create", "item", "finalize", "pay", "void", "delete"},
         \/ Effect(kind, i, cents) /\ UNCHANGED late
         \/ Unanswered(kind, i, cents),
         call' \in [Call -> CallState],
         UNCHANGED <<wallet, processed, used>>
  PROVE  TypeOK'
<1>1. CASE Effect(kind, i, cents) /\ UNCHANGED late
  <2>1. late' \subseteq Post
    BY <1>1 DEF TypeOK
  <2> QED BY <1>1, <2>1, EffectType, StripeType
<1>2. CASE Unanswered(kind, i, cents)
  BY <1>2, UnansweredType, StripeType
<1> QED BY <1>1, <1>2

LEMMA InvoicePostType ==
  ASSUME TypeOK, NEW r \in Call, call[r].invoice # NoInvoice,
         \/ Retire(r) \/ AddItem(r) \/ Finalize(r) \/ Pay(r) \/ VoidDeclined(r)
  PROVE  TypeOK'
<1> DEFINE i == call[r].invoice
<1>1. /\ call[r] \in CallState /\ i \in Invoice /\ call[r].cents \in Nat
      /\ 0 \in Nat
  BY DEF TypeOK, CallState
<1>2. {"release", "recheck", "releaseExecutor", "finalize", "pay", "credit",
       "voidDeclined", "fail"} \subseteq PCs
  BY DEF PCs
<1>3. CASE Retire(r)
  <2>1. \E pc \in PCs : Goto(r, pc)
    BY <1>2, <1>3 DEF Retire
  <2>2. \E kind \in {"delete", "void"} :
          \/ Effect(kind, i, 0) /\ UNCHANGED late
          \/ Unanswered(kind, i, 0)
    BY <1>3 DEF Retire
  <2> QED BY <1>1, <1>3, <2>1, <2>2, GotoType, PostType DEF Retire
<1>4. CASE AddItem(r)
  <2>1. \E pc \in PCs : Goto(r, pc)
    BY <1>2, <1>4 DEF AddItem
  <2>2. \/ Effect("item", i, call[r].cents) /\ UNCHANGED late
        \/ Unanswered("item", i, call[r].cents)
    BY <1>4 DEF AddItem, Effect
  <2> QED BY <1>1, <1>4, <2>1, <2>2, GotoType, PostType DEF AddItem
<1>5. CASE Finalize(r)
  <2>1. call' \in [Call -> CallState]
    <3>1. CASE Goto(r, "releaseExecutor")
      BY <1>2, <3>1, GotoType
    <3>2. CASE call' = [call EXCEPT ![r].view = "open",
                 ![r].pc = IF status[i] # "deleted"
                             THEN "pay" ELSE "releaseExecutor"]
      <4>1. \A pc \in PCs :
              [call[r] EXCEPT !.view = "open", !.pc = pc] \in CallState
        BY <1>1 DEF CallState, InvoiceStatus
      <4> QED BY <1>2, <3>2, <4>1 DEF TypeOK
    <3> QED BY <1>5, <3>1, <3>2 DEF Finalize
  <2>2. \/ Effect("finalize", i, 0) /\ UNCHANGED late
        \/ Unanswered("finalize", i, 0)
    BY <1>5 DEF Finalize, Effect
  <2> QED BY <1>1, <1>5, <2>1, <2>2, PostType DEF Finalize
<1>6. CASE Pay(r)
  <2>1. \E pc \in PCs : Goto(r, pc)
    BY <1>2, <1>6 DEF Pay, AfterPayment
  <2>2. \/ Effect("pay", i, 0) /\ UNCHANGED late
        \/ Unanswered("pay", i, 0)
    BY <1>6 DEF Pay, Effect
  <2> QED BY <1>1, <1>6, <2>1, <2>2, GotoType, PostType DEF Pay
<1>7. CASE VoidDeclined(r)
  <2>1. \E pc \in PCs : Goto(r, pc)
    BY <1>2, <1>7 DEF VoidDeclined
  <2>2. \/ Effect("void", i, 0) /\ UNCHANGED late
        \/ Unanswered("void", i, 0)
    BY <1>7 DEF VoidDeclined, Effect
  <2> QED BY <1>1, <1>7, <2>1, <2>2, GotoType, PostType DEF VoidDeclined
<1> QED BY <1>3, <1>4, <1>5, <1>6, <1>7

LEMMA CreateType ==
  ASSUME TypeOK, NEW r \in Call, call[r].op \in Op, Create(r)
  PROVE  TypeOK'
<1> DEFINE o == call[r].op
<1>1. /\ call[r] \in CallState /\ \A n \in InvoiceNo : <<o, n>> \in Invoice
      /\ 0 \in Nat
  BY DEF TypeOK, Invoice
<1>2. {"record", "releaseExecutor"} \subseteq PCs /\ PreChargeExit(r) \in PCs
  BY PreChargeExitType DEF PCs
<1>3. CASE \E n \in InvoiceNo :
             /\ CreateEffect(<<o, n>>)
             /\ UNCHANGED late
             /\ call' = [call EXCEPT ![r].pc = "record",
                                     ![r].invoice = <<o, n>>,
                                     ![r].view = "draft"]
  <2>1. PICK n \in InvoiceNo :
             /\ CreateEffect(<<o, n>>)
             /\ UNCHANGED late
             /\ call' = [call EXCEPT ![r].pc = "record",
                                     ![r].invoice = <<o, n>>,
                                     ![r].view = "draft"]
    BY <1>3
  <2>2. [call[r] EXCEPT !.pc = "record", !.invoice = <<o, n>>,
                        !.view = "draft"] \in CallState
    BY <1>1, <1>2 DEF CallState, InvoiceStatus
  <2>3. call' \in [Call -> CallState]
    BY <2>1, <2>2 DEF TypeOK
  <2>4. Effect("create", <<o, n>>, 0)
    BY <2>1 DEF Effect
  <2> QED BY <1>1, <2>1, <2>3, <2>4, PostType DEF Create
<1>4. CASE \E n \in InvoiceNo :
             /\ Unanswered("create", <<o, n>>, 0)
             /\ Goto(r, "releaseExecutor")
  BY <1>1, <1>2, <1>4, GotoType, PostType DEF Create
<1>5. CASE UNCHANGED <<status, billed, keys, late>> /\ Goto(r, PreChargeExit(r))
  BY <1>2, <1>5, GotoType, CallOnlyType DEF Create
<1> QED BY <1>3, <1>4, <1>5 DEF Create

LEMMA LatePostType ==
  ASSUME TypeOK, LatePost
  PROVE  TypeOK'
<1>1. PICK m \in late : late' = late \ {m} /\ Effect(m[1], m[2], m[3])
  BY DEF LatePost
<1>2. m[2] \in Invoice /\ m[3] \in Nat
  BY DEF TypeOK, Post
<1> QED BY <1>1, <1>2, EffectType DEF LatePost, TypeOK

LEMMA RowStepType ==
  ASSUME TypeOK, NEW r \in Call, call[r].op \in Op \/ ~Credit(r),
         \/ Record(r) \/ Credit(r) \/ Complete(r) \/ CountSuccess(r) \/ Fail(r)
         \/ CountFailure(r) \/ Release(r) \/ Abandon(r) \/ ReleaseExecutor(r)
         \/ MutationThrows(r) \/ DebitFunded(r) \/ DebitCovered(r) \/ Crash(r)
  PROVE  TypeOK'
<1>1. /\ wallet \in Wallet /\ call[r] \in CallState /\ Cleared \in Wallet
      /\ NoCall \in Call \cup {NoCall}
  BY ClearedType DEF TypeOK
<1>2. {"item", "releaseExecutor", "complete", "countSuccess", "countFailure",
       "debitFunded"} \subseteq PCs
  BY DEF PCs
<1>3. CASE Record(r)
  <2>1. call[r].invoice \in Invoice \cup {NoInvoice}
    BY <1>1 DEF CallState
  <2>2. wallet' \in Wallet
    <3>1. CASE wallet' = [wallet EXCEPT !.invoice = call[r].invoice]
      <4>1. ASSUME NEW i \in Invoice \cup {NoInvoice}
            PROVE  [wallet EXCEPT !.invoice = i] \in Wallet
        BY <1>1 DEF Wallet
      <4> QED BY <2>1, <3>1, <4>1
    <3>2. CASE wallet' = wallet
      BY <1>1, <3>2
    <3> QED BY <1>3, <3>1, <3>2 DEF Record
  <2> QED BY <1>2, <1>3, <2>2, GotoType, RowType DEF Record
<1>4. CASE Credit(r)
  <2>1. /\ wallet.balance \in Nat /\ PointsOf(call[r].cents) \in Nat
    BY <1>1, PointsAreNat DEF Wallet, CallState
  <2>2. wallet.balance + PointsOf(call[r].cents) \in Nat
    BY <2>1
  <2>3. wallet' \in Wallet
    BY <1>1, <1>4, <2>2, WalletUpdateType DEF Credit
  <2>4. processed' \subseteq Op
    BY <1>4 DEF Credit, TypeOK
  <2> QED BY <1>2, <1>4, <2>3, <2>4, GotoType DEF Credit, TypeOK
<1>5. CASE Complete(r)
  BY <1>1, <1>2, <1>5, WalletUpdateType, GotoType, ReturnType, RowType
     DEF Complete
<1>6. CASE CountSuccess(r)
  BY <1>1, <1>2, <1>6, WalletUpdateType, GotoType, ReturnType, RowType
     DEF CountSuccess
<1>7. CASE Fail(r)
  BY <1>1, <1>2, <1>7, WalletUpdateType, GotoType, ReturnType, RowType DEF Fail
<1>8. CASE CountFailure(r)
  <2> DEFINE on == wallet.enabled /\ wallet.failures + 1 < MaxFailures
  <2>1. wallet.failures + 1 \in Nat /\ on \in BOOLEAN
    BY <1>1 DEF Wallet
  <2>2. ASSUME NEW n \in Nat, NEW b \in BOOLEAN
        PROVE  [wallet EXCEPT !.failures = n, !.enabled = b] \in Wallet
    BY <1>1 DEF Wallet
  <2>3. \/ wallet' = [wallet EXCEPT !.failures = wallet.failures + 1,
                                    !.enabled = on]
        \/ wallet' = wallet
    BY <1>8 DEF CountFailure
  <2> HIDE DEF on
  <2>4. wallet' \in Wallet
    BY <1>1, <2>1, <2>2, <2>3
  <2> QED BY <1>8, <2>4, ReturnType, RowType DEF CountFailure
<1>9. CASE Release(r)
  <2>1. call' \in [Call -> CallState]
    BY <1>9, NextAttemptType, ReturnType DEF Release, TypeOK
  <2> QED BY <1>1, <1>9, <2>1, RowType DEF Release
<1>10. CASE Abandon(r)
  BY <1>1, <1>10, ReturnType, RowType DEF Abandon
<1>11. CASE ReleaseExecutor(r)
  BY <1>1, <1>11, WalletUpdateType, ReturnType, RowType DEF ReleaseExecutor
<1>12. CASE MutationThrows(r)
  BY <1>2, <1>12, GotoType, CallOnlyType DEF MutationThrows
<1>13. CASE DebitFunded(r)
  <2>1. wallet' \in Wallet /\ call' \in [Call -> CallState]
    BY <1>13, DebitType, NextAttemptType DEF DebitFunded, TypeOK
  <2> QED BY <1>13, <2>1, RowType DEF DebitFunded
<1>14. CASE DebitCovered(r)
  <2>1. wallet' \in Wallet /\ call' \in [Call -> CallState]
    BY <1>14, DebitType DEF DebitCovered, TypeOK
  <2> QED BY <1>14, <2>1, RowType DEF DebitCovered
<1>15. CASE Crash(r)
  <2>1. call' \in [Call -> CallState]
    BY <1>15, IdleType DEF Crash, TypeOK
  <2> QED BY <1>15, <2>1, CallOnlyType DEF Crash
<1> QED BY <1>3, <1>4, <1>5, <1>6, <1>7, <1>8, <1>9, <1>10, <1>11, <1>12,
           <1>13, <1>14, <1>15

LEMMA EnvironmentType ==
  ASSUME TypeOK, Environment
  PROVE  TypeOK'
<1>1. wallet \in Wallet /\ call \in [Call -> CallState]
  BY DEF TypeOK
<1>2. CASE PaymentSettles
  BY <1>2 DEF PaymentSettles, TypeOK, InvoiceStatus
<1>3. ASSUME NEW o \in Op, ForgetKeys(o) PROVE TypeOK'
  <2>1. EmptyKeys \in Keys
    BY DEF EmptyKeys, Keys, PayAnswer
  <2> QED BY <1>3, <2>1 DEF ForgetKeys, TypeOK
<1>4. CASE LeaseExpires \/ CooldownEnds \/ MonthRolls
  BY <1>1, <1>4, WalletUpdateType, RowType DEF LeaseExpires, CooldownEnds, MonthRolls
<1>5. CASE Refund
  <2>1. PICK points \in Amounts : wallet' = [wallet EXCEPT !.balance = @ + points]
    BY <1>5 DEF Refund
  <2>2. wallet.balance + points \in Nat
    BY <1>1, <2>1, ConstantAssumption DEF Wallet
  <2> QED BY <1>1, <1>5, <2>1, <2>2, WalletUpdateType, RowType DEF Refund
<1>6. CASE UpdateSettings
  <2>1. PICK e \in BOOLEAN, resumed \in BOOLEAN,
             t \in Thresholds \cup {wallet.threshold},
             a \in Reloads \cup {wallet.reload}, c \in Caps \cup {wallet.cap} :
          wallet' = Updated(e, resumed, t, a, c)
    BY <1>6, Zenon DEF UpdateSettings
  <2>2. /\ t \in Nat /\ a \in Nat /\ c \in Nat \cup {Unlimited}
        /\ wallet.failures \in Nat
    BY <1>1, ConstantAssumption DEF Wallet
  <2>3. (wallet.cooling /\ ~resumed) \in BOOLEAN
    OBVIOUS
  <2>4. ASSUME NEW f \in Nat, NEW b \in BOOLEAN
        PROVE  [wallet EXCEPT !.enabled = e, !.threshold = t, !.reload = a,
                  !.cap = c, !.failures = f, !.cooling = b] \in Wallet
    BY <1>1, <2>2 DEF Wallet
  <2>5. (IF resumed THEN 0 ELSE wallet.failures) \in Nat
    BY <2>2
  <2>6. wallet' \in Wallet
    BY <2>1, <2>3, <2>4, <2>5 DEF Updated
  <2> QED BY <1>1, <1>6, <2>6, RowType DEF UpdateSettings
<1> QED BY <1>2, <1>3, <1>4, <1>5, <1>6, LatePostType DEF Environment

-----------------------------------------------------------------------------
\* What the row and the calls say of operations and invoices fits together.

Consistency == /\ TypeOK
               /\ RowConsistent
               /\ \A r \in Call : CallConsistent(r)

LEMMA ConsistencyInit == Init => Consistency
<1> SUFFICES ASSUME Init PROVE Consistency
  OBVIOUS
<1>1. RowConsistent
  BY DEF Init, RowConsistent
<1>2. ASSUME NEW r \in Call PROVE CallConsistent(r)
  BY DEF Init, IdleCall, CallConsistent, OpPCs, InvoicePCs
<1> QED BY <1>1, <1>2, TypeInit DEF Consistency

\* The row keeps its operation and invoice.
LEMMA RowStays ==
  ASSUME RowConsistent, used \subseteq used',
         wallet'.op = wallet.op, wallet'.invoice = wallet.invoice
  PROVE  RowConsistent'
BY DEF RowConsistent

\* The other calls are not affected.
LEMMA OthersConsistent ==
  ASSUME Consistency, NEW r \in Call, used \subseteq used',
         \A s \in Call \ {r} : call'[s] = call[s],
         CallConsistent(r)'
  PROVE  \A s \in Call : CallConsistent(s)'
<1> SUFFICES ASSUME NEW s \in Call, s # r PROVE CallConsistent(s)'
  OBVIOUS
<1>1. CallConsistent(s) /\ call'[s] = call[s]
  BY DEF Consistency
<1> QED BY <1>1 DEF CallConsistent

\* A call moves on and keeps its operation and invoice.
MovesTo(r, pc) ==
  /\ \A s \in Call \ {r} : call'[s] = call[s]
  /\ call'[r].pc = pc
  /\ call'[r].op = call[r].op
  /\ call'[r].invoice = call[r].invoice
  /\ call'[r].fresh = call[r].fresh

LEMMA MoveConsistent ==
  ASSUME Consistency, NEW r \in Call, NEW pc \in PCs, used \subseteq used',
         MovesTo(r, pc),
         pc \in OpPCs => call[r].op \in used,
         pc \in InvoicePCs => call[r].invoice # NoInvoice,
         pc # "reconcile",
         pc \in {"prepare", "create"} /\ call[r].fresh => call[r].invoice = NoInvoice,
         pc = "abandon" => call[r].invoice = NoInvoice
  PROVE  \A s \in Call : CallConsistent(s)'
<1>1. CallConsistent(r)
  BY DEF Consistency
<1>2. CallConsistent(r)'
  BY <1>1 DEF CallConsistent, MovesTo
<1> QED BY <1>2, OthersConsistent DEF MovesTo

LEMMA GotoMoves ==
  ASSUME TypeOK, NEW r \in Call, NEW pc, Goto(r, pc)
  PROVE  MovesTo(r, pc)
BY DEF TypeOK, Goto, CallState, MovesTo

\* A call returns.
LEMMA ReturnConsistent ==
  ASSUME Consistency, NEW r \in Call, used \subseteq used', NEW c,
         call' = [call EXCEPT ![r] = Answer(c)]
  PROVE  \A s \in Call : CallConsistent(s)'
<1>1. /\ call'[r].pc = "idle" /\ call'[r].invoice = NoInvoice
      /\ \A s \in Call \ {r} : call'[s] = call[s]
  BY DEF Consistency, TypeOK, Answer, IdleCall
<1>2. CallConsistent(r)'
  BY <1>1 DEF CallConsistent, OpPCs, InvoicePCs
<1> QED BY <1>1, <1>2, OthersConsistent

\* What the first steps of a call do to its operation and invoice.
LEMMA StartFields ==
  ASSUME TypeOK, NEW r \in Call, Start(r)
  PROVE  /\ call'[r].pc = "debit" /\ call'[r].invoice = NoInvoice
         /\ \A s \in Call \ {r} : call'[s] = call[s]
<1> DEFINE p == wallet.op # NoOp
<1>1. \E amount \in Amounts :
        call' = [call EXCEPT ![r] =
                   [IdleCall EXCEPT !.pc = "debit", !.want = amount,
                                    !.pending = p,
                                    !.armed = wallet.enabled,
                                    !.floor = wallet.threshold]]
  BY DEF Start
<1> HIDE DEF p
<1> QED BY <1>1 DEF TypeOK, IdleCall

LEMMA DebitFields ==
  ASSUME TypeOK, NEW r \in Call
  PROVE  /\ Debited(call[r].want).op = wallet.op
         /\ Debited(call[r].want).invoice = wallet.invoice
         /\ Debited(call[r].want).executor = wallet.executor
         /\ AfterDebit(r).invoice = call[r].invoice
         /\ AfterDebit(r).op = call[r].op
BY DEF Debited, AfterDebit, TypeOK, Wallet, CallState

LEMMA FirstDebitFields ==
  ASSUME TypeOK, NEW r \in Call, FirstDebit(r),
         call' # [call EXCEPT ![r] = Answer(AfterDebit(r))]
  PROVE  /\ call'[r].pc = "claim" /\ call'[r].invoice = call[r].invoice
         /\ call'[r].op = call[r].op
         /\ \A s \in Call \ {r} : call'[s] = call[s]
<1> DEFINE needs == wallet.balance < call[r].want
           low == /\ Debitable(call[r].want)
                  /\ wallet.balance - call[r].want <= call[r].floor
<1>1. call' = [call EXCEPT ![r] =
                [AfterDebit(r) EXCEPT !.pc = "claim", !.needs = needs,
                   !.low = low, !.pending = FALSE, !.armed = FALSE,
                   !.floor = 0]]
  BY DEF FirstDebit
<1> HIDE DEF needs, low
<1>2. AfterDebit(r) \in CallState
  BY DebitType
<1> QED BY <1>1, <1>2, DebitFields DEF TypeOK, CallState

LEMMA ClaimNewFields ==
  ASSUME TypeOK, NEW r \in Call, ClaimNew(r)
  PROVE  \E o \in Op \ used :
           /\ used' = used \cup {o}
           /\ wallet'.op = o
           /\ wallet'.executor = r
           /\ wallet'.invoice = NoInvoice
           /\ call'[r].pc \in {"prepare", "release"}
           /\ call'[r].op = o
           /\ call'[r].invoice = NoInvoice
           /\ \A s \in Call \ {r} : call'[s] = call[s]
<1> DEFINE due == call[r].needs \/ call[r].low
           cents == Evaluation(r).cents
<1>1. PICK o \in Op \ used :
        /\ used' = used \cup {o}
        /\ wallet' = [wallet EXCEPT !.op = o, !.executor = r,
                                    !.leased = TRUE, !.cents = cents,
                                    !.invoice = NoInvoice]
        /\ call' = [call EXCEPT ![r] =
             [@ EXCEPT !.pc = IF due THEN "prepare" ELSE "release",
                       !.op = o, !.fresh = TRUE, !.cents = cents,
                       !.invoice = NoInvoice, !.mayPay = due]]
  BY DEF ClaimNew
<1> HIDE DEF due, cents
<1>2. /\ wallet'.op = o
      /\ wallet'.executor = r
      /\ wallet'.invoice = NoInvoice
      /\ call'[r].pc \in {"prepare", "release"}
      /\ call'[r].op = o
      /\ call'[r].invoice = NoInvoice
      /\ \A s \in Call \ {r} : call'[s] = call[s]
  BY <1>1 DEF TypeOK, Wallet, CallState
<1> QED BY <1>1, <1>2

LEMMA ClaimExpiredFields ==
  ASSUME TypeOK, NEW r \in Call, ClaimExpired(r)
  PROVE  /\ used' = used
         /\ wallet'.op = wallet.op /\ wallet'.invoice = wallet.invoice
         /\ wallet'.executor = r
         /\ call'[r].pc \in {"reconcile", "prepare", "release"}
         /\ call'[r].pc = "reconcile" => wallet.invoice # NoInvoice
         /\ call'[r].pc # "reconcile" => wallet.invoice = NoInvoice
         /\ call'[r].op = wallet.op
         /\ call'[r].invoice = wallet.invoice
         /\ call'[r].fresh = FALSE
         /\ wallet.op # NoOp
         /\ \A s \in Call \ {r} : call'[s] = call[s]
<1> DEFINE mayPay == (call[r].needs \/ call[r].low) /\ ResumeAllowed(r)
           pc == IF wallet.invoice # NoInvoice THEN "reconcile"
                 ELSE IF mayPay THEN "prepare" ELSE "release"
<1>1. /\ wallet' = [wallet EXCEPT !.executor = r, !.leased = TRUE]
      /\ call' = [call EXCEPT ![r] =
           [@ EXCEPT !.pc = pc, !.op = wallet.op, !.fresh = FALSE,
                     !.cents = wallet.cents, !.invoice = wallet.invoice,
                     !.mayPay = mayPay]]
      /\ wallet.op # NoOp /\ used' = used
  BY DEF ClaimExpired
<1>2. /\ pc \in {"reconcile", "prepare", "release"}
      /\ pc = "reconcile" => wallet.invoice # NoInvoice
      /\ pc # "reconcile" => wallet.invoice = NoInvoice
  OBVIOUS
<1> HIDE DEF mayPay, pc
<1> QED BY <1>1, <1>2 DEF TypeOK, Wallet, CallState

\* The debits, the claim and the return to the caller.
LEMMA ClaimConsistent ==
  ASSUME Consistency, NEW r \in Call,
         \/ Start(r) \/ FirstDebit(r) \/ ClaimNew(r) \/ ClaimExpired(r)
         \/ ClaimFollow(r) \/ ClaimRefused(r)
  PROVE  RowConsistent' /\ \A s \in Call : CallConsistent(s)'
<1>1. /\ TypeOK /\ RowConsistent /\ CallConsistent(r)
      /\ call[r] \in CallState /\ wallet \in Wallet
  BY DEF Consistency, TypeOK
<1>2. CASE Start(r)
  <2>1. RowConsistent' /\ used' = used
    BY <1>1, <1>2, RowStays DEF Start
  <2>2. CallConsistent(r)'
    BY <1>1, <1>2, StartFields DEF CallConsistent, OpPCs, InvoicePCs
  <2> QED BY <1>1, <1>2, <2>1, <2>2, StartFields, OthersConsistent
<1>3. CASE FirstDebit(r)
  <2>1. /\ wallet'.op = wallet.op /\ wallet'.invoice = wallet.invoice
        /\ used' = used
    BY <1>1, <1>3, DebitFields DEF FirstDebit
  <2>2. RowConsistent'
    BY <1>1, <2>1, RowStays
  <2>3. CASE call' = [call EXCEPT ![r] = Answer(AfterDebit(r))]
    BY <2>1, <2>2, <2>3, ReturnConsistent
  <2>4. CASE call' # [call EXCEPT ![r] = Answer(AfterDebit(r))]
    <3>1. CallConsistent(r)'
      BY <1>1, <1>3, <2>4, FirstDebitFields
         DEF CallConsistent, OpPCs, InvoicePCs
    <3> QED BY <1>1, <1>3, <2>1, <2>2, <2>4, <3>1, FirstDebitFields,
               OthersConsistent
  <2> QED BY <2>3, <2>4
<1>4. CASE ClaimNew(r)
  <2>1. PICK o \in Op \ used :
          /\ used' = used \cup {o}
          /\ wallet'.op = o
          /\ wallet'.invoice = NoInvoice
          /\ call'[r].pc \in {"prepare", "release"}
          /\ call'[r].op = o
          /\ call'[r].invoice = NoInvoice
          /\ \A s \in Call \ {r} : call'[s] = call[s]
    BY <1>1, <1>4, ClaimNewFields
  <2>2. RowConsistent'
    BY <2>1 DEF RowConsistent
  <2>3. CallConsistent(r)'
    BY <2>1 DEF CallConsistent, OpPCs, InvoicePCs
  <2> QED BY <2>1, <2>2, <2>3, OthersConsistent
<1>5. CASE ClaimExpired(r)
  <2>1. RowConsistent'
    BY <1>1, <1>5, ClaimExpiredFields, RowStays
  <2>2. CallConsistent(r)'
    <3>1. /\ call'[r].pc \in {"reconcile", "prepare", "release"}
          /\ call'[r].pc = "reconcile" => call'[r].invoice # NoInvoice
          /\ call'[r].op = wallet.op /\ call'[r].invoice = wallet.invoice
          /\ wallet.op # NoOp /\ used' = used
          /\ call'[r].fresh = FALSE
      BY <1>1, <1>5, ClaimExpiredFields
    <3>2. /\ call'[r].op \in used'
          /\ call'[r].invoice # NoInvoice => call'[r].invoice[1] = call'[r].op
      BY <1>1, <3>1 DEF RowConsistent
    <3> QED BY <3>1, <3>2 DEF CallConsistent, InvoicePCs
  <2> QED BY <1>1, <1>5, <2>1, <2>2, ClaimExpiredFields, OthersConsistent
<1>6. CASE ClaimFollow(r)
  <2>1. RowConsistent' /\ used' = used
    BY <1>1, <1>6, RowStays DEF ClaimFollow
  <2>2. CASE Return(r)
    BY <2>1, <2>2, ReturnConsistent DEF Return
  <2>3. CASE call' = [call EXCEPT ![r].polls = @ + 1]
    <3>1. /\ call'[r].pc = call[r].pc /\ call'[r].invoice = call[r].invoice
          /\ call'[r].op = call[r].op /\ call'[r].fresh = call[r].fresh
          /\ \A s \in Call \ {r} : call'[s] = call[s]
      BY <1>1, <2>3 DEF TypeOK, CallState
    <3>2. CallConsistent(r)'
      BY <1>1, <2>1, <3>1 DEF CallConsistent
    <3> QED BY <2>1, <3>1, <3>2, OthersConsistent
  <2> QED BY <1>6, <2>1, <2>2, <2>3 DEF ClaimFollow
<1>7. CASE ClaimRefused(r)
  <2>1. RowConsistent' /\ used' = used
    BY <1>1, <1>7, RowStays DEF ClaimRefused
  <2>2. CASE Return(r)
    BY <2>1, <2>2, ReturnConsistent DEF Return
  <2>3. CASE Goto(r, "debitCovered")
    <3>1. "debitCovered" \in PCs \ (OpPCs \cup InvoicePCs)
      BY DEF PCs, OpPCs, InvoicePCs
    <3>2. MovesTo(r, "debitCovered")
      BY <1>1, <2>3, GotoMoves
    <3> QED BY <2>1, <3>1, <3>2, MoveConsistent
  <2> QED BY <1>7, <2>1, <2>2, <2>3 DEF ClaimRefused
<1> QED BY <1>2, <1>3, <1>4, <1>5, <1>6, <1>7

\* Where the steps that look something up go, and on which status.
LEMMA LookupMoves ==
  ASSUME TypeOK, NEW r \in Call
  PROVE  LET s == status[call[r].invoice]
         IN  /\ Reconcile(r) =>
                  \/ MovesTo(r, "credit") /\ s = "paid"
                  \/ MovesTo(r, "release") /\ s \in {"deleted", "void"}
                  \/ MovesTo(r, "prepare")
                  \/ MovesTo(r, "retire")
                  \/ MovesTo(r, "releaseExecutor")
             /\ Recheck(r) =>
                  \/ MovesTo(r, "credit") /\ s = "paid"
                  \/ MovesTo(r, "release") /\ s \in {"deleted", "void"}
                  \/ MovesTo(r, "releaseExecutor")
             /\ Prepare(r) =>
                  MovesTo(r, "create") \/ MovesTo(r, PreChargeExit(r))
             /\ Retrieve(r) =>
                  \/ MovesTo(r, "item")
                  \/ MovesTo(r, "pay")
                  \/ MovesTo(r, "credit") /\ s = "paid"
                  \/ MovesTo(r, "fail") /\ s = "void"
                  \/ MovesTo(r, PreChargeExit(r))
                  \/ MovesTo(r, "releaseExecutor")
<1> DEFINE s == status[call[r].invoice]
<1>1. ASSUME NEW pc, NEW v, call' = [call EXCEPT ![r].view = v, ![r].pc = pc]
      PROVE  MovesTo(r, pc)
  BY <1>1 DEF TypeOK, CallState, MovesTo
<1>2. ASSUME NEW pc, Goto(r, pc)
      PROVE  MovesTo(r, pc)
  BY <1>2, GotoMoves
<1>3. ASSUME Reconcile(r), ~Goto(r, "releaseExecutor")
      PROVE  \/ MovesTo(r, "credit") /\ s = "paid"
             \/ MovesTo(r, "release") /\ s \in {"deleted", "void"}
             \/ MovesTo(r, "prepare")
             \/ MovesTo(r, "retire")
  <2> DEFINE pc == IF s = "paid" THEN "credit"
                   ELSE IF s \in {"deleted", "void"} THEN "release"
                   ELSE IF call[r].mayPay THEN "prepare"
                   ELSE "retire"
  <2>1. MovesTo(r, pc)
    BY <1>1, <1>3 DEF Reconcile
  <2> QED BY <2>1
<1>4. ASSUME Recheck(r), ~Goto(r, "releaseExecutor")
      PROVE  \/ MovesTo(r, "credit") /\ s = "paid"
             \/ MovesTo(r, "release") /\ s \in {"deleted", "void"}
             \/ MovesTo(r, "releaseExecutor")
  <2> DEFINE pc == IF s = "paid" THEN "credit"
                   ELSE IF s \in {"deleted", "void"} THEN "release"
                   ELSE "releaseExecutor"
  <2>1. MovesTo(r, pc)
    BY <1>2, <1>4 DEF Recheck
  <2> QED BY <2>1
<1>5. ASSUME Retrieve(r), ~Goto(r, "releaseExecutor")
      PROVE  \/ MovesTo(r, "item")
             \/ MovesTo(r, "pay")
             \/ MovesTo(r, "credit") /\ s = "paid"
             \/ MovesTo(r, "fail") /\ s = "void"
             \/ MovesTo(r, PreChargeExit(r))
  <2> DEFINE pc == IF s = "draft" THEN "item"
                   ELSE IF s = "open" THEN "pay"
                   ELSE IF s = "paid" THEN "credit"
                   ELSE IF s = "void" THEN "fail"
                   ELSE PreChargeExit(r)
  <2>1. MovesTo(r, pc)
    BY <1>1, <1>5 DEF Retrieve
  <2> QED BY <2>1
<1>6. Prepare(r) => MovesTo(r, "create") \/ MovesTo(r, PreChargeExit(r))
  BY <1>2 DEF Prepare
<1> QED BY <1>2, <1>3, <1>4, <1>5, <1>6

LEMMA LookupConsistent ==
  ASSUME Consistency, NEW r \in Call,
         Reconcile(r) \/ Recheck(r) \/ Prepare(r) \/ Retrieve(r)
  PROVE  RowConsistent' /\ \A s \in Call : CallConsistent(s)'
<1>1. TypeOK /\ RowConsistent /\ CallConsistent(r)
  BY DEF Consistency
<1>2. /\ call[r].pc \in {"reconcile", "recheck", "prepare", "create"}
      /\ call[r].pc \in {"reconcile", "recheck"} => call[r].invoice # NoInvoice
      /\ call[r].op \in used
      /\ Retrieve(r) => call[r].invoice # NoInvoice
      /\ UNCHANGED <<wallet, used>>
  BY <1>1 DEF Reconcile, Recheck, Prepare, Retrieve, CallConsistent, OpPCs,
              PCs, InvoicePCs
<1>3. RowConsistent'
  BY <1>1, <1>2, RowStays
<1>4. {"credit", "release", "prepare", "retire", "releaseExecutor", "create",
       "item", "pay", "fail", "abandon"} \subseteq PCs
  BY DEF PCs
<1>5. {"release", "prepare", "releaseExecutor", "create", "abandon"}
        \cap InvoicePCs = {}
  BY DEF InvoicePCs
<1>6. CASE call[r].pc = "reconcile"
  <2>1. Reconcile(r) /\ ~call[r].fresh /\ call[r].invoice # NoInvoice
    BY <1>1, <1>2, <1>6 DEF Recheck, Prepare, Retrieve, CallConsistent
  <2>2. \E pc \in {"credit", "release", "prepare", "retire", "releaseExecutor"} :
          MovesTo(r, pc)
    BY <1>1, <2>1, LookupMoves
  <2> QED BY <1>2, <1>3, <1>4, <2>1, <2>2, MoveConsistent
<1>7. CASE call[r].pc = "recheck"
  <2>1. \E pc \in {"credit", "release", "releaseExecutor"} : MovesTo(r, pc)
    BY <1>1, <1>7, LookupMoves DEF Reconcile, Prepare, Retrieve
  <2> QED BY <1>2, <1>3, <1>4, <1>7, <2>1, MoveConsistent
<1>8. CASE call[r].pc \in {"prepare", "create"}
  <2>1. call[r].fresh => call[r].invoice = NoInvoice
    BY <1>1, <1>8 DEF CallConsistent
  <2>2. CASE Prepare(r)
    <3>1. \/ MovesTo(r, "create")
          \/ MovesTo(r, "abandon") /\ call[r].fresh
          \/ MovesTo(r, "releaseExecutor")
      BY <1>1, <2>2, LookupMoves DEF PreChargeExit
    <3> QED BY <1>2, <1>3, <1>4, <1>5, <2>1, <3>1, MoveConsistent
  <2>3. CASE Retrieve(r)
    <3>1. \E pc \in {"item", "pay", "credit", "fail", "releaseExecutor"} :
            MovesTo(r, pc)
      BY <1>1, <1>2, <2>1, <2>3, LookupMoves DEF PreChargeExit
    <3> QED BY <1>2, <1>3, <1>4, <2>3, <3>1, MoveConsistent
  <2> QED BY <1>8, <2>2, <2>3 DEF Reconcile, Recheck
<1> QED BY <1>2, <1>6, <1>7, <1>8

\* The steps that post to Stripe: what they ask for and where they go.
LEMMA PostMoves ==
  ASSUME TypeOK, NEW r \in Call
  PROVE  LET i == call[r].invoice
             cents == call[r].cents
         IN  /\ Retire(r) =>
                  \E kind \in {"delete", "void"} :
                    \/ /\ Effect(kind, i, 0) /\ UNCHANGED late
                       /\ \/ /\ MovesTo(r, "release")
                             /\ kind = "delete" => status[i] \in {"draft", "deleted"}
                             /\ kind = "void" => status[i] = "open"
                          \/ MovesTo(r, "recheck")
                    \/ Unanswered(kind, i, 0) /\ MovesTo(r, "recheck")
             /\ AddItem(r) =>
                  \/ /\ Effect("item", i, cents) /\ UNCHANGED late
                     /\ MovesTo(r, "finalize") \/ MovesTo(r, "releaseExecutor")
                  \/ Unanswered("item", i, cents) /\ MovesTo(r, "releaseExecutor")
             /\ Finalize(r) =>
                  \/ /\ Effect("finalize", i, 0) /\ UNCHANGED late
                     /\ MovesTo(r, "pay") \/ MovesTo(r, "releaseExecutor")
                  \/ Unanswered("finalize", i, 0) /\ MovesTo(r, "releaseExecutor")
             /\ Pay(r) =>
                  \/ /\ Effect("pay", i, 0) /\ UNCHANGED late
                     /\ \/ MovesTo(r, "credit") /\ keys'[i[1]].pay = "paid"
                        \/ MovesTo(r, "voidDeclined")
                        \/ MovesTo(r, "fail") /\ keys'[i[1]].pay = "open"
                        \/ MovesTo(r, "releaseExecutor")
                  \/ Unanswered("pay", i, 0) /\ MovesTo(r, "releaseExecutor")
             /\ VoidDeclined(r) =>
                  \/ /\ Effect("void", i, 0) /\ UNCHANGED late
                     /\ \/ MovesTo(r, "fail") /\ status[i] \in {"open", "void"}
                        \/ MovesTo(r, "releaseExecutor")
                  \/ Unanswered("void", i, 0) /\ MovesTo(r, "releaseExecutor")
<1> DEFINE i == call[r].invoice
           cents == call[r].cents
<1>1. ASSUME NEW pc, Goto(r, pc) PROVE MovesTo(r, pc)
  BY <1>1, GotoMoves
<1>2. ASSUME Retire(r)
      PROVE  \E kind \in {"delete", "void"} :
               \/ /\ Effect(kind, i, 0) /\ UNCHANGED late
                  /\ \/ /\ MovesTo(r, "release")
                        /\ kind = "delete" => status[i] \in {"draft", "deleted"}
                        /\ kind = "void" => status[i] = "open"
                     \/ MovesTo(r, "recheck")
               \/ Unanswered(kind, i, 0) /\ MovesTo(r, "recheck")
  <2> DEFINE kind == IF call[r].view = "draft" THEN "delete" ELSE "void"
             done == \/ kind = "delete" /\ status[i] \in {"draft", "deleted"}
                     \/ kind = "void" /\ status[i] = "open"
  <2>1. kind \in {"delete", "void"}
    OBVIOUS
  <2>2. CASE Unanswered(kind, i, 0) /\ Goto(r, "recheck")
    BY <1>1, <2>1, <2>2
  <2>3. CASE /\ Effect(kind, i, 0) /\ UNCHANGED late
             /\ Goto(r, IF done THEN "release" ELSE "recheck")
    <3>1. MovesTo(r, IF done THEN "release" ELSE "recheck")
      BY <1>1, <2>3
    <3> QED BY <2>1, <2>3, <3>1
  <2> QED BY <1>2, <2>2, <2>3 DEF Retire
<1>3. ASSUME AddItem(r)
      PROVE  \/ /\ Effect("item", i, cents) /\ UNCHANGED late
                /\ MovesTo(r, "finalize") \/ MovesTo(r, "releaseExecutor")
             \/ Unanswered("item", i, cents) /\ MovesTo(r, "releaseExecutor")
  BY <1>1, <1>3 DEF AddItem, Effect
<1>4. ASSUME Finalize(r)
      PROVE  \/ /\ Effect("finalize", i, 0) /\ UNCHANGED late
                /\ MovesTo(r, "pay") \/ MovesTo(r, "releaseExecutor")
             \/ Unanswered("finalize", i, 0) /\ MovesTo(r, "releaseExecutor")
  <2>1. ASSUME NEW pc, call' = [call EXCEPT ![r].view = "open", ![r].pc = pc]
        PROVE  MovesTo(r, pc)
    BY <2>1 DEF TypeOK, CallState, MovesTo
  <2> QED BY <1>1, <1>4, <2>1 DEF Finalize, Effect
<1>5. ASSUME Pay(r)
      PROVE  \/ /\ Effect("pay", i, 0) /\ UNCHANGED late
                /\ \/ MovesTo(r, "credit") /\ keys'[i[1]].pay = "paid"
                   \/ MovesTo(r, "voidDeclined")
                   \/ MovesTo(r, "fail") /\ keys'[i[1]].pay = "open"
                   \/ MovesTo(r, "releaseExecutor")
             \/ Unanswered("pay", i, 0) /\ MovesTo(r, "releaseExecutor")
  <2>1. CASE Unanswered("pay", i, 0) /\ Goto(r, "releaseExecutor")
    BY <1>1, <2>1
  <2>2. CASE /\ PayEffect(i) /\ UNCHANGED late
             /\ Goto(r, AfterPayment(keys'[i[1]].pay))
    <3> DEFINE a == keys'[i[1]].pay
    <3>1. MovesTo(r, AfterPayment(a))
      BY <1>1, <2>2
    <3> HIDE DEF a
    <3>2. \/ AfterPayment(a) = "credit" /\ a = "paid"
          \/ AfterPayment(a) = "voidDeclined"
          \/ AfterPayment(a) = "fail" /\ a = "open"
          \/ AfterPayment(a) = "releaseExecutor"
      BY DEF AfterPayment
    <3>3. Effect("pay", i, 0)
      BY <2>2 DEF Effect
    <3> QED BY <2>2, <3>1, <3>2, <3>3 DEF a
  <2> QED BY <1>5, <2>1, <2>2 DEF Pay
<1>6. ASSUME VoidDeclined(r)
      PROVE  \/ /\ Effect("void", i, 0) /\ UNCHANGED late
                /\ \/ MovesTo(r, "fail") /\ status[i] \in {"open", "void"}
                   \/ MovesTo(r, "releaseExecutor")
             \/ Unanswered("void", i, 0) /\ MovesTo(r, "releaseExecutor")
  BY <1>1, <1>6 DEF VoidDeclined, Effect
<1> QED BY <1>2, <1>3, <1>4, <1>5, <1>6

LEMMA PostConsistent ==
  ASSUME Consistency, NEW r \in Call,
         \/ Retire(r) \/ AddItem(r) \/ Finalize(r) \/ Pay(r) \/ VoidDeclined(r)
  PROVE  RowConsistent' /\ \A s \in Call : CallConsistent(s)'
<1>1. TypeOK /\ RowConsistent /\ CallConsistent(r)
  BY DEF Consistency
<1>2. /\ call[r].pc \in {"retire", "item", "finalize", "pay", "voidDeclined"}
      /\ UNCHANGED <<wallet, used>>
  BY DEF Retire, AddItem, Finalize, Pay, VoidDeclined
<1>3. call[r].invoice # NoInvoice /\ call[r].op \in used
  BY <1>1, <1>2 DEF CallConsistent, OpPCs, InvoicePCs, PCs
<1>4. \E pc \in {"release", "recheck", "finalize", "releaseExecutor", "pay",
                 "credit", "voidDeclined", "fail"} : MovesTo(r, pc)
  BY <1>1, PostMoves
<1>5. {"release", "recheck", "finalize", "releaseExecutor", "pay",
       "credit", "voidDeclined", "fail"} \subseteq PCs
  BY DEF PCs
<1>6. RowConsistent'
  BY <1>1, <1>2, RowStays
<1> QED BY <1>2, <1>3, <1>4, <1>5, <1>6, MoveConsistent

\* Creation gives the call its invoice, or fails.
LEMMA CreateMoves ==
  ASSUME TypeOK, NEW r \in Call, Create(r)
  PROVE  \/ \E n \in InvoiceNo :
              /\ Effect("create", <<call[r].op, n>>, 0) /\ UNCHANGED late
              /\ call'[r].pc = "record"
              /\ call'[r].op = call[r].op
              /\ call'[r].invoice = <<call[r].op, n>>
              /\ \A s \in Call \ {r} : call'[s] = call[s]
         \/ \E n \in InvoiceNo :
              /\ Unanswered("create", <<call[r].op, n>>, 0)
              /\ MovesTo(r, "releaseExecutor")
         \/ /\ UNCHANGED <<status, billed, keys, late>>
            /\ MovesTo(r, PreChargeExit(r))
<1> DEFINE o == call[r].op
<1>1. ASSUME NEW pc, Goto(r, pc) PROVE MovesTo(r, pc)
  BY <1>1, GotoMoves
<1>2. ASSUME NEW n \in InvoiceNo, CreateEffect(<<o, n>>), UNCHANGED late,
             call' = [call EXCEPT ![r].pc = "record", ![r].invoice = <<o, n>>,
                                  ![r].view = "draft"]
      PROVE  /\ Effect("create", <<o, n>>, 0) /\ UNCHANGED late
             /\ call'[r].pc = "record"
             /\ call'[r].op = o
             /\ call'[r].invoice = <<o, n>>
             /\ \A s \in Call \ {r} : call'[s] = call[s]
  BY <1>2 DEF Effect, TypeOK, CallState
<1> QED BY <1>1, <1>2 DEF Create

LEMMA CreateConsistent ==
  ASSUME Consistency, NEW r \in Call, Create(r)
  PROVE  RowConsistent' /\ \A s \in Call : CallConsistent(s)'
<1>1. /\ TypeOK /\ RowConsistent /\ CallConsistent(r)
      /\ call[r].pc = "create" /\ call[r].invoice = NoInvoice
      /\ UNCHANGED <<wallet, used>>
  BY DEF Consistency, Create
<1>2. call[r].op \in used /\ used \subseteq Op
  BY <1>1 DEF CallConsistent, OpPCs, PCs, TypeOK
<1>3. RowConsistent'
  BY <1>1, RowStays
<1>4. CASE \E n \in InvoiceNo :
             /\ call'[r].pc = "record"
             /\ call'[r].op = call[r].op
             /\ call'[r].invoice = <<call[r].op, n>>
             /\ \A s \in Call \ {r} : call'[s] = call[s]
  <2>1. PICK n \in InvoiceNo :
             /\ call'[r].pc = "record"
             /\ call'[r].op = call[r].op
             /\ call'[r].invoice = <<call[r].op, n>>
             /\ \A s \in Call \ {r} : call'[s] = call[s]
    BY <1>4
  <2>2. <<call[r].op, n>> # NoInvoice
    BY <1>2, ConstantAssumption DEF Invoice
  <2>3. CallConsistent(r)'
    BY <1>1, <1>2, <2>1, <2>2 DEF CallConsistent
  <2> QED BY <1>1, <1>3, <2>1, <2>3, OthersConsistent
<1>5. CASE MovesTo(r, "releaseExecutor") \/ MovesTo(r, "abandon")
  <2>1. /\ {"releaseExecutor", "abandon"} \subseteq PCs
        /\ {"releaseExecutor", "abandon"} \cap InvoicePCs = {}
    BY DEF PCs, InvoicePCs
  <2> QED BY <1>1, <1>2, <1>3, <1>5, <2>1, MoveConsistent
<1> QED BY <1>1, <1>4, <1>5, CreateMoves DEF PreChargeExit

\* The steps on the row after the claim: the row keeps its operation, gets its
\* invoice, loses its executor or is cleared; the call goes on or leaves.
RowKept == /\ wallet'.op = wallet.op
           /\ wallet'.executor = wallet.executor
           /\ wallet'.invoice = wallet.invoice

RowCleared == /\ wallet'.op = NoOp
              /\ wallet'.executor = NoCall
              /\ wallet'.invoice = NoInvoice

Leaves(r) ==
  /\ \A s \in Call \ {r} : call'[s] = call[s]
  /\ call'[r].pc \in {"idle", "claim", "countSuccess", "countFailure",
                      "debitFunded"}
  /\ \/ call'[r].invoice = NoInvoice
     \/ call'[r].invoice = call[r].invoice /\ call'[r].op = call[r].op

LEMMA LeaveConsistent ==
  ASSUME Consistency, NEW r \in Call, used \subseteq used', Leaves(r)
  PROVE  \A s \in Call : CallConsistent(s)'
<1>1. CallConsistent(r)
  BY DEF Consistency
<1>2. CallConsistent(r)'
  BY <1>1 DEF CallConsistent, Leaves, OpPCs, InvoicePCs
<1> QED BY <1>2, OthersConsistent DEF Leaves

LEMMA GotoLeaves ==
  ASSUME TypeOK, NEW r \in Call,
         NEW pc \in {"countSuccess", "countFailure", "debitFunded"}, Goto(r, pc)
  PROVE  Leaves(r)
BY DEF TypeOK, CallState, Goto, Leaves

LEMMA JumpLeaves ==
  ASSUME TypeOK, NEW r \in Call, NEW c, call' = [call EXCEPT ![r] = c],
         c.pc \in {"idle", "claim"}, c.invoice = NoInvoice
  PROVE  Leaves(r)
BY DEF TypeOK, Leaves

LEMMA AnswerLeaves ==
  ASSUME TypeOK, NEW r \in Call, NEW c, call' = [call EXCEPT ![r] = Answer(c)]
  PROVE  Leaves(r)
<1>1. Answer(c).pc = "idle" /\ Answer(c).invoice = NoInvoice
  BY DEF Answer, IdleCall
<1> QED BY <1>1, JumpLeaves

LEMMA ReturnLeaves ==
  ASSUME TypeOK, NEW r \in Call,
         \/ Return(r)
         \/ call' = [call EXCEPT ![r] = IdleCall]
         \/ call' = [call EXCEPT ![r] = NextAttempt(r)]
  PROVE  Leaves(r)
<1>1. CASE Return(r)
  BY <1>1, AnswerLeaves DEF Return
<1>2. CASE call' = [call EXCEPT ![r] = IdleCall]
  <2>1. IdleCall.pc = "idle" /\ IdleCall.invoice = NoInvoice
    BY DEF IdleCall
  <2> QED BY <1>2, <2>1, JumpLeaves
<1>3. CASE call' = [call EXCEPT ![r] = NextAttempt(r)]
  <2>1. NextAttempt(r).pc = "claim" /\ NextAttempt(r).invoice = NoInvoice
    BY DEF NextAttempt, TypeOK, CallState
  <2> QED BY <1>3, <2>1, JumpLeaves
<1> QED BY <1>1, <1>2, <1>3

LEMMA ClearingMoves ==
  ASSUME TypeOK, NEW r \in Call,
         Complete(r) \/ Fail(r) \/ Release(r) \/ Abandon(r)
  PROVE  /\ Leaves(r)
         /\ Owns(r) => RowCleared
         /\ ~Owns(r) => RowKept
<1>1. Leaves(r)
  BY GotoLeaves, ReturnLeaves DEF Complete, Fail, Release, Abandon
<1>2. ASSUME NEW b \in BOOLEAN
      PROVE  LET w == [Cleared EXCEPT !.cooling = b]
             IN  w.op = NoOp /\ w.executor = NoCall /\ w.invoice = NoInvoice
  BY DEF TypeOK, Wallet, Cleared
<1>3. Cleared.op = NoOp /\ Cleared.executor = NoCall /\ Cleared.invoice = NoInvoice
  BY DEF TypeOK, Wallet, Cleared
<1>4. ASSUME Owns(r) PROVE RowCleared
  <2>1. wallet' = Cleared \/ \E b \in BOOLEAN : wallet' = [Cleared EXCEPT !.cooling = b]
    BY <1>4 DEF Complete, Fail, Release, Abandon
  <2> QED BY <1>2, <1>3, <2>1 DEF RowCleared
<1>5. ASSUME ~Owns(r) PROVE RowKept
  <2>1. wallet' = wallet
    BY <1>5 DEF Complete, Fail, Release, Abandon
  <2> QED BY <2>1 DEF RowKept
<1> QED BY <1>1, <1>4, <1>5

LEMMA KeepingMoves ==
  ASSUME TypeOK, NEW r \in Call,
         \/ CountSuccess(r) \/ CountFailure(r) \/ DebitFunded(r)
         \/ DebitCovered(r) \/ Crash(r)
  PROVE  Leaves(r) /\ RowKept
<1>1. CASE CountSuccess(r)
  <2>1. RowKept
    BY <1>1 DEF CountSuccess, RowKept, TypeOK, Wallet
  <2> QED BY <1>1, <2>1, GotoLeaves, ReturnLeaves DEF CountSuccess
<1>2. CASE CountFailure(r)
  <2> DEFINE on == wallet.enabled /\ wallet.failures + 1 < MaxFailures
  <2>1. \/ wallet' = [wallet EXCEPT !.failures = wallet.failures + 1,
                                    !.enabled = on]
        \/ wallet' = wallet
    BY <1>2 DEF CountFailure
  <2> HIDE DEF on
  <2>2. RowKept
    BY <2>1 DEF RowKept, TypeOK, Wallet
  <2> QED BY <1>2, <2>2, ReturnLeaves DEF CountFailure
<1>3. CASE DebitFunded(r)
  BY <1>3, DebitFields, AnswerLeaves, ReturnLeaves DEF DebitFunded, RowKept
<1>4. CASE DebitCovered(r)
  BY <1>4, DebitFields, AnswerLeaves DEF DebitCovered, RowKept
<1>5. CASE Crash(r)
  BY <1>5, ReturnLeaves DEF Crash, RowKept
<1> QED BY <1>1, <1>2, <1>3, <1>4, <1>5

LEMMA CreditMoves ==
  ASSUME TypeOK, NEW r \in Call, Credit(r)
  PROVE  RowKept /\ MovesTo(r, "complete") /\ used' = used
<1>1. RowKept
  BY DEF Credit, RowKept, TypeOK, Wallet
<1> QED BY <1>1, GotoMoves DEF Credit

LEMMA RecordMoves ==
  ASSUME TypeOK, NEW r \in Call, Record(r)
  PROVE  \/ /\ Owns(r)
            /\ wallet'.op = wallet.op
            /\ wallet'.executor = wallet.executor
            /\ wallet'.invoice = call[r].invoice
            /\ MovesTo(r, "item")
         \/ RowKept /\ MovesTo(r, "releaseExecutor")
<1>1. CASE Owns(r)
  BY <1>1, GotoMoves DEF Record, TypeOK, Wallet
<1>2. CASE ~Owns(r)
  BY <1>2, GotoMoves DEF Record, RowKept
<1> QED BY <1>1, <1>2

LEMMA ReleaseExecutorMoves ==
  ASSUME TypeOK, NEW r \in Call, ReleaseExecutor(r)
  PROVE  /\ wallet'.op = wallet.op
         /\ wallet'.invoice = wallet.invoice
         /\ wallet'.executor \in {wallet.executor, NoCall}
         /\ Leaves(r)
<1>1. Leaves(r)
  BY ReturnLeaves DEF ReleaseExecutor
<1>2. CASE Owns(r)
  BY <1>1, <1>2 DEF ReleaseExecutor, TypeOK, Wallet
<1>3. CASE ~Owns(r)
  BY <1>1, <1>3 DEF ReleaseExecutor
<1> QED BY <1>2, <1>3

LEMMA RowStepConsistent ==
  ASSUME Consistency, NEW r \in Call,
         \/ Record(r) \/ Credit(r) \/ Complete(r) \/ CountSuccess(r) \/ Fail(r)
         \/ CountFailure(r) \/ Release(r) \/ Abandon(r) \/ ReleaseExecutor(r)
         \/ MutationThrows(r) \/ DebitFunded(r) \/ DebitCovered(r) \/ Crash(r)
  PROVE  RowConsistent' /\ \A s \in Call : CallConsistent(s)'
<1>1. TypeOK /\ RowConsistent /\ CallConsistent(r)
  BY DEF Consistency
<1>2. used' = used
  BY DEF Record, Credit, Complete, CountSuccess, Fail, CountFailure, Release,
         Abandon, ReleaseExecutor, MutationThrows, DebitFunded, DebitCovered,
         Crash
<1>3. RowKept => RowConsistent'
  BY <1>1, <1>2, RowStays DEF RowKept
<1>4. RowCleared => RowConsistent'
  BY ConstantAssumption DEF RowCleared, RowConsistent
<1>5. Leaves(r) => \A s \in Call : CallConsistent(s)'
  BY <1>2, LeaveConsistent
<1>6. CASE Complete(r) \/ Fail(r) \/ Release(r) \/ Abandon(r)
  BY <1>1, <1>3, <1>4, <1>5, <1>6, ClearingMoves
<1>7. CASE \/ CountSuccess(r) \/ CountFailure(r) \/ DebitFunded(r)
           \/ DebitCovered(r) \/ Crash(r)
  BY <1>1, <1>3, <1>5, <1>7, KeepingMoves
<1>8. CASE ReleaseExecutor(r)
  <2>1. RowConsistent'
    BY <1>1, <1>2, <1>8, ReleaseExecutorMoves, RowStays
  <2> QED BY <1>1, <1>5, <1>8, <2>1, ReleaseExecutorMoves
<1>9. {"item", "complete", "releaseExecutor"} \subseteq PCs
  BY DEF PCs
<1>10. CASE Credit(r)
  <2>1. call[r].op \in used /\ call[r].invoice # NoInvoice
    BY <1>1, <1>10 DEF Credit, CallConsistent, OpPCs, InvoicePCs, PCs
  <2> QED BY <1>1, <1>2, <1>3, <1>9, <1>10, <2>1, CreditMoves, MoveConsistent
<1>11. CASE Record(r)
  <2>1. /\ call[r].op \in used /\ call[r].invoice # NoInvoice
        /\ call[r].invoice[1] = call[r].op
    BY <1>1, <1>11 DEF Record, CallConsistent, OpPCs, InvoicePCs, PCs
  <2>2. CASE RowKept /\ MovesTo(r, "releaseExecutor")
    BY <1>2, <1>3, <1>9, <2>1, <2>2, MoveConsistent
  <2>3. CASE /\ Owns(r)
             /\ wallet'.op = wallet.op
             /\ wallet'.executor = wallet.executor
             /\ wallet'.invoice = call[r].invoice
             /\ MovesTo(r, "item")
    <3>1. wallet.op \in Op
      BY <1>1, <2>1, <2>3 DEF Owns, TypeOK
    <3>2. RowConsistent'
      BY <1>1, <1>2, <2>1, <2>3, <3>1, ConstantAssumption DEF RowConsistent, Owns
    <3> QED BY <1>2, <1>9, <2>1, <2>3, <3>2, MoveConsistent
  <2> QED BY <1>1, <1>11, <2>2, <2>3, RecordMoves
<1>12. CASE MutationThrows(r)
  <2>1. call[r].op \in used
    BY <1>1, <1>12 DEF MutationThrows, CallConsistent, OpPCs, PCs
  <2>2. RowKept /\ MovesTo(r, "releaseExecutor")
    BY <1>1, <1>12, GotoMoves DEF MutationThrows, RowKept
  <2>3. "releaseExecutor" \notin InvoicePCs
    BY DEF InvoicePCs
  <2> QED BY <1>2, <1>3, <1>9, <2>1, <2>2, <2>3, MoveConsistent
<1> QED BY <1>6, <1>7, <1>8, <1>10, <1>11, <1>12

LEMMA EnvironmentKeeps ==
  ASSUME TypeOK, Environment
  PROVE  RowKept /\ UNCHANGED <<processed, used, call>>
<1>1. CASE LatePost
  BY <1>1 DEF LatePost, RowKept
<1>2. CASE PaymentSettles
  BY <1>2 DEF PaymentSettles, RowKept
<1>3. CASE \E o \in Op : ForgetKeys(o)
  BY <1>3 DEF ForgetKeys, RowKept
<1>4. CASE LeaseExpires \/ CooldownEnds \/ MonthRolls
  BY <1>4 DEF LeaseExpires, CooldownEnds, MonthRolls, RowKept, TypeOK, Wallet
<1>5. CASE Refund
  BY <1>5 DEF Refund, RowKept, TypeOK, Wallet
<1>6. CASE UpdateSettings
  <2>1. PICK e \in BOOLEAN, resumed \in BOOLEAN,
             t \in Thresholds \cup {wallet.threshold},
             a \in Reloads \cup {wallet.reload}, c \in Caps \cup {wallet.cap} :
          wallet' = Updated(e, resumed, t, a, c)
    BY <1>6, Zenon DEF UpdateSettings
  <2> DEFINE cooling == wallet.cooling /\ ~resumed
  <2>2. wallet' = [wallet EXCEPT !.enabled = e, !.threshold = t, !.reload = a,
                     !.cap = c,
                     !.failures = IF resumed THEN 0 ELSE wallet.failures,
                     !.cooling = cooling]
    BY <2>1 DEF Updated
  <2> HIDE DEF cooling
  <2>3. RowKept
    BY <2>2 DEF RowKept, TypeOK, Wallet
  <2> QED BY <1>6, <2>3 DEF UpdateSettings
<1> QED BY <1>1, <1>2, <1>3, <1>4, <1>5, <1>6 DEF Environment

LEMMA ConsistencyNext == Consistency /\ [Next]_vars => Consistency'
<1> SUFFICES ASSUME Consistency, [Next]_vars PROVE Consistency'
  OBVIOUS
<1>1. TypeOK /\ RowConsistent /\ used \subseteq Op
  BY DEF Consistency, TypeOK
<1>2. CASE UNCHANGED vars
  BY <1>2 DEF vars, Consistency, TypeOK, RowConsistent, CallConsistent
<1>3. ASSUME NEW r \in Call, Start(r) \/ CallStep(r) \/ Crash(r)
      PROVE  Consistency'
  <2>1. CallConsistent(r)
    BY DEF Consistency
  <2>2. /\ call[r].pc \in OpPCs => call[r].op \in Op
        /\ call[r].pc \in InvoicePCs => call[r].invoice # NoInvoice
    BY <1>1, <2>1 DEF CallConsistent
  <2>3. CASE \/ Start(r) \/ FirstDebit(r) \/ ClaimNew(r) \/ ClaimExpired(r)
             \/ ClaimFollow(r) \/ ClaimRefused(r)
    <3>1. TypeOK'
      BY <1>1, <2>3, StartType, FirstDebitType, ClaimType
    <3> QED BY <2>3, <3>1, ClaimConsistent DEF Consistency
  <2>4. CASE Reconcile(r) \/ Recheck(r) \/ Prepare(r) \/ Retrieve(r)
    <3>1. call[r].invoice # NoInvoice \/ Prepare(r)
      BY <2>2, <2>4 DEF Reconcile, Recheck, Retrieve, InvoicePCs
    <3>2. TypeOK'
      BY <1>1, <2>4, <3>1, LookupType
    <3> QED BY <2>4, <3>2, LookupConsistent DEF Consistency
  <2>5. CASE \/ Retire(r) \/ AddItem(r) \/ Finalize(r) \/ Pay(r)
             \/ VoidDeclined(r)
    <3>1. call[r].invoice # NoInvoice
      BY <2>2, <2>5 DEF Retire, AddItem, Finalize, Pay, VoidDeclined, InvoicePCs
    <3>2. TypeOK'
      BY <1>1, <2>5, <3>1, InvoicePostType
    <3> QED BY <2>5, <3>2, PostConsistent DEF Consistency
  <2>6. CASE Create(r)
    <3>1. call[r].op \in Op
      BY <2>2, <2>6 DEF Create, OpPCs, PCs
    <3>2. TypeOK'
      BY <1>1, <2>6, <3>1, CreateType
    <3> QED BY <2>6, <3>2, CreateConsistent DEF Consistency
  <2>7. CASE \/ Record(r) \/ Credit(r) \/ Complete(r) \/ CountSuccess(r)
             \/ Fail(r) \/ CountFailure(r) \/ Release(r) \/ Abandon(r)
             \/ ReleaseExecutor(r) \/ MutationThrows(r) \/ DebitFunded(r)
             \/ DebitCovered(r) \/ Crash(r)
    <3>1. call[r].op \in Op \/ ~Credit(r)
      BY <2>2 DEF Credit, OpPCs, PCs
    <3>2. TypeOK'
      BY <1>1, <2>7, <3>1, RowStepType
    <3> QED BY <2>7, <3>2, RowStepConsistent DEF Consistency
  <2> QED BY <1>3, <2>3, <2>4, <2>5, <2>6, <2>7 DEF CallStep
<1>4. CASE Environment
  <2>1. TypeOK' /\ RowKept /\ UNCHANGED <<used, call>>
    BY <1>1, <1>4, EnvironmentType, EnvironmentKeeps
  <2>2. RowConsistent'
    BY <1>1, <2>1, RowStays DEF RowKept
  <2>3. \A s \in Call : CallConsistent(s)'
    BY <2>1 DEF Consistency, CallConsistent
  <2> QED BY <2>1, <2>2, <2>3 DEF Consistency
<1> QED BY <1>2, <1>3, <1>4 DEF Next

\* Type correctness: in every reachable state the row, Stripe's records and the
\* calls hold values of their types; in particular no debit takes the balance
\* below zero, whatever the constants are and however the calls interleave.
THEOREM TypeCorrect == Spec => []TypeOK
<1>1. Consistency => TypeOK
  BY DEF Consistency
<1> QED BY <1>1, ConsistencyInit, ConsistencyNext, PTL DEF Spec

-----------------------------------------------------------------------------
(***************************************************************************)
(* The inductive invariant IInv of AutoReload is preserved by every step,  *)
(* for any number of calls, operations and invoices, whether payments      *)
(* settle at once or later.  The money properties follow.                  *)
(*                                                                         *)
(* Each step is shown to keep the part of IInv about the row and Stripe    *)
(* (StateSafe) and to move invoices only towards being settled (Monotone); *)
(* the second makes what the other calls know remain true (OthersSafe), so *)
(* that only the call that moves is looked at.                             *)
(*                                                                         *)
(* From the same invariant, AutoReload implements ReloadLedger: every step *)
(* of a call, of Stripe or of the user either leaves the stage of every    *)
(* reload operation as it is or is one step of one operation in the        *)
(* ledger.                                                                 *)
(***************************************************************************)

StateSafe ==
  UnusedIsClean /\ StripeSafe /\ KeysSafe /\ CreditBackedByPayment

Monotone ==
  /\ \A i \in Invoice : Safe(i) => Safe(i)'
  /\ \A i \in Invoice : Adrift(i) => Adrift(i)'
  /\ \A i \in Invoice : status[i] \in {"paid", "void", "deleted"} =>
                          status'[i] = status[i]
  /\ processed \subseteq processed'

LEMMA InvariantParts ==
  IInv <=> Consistency /\ StateSafe /\ \A r \in Call : CallSafe(r)
BY DEF IInv, Consistency, StateSafe

LEMMA InvariantInit == Init => IInv
<1> SUFFICES ASSUME Init PROVE IInv
  OBVIOUS
<1>1. UnusedIsClean /\ CreditBackedByPayment
  BY DEF Init, UnusedIsClean, CreditBackedByPayment, Invoice
<1>2. StripeSafe
  BY DEF Init, StripeSafe, Driven
<1>3. KeysSafe
  BY DEF Init, KeysSafe, EmptyKeys
<1>4. ASSUME NEW r \in Call PROVE CallSafe(r)
  BY DEF Init, IdleCall, CallSafe
<1> QED BY <1>1, <1>2, <1>3, <1>4, ConsistencyInit, InvariantParts DEF StateSafe

\* What a call knows stays true while another one moves.
LEMMA OthersSafe ==
  ASSUME Consistency, NEW s \in Call, CallSafe(s), Monotone,
         call'[s] = call[s],
         Owns(s)' => Owns(s) /\ wallet'.invoice = wallet.invoice
  PROVE  CallSafe(s)'
<1> DEFINE c == call[s]
<1>1. c.invoice # NoInvoice => c.invoice \in Invoice
  BY DEF Consistency, TypeOK, CallState
<1>2. c.pc \in {"credit", "complete", "fail"} => c.invoice # NoInvoice
  BY DEF Consistency, CallConsistent, InvoicePCs
<1>3. /\ c.pc \in {"reconcile", "retire", "prepare", "create", "item",
                   "finalize", "pay"}
      /\ c.invoice # NoInvoice
      => Safe(c.invoice)'
  BY <1>1 DEF CallSafe, Monotone
<1>4. c.pc \in {"credit", "complete"} => status'[c.invoice] = "paid"
  BY <1>1, <1>2 DEF CallSafe, Monotone
<1>5. c.pc = "complete" => c.op \in processed'
  BY DEF CallSafe, Monotone
<1>6. c.pc = "fail" => status'[c.invoice] = "void" \/ Adrift(c.invoice)'
  BY <1>1, <1>2 DEF CallSafe, Monotone
<1>7. c.pc = "release" /\ c.invoice # NoInvoice =>
        status'[c.invoice] \in {"void", "deleted"}
  BY <1>1 DEF CallSafe, Monotone
<1>8. /\ c.pc \in {"prepare", "create", "release", "abandon"}
      /\ c.invoice = NoInvoice
      /\ Owns(s)'
      => wallet'.invoice = NoInvoice
  BY DEF CallSafe
<1>9. c.pc = "record" /\ Owns(s)' => wallet'.invoice = NoInvoice
  BY DEF CallSafe
<1> QED BY <1>3, <1>4, <1>5, <1>6, <1>7, <1>8, <1>9 DEF CallSafe, Safe, Holds,
           Settled, Adrift, Driven

-----------------------------------------------------------------------------
LEMMA LateInvoices ==
  ASSUME TypeOK
  PROVE  \A m \in late : m[2] \in Invoice /\ m[3] \in Nat
BY DEF TypeOK, Post

\* The row and Stripe, for each way in which a step changes them.

\* Neither the operation on the row nor its invoice changes.
LEMMA KeptSafe ==
  ASSUME StateSafe, wallet'.op = wallet.op, wallet'.invoice = wallet.invoice,
         UNCHANGED <<processed, used, status, keys, late>>
  PROVE  StateSafe' /\ Monotone
<1>1. \A i \in Invoice : Safe(i)' <=> Safe(i)
  BY DEF Safe, Holds, Settled, Adrift, Driven
<1>2. StripeSafe'
  BY <1>1 DEF StateSafe, StripeSafe, Driven, Safe, Holds, Settled, Adrift
<1> QED BY <1>1, <1>2 DEF StateSafe, Monotone, UnusedIsClean, KeysSafe,
           CreditBackedByPayment, Adrift, Driven

\* The row gives up an operation that cannot be charged or credited any more.
LEMMA ClearedSafe ==
  ASSUME TypeOK, StateSafe, RowCleared,
         \A i \in Invoice : Holds(i) => Settled(i),
         UNCHANGED <<processed, used, status, keys, late>>
  PROVE  StateSafe' /\ Monotone
<1>1. \A i \in Invoice : Safe(i) => Safe(i)'
  BY DEF Safe, Settled, Adrift, Driven
<1>2. \A i \in Invoice : wallet'.op # i[1]
  BY ConstantAssumption DEF RowCleared, Invoice
<1>3. StripeSafe'
  <2>1. \A i \in Invoice : status'[i] \in {"open", "paid"} => Safe(i)'
    BY <1>1 DEF StateSafe, StripeSafe
  <2>2. \A i \in Invoice : Driven(i)' /\ wallet'.op = i[1] => wallet'.invoice = i
    BY <1>2
  <2>3. \A i, j \in Invoice : Driven(i)' /\ Driven(j)' /\ i[1] = j[1] => i = j
    BY DEF StateSafe, StripeSafe, Driven
  <2>4. \A m \in late' : /\ m[2][1] \in used'
                         /\ m[1] \in {"finalize", "delete"} => Safe(m[2])'
    BY <1>1, LateInvoices DEF StateSafe, StripeSafe
  <2> QED BY <2>1, <2>2, <2>3, <2>4 DEF StripeSafe, Safe, Holds, Settled, Adrift, Driven
<1>4. Monotone
  BY <1>1 DEF Monotone, Adrift, Driven
<1> QED BY <1>3, <1>4 DEF StateSafe, UnusedIsClean, KeysSafe,
           CreditBackedByPayment, Driven

\* The row gets an operation that was never on it.
LEMMA BegunSafe ==
  ASSUME TypeOK, RowConsistent, StateSafe, wallet.op = NoOp,
         NEW o \in Op \ used, used' = used \cup {o},
         wallet'.op = o, wallet'.invoice = NoInvoice,
         UNCHANGED <<processed, status, keys, late>>
  PROVE  StateSafe' /\ Monotone
<1>1. \A i \in Invoice : Safe(i) => Safe(i)'
  BY ConstantAssumption DEF Safe, Settled, Adrift, Driven, Holds, Invoice
<1>2. \A i \in Invoice : i[1] = o => status[i] = "none"
  BY DEF StateSafe, UnusedIsClean, Invoice
<1>3. StripeSafe'
  <2>1. \A i \in Invoice : status'[i] \in {"open", "paid"} => Safe(i)'
    BY <1>1 DEF StateSafe, StripeSafe
  <2>2. \A i \in Invoice : Driven(i)' /\ wallet'.op = i[1] => wallet'.invoice = i
    BY <1>2 DEF Driven
  <2>3. \A i, j \in Invoice : Driven(i)' /\ Driven(j)' /\ i[1] = j[1] => i = j
    BY DEF StateSafe, StripeSafe, Driven
  <2>4. \A m \in late' : /\ m[2][1] \in used'
                         /\ m[1] \in {"finalize", "delete"} => Safe(m[2])'
    BY <1>1, LateInvoices DEF StateSafe, StripeSafe
  <2> QED BY <2>1, <2>2, <2>3, <2>4 DEF StripeSafe, Safe, Holds, Settled, Adrift, Driven
<1>4. UnusedIsClean'
  BY DEF StateSafe, UnusedIsClean
<1> QED BY <1>1, <1>3, <1>4 DEF StateSafe, Monotone, KeysSafe,
           CreditBackedByPayment, Adrift, Driven

\* The row gets the invoice of its operation.
LEMMA RecordedSafe ==
  ASSUME TypeOK, StateSafe, wallet.invoice = NoInvoice,
         wallet'.op = wallet.op, NEW i \in Invoice, i[1] = wallet.op,
         wallet'.invoice = i,
         UNCHANGED <<processed, used, status, keys, late>>
  PROVE  StateSafe' /\ Monotone /\ Safe(i)'
<1>1. \A j \in Invoice : Safe(j) => Safe(j)'
  BY ConstantAssumption DEF Safe, Settled, Adrift, Driven, Holds
<1>2. \A j \in Invoice : j[1] = wallet.op => ~Driven(j)
  BY ConstantAssumption DEF StateSafe, StripeSafe
<1>3. StripeSafe'
  <2>1. \A j \in Invoice : status'[j] \in {"open", "paid"} => Safe(j)'
    BY <1>1 DEF StateSafe, StripeSafe
  <2>2. \A j \in Invoice : Driven(j)' /\ wallet'.op = j[1] => wallet'.invoice = j
    BY <1>2 DEF Driven
  <2>3. \A j, k \in Invoice : Driven(j)' /\ Driven(k)' /\ j[1] = k[1] => j = k
    BY DEF StateSafe, StripeSafe, Driven
  <2>4. \A m \in late' : /\ m[2][1] \in used'
                         /\ m[1] \in {"finalize", "delete"} => Safe(m[2])'
    BY <1>1, LateInvoices DEF StateSafe, StripeSafe
  <2> QED BY <2>1, <2>2, <2>3, <2>4 DEF StripeSafe, Safe, Holds, Settled, Adrift, Driven
<1>4. Safe(i)'
  BY DEF Safe, Holds
<1> QED BY <1>1, <1>3, <1>4 DEF StateSafe, Monotone, UnusedIsClean, KeysSafe,
           CreditBackedByPayment, Adrift, Driven

\* The wallet is credited for a paid invoice.
LEMMA CreditedSafe ==
  ASSUME TypeOK, StateSafe, RowKept, NEW i \in Invoice, status[i] = "paid",
         i[1] \in used, processed' = processed \cup {i[1]},
         UNCHANGED <<used, status, keys, late>>
  PROVE  StateSafe' /\ Monotone
<1>1. \A j \in Invoice : Safe(j) => Safe(j)'
  BY DEF Safe, Settled, Adrift, Driven, Holds, RowKept
<1>2. StripeSafe'
  <2>1. \A j \in Invoice : status'[j] \in {"open", "paid"} => Safe(j)'
    BY <1>1 DEF StateSafe, StripeSafe
  <2>2. \A j \in Invoice : Driven(j)' /\ wallet'.op = j[1] => wallet'.invoice = j
    BY DEF StateSafe, StripeSafe, Driven, RowKept
  <2>3. \A j, k \in Invoice : Driven(j)' /\ Driven(k)' /\ j[1] = k[1] => j = k
    BY DEF StateSafe, StripeSafe, Driven
  <2>4. \A m \in late' : /\ m[2][1] \in used'
                         /\ m[1] \in {"finalize", "delete"} => Safe(m[2])'
    BY <1>1, LateInvoices DEF StateSafe, StripeSafe
  <2> QED BY <2>1, <2>2, <2>3, <2>4 DEF StripeSafe, Safe, Holds, Settled, Adrift, Driven
<1>3. UnusedIsClean'
  BY DEF StateSafe, UnusedIsClean
<1>4. CreditBackedByPayment'
  <2>1. PICK n \in InvoiceNo : i = <<i[1], n>>
    BY DEF Invoice
  <2>2. \A m \in InvoiceNo : status[<<i[1], m>>] = "paid" <=> m = n
    <3> SUFFICES ASSUME NEW m \in InvoiceNo, status[<<i[1], m>>] = "paid"
                 PROVE  m = n
      BY <2>1
    <3>1. <<i[1], m>> \in Invoice
      BY DEF Invoice
    <3>2. <<i[1], m>> = i
      BY <3>1 DEF StateSafe, StripeSafe, Driven
    <3> QED BY <2>1, <3>2
  <2> QED BY <2>2 DEF StateSafe, CreditBackedByPayment
<1> QED BY <1>1, <1>2, <1>3, <1>4 DEF StateSafe, Monotone, KeysSafe, Adrift,
           Driven

\* How a request that takes effect moves its invoice, or a late settlement.
InvoiceMoves(i, s) ==
  /\ status' = [status EXCEPT ![i] = s]
  /\ \/ s = status[i]
     \/ s = "draft" /\ status[i] = "none"
     \/ s = "open" /\ status[i] = "draft" /\ Safe(i)
     \/ s \in {"paid", "void"} /\ status[i] = "open"
     \/ s = "deleted" /\ status[i] = "draft" /\ Safe(i)
  /\ \A o \in Op : \/ keys'[o].pay \in {keys[o].pay, "none", "declined"}
                   \/ keys'[o].pay = "paid" /\ o = i[1] /\ s = "paid"
                   \/ /\ keys'[o].pay = "open" /\ PayMayStayOpen
                      /\ o = i[1] /\ s = "open"
  /\ \A o \in Op : keys[o].pay = "open" => keys'[o].pay = "open"

LEMMA EffectMoves ==
  ASSUME TypeOK, NEW kind, NEW i \in Invoice,
         NEW cents \in Nat, Effect(kind, i, cents),
         kind \in {"finalize", "delete"} => Safe(i)
  PROVE  \E s \in InvoiceStatus : InvoiceMoves(i, s)
<1>1. /\ status \in [Invoice -> InvoiceStatus] /\ keys \in [Op -> Keys]
      /\ i[1] \in Op
      /\ {"draft", "open", "paid", "void", "deleted"} \subseteq InvoiceStatus
  BY DEF TypeOK, Invoice, InvoiceStatus
<1>2. CASE UNCHANGED <<status, keys>>
  <2>1. InvoiceMoves(i, status[i])
    BY <1>1, <1>2 DEF InvoiceMoves
  <2> QED BY <1>1, <2>1
<1>3. CASE CreateEffect(i) /\ ~UNCHANGED <<status, keys>>
  <2>1. InvoiceMoves(i, "draft")
    BY <1>1, <1>3 DEF CreateEffect, InvoiceMoves, Keys
  <2> QED BY <1>1, <2>1
<1>4. CASE ItemEffect(i, cents) /\ ~UNCHANGED <<status, keys>>
  <2>1. InvoiceMoves(i, status[i])
    BY <1>1, <1>4 DEF ItemEffect, InvoiceMoves, Keys
  <2> QED BY <1>1, <2>1
<1>5. ASSUME NEW from, NEW to, StatusEffect(i, from, to),
             \/ from = "draft" /\ to \in {"open", "deleted"} /\ Safe(i)
             \/ from = "open" /\ to = "void"
      PROVE  \E s \in InvoiceStatus : InvoiceMoves(i, s)
  <2>1. CASE status[i] = from
    <3>1. InvoiceMoves(i, to)
      BY <1>1, <1>5, <2>1 DEF StatusEffect, InvoiceMoves
    <3> QED BY <1>1, <1>5, <3>1
  <2>2. CASE status[i] # from
    <3>1. InvoiceMoves(i, status[i])
      BY <1>1, <1>5, <2>2 DEF StatusEffect, InvoiceMoves
    <3> QED BY <1>1, <3>1
  <2> QED BY <2>1, <2>2
<1>6. CASE PayEffect(i) /\ ~UNCHANGED <<status, keys>>
  <2>1. PICK answer \in {"paid", "declined", "open"} :
          /\ answer = "open" => PayMayStayOpen
          /\ status[i] = "open" /\ keys[i[1]].pay = "none"
          /\ status' = [status EXCEPT ![i] = IF answer = "paid" THEN "paid" ELSE @]
          /\ keys' = [keys EXCEPT ![i[1]].pay = answer]
    BY <1>6 DEF PayEffect
  <2>2. \A o \in Op : keys'[o].pay = IF o = i[1] THEN answer ELSE keys[o].pay
    BY <1>1, <2>1 DEF Keys
  <2>3. CASE answer = "paid"
    <3>1. InvoiceMoves(i, "paid")
      BY <1>1, <2>1, <2>2, <2>3 DEF InvoiceMoves
    <3> QED BY <1>1, <3>1
  <2>4. CASE answer \in {"declined", "open"}
    <3>1. InvoiceMoves(i, status[i])
      BY <1>1, <2>1, <2>2, <2>4 DEF InvoiceMoves
    <3> QED BY <1>1, <3>1
  <2> QED BY <2>3, <2>4
<1> QED BY <1>2, <1>3, <1>4, <1>5, <1>6 DEF Effect

\* An invoice moves: to "open" or "deleted" only if the row names it.
LEMMA MovedSafe ==
  ASSUME TypeOK, StateSafe, RowKept, UNCHANGED <<processed, used>>,
         late' \subseteq late,
         NEW i \in Invoice, i[1] \in used,
         NEW s \in InvoiceStatus, InvoiceMoves(i, s)
  PROVE  StateSafe' /\ Monotone
<1>1. /\ \A j \in Invoice : status'[j] = IF j = i THEN s ELSE status[j]
      /\ i \in Invoice
  BY DEF TypeOK, InvoiceMoves
<1>2. \A j \in Invoice : Holds(j)' <=> Holds(j)
  BY DEF Holds, RowKept
<1>12. \A j \in Invoice : Adrift(j) => Adrift(j)'
  <2>1. \A j \in Invoice : j[1] \in Op
    BY DEF Invoice
  <2>2. \A j \in Invoice : Driven(j) => Driven(j)'
    BY <1>1 DEF Driven, InvoiceMoves
  <2> QED BY <2>1, <2>2 DEF Adrift, InvoiceMoves
<1>3. \A j \in Invoice : Settled(j) => Settled(j)'
  BY <1>12, <1>1 DEF Settled, Adrift, Driven, InvoiceMoves
<1>4. \A j \in Invoice : Safe(j) => Safe(j)'
  BY <1>2, <1>3 DEF Safe
<1>5. \A j \in Invoice : status[j] \in {"paid", "void", "deleted"} =>
                           status'[j] = status[j]
  BY <1>1 DEF InvoiceMoves
<1>6. \A j \in Invoice : Driven(j)' /\ ~Driven(j) => j = i /\ Holds(i)
  BY <1>1 DEF Driven, InvoiceMoves, Safe, Settled, Adrift
<1>7. \A j \in Invoice : Driven(j)' /\ Holds(i) /\ j[1] = i[1] => j = i
  BY <1>6 DEF StateSafe, StripeSafe, Holds
<1>8. StripeSafe'
  <2>1. \A j \in Invoice : status'[j] \in {"open", "paid"} => Safe(j)'
    BY <1>1, <1>4 DEF StateSafe, StripeSafe, InvoiceMoves
  <2>2. \A j \in Invoice : Driven(j)' /\ wallet'.op = j[1] => wallet'.invoice = j
    BY <1>6 DEF StateSafe, StripeSafe, RowKept, Holds
  <2>3. \A j, k \in Invoice : Driven(j)' /\ Driven(k)' /\ j[1] = k[1] => j = k
    BY <1>6, <1>7 DEF StateSafe, StripeSafe
  <2>4. \A m \in late' : /\ m[2][1] \in used'
                         /\ m[1] \in {"finalize", "delete"} => Safe(m[2])'
    BY <1>4, LateInvoices DEF StateSafe, StripeSafe
  <2> QED BY <2>1, <2>2, <2>3, <2>4 DEF StripeSafe, Safe, Holds, Settled, Adrift, Driven
<1>9. UnusedIsClean'
  <2> SUFFICES ASSUME NEW o \in Op \ used', NEW n \in InvoiceNo
               PROVE  o \notin processed' /\ status'[<<o, n>>] = "none"
    BY DEF UnusedIsClean, StateSafe
  <2>1. <<o, n>> \in Invoice /\ <<o, n>> # i
    BY DEF Invoice
  <2> QED BY <1>1, <2>1 DEF StateSafe, UnusedIsClean
<1>10. KeysSafe'
  <2> SUFFICES ASSUME NEW o \in Op
               PROVE  /\ keys'[o].pay = "open" =>
                           /\ PayMayStayOpen
                           /\ \E n \in InvoiceNo : Driven(<<o, n>>)'
                      /\ keys'[o].pay = "paid" =>
                           \E n \in InvoiceNo : status'[<<o, n>>] = "paid"
    BY DEF KeysSafe
  <2>1. ASSUME keys'[o].pay = "open"
        PROVE  PayMayStayOpen /\ \E n \in InvoiceNo : Driven(<<o, n>>)'
    <3>1. CASE keys[o].pay = "open"
      <4>1. PayMayStayOpen /\ \E n \in InvoiceNo : Driven(<<o, n>>)
        BY <3>1 DEF StateSafe, KeysSafe
      <4>2. \A n \in InvoiceNo : <<o, n>> \in Invoice
        BY DEF Invoice
      <4>3. \A n \in InvoiceNo : Driven(<<o, n>>) => Driven(<<o, n>>)'
        BY <1>1, <4>2 DEF Driven, InvoiceMoves
      <4> QED BY <4>1, <4>3
    <3>2. CASE keys[o].pay # "open"
      <4>1. PayMayStayOpen /\ o = i[1] /\ s = "open"
        BY <2>1, <3>2 DEF InvoiceMoves
      <4>2. PICK n \in InvoiceNo : i = <<i[1], n>>
        BY DEF Invoice
      <4> QED BY <1>1, <4>1, <4>2 DEF Driven
    <3> QED BY <3>1, <3>2
  <2>2. CASE keys'[o].pay = "paid" /\ keys[o].pay = "paid"
    <3>1. PICK n \in InvoiceNo : status[<<o, n>>] = "paid"
      BY <2>2 DEF StateSafe, KeysSafe
    <3>2. <<o, n>> \in Invoice
      BY DEF Invoice
    <3> QED BY <1>5, <2>1, <3>1, <3>2
  <2>3. CASE keys'[o].pay = "paid" /\ keys[o].pay # "paid"
    <3>1. o = i[1] /\ s = "paid"
      BY <2>3 DEF InvoiceMoves
    <3>2. PICK n \in InvoiceNo : i = <<i[1], n>>
      BY DEF Invoice
    <3> QED BY <1>1, <2>1, <3>1, <3>2
  <2> QED BY <2>1, <2>2, <2>3
<1>11. CreditBackedByPayment'
  <2> SUFFICES ASSUME NEW o \in processed
               PROVE  \E n \in InvoiceNo : \A m \in InvoiceNo :
                        status'[<<o, m>>] = "paid" <=> m = n
    BY DEF CreditBackedByPayment
  <2>1. PICK n \in InvoiceNo : status[<<o, n>>] = "paid"
    BY DEF StateSafe, CreditBackedByPayment
  <2>2. \A m \in InvoiceNo : <<o, m>> \in Invoice
    BY DEF Invoice, TypeOK
  <2>3. status'[<<o, n>>] = "paid"
    BY <1>5, <2>1, <2>2
  <2>4. \A m \in InvoiceNo : status'[<<o, m>>] = "paid" => <<o, m>> = <<o, n>>
    BY <1>8, <2>2, <2>3 DEF StripeSafe, Driven
  <2> QED BY <2>3, <2>4
<1> QED BY <1>4, <1>5, <1>8, <1>9, <1>10, <1>11, <1>12 DEF StateSafe, Monotone

\* A request of a call, whether it is answered or not.
LEMMA PostedSafe ==
  ASSUME TypeOK, StateSafe,
         NEW kind, NEW i \in Invoice, NEW cents \in Nat,
         i[1] \in used, kind \in {"finalize", "delete"} => Safe(i),
         \/ Effect(kind, i, cents) /\ UNCHANGED late
         \/ Unanswered(kind, i, cents),
         UNCHANGED <<wallet, processed, used>>
  PROVE  StateSafe' /\ Monotone
<1>1. RowKept
  BY DEF RowKept
<1>2. CASE Effect(kind, i, cents) /\ UNCHANGED late
  <2>1. \E s \in InvoiceStatus : InvoiceMoves(i, s)
    BY <1>2, EffectMoves
  <2> QED BY <1>1, <1>2, <2>1, MovedSafe
<1>3. CASE UNCHANGED <<status, billed, keys, late>>
  BY <1>3, KeptSafe
<1>4. CASE /\ late' = late \cup {<<kind, i, cents>>}
           /\ UNCHANGED <<status, billed, keys>>
  <2>1. \A j \in Invoice : Safe(j)' <=> Safe(j)
    BY <1>4 DEF Safe, Holds, Settled, Adrift, Driven
  <2>2. StripeSafe'
    <3>1. \A j \in Invoice : status'[j] \in {"open", "paid"} => Safe(j)'
      BY <1>4, <2>1 DEF StateSafe, StripeSafe
    <3>2. \A j \in Invoice : Driven(j)' /\ wallet'.op = j[1] => wallet'.invoice = j
      BY <1>4 DEF StateSafe, StripeSafe, Driven
    <3>3. \A j, k \in Invoice : Driven(j)' /\ Driven(k)' /\ j[1] = k[1] => j = k
      BY <1>4 DEF StateSafe, StripeSafe, Driven
    <3>4. ASSUME NEW m \in late'
          PROVE  /\ m[2][1] \in used'
                 /\ m[1] \in {"finalize", "delete"} => Safe(m[2])'
      <4>1. CASE m \in late
        BY <2>1, <4>1, LateInvoices DEF StateSafe, StripeSafe
      <4>2. CASE m = <<kind, i, cents>>
        BY <2>1, <4>2
      <4> QED BY <1>4, <4>1, <4>2
    <3> QED BY <3>1, <3>2, <3>3, <3>4
            DEF StripeSafe, Safe, Holds, Settled, Adrift, Driven
  <2> QED BY <1>4, <2>1, <2>2 DEF StateSafe, Monotone, UnusedIsClean, KeysSafe,
             CreditBackedByPayment, Adrift, Driven
<1> QED BY <1>2, <1>3, <1>4 DEF Unanswered

\* What happens around the calls.
LEMMA EnvironmentSafe ==
  ASSUME TypeOK, StateSafe, Environment
  PROVE  StateSafe' /\ Monotone
<1>1. RowKept /\ UNCHANGED <<processed, used, call>>
  BY EnvironmentKeeps
<1>2. CASE LatePost
  <2>1. PICK m \in late : late' = late \ {m} /\ Effect(m[1], m[2], m[3])
    BY <1>2 DEF LatePost
  <2>2. /\ m[2] \in Invoice /\ m[3] \in Nat /\ m[2][1] \in used
        /\ m[1] \in {"finalize", "delete"} => Safe(m[2])
    BY <2>1, LateInvoices DEF StateSafe, StripeSafe
  <2>3. \E s \in InvoiceStatus : InvoiceMoves(m[2], s)
    BY <2>1, <2>2, EffectMoves
  <2> QED BY <1>1, <2>1, <2>2, <2>3, MovedSafe
<1>3. CASE PaymentSettles
  <2>1. PICK i \in Invoice :
          /\ status[i] = "open"
          /\ status' = [status EXCEPT ![i] = "paid"]
          /\ UNCHANGED <<keys, late>>
    BY <1>3 DEF PaymentSettles
  <2>2. i[1] \in used
    <3>1. i[1] \in Op /\ \E n \in InvoiceNo : i = <<i[1], n>>
      BY DEF Invoice
    <3> QED BY <2>1, <3>1 DEF StateSafe, UnusedIsClean
  <2>3. "paid" \in InvoiceStatus /\ InvoiceMoves(i, "paid")
    BY <2>1 DEF InvoiceMoves, InvoiceStatus
  <2> QED BY <1>1, <2>1, <2>2, <2>3, MovedSafe
<1>4. ASSUME NEW o \in Op, ForgetKeys(o)
      PROVE  StateSafe' /\ Monotone
  <2>1. UNCHANGED <<wallet, status, late>>
    BY <1>4 DEF ForgetKeys
  <2>2. /\ KeysExpire
        /\ \A p \in Op : keys'[p].pay \in {keys[p].pay, "none"}
    BY <1>4 DEF ForgetKeys, TypeOK, EmptyKeys
  <2>3. KeysSafe'
    BY <2>1, <2>2 DEF StateSafe, KeysSafe, Driven
  <2>6. \A i \in Invoice : Adrift(i)' <=> Adrift(i)
    BY <2>1, <2>2 DEF Adrift, Driven
  <2>4. \A i \in Invoice : Safe(i)' <=> Safe(i)
    BY <1>1, <2>1, <2>6 DEF Safe, Holds, Settled
  <2>5. StripeSafe'
    <3>1. \A j \in Invoice : Driven(j)' <=> Driven(j)
      BY <2>1 DEF Driven
    <3>2. \A j \in Invoice : status'[j] \in {"open", "paid"} => Safe(j)'
      BY <2>1, <2>4 DEF StateSafe, StripeSafe
    <3>3. \A m \in late' : /\ m[2][1] \in used'
                           /\ m[1] \in {"finalize", "delete"} => Safe(m[2])'
      BY <1>1, <2>1, <2>4, LateInvoices DEF StateSafe, StripeSafe
    <3> QED BY <1>1, <2>1, <3>1, <3>2, <3>3 DEF StateSafe, StripeSafe
  <2> QED BY <1>1, <2>1, <2>3, <2>4, <2>5, <2>6
          DEF StateSafe, Monotone, UnusedIsClean, CreditBackedByPayment
<1>5. CASE LeaseExpires \/ CooldownEnds \/ MonthRolls \/ Refund \/ UpdateSettings
  <2>1. UNCHANGED <<status, keys, late>>
    BY <1>5 DEF LeaseExpires, CooldownEnds, MonthRolls, Refund, UpdateSettings
  <2> QED BY <1>1, <2>1, KeptSafe DEF RowKept
<1> QED BY <1>2, <1>3, <1>4, <1>5 DEF Environment

-----------------------------------------------------------------------------
\* The steps of a call.

\* The phases in which a call knows nothing of importance.
LEMMA QuietSafe ==
  ASSUME NEW r \in Call,
         call'[r].pc \in {"idle", "debit", "claim", "debitCovered",
                          "debitFunded", "countSuccess", "countFailure",
                          "recheck", "voidDeclined", "releaseExecutor"}
  PROVE  CallSafe(r)'
BY DEF CallSafe

\* What is left to show when call r steps.
LEMMA StepSafe ==
  ASSUME IInv, NEW r \in Call, StateSafe', Monotone, CallSafe(r)',
         \A s \in Call \ {r} : call'[s] = call[s],
         \A s \in Call \ {r} : Owns(s)' => Owns(s) /\ wallet'.invoice = wallet.invoice
  PROVE  StateSafe' /\ \A s \in Call : CallSafe(s)'
<1> SUFFICES ASSUME NEW s \in Call, s # r PROVE CallSafe(s)'
  OBVIOUS
<1>1. Consistency /\ CallSafe(s) /\ call'[s] = call[s]
  BY InvariantParts
<1> QED BY <1>1, OthersSafe

\* Steps that leave the row and Stripe alone.
LEMMA LookupSafe ==
  ASSUME IInv, NEW r \in Call,
         \/ Start(r) \/ ClaimFollow(r) \/ ClaimRefused(r) \/ Reconcile(r)
         \/ Recheck(r) \/ Prepare(r) \/ Retrieve(r) \/ MutationThrows(r)
         \/ Crash(r)
  PROVE  StateSafe' /\ \A s \in Call : CallSafe(s)'
<1>1. /\ Consistency /\ TypeOK /\ StateSafe /\ CallSafe(r) /\ CallConsistent(r)
  BY InvariantParts DEF Consistency
<1>2. UNCHANGED <<wallet, processed, used, status, billed, keys, late>>
  BY DEF Start, ClaimFollow, ClaimRefused, Reconcile, Recheck, Prepare,
         Retrieve, MutationThrows, Crash
<1>3. StateSafe' /\ Monotone
  BY <1>1, <1>2, KeptSafe
<1>4. ASSUME CallSafe(r)', \A s \in Call \ {r} : call'[s] = call[s]
      PROVE  StateSafe' /\ \A s \in Call : CallSafe(s)'
  BY <1>2, <1>3, <1>4, StepSafe DEF Owns
<1>5. ASSUME NEW pc \in {"debitCovered", "releaseExecutor"}, MovesTo(r, pc)
      PROVE  StateSafe' /\ \A s \in Call : CallSafe(s)'
  BY <1>4, <1>5, QuietSafe DEF MovesTo
<1>6. CASE Start(r)
  BY <1>1, <1>4, <1>6, StartFields, QuietSafe
<1>7. ASSUME Leaves(r) PROVE StateSafe' /\ \A s \in Call : CallSafe(s)'
  BY <1>4, <1>7, QuietSafe DEF Leaves
<1>8. CASE ClaimFollow(r)
  <2>1. CASE Return(r)
    BY <1>1, <1>7, <2>1, ReturnLeaves
  <2>2. CASE call' = [call EXCEPT ![r].polls = @ + 1]
    <3>1. call'[r].pc = "claim" /\ \A s \in Call \ {r} : call'[s] = call[s]
      BY <1>1, <1>8, <2>2 DEF ClaimFollow, TypeOK, CallState
    <3> QED BY <1>4, <3>1, QuietSafe
  <2> QED BY <1>8, <2>1, <2>2 DEF ClaimFollow
<1>9. CASE ClaimRefused(r)
  BY <1>1, <1>5, <1>7, <1>9, ReturnLeaves, GotoMoves DEF ClaimRefused
<1>10. CASE MutationThrows(r)
  BY <1>1, <1>5, <1>10, GotoMoves DEF MutationThrows
<1>11. CASE Crash(r)
  BY <1>1, <1>7, <1>11, ReturnLeaves DEF Crash
<1>12. \A i \in Invoice : Safe(i)' <=> Safe(i)
  BY <1>2 DEF Safe, Holds, Settled, Adrift, Driven
<1>13. call[r].invoice # NoInvoice => call[r].invoice \in Invoice
  BY <1>1 DEF TypeOK, CallState
<1>14. CASE Reconcile(r)
  <2>1. /\ call[r].invoice # NoInvoice
        /\ \A i \in Invoice : i = call[r].invoice => Safe(i)'
    BY <1>1, <1>12, <1>13, <1>14 DEF Reconcile, CallConsistent, InvoicePCs, CallSafe
  <2>2. \/ MovesTo(r, "releaseExecutor")
        \/ /\ \/ MovesTo(r, "credit") /\ status[call[r].invoice] = "paid"
              \/ /\ MovesTo(r, "release")
                 /\ status[call[r].invoice] \in {"deleted", "void"}
              \/ MovesTo(r, "prepare")
              \/ MovesTo(r, "retire")
    BY <1>1, <1>14, LookupMoves
  <2>3. CASE ~MovesTo(r, "releaseExecutor")
    <3>1. CallSafe(r)'
      BY <1>2, <1>13, <2>1, <2>2, <2>3 DEF CallSafe, MovesTo, Safe, Holds, Settled, Adrift, Driven
    <3> QED BY <1>4, <2>2, <2>3, <3>1 DEF MovesTo
  <2> QED BY <1>5, <2>3
<1>15. CASE Recheck(r)
  <2>1. call[r].invoice # NoInvoice
    BY <1>1, <1>15 DEF Recheck, CallConsistent, InvoicePCs
  <2>2. \/ MovesTo(r, "credit") /\ status[call[r].invoice] = "paid"
        \/ /\ MovesTo(r, "release")
           /\ status[call[r].invoice] \in {"deleted", "void"}
        \/ MovesTo(r, "releaseExecutor")
    BY <1>1, <1>15, LookupMoves
  <2>3. CASE ~MovesTo(r, "releaseExecutor")
    <3>1. CallSafe(r)'
      BY <1>2, <2>1, <2>2, <2>3 DEF CallSafe, MovesTo
    <3> QED BY <1>4, <2>2, <2>3, <3>1 DEF MovesTo
  <2> QED BY <1>5, <2>3
<1>16. CASE Prepare(r)
  <2>1. /\ \A i \in Invoice : i = call[r].invoice => Safe(i)'
        /\ call[r].invoice = NoInvoice /\ Owns(r) => wallet.invoice = NoInvoice
        /\ call[r].fresh => call[r].invoice = NoInvoice
    <3>1. call[r].pc = "prepare"
      BY <1>16 DEF Prepare
    <3>2. \A i \in Invoice : i = call[r].invoice => Safe(i)
      BY <1>1, <3>1, ConstantAssumption DEF CallSafe
    <3>3. call[r].invoice = NoInvoice /\ Owns(r) => wallet.invoice = NoInvoice
      BY <1>1, <3>1 DEF CallSafe
    <3> QED BY <1>1, <1>12, <3>1, <3>2, <3>3 DEF CallConsistent
  <2>2. \/ MovesTo(r, "create")
        \/ MovesTo(r, "abandon") /\ call[r].fresh
        \/ MovesTo(r, "releaseExecutor")
    BY <1>1, <1>16, LookupMoves DEF PreChargeExit
  <2>3. CASE ~MovesTo(r, "releaseExecutor")
    <3>1. Owns(r)' <=> Owns(r)
      BY <1>2, <2>2, <2>3 DEF Owns, MovesTo
    <3>2. CallSafe(r)'
      BY <1>2, <1>13, <2>1, <2>2, <2>3, <3>1 DEF CallSafe, MovesTo, Safe, Holds,
         Settled, Adrift, Driven
    <3> QED BY <1>4, <2>2, <2>3, <3>2 DEF MovesTo
  <2> QED BY <1>5, <2>3
<1>17. CASE Retrieve(r)
  <2>1. /\ call[r].invoice # NoInvoice
        /\ \A i \in Invoice : i = call[r].invoice => Safe(i)'
        /\ ~call[r].fresh
    BY <1>1, <1>12, <1>13, <1>17 DEF Retrieve, CallConsistent, CallSafe
  <2>2. \/ MovesTo(r, "item")
        \/ MovesTo(r, "pay")
        \/ MovesTo(r, "credit") /\ status[call[r].invoice] = "paid"
        \/ MovesTo(r, "fail") /\ status[call[r].invoice] = "void"
        \/ MovesTo(r, "releaseExecutor")
    BY <1>1, <1>17, <2>1, LookupMoves DEF PreChargeExit
  <2>3. CASE ~MovesTo(r, "releaseExecutor")
    <3>1. CallSafe(r)'
      BY <1>2, <1>13, <2>1, <2>2, <2>3 DEF CallSafe, MovesTo, Safe, Holds, Settled, Adrift, Driven
    <3> QED BY <1>4, <2>2, <2>3, <3>1 DEF MovesTo
  <2> QED BY <1>5, <2>3
<1> QED BY <1>6, <1>8, <1>9, <1>10, <1>11, <1>14, <1>15, <1>16, <1>17

\* Steps that ask Stripe to change an invoice.
LEMMA PostSafe ==
  ASSUME IInv, NEW r \in Call,
         \/ Retire(r) \/ AddItem(r) \/ Finalize(r) \/ Pay(r) \/ VoidDeclined(r)
  PROVE  StateSafe' /\ \A s \in Call : CallSafe(s)'
<1> DEFINE i == call[r].invoice
           cents == call[r].cents
<1>1. /\ Consistency /\ TypeOK /\ StateSafe /\ CallSafe(r) /\ CallConsistent(r)
      /\ UNCHANGED <<wallet, processed, used>>
  BY InvariantParts DEF Consistency, Retire, AddItem, Finalize, Pay, VoidDeclined
<1>2. call[r].pc \in {"retire", "item", "finalize", "pay", "voidDeclined"}
  BY DEF Retire, AddItem, Finalize, Pay, VoidDeclined
<1>3. i \in Invoice /\ i[1] \in used /\ cents \in Nat /\ 0 \in Nat
  <2>1. call[r].invoice # NoInvoice /\ call[r].op \in used
    BY <1>1, <1>2 DEF CallConsistent, OpPCs, InvoicePCs, PCs
  <2> QED BY <1>1, <2>1 DEF CallConsistent, TypeOK, CallState
<1>4. call[r].pc # "voidDeclined" => Safe(i)
  BY <1>1, <1>2, <1>3, ConstantAssumption DEF CallSafe
<1>5. status \in [Invoice -> InvoiceStatus]
  BY <1>1 DEF TypeOK
<1> HIDE DEF i, cents
<1>6. ASSUME NEW kind, NEW n \in Nat,
             \/ Effect(kind, i, n) /\ UNCHANGED late
             \/ Unanswered(kind, i, n),
             kind \in {"finalize", "delete"} => Safe(i)
      PROVE  StateSafe' /\ Monotone
  BY <1>1, <1>3, <1>6, PostedSafe
<1>7. ASSUME Monotone, StateSafe', CallSafe(r)',
             \A s \in Call \ {r} : call'[s] = call[s]
      PROVE  StateSafe' /\ \A s \in Call : CallSafe(s)'
  BY <1>1, <1>7, StepSafe DEF Owns
<1>8. ASSUME Monotone, StateSafe', NEW pc \in {"recheck", "releaseExecutor",
                                               "voidDeclined"},
             MovesTo(r, pc)
      PROVE  StateSafe' /\ \A s \in Call : CallSafe(s)'
  BY <1>7, <1>8, QuietSafe DEF MovesTo
<1>9. CASE Retire(r)
  <2>1. PICK kind \in {"delete", "void"} :
          \/ /\ Effect(kind, i, 0) /\ UNCHANGED late
             /\ \/ /\ MovesTo(r, "release")
                   /\ kind = "delete" => status[i] \in {"draft", "deleted"}
                   /\ kind = "void" => status[i] = "open"
                \/ MovesTo(r, "recheck")
          \/ Unanswered(kind, i, 0) /\ MovesTo(r, "recheck")
    BY <1>1, <1>9, PostMoves DEF i
  <2>2. StateSafe' /\ Monotone
    BY <1>2, <1>3, <1>4, <1>6, <1>9, <2>1 DEF Retire
  <2>3. CASE MovesTo(r, "recheck")
    BY <1>8, <2>2, <2>3
  <2>4. CASE ~MovesTo(r, "recheck")
    <3>1. status'[i] \in {"void", "deleted"}
      BY <1>3, <1>5, <2>1, <2>4 DEF Effect, StatusEffect
    <3>2. CallSafe(r)'
      BY <1>3, <2>1, <2>4, <3>1, ConstantAssumption DEF CallSafe, MovesTo, i
    <3> QED BY <1>7, <2>1, <2>2, <2>4, <3>2 DEF MovesTo
  <2> QED BY <2>3, <2>4
<1>10. CASE AddItem(r)
  <2>1. \/ /\ Effect("item", i, cents) /\ UNCHANGED late
           /\ MovesTo(r, "finalize") \/ MovesTo(r, "releaseExecutor")
        \/ Unanswered("item", i, cents) /\ MovesTo(r, "releaseExecutor")
    BY <1>1, <1>10, PostMoves DEF i, cents
  <2>2. StateSafe' /\ Monotone
    BY <1>3, <1>6, <2>1
  <2>3. CASE MovesTo(r, "finalize")
    <3>1. Safe(i)
      BY <1>4, <1>10 DEF AddItem
    <3>2. CallSafe(r)'
      BY <1>3, <2>2, <2>3, <3>1
         DEF CallSafe, MovesTo, Monotone, Safe, Holds, Settled, Adrift, Driven, i
    <3> QED BY <1>7, <2>2, <2>3, <3>2 DEF MovesTo
  <2> QED BY <1>8, <2>1, <2>2, <2>3
<1>11. CASE Finalize(r)
  <2>1. \/ /\ Effect("finalize", i, 0) /\ UNCHANGED late
           /\ MovesTo(r, "pay") \/ MovesTo(r, "releaseExecutor")
        \/ Unanswered("finalize", i, 0) /\ MovesTo(r, "releaseExecutor")
    BY <1>1, <1>11, PostMoves DEF i
  <2>2. Safe(i)
    BY <1>4, <1>11 DEF Finalize
  <2>3. StateSafe' /\ Monotone
    BY <1>3, <1>6, <2>1, <2>2
  <2>4. CASE MovesTo(r, "pay")
    <3>1. CallSafe(r)'
      BY <1>3, <2>2, <2>3, <2>4
         DEF CallSafe, MovesTo, Monotone, Safe, Holds, Settled, Adrift, Driven, i
    <3> QED BY <1>7, <2>3, <2>4, <3>1 DEF MovesTo
  <2> QED BY <1>8, <2>1, <2>3, <2>4
<1>12. CASE Pay(r)
  <2>1. \/ /\ Effect("pay", i, 0) /\ UNCHANGED late
           /\ \/ MovesTo(r, "credit") /\ keys'[i[1]].pay = "paid"
              \/ MovesTo(r, "voidDeclined")
              \/ MovesTo(r, "fail") /\ keys'[i[1]].pay = "open"
              \/ MovesTo(r, "releaseExecutor")
        \/ Unanswered("pay", i, 0) /\ MovesTo(r, "releaseExecutor")
    BY <1>1, <1>12, PostMoves DEF i
  <2>2. StateSafe' /\ Monotone
    BY <1>3, <1>6, <2>1
  <2>3. i[1] \in Op
    BY <1>1, <1>3 DEF TypeOK
  <2>6. PICK k \in Invoice : k = i
    BY <1>3
  <2>7. Safe(k)'
    BY <1>4, <1>12, <2>2, <2>6 DEF Pay, Monotone
  <2>8. \A j \in Invoice : Driven(j)' /\ j[1] = k[1] => j = k
    <3>1. Holds(k)' \/ Driven(k)'
      BY <2>7 DEF Safe, Settled, Adrift, Driven
    <3> QED BY <2>2, <3>1 DEF StateSafe, StripeSafe, Holds
  <2>4. CASE MovesTo(r, "fail") /\ keys'[i[1]].pay = "open"
    <3>1. PICK n \in InvoiceNo : PayMayStayOpen /\ Driven(<<k[1], n>>)'
      BY <2>2, <2>3, <2>4, <2>6 DEF StateSafe, KeysSafe
    <3>2. k = <<k[1], n>>
      BY <2>3, <2>6, <2>8, <3>1 DEF Invoice
    <3>3. Adrift(k)'
      BY <2>4, <2>6, <3>1, <3>2 DEF Adrift
    <3>4. CallSafe(r)'
      BY <1>3, <2>4, <2>6, <3>3 DEF CallSafe, MovesTo, i
    <3> QED BY <1>7, <2>2, <2>4, <3>4 DEF MovesTo
  <2>5. CASE MovesTo(r, "credit") /\ keys'[i[1]].pay = "paid"
    <3>1. PICK n \in InvoiceNo : status'[<<i[1], n>>] = "paid"
      BY <2>2, <2>3, <2>5 DEF StateSafe, KeysSafe
    <3> DEFINE j == <<i[1], n>>
    <3>2. j \in Invoice /\ j[1] = i[1]
      BY <2>3 DEF Invoice
    <3>5. i = j
      BY <2>6, <2>8, <3>1, <3>2 DEF Driven
    <3>6. CallSafe(r)'
      BY <2>5, <3>1, <3>5 DEF CallSafe, MovesTo, i
    <3> QED BY <1>7, <2>2, <2>5, <3>6 DEF MovesTo
  <2> QED BY <1>8, <2>1, <2>2, <2>4, <2>5
<1>13. CASE VoidDeclined(r)
  <2>1. \/ /\ Effect("void", i, 0) /\ UNCHANGED late
           /\ \/ MovesTo(r, "fail") /\ status[i] \in {"open", "void"}
              \/ MovesTo(r, "releaseExecutor")
        \/ Unanswered("void", i, 0) /\ MovesTo(r, "releaseExecutor")
    BY <1>1, <1>13, PostMoves DEF i
  <2>2. StateSafe' /\ Monotone
    BY <1>3, <1>6, <2>1
  <2>3. CASE /\ Effect("void", i, 0)
             /\ MovesTo(r, "fail") /\ status[i] \in {"open", "void"}
    <3>1. status'[i] = "void"
      BY <1>3, <1>5, <2>3 DEF Effect, StatusEffect
    <3>2. CallSafe(r)'
      BY <2>3, <3>1 DEF CallSafe, MovesTo, i
    <3> QED BY <1>7, <2>2, <2>3, <3>2 DEF MovesTo
  <2> QED BY <1>8, <2>1, <2>2, <2>3
<1> QED BY <1>9, <1>10, <1>11, <1>12, <1>13

LEMMA CreateSafe ==
  ASSUME IInv, NEW r \in Call, Create(r)
  PROVE  StateSafe' /\ \A s \in Call : CallSafe(s)'
<1> DEFINE o == call[r].op
<1>1. /\ Consistency /\ TypeOK /\ StateSafe /\ CallSafe(r) /\ CallConsistent(r)
      /\ call[r].pc = "create" /\ call[r].invoice = NoInvoice
      /\ UNCHANGED <<wallet, processed, used>>
  BY InvariantParts DEF Consistency, Create
<1>2. /\ o \in used /\ 0 \in Nat
      /\ \A n \in InvoiceNo : <<o, n>> \in Invoice /\ <<o, n>>[1] = o
  BY <1>1 DEF CallConsistent, OpPCs, PCs, TypeOK, Invoice
<1>3. Owns(r) => wallet.invoice = NoInvoice
  BY <1>1 DEF CallSafe
<1> HIDE DEF o
<1>4. ASSUME NEW n \in InvoiceNo,
             \/ Effect("create", <<o, n>>, 0) /\ UNCHANGED late
             \/ Unanswered("create", <<o, n>>, 0)
      PROVE  StateSafe' /\ Monotone
  BY <1>1, <1>2, <1>4, PostedSafe
<1>5. CASE \E n \in InvoiceNo :
             /\ Effect("create", <<o, n>>, 0) /\ UNCHANGED late
             /\ call'[r].pc = "record"
             /\ call'[r].op = o
             /\ \A s \in Call \ {r} : call'[s] = call[s]
  <2>1. StateSafe' /\ Monotone
    BY <1>4, <1>5
  <2>2. CallSafe(r)'
    BY <1>1, <1>3, <1>5 DEF CallSafe, Owns, o
  <2> QED BY <1>1, <1>5, <2>1, <2>2, StepSafe DEF Owns
<1>6. CASE /\ \E n \in InvoiceNo : Unanswered("create", <<o, n>>, 0)
           /\ MovesTo(r, "releaseExecutor")
  <2>1. StateSafe' /\ Monotone
    BY <1>4, <1>6
  <2> QED BY <1>1, <1>6, <2>1, QuietSafe, StepSafe DEF Owns, MovesTo
<1>7. CASE /\ UNCHANGED <<status, billed, keys, late>>
           /\ MovesTo(r, PreChargeExit(r))
  <2>1. StateSafe' /\ Monotone
    BY <1>1, <1>7, KeptSafe
  <2>2. CASE MovesTo(r, "releaseExecutor")
    BY <1>1, <2>1, <2>2, QuietSafe, StepSafe DEF Owns, MovesTo
  <2>3. CASE MovesTo(r, "abandon")
    <3>1. CallSafe(r)'
      BY <1>1, <1>3, <2>3 DEF CallSafe, MovesTo, Owns
    <3> QED BY <1>1, <2>1, <2>3, <3>1, StepSafe DEF Owns, MovesTo
  <2> QED BY <1>7, <2>2, <2>3 DEF PreChargeExit
<1> QED BY <1>1, <1>5, <1>6, <1>7, CreateMoves DEF o

\* Claims: a new operation, or one whose executor lost its lease.
LEMMA ClaimSafe ==
  ASSUME IInv, NEW r \in Call, FirstDebit(r) \/ ClaimNew(r) \/ ClaimExpired(r)
  PROVE  StateSafe' /\ \A s \in Call : CallSafe(s)'
<1>1. /\ Consistency /\ TypeOK /\ RowConsistent /\ StateSafe
  BY InvariantParts DEF Consistency
<1>2. CASE FirstDebit(r)
  <2>1. RowKept /\ UNCHANGED <<processed, used, status, keys, late>>
    BY <1>1, <1>2, DebitFields DEF FirstDebit, RowKept
  <2>2. StateSafe' /\ Monotone
    BY <1>1, <2>1, KeptSafe DEF RowKept
  <2>3. /\ call'[r].pc \in {"claim", "idle"}
        /\ \A s \in Call \ {r} : call'[s] = call[s]
    <3>1. CASE call' = [call EXCEPT ![r] = Answer(AfterDebit(r))]
      BY <1>1, <3>1 DEF TypeOK, Answer, IdleCall
    <3> QED BY <1>1, <1>2, <3>1, FirstDebitFields
  <2> QED BY <2>1, <2>2, <2>3, QuietSafe, StepSafe DEF Owns, RowKept
<1>3. CASE ClaimNew(r)
  <2>1. wallet.op = NoOp /\ UNCHANGED <<processed, status, keys, late>>
    BY <1>3 DEF ClaimNew
  <2>2. PICK o \in Op \ used :
          /\ used' = used \cup {o}
          /\ wallet'.op = o
          /\ wallet'.executor = r
          /\ wallet'.invoice = NoInvoice
          /\ call'[r].pc \in {"prepare", "release"}
          /\ call'[r].op = o
          /\ call'[r].invoice = NoInvoice
          /\ \A s \in Call \ {r} : call'[s] = call[s]
    BY <1>1, <1>3, ClaimNewFields
  <2>3. StateSafe' /\ Monotone
    BY <1>1, <2>1, <2>2, BegunSafe
  <2>4. CallSafe(r)'
    BY <2>2 DEF CallSafe
  <2> QED BY <2>2, <2>3, <2>4, StepSafe DEF Owns
<1>4. CASE ClaimExpired(r)
  <2>1. UNCHANGED <<processed, used, status, keys, late>>
    BY <1>4 DEF ClaimExpired
  <2>2. /\ wallet'.op = wallet.op /\ wallet'.invoice = wallet.invoice
        /\ wallet'.executor = r
        /\ call'[r].pc \in {"reconcile", "prepare", "release"}
        /\ call'[r].pc # "reconcile" => wallet.invoice = NoInvoice
        /\ call'[r].invoice = wallet.invoice
        /\ \A s \in Call \ {r} : call'[s] = call[s]
    BY <1>1, <1>4, ClaimExpiredFields
  <2>3. StateSafe' /\ Monotone
    BY <1>1, <2>1, <2>2, KeptSafe
  <2>4. wallet.invoice # NoInvoice => wallet.invoice[1] = wallet.op
    BY <1>1 DEF RowConsistent
  <2>5. CallSafe(r)'
    BY <2>2, <2>4 DEF CallSafe, Safe, Holds
  <2> QED BY <2>2, <2>3, <2>5, StepSafe DEF Owns
<1> QED BY <1>2, <1>3, <1>4

\* Steps on the row that keep its operation and invoice.
LEMMA KeepingSafe ==
  ASSUME IInv, NEW r \in Call,
         \/ CountSuccess(r) \/ CountFailure(r) \/ DebitFunded(r)
         \/ DebitCovered(r) \/ ReleaseExecutor(r)
  PROVE  StateSafe' /\ \A s \in Call : CallSafe(s)'
<1>1. /\ Consistency /\ TypeOK /\ StateSafe
      /\ UNCHANGED <<processed, used, status, keys, late>>
  BY InvariantParts DEF Consistency, CountSuccess, CountFailure, DebitFunded,
                        DebitCovered, ReleaseExecutor
<1>2. /\ wallet'.op = wallet.op /\ wallet'.invoice = wallet.invoice
      /\ wallet'.executor \in {wallet.executor, NoCall}
      /\ Leaves(r)
  BY <1>1, KeepingMoves, ReleaseExecutorMoves DEF RowKept
<1>3. StateSafe' /\ Monotone
  BY <1>1, <1>2, KeptSafe
<1>4. \A s \in Call : Owns(s)' /\ call'[s] = call[s] => Owns(s)
  BY <1>2, ConstantAssumption DEF Owns
<1> QED BY <1>2, <1>3, <1>4, QuietSafe, StepSafe DEF Leaves

\* The row gets its invoice.
LEMMA RecordSafe ==
  ASSUME IInv, NEW r \in Call, Record(r)
  PROVE  StateSafe' /\ \A s \in Call : CallSafe(s)'
<1>1. /\ Consistency /\ TypeOK /\ StateSafe /\ CallSafe(r) /\ CallConsistent(r)
      /\ call[r].pc = "record"
      /\ UNCHANGED <<processed, used, status, keys, late>>
  BY InvariantParts DEF Consistency, Record
<1>2. CASE RowKept /\ MovesTo(r, "releaseExecutor")
  <2>1. StateSafe' /\ Monotone
    BY <1>1, <1>2, KeptSafe DEF RowKept
  <2> QED BY <1>2, <2>1, QuietSafe, StepSafe DEF RowKept, MovesTo, Owns
<1>3. CASE /\ Owns(r)
           /\ wallet'.op = wallet.op
           /\ wallet'.executor = wallet.executor
           /\ wallet'.invoice = call[r].invoice
           /\ MovesTo(r, "item")
  <2> DEFINE i == call[r].invoice
  <2>1. i \in Invoice /\ i[1] = wallet.op
    BY <1>1, <1>3 DEF TypeOK, CallState, CallConsistent, InvoicePCs, Owns
  <2>2. wallet.invoice = NoInvoice
    BY <1>1, <1>3 DEF CallSafe
  <2>3. StateSafe' /\ Monotone
    BY <1>1, <1>3, <2>1, <2>2, RecordedSafe
  <2>4. CallSafe(r)'
    BY <1>3, <2>1 DEF CallSafe, MovesTo, Safe, Holds
  <2>5. \A s \in Call \ {r} : ~Owns(s)'
    BY <1>3 DEF Owns
  <2> QED BY <1>3, <2>3, <2>4, <2>5, StepSafe DEF MovesTo
<1> QED BY <1>1, <1>2, <1>3, RecordMoves

\* The wallet is credited.
LEMMA CreditSafe ==
  ASSUME IInv, NEW r \in Call, Credit(r)
  PROVE  StateSafe' /\ \A s \in Call : CallSafe(s)'
<1> DEFINE i == call[r].invoice
<1>1. /\ Consistency /\ TypeOK /\ StateSafe /\ CallSafe(r) /\ CallConsistent(r)
      /\ call[r].pc = "credit" /\ processed' = processed \cup {call[r].op}
      /\ UNCHANGED <<used, status, keys, late>>
  BY InvariantParts DEF Consistency, Credit
<1>2. /\ i \in Invoice /\ i[1] = call[r].op /\ i[1] \in used
      /\ status[i] = "paid"
  BY <1>1 DEF TypeOK, CallState, CallConsistent, OpPCs, PCs, InvoicePCs, CallSafe
<1>3. RowKept /\ MovesTo(r, "complete")
  BY <1>1, CreditMoves
<1>4. StateSafe' /\ Monotone
  BY <1>1, <1>2, <1>3, CreditedSafe
<1>5. CallSafe(r)'
  BY <1>1, <1>2, <1>3 DEF CallSafe, MovesTo
<1> QED BY <1>3, <1>4, <1>5, StepSafe DEF RowKept, MovesTo, Owns

\* The row gives its operation up.  What its executor knows is that no invoice
\* of the operation can be charged or credited any more.
LEMMA ClearingSafe ==
  ASSUME IInv, NEW r \in Call,
         Complete(r) \/ Fail(r) \/ Release(r) \/ Abandon(r)
  PROVE  StateSafe' /\ \A s \in Call : CallSafe(s)'
<1>1. /\ Consistency /\ TypeOK /\ StateSafe /\ CallSafe(r) /\ CallConsistent(r)
      /\ UNCHANGED <<processed, used, status, keys, late>>
  BY InvariantParts DEF Consistency, Complete, Fail, Release, Abandon
<1>2. /\ Owns(r) => RowCleared
      /\ ~Owns(r) => RowKept
  BY <1>1, ClearingMoves
<1>3. Leaves(r)
  BY <1>1, ClearingMoves
<1>4. CASE ~Owns(r)
  <2>1. StateSafe' /\ Monotone
    BY <1>1, <1>2, <1>4, KeptSafe DEF RowKept
  <2> QED BY <1>2, <1>3, <1>4, <2>1, QuietSafe, StepSafe
          DEF RowKept, Leaves, Owns
<1>5. CASE Owns(r)
  <2>1. ASSUME NEW i \in Invoice, Holds(i) PROVE Settled(i)
    <3>1. wallet.op = call[r].op /\ wallet.invoice = i /\ i # NoInvoice
      BY <1>5, <2>1, ConstantAssumption DEF Owns, Holds
    <3>2. call[r].pc \in {"complete", "fail", "release", "abandon"}
      BY DEF Complete, Fail, Release, Abandon
    <3>3. call[r].invoice # NoInvoice
      BY <1>1, <1>5, <3>1, <3>2 DEF CallSafe, CallConsistent, InvoicePCs
    <3>4. /\ call[r].invoice \in Invoice
          /\ call[r].invoice[1] = wallet.op
          /\ call[r].pc # "abandon"
      BY <1>1, <3>1, <3>3 DEF TypeOK, CallState, CallConsistent
    <3>5. \/ /\ status[call[r].invoice] \in {"paid", "void", "deleted"}
             /\ status[call[r].invoice] = "paid" => wallet.op \in processed
          \/ Adrift(call[r].invoice)
      BY <1>1, <3>1, <3>2, <3>3, <3>4 DEF CallSafe
    <3>6. call[r].invoice = i
      BY <1>1, <3>1, <3>4, <3>5 DEF StateSafe, StripeSafe, Driven, Adrift
    <3> QED BY <3>4, <3>5, <3>6 DEF Settled
  <2>2. StateSafe' /\ Monotone
    BY <1>1, <1>2, <1>3, <1>5, <2>1, ClearedSafe
  <2>3. \A s \in Call : ~Owns(s)'
    BY <1>2, <1>3, <1>5, ConstantAssumption DEF RowCleared, Owns
  <2> QED BY <1>3, <2>2, <2>3, QuietSafe, StepSafe DEF Leaves
<1> QED BY <1>4, <1>5

-----------------------------------------------------------------------------
LEMMA InvariantNext == IInv /\ [Next]_vars => IInv'
<1> SUFFICES ASSUME IInv, [Next]_vars PROVE IInv'
  OBVIOUS
<1>1. Consistency /\ Consistency'
  BY InvariantParts, ConsistencyNext
<1>2. StateSafe' /\ \A s \in Call : CallSafe(s)'
  <2>1. CASE UNCHANGED vars
    BY <2>1, InvariantParts
       DEF vars, StateSafe, UnusedIsClean, StripeSafe, KeysSafe,
           CreditBackedByPayment, CallSafe, Safe, Holds, Settled, Adrift, Driven, Owns
  <2>2. ASSUME NEW r \in Call, Start(r) \/ CallStep(r) \/ Crash(r)
        PROVE  StateSafe' /\ \A s \in Call : CallSafe(s)'
    BY <2>2, LookupSafe, PostSafe, CreateSafe, ClaimSafe, KeepingSafe,
       RecordSafe, CreditSafe, ClearingSafe DEF CallStep
  <2>3. CASE Environment
    <3>1. StateSafe' /\ Monotone
      BY <1>1, <2>3, InvariantParts, EnvironmentSafe DEF Consistency
    <3>2. RowKept /\ UNCHANGED call
      BY <1>1, <2>3, EnvironmentKeeps DEF Consistency
    <3>3. ASSUME NEW s \in Call PROVE CallSafe(s)'
      BY <1>1, <3>1, <3>2, InvariantParts, OthersSafe DEF RowKept, Owns
    <3> QED BY <3>1, <3>3
  <2> QED BY <2>1, <2>2, <2>3 DEF Next
<1>3. IInv' <=> Consistency' /\ StateSafe' /\ \A s \in Call : CallSafe(s)'
  BY DEF IInv, Consistency, StateSafe
<1> QED BY <1>1, <1>2, <1>3

\* Every reachable state satisfies the inductive invariant: what each call knows
\* of its invoice, what the row may forget, and that only what the row named was
\* ever charged, whatever Stripe forgets and however late payments settle.
THEOREM Invariant == Spec => []IInv
<1>1. IInv /\ [Next]_vars => IInv'
  BY InvariantNext
<1> QED BY <1>1, InvariantInit, PTL DEF Spec

\* Money taken is never lost, for any number of calls, operations and invoices:
\* a paid invoice that is not credited is the one the row names, whatever calls
\* crashed, timed out or lost their lease, and also after Stripe has forgotten
\* the idempotency keys.
THEOREM PaidRecoverable ==
  ASSUME PayMayStayOpen = FALSE
  PROVE  Spec => []PaidIsRecoverable
<1>1. IInv => PaidIsRecoverable
  BY DEF IInv, StripeSafe, Safe, Settled, Adrift, Driven, PaidIsRecoverable
<1> QED BY <1>1, Invariant, PTL

\* An invoice that can still be paid is the one the row names, so that no other
\* operation of the user can be charged meanwhile.
THEOREM PayableHeld ==
  ASSUME PayMayStayOpen = FALSE
  PROVE  Spec => []PayableIsHeld
<1>1. IInv => PayableIsHeld
  BY DEF IInv, StripeSafe, Safe, Settled, Adrift, Driven, PayableIsHeld
<1> QED BY <1>1, Invariant, PTL

\* Money that was taken, or that can still be taken, is of the operation the row
\* names: no call, crash or lost lease leaves an invoice behind.  What is lost is
\* at most a payment that was answered "open"; only if Stripe forgets such an
\* answer as well can the state not tell it any more.
THEOREM MoneyHeld ==
  ASSUME PayMayStayOpen = FALSE \/ KeysExpire = FALSE
  PROVE  Spec => []MoneyIsHeld
<1>1. IInv => MoneyIsHeld
  BY DEF IInv, StripeSafe, Safe, Settled, Adrift, MoneyIsHeld
<1> QED BY <1>1, Invariant, PTL

\* Every credited operation has exactly one paid invoice: nothing is credited
\* unpaid, and nothing is charged twice for one credit, also when a stale executor
\* and its successor drive it, keys are forgotten and payments settle late.
THEOREM CreditBacked == Spec => []CreditBackedByPayment
<1>1. IInv => CreditBackedByPayment
  BY DEF IInv
<1> QED BY <1>1, Invariant, PTL
-----------------------------------------------------------------------------
(* AutoReload implements ReloadLedger. *)

IsPaid(o) == \E n \in InvoiceNo : status[<<o, n>>] = "paid"

\* No operation changes its stage.
LEMMA SameStages ==
  ASSUME wallet'.op = wallet.op, UNCHANGED <<processed, used>>,
         \A o \in Op : IsPaid(o)' <=> IsPaid(o)
  PROVE  stages' = stages
<1>1. \A o \in Op : StageOf(o)' = StageOf(o)
  BY DEF StageOf, IsPaid
<1> QED BY <1>1 DEF stages

\* One operation changes its stage.
LEMMA OneStage ==
  ASSUME NEW o \in Op, NEW from, NEW to, StageOf(o) = from,
         \A p \in Op : StageOf(p)' = IF p = o THEN to ELSE StageOf(p)
  PROVE  /\ stages[o] = from
         /\ stages' = [stages EXCEPT ![o] = to]
BY DEF stages

\* An invoice that becomes paid is the first of its operation, which is not
\* credited.  The row names it, unless its payment settles late.
LEMMA ChargeStep ==
  ASSUME IInv, NEW i \in Invoice, NEW s \in InvoiceStatus, InvoiceMoves(i, s),
         wallet'.op = wallet.op, UNCHANGED <<processed, used>>
  PROVE  Ledger!LedgerNext \/ stages' = stages
<1>1. TypeOK /\ StateSafe
  BY InvariantParts DEF Consistency
<1>2. \A j \in Invoice : status'[j] = IF j = i THEN s ELSE status[j]
  BY <1>1 DEF TypeOK, InvoiceMoves
<1>3. i[1] \in Op /\ \E n \in InvoiceNo : i = <<i[1], n>>
  BY DEF Invoice
<1>4. \A o \in Op, n \in InvoiceNo : <<o, n>> \in Invoice /\ <<o, n>>[1] = o
  BY DEF Invoice
<1>5. CASE status[i] # "open" \/ s # "paid"
  <2>1. s = "paid" <=> status[i] = "paid"
    BY <1>5 DEF InvoiceMoves
  <2>2. \A o \in Op : IsPaid(o)' <=> IsPaid(o)
    BY <1>2, <1>4, <2>1 DEF IsPaid
  <2> QED BY <2>2, SameStages
<1>6. CASE status[i] = "open" /\ s = "paid"
  <2> DEFINE o == i[1]
             from == IF wallet.op = o THEN "held" ELSE "dropped"
             to == IF wallet.op = o THEN "charged" ELSE "stray"
  <2>1. wallet.op = o \/ PayMayStayOpen
    BY <1>1, <1>6 DEF StateSafe, StripeSafe, Safe, Holds, Settled, Adrift
  <2>2. ~IsPaid(o)
    <3> SUFFICES ASSUME NEW n \in InvoiceNo, status[<<o, n>>] = "paid"
                 PROVE  FALSE
      BY DEF IsPaid
    <3>1. <<o, n>> = i
      BY <1>1, <1>3, <1>4, <1>6 DEF StateSafe, StripeSafe, Driven
    <3> QED BY <1>6, <3>1
  <2>3. o \notin processed /\ o \in used
    BY <1>1, <1>3, <1>6, <2>2
       DEF StateSafe, CreditBackedByPayment, UnusedIsClean, IsPaid
  <2>4. StageOf(o) = from
    BY <2>2, <2>3 DEF StageOf, IsPaid
  <2>5. ASSUME NEW p \in Op
        PROVE  StageOf(p)' = IF p = o THEN to ELSE StageOf(p)
    <3>1. CASE p = o
      <4>1. IsPaid(p)'
        BY <1>2, <1>3, <1>6, <3>1 DEF IsPaid
      <4> QED BY <2>3, <3>1, <4>1 DEF StageOf, IsPaid
    <3>2. CASE p # o
      <4>1. \A n \in InvoiceNo : status'[<<p, n>>] = status[<<p, n>>]
        BY <1>2, <1>4, <3>2
      <4> QED BY <3>2, <4>1 DEF StageOf
    <3> QED BY <3>1, <3>2
  <2>6. o \in Op
    BY <1>3
  <2> HIDE DEF o
  <2>7. stages[o] = from /\ stages' = [stages EXCEPT ![o] = to]
    BY <2>4, <2>5, <2>6, OneStage
  <2>8. Ledger!Charge(o) \/ Ledger!Stray(o)
    BY <2>1, <2>7 DEF Ledger!Charge, Ledger!Stray, Ledger!Moves, stages
  <2> QED BY <2>6, <2>8 DEF Ledger!LedgerNext
<1> QED BY <1>5, <1>6

\* A claim begins an operation only when no other is held or charged.
LEMMA BeginStep ==
  ASSUME IInv, NEW r \in Call, ClaimNew(r)
  PROVE  Ledger!LedgerNext
<1>1. TypeOK /\ StateSafe
  BY InvariantParts DEF Consistency
<1>2. wallet.op = NoOp /\ UNCHANGED <<processed, status>>
  BY DEF ClaimNew
<1>3. PICK o \in Op \ used : used' = used \cup {o} /\ wallet'.op = o
  BY <1>1, ClaimNewFields
<1>4. \A p \in Op : p # NoOp
  BY ConstantAssumption
<1>5. \A p \in Op : StageOf(p) \notin {"held", "charged"}
  BY <1>2, <1>4 DEF StageOf
<1>6. o \notin processed /\ ~IsPaid(o)
  BY <1>1 DEF StateSafe, UnusedIsClean, IsPaid
<1>7. StageOf(o) = "unused"
  BY <1>2, <1>4, <1>6 DEF StageOf, IsPaid
<1>8. ASSUME NEW p \in Op
      PROVE  StageOf(p)' = IF p = o THEN "held" ELSE StageOf(p)
  BY <1>2, <1>3, <1>4, <1>6 DEF StageOf, IsPaid
<1>9. stages[o] = "unused" /\ stages' = [stages EXCEPT ![o] = "held"]
  BY <1>7, <1>8, OneStage
<1>10. Ledger!Begin(o)
  BY <1>5, <1>9 DEF Ledger!Begin, Ledger!Moves, stages
<1> QED BY <1>10 DEF Ledger!LedgerNext

\* A credit moves an operation on that was charged, or was made before.
LEMMA CreditStep ==
  ASSUME IInv, NEW r \in Call, Credit(r)
  PROVE  Ledger!LedgerNext \/ stages' = stages
<1> DEFINE o == call[r].op
           i == call[r].invoice
<1>1. /\ Consistency /\ TypeOK /\ CallConsistent(r) /\ CallSafe(r)
      /\ call[r].pc = "credit" /\ processed' = processed \cup {o}
      /\ UNCHANGED <<used, status>>
  BY InvariantParts DEF Consistency, Credit
<1>2. o \in Op /\ i \in Invoice /\ i[1] = o /\ status[i] = "paid"
  BY <1>1 DEF TypeOK, CallState, CallConsistent, OpPCs, PCs, InvoicePCs, CallSafe
<1>3. wallet'.op = wallet.op
  BY <1>1, CreditMoves DEF RowKept
<1>4. IsPaid(o)
  <2>1. \E n \in InvoiceNo : i = <<i[1], n>>
    BY <1>2 DEF Invoice
  <2> QED BY <1>2, <2>1 DEF IsPaid
<1>5. CASE o \in processed
  <2>1. processed' = processed
    BY <1>1, <1>5
  <2> QED BY <1>1, <1>3, <2>1, SameStages DEF IsPaid
<1>6. CASE o \notin processed
  <2>1. StageOf(o) \in {"charged", "stray"}
    BY <1>4, <1>6 DEF StageOf, IsPaid
  <2> HIDE DEF o
  <2>2. ASSUME NEW p \in Op
        PROVE  StageOf(p)' = IF p = o THEN "credited" ELSE StageOf(p)
    BY <1>1, <1>3 DEF StageOf
  <2>3. /\ stages[o] \in {"charged", "stray"}
        /\ stages' = [stages EXCEPT ![o] = "credited"]
    BY <1>2, <2>1, <2>2, OneStage
  <2>4. Ledger!CreditWallet(o)
    BY <2>3 DEF Ledger!CreditWallet, Ledger!Moves, stages
  <2> QED BY <1>2, <2>4 DEF Ledger!LedgerNext
<1> QED BY <1>5, <1>6

\* An operation that leaves the row is dropped, was credited or goes astray.
LEMMA ClearStep ==
  ASSUME IInv, NEW r \in Call,
         Complete(r) \/ Fail(r) \/ Release(r) \/ Abandon(r)
  PROVE  Ledger!LedgerNext \/ stages' = stages
<1> DEFINE o == wallet.op
<1>1. /\ TypeOK /\ CallConsistent(r) /\ StateSafe
      /\ UNCHANGED <<processed, used, status>>
  BY InvariantParts DEF Consistency, Complete, Fail, Release, Abandon
<1>2. CASE ~Owns(r)
  <2>1. wallet'.op = wallet.op
    BY <1>1, <1>2, ClearingMoves DEF RowKept
  <2> QED BY <1>1, <2>1, SameStages DEF IsPaid
<1>3. CASE Owns(r)
  <2>1. wallet'.op = NoOp /\ o \in Op /\ o \in used
    <3>1. call[r].op \in used
      BY <1>1 DEF Complete, Fail, Release, Abandon, CallConsistent, OpPCs, PCs
    <3> QED BY <1>1, <1>3, <3>1, ClearingMoves DEF RowCleared, Owns, TypeOK
  <2>2. \A p \in Op : p # NoOp
    BY ConstantAssumption
  <2>3. StateSafe'
    BY ClearingSafe
  <2>4. IsPaid(o) => o \in processed \/ PayMayStayOpen
    <3> SUFFICES ASSUME NEW n \in InvoiceNo, status[<<o, n>>] = "paid"
                 PROVE  o \in processed \/ PayMayStayOpen
      BY DEF IsPaid
    <3>1. <<o, n>> \in Invoice
      BY <2>1 DEF Invoice
    <3> QED BY <1>1, <2>1, <2>2, <2>3, <3>1
            DEF StateSafe, StripeSafe, Safe, Holds, Settled, Adrift
  <2> HIDE DEF o
  <2>5. CASE o \in processed
    <3>1. ASSUME NEW p \in Op PROVE StageOf(p)' = StageOf(p)
      BY <1>1, <2>1, <2>2, <2>5 DEF StageOf, o
    <3> QED BY <3>1 DEF stages
  <2>6. CASE o \notin processed
    <3> DEFINE from == IF IsPaid(o) THEN "charged" ELSE "held"
               to == IF IsPaid(o) THEN "stray" ELSE "dropped"
    <3>1. StageOf(o) = from
      BY <2>6 DEF StageOf, IsPaid, o
    <3>2. ASSUME NEW p \in Op
          PROVE  StageOf(p)' = IF p = o THEN to ELSE StageOf(p)
      <4>1. CASE p = o
        BY <1>1, <2>1, <2>2, <2>6, <4>1 DEF StageOf, IsPaid
      <4>2. CASE p # o
        BY <1>1, <2>1, <2>2, <4>2 DEF StageOf, o
      <4> QED BY <4>1, <4>2
    <3>3. stages[o] = from /\ stages' = [stages EXCEPT ![o] = to]
      BY <2>1, <3>1, <3>2, OneStage
    <3>4. Ledger!Drop(o) \/ Ledger!Stray(o)
      BY <2>4, <2>6, <3>3 DEF Ledger!Drop, Ledger!Stray, Ledger!Moves, stages
    <3> QED BY <2>1, <3>4 DEF Ledger!LedgerNext
  <2> QED BY <2>5, <2>6
<1> QED BY <1>2, <1>3

\* What a request to Stripe, answered or not, can change.
LEMMA PostStatus ==
  ASSUME TypeOK, NEW kind, NEW i \in Invoice, NEW cents \in Nat,
         kind \in {"finalize", "delete"} => Safe(i),
         Effect(kind, i, cents) \/ Unanswered(kind, i, cents)
  PROVE  \/ UNCHANGED status
         \/ \E s \in InvoiceStatus : InvoiceMoves(i, s)
<1>1. CASE Effect(kind, i, cents)
  BY <1>1, EffectMoves
<1>2. CASE UNCHANGED status
  BY <1>2
<1> QED BY <1>1, <1>2 DEF Unanswered

LEMMA PostStep ==
  ASSUME IInv, NEW r \in Call,
         \/ Retire(r) \/ AddItem(r) \/ Finalize(r) \/ Pay(r) \/ VoidDeclined(r)
         \/ Create(r)
  PROVE  Ledger!LedgerNext \/ stages' = stages
<1>1. /\ TypeOK /\ CallConsistent(r) /\ CallSafe(r)
      /\ UNCHANGED <<wallet, processed, used>>
  BY InvariantParts DEF Consistency, Retire, AddItem, Finalize, Pay,
                        VoidDeclined, Create
<1>2. ASSUME NEW kind, NEW i \in Invoice, NEW cents \in Nat,
             kind \in {"finalize", "delete"} => Safe(i),
             Effect(kind, i, cents) \/ Unanswered(kind, i, cents)
      PROVE  Ledger!LedgerNext \/ stages' = stages
  <2>1. CASE UNCHANGED status
    BY <1>1, <2>1, SameStages DEF IsPaid
  <2>2. CASE \E s \in InvoiceStatus : InvoiceMoves(i, s)
    BY <1>1, <2>2, ChargeStep
  <2> QED BY <1>1, <1>2, <2>1, <2>2, PostStatus
<1>3. CASE Create(r)
  <2>1. /\ call[r].op \in Op /\ 0 \in Nat
        /\ \A n \in InvoiceNo : <<call[r].op, n>> \in Invoice
    BY <1>1, <1>3 DEF Create, CallConsistent, OpPCs, PCs, TypeOK, Invoice
  <2>2. CASE UNCHANGED <<status, billed, keys, late>>
    BY <1>1, <2>2, SameStages DEF IsPaid
  <2>3. CASE \E n \in InvoiceNo :
               \/ Effect("create", <<call[r].op, n>>, 0)
               \/ Unanswered("create", <<call[r].op, n>>, 0)
    BY <1>2, <2>1, <2>3
  <2> QED BY <1>1, <1>3, <2>2, <2>3, CreateMoves
<1>4. CASE ~Create(r)
  <2> DEFINE i == call[r].invoice
             cents == call[r].cents
  <2>1. call[r].pc \in {"retire", "item", "finalize", "pay", "voidDeclined"}
    BY <1>4 DEF Retire, AddItem, Finalize, Pay, VoidDeclined
  <2>2. i \in Invoice /\ cents \in Nat /\ 0 \in Nat
    BY <1>1, <2>1 DEF CallConsistent, InvoicePCs, TypeOK, CallState
  <2>3. call[r].pc \in {"retire", "finalize"} => Safe(i)
    BY <1>1, <2>2, ConstantAssumption DEF CallSafe
  <2> HIDE DEF i, cents
  <2>4. CASE Retire(r)
    <3>1. \E kind \in {"delete", "void"} :
            Effect(kind, i, 0) \/ Unanswered(kind, i, 0)
      BY <1>1, <2>4, PostMoves DEF i
    <3>2. Safe(i)
      BY <2>3, <2>4 DEF Retire
    <3> QED BY <1>2, <2>2, <3>1, <3>2
  <2>5. CASE AddItem(r)
    <3>1. Effect("item", i, cents) \/ Unanswered("item", i, cents)
      BY <1>1, <2>5, PostMoves DEF i, cents
    <3> QED BY <1>2, <2>2, <3>1
  <2>6. CASE Finalize(r)
    <3>1. Effect("finalize", i, 0) \/ Unanswered("finalize", i, 0)
      BY <1>1, <2>6, PostMoves DEF i
    <3>2. Safe(i)
      BY <2>3, <2>6 DEF Finalize
    <3> QED BY <1>2, <2>2, <3>1, <3>2
  <2>7. CASE Pay(r)
    <3>1. Effect("pay", i, 0) \/ Unanswered("pay", i, 0)
      BY <1>1, <2>7, PostMoves DEF i
    <3> QED BY <1>2, <2>2, <3>1
  <2>8. CASE VoidDeclined(r)
    <3>1. Effect("void", i, 0) \/ Unanswered("void", i, 0)
      BY <1>1, <2>8, PostMoves DEF i
    <3> QED BY <1>2, <2>2, <3>1
  <2> QED BY <1>4, <2>4, <2>5, <2>6, <2>7, <2>8
<1> QED BY <1>3, <1>4

\* The steps that change no operation's stage.
LEMMA QuietStep ==
  ASSUME IInv, NEW r \in Call,
         \/ Start(r) \/ FirstDebit(r) \/ ClaimExpired(r) \/ ClaimFollow(r)
         \/ ClaimRefused(r) \/ Reconcile(r) \/ Recheck(r) \/ Prepare(r)
         \/ Retrieve(r) \/ Record(r) \/ CountSuccess(r) \/ CountFailure(r)
         \/ ReleaseExecutor(r) \/ MutationThrows(r) \/ DebitFunded(r)
         \/ DebitCovered(r) \/ Crash(r)
  PROVE  stages' = stages
<1>1. TypeOK
  BY InvariantParts DEF Consistency
<1>2. UNCHANGED <<processed, used, status>>
  BY DEF Start, FirstDebit, ClaimExpired, ClaimFollow, ClaimRefused, Reconcile,
         Recheck, Prepare, Retrieve, Record, CountSuccess, CountFailure,
         ReleaseExecutor, MutationThrows, DebitFunded, DebitCovered, Crash
<1>3. wallet'.op = wallet.op
  <2>1. CASE \/ Start(r) \/ ClaimFollow(r) \/ ClaimRefused(r) \/ Reconcile(r)
             \/ Recheck(r) \/ Prepare(r) \/ Retrieve(r) \/ MutationThrows(r)
    BY <2>1 DEF Start, ClaimFollow, ClaimRefused, Reconcile, Recheck, Prepare,
                Retrieve, MutationThrows
  <2>2. CASE FirstDebit(r)
    BY <1>1, <2>2, DebitFields DEF FirstDebit
  <2>3. CASE ClaimExpired(r) \/ Record(r) \/ ReleaseExecutor(r)
    BY <1>1, <2>3, ClaimExpiredFields, RecordMoves, ReleaseExecutorMoves
       DEF RowKept
  <2>4. CASE \/ CountSuccess(r) \/ CountFailure(r) \/ DebitFunded(r)
             \/ DebitCovered(r) \/ Crash(r)
    BY <1>1, <2>4, KeepingMoves DEF RowKept
  <2> QED BY <2>1, <2>2, <2>3, <2>4
<1> QED BY <1>2, <1>3, SameStages DEF IsPaid

LEMMA EnvironmentStep ==
  ASSUME IInv, Environment
  PROVE  Ledger!LedgerNext \/ stages' = stages
<1>1. TypeOK /\ StateSafe /\ wallet'.op = wallet.op /\ UNCHANGED <<processed, used>>
  BY InvariantParts, EnvironmentKeeps DEF Consistency, RowKept
<1>2. CASE LatePost
  <2>1. PICK m \in late : Effect(m[1], m[2], m[3])
    BY <1>2 DEF LatePost
  <2>2. /\ m[2] \in Invoice /\ m[3] \in Nat
        /\ m[1] \in {"finalize", "delete"} => Safe(m[2])
    BY <1>1, <2>1, LateInvoices DEF StateSafe, StripeSafe
  <2>3. \E s \in InvoiceStatus : InvoiceMoves(m[2], s)
    BY <1>1, <2>1, <2>2, EffectMoves
  <2> QED BY <1>1, <2>2, <2>3, ChargeStep
<1>3. CASE PaymentSettles
  <2>1. PICK i \in Invoice :
          /\ status[i] = "open"
          /\ status' = [status EXCEPT ![i] = "paid"]
          /\ UNCHANGED keys
    BY <1>3 DEF PaymentSettles
  <2>2. "paid" \in InvoiceStatus /\ InvoiceMoves(i, "paid")
    BY <2>1 DEF InvoiceMoves, InvoiceStatus
  <2> QED BY <1>1, <2>2, ChargeStep
<1>4. CASE UNCHANGED status
  BY <1>1, <1>4, SameStages DEF IsPaid
<1>5. ~LatePost /\ ~PaymentSettles => UNCHANGED status
  BY DEF Environment, ForgetKeys, LeaseExpires, CooldownEnds, MonthRolls,
         Refund, UpdateSettings
<1> QED BY <1>2, <1>3, <1>4, <1>5

\* Auto-reload implements the ledger: for any number of calls, operations and
\* invoices an operation is charged at most once, is credited only if it was
\* charged, and no other operation begins while one may still be charged or is
\* charged and not yet credited.  An operation goes astray only if payments may
\* settle after they were answered.
THEOREM Refinement == Spec => ImplementsLedger
<1>1. Init => Ledger!LedgerInit
  <2> SUFFICES ASSUME Init, NEW o \in Op PROVE StageOf(o) = "unused"
    BY DEF Ledger!LedgerInit, stages
  <2>1. /\ \A n \in InvoiceNo : status[<<o, n>>] = "none"
        /\ wallet.op # o /\ processed = {} /\ used = {}
    BY ConstantAssumption DEF Init, Invoice
  <2> QED BY <2>1 DEF StageOf
<1>2. IInv /\ [Next]_vars => [Ledger!LedgerNext]_stages
  <2> SUFFICES ASSUME IInv, [Next]_vars
               PROVE  Ledger!LedgerNext \/ stages' = stages
    OBVIOUS
  <2>1. CASE UNCHANGED vars
    BY <2>1, SameStages DEF vars, IsPaid
  <2>2. ASSUME NEW r \in Call, Start(r) \/ CallStep(r) \/ Crash(r)
        PROVE  Ledger!LedgerNext \/ stages' = stages
    BY <2>2, QuietStep, BeginStep, PostStep, CreditStep, ClearStep DEF CallStep
  <2> QED BY <2>1, <2>2, EnvironmentStep DEF Next
<1> QED BY <1>1, <1>2, Invariant, PTL DEF Spec, ImplementsLedger, Ledger!LedgerSpec
-----------------------------------------------------------------------------
\* The answer of a call.  A call debits at most twice, in FirstDebit and after
\* a top-up; that it succeeds at most once rests on requestNeedsReload: a call
\* reaches the second debit only if it needed a top-up, and then the first one
\* found too low a balance.

DebitsOnce(r) ==
  LET c == call[r]
  IN  /\ c.debits \in {0, 1}
      /\ c.ok <=> c.debits = 1
      /\ c.pc = "debit" \/ c.needs => c.debits = 0
      /\ c.pc \in {"debitFunded", "debitCovered"} => c.needs

\* A step of one call leaves what the others know alone.
LEMMA OneCallDebits ==
  ASSUME TypeOK, \A s \in Call : DebitsOnce(s), NEW r \in Call, NEW c,
         call' = [call EXCEPT ![r] = c],
         /\ c.debits \in {0, 1}
         /\ c.ok <=> c.debits = 1
         /\ c.pc = "debit" \/ c.needs => c.debits = 0
         /\ c.pc \in {"debitFunded", "debitCovered"} => c.needs
  PROVE  \A s \in Call : DebitsOnce(s)'
BY DEF DebitsOnce, TypeOK

LEMMA IdleDebits ==
  ASSUME TypeOK, \A s \in Call : DebitsOnce(s), NEW r \in Call,
         Return(r) \/ call' = [call EXCEPT ![r] = IdleCall]
  PROVE  \A s \in Call : DebitsOnce(s)'
<1>1. CASE Return(r)
  <2>1. /\ Answer(call[r]).debits = call[r].debits
        /\ Answer(call[r]).ok = call[r].ok
        /\ Answer(call[r]).pc = "idle"
        /\ Answer(call[r]).needs = FALSE
    BY DEF Answer, IdleCall
  <2> QED BY <1>1, <2>1, OneCallDebits DEF Return, DebitsOnce
<1>2. CASE call' = [call EXCEPT ![r] = IdleCall]
  <2> DEFINE c == IdleCall
  <2>1. /\ c.debits = 0 /\ c.debits \in {0, 1} /\ c.pc = "idle"
        /\ c.ok <=> c.debits = 1
        /\ c.pc = "debit" \/ c.needs => c.debits = 0
        /\ c.pc \in {"debitFunded", "debitCovered"} => c.needs
    BY DEF IdleCall
  <2>2. call' = [call EXCEPT ![r] = c]
    BY <1>2
  <2> HIDE DEF c
  <2> QED BY <2>1, <2>2, OneCallDebits
<1> QED BY <1>1, <1>2

\* A step after which the call has debited what it had debited before.
LEMMA GoesOnDebits ==
  ASSUME TypeOK, \A s \in Call : DebitsOnce(s), NEW r \in Call, NEW c,
         call' = [call EXCEPT ![r] = c],
         /\ c.debits = call[r].debits
         /\ c.ok = call[r].ok
         /\ c.needs = call[r].needs
         /\ c.pc # "debit"
         /\ c.pc \in {"debitFunded", "debitCovered"} => c.needs
  PROVE  \A s \in Call : DebitsOnce(s)'
BY OneCallDebits DEF DebitsOnce

LEMMA GotoDebits ==
  ASSUME TypeOK, \A s \in Call : DebitsOnce(s), NEW r \in Call, NEW pc,
         Goto(r, pc), pc # "debit",
         pc \in {"debitFunded", "debitCovered"} => call[r].needs
  PROVE  \A s \in Call : DebitsOnce(s)'
<1> DEFINE c == [call[r] EXCEPT !.pc = pc]
<1>1. /\ c.debits = call[r].debits /\ c.ok = call[r].ok
      /\ c.needs = call[r].needs /\ c.pc = pc
  BY DEF TypeOK, CallState
<1>2. call' = [call EXCEPT ![r] = c]
  BY DEF Goto, TypeOK
<1> QED BY <1>1, <1>2, GoesOnDebits

\* What a debit does to the call that makes it.
LEMMA DebitAnswers ==
  ASSUME TypeOK, NEW r \in Call, DebitsOnce(r), call[r].debits = 0
  PROVE  /\ AfterDebit(r).debits \in {0, 1}
         /\ AfterDebit(r).ok <=> AfterDebit(r).debits = 1
         /\ AfterDebit(r).debits = 1 => Debitable(call[r].want)
         /\ Answer(AfterDebit(r)).debits = AfterDebit(r).debits
         /\ Answer(AfterDebit(r)).ok = AfterDebit(r).ok
         /\ Answer(AfterDebit(r)).pc = "idle"
         /\ Answer(AfterDebit(r)).needs = FALSE
<1>1. call[r] \in CallState /\ AfterDebit(r) \in CallState
  BY DebitType DEF TypeOK
<1>2. /\ Answer(AfterDebit(r)).debits = AfterDebit(r).debits
      /\ Answer(AfterDebit(r)).ok = AfterDebit(r).ok
      /\ Answer(AfterDebit(r)).pc = "idle"
      /\ Answer(AfterDebit(r)).needs = FALSE
  BY DEF Answer, IdleCall
<1>3. CASE Debitable(call[r].want)
  <2>1. AfterDebit(r) = [call[r] EXCEPT !.ok = TRUE, !.debits = call[r].debits + 1]
    BY <1>1, <1>3 DEF AfterDebit, CallState
  <2>2. AfterDebit(r).ok = TRUE /\ AfterDebit(r).debits = 1
    BY <1>1, <2>1 DEF CallState
  <2> QED BY <1>2, <1>3, <2>2
<1>4. CASE ~Debitable(call[r].want)
  <2>1. AfterDebit(r) = [call[r] EXCEPT !.ok = FALSE]
    BY <1>4 DEF AfterDebit
  <2>2. AfterDebit(r).ok = FALSE /\ AfterDebit(r).debits = 0
    BY <1>1, <2>1 DEF CallState
  <2> QED BY <1>2, <1>4, <2>2
<1> QED BY <1>3, <1>4

LEMMA StartDebits ==
  ASSUME TypeOK, \A s \in Call : DebitsOnce(s), NEW r \in Call, Start(r)
  PROVE  \A s \in Call : DebitsOnce(s)'
<1>1. PICK amount \in Amounts :
        call' = [call EXCEPT ![r] =
                   [IdleCall EXCEPT !.pc = "debit", !.want = amount,
                                    !.pending = (wallet.op # NoOp),
                                    !.armed = wallet.enabled,
                                    !.floor = wallet.threshold]]
  BY DEF Start
<1> DEFINE c == [IdleCall EXCEPT !.pc = "debit", !.want = amount,
                                 !.pending = (wallet.op # NoOp),
                                 !.armed = wallet.enabled,
                                 !.floor = wallet.threshold]
<1>2. /\ c.debits \in {0, 1}
      /\ c.ok <=> c.debits = 1
      /\ c.pc = "debit" \/ c.needs => c.debits = 0
      /\ c.pc \in {"debitFunded", "debitCovered"} => c.needs
  BY DEF IdleCall
<1>3. call' = [call EXCEPT ![r] = c]
  BY <1>1
<1> HIDE DEF c
<1> QED BY <1>2, <1>3, OneCallDebits

LEMMA FirstDebitDebits ==
  ASSUME TypeOK, \A s \in Call : DebitsOnce(s), NEW r \in Call, FirstDebit(r)
  PROVE  \A s \in Call : DebitsOnce(s)'
<1> DEFINE needs == wallet.balance < call[r].want
           low == /\ Debitable(call[r].want)
                  /\ wallet.balance - call[r].want <= call[r].floor
           c == [AfterDebit(r) EXCEPT !.pc = "claim", !.needs = needs,
                   !.low = low, !.pending = FALSE, !.armed = FALSE, !.floor = 0]
<1>1. call[r].debits = 0 /\ AfterDebit(r) \in CallState
  BY DebitType DEF FirstDebit, DebitsOnce
<1>2. /\ c.debits = AfterDebit(r).debits /\ c.ok = AfterDebit(r).ok
      /\ c.pc = "claim" /\ c.needs = needs
  BY <1>1 DEF CallState
<1>3. needs => ~Debitable(call[r].want)
  BY DEF TypeOK, Wallet, CallState, Debitable
<1>4. CASE call' = [call EXCEPT ![r] = c]
  BY <1>1, <1>2, <1>3, <1>4, DebitAnswers, OneCallDebits
<1>5. CASE call' = [call EXCEPT ![r] = Answer(AfterDebit(r))]
  BY <1>1, <1>5, DebitAnswers, OneCallDebits
<1> QED BY <1>4, <1>5 DEF FirstDebit

\* The second round of the loop keeps what was debited.
LEMMA NextAttemptDebits ==
  ASSUME TypeOK, \A s \in Call : DebitsOnce(s), NEW r \in Call,
         call' = [call EXCEPT ![r] = NextAttempt(r)]
  PROVE  \A s \in Call : DebitsOnce(s)'
<1>1. /\ NextAttempt(r).debits = call[r].debits
      /\ NextAttempt(r).ok = call[r].ok
      /\ NextAttempt(r).needs = call[r].needs
      /\ NextAttempt(r).pc = "claim"
  BY DEF NextAttempt, TypeOK, CallState
<1> QED BY <1>1, GoesOnDebits

LEMMA SecondDebitDebits ==
  ASSUME TypeOK, \A s \in Call : DebitsOnce(s), NEW r \in Call,
         DebitFunded(r) \/ DebitCovered(r)
  PROVE  \A s \in Call : DebitsOnce(s)'
<1>1. call[r].debits = 0
  BY DEF DebitFunded, DebitCovered, DebitsOnce
<1>2. CASE call' = [call EXCEPT ![r] = Answer(AfterDebit(r))]
  BY <1>1, <1>2, DebitAnswers, OneCallDebits
<1>3. CASE call' = [call EXCEPT ![r] = NextAttempt(r)]
  BY <1>3, NextAttemptDebits
<1> QED BY <1>2, <1>3 DEF DebitFunded, DebitCovered

LEMMA ClaimDebits ==
  ASSUME TypeOK, \A s \in Call : DebitsOnce(s), NEW r \in Call,
         ClaimNew(r) \/ ClaimExpired(r) \/ ClaimFollow(r) \/ ClaimRefused(r)
  PROVE  \A s \in Call : DebitsOnce(s)'
<1>1. call[r] \in CallState
  BY DEF TypeOK
<1>2. ASSUME NEW pc, NEW o, NEW f, NEW n, NEW i, NEW p,
             pc \notin {"debit", "debitFunded", "debitCovered"},
             call' = [call EXCEPT ![r] =
                        [call[r] EXCEPT !.pc = pc, !.op = o, !.fresh = f,
                           !.cents = n, !.invoice = i, !.mayPay = p]]
      PROVE  \A s \in Call : DebitsOnce(s)'
  <2> DEFINE c == [call[r] EXCEPT !.pc = pc, !.op = o, !.fresh = f,
                     !.cents = n, !.invoice = i, !.mayPay = p]
  <2>1. /\ c.debits = call[r].debits /\ c.ok = call[r].ok
        /\ c.needs = call[r].needs /\ c.pc = pc
    BY <1>1 DEF CallState
  <2> QED BY <1>2, <2>1, GoesOnDebits
<1>3. CASE ClaimNew(r)
  <2> DEFINE due == call[r].needs \/ call[r].low
             pc == IF due THEN "prepare" ELSE "release"
  <2>1. PICK o : call' = [call EXCEPT ![r] =
                   [call[r] EXCEPT !.pc = pc, !.op = o, !.fresh = TRUE,
                      !.cents = Evaluation(r).cents, !.invoice = NoInvoice,
                      !.mayPay = due]]
    BY <1>1, <1>3 DEF ClaimNew, TypeOK
  <2>2. pc \notin {"debit", "debitFunded", "debitCovered"}
    OBVIOUS
  <2> QED BY <1>2, <2>1, <2>2
<1>4. CASE ClaimExpired(r)
  <2> DEFINE mayPay == (call[r].needs \/ call[r].low) /\ ResumeAllowed(r)
             pc == IF wallet.invoice # NoInvoice THEN "reconcile"
                   ELSE IF mayPay THEN "prepare" ELSE "release"
  <2>1. call' = [call EXCEPT ![r] =
                   [call[r] EXCEPT !.pc = pc, !.op = wallet.op, !.fresh = FALSE,
                      !.cents = wallet.cents, !.invoice = wallet.invoice,
                      !.mayPay = mayPay]]
    BY <1>1, <1>4 DEF ClaimExpired, TypeOK
  <2>2. pc \notin {"debit", "debitFunded", "debitCovered"}
    OBVIOUS
  <2> QED BY <1>2, <2>1, <2>2
<1>5. CASE ClaimFollow(r)
  <2>1. CASE Return(r)
    BY <2>1, IdleDebits
  <2>2. CASE call' = [call EXCEPT ![r].polls = @ + 1]
    <3> DEFINE c == [call[r] EXCEPT !.polls = call[r].polls + 1]
    <3>1. /\ c.debits = call[r].debits /\ c.ok = call[r].ok
          /\ c.needs = call[r].needs /\ c.pc = call[r].pc
      BY <1>1 DEF CallState
    <3>2. call' = [call EXCEPT ![r] = c] /\ call[r].pc = "claim"
      BY <1>1, <1>5, <2>2 DEF TypeOK, CallState, ClaimFollow
    <3> QED BY <3>1, <3>2, GoesOnDebits
  <2> QED BY <1>5, <2>1, <2>2 DEF ClaimFollow
<1>6. CASE ClaimRefused(r)
  BY <1>6, IdleDebits, GotoDebits DEF ClaimRefused
<1> QED BY <1>3, <1>4, <1>5, <1>6

\* Steps that read an invoice, or ask Stripe for a change, and move on.
LEMMA MoveDebits ==
  ASSUME TypeOK, \A s \in Call : DebitsOnce(s), NEW r \in Call, NEW pc, NEW v,
         call' = [call EXCEPT ![r].view = v, ![r].pc = pc],
         pc \notin {"debit", "debitFunded", "debitCovered"}
  PROVE  \A s \in Call : DebitsOnce(s)'
<1> DEFINE c == [call[r] EXCEPT !.view = v, !.pc = pc]
<1>1. /\ c.debits = call[r].debits /\ c.ok = call[r].ok
      /\ c.needs = call[r].needs /\ c.pc = pc
  BY DEF TypeOK, CallState
<1>2. call' = [call EXCEPT ![r] = c]
  BY DEF TypeOK
<1> QED BY <1>1, <1>2, GoesOnDebits

LEMMA InvoiceDebits ==
  ASSUME TypeOK, \A s \in Call : DebitsOnce(s), NEW r \in Call,
         \/ Reconcile(r) \/ Retire(r) \/ Recheck(r) \/ Prepare(r)
         \/ Retrieve(r) \/ Create(r) \/ AddItem(r) \/ Finalize(r)
         \/ Pay(r) \/ VoidDeclined(r)
  PROVE  \A s \in Call : DebitsOnce(s)'
<1> DEFINE Away == {"debit", "debitFunded", "debitCovered"}
<1>1. CASE Reconcile(r)
  <2> DEFINE s == status[call[r].invoice]
             pc == IF s = "paid" THEN "credit"
                   ELSE IF s \in {"deleted", "void"} THEN "release"
                   ELSE IF call[r].mayPay THEN "prepare"
                   ELSE "retire"
  <2>1. pc \notin Away
    OBVIOUS
  <2>2. \/ call' = [call EXCEPT ![r].view = s, ![r].pc = pc]
        \/ Goto(r, "releaseExecutor")
    BY <1>1 DEF Reconcile
  <2> QED BY <2>1, <2>2, MoveDebits, GotoDebits
<1>2. CASE Retrieve(r)
  <2> DEFINE s == status[call[r].invoice]
             pc == IF s = "draft" THEN "item"
                   ELSE IF s = "open" THEN "pay"
                   ELSE IF s = "paid" THEN "credit"
                   ELSE IF s = "void" THEN "fail"
                   ELSE PreChargeExit(r)
  <2>1. pc \notin Away
    BY DEF PreChargeExit
  <2>2. \/ call' = [call EXCEPT ![r].view = s, ![r].pc = pc]
        \/ Goto(r, "releaseExecutor")
    BY <1>2 DEF Retrieve
  <2> QED BY <2>1, <2>2, MoveDebits, GotoDebits
<1>3. CASE Create(r)
  <2>1. \/ \E n \in InvoiceNo :
             call' = [call EXCEPT ![r].pc = "record",
                                  ![r].invoice = <<call[r].op, n>>,
                                  ![r].view = "draft"]
        \/ Goto(r, "releaseExecutor")
        \/ Goto(r, PreChargeExit(r))
    BY <1>3 DEF Create
  <2>2. ASSUME NEW n \in InvoiceNo,
               call' = [call EXCEPT ![r].pc = "record",
                                    ![r].invoice = <<call[r].op, n>>,
                                    ![r].view = "draft"]
        PROVE  \A s \in Call : DebitsOnce(s)'
    <3> DEFINE c == [call[r] EXCEPT !.pc = "record",
                       !.invoice = <<call[r].op, n>>, !.view = "draft"]
    <3>1. /\ c.debits = call[r].debits /\ c.ok = call[r].ok
          /\ c.needs = call[r].needs /\ c.pc = "record"
      BY DEF TypeOK, CallState
    <3>2. call' = [call EXCEPT ![r] = c]
      BY <2>2 DEF TypeOK
    <3> QED BY <3>1, <3>2, GoesOnDebits
  <2>3. PreChargeExit(r) \notin Away
    BY DEF PreChargeExit
  <2> QED BY <2>1, <2>2, <2>3, GotoDebits
<1>4. CASE Finalize(r)
  <2> DEFINE pc == IF status[call[r].invoice] # "deleted"
                     THEN "pay" ELSE "releaseExecutor"
  <2>1. pc \notin Away
    OBVIOUS
  <2>2. \/ call' = [call EXCEPT ![r].view = "open", ![r].pc = pc]
        \/ Goto(r, "releaseExecutor")
    BY <1>4 DEF Finalize
  <2> QED BY <2>1, <2>2, MoveDebits, GotoDebits
<1>5. CASE Retire(r) \/ Recheck(r) \/ Prepare(r) \/ AddItem(r) \/ VoidDeclined(r)
  <2>1. \E pc : Goto(r, pc) /\ pc \notin Away
    BY <1>5 DEF Retire, Recheck, Prepare, AddItem, VoidDeclined, PreChargeExit
  <2> QED BY <2>1, GotoDebits
<1>6. CASE Pay(r)
  <2>1. \E pc : Goto(r, pc) /\ pc \notin Away
    BY <1>6 DEF Pay, AfterPayment
  <2> QED BY <2>1, GotoDebits
<1> QED BY <1>1, <1>2, <1>3, <1>4, <1>5, <1>6

LEMMA EndDebits ==
  ASSUME TypeOK, \A s \in Call : DebitsOnce(s), NEW r \in Call,
         \/ Record(r) \/ Credit(r) \/ Complete(r) \/ CountSuccess(r) \/ Fail(r)
         \/ CountFailure(r) \/ Release(r) \/ Abandon(r) \/ ReleaseExecutor(r)
         \/ MutationThrows(r) \/ Crash(r)
  PROVE  \A s \in Call : DebitsOnce(s)'
<1>1. \/ Return(r)
      \/ call' = [call EXCEPT ![r] = IdleCall]
      \/ call' = [call EXCEPT ![r] = NextAttempt(r)]
      \/ \E pc : /\ Goto(r, pc)
                 /\ pc # "debit"
                 /\ pc \in {"debitFunded", "debitCovered"} => call[r].needs
  BY DEF Record, Credit, Complete, CountSuccess, Fail, CountFailure, Release,
         Abandon, ReleaseExecutor, MutationThrows, Crash
<1> QED BY <1>1, IdleDebits, NextAttemptDebits, GotoDebits

\* A call debits the wallet at most once, and tells its caller that it debited
\* exactly if it did, over both debits, both rounds of the reload loop and every
\* interleaving with the other calls.
THEOREM AnswersAreRight == Spec => []AnswerMatchesDebit
<1> DEFINE Inv == \A r \in Call : DebitsOnce(r)
<1>1. Init => Inv
  <2> SUFFICES ASSUME Init, NEW r \in Call PROVE DebitsOnce(r)
    OBVIOUS
  <2>1. call[r] = IdleCall
    BY DEF Init
  <2> QED BY <2>1 DEF DebitsOnce, IdleCall
<1>2. TypeOK /\ Inv /\ [Next]_vars => Inv'
  <2> SUFFICES ASSUME TypeOK, Inv, [Next]_vars PROVE Inv'
    OBVIOUS
  <2>1. CASE UNCHANGED call
    BY <2>1 DEF DebitsOnce
  <2>2. ASSUME NEW r \in Call, Start(r) \/ CallStep(r) \/ Crash(r)
        PROVE  Inv'
    BY <2>2, StartDebits, FirstDebitDebits, ClaimDebits, InvoiceDebits,
       EndDebits, SecondDebitDebits DEF CallStep
  <2>3. CASE Environment
    <3>1. UNCHANGED call
      BY <2>3 DEF Environment, LatePost, PaymentSettles, ForgetKeys,
                  LeaseExpires, CooldownEnds, MonthRolls, Refund, UpdateSettings
    <3> QED BY <2>1, <3>1
  <2> QED BY <2>1, <2>2, <2>3 DEF Next, vars
<1>3. Inv => AnswerMatchesDebit
  BY DEF DebitsOnce, AnswerMatchesDebit
<1> QED BY <1>1, <1>2, <1>3, TypeCorrect, PTL DEF Spec

-----------------------------------------------------------------------------
(***************************************************************************)
(* How much a top-up charges, for every balance, threshold, reload amount, *)
(* request and cap. The two roundings are adjoint to PointsOf: a number of *)
(* cents buys at least, or at most, a number of points exactly if it is no *)
(* less than the one, or no more than the other.                           *)
(***************************************************************************)

LEMMA Quotient ==
    ASSUME NEW n \in Nat, NEW d \in Nat \ {0}, NEW q \in Int
    PROVE  n \div d \in Int /\ (q <= n \div d <=> q * d <= n)
<1>1. PICK k \in Int : k = n \div d OBVIOUS
<1>2. k * d <= n /\ n < k * d + d BY <1>1
<1>3. q <= k => q * d <= n BY <1>2
<1>4. q * d <= n => q <= k BY <1>2
<1> QED BY <1>1, <1>3, <1>4

LEMMA Priced ==
    /\ PointsNum \in Nat \ {0} /\ PointsDen \in Nat \ {0} /\ PointsDen <= PointsNum
    /\ MinChargeCents \in Nat \ {0}
BY ReloadAssumption

LEMMA PointsBought ==
    ASSUME NEW c \in Nat, NEW p \in Int
    PROVE  PointsOf(c) \in Nat /\ (p <= PointsOf(c) <=> p * PointsDen <= c * PointsNum)
<1>1. c * PointsNum \in Nat BY Priced
<1>2. PointsOf(c) \in Int /\ (0 <= PointsOf(c) <=> 0 * PointsDen <= c * PointsNum)
  BY <1>1, Priced, Quotient DEF PointsOf
<1>3. 0 * PointsDen <= c * PointsNum BY <1>1, Priced
<1>4. p <= PointsOf(c) <=> p * PointsDen <= c * PointsNum BY <1>1, Priced, Quotient DEF PointsOf
<1> QED BY <1>2, <1>3, <1>4

\* The least charge that buys at least these points.
LEMMA RoundedUp ==
    ASSUME NEW p \in Nat, NEW c \in Nat
    PROVE  /\ CentsRoundedUp(p) \in Nat
           /\ CentsRoundedUp(p) <= c <=> PointsOf(c) >= p
<1>1. PICK n \in Nat : n = p * PointsDen + PointsNum - 1 BY Priced
<1>2. CentsRoundedUp(p) = n \div PointsNum BY <1>1 DEF CentsRoundedUp
<1>3. CentsRoundedUp(p) \in Int /\ (0 <= CentsRoundedUp(p) <=> 0 * PointsNum <= n)
  BY <1>1, <1>2, Priced, Quotient
<1>4. 0 * PointsNum <= n BY <1>1, Priced
<1>5. c + 1 <= CentsRoundedUp(p) <=> (c + 1) * PointsNum <= n BY <1>1, <1>2, Priced, Quotient
<1>6. (c + 1) * PointsNum <= n <=> c * PointsNum < p * PointsDen
  <2>1. PICK x \in Int, y \in Int : x = c * PointsNum /\ y = p * PointsDen BY Priced
  <2>2. (c + 1) * PointsNum = x + PointsNum BY <2>1, Priced
  <2> QED BY <1>1, <2>1, <2>2, Priced
<1>7. p <= PointsOf(c) <=> p * PointsDen <= c * PointsNum BY PointsBought
<1>8. PointsOf(c) \in Nat /\ c * PointsNum \in Int /\ p * PointsDen \in Int BY PointsBought, Priced
<1> QED BY <1>3, <1>4, <1>5, <1>6, <1>7, <1>8

\* The greatest charge that buys at most these points.
LEMMA Within ==
    ASSUME NEW p \in Nat, NEW c \in Nat
    PROVE  /\ CentsWithin(p) \in Nat
           /\ c <= CentsWithin(p) <=> PointsOf(c) <= p
<1>1. PICK n \in Nat : n = PointsDen * (p + 1) - 1
  <2>1. PointsDen * (p + 1) \in Int /\ PointsDen * (p + 1) >= 1 BY Priced
  <2> QED BY <2>1
<1>2. CentsWithin(p) = n \div PointsNum BY <1>1 DEF CentsWithin
<1>3. CentsWithin(p) \in Int /\ (0 <= CentsWithin(p) <=> 0 * PointsNum <= n)
  BY <1>1, <1>2, Priced, Quotient
<1>4. 0 * PointsNum <= n BY <1>1, Priced
<1>5. c <= CentsWithin(p) <=> c * PointsNum <= n BY <1>1, <1>2, Priced, Quotient
<1>6. p + 1 <= PointsOf(c) <=> (p + 1) * PointsDen <= c * PointsNum BY PointsBought
<1>7. (p + 1) * PointsDen = n + 1 BY <1>1, Priced
<1>8. PointsOf(c) \in Nat /\ c * PointsNum \in Int BY PointsBought, Priced
<1> QED BY <1>3, <1>4, <1>5, <1>6, <1>7, <1>8

\* More cents buy more points, and every cent at least one.
LEMMA MoreCents ==
    ASSUME NEW c \in Nat, NEW d \in Nat, c <= d
    PROVE  PointsOf(c) <= PointsOf(d)
<1>1. PointsOf(c) \in Nat /\ PointsOf(c) * PointsDen <= c * PointsNum BY PointsBought
<1>2. c * PointsNum <= d * PointsNum BY Priced
<1>3. PointsOf(c) * PointsDen \in Int /\ c * PointsNum \in Int /\ d * PointsNum \in Int
  BY <1>1, Priced
<1>4. PointsOf(c) * PointsDen <= d * PointsNum BY <1>1, <1>2, <1>3
<1> QED BY <1>1, <1>4, PointsBought

LEMMA EveryCent ==
    ASSUME NEW c \in Nat
    PROVE  c <= PointsOf(c)
<1>1. c * PointsDen <= c * PointsNum BY Priced
<1> QED BY <1>1, PointsBought

\* Two purchases buy at most a point less than one of as many cents.
LEMMA OnePointLess ==
    ASSUME NEW c \in Nat, NEW d \in Nat
    PROVE  PointsOf(c + d) <= PointsOf(c) + PointsOf(d) + 1
<1>1. PICK x \in Nat, y \in Nat, z \in Nat : x = PointsOf(c) /\ y = PointsOf(d) /\ z = PointsOf(c + d)
  BY PointsBought
<1>2. ~((x + 1) * PointsDen <= c * PointsNum) /\ ~((y + 1) * PointsDen <= d * PointsNum)
  BY <1>1, PointsBought
<1>3. z * PointsDen <= (c + d) * PointsNum BY <1>1, PointsBought
<1>4. z * PointsDen < (x + y + 2) * PointsDen BY <1>2, <1>3, Priced
<1>5. z < x + y + 2 BY <1>4, Priced
<1> QED BY <1>1, <1>5

\* What a top-up is due for, what a charge must satisfy, and when the wallet has
\* all it is to have: the reference that ReloadReference states on a grid.
Due(balance, threshold, reload, requested) ==
    reload > 0 /\ ~Covered(balance, threshold, requested)

Acceptable(balance, requested, remaining, c) ==
    /\ c >= MinChargeCents
    /\ requested > 0 => balance + PointsOf(c) >= requested
    /\ remaining # Unlimited => balance + PointsOf(c) <= remaining

Fills(balance, reload, requested, c) ==
    /\ balance + PointsOf(c) >= AtLeast(reload, requested)
    /\ requested > 0 => c >= MinChargeCents

Fitting(balance, reload, requested, remaining, c) ==
    /\ Acceptable(balance, requested, remaining, c)
    /\ \A d \in Nat : d < c => ~Fills(balance, reload, requested, d)

\* The desired charge is the least one that fills the wallet.
LEMMA DesiredFills ==
    ASSUME NEW balance \in Nat, NEW threshold \in Nat, NEW reload \in Nat, NEW requested \in Nat,
           ~Covered(balance, threshold, requested), NEW c \in Nat
    PROVE  /\ DesiredCents(balance, reload, requested) \in Nat
           /\ DesiredCents(balance, reload, requested) <= c <=> Fills(balance, reload, requested, c)
<1>1. PICK target \in Nat : target = AtLeast(reload, requested) BY DEF AtLeast
<1>2. PICK lacking \in Nat : lacking = AtLeast(0, target - balance) BY DEF AtLeast
<1>3. PICK wanted : wanted = CentsRoundedUp(lacking) OBVIOUS
<1>4. wanted \in Nat /\ (wanted <= c <=> PointsOf(c) >= lacking) BY <1>3, RoundedUp
<1>5. PointsOf(c) \in Nat BY PointsBought
<1>6. wanted <= c <=> balance + PointsOf(c) >= target BY <1>2, <1>4, <1>5 DEF AtLeast
<1>7. DesiredCents(balance, reload, requested) =
        IF requested > 0 /\ wanted > 0 THEN AtLeast(MinChargeCents, wanted) ELSE wanted
  BY <1>1, <1>2, <1>3 DEF DesiredCents
<1>8. requested > 0 => wanted > 0
  <2>1. SUFFICES ASSUME requested > 0, wanted = 0 PROVE FALSE BY <1>4
  <2>2. PointsOf(0) >= lacking
    <3>1. 0 \in Nat OBVIOUS
    <3>2. CentsRoundedUp(lacking) <= 0 <=> PointsOf(0) >= lacking BY <3>1, RoundedUp
    <3> QED BY <1>3, <2>1, <3>2
  <2>3. PointsOf(0) = 0
    <3>1. PointsOf(0) \in Nat /\ (1 <= PointsOf(0) <=> 1 * PointsDen <= 0 * PointsNum)
      BY PointsBought
    <3> QED BY <3>1, Priced
  <2>4. balance < requested BY <2>1 DEF Covered
  <2>5. target >= requested BY <1>1 DEF AtLeast
  <2> QED BY <1>2, <2>2, <2>3, <2>4, <2>5 DEF AtLeast
<1> QED BY <1>1, <1>4, <1>6, <1>7, <1>8, Priced DEF Fills, AtLeast

\* The charge is the largest one that the wallet and the cap have room for.
LEMMA ChargeHasRoom ==
    ASSUME NEW balance \in Nat, NEW threshold \in Nat, NEW reload \in Nat, NEW requested \in Nat,
           NEW remaining \in Nat \cup {Unlimited}, ~Covered(balance, threshold, requested),
           NEW c \in Nat
    PROVE  /\ ChargeCents(balance, reload, requested, remaining) \in Nat
           /\ c <= ChargeCents(balance, reload, requested, remaining) <=>
                /\ c <= DesiredCents(balance, reload, requested)
                /\ remaining # Unlimited => PointsOf(c) <= AtLeast(0, remaining - balance)
<1>1. PICK desired \in Nat : desired = DesiredCents(balance, reload, requested) BY DesiredFills
<1>2. CASE remaining = Unlimited BY <1>1, <1>2 DEF ChargeCents
<1>3. CASE remaining # Unlimited
  <2>1. PICK room \in Nat : room = AtLeast(0, remaining - balance) BY <1>3 DEF AtLeast
  <2>2. CentsWithin(room) \in Nat /\ (c <= CentsWithin(room) <=> PointsOf(c) <= room) BY Within
  <2>3. ChargeCents(balance, reload, requested, remaining) = AtMost(desired, CentsWithin(room))
    BY <1>1, <1>3, <2>1 DEF ChargeCents
  <2> QED BY <1>1, <1>3, <2>1, <2>2, <2>3 DEF AtMost
<1> QED BY <1>2, <1>3

\* evaluateAutoReloadCharge allows a charge exactly if a top-up is due and one
\* is acceptable that does not overfill the wallet, and then the largest of
\* those: for every balance, setting, request and cap, and whatever a cent buys.
THEOREM ChargeIsTheLargest ==
    ASSUME NEW balance \in Nat, NEW threshold \in Nat, NEW reload \in Nat, NEW requested \in Nat,
           NEW remaining \in Nat \cup {Unlimited},
           NEW e, e = EvaluateCharge(balance, threshold, reload, requested, remaining)
    PROVE  /\ e.allowed <=> /\ Due(balance, threshold, reload, requested)
                            /\ \E c \in Nat : Fitting(balance, reload, requested, remaining, c)
           /\ e.allowed => /\ e.cents \in Nat
                           /\ Fitting(balance, reload, requested, remaining, e.cents)
                           /\ \A c \in Nat :
                                Fitting(balance, reload, requested, remaining, c) => c <= e.cents
           /\ ~e.allowed => e.cents = 0
<1> DEFINE Fit(c) == Fitting(balance, reload, requested, remaining, c)
<1>1. CASE ~Due(balance, threshold, reload, requested)
  BY <1>1 DEF EvaluateCharge, Due, Refused
<1>2. CASE Due(balance, threshold, reload, requested)
  <2>1. reload > 0 /\ ~Covered(balance, threshold, requested) BY <1>2 DEF Due
  <2>2. PICK cents \in Nat : cents = ChargeCents(balance, reload, requested, remaining)
    BY <2>1, ChargeHasRoom
  <2>3. PICK desired \in Nat : desired = DesiredCents(balance, reload, requested)
    BY <2>1, DesiredFills
  <2>4. ASSUME NEW c \in Nat
        PROVE  /\ PointsOf(c) \in Nat
               /\ c <= cents <=> /\ c <= desired
                                 /\ remaining # Unlimited =>
                                      PointsOf(c) <= AtLeast(0, remaining - balance)
    <3>1. ~Covered(balance, threshold, requested) BY <2>1
    <3>2. PointsOf(c) \in Nat BY PointsBought
    <3>3. c <= ChargeCents(balance, reload, requested, remaining) <=>
            /\ c <= DesiredCents(balance, reload, requested)
            /\ remaining # Unlimited => PointsOf(c) <= AtLeast(0, remaining - balance)
      BY <3>1, ChargeHasRoom
    <3> QED BY <2>2, <2>3, <3>2, <3>3
  <2>5. ASSUME NEW c \in Nat
        PROVE  c <= desired <=> \A d \in Nat : d < c => ~Fills(balance, reload, requested, d)
    <3>1. \A d \in Nat : desired <= d <=> Fills(balance, reload, requested, d)
      BY <2>1, <2>3, DesiredFills
    <3>2. CASE c <= desired BY <3>1, <3>2
    <3>3. CASE desired < c BY <3>1, <3>3
    <3> QED BY <3>2, <3>3
  <2> DEFINE Ok == /\ ~(remaining # Unlimited /\ requested > remaining)
                   /\ ~(cents < MinChargeCents)
                   /\ ~(requested > 0 /\ balance + PointsOf(cents) < requested)
  <2>6. e = IF Ok THEN [allowed |-> TRUE, cents |-> cents, reason |-> "none"]
            ELSE IF remaining # Unlimited /\ requested > remaining
                   THEN Refused("monthly_cap_exceeded")
                   ELSE Refused("amount_to_charge_below_minimum")
    BY <2>1, <2>2 DEF EvaluateCharge
  <2>7. Ok => e.allowed = TRUE /\ e.cents = cents BY <2>6
  <2>8. ~Ok => e.allowed = FALSE /\ e.cents = 0 BY <2>6 DEF Refused
  <2>9. ASSUME NEW c \in Nat, Fit(c) PROVE Ok /\ c <= cents
    <3>1. c <= desired BY <2>5, <2>9 DEF Fitting
    <3>2. /\ c >= MinChargeCents
          /\ requested > 0 => balance + PointsOf(c) >= requested
          /\ remaining # Unlimited => balance + PointsOf(c) <= remaining
      BY <2>9 DEF Fitting, Acceptable
    <3>3. c <= cents BY <2>4, <3>1, <3>2 DEF AtLeast
    <3>4. PointsOf(c) <= PointsOf(cents) /\ PointsOf(c) \in Nat /\ PointsOf(cents) \in Nat
      BY <2>4, <3>3, MoreCents
    <3> QED BY <3>2, <3>3, <3>4, Priced
  <2>10. ASSUME Ok PROVE Fit(cents)
    <3>1. PointsOf(cents) \in Nat /\ cents >= MinChargeCents /\ cents <= PointsOf(cents)
      BY <2>4, <2>10, EveryCent, Priced
    <3>2. remaining # Unlimited => balance + PointsOf(cents) <= remaining
      <4>1. SUFFICES ASSUME remaining # Unlimited PROVE balance + PointsOf(cents) <= remaining
        OBVIOUS
      <4>2. PointsOf(cents) <= AtLeast(0, remaining - balance) BY <2>4, <4>1
      <4> QED BY <3>1, <4>1, <4>2, Priced DEF AtLeast
    <3>3. requested > 0 => balance + PointsOf(cents) >= requested BY <2>10, <3>1
    <3>4. \A d \in Nat : d < cents => ~Fills(balance, reload, requested, d) BY <2>4, <2>5
    <3> QED BY <3>1, <3>2, <3>3, <3>4 DEF Fitting, Acceptable
  <2> HIDE DEF Ok, Fit
  <2>11. Due(balance, threshold, reload, requested) BY <1>2
  <2>12. CASE Ok
    <3>1. e.allowed = TRUE /\ e.cents = cents /\ Fit(cents) BY <2>7, <2>10, <2>12
    <3>2. \A c \in Nat : Fit(c) => c <= cents BY <2>9
    <3> QED BY <2>11, <3>1, <3>2 DEF Fit
  <2>13. CASE ~Ok
    <3>1. e.allowed = FALSE /\ e.cents = 0 BY <2>8, <2>13
    <3>2. ~\E c \in Nat : Fit(c) BY <2>9, <2>13
    <3> QED BY <3>1, <3>2 DEF Fit
  <2> QED BY <2>12, <2>13
<1> QED BY <1>1, <1>2

\* Once a top-up is credited the same evaluation asks for no other one, neither
\* for the request nor for the threshold that is left when it is paid for, if
\* the least charge is more than a cent: then what the cap left no room for is
\* less than the least charge too.
THEOREM NoChainFollows ==
    ASSUME MinChargeCents > 1,
           NEW balance \in Nat, NEW threshold \in Nat, NEW reload \in Nat, NEW requested \in Nat,
           NEW remaining \in Nat \cup {Unlimited}, NEW want \in {0, requested},
           NEW e, e = EvaluateCharge(balance, threshold, reload, requested, remaining),
           e.allowed = TRUE
    PROVE  EvaluateCharge(balance + PointsOf(e.cents), threshold, reload, want, remaining).allowed
             = FALSE
<1>1. /\ Due(balance, threshold, reload, requested) /\ e.cents \in Nat
      /\ Fitting(balance, reload, requested, remaining, e.cents)
      /\ \A c \in Nat : Fitting(balance, reload, requested, remaining, c) => c <= e.cents
  BY ChargeIsTheLargest
<1>2. PICK cents \in Nat : cents = e.cents BY <1>1
<1>3. PICK after \in Nat : after = balance + PointsOf(cents) BY PointsBought
<1>4. PICK f : f = EvaluateCharge(after, threshold, reload, want, remaining) OBVIOUS
<1>5. ~f.allowed => f.allowed = FALSE
  <2>1. f.allowed \in BOOLEAN BY <1>4 DEF EvaluateCharge, Refused
  <2> QED BY <2>1
<1>6. SUFFICES ASSUME f.allowed PROVE FALSE BY <1>2, <1>3, <1>4, <1>5
<1>7. want \in Nat OBVIOUS
<1>8. /\ Due(after, threshold, reload, want) /\ f.cents \in Nat
      /\ Fitting(after, reload, want, remaining, f.cents)
  BY <1>4, <1>6, <1>7, ChargeIsTheLargest
<1>9. PICK more \in Nat : more = f.cents BY <1>8
<1>10. more >= 2 BY <1>8, <1>9, Priced DEF Fitting, Acceptable
<1>11. ~Fills(after, reload, want, 0) \/ want > 0
  BY <1>8, <1>9, <1>10 DEF Fitting
<1>12. ~Covered(balance, threshold, requested) /\ ~Covered(after, threshold, want) /\ reload > 0
  BY <1>1, <1>8 DEF Due
<1>13. PICK desired \in Nat : desired = DesiredCents(balance, reload, requested)
  BY <1>12, DesiredFills
<1>14. CASE desired <= cents
  <2>1. Fills(balance, reload, requested, cents) BY <1>12, <1>13, <1>14, DesiredFills
  <2>2. after >= reload /\ after >= requested BY <1>3, <2>1 DEF Fills, AtLeast
  <2>3. want = 0 BY <1>7, <1>12, <2>2 DEF Covered
  <2>4. PointsOf(0) \in Nat BY PointsBought
  <2>5. Fills(after, reload, want, 0) BY <2>2, <2>3, <2>4 DEF Fills, AtLeast
  <2> QED BY <1>11, <2>3, <2>5
<1>15. CASE cents < desired
  <2>1. cents + 1 \in Nat /\ cents + 1 <= desired BY <1>15
  <2>2. \A d \in Nat : d < cents + 1 => ~Fills(balance, reload, requested, d)
    BY <1>12, <1>13, <2>1, DesiredFills
  <2>3. ~Fitting(balance, reload, requested, remaining, cents + 1) BY <1>1, <1>2, <2>1
  <2>4. /\ cents >= MinChargeCents
        /\ requested > 0 => balance + PointsOf(cents) >= requested
    BY <1>1, <1>2 DEF Fitting, Acceptable
  <2>5. PICK x \in Nat, y \in Nat, z \in Nat :
           x = PointsOf(cents) /\ y = PointsOf(cents + 1) /\ z = PointsOf(more)
    BY <2>1, PointsBought
  <2>6. x <= y BY <2>1, <2>5, MoreCents
  <2>7. remaining # Unlimited /\ balance + y > remaining
    BY <2>1, <2>2, <2>3, <2>4, <2>5, <2>6, Priced DEF Fitting, Acceptable
  <2>8. after + z <= remaining BY <1>8, <1>9, <2>5, <2>7 DEF Fitting, Acceptable
  <2>9. PICK u \in Nat : u = PointsOf(1) BY PointsBought
  <2>10. y <= x + u + 1 BY <2>5, <2>9, OnePointLess
  <2>11. u + 1 <= z
    <3>1. u * PointsDen <= PointsNum
      <4>1. u <= PointsOf(1) <=> u * PointsDen <= 1 * PointsNum BY PointsBought
      <4> QED BY <2>9, <4>1, Priced
    <3>2. (u + 1) * PointsDen <= 2 * PointsNum BY <3>1, Priced
    <3>3. 2 * PointsNum <= more * PointsNum BY <1>10, Priced
    <3>4. (u + 1) * PointsDen <= more * PointsNum
      <4>1. (u + 1) * PointsDen \in Int /\ more * PointsNum \in Int BY Priced
      <4> QED BY <3>2, <3>3, <4>1, Priced
    <3> QED BY <2>5, <3>4, PointsBought
  <2>12. remaining \in Nat BY <2>7
  <2> QED BY <1>3, <2>5, <2>7, <2>8, <2>10, <2>11, <2>12
<1> QED BY <1>14, <1>15


-----------------------------------------------------------------------------
(***************************************************************************)
(* The wallet is credited what the card was charged.  A credit is of the   *)
(* cents that a call carries, a charge of the line item that some call, or *)
(* a request without a caller, put on the invoice, before or after other   *)
(* calls took the operation over.  They agree because an operation has one *)
(* amount from the claim that began it, and because Stripe, as long as it  *)
(* remembers the operation's keys, has one invoice for it with one item.   *)
(***************************************************************************)

\* What Stripe has of an operation, and what may still reach it.
StripeTraced ==
  /\ \A i \in Invoice : status[i] # "none" => keys[i[1]].create = i
  /\ \A i \in Invoice : status[i] \in {"open", "paid"} => keys[i[1]].item
  /\ \A i \in Invoice : ~keys[i[1]].item => billed[i] = 0
  /\ \A o \in Op : keys[o].item => o \in used /\ keys[o].create # NoInvoice

LateTraced ==
  \A m \in late : /\ m[2][1] \in used
                  /\ m[1] = "finalize" => keys[m[2][1]].item

CallTraced(r) ==
  call[r].op # NoOp =>
    /\ call[r].op \in used
    /\ call[r].pc = "finalize" => keys[call[r].op].item

\* The row, the calls, the requests under way and the invoice of an operation
\* have one amount.
Billed(o, n) ==
  \A i \in Invoice :
    i[1] = o /\ keys[o].create = i /\ keys[o].item => billed[i] = n

Agreed(o, n) ==
  /\ wallet.op = o => wallet.cents = n
  /\ \A r \in Call : call[r].op = o => call[r].cents = n
  /\ \A m \in late : m[1] = "item" /\ m[2][1] = o => m[3] = n
  /\ Billed(o, n)

OneAmount ==
  /\ StripeTraced
  /\ LateTraced
  /\ \A r \in Call : CallTraced(r)
  /\ \A o \in Op : \E n \in Nat : Agreed(o, n)

\* What a request does to Stripe's side of this.
LEMMA EffectKeepsTrace ==
  ASSUME TypeOK, StripeTraced, NEW kind, NEW i \in Invoice, NEW cents \in Nat,
         i[1] \in used, kind = "finalize" => keys[i[1]].item,
         Effect(kind, i, cents), used' = used
  PROVE  /\ StripeTraced'
         /\ \A o \in Op : keys[o].item => keys'[o].item
         /\ \A o \in Op, n \in Nat :
              Billed(o, n) /\ (kind = "item" /\ i[1] = o => cents = n)
                => Billed(o, n)'
<1>1. /\ status \in [Invoice -> InvoiceStatus] /\ billed \in [Invoice -> Nat]
      /\ keys \in [Op -> Keys] /\ i[1] \in Op /\ i # NoInvoice
      /\ \A j \in Invoice : j[1] \in Op
  BY ConstantAssumption DEF TypeOK, Invoice
<1> DEFINE Goal == /\ StripeTraced'
                   /\ \A o \in Op : keys[o].item => keys'[o].item
                   /\ \A o \in Op, n \in Nat :
                        Billed(o, n) /\ (kind = "item" /\ i[1] = o => cents = n)
                          => Billed(o, n)'
<1>2. CASE UNCHANGED <<status, billed, keys>>
  BY <1>2 DEF StripeTraced, Billed
<1>3. CASE /\ keys[i[1]].create = NoInvoice /\ status[i] = "none"
           /\ status' = [status EXCEPT ![i] = "draft"]
           /\ keys' = [keys EXCEPT ![i[1]].create = i]
           /\ UNCHANGED billed
  <2>1. /\ keys'[i[1]].create = i
        /\ \A o \in Op : /\ keys'[o].item = keys[o].item
                         /\ o # i[1] => keys'[o] = keys[o]
    BY <1>1, <1>3 DEF Keys
  <2>2. \A j \in Invoice : status'[j] = IF j = i THEN "draft" ELSE status[j]
    BY <1>1, <1>3
  <2>3. ~keys[i[1]].item
    BY <1>1, <1>3 DEF StripeTraced
  <2>4. \A j \in Invoice : j[1] = i[1] => status[j] = "none"
    BY <1>1, <1>3, ConstantAssumption DEF StripeTraced
  <2>5. StripeTraced'
    BY <1>1, <1>3, <2>1, <2>2, <2>3, <2>4 DEF StripeTraced
  <2>6. ASSUME NEW o \in Op, NEW n \in Nat, Billed(o, n) PROVE Billed(o, n)'
    BY <1>1, <1>3, <2>1, <2>3, <2>6 DEF Billed
  <2> QED BY <2>1, <2>5, <2>6
<1>4. CASE /\ kind = "item" /\ status[i] = "draft" /\ ~keys[i[1]].item
           /\ billed' = [billed EXCEPT ![i] = @ + cents]
           /\ keys' = [keys EXCEPT ![i[1]].item = TRUE]
           /\ UNCHANGED status
  <2>1. /\ keys'[i[1]].item
        /\ \A o \in Op : /\ keys'[o].create = keys[o].create
                         /\ o # i[1] => keys'[o] = keys[o]
    BY <1>1, <1>4 DEF Keys
  <2>2. billed[i] = 0 /\ keys[i[1]].create = i
    BY <1>4 DEF StripeTraced
  <2>3. \A j \in Invoice : billed'[j] = IF j = i THEN cents ELSE billed[j]
    BY <1>1, <1>4, <2>2
  <2>4. StripeTraced'
    BY <1>1, <1>4, <2>1, <2>2, <2>3 DEF StripeTraced
  <2>5. ASSUME NEW o \in Op, NEW n \in Nat, Billed(o, n), i[1] = o => cents = n
        PROVE  Billed(o, n)'
    BY <1>1, <2>1, <2>2, <2>3, <2>5 DEF Billed
  <2>6. \A o \in Op : keys[o].item => keys'[o].item
    BY <2>1
  <2> QED BY <1>4, <2>4, <2>5, <2>6
<1>5. ASSUME NEW from, NEW to, status' = [status EXCEPT ![i] = IF @ = from THEN to ELSE @],
             UNCHANGED <<billed, keys>>, from # "none",
             to \in {"open", "paid"} => keys[i[1]].item
      PROVE  Goal
  <2>1. \A j \in Invoice : status'[j] = IF j = i /\ status[i] = from THEN to ELSE status[j]
    BY <1>1, <1>5
  <2>2. StripeTraced'
    BY <1>1, <1>5, <2>1 DEF StripeTraced
  <2> QED BY <1>5, <2>2 DEF Billed
<1>6. CASE PayEffect(i)
  <2>1. CASE ~UNCHANGED <<status, billed, keys>>
    <3>1. PICK answer : /\ status[i] = "open"
                        /\ status' = [status EXCEPT ![i] = IF answer = "paid" THEN "paid" ELSE @]
                        /\ keys' = [keys EXCEPT ![i[1]].pay = answer]
                        /\ UNCHANGED billed
      BY <1>6, <2>1 DEF PayEffect
    <3>2. \A o \in Op : keys'[o].item = keys[o].item /\ keys'[o].create = keys[o].create
      BY <1>1, <3>1 DEF Keys
    <3>3. \A j \in Invoice : status'[j] = status[j] \/ (status[j] = "open" /\ status'[j] = "paid")
      BY <1>1, <3>1
    <3>4. StripeTraced'
      BY <1>1, <3>1, <3>2, <3>3 DEF StripeTraced
    <3> QED BY <3>1, <3>2, <3>4 DEF Billed
  <2> QED BY <1>2, <2>1
<1>7. CASE kind = "create"
  BY <1>2, <1>3, <1>7 DEF Effect, CreateEffect
<1>8. CASE kind = "item"
  BY <1>2, <1>4, <1>8 DEF Effect, ItemEffect
<1>9. CASE kind = "finalize"
  BY <1>5, <1>9 DEF Effect, StatusEffect
<1>10. CASE kind \in {"void", "delete"}
  BY <1>5, <1>10 DEF Effect, StatusEffect
<1> QED BY <1>6, <1>7, <1>8, <1>9, <1>10 DEF Effect


\* A request of a call, or of one that has gone, answered or not.
Sends(kind, i, cents) ==
  \/ Effect(kind, i, cents) /\ UNCHANGED late
  \/ Unanswered(kind, i, cents)

LEMMA SendKeepsTrace ==
  ASSUME TypeOK, StripeTraced, LateTraced, NEW kind, NEW i \in Invoice, NEW cents \in Nat,
         i[1] \in used, kind = "finalize" => keys[i[1]].item,
         Sends(kind, i, cents), used' = used
  PROVE  /\ StripeTraced' /\ LateTraced'
         /\ \A o \in Op : keys[o].item => keys'[o].item
         /\ \A m \in late' : m \in late \/ m = <<kind, i, cents>>
         /\ \A o \in Op, n \in Nat :
              Billed(o, n) /\ (kind = "item" /\ i[1] = o => cents = n)
                => Billed(o, n)'
<1>1. /\ StripeTraced'
      /\ \A o \in Op : keys[o].item => keys'[o].item
      /\ \A o \in Op, n \in Nat :
           Billed(o, n) /\ (kind = "item" /\ i[1] = o => cents = n)
             => Billed(o, n)'
  <2>1. CASE Effect(kind, i, cents)
    BY <2>1, EffectKeepsTrace
  <2>2. CASE UNCHANGED <<status, billed, keys>>
    BY <2>2 DEF StripeTraced, Billed
  <2> QED BY <2>1, <2>2 DEF Sends, Unanswered
<1>2. \A m \in late' : m \in late \/ m = <<kind, i, cents>>
  BY DEF Sends, Unanswered
<1>3. \A m \in late : m[2][1] \in Op
  BY DEF TypeOK, Post, Invoice
<1>4. <<kind, i, cents>>[1] = kind /\ <<kind, i, cents>>[2] = i /\ i[1] \in Op
  BY DEF Invoice
<1>5. LateTraced'
  BY <1>1, <1>2, <1>3, <1>4 DEF LateTraced
<1> QED BY <1>1, <1>2, <1>5

\* What a step that is not a claim leaves of the amounts.
RowCarriesOn ==
  \/ wallet'.op = NoOp
  \/ wallet'.op = wallet.op /\ wallet'.cents = wallet.cents

CarriesOn(r) ==
  /\ \A s \in Call \ {r} : call'[s] = call[s]
  /\ \/ call'[r].op = NoOp
     \/ call'[r].op = call[r].op /\ call'[r].cents = call[r].cents

LEMMA JumpCarriesOn ==
  ASSUME TypeOK, NEW r \in Call, NEW c, call' = [call EXCEPT ![r] = c],
         c.op = NoOp \/ (c.op = call[r].op /\ c.cents = call[r].cents)
  PROVE  CarriesOn(r) /\ call'[r].pc = c.pc
BY DEF TypeOK, CarriesOn

LEMMA GotoCarriesOn ==
  ASSUME TypeOK, NEW r \in Call, NEW pc, Goto(r, pc)
  PROVE  CarriesOn(r) /\ call'[r].pc = pc
BY DEF TypeOK, Goto, CallState, CarriesOn

LEMMA ReturnCarriesOn ==
  ASSUME TypeOK, NEW r \in Call,
         \/ \E c : call' = [call EXCEPT ![r] = Answer(c)]
         \/ call' = [call EXCEPT ![r] = IdleCall]
         \/ call' = [call EXCEPT ![r] = NextAttempt(r)]
  PROVE  CarriesOn(r) /\ call'[r].pc # "finalize"
<1>1. ASSUME NEW c, call' = [call EXCEPT ![r] = Answer(c)]
      PROVE  CarriesOn(r) /\ call'[r].pc # "finalize"
  <2>1. PICK x : x = Answer(c) OBVIOUS
  <2>2. x.op = NoOp /\ x.pc = "idle"
    BY <2>1 DEF Answer, IdleCall
  <2> QED BY <1>1, <2>1, <2>2, JumpCarriesOn
<1>2. CASE call' = [call EXCEPT ![r] = IdleCall]
  <2>1. PICK x : x = IdleCall OBVIOUS
  <2>2. x.op = NoOp /\ x.pc = "idle"
    BY <2>1 DEF IdleCall
  <2> QED BY <1>2, <2>1, <2>2, JumpCarriesOn
<1>3. CASE call' = [call EXCEPT ![r] = NextAttempt(r)]
  <2>1. PICK x : x = NextAttempt(r) OBVIOUS
  <2>2. x.op = NoOp /\ x.pc = "claim"
    BY <2>1 DEF NextAttempt, TypeOK, CallState
  <2> QED BY <1>3, <2>1, <2>2, JumpCarriesOn
<1> QED BY <1>1, <1>2, <1>3

\* A lookup stores the status it found.
LEMMA ViewCarriesOn ==
  ASSUME TypeOK, NEW r \in Call, NEW s, NEW pc,
         call' = [call EXCEPT ![r].view = s, ![r].pc = pc]
  PROVE  CarriesOn(r) /\ call'[r].pc = pc
BY DEF TypeOK, CallState, CarriesOn

LEMMA DebitCarriesOn ==
  ASSUME TypeOK, NEW r \in Call, FirstDebit(r) \/ DebitFunded(r) \/ DebitCovered(r)
  PROVE  CarriesOn(r) /\ call'[r].pc # "finalize" /\ RowCarriesOn
<1>1. PICK c : c = AfterDebit(r) OBVIOUS
<1>2. c.op = call[r].op /\ c.cents = call[r].cents /\ c \in CallState
  BY <1>1, DebitType DEF AfterDebit, TypeOK, CallState
<1>3. RowCarriesOn
  <2>1. Debited(call[r].want).op = wallet.op /\ Debited(call[r].want).cents = wallet.cents
    BY DEF Debited, TypeOK, Wallet
  <2> QED BY <2>1 DEF RowCarriesOn, FirstDebit, DebitFunded, DebitCovered
<1>4. CASE FirstDebit(r)
  <2>1. CASE call' = [call EXCEPT ![r] = Answer(c)]
    BY <2>1, <1>3, ReturnCarriesOn
  <2>2. CASE call' # [call EXCEPT ![r] = Answer(c)]
    <3> DEFINE needs == wallet.balance < call[r].want
               low == /\ Debitable(call[r].want)
                      /\ wallet.balance - call[r].want <= call[r].floor
    <3>0. call' = [call EXCEPT ![r] =
            [AfterDebit(r) EXCEPT !.pc = "claim", !.needs = needs, !.low = low,
                                  !.pending = FALSE, !.armed = FALSE, !.floor = 0]]
      BY <1>1, <1>4, <2>2 DEF FirstDebit
    <3> HIDE DEF needs, low
    <3>1. PICK n, l : call' = [call EXCEPT ![r] =
                   [c EXCEPT !.pc = "claim", !.needs = n, !.low = l, !.pending = FALSE,
                             !.armed = FALSE, !.floor = 0]]
      BY <1>1, <3>0
    <3>2. PICK x : x = [c EXCEPT !.pc = "claim", !.needs = n, !.low = l, !.pending = FALSE,
                                 !.armed = FALSE, !.floor = 0]
      OBVIOUS
    <3>3. x.op = call[r].op /\ x.cents = call[r].cents /\ x.pc = "claim"
      BY <1>2, <3>2 DEF CallState
    <3> QED BY <1>3, <3>1, <3>2, <3>3, JumpCarriesOn
  <2> QED BY <2>1, <2>2
<1>5. CASE DebitFunded(r)
  BY <1>1, <1>3, <1>5, ReturnCarriesOn DEF DebitFunded
<1>6. CASE DebitCovered(r)
  BY <1>1, <1>3, <1>6, ReturnCarriesOn DEF DebitCovered
<1> QED BY <1>4, <1>5, <1>6

LEMMA RowStepCarriesOn ==
  ASSUME TypeOK, NEW r \in Call,
         \/ Record(r) \/ Credit(r) \/ Complete(r) \/ CountSuccess(r) \/ Fail(r)
         \/ CountFailure(r) \/ Release(r) \/ Abandon(r) \/ ReleaseExecutor(r)
         \/ MutationThrows(r)
  PROVE  CarriesOn(r) /\ call'[r].pc # "finalize" /\ RowCarriesOn
<1> USE DEF Return
<1>1. Cleared.op = NoOp /\ Cleared.cents = 0
  BY DEF Cleared, TypeOK, Wallet
<1>2. [Cleared EXCEPT !.cooling = TRUE].op = NoOp /\ [Cleared EXCEPT !.cooling = FALSE].op = NoOp
  BY DEF Cleared, TypeOK, Wallet
<1>3. CASE UNCHANGED wallet
  <2>1. RowCarriesOn BY <1>3 DEF RowCarriesOn
  <2>2. CarriesOn(r) /\ call'[r].pc # "finalize"
    <3>1. CASE Record(r)
      BY <3>1, GotoCarriesOn DEF Record
    <3>2. CASE Credit(r)
      BY <3>2, GotoCarriesOn DEF Credit
    <3>3. CASE Complete(r) \/ CountSuccess(r)
      BY <3>3, GotoCarriesOn, ReturnCarriesOn DEF Complete, CountSuccess
    <3>4. CASE Fail(r) \/ CountFailure(r)
      BY <3>4, GotoCarriesOn, ReturnCarriesOn DEF Fail, CountFailure
    <3>5. CASE Release(r) \/ Abandon(r) \/ ReleaseExecutor(r)
      BY <3>5, ReturnCarriesOn DEF Release, Abandon, ReleaseExecutor
    <3>6. CASE MutationThrows(r)
      BY <3>6, GotoCarriesOn DEF MutationThrows
    <3> QED BY <3>1, <3>2, <3>3, <3>4, <3>5, <3>6
  <2> QED BY <2>1, <2>2
<1>4. CASE Record(r)
  <2>1. RowCarriesOn BY <1>4 DEF Record, RowCarriesOn, TypeOK, Wallet
  <2> QED BY <1>4, <2>1, GotoCarriesOn DEF Record
<1>5. CASE Credit(r)
  <2>1. RowCarriesOn BY <1>5 DEF Credit, RowCarriesOn, TypeOK, Wallet
  <2> QED BY <1>5, <2>1, GotoCarriesOn DEF Credit
<1>6. CASE Complete(r)
  <2>1. RowCarriesOn BY <1>2, <1>6 DEF Complete, RowCarriesOn
  <2> QED BY <1>6, <2>1, GotoCarriesOn, ReturnCarriesOn DEF Complete
<1>7. CASE CountSuccess(r)
  <2>1. RowCarriesOn BY <1>7 DEF CountSuccess, RowCarriesOn, TypeOK, Wallet
  <2> QED BY <1>7, <2>1, GotoCarriesOn, ReturnCarriesOn DEF CountSuccess
<1>8. CASE Fail(r)
  <2>1. RowCarriesOn BY <1>2, <1>8 DEF Fail, RowCarriesOn
  <2> QED BY <1>8, <2>1, GotoCarriesOn, ReturnCarriesOn DEF Fail
<1>9. CASE CountFailure(r)
  <2>1. RowCarriesOn BY <1>9 DEF CountFailure, RowCarriesOn, TypeOK, Wallet
  <2> QED BY <1>9, <2>1, ReturnCarriesOn DEF CountFailure
<1>10. CASE Release(r) \/ Abandon(r) \/ ReleaseExecutor(r)
  <2>1. RowCarriesOn
    BY <1>1, <1>10 DEF Release, Abandon, ReleaseExecutor, RowCarriesOn, TypeOK, Wallet
  <2> QED BY <1>10, <2>1, ReturnCarriesOn DEF Release, Abandon, ReleaseExecutor
<1>11. CASE MutationThrows(r)
  BY <1>3, <1>11 DEF MutationThrows
<1> QED BY <1>4, <1>5, <1>6, <1>7, <1>8, <1>9, <1>10, <1>11


\* Every request a call sends is of its operation, of its cents if it is an
\* item, and it finalizes an invoice only once it knows that the item is on it.
Requests(r) ==
  \/ UNCHANGED <<status, billed, keys, late>>
  \/ \E kind \in {"create", "item", "finalize", "pay", "void", "delete"},
        i \in Invoice, cents \in Nat :
       /\ Sends(kind, i, cents)
       /\ i[1] = call[r].op
       /\ kind = "item" => cents = call[r].cents
       /\ kind = "finalize" => call[r].pc = "finalize"

LEMMA InvoiceRequests ==
  ASSUME Consistency, NEW r \in Call,
         Retire(r) \/ AddItem(r) \/ Finalize(r) \/ Pay(r) \/ VoidDeclined(r)
  PROVE  /\ Requests(r) /\ CarriesOn(r)
         /\ call'[r].pc = "finalize" => keys'[call[r].op].item
<1>1. PICK i : i = call[r].invoice OBVIOUS
<1>2. /\ i \in Invoice /\ i[1] = call[r].op /\ call[r].cents \in Nat /\ 0 \in Nat
      /\ call[r].op \in Op
  <2>1. call[r].pc \in InvoicePCs
    BY DEF Retire, AddItem, Finalize, Pay, VoidDeclined, InvoicePCs
  <2>2. TypeOK /\ CallConsistent(r) BY DEF Consistency
  <2> QED BY <1>1, <2>1, <2>2 DEF CallConsistent, TypeOK, CallState, Invoice
<1>3. TypeOK BY DEF Consistency
<1>4. CASE Retire(r)
  <2>1. \E kind \in {"delete", "void"} : Sends(kind, i, 0)
    BY <1>1, <1>4 DEF Retire, Sends
  <2>2. CarriesOn(r) /\ call'[r].pc # "finalize"
    BY <1>3, <1>4, GotoCarriesOn DEF Retire
  <2> QED BY <1>2, <2>1, <2>2 DEF Requests
<1>5. CASE AddItem(r)
  <2>1. Sends("item", i, call[r].cents)
    BY <1>1, <1>5 DEF AddItem, Sends, Effect
  <2>2. CarriesOn(r)
    BY <1>3, <1>5, GotoCarriesOn DEF AddItem
  <2>3. ASSUME call'[r].pc = "finalize" PROVE keys'[call[r].op].item
    <3>1. ItemEffect(i, call[r].cents) /\ (status[i] = "draft" \/ keys[i[1]].item)
      BY <1>1, <1>3, <1>5, <2>3, GotoCarriesOn DEF AddItem
    <3> QED BY <1>2, <1>3, <3>1 DEF ItemEffect, TypeOK, Keys
  <2> QED BY <1>2, <2>1, <2>2, <2>3 DEF Requests
<1>6. CASE Finalize(r)
  <2>1. Sends("finalize", i, 0) /\ call[r].pc = "finalize"
    BY <1>1, <1>6 DEF Finalize, Sends, Effect
  <2>2. CarriesOn(r) /\ call'[r].pc # "finalize"
    <3>1. CASE Goto(r, "releaseExecutor")
      BY <1>3, <3>1, GotoCarriesOn
    <3>2. CASE ~Goto(r, "releaseExecutor")
      <4>1. PICK pc : /\ pc # "finalize"
                      /\ call' = [call EXCEPT ![r].view = "open", ![r].pc = pc]
        BY <1>1, <1>6, <3>2 DEF Finalize
      <4> QED BY <1>3, <4>1, ViewCarriesOn
    <3> QED BY <3>1, <3>2
  <2> QED BY <1>2, <2>1, <2>2 DEF Requests
<1>7. CASE Pay(r)
  <2>1. Sends("pay", i, 0)
    BY <1>1, <1>7 DEF Pay, Sends, Effect
  <2>2. CarriesOn(r) /\ call'[r].pc # "finalize"
    <3>1. PICK pc : pc # "finalize" /\ Goto(r, pc)
      BY <1>1, <1>7 DEF Pay, AfterPayment
    <3> QED BY <1>3, <3>1, GotoCarriesOn
  <2> QED BY <1>2, <2>1, <2>2 DEF Requests
<1>8. CASE VoidDeclined(r)
  <2>1. Sends("void", i, 0)
    BY <1>1, <1>8 DEF VoidDeclined, Sends, Effect
  <2>2. CarriesOn(r) /\ call'[r].pc # "finalize"
    BY <1>3, <1>8, GotoCarriesOn DEF VoidDeclined
  <2> QED BY <1>2, <2>1, <2>2 DEF Requests
<1> QED BY <1>4, <1>5, <1>6, <1>7, <1>8

LEMMA CreateRequests ==
  ASSUME Consistency, NEW r \in Call, Create(r)
  PROVE  /\ Requests(r) /\ CarriesOn(r)
         /\ call'[r].pc # "finalize"
<1>1. call[r].op \in Op /\ TypeOK /\ 0 \in Nat
  <2>1. call[r].pc \in OpPCs /\ CallConsistent(r) /\ TypeOK
    BY DEF Create, OpPCs, PCs, Consistency
  <2> QED BY <2>1 DEF CallConsistent, TypeOK
<1>2. ASSUME NEW n \in InvoiceNo
      PROVE  <<call[r].op, n>> \in Invoice /\ <<call[r].op, n>>[1] = call[r].op
  BY <1>1 DEF Invoice
<1>3. PreChargeExit(r) # "finalize" BY DEF PreChargeExit
<1>4. CASE \E n \in InvoiceNo : /\ CreateEffect(<<call[r].op, n>>)
                               /\ UNCHANGED late
                               /\ call' = [call EXCEPT ![r].pc = "record",
                                                       ![r].invoice = <<call[r].op, n>>,
                                                       ![r].view = "draft"]
  <2>1. PICK n \in InvoiceNo : /\ CreateEffect(<<call[r].op, n>>)
                               /\ UNCHANGED late
                               /\ call' = [call EXCEPT ![r].pc = "record",
                                                       ![r].invoice = <<call[r].op, n>>,
                                                       ![r].view = "draft"]
    BY <1>4
  <2>2. Sends("create", <<call[r].op, n>>, 0)
    BY <2>1 DEF Sends, Effect
  <2>3. CarriesOn(r) /\ call'[r].pc = "record"
    BY <1>1, <2>1 DEF TypeOK, CallState, CarriesOn
  <2> QED BY <1>1, <1>2, <2>2, <2>3 DEF Requests
<1>5. CASE \E n \in InvoiceNo : /\ Unanswered("create", <<call[r].op, n>>, 0)
                               /\ Goto(r, "releaseExecutor")
  BY <1>1, <1>2, <1>5, GotoCarriesOn DEF Requests, Sends
<1>6. CASE UNCHANGED <<status, billed, keys, late>> /\ Goto(r, PreChargeExit(r))
  BY <1>1, <1>3, <1>6, GotoCarriesOn DEF Requests
<1> QED BY <1>4, <1>5, <1>6 DEF Create

LEMMA LookupCarriesOn ==
  ASSUME TypeOK, NEW r \in Call,
         Reconcile(r) \/ Recheck(r) \/ Prepare(r) \/ Retrieve(r)
  PROVE  CarriesOn(r) /\ call'[r].pc # "finalize"
<1>1. PreChargeExit(r) # "finalize" BY DEF PreChargeExit
<1>2. PICK s : s = status[call[r].invoice] OBVIOUS
<1>3. CASE \E pc : pc # "finalize" /\ Goto(r, pc)
  BY <1>3, GotoCarriesOn
<1>4. CASE \E pc : pc # "finalize" /\ call' = [call EXCEPT ![r].view = s, ![r].pc = pc]
  BY <1>4, ViewCarriesOn
<1>5. CASE Reconcile(r)
  <2>1. PICK pc : /\ pc # "finalize"
                  /\ \/ call' = [call EXCEPT ![r].view = s, ![r].pc = pc]
                     \/ Goto(r, pc)
    BY <1>2, <1>5 DEF Reconcile
  <2> QED BY <1>3, <1>4, <2>1
<1>6. CASE Retrieve(r)
  <2>1. PICK pc : /\ pc # "finalize"
                  /\ \/ call' = [call EXCEPT ![r].view = s, ![r].pc = pc]
                     \/ Goto(r, pc)
    BY <1>1, <1>2, <1>6 DEF Retrieve
  <2> QED BY <1>3, <1>4, <2>1
<1>7. CASE Recheck(r)
  BY <1>3, <1>7 DEF Recheck
<1>8. CASE Prepare(r)
  BY <1>1, <1>3, <1>8 DEF Prepare
<1> QED BY <1>5, <1>6, <1>7, <1>8


LEMMA OneAmountInit == Init => OneAmount
<1> SUFFICES ASSUME Init PROVE OneAmount
  OBVIOUS
<1>1. \A i \in Invoice : i[1] \in Op
  BY DEF Invoice
<1>2. \A r \in Call : call[r].op = NoOp
  BY DEF Init, IdleCall
<1>3. wallet.op = NoOp
  BY DEF Init
<1>4. StripeTraced /\ LateTraced
  BY <1>1 DEF Init, StripeTraced, LateTraced, EmptyKeys
<1>5. \A o \in Op : Agreed(o, 0)
  BY <1>1, <1>2, <1>3, ConstantAssumption DEF Init, Agreed, Billed, EmptyKeys
<1> QED BY <1>2, <1>4, <1>5 DEF OneAmount, CallTraced

\* A step that is not a claim: whatever it sends is of the amount.
LEMMA CarryKeepsAmounts ==
  ASSUME Consistency, OneAmount, NEW r \in Call, used' = used, RowCarriesOn,
         CarriesOn(r), Requests(r), call'[r].pc = "finalize" => keys'[call[r].op].item
  PROVE  OneAmount'
<1>1. /\ TypeOK /\ StripeTraced /\ LateTraced /\ CallConsistent(r)
      /\ \A s \in Call : CallTraced(s) /\ call[s].op \in Op \cup {NoOp}
      /\ wallet.op \in Op \cup {NoOp}
  BY DEF OneAmount, Consistency, TypeOK, CallState, Wallet
<1>2. /\ StripeTraced' /\ LateTraced'
      /\ \A o \in Op : keys[o].item => keys'[o].item
      /\ \A m \in late' : m \in late \/ (m[1] = "item" => /\ m[2][1] = call[r].op
                                                         /\ m[3] = call[r].cents)
      /\ \A o \in Op, n \in Nat : Agreed(o, n) => Billed(o, n)'
  <2>1. CASE UNCHANGED <<status, billed, keys, late>>
    BY <1>1, <2>1 DEF StripeTraced, LateTraced, Agreed, Billed
  <2>2. CASE ~UNCHANGED <<status, billed, keys, late>>
    <3>1. PICK kind \in {"create", "item", "finalize", "pay", "void", "delete"},
               i \in Invoice, cents \in Nat :
            /\ Sends(kind, i, cents)
            /\ i[1] = call[r].op
            /\ kind = "item" => cents = call[r].cents
            /\ kind = "finalize" => call[r].pc = "finalize"
      BY <2>2 DEF Requests
    <3>2. i[1] \in Op /\ i[1] # NoOp
      BY ConstantAssumption DEF Invoice
    <3>3. i[1] \in used /\ (kind = "finalize" => keys[i[1]].item)
      BY <1>1, <3>1, <3>2 DEF CallTraced
    <3>4. /\ StripeTraced' /\ LateTraced'
          /\ \A o \in Op : keys[o].item => keys'[o].item
          /\ \A m \in late' : m \in late \/ m = <<kind, i, cents>>
          /\ \A o \in Op, n \in Nat :
               Billed(o, n) /\ (kind = "item" /\ i[1] = o => cents = n) => Billed(o, n)'
      BY <1>1, <3>1, <3>3, SendKeepsTrace
    <3>5. \A o \in Op, n \in Nat : Agreed(o, n) => Billed(o, n)'
      BY <3>1, <3>4 DEF Agreed
    <3>6. <<kind, i, cents>>[1] = kind /\ <<kind, i, cents>>[2] = i /\ <<kind, i, cents>>[3] = cents
      OBVIOUS
    <3> QED BY <3>1, <3>4, <3>5, <3>6
  <2> QED BY <2>1, <2>2
<1>3. \A s \in Call : CallTraced(s)'
  <2> SUFFICES ASSUME NEW s \in Call, call'[s].op # NoOp
               PROVE  /\ call'[s].op \in used'
                      /\ call'[s].pc = "finalize" => keys'[call'[s].op].item
    BY DEF CallTraced
  <2>1. CASE s = r
    BY <1>1, <2>1 DEF CarriesOn, CallTraced
  <2>2. CASE s # r
    BY <1>1, <1>2, <2>2 DEF CarriesOn, CallTraced
  <2> QED BY <2>1, <2>2
<1>4. ASSUME NEW o \in Op, NEW n \in Nat, Agreed(o, n) PROVE Agreed(o, n)'
  <2>1. o # NoOp BY ConstantAssumption
  <2>2. wallet'.op = o => wallet'.cents = n
    BY <1>4, <2>1 DEF RowCarriesOn, Agreed
  <2>3. \A s \in Call : call'[s].op = o => call'[s].cents = n
    BY <1>4, <2>1 DEF CarriesOn, Agreed
  <2>4. \A m \in late' : m[1] = "item" /\ m[2][1] = o => m[3] = n
    BY <1>2, <1>4 DEF Agreed
  <2> QED BY <1>2, <1>4, <2>2, <2>3, <2>4 DEF Agreed
<1> QED BY <1>2, <1>3, <1>4 DEF OneAmount

\* A claim of a new operation gives it its amount, a resumed one keeps it.
LEMMA ClaimKeepsAmounts ==
  ASSUME Consistency, OneAmount, NEW r \in Call, ClaimNew(r) \/ ClaimExpired(r)
  PROVE  OneAmount'
<1>1. /\ TypeOK /\ RowConsistent /\ StripeTraced /\ LateTraced
      /\ \A s \in Call : CallTraced(s)
  BY DEF OneAmount, Consistency
<1>2. UNCHANGED <<status, billed, keys, late>>
  BY DEF ClaimNew, ClaimExpired
<1>3. CASE ClaimNew(r)
  <2>1. PICK n \in Nat : n = Evaluation(r).cents
    BY <1>1, EvaluationType
  <2>2. PICK o, p, due :
          /\ o \in Op \ used
          /\ used' = used \cup {o}
          /\ wallet' = [wallet EXCEPT !.op = o, !.executor = r, !.leased = TRUE,
                                      !.cents = n, !.invoice = NoInvoice]
          /\ call' = [call EXCEPT ![r] =
               [@ EXCEPT !.pc = p, !.op = o, !.fresh = TRUE, !.cents = n,
                         !.invoice = NoInvoice, !.mayPay = due]]
          /\ p # "finalize"
    <3> DEFINE due == call[r].needs \/ call[r].low
    <3>1. PICK o \in Op \ used :
            /\ used' = used \cup {o}
            /\ wallet' = [wallet EXCEPT !.op = o, !.executor = r, !.leased = TRUE,
                                        !.cents = n, !.invoice = NoInvoice]
            /\ call' = [call EXCEPT ![r] =
                 [@ EXCEPT !.pc = IF due THEN "prepare" ELSE "release",
                           !.op = o, !.fresh = TRUE, !.cents = n,
                           !.invoice = NoInvoice, !.mayPay = due]]
      BY <1>3, <2>1 DEF ClaimNew
    <3>2. (IF due THEN "prepare" ELSE "release") # "finalize"
      OBVIOUS
    <3> HIDE DEF due
    <3> QED BY <3>1, <3>2
  <2>3. /\ wallet'.op = o /\ wallet'.cents = n
        /\ call'[r].op = o /\ call'[r].cents = n /\ call'[r].pc # "finalize"
        /\ \A s \in Call \ {r} : call'[s] = call[s]
    BY <1>1, <2>2 DEF TypeOK, Wallet, CallState
  <2>4. StripeTraced' /\ LateTraced' /\ \A s \in Call : CallTraced(s)'
    BY <1>1, <1>2, <2>2, <2>3 DEF StripeTraced, LateTraced, CallTraced
  <2>5. /\ \A s \in Call \ {r} : call[s].op # o
        /\ \A m \in late : m[2][1] # o
        /\ ~keys[o].item
    BY <1>1, <2>2, ConstantAssumption DEF CallTraced, LateTraced, StripeTraced
  <2>6. Agreed(o, n)'
    BY <1>2, <2>3, <2>5 DEF Agreed, Billed
  <2>7. ASSUME NEW q \in Op, q # o, NEW k \in Nat, Agreed(q, k) PROVE Agreed(q, k)'
    BY <1>2, <2>3, <2>7 DEF Agreed, Billed
  <2> QED BY <2>4, <2>6, <2>7 DEF OneAmount
<1>4. CASE ClaimExpired(r)
  <2>1. PICK p, m : /\ wallet' = [wallet EXCEPT !.executor = r, !.leased = TRUE]
                    /\ call' = [call EXCEPT ![r] =
                         [@ EXCEPT !.pc = p, !.op = wallet.op, !.fresh = FALSE,
                                   !.cents = wallet.cents, !.invoice = wallet.invoice,
                                   !.mayPay = m]]
                    /\ p # "finalize"
    <3> DEFINE mayPay == (call[r].needs \/ call[r].low) /\ ResumeAllowed(r)
               pc == IF wallet.invoice # NoInvoice THEN "reconcile"
                     ELSE IF mayPay THEN "prepare" ELSE "release"
    <3>1. /\ wallet' = [wallet EXCEPT !.executor = r, !.leased = TRUE]
          /\ call' = [call EXCEPT ![r] =
               [@ EXCEPT !.pc = pc, !.op = wallet.op, !.fresh = FALSE,
                         !.cents = wallet.cents, !.invoice = wallet.invoice,
                         !.mayPay = mayPay]]
      BY <1>4 DEF ClaimExpired
    <3>2. pc # "finalize"
      OBVIOUS
    <3> HIDE DEF pc, mayPay
    <3> QED BY <3>1, <3>2
  <2>2. /\ wallet'.op = wallet.op /\ wallet'.cents = wallet.cents /\ used' = used
        /\ call'[r].op = wallet.op /\ call'[r].cents = wallet.cents
        /\ call'[r].pc # "finalize"
        /\ \A s \in Call \ {r} : call'[s] = call[s]
    BY <1>1, <1>4, <2>1 DEF TypeOK, Wallet, CallState, ClaimExpired
  <2>3. StripeTraced' /\ LateTraced' /\ \A s \in Call : CallTraced(s)'
    BY <1>1, <1>2, <2>2 DEF StripeTraced, LateTraced, CallTraced, RowConsistent
  <2>4. ASSUME NEW o \in Op, NEW n \in Nat, Agreed(o, n) PROVE Agreed(o, n)'
    BY <1>2, <2>2, <2>4 DEF Agreed, Billed
  <2> QED BY <2>3, <2>4 DEF OneAmount
<1> QED BY <1>3, <1>4


LEMMA CallKeepsAmounts ==
  ASSUME Consistency, OneAmount, NEW r \in Call,
         Start(r) \/ CallStep(r) \/ Crash(r)
  PROVE  OneAmount'
<1>1. TypeOK /\ CallConsistent(r)
  BY DEF Consistency
<1>2. ASSUME UNCHANGED <<status, billed, keys, late>>, used' = used, RowCarriesOn,
             CarriesOn(r), call'[r].pc # "finalize"
      PROVE  OneAmount'
  BY <1>2, CarryKeepsAmounts DEF Requests
<1>3. CASE Start(r)
  <2>1. PICK c : /\ call' = [call EXCEPT ![r] = c]
                 /\ c.op = NoOp /\ c.pc = "debit"
    <3>1. PICK amount, p, e, t : call' = [call EXCEPT ![r] =
            [IdleCall EXCEPT !.pc = "debit", !.want = amount, !.pending = p,
                             !.armed = e, !.floor = t]]
      <4> DEFINE pending == wallet.op # NoOp
      <4>1. \E amount \in Amounts : call' = [call EXCEPT ![r] =
              [IdleCall EXCEPT !.pc = "debit", !.want = amount, !.pending = pending,
                               !.armed = wallet.enabled, !.floor = wallet.threshold]]
        BY <1>3 DEF Start
      <4> HIDE DEF pending
      <4> QED BY <4>1
    <3>2. PICK c : c = [IdleCall EXCEPT !.pc = "debit", !.want = amount, !.pending = p,
                                        !.armed = e, !.floor = t]
      OBVIOUS
    <3>3. c.op = NoOp /\ c.pc = "debit"
      BY <3>2 DEF IdleCall
    <3> QED BY <3>1, <3>2, <3>3
  <2>2. CarriesOn(r) /\ call'[r].pc # "finalize"
    BY <1>1, <2>1, JumpCarriesOn
  <2> QED BY <1>2, <1>3, <2>2 DEF Start, RowCarriesOn
<1>4. CASE ClaimNew(r) \/ ClaimExpired(r)
  BY <1>4, ClaimKeepsAmounts
<1>5. CASE ClaimFollow(r) \/ ClaimRefused(r)
  <2>1. CASE call' = [call EXCEPT ![r].polls = @ + 1]
    <3>1. CarriesOn(r) /\ call'[r].pc = call[r].pc
      BY <1>1, <2>1 DEF TypeOK, CallState, CarriesOn
    <3> QED BY <1>2, <1>5, <3>1 DEF ClaimFollow, ClaimRefused, RowCarriesOn
  <2>2. CASE Return(r) \/ Goto(r, "debitCovered")
    <3>1. CarriesOn(r) /\ call'[r].pc # "finalize"
      BY <1>1, <2>2, ReturnCarriesOn, GotoCarriesOn DEF Return
    <3> QED BY <1>2, <1>5, <3>1 DEF ClaimFollow, ClaimRefused, RowCarriesOn
  <2> QED BY <1>5, <2>1, <2>2 DEF ClaimFollow, ClaimRefused
<1>6. CASE FirstDebit(r) \/ DebitFunded(r) \/ DebitCovered(r)
  BY <1>1, <1>2, <1>6, DebitCarriesOn DEF FirstDebit, DebitFunded, DebitCovered
<1>7. CASE Reconcile(r) \/ Recheck(r) \/ Prepare(r) \/ Retrieve(r)
  BY <1>1, <1>2, <1>7, LookupCarriesOn DEF Reconcile, Recheck, Prepare, Retrieve, RowCarriesOn
<1>8. CASE Retire(r) \/ AddItem(r) \/ Finalize(r) \/ Pay(r) \/ VoidDeclined(r)
  <2>1. UNCHANGED <<wallet, used>>
    BY <1>8 DEF Retire, AddItem, Finalize, Pay, VoidDeclined
  <2> QED BY <1>8, <2>1, InvoiceRequests, CarryKeepsAmounts DEF RowCarriesOn
<1>9. CASE Create(r)
  <2>1. UNCHANGED <<wallet, used>>
    BY <1>9 DEF Create
  <2> QED BY <1>9, <2>1, CreateRequests, CarryKeepsAmounts DEF RowCarriesOn
<1>10. CASE \/ Record(r) \/ Credit(r) \/ Complete(r) \/ CountSuccess(r) \/ Fail(r)
           \/ CountFailure(r) \/ Release(r) \/ Abandon(r) \/ ReleaseExecutor(r)
           \/ MutationThrows(r)
  <2>1. UNCHANGED <<used, status, billed, keys, late>>
    BY <1>10 DEF Record, Credit, Complete, CountSuccess, Fail, CountFailure, Release,
                 Abandon, ReleaseExecutor, MutationThrows
  <2> QED BY <1>1, <1>2, <1>10, <2>1, RowStepCarriesOn
<1>11. CASE Crash(r)
  BY <1>1, <1>2, <1>11, ReturnCarriesOn DEF Crash, RowCarriesOn
<1> QED BY <1>3, <1>4, <1>5, <1>6, <1>7, <1>8, <1>9, <1>10, <1>11 DEF CallStep

LEMMA EnvironmentKeepsAmounts ==
  ASSUME KeysExpire = FALSE, Consistency, OneAmount, Environment
  PROVE  OneAmount'
<1>1. /\ TypeOK /\ StripeTraced /\ LateTraced /\ \A r \in Call : CallTraced(r)
      /\ \A o \in Op : \E n \in Nat : Agreed(o, n)
  BY DEF OneAmount, Consistency
<1>2. RowKept /\ UNCHANGED <<processed, used, call>>
  BY <1>1, EnvironmentKeeps
<1>3. CASE LatePost
  <2>1. PICK m \in late : late' = late \ {m} /\ Effect(m[1], m[2], m[3])
    BY <1>3 DEF LatePost
  <2>2. m[2] \in Invoice /\ m[3] \in Nat /\ m[2][1] \in used
        /\ (m[1] = "finalize" => keys[m[2][1]].item)
    BY <1>1, LateInvoices DEF LateTraced
  <2>3. /\ StripeTraced'
        /\ \A o \in Op : keys[o].item => keys'[o].item
        /\ \A o \in Op, n \in Nat :
             Billed(o, n) /\ (m[1] = "item" /\ m[2][1] = o => m[3] = n) => Billed(o, n)'
    BY <1>1, <1>2, <2>1, <2>2, EffectKeepsTrace
  <2>4. \A o \in Op, n \in Nat : Agreed(o, n) => Billed(o, n)'
    BY <2>1, <2>3 DEF Agreed
  <2>5. UNCHANGED <<wallet, used, call>> /\ late' \subseteq late
    BY <1>2, <1>3, <2>1 DEF LatePost
  <2>6. /\ \A q \in late : q[2][1] \in Op
        /\ \A r \in Call : call[r].op \in Op \cup {NoOp}
    BY <1>1 DEF TypeOK, Post, Invoice, CallState
  <2>7. LateTraced' /\ \A r \in Call : CallTraced(r)'
    BY <1>1, <2>3, <2>5, <2>6 DEF LateTraced, CallTraced
  <2>8. \A o \in Op, n \in Nat : Agreed(o, n) => Agreed(o, n)'
    BY <2>4, <2>5 DEF Agreed
  <2> QED BY <1>1, <2>3, <2>7, <2>8 DEF OneAmount
<1>4. CASE PaymentSettles
  <2>1. /\ \A i \in Invoice : \/ status'[i] = status[i]
                              \/ status[i] = "open" /\ status'[i] = "paid"
        /\ UNCHANGED <<wallet, used, billed, keys, late, call>>
    BY <1>1, <1>4 DEF PaymentSettles, TypeOK
  <2>2. StripeTraced'
    BY <1>1, <2>1 DEF StripeTraced
  <2> QED BY <1>1, <2>1, <2>2 DEF OneAmount, LateTraced, CallTraced, Agreed, Billed
<1>5. ~ \E o \in Op : ForgetKeys(o)
  BY DEF ForgetKeys
<1>6. CASE LeaseExpires \/ CooldownEnds \/ MonthRolls \/ Refund \/ UpdateSettings
  <2>1. UNCHANGED <<used, status, billed, keys, late, call>>
    BY <1>6 DEF LeaseExpires, CooldownEnds, MonthRolls, Refund, UpdateSettings
  <2>2. wallet'.op = wallet.op /\ wallet'.cents = wallet.cents
    <3>1. CASE UpdateSettings
      <4>1. PICK e, resumed, t, a, c : wallet' = Updated(e, resumed, t, a, c)
        BY <3>1 DEF UpdateSettings
      <4> QED BY <1>1, <4>1 DEF Updated, TypeOK, Wallet
    <3>2. CASE LeaseExpires \/ CooldownEnds \/ MonthRolls \/ Refund
      BY <1>1, <3>2 DEF LeaseExpires, CooldownEnds, MonthRolls, Refund, TypeOK, Wallet
    <3> QED BY <1>6, <3>1, <3>2
  <2>3. \A o \in Op, n \in Nat : Agreed(o, n) => Agreed(o, n)'
    BY <2>1, <2>2 DEF Agreed, Billed
  <2>4. StripeTraced' /\ LateTraced' /\ \A r \in Call : CallTraced(r)'
    BY <1>1, <2>1 DEF StripeTraced, LateTraced, CallTraced
  <2> QED BY <1>1, <2>3, <2>4 DEF OneAmount
<1> QED BY <1>3, <1>4, <1>5, <1>6 DEF Environment

\* The wallet is credited what the card was charged, whichever call charged and
\* whichever credits, unless Stripe forgets the keys of an operation.
THEOREM ChargeIsCredited ==
  ASSUME KeysExpire = FALSE
  PROVE  Spec => CreditEqualsCharge
<1>1. Consistency /\ OneAmount /\ [Next]_vars => OneAmount'
  <2> SUFFICES ASSUME Consistency, OneAmount, [Next]_vars PROVE OneAmount'
    OBVIOUS
  <2>1. CASE UNCHANGED vars
    BY <2>1 DEF vars, OneAmount, StripeTraced, LateTraced, CallTraced, Agreed, Billed
  <2>2. CASE \E r \in Call : Start(r) \/ CallStep(r) \/ Crash(r)
    BY <2>2, CallKeepsAmounts
  <2>3. CASE Environment
    BY <2>3, EnvironmentKeepsAmounts
  <2> QED BY <2>1, <2>2, <2>3 DEF Next
<1> DEFINE Equal == \A i \in Invoice :
                      i[1] \in processed' \ processed /\ status[i] = "paid" =>
                        wallet'.balance - wallet.balance = PointsOf(billed[i])
<1>2. Consistency /\ OneAmount /\ [Next]_vars => [Equal]_vars
  <2> SUFFICES ASSUME Consistency, OneAmount, [Next]_vars,
                      NEW i \in Invoice, i[1] \in processed' \ processed, status[i] = "paid"
               PROVE  wallet'.balance - wallet.balance = PointsOf(billed[i])
    OBVIOUS
  <2>1. PICK r \in Call : Credit(r)
    <3>1. processed' # processed
      OBVIOUS
    <3>2. ~Environment
      BY <3>1, EnvironmentKeeps DEF Consistency
    <3>3. PICK r \in Call : Start(r) \/ CallStep(r) \/ Crash(r)
      BY <3>1, <3>2 DEF Next, vars
    <3> QED BY <3>1, <3>3 DEF CallStep, Start, Crash, FirstDebit, ClaimNew, ClaimExpired,
              ClaimFollow, ClaimRefused, Reconcile, Retire, Recheck, Prepare, Retrieve,
              Create, Record, AddItem, Finalize, Pay, VoidDeclined, Complete,
              CountSuccess, Fail, CountFailure, Release, Abandon, ReleaseExecutor,
              MutationThrows, DebitFunded, DebitCovered
  <2>2. i[1] = call[r].op /\ i[1] \in Op /\ i[1] \notin processed
    BY <2>1 DEF Credit, Invoice
  <2>3. PICK n \in Nat : Agreed(i[1], n)
    BY <2>2 DEF OneAmount
  <2>4. call[r].cents = n
    BY <2>2, <2>3 DEF Agreed
  <2>5. billed[i] = n
    <3>1. keys[i[1]].create = i /\ keys[i[1]].item
      BY DEF OneAmount, StripeTraced
    <3> QED BY <2>3, <3>1 DEF Agreed, Billed
  <2>6. wallet'.balance = wallet.balance + PointsOf(n)
    <3>1. wallet' = [wallet EXCEPT !.balance = @ + PointsOf(call[r].cents)]
      BY <2>1, <2>2 DEF Credit
    <3> QED BY <2>4, <3>1 DEF Consistency, TypeOK, Wallet
  <2>7. wallet.balance \in Nat /\ PointsOf(n) \in Nat
    BY PointsAreNat DEF Consistency, TypeOK, Wallet
  <2> QED BY <2>5, <2>6, <2>7
<1>3. CreditEqualsCharge <=> [][Equal]_vars
  BY DEF CreditEqualsCharge
<1> HIDE DEF Equal
<1> QED BY <1>1, <1>2, <1>3, OneAmountInit, ConsistencyInit, ConsistencyNext, PTL DEF Spec
=============================================================================
