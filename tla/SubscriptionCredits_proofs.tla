--------------------- MODULE SubscriptionCredits_proofs ---------------------
(***************************************************************************)
(* What is proved of SubscriptionCredits, for any number of tiers,         *)
(* invoices, handlers and faults: its types; that no plan change is        *)
(* carried over twice; that it implements PlanLedger; and, while the plan  *)
(* is changed at most once, that the hold follows the payment, that a paid *)
(* change is carried over, and that no credits are minted.                 *)
(*                                                                         *)
(* Why once: what was stashed and claimed under an invoice goes in the     *)
(* step that marks the change completed and never comes back, and a        *)
(* handler on its way to apply holds something that was stashed. The other *)
(* arguments stand before the sections they are for.                       *)
(***************************************************************************)
EXTENDS SubscriptionCredits, FiniteSetTheorems, TLAPS

\* What Stripe sends.
StripeEvent ==
  [kind : {"paid", "failed"}, inv : Invoices, at : Nat, from : {NoTier}, to : {NoTier}]
    \cup [kind : {"updated"}, inv : Invoices, at : Nat, from : Tiers, to : Tiers]

\* What is handled was sent by Stripe, and only a plan change is stashed.
EventsAreReal ==
  /\ sent \subseteq StripeEvent
  /\ \A h \in Handlers :
       /\ handler[h].pc # "idle" => handler[h].ev \in StripeEvent
       /\ handler[h].pc = "stash" => handler[h].ev.kind = "updated"

\* A change was applied if and only if it is completed, and nothing is left of it.
CompletedIsDone ==
  \A i \in Invoices :
    /\ changes[i] = IF completed[i] THEN 1 ELSE 0
    /\ completed[i] => stash[i] = NoState /\ claim[i] = NoState

AppliesSomething == \A h \in Handlers : handler[h].pc = "apply" => handler[h].raw # NoState

IInv == TypeOK /\ EventsAreReal /\ CompletedIsDone /\ AppliesSomething

StripeTypes ==
  now \in Nat /\ sub \in Subscription /\ inv \in [Invoices -> Invoice]

RedisTypes ==
  /\ bucket \in [Tiers -> Bucket]
  /\ stash \in [Invoices -> CarryOver] /\ claim \in [Invoices -> CarryOver]
  /\ completed \in [Invoices -> BOOLEAN]

ObserverTypes ==
  spent \in Nat /\ left \subseteq Tiers /\ changes \in [Invoices -> Nat] /\ missed \in BOOLEAN

-----------------------------------------------------------------------------
\* The arithmetic of credits.

LEMMA ShareOf ==
  ASSUME NEW a \in Nat
  PROVE  a \div Share \in Nat
BY Parameters, SMT

LEMMA RemainingType ==
  ASSUME NEW b \in Bucket, NEW max \in Nat
  PROVE  Remaining(b, max) \in Nat
BY DEF Bucket, Remaining, Lesser, NoAllocation

LEMMA NewAllocationType ==
  ASSUME NEW s \in CarryOver, NEW max \in Nat
  PROVE  NewAllocation(s, max) \in Nat
<1>1. s.allocation \in Nat BY DEF CarryOver
<1>2. CASE max >= s.allocation
  <2>1. max - s.allocation \in Nat BY <1>1, <1>2
  <2>2. (max - s.allocation) \div Share \in Nat BY <2>1, ShareOf
  <2> QED BY <1>1, <1>2, <2>2 DEF NewAllocation
<1>3. CASE ~(max >= s.allocation) BY <1>3 DEF NewAllocation
<1> QED BY <1>2, <1>3

LEMMA CarriedType ==
  ASSUME NEW b \in Bucket, NEW s \in CarryOver, NEW max \in Nat
  PROVE  Carried(b, s, max) \in Nat
<1>1. NewRemaining(s, max) \in Nat
  BY NewAllocationType DEF NewRemaining, CarryOver, Greater
<1>2. Provisional(b, max) \in Nat
  BY DEF Provisional, Bucket, Greater
<1> QED BY <1>1, <1>2 DEF Carried, Greater

-----------------------------------------------------------------------------
\* A handler moves: it keeps its event.

LEMMA HandlerGoes ==
  ASSUME IInv, NEW h \in Handlers, NEW pc \in PCs \ {"idle", "stash"}, NEW to \in Tiers,
         NEW raw \in CarryOver, handler[h].pc # "idle", Go(h, pc, to, raw),
         sent' \subseteq StripeEvent, pc = "apply" => raw # NoState
  PROVE  /\ handler' \in [Handlers -> Handler]
         /\ EventsAreReal'
         /\ AppliesSomething'
<1> DEFINE w == IF pc = "mark" THEN [Idle EXCEPT !.pc = pc, !.ev = handler[h].ev]
                ELSE [handler[h] EXCEPT !.pc = pc, !.to = to, !.raw = raw]
<1>1. handler' = [handler EXCEPT ![h] = w]
  BY DEF Go
<1>2. handler \in [Handlers -> Handler]
  BY DEF IInv, TypeOK
<1>3. FirstTier \in Tiers
  BY Parameters
<1>4. NoState \in CarryOver
  BY DEF NoState, CarryOver
<1>5. handler[h] \in Handler
  BY <1>2
<1>6. w \in Handler /\ w.pc = pc /\ w.ev = handler[h].ev /\ (pc # "mark" => w.raw = raw)
  BY <1>3, <1>4, <1>5 DEF Handler, Idle
<1> HIDE DEF w
<1>7. handler' \in [Handlers -> Handler] /\ handler'[h] = w
  BY <1>1, <1>2, <1>6
<1>8. \A g \in Handlers : g # h => handler'[g] = handler[g]
  BY <1>1, <1>2
<1>9. EventsAreReal'
  BY <1>6, <1>7, <1>8 DEF IInv, EventsAreReal
<1>10. AppliesSomething'
  BY <1>6, <1>7, <1>8 DEF IInv, AppliesSomething
<1> QED BY <1>7, <1>9, <1>10

LEMMA HandlerMoves ==
  ASSUME IInv, NEW h \in Handlers, NEW pc \in PCs \ {"idle", "stash", "apply"},
         handler[h].pc # "idle", To(h, pc), sent' \subseteq StripeEvent
  PROVE  /\ handler' \in [Handlers -> Handler]
         /\ EventsAreReal'
         /\ AppliesSomething'
<1>1. handler[h] \in Handler
  BY DEF IInv, TypeOK
<1>2. handler[h].to \in Tiers /\ handler[h].raw \in CarryOver
  BY <1>1 DEF Handler
<1> QED BY <1>2, HandlerGoes DEF To

LEMMA HandlerStops ==
  ASSUME IInv, NEW h \in Handlers, handler' = [handler EXCEPT ![h] = Idle],
         sent' \subseteq StripeEvent
  PROVE  /\ handler' \in [Handlers -> Handler]
         /\ EventsAreReal'
         /\ AppliesSomething'
<1>1. handler \in [Handlers -> Handler]
  BY DEF IInv, TypeOK
<1>2. Idle \in Handler /\ Idle.pc = "idle"
  BY Parameters DEF Idle, Handler, PCs, NoEvent, Event, NoState, CarryOver
<1>3. handler' \in [Handlers -> Handler] /\ handler'[h] = Idle
  BY <1>1, <1>2
<1>4. \A g \in Handlers : g # h => handler'[g] = handler[g]
  BY <1>1
<1> QED BY <1>2, <1>3, <1>4 DEF IInv, EventsAreReal, AppliesSomething

LEMMA Goes ==
  ASSUME IInv, NEW h \in Handlers, NEW pc, NEW to, NEW raw, Go(h, pc, to, raw)
  PROVE  \E q : /\ handler' = [handler EXCEPT ![h] = q]
                /\ q.pc = pc /\ q.ev = handler[h].ev
                /\ pc # "mark" => q.to = to /\ q.raw = raw
                /\ pc = "mark" => q.to = FirstTier
<1> DEFINE w == IF pc = "mark" THEN [Idle EXCEPT !.pc = pc, !.ev = handler[h].ev]
                ELSE [handler[h] EXCEPT !.pc = pc, !.to = to, !.raw = raw]
<1>1. handler' = [handler EXCEPT ![h] = w]
  BY DEF Go
<1>2. handler[h] \in Handler
  BY DEF IInv, TypeOK
<1>3. w.pc = pc /\ w.ev = handler[h].ev /\ (pc # "mark" => w.to = to /\ w.raw = raw)
      /\ (pc = "mark" => w.to = FirstTier)
  BY <1>2 DEF Handler, Idle
<1> HIDE DEF w
<1> QED BY <1>1, <1>3

\* The event of a handler that is at work.
LEMMA EventOf ==
  ASSUME IInv, NEW h \in Handlers, handler[h].pc # "idle"
  PROVE  /\ handler[h].ev \in StripeEvent
         /\ handler[h].ev.inv \in Invoices
         /\ handler[h].ev.at \in Nat
         /\ handler[h].ev.kind = "updated" =>
              handler[h].ev.from \in Tiers /\ handler[h].ev.to \in Tiers
         /\ handler[h].to \in Tiers
         /\ handler[h].raw \in CarryOver
<1>1. handler[h] \in Handler
  BY DEF IInv, TypeOK
<1>2. handler[h].ev \in StripeEvent
  BY DEF IInv, EventsAreReal
<1> QED BY <1>1, <1>2 DEF StripeEvent, Handler

LEMMA EventsAreTyped == StripeEvent \subseteq Event
BY DEF StripeEvent, Event

-----------------------------------------------------------------------------
\* Stripe and the user.

LEMMA FaultType ==
  ASSUME IInv, Fault \/ UNCHANGED faults
  PROVE  faults' \in 0..MaxFaults
BY Parameters DEF IInv, TypeOK, Fault

LEMMA ChargedTypes ==
  ASSUME IInv, NEW i \in Invoices, now' \in Nat, Charged(i, "subscription_cycle")
  PROVE  inv' \in [Invoices -> Invoice] /\ sub' \in Subscription /\ sent' \subseteq StripeEvent
<1>1. inv \in [Invoices -> Invoice] /\ sub \in Subscription /\ sent \subseteq StripeEvent
  BY DEF IInv, TypeOK, EventsAreReal
<1>2. inv[i] \in Invoice
  BY <1>1
<1>3. [NoEvent EXCEPT !.kind = "paid", !.inv = i, !.at = now'] \in StripeEvent
  BY DEF NoEvent, StripeEvent
<1>4. [NoEvent EXCEPT !.kind = "failed", !.inv = i, !.at = now'] \in StripeEvent
  BY DEF NoEvent, StripeEvent
<1>5. sent' \subseteq StripeEvent
  BY <1>1, <1>3, <1>4 DEF Charged
<1>6. sub' \in Subscription
  <2> DEFINE begun == sub.cycle + IF inv[i].reason = "none" THEN 1 ELSE 0
  <2>1. begun \in Nat
    BY <1>1 DEF Subscription
  <2>2. \E s \in {"active", "past_due"} :
          sub' = [sub EXCEPT !.latest = i, !.status = s, !.cycle = begun]
    BY DEF Charged
  <2> HIDE DEF begun
  <2> QED BY <1>1, <2>1, <2>2 DEF Subscription
<1>7. CASE inv' = [inv EXCEPT ![i] = [@ EXCEPT !.reason = "subscription_cycle",
                                             !.status = "paid", !.paidAt = now']]
  <2>1. [inv[i] EXCEPT !.reason = "subscription_cycle", !.status = "paid", !.paidAt = now']
          \in Invoice
    BY <1>2 DEF Invoice
  <2> QED BY <1>1, <1>5, <1>6, <1>7, <2>1
<1>8. CASE inv' = [inv EXCEPT ![i] = [@ EXCEPT !.reason = "subscription_cycle",
                                             !.status = "open",
                                             !.attempts = inv[i].attempts + 1]]
  <2> DEFINE n == inv[i].attempts + 1
  <2>1. n \in Nat
    BY <1>2 DEF Invoice
  <2>2. inv' = [inv EXCEPT ![i] = [inv[i] EXCEPT !.reason = "subscription_cycle",
                                                !.status = "open", !.attempts = n]]
    BY <1>8
  <2> HIDE DEF n
  <2>3. [inv[i] EXCEPT !.reason = "subscription_cycle", !.status = "open", !.attempts = n]
          \in Invoice
    BY <1>2, <2>1 DEF Invoice
  <2> QED BY <1>1, <1>5, <1>6, <2>2, <2>3
<1> QED BY <1>7, <1>8 DEF Charged

\* What Stripe does on its own concerns no handler and nothing in Redis.
LEMMA RestKeeps ==
  ASSUME IInv, Rest, StripeTypes', sent' \subseteq StripeEvent
  PROVE  IInv'
<1>1. TypeOK'
  BY EventsAreTyped DEF IInv, TypeOK, StripeTypes, Rest, redis
<1>2. EventsAreReal' /\ CompletedIsDone' /\ AppliesSomething'
  BY DEF IInv, EventsAreReal, CompletedIsDone, AppliesSomething, Rest, redis
<1> QED BY <1>1, <1>2 DEF IInv

LEMMA RenewKeeps ==
  ASSUME IInv, NEW i \in Invoices, Renew(i) \/ ChargeAgain(i)
  PROVE  IInv'
<1>1. now' \in Nat
  BY DEF IInv, TypeOK, Renew, ChargeAgain
<1>2. Charged(i, "subscription_cycle") /\ Rest
  BY DEF Renew, ChargeAgain
<1> QED BY <1>1, <1>2, ChargedTypes, RestKeeps DEF StripeTypes

LEMMA PayChangeKeeps ==
  ASSUME IInv, NEW i \in Invoices, PayChange(i)
  PROVE  IInv'
<1>1. inv \in [Invoices -> Invoice] /\ sub \in Subscription /\ now \in Nat
  BY DEF IInv, TypeOK
<1>2. [inv[i] EXCEPT !.status = "paid", !.paidAt = now] \in Invoice
  BY <1>1 DEF Invoice
<1>3. [NoEvent EXCEPT !.kind = "paid", !.inv = i, !.at = now] \in StripeEvent
  BY <1>1 DEF NoEvent, StripeEvent
<1>4. StripeTypes'
  BY <1>1, <1>2 DEF StripeTypes, PayChange
<1>5. sent' \subseteq StripeEvent /\ Rest
  BY <1>3 DEF PayChange, IInv, EventsAreReal
<1> QED BY <1>4, <1>5, RestKeeps

LEMMA ChangePlanKeeps ==
  ASSUME IInv, NEW i \in Invoices, NEW t \in Tiers, ChangePlan(i, t)
  PROVE  IInv'
<1>1. inv \in [Invoices -> Invoice] /\ sub \in Subscription /\ now \in Nat
  BY DEF IInv, TypeOK
<1>2. [inv[i] EXCEPT !.reason = "subscription_update", !.status = "open"] \in Invoice
  BY <1>1 DEF Invoice
<1>3. [kind |-> "updated", inv |-> i, at |-> now, from |-> sub.tier, to |-> t] \in StripeEvent
  BY <1>1 DEF StripeEvent, Subscription
<1>4. sub' \in Subscription
  BY <1>1 DEF ChangePlan, Subscription
<1>5. StripeTypes'
  BY <1>1, <1>2, <1>4 DEF StripeTypes, ChangePlan
<1>6. sent' \subseteq StripeEvent /\ Rest
  BY <1>3 DEF ChangePlan, IInv, EventsAreReal
<1> QED BY <1>5, <1>6, RestKeeps

LEMMA EntitleKeeps ==
  ASSUME IInv, Entitle
  PROVE  IInv'
<1>1. entitled' \in Tiers
  BY DEF IInv, TypeOK, Entitle, Subscription
<1>2. TypeOK'
  BY <1>1 DEF IInv, TypeOK, Entitle, stripe, redis
<1>3. EventsAreReal' /\ CompletedIsDone' /\ AppliesSomething'
  BY DEF IInv, EventsAreReal, CompletedIsDone, AppliesSomething, Entitle, redis
<1> QED BY <1>2, <1>3 DEF IInv

LEMMA FreshType ==
  ASSUME NEW t \in Tiers
  PROVE  FreshBucket(t) \in Bucket
BY Parameters DEF FreshBucket, NoBucket, Bucket, NoTransition, Transition

LEMMA SpendKeeps ==
  ASSUME IInv, Spend
  PROVE  IInv'
<1> DEFINE b == IF bucket[entitled].exists THEN bucket[entitled] ELSE FreshBucket(entitled)
<1>1. bucket \in [Tiers -> Bucket] /\ entitled \in Tiers /\ spent \in Nat
  BY DEF IInv, TypeOK
<1>2. b \in Bucket
  BY <1>1, FreshType
<1>3. b.tokens > 0 /\ bucket' = [bucket EXCEPT ![entitled] = [b EXCEPT !.tokens = @ - 1]]
  BY DEF Spend
<1> HIDE DEF b
<1>4. [b EXCEPT !.tokens = b.tokens - 1] \in Bucket
  BY <1>2, <1>3 DEF Bucket
<1>5. bucket' \in [Tiers -> Bucket]
  BY <1>1, <1>3, <1>4
<1>6. spent' \in Nat
  BY <1>1 DEF Spend
<1>7. TypeOK'
  BY <1>5, <1>6 DEF IInv, TypeOK, Spend, stripe
<1>8. EventsAreReal' /\ CompletedIsDone' /\ AppliesSomething'
  BY DEF IInv, EventsAreReal, CompletedIsDone, AppliesSomething, Spend
<1> QED BY <1>7, <1>8 DEF IInv

-----------------------------------------------------------------------------
\* The webhook: steps that leave Redis alone.

LEMMA IdleStep ==
  ASSUME IInv, UNCHANGED <<stripe, redis, entitled, spent, left, changes>>,
         missed' \in BOOLEAN, Fault \/ UNCHANGED faults,
         sent' \subseteq StripeEvent, processed' \subseteq Event,
         handler' \in [Handlers -> Handler], EventsAreReal', AppliesSomething'
  PROVE  IInv'
<1>1. TypeOK'
  BY FaultType, EventsAreTyped DEF IInv, TypeOK, stripe, redis
<1>2. CompletedIsDone'
  BY DEF IInv, CompletedIsDone, redis
<1> QED BY <1>1, <1>2 DEF IInv

LEMMA ReceiveKeeps ==
  ASSUME IInv, NEW h \in Handlers, NEW e \in sent, Receive(h, e)
  PROVE  IInv'
<1> DEFINE pc == IF e \in processed THEN "answer"
                 ELSE IF e.kind = "updated" THEN "stash" ELSE "read"
           to == IF e.kind = "updated" THEN e.to ELSE FirstTier
           w == [Idle EXCEPT !.ev = e, !.pc = pc, !.to = to]
<1>1. e \in StripeEvent /\ e \in Event
  BY EventsAreTyped DEF IInv, EventsAreReal
<1>2. to \in Tiers /\ pc \in PCs /\ pc \notin {"idle", "apply"}
      /\ (pc = "stash" => e.kind = "updated")
  BY <1>1, Parameters DEF StripeEvent, PCs
<1>3. handler' = [handler EXCEPT ![h] = w]
  BY DEF Receive
<1> HIDE DEF pc, to
<1>4. w \in Handler /\ w.pc = pc /\ w.ev = e
  BY <1>1, <1>2 DEF Handler, Idle, NoState, CarryOver
<1> HIDE DEF w
<1>5. handler \in [Handlers -> Handler]
  BY DEF IInv, TypeOK
<1>6. handler' \in [Handlers -> Handler] /\ handler'[h] = w
      /\ \A g \in Handlers : g # h => handler'[g] = handler[g]
  BY <1>3, <1>4, <1>5
<1>7. UNCHANGED <<stripe, sent, processed, redis, entitled, faults>> /\ Unspent
  BY DEF Receive
<1>8. EventsAreReal' /\ AppliesSomething'
  BY <1>1, <1>2, <1>4, <1>6, <1>7 DEF IInv, EventsAreReal, AppliesSomething
<1> QED BY <1>6, <1>7, <1>8, IdleStep DEF IInv, EventsAreReal, TypeOK, Unspent

LEMMA MarkKeeps ==
  ASSUME IInv, NEW h \in Handlers, Mark(h)
  PROVE  IInv'
<1>1. handler[h].ev \in Event /\ processed' \subseteq Event
  BY EventOf, EventsAreTyped DEF Mark, IInv, TypeOK
<1>2. To(h, "answer") /\ "answer" \in PCs \ {"idle", "stash", "apply"}
  BY DEF Mark, PCs
<1>3. sent' \subseteq StripeEvent /\ handler[h].pc # "idle"
  BY DEF Mark, IInv, EventsAreReal
<1> QED BY <1>1, <1>2, <1>3, HandlerMoves, IdleStep DEF Mark, IInv, TypeOK, Unspent

LEMMA StopKeeps ==
  ASSUME IInv, NEW h \in Handlers, Answer(h) \/ Die(h)
  PROVE  IInv'
<1>1. sent' \subseteq StripeEvent
  BY DEF Answer, Die, IInv, EventsAreReal
<1>2. handler' = [handler EXCEPT ![h] = Idle]
  BY DEF Answer, Die
<1> QED BY <1>1, <1>2, HandlerStops, IdleStep DEF Answer, Die, IInv, TypeOK, Unspent

LEMMA MissKeeps ==
  ASSUME IInv, NEW h \in Handlers, Miss(h)
  PROVE  IInv'
<1>1. To(h, "mark") /\ "mark" \in PCs \ {"idle", "stash", "apply"} /\ handler[h].pc # "idle"
  BY DEF Miss, PCs
<1>2. sent' \subseteq StripeEvent
  BY DEF Miss, IInv, EventsAreReal
<1> QED BY <1>1, <1>2, HandlerMoves, IdleStep DEF Miss, IInv, TypeOK

LEMMA ReadSubscriptionKeeps ==
  ASSUME IInv, NEW h \in Handlers, ReadSubscription(h)
  PROVE  IInv'
<1>1. PICK pc \in {"mark", "reset", "claim", "invoice"} : Go(h, pc, sub.tier, NoState)
  BY DEF ReadSubscription
<1>2. pc \in PCs \ {"idle", "stash"} /\ pc # "apply"
  BY DEF PCs
<1>3. sub.tier \in Tiers /\ NoState \in CarryOver
  BY DEF IInv, TypeOK, Subscription, NoState, CarryOver
<1>4. sent' \subseteq StripeEvent /\ handler[h].pc # "idle"
  BY DEF ReadSubscription, IInv, EventsAreReal
<1>5. handler' \in [Handlers -> Handler] /\ EventsAreReal' /\ AppliesSomething'
  BY <1>1, <1>2, <1>3, <1>4, HandlerGoes
<1> QED BY <1>4, <1>5, IdleStep DEF ReadSubscription, IInv, TypeOK, Unspent

LEMMA ReadInvoiceKeeps ==
  ASSUME IInv, NEW h \in Handlers, ReadInvoice(h)
  PROVE  IInv'
<1>1. PICK pc \in {"mark", "freeze", "claim"} : To(h, pc)
  BY DEF ReadInvoice
<1>2. pc \in PCs \ {"idle", "stash", "apply"}
  BY DEF PCs
<1>3. sent' \subseteq StripeEvent /\ handler[h].pc # "idle"
  BY DEF ReadInvoice, IInv, EventsAreReal
<1>4. handler' \in [Handlers -> Handler] /\ EventsAreReal' /\ AppliesSomething'
  BY <1>1, <1>2, <1>3, HandlerMoves
<1>5. Fault \/ UNCHANGED faults
  BY DEF ReadInvoice
<1> QED BY <1>3, <1>4, <1>5, IdleStep DEF ReadInvoice, IInv, TypeOK, Unspent

-----------------------------------------------------------------------------
\* The webhook: the scripts.

LEMMA ScriptStep ==
  ASSUME IInv, NEW h \in Handlers, handler[h].pc # "idle", To(h, "mark") \/ To(h, "invoice"),
         UNCHANGED <<stripe, sent, processed, entitled, missed, faults>>,
         bucket' \in [Tiers -> Bucket], stash' \in [Invoices -> CarryOver],
         claim' \in [Invoices -> CarryOver], completed' \in [Invoices -> BOOLEAN],
         spent' \in Nat, left' \subseteq Tiers, changes' \in [Invoices -> Nat],
         CompletedIsDone'
  PROVE  IInv'
<1>1. sent' \subseteq StripeEvent
  BY DEF IInv, EventsAreReal
<1>2. {"mark", "invoice"} \subseteq PCs \ {"idle", "stash", "apply"}
  BY DEF PCs
<1>3. handler' \in [Handlers -> Handler] /\ EventsAreReal' /\ AppliesSomething'
  BY <1>1, <1>2, HandlerMoves
<1>4. TypeOK'
  BY <1>3 DEF IInv, TypeOK, stripe
<1> QED BY <1>3, <1>4 DEF IInv

LEMMA ResetKeeps ==
  ASSUME IInv, NEW h \in Handlers, ResetAfterPayment(h)
  PROVE  IInv'
<1> DEFINE e == handler[h].ev
           t == handler[h].to
           full == [exists |-> TRUE, tokens |-> TierMax[t], allocation |-> TierMax[t],
                    trans |-> [type |-> "paid", at |-> inv[e.inv].paidAt, inv |-> e.inv]]
<1>1. handler[h].pc # "idle" /\ To(h, "mark")
  BY DEF ResetAfterPayment
<1>2. t \in Tiers /\ e.inv \in Invoices
  BY <1>1, EventOf
<1>3. bucket \in [Tiers -> Bucket] /\ inv[e.inv] \in Invoice /\ TierMax[t] \in Nat
  BY <1>2, Parameters DEF IInv, TypeOK
<1>4. full \in Bucket
  BY <1>2, <1>3 DEF Bucket, Transition, Invoice
<1>5. bucket' = bucket \/ bucket' = [bucket EXCEPT ![t] = full]
  BY DEF ResetAfterPayment
<1> HIDE DEF full
<1>6. bucket' \in [Tiers -> Bucket]
  BY <1>3, <1>4, <1>5
<1>7. spent' \in Nat /\ left' \subseteq Tiers
  BY DEF ResetAfterPayment, IInv, TypeOK
<1>8. UNCHANGED <<stripe, sent, processed, stash, claim, completed, entitled, changes,
                  missed, faults>>
  BY DEF ResetAfterPayment
<1>9. CompletedIsDone'
  BY <1>8 DEF IInv, CompletedIsDone
<1> QED BY <1>1, <1>6, <1>7, <1>8, <1>9, ScriptStep DEF IInv, TypeOK

LEMMA FreezeKeeps ==
  ASSUME IInv, NEW h \in Handlers, Freeze(h)
  PROVE  IInv'
<1> DEFINE e == handler[h].ev
           t == handler[h].to
           rest == Remaining(bucket[t], TierMax[t])
           held == [exists |-> TRUE, tokens |-> rest, allocation |-> rest,
                    trans |-> [type |-> "payment_failed", at |-> e.at, inv |-> e.inv]]
<1>1. handler[h].pc # "idle" /\ To(h, "mark")
  BY DEF Freeze
<1>2. t \in Tiers /\ e.inv \in Invoices /\ e.at \in Nat
  BY <1>1, EventOf
<1>3. bucket \in [Tiers -> Bucket] /\ TierMax[t] \in Nat
  BY <1>2, Parameters DEF IInv, TypeOK
<1>4. rest \in Nat
  BY <1>2, <1>3, RemainingType
<1>5. bucket' = bucket \/ bucket' = [bucket EXCEPT ![t] = held]
  BY DEF Freeze
<1> HIDE DEF rest
<1>6. held \in Bucket
  BY <1>2, <1>4 DEF Bucket, Transition
<1> HIDE DEF held
<1>7. bucket' \in [Tiers -> Bucket]
  BY <1>3, <1>5, <1>6
<1>8. spent' \in Nat
  BY DEF Freeze, IInv, TypeOK
<1>9. UNCHANGED <<stripe, sent, processed, stash, claim, completed, entitled, left, changes,
                  missed, faults>>
  BY DEF Freeze
<1>10. CompletedIsDone'
  BY <1>9 DEF IInv, CompletedIsDone
<1> QED BY <1>1, <1>7, <1>8, <1>9, <1>10, ScriptStep DEF IInv, TypeOK

LEMMA StashKeeps ==
  ASSUME IInv, NEW h \in Handlers, Stash(h)
  PROVE  IInv'
<1> DEFINE e == handler[h].ev
           b == IF bucket[e.from].exists THEN bucket[e.from] ELSE FreshBucket(e.from)
           allocation == IF b.allocation = NoAllocation THEN TierMax[e.from]
                         ELSE Lesser(TierMax[e.from], b.allocation)
           kept == [target |-> e.to, remaining |-> Lesser(allocation, b.tokens),
                    allocation |-> allocation, cycle |-> sub.cycle]
<1>1. handler[h].pc = "stash" /\ handler[h].pc # "idle" /\ To(h, "invoice")
  BY DEF Stash
<1>2. e.kind = "updated"
  BY <1>1 DEF IInv, EventsAreReal
<1>3. e.from \in Tiers /\ e.to \in Tiers /\ e.inv \in Invoices
  BY <1>1, <1>2, EventOf
<1>4. /\ bucket \in [Tiers -> Bucket] /\ TierMax[e.from] \in Nat /\ sub.cycle \in Nat
      /\ stash \in [Invoices -> CarryOver]
  BY <1>3, Parameters DEF IInv, TypeOK, Subscription
<1>5. b \in Bucket
  BY <1>3, <1>4, FreshType
<1>6. \/ UNCHANGED stash
      \/ ~completed[e.inv] /\ stash' = [stash EXCEPT ![e.inv] = kept]
  BY DEF Stash
<1> HIDE DEF b
<1>7. allocation \in Nat /\ b.tokens \in Nat
  BY <1>4, <1>5 DEF Bucket, Lesser, NoAllocation
<1> HIDE DEF allocation
<1>8. kept \in CarryOver
  BY <1>3, <1>4, <1>7 DEF CarryOver, Lesser
<1> HIDE DEF kept
<1>9. stash' \in [Invoices -> CarryOver]
  BY <1>4, <1>6, <1>8
<1>10. NoBucket \in Bucket
  BY DEF NoBucket, Bucket, NoTransition, Transition
<1>11. bucket' \in [Tiers -> Bucket]
  BY <1>4, <1>10 DEF Stash
<1>12. left' \subseteq Tiers
  BY <1>3 DEF Stash, IInv, TypeOK
<1>13. UNCHANGED <<stripe, sent, processed, claim, completed, entitled, spent, changes,
                   missed, faults>>
  BY DEF Stash
<1>14. CompletedIsDone'
  BY <1>4, <1>6, <1>13 DEF IInv, CompletedIsDone
<1> QED BY <1>1, <1>9, <1>11, <1>12, <1>13, <1>14, ScriptStep DEF IInv, TypeOK

LEMMA ClaimKeeps ==
  ASSUME IInv, NEW h \in Handlers, Claim(h)
  PROVE  IInv'
<1> DEFINE i == handler[h].ev.inv
           raw == IF completed[i] THEN NoState
                  ELSE IF claim[i] # NoState THEN claim[i] ELSE stash[i]
           usable == raw # NoState /\ raw.target = handler[h].to /\ raw.cycle = sub.cycle
           pc == IF usable THEN "apply" ELSE "mark"
<1>1. handler[h].pc # "idle"
  BY DEF Claim
<1>2. i \in Invoices /\ handler[h].to \in Tiers
  BY <1>1, EventOf
<1>3. claim \in [Invoices -> CarryOver] /\ stash \in [Invoices -> CarryOver]
  BY DEF IInv, TypeOK
<1>4. raw \in CarryOver
  BY <1>2, <1>3 DEF NoState, CarryOver
<1>5. pc \in PCs \ {"idle", "stash"} /\ (pc = "apply" => raw # NoState)
  BY DEF PCs
<1>6. UNCHANGED claim \/ (~completed[i] /\ claim' = [claim EXCEPT ![i] = raw])
  BY DEF Claim
<1>7. Go(h, pc, handler[h].to, raw)
  BY DEF Claim
<1>8. UNCHANGED <<stripe, sent, processed, bucket, stash, completed, entitled, faults>> /\ Unspent
  BY DEF Claim
<1> HIDE DEF pc, raw
<1>9. sent' \subseteq StripeEvent
  BY <1>8 DEF IInv, EventsAreReal
<1>10. handler' \in [Handlers -> Handler] /\ EventsAreReal' /\ AppliesSomething'
  BY <1>1, <1>2, <1>4, <1>5, <1>7, <1>9, HandlerGoes
<1>11. claim' \in [Invoices -> CarryOver]
  BY <1>3, <1>4, <1>6
<1>12. TypeOK'
  BY <1>8, <1>10, <1>11 DEF IInv, TypeOK, stripe, Unspent
<1>13. CompletedIsDone'
  BY <1>3, <1>6, <1>8 DEF IInv, CompletedIsDone, Unspent
<1> QED BY <1>10, <1>12, <1>13 DEF IInv

LEMMA ApplyKeeps ==
  ASSUME IInv, NEW h \in Handlers, Apply(h)
  PROVE  IInv'
<1> DEFINE i == handler[h].ev.inv
           t == handler[h].to
           s == handler[h].raw
           new == [exists |-> TRUE, tokens |-> Carried(bucket[t], s, TierMax[t]),
                   allocation |-> NewAllocation(s, TierMax[t]), trans |-> NoTransition]
<1>1. handler[h].pc # "idle" /\ To(h, "mark") /\ s # NoState
  BY DEF Apply, IInv, AppliesSomething
<1>2. i \in Invoices /\ t \in Tiers /\ s \in CarryOver
  BY <1>1, EventOf
<1>3. TypeOK /\ CompletedIsDone
  BY DEF IInv
<1>4. UNCHANGED <<stripe, sent, processed, entitled, spent, missed, faults>>
  BY DEF Apply
<1>5. CASE ~StillClaimed(i, s)
  <2>1. UNCHANGED <<redis, changes, left>>
    BY <1>5 DEF Apply
  <2>2. CompletedIsDone'
    BY <1>3, <2>1 DEF CompletedIsDone, redis
  <2> QED BY <1>1, <1>3, <1>4, <2>1, <2>2, ScriptStep DEF TypeOK, redis
<1>6. CASE StillClaimed(i, s)
  <2>1. /\ bucket' = [bucket EXCEPT ![t] = new]
        /\ completed' = [completed EXCEPT ![i] = TRUE]
        /\ stash' = [stash EXCEPT ![i] = NoState]
        /\ claim' = [claim EXCEPT ![i] = NoState]
        /\ changes' = [changes EXCEPT ![i] = changes[i] + 1]
        /\ left' = left \ {t}
    BY <1>6 DEF Apply
  <2>2. bucket[t] \in Bucket /\ TierMax[t] \in Nat
    BY <1>2, <1>3, Parameters DEF TypeOK
  <2>3. Carried(bucket[t], s, TierMax[t]) \in Nat /\ NewAllocation(s, TierMax[t]) \in Nat
    BY <1>2, <2>2, CarriedType, NewAllocationType
  <2>4. new \in Bucket
    BY <2>3 DEF Bucket, NoTransition, Transition
  <2> HIDE DEF new
  <2>5. bucket' \in [Tiers -> Bucket]
    BY <1>3, <2>1, <2>4 DEF TypeOK
  <2>6. NoState \in CarryOver
    BY DEF NoState, CarryOver
  <2>7. stash' \in [Invoices -> CarryOver] /\ claim' \in [Invoices -> CarryOver]
        /\ completed' \in [Invoices -> BOOLEAN]
    BY <1>3, <2>1, <2>6 DEF TypeOK
  <2>8. ~completed[i]
    BY <1>1, <1>2, <1>3, <1>6 DEF CompletedIsDone, StillClaimed
  <2>9. changes[i] = 0
    BY <1>2, <1>3, <2>8 DEF CompletedIsDone
  <2>10. changes' = [changes EXCEPT ![i] = 1]
    BY <2>1, <2>9
  <2>11. changes' \in [Invoices -> Nat]
    BY <1>3, <2>10 DEF TypeOK
  <2>12. CompletedIsDone'
    BY <1>2, <1>3, <2>1, <2>10 DEF CompletedIsDone, TypeOK
  <2>13. left' \subseteq Tiers /\ spent' \in Nat
    BY <1>3, <1>4, <2>1 DEF TypeOK
  <2> QED BY <1>1, <1>4, <2>5, <2>7, <2>11, <2>12, <2>13, ScriptStep
<1> QED BY <1>5, <1>6

-----------------------------------------------------------------------------
\* The theorems.

LEMMA InitHolds == Init => IInv
<1> SUFFICES ASSUME Init PROVE IInv
  OBVIOUS
<1>1. NoState \in CarryOver /\ Idle \in Handler /\ NoBucket \in Bucket
  BY Parameters DEF NoState, CarryOver, Idle, Handler, PCs, NoEvent, Event, NoBucket, Bucket,
     NoTransition, Transition
<1>2. [FreshBucket(FirstTier) EXCEPT !.allocation = TierMax[FirstTier]] \in Bucket
  BY Parameters, FreshType DEF Bucket
<1>3. bucket \in [Tiers -> Bucket]
  BY <1>1, <1>2 DEF Init
<1>4. StripeTypes
  BY Parameters DEF Init, StripeTypes, Subscription, Invoice
<1>5. RedisTypes
  BY <1>1, <1>3 DEF Init, RedisTypes
<1>6. ObserverTypes
  BY DEF Init, ObserverTypes
<1>7. handler \in [Handlers -> Handler] /\ \A h \in Handlers : handler[h].pc = "idle"
  BY <1>1 DEF Init, Idle
<1>8. TypeOK
  BY <1>4, <1>5, <1>6, <1>7, Parameters DEF Init, TypeOK, StripeTypes, RedisTypes, ObserverTypes
<1>9. EventsAreReal /\ AppliesSomething
  BY <1>7 DEF Init, EventsAreReal, AppliesSomething
<1>10. CompletedIsDone
  BY DEF Init, CompletedIsDone
<1> QED BY <1>8, <1>9, <1>10 DEF IInv

LEMMA NextKeeps == IInv /\ [Next]_vars => IInv'
<1> SUFFICES ASSUME IInv, [Next]_vars PROVE IInv'
  OBVIOUS
<1>1. CASE UNCHANGED vars
  BY <1>1 DEF IInv, TypeOK, EventsAreReal, CompletedIsDone, AppliesSomething, vars, stripe, redis
<1>2. ASSUME NEW i \in Invoices, Renew(i) \/ ChargeAgain(i) \/ PayChange(i)
      PROVE  IInv'
  BY <1>2, RenewKeeps, PayChangeKeeps
<1>3. ASSUME NEW i \in Invoices, NEW t \in Tiers, ChangePlan(i, t)
      PROVE  IInv'
  BY <1>3, ChangePlanKeeps
<1>4. CASE Entitle \/ Spend
  BY <1>4, EntitleKeeps, SpendKeeps
<1>5. ASSUME NEW h \in Handlers, Handle(h)
      PROVE  IInv'
  BY <1>5, ReceiveKeeps, ReadSubscriptionKeeps, ReadInvoiceKeeps, ResetKeeps, FreezeKeeps,
     StashKeeps, ClaimKeeps, ApplyKeeps, MarkKeeps, StopKeeps, MissKeeps DEF Handle
<1> QED BY <1>1, <1>2, <1>3, <1>4, <1>5 DEF Next

LEMMA Inductive == Spec => []IInv
BY InitHolds, NextKeeps, PTL DEF Spec

\* Every variable keeps its type: no count of credits becomes negative, whatever
\* was stashed, spent meanwhile or held.
THEOREM TypeCorrect == Spec => []TypeOK
<1>1. IInv => TypeOK
  BY DEF IInv
<1> QED BY <1>1, Inductive, PTL

\* No plan change is carried over twice, however often and by however many
\* handlers its two events are handled (applyProratedTierChangeBucket).
THEOREM ChangedOnce == Spec => []AppliedOnce
<1>1. IInv => AppliedOnce
  BY DEF IInv, CompletedIsDone, AppliedOnce
<1> QED BY <1>1, Inductive, PTL

-----------------------------------------------------------------------------
(* The refinement of PlanLedger                                            *)
(*                                                                         *)
(* A change is applied only when it is due, i.e. its invoice is that of a  *)
(* plan change and paid: a handler learns so from Stripe before it claims, *)
(* and an invoice that is due remains so, whatever happens to others.      *)

Due(i) == i \in PlanChanges /\ inv[i].status = "paid"

\* What an event says of its invoice is so.
Truthful(e) ==
  /\ e.kind = "paid" => inv[e.inv].status = "paid"
  /\ e.kind = "updated" => e.inv \in PlanChanges

DueFirst ==
  /\ \A i \in Invoices : inv[i].reason = "none" <=> inv[i].status = "none"
  /\ \A e \in sent : Truthful(e)
  /\ \A h \in Handlers :
       /\ handler[h].pc # "idle" => Truthful(handler[h].ev)
       /\ handler[h].pc \in {"claim", "apply"} => Due(handler[h].ev.inv)
  /\ \A i \in Invoices : changes[i] # 0 => Due(i)

\* Stripe charges an invoice that is not paid yet, or issues one.
LEMMA StripeDue ==
  ASSUME IInv, DueFirst, NEW i \in Invoices, NEW r, NEW e, Rest,
         inv' = [inv EXCEPT ![i] = r], inv[i].status # "paid",
         inv[i].reason = "none" \/ r.reason = inv[i].reason,
         r.reason # "none" /\ r.status # "none",
         sent' = sent \cup {e}, Truthful(e)'
  PROVE  DueFirst'
<1>1. inv \in [Invoices -> Invoice]
  BY DEF IInv, TypeOK
<1>2. inv'[i] = r /\ \A j \in Invoices : j # i => inv'[j] = inv[j]
  BY <1>1
<1>3. \A j \in Invoices : inv[j].status = "paid" => inv'[j].status = "paid"
  BY <1>2
<1>4. PlanChanges \subseteq PlanChanges'
  BY <1>2 DEF PlanChanges
<1>5. \A j : Due(j) => Due(j)'
  BY <1>3, <1>4 DEF Due, PlanChanges
<1>6. ASSUME NEW d \in StripeEvent, Truthful(d) PROVE Truthful(d)'
  BY <1>3, <1>4, <1>6 DEF Truthful, StripeEvent
<1>7. \A d \in sent' : Truthful(d)'
  BY <1>6 DEF IInv, EventsAreReal, DueFirst
<1>8. UNCHANGED <<handler, changes>>
  BY DEF Rest
<1>9. ASSUME NEW h \in Handlers
      PROVE  /\ handler[h].pc # "idle" => Truthful(handler[h].ev)'
             /\ handler[h].pc \in {"claim", "apply"} => Due(handler[h].ev.inv)'
  BY <1>5, <1>6, <1>8 DEF IInv, EventsAreReal, DueFirst
<1>10. \A j \in Invoices : inv'[j].reason = "none" <=> inv'[j].status = "none"
  BY <1>2 DEF DueFirst
<1> QED BY <1>5, <1>7, <1>8, <1>9, <1>10 DEF DueFirst

\* A handler takes an event that was sent, or goes on with its own.
LEMMA HandlerDue ==
  ASSUME IInv, DueFirst, UNCHANGED inv, sent' \subseteq sent, NEW h \in Handlers, NEW q,
         handler' = [handler EXCEPT ![h] = q], q.pc # "idle" => Truthful(q.ev),
         q.pc \in {"claim", "apply"} => Due(q.ev.inv),
         \A i \in Invoices : changes'[i] # changes[i] => Due(i)
  PROVE  DueFirst'
<1>1. handler \in [Handlers -> Handler]
  BY DEF IInv, TypeOK
<1>2. handler'[h] = q /\ \A g \in Handlers : g # h => handler'[g] = handler[g]
  BY <1>1
<1>3. PlanChanges' = PlanChanges
  BY DEF PlanChanges
<1>4. (\A i : Due(i)' <=> Due(i)) /\ \A e : Truthful(e)' <=> Truthful(e)
  BY <1>3 DEF Due, Truthful
<1>5. \A e \in sent' : Truthful(e)'
  BY <1>4 DEF DueFirst
<1>6. ASSUME NEW g \in Handlers
      PROVE  /\ handler'[g].pc # "idle" => Truthful(handler[g].ev)'
             /\ handler'[g].pc \in {"claim", "apply"} => Due(handler[g].ev.inv)'
  BY <1>2, <1>4 DEF DueFirst
<1>7. \A i \in Invoices : changes'[i] # 0 => Due(i)'
  BY <1>4 DEF DueFirst
<1> QED BY <1>5, <1>6, <1>7 DEF DueFirst

\* A handler goes on to a step; to claim and to apply only what is due.
LEMMA GoesDue ==
  ASSUME IInv, DueFirst, NEW h \in Handlers, NEW pc, NEW to, NEW raw, Go(h, pc, to, raw),
         handler[h].pc # "idle", UNCHANGED inv, sent' \subseteq sent,
         pc \in {"claim", "apply"} => Due(handler[h].ev.inv),
         \A i \in Invoices : changes'[i] # changes[i] => Due(i)
  PROVE  DueFirst'
<1>1. PICK q : /\ handler' = [handler EXCEPT ![h] = q]
               /\ q.pc = pc /\ q.ev = handler[h].ev
  BY Goes
<1>2. Truthful(q.ev)
  BY <1>1 DEF DueFirst
<1>3. q.pc \in {"claim", "apply"} => Due(q.ev.inv)
  BY <1>1
<1> QED BY <1>1, <1>2, <1>3, HandlerDue

LEMMA ChargedDue ==
  ASSUME IInv, DueFirst, NEW i \in Invoices, Charged(i, "subscription_cycle"), Rest,
         inv[i].reason = "none" \/ inv[i].reason = "subscription_cycle",
         inv[i].status # "paid"
  PROVE  DueFirst'
<1>1. inv \in [Invoices -> Invoice] /\ inv[i] \in Invoice
  BY DEF IInv, TypeOK
<1>2. CASE /\ inv' = [inv EXCEPT ![i] = [@ EXCEPT !.reason = "subscription_cycle",
                                                !.status = "paid", !.paidAt = now']]
           /\ sent' = sent \cup {[NoEvent EXCEPT !.kind = "paid", !.inv = i, !.at = now']}
  <2>1. PICK r : r = [inv[i] EXCEPT !.reason = "subscription_cycle", !.status = "paid",
                                    !.paidAt = now']
    OBVIOUS
  <2>2. r.reason = "subscription_cycle" /\ r.status = "paid"
    BY <1>1, <2>1 DEF Invoice
  <2>3. PICK e : e = [NoEvent EXCEPT !.kind = "paid", !.inv = i, !.at = now']
    OBVIOUS
  <2>4. e.kind = "paid" /\ e.inv = i
    BY <2>3 DEF NoEvent
  <2>5. inv' = [inv EXCEPT ![i] = r] /\ sent' = sent \cup {e}
    BY <1>2, <2>1, <2>3
  <2>6. inv'[i] = r
    BY <1>1, <2>5
  <2>7. Truthful(e)'
    BY <2>2, <2>4, <2>6 DEF Truthful
  <2> QED BY <2>2, <2>5, <2>7, StripeDue
<1>3. CASE /\ inv' = [inv EXCEPT ![i] = [@ EXCEPT !.reason = "subscription_cycle",
                                                !.status = "open",
                                                !.attempts = inv[i].attempts + 1]]
           /\ sent' = sent \cup {[NoEvent EXCEPT !.kind = "failed", !.inv = i, !.at = now']}
  <2>1. PICK r : r = [inv[i] EXCEPT !.reason = "subscription_cycle", !.status = "open",
                                    !.attempts = inv[i].attempts + 1]
    OBVIOUS
  <2>2. r.reason = "subscription_cycle" /\ r.status = "open"
    BY <1>1, <2>1 DEF Invoice
  <2>3. PICK e : e = [NoEvent EXCEPT !.kind = "failed", !.inv = i, !.at = now']
    OBVIOUS
  <2>4. Truthful(e)'
    BY <2>3 DEF NoEvent, Truthful
  <2>5. inv' = [inv EXCEPT ![i] = r] /\ sent' = sent \cup {e}
    BY <1>3, <2>1, <2>3
  <2> QED BY <2>2, <2>4, <2>5, StripeDue
<1> QED BY <1>2, <1>3 DEF Charged

LEMMA InvoiceDue ==
  ASSUME IInv, DueFirst, NEW i \in Invoices,
         \/ Renew(i) \/ ChargeAgain(i) \/ PayChange(i)
         \/ \E t \in Tiers : ChangePlan(i, t)
  PROVE  DueFirst'
<1>1. inv \in [Invoices -> Invoice] /\ inv[i] \in Invoice
  BY DEF IInv, TypeOK
<1>2. CASE Renew(i)
  BY <1>2, ChargedDue DEF Renew, DueFirst
<1>3. CASE ChargeAgain(i)
  BY <1>3, ChargedDue DEF ChargeAgain
<1>4. CASE PayChange(i)
  <2>1. PICK r : r = [inv[i] EXCEPT !.status = "paid", !.paidAt = now]
    OBVIOUS
  <2>2. r.reason = inv[i].reason /\ r.status = "paid" /\ inv[i].reason = "subscription_update"
    BY <1>1, <1>4, <2>1 DEF Invoice, PayChange, PlanChanges
  <2>3. PICK e : e = [NoEvent EXCEPT !.kind = "paid", !.inv = i, !.at = now]
    OBVIOUS
  <2>4. e.kind = "paid" /\ e.inv = i
    BY <2>3 DEF NoEvent
  <2>5. /\ inv' = [inv EXCEPT ![i] = r] /\ sent' = sent \cup {e} /\ Rest
        /\ inv[i].status = "open"
    BY <1>4, <2>1, <2>3 DEF PayChange
  <2>6. inv'[i] = r
    BY <1>1, <2>5
  <2>7. Truthful(e)'
    BY <2>2, <2>4, <2>6 DEF Truthful
  <2> QED BY <2>2, <2>5, <2>7, StripeDue
<1>5. CASE \E t \in Tiers : ChangePlan(i, t)
  <2>1. PICK t \in Tiers : ChangePlan(i, t)
    BY <1>5
  <2>2. PICK r : r = [inv[i] EXCEPT !.reason = "subscription_update", !.status = "open"]
    OBVIOUS
  <2>3. r.reason = "subscription_update" /\ r.status = "open"
    BY <1>1, <2>2 DEF Invoice
  <2>4. PICK e : e = [kind |-> "updated", inv |-> i, at |-> now, from |-> sub.tier, to |-> t]
    OBVIOUS
  <2>5. e.kind = "updated" /\ e.inv = i
    BY <2>4
  <2>6. /\ inv' = [inv EXCEPT ![i] = r] /\ sent' = sent \cup {e} /\ Rest
        /\ inv[i].reason = "none"
    BY <2>1, <2>2, <2>4 DEF ChangePlan
  <2>7. inv'[i] = r
    BY <1>1, <2>6
  <2>8. Truthful(e)'
    BY <2>3, <2>5, <2>7 DEF Truthful, PlanChanges
  <2>9. inv[i].status # "paid"
    BY <2>6 DEF DueFirst
  <2> QED BY <2>3, <2>6, <2>8, <2>9, StripeDue
<1> QED BY <1>2, <1>3, <1>4, <1>5

LEMMA HandleDue ==
  ASSUME IInv, DueFirst, NEW h \in Handlers, Handle(h)
  PROVE  DueFirst'
<1>1. \A i \in Invoices : changes'[i] = changes[i] => (changes'[i] # changes[i] => Due(i))
  OBVIOUS
<1>2. ASSUME NEW e \in sent, Receive(h, e)
      PROVE  DueFirst'
  <2>1. PICK q : q = [Idle EXCEPT !.ev = e,
            !.pc = IF e \in processed THEN "answer"
                   ELSE IF e.kind = "updated" THEN "stash" ELSE "read",
            !.to = IF e.kind = "updated" THEN e.to ELSE FirstTier]
    OBVIOUS
  <2>2. q.ev = e /\ q.pc \in {"answer", "stash", "read"}
    BY <2>1 DEF Idle
  <2>3. /\ handler' = [handler EXCEPT ![h] = q]
        /\ UNCHANGED <<inv, sent, changes>>
    BY <1>2, <2>1 DEF Receive, stripe, Unspent
  <2> QED BY <2>2, <2>3, HandlerDue DEF DueFirst
<1>3. CASE ReadSubscription(h)
  <2> DEFINE e == handler[h].ev
             pc == IF e.kind = "paid"
                   THEN IF ~Eligible(e.inv) THEN "mark"
                        ELSE IF inv[e.inv].reason = "subscription_cycle" THEN "reset" ELSE "claim"
                   ELSE IF sub.status = "past_due" THEN "invoice" ELSE "mark"
  <2>1. handler[h].pc # "idle" /\ Go(h, pc, sub.tier, NoState)
        /\ UNCHANGED <<inv, sent, changes>>
    BY <1>3 DEF ReadSubscription, stripe, Unspent
  <2>2. e.inv \in Invoices /\ inv[e.inv] \in Invoice
    BY <2>1, EventOf DEF IInv, TypeOK
  <2>3. pc \in {"claim", "apply"} => Due(e.inv)
    <3> SUFFICES ASSUME e.kind = "paid", inv[e.inv].reason # "subscription_cycle"
                 PROVE  Due(e.inv)
      OBVIOUS
    <3>1. inv[e.inv].status = "paid"
      BY <2>1 DEF DueFirst, Truthful
    <3>2. inv[e.inv].reason # "none"
      BY <2>2, <3>1 DEF DueFirst
    <3>3. inv[e.inv].reason = "subscription_update"
      BY <2>2, <3>2 DEF Invoice
    <3> QED BY <2>2, <3>1, <3>3 DEF Due, PlanChanges
  <2> HIDE DEF pc
  <2> QED BY <2>1, <2>3, GoesDue
<1>4. CASE ReadInvoice(h)
  <2>1. handler[h].pc # "idle" /\ UNCHANGED <<inv, sent, changes>>
    BY <1>4 DEF ReadInvoice, stripe, Unspent
  <2>2. PICK pc \in {"mark", "freeze", "claim"} :
          /\ To(h, pc)
          /\ pc = "claim" => /\ handler[h].ev.kind = "updated"
                             /\ inv[handler[h].ev.inv].status = "paid"
    BY <1>4 DEF ReadInvoice
  <2>3. pc = "claim" => Due(handler[h].ev.inv)
    BY <2>1, <2>2 DEF DueFirst, Truthful, Due
  <2> QED BY <2>1, <2>2, <2>3, GoesDue DEF To
<1>5. CASE Claim(h)
  <2>1. handler[h].pc = "claim" /\ UNCHANGED <<inv, sent, changes>>
    BY <1>5 DEF Claim, stripe, Unspent
  <2>2. PICK pc, raw : Go(h, pc, handler[h].to, raw)
    BY <1>5 DEF Claim
  <2>3. Due(handler[h].ev.inv)
    BY <2>1 DEF DueFirst
  <2> QED BY <2>1, <2>2, <2>3, GoesDue
<1>6. CASE Apply(h)
  <2>1. handler[h].pc = "apply" /\ UNCHANGED <<inv, sent>> /\ To(h, "mark")
    BY <1>6 DEF Apply, stripe
  <2>2. Due(handler[h].ev.inv)
    BY <2>1 DEF DueFirst
  <2>3. changes \in [Invoices -> Nat]
    BY DEF IInv, TypeOK
  <2>4. \/ UNCHANGED changes
        \/ changes' = [changes EXCEPT ![handler[h].ev.inv] = @ + 1]
    BY <1>6 DEF Apply
  <2>5. \A i \in Invoices : changes'[i] # changes[i] => Due(i)
    BY <2>2, <2>3, <2>4
  <2> QED BY <2>1, <2>5, GoesDue DEF To
<1>7. CASE ResetAfterPayment(h) \/ Freeze(h) \/ Stash(h) \/ Mark(h) \/ Miss(h)
  <2>1. handler[h].pc # "idle" /\ UNCHANGED <<inv, sent, changes>>
    BY <1>7 DEF ResetAfterPayment, Freeze, Stash, Mark, Miss, stripe, Unspent
  <2>2. PICK pc \in {"mark", "invoice", "answer"} : To(h, pc)
    BY <1>7 DEF ResetAfterPayment, Freeze, Stash, Mark, Miss
  <2> QED BY <2>1, <2>2, GoesDue DEF To
<1>8. CASE Answer(h) \/ Die(h)
  <2>1. handler' = [handler EXCEPT ![h] = Idle] /\ UNCHANGED <<inv, changes>>
        /\ sent' \subseteq sent
    BY <1>8 DEF Answer, Die, stripe, Unspent
  <2>2. Idle.pc = "idle"
    BY DEF Idle
  <2> QED BY <2>1, <2>2, HandlerDue
<1> QED BY <1>2, <1>3, <1>4, <1>5, <1>6, <1>7, <1>8 DEF Handle

LEMMA AlwaysDueFirst == Spec => []DueFirst
<1>1. Init => DueFirst
  BY DEF Init, DueFirst, Idle
<1>2. IInv /\ DueFirst /\ [Next]_vars => DueFirst'
  <2> SUFFICES ASSUME IInv, DueFirst, [Next]_vars PROVE DueFirst'
    OBVIOUS
  <2>1. CASE UNCHANGED vars \/ Entitle \/ Spend
    BY <2>1 DEF vars, stripe, Entitle, Spend, DueFirst, Truthful, Due, PlanChanges
  <2>2. CASE \E i \in Invoices : Renew(i) \/ ChargeAgain(i) \/ PayChange(i)
    BY <2>2, InvoiceDue
  <2>3. CASE \E i \in Invoices, t \in Tiers : ChangePlan(i, t)
    BY <2>3, InvoiceDue
  <2>4. CASE \E h \in Handlers : Handle(h)
    BY <2>4, HandleDue
  <2> QED BY <2>1, <2>2, <2>3, <2>4 DEF Next
<1> QED BY <1>1, <1>2, Inductive, PTL DEF Spec

\* A step that changes the stage of one invoice.
LEMMA OneMoves ==
  ASSUME NEW i \in Invoices, NEW to, StageOf(i)' = to,
         \A j \in Invoices : j # i => StageOf(j)' = StageOf(j)
  PROVE  plans' = [plans EXCEPT ![i] = to]
BY DEF plans

LEMMA SamePlans ==
  ASSUME UNCHANGED <<inv, changes>>
  PROVE  plans' = plans
BY DEF plans, StageOf

LEMMA InvoiceRefines ==
  ASSUME IInv, DueFirst, NEW i \in Invoices,
         \/ Renew(i) \/ ChargeAgain(i) \/ PayChange(i)
         \/ \E t \in Tiers : ChangePlan(i, t)
  PROVE  Ledger!LedgerNext \/ plans' = plans
<1>1. inv \in [Invoices -> Invoice] /\ inv[i] \in Invoice
  BY DEF IInv, TypeOK
<1>2. changes' = changes
  BY DEF Renew, ChargeAgain, PayChange, ChangePlan, Rest
<1>3. \E r : inv' = [inv EXCEPT ![i] = r]
  BY DEF Renew, ChargeAgain, PayChange, ChangePlan, Charged
<1>4. \A j \in Invoices : j # i => StageOf(j)' = StageOf(j)
  BY <1>1, <1>2, <1>3 DEF StageOf
<1>5. plans[i] = StageOf(i)
  BY DEF plans
<1>6. CASE Renew(i) \/ ChargeAgain(i)
  <2>1. inv'[i].reason = "subscription_cycle"
    <3>1. Charged(i, "subscription_cycle")
      BY <1>6 DEF Renew, ChargeAgain
    <3>2. \/ inv'[i] = [inv[i] EXCEPT !.reason = "subscription_cycle", !.status = "paid",
                                      !.paidAt = now']
          \/ inv'[i] = [inv[i] EXCEPT !.reason = "subscription_cycle", !.status = "open",
                                      !.attempts = inv[i].attempts + 1]
      BY <1>1, <3>1 DEF Charged
    <3> QED BY <1>1, <3>2 DEF Invoice
  <2>2. StageOf(i)' = "renewal"
    BY <2>1 DEF StageOf
  <2>3. StageOf(i) \in {"unused", "renewal"}
    BY <1>6 DEF Renew, ChargeAgain, StageOf
  <2>4. plans' = [plans EXCEPT ![i] = "renewal"]
    BY <1>4, <2>2, OneMoves
  <2>5. CASE StageOf(i) = "renewal"
    BY <1>5, <2>4, <2>5 DEF plans
  <2>6. CASE StageOf(i) = "unused"
    <3>1. Ledger!Renewed(i)
      BY <1>5, <2>4, <2>6 DEF Ledger!Renewed, Ledger!Moves
    <3> QED BY <3>1 DEF Ledger!LedgerNext
  <2> QED BY <2>3, <2>5, <2>6
<1>7. CASE PayChange(i)
  <2>1. /\ inv[i].reason = "subscription_update" /\ inv[i].status = "open"
        /\ inv' = [inv EXCEPT ![i] = [@ EXCEPT !.status = "paid", !.paidAt = now]]
    BY <1>7 DEF PayChange, PlanChanges
  <2>2. inv'[i].reason = "subscription_update" /\ inv'[i].status = "paid"
    BY <1>1, <2>1 DEF Invoice
  <2>3. changes[i] = 0
    BY <2>1 DEF DueFirst, Due
  <2>4. StageOf(i) = "changed" /\ StageOf(i)' = "paid"
    BY <1>2, <2>1, <2>2, <2>3 DEF StageOf
  <2>5. Ledger!Paid(i)
    BY <1>4, <1>5, <2>4, OneMoves DEF Ledger!Paid, Ledger!Moves
  <2> QED BY <2>5 DEF Ledger!LedgerNext
<1>8. CASE \E t \in Tiers : ChangePlan(i, t)
  <2>1. /\ inv[i].reason = "none"
        /\ inv' = [inv EXCEPT ![i] = [@ EXCEPT !.reason = "subscription_update",
                                               !.status = "open"]]
    BY <1>8 DEF ChangePlan
  <2>2. inv'[i].reason = "subscription_update" /\ inv'[i].status = "open"
    BY <1>1, <2>1 DEF Invoice
  <2>3. changes[i] = 0
    BY <2>1 DEF DueFirst, Due, PlanChanges
  <2>4. StageOf(i) = "unused" /\ StageOf(i)' = "changed"
    BY <1>2, <2>1, <2>2, <2>3 DEF StageOf
  <2>5. Ledger!Changed(i)
    BY <1>4, <1>5, <2>4, OneMoves DEF Ledger!Changed, Ledger!Moves
  <2> QED BY <2>5 DEF Ledger!LedgerNext
<1> QED BY <1>6, <1>7, <1>8

LEMMA HandleRefines ==
  ASSUME IInv, DueFirst, NEW h \in Handlers, Handle(h)
  PROVE  Ledger!LedgerNext \/ plans' = plans
<1>1. inv' = inv
  BY DEF Handle, Receive, ReadSubscription, ReadInvoice, ResetAfterPayment, Freeze, Stash,
     Claim, Apply, Mark, Answer, Die, Miss, stripe
<1>2. CASE UNCHANGED changes
  BY <1>1, <1>2, SamePlans
<1>3. CASE changes' # changes
  <2>0. PICK i, s : i = handler[h].ev.inv /\ s = handler[h].raw
    OBVIOUS
  <2>1. Apply(h)
    BY <1>3 DEF Handle, Receive, ReadSubscription, ReadInvoice, ResetAfterPayment, Freeze,
       Stash, Claim, Mark, Answer, Die, Miss, Unspent
  <2>2. /\ handler[h].pc = "apply" /\ StillClaimed(i, s)
        /\ changes' = [changes EXCEPT ![i] = @ + 1]
    BY <1>3, <2>0, <2>1 DEF Apply
  <2>3. i \in Invoices /\ Due(i) /\ s # NoState
    BY <2>0, <2>2, EventOf DEF DueFirst, IInv, AppliesSomething
  <2>4. changes[i] = 0
    BY <2>2, <2>3 DEF IInv, CompletedIsDone, StillClaimed
  <2>5. changes \in [Invoices -> Nat]
    BY DEF IInv, TypeOK
  <2>6. changes'[i] = 1 /\ \A j \in Invoices : j # i => changes'[j] = changes[j]
    BY <2>2, <2>3, <2>4, <2>5
  <2>7. StageOf(i) = "paid" /\ StageOf(i)' = "carried"
    BY <1>1, <2>3, <2>4, <2>6 DEF StageOf, Due, PlanChanges
  <2>8. \A j \in Invoices : j # i => StageOf(j)' = StageOf(j)
    BY <1>1, <2>6 DEF StageOf
  <2>9. plans[i] = "paid" /\ plans' = [plans EXCEPT ![i] = "carried"]
    BY <2>3, <2>7, <2>8, OneMoves DEF plans
  <2>10. Ledger!CarriedOver(i)
    BY <2>9 DEF Ledger!CarriedOver, Ledger!Moves
  <2> QED BY <2>3, <2>10 DEF Ledger!LedgerNext
<1> QED BY <1>2, <1>3

\* A bucket is carried over for a plan change only, after its invoice was paid,
\* and once, for any number of plan changes, invoices, handlers and faults:
\* whatever the order of the invoice's two events, and whichever handlers hold
\* the same claim (handleInvoicePaid, applyProratedTierChangeBucket).
THEOREM Refinement == Spec => ImplementsLedger
<1>1. Init => Ledger!LedgerInit
  BY DEF Init, Ledger!LedgerInit, plans, StageOf
<1>2. IInv /\ DueFirst /\ [Next]_vars => [Ledger!LedgerNext]_plans
  <2> SUFFICES ASSUME IInv, DueFirst, [Next]_vars
               PROVE  Ledger!LedgerNext \/ plans' = plans
    OBVIOUS
  <2>1. CASE UNCHANGED vars \/ Entitle \/ Spend
    BY <2>1, SamePlans DEF vars, stripe, Entitle, Spend
  <2>2. CASE \E i \in Invoices : Renew(i) \/ ChargeAgain(i) \/ PayChange(i)
    BY <2>2, InvoiceRefines
  <2>3. CASE \E i \in Invoices, t \in Tiers : ChangePlan(i, t)
    BY <2>3, InvoiceRefines
  <2>4. CASE \E h \in Handlers : Handle(h)
    BY <2>4, HandleRefines
  <2> QED BY <2>1, <2>2, <2>3, <2>4 DEF Next
<1> QED BY <1>1, <1>2, Inductive, AlwaysDueFirst, PTL DEF Spec, ImplementsLedger, Ledger!LedgerSpec

-----------------------------------------------------------------------------
(* The hold and the plan change                                            *)
(*                                                                         *)
(* While an invoice is not acted on as it should be, an event of it is     *)
(* pending: Stripe delivers it until a handler goes through with it. What  *)
(* makes this inductive is that the seconds of charges and failures are    *)
(* ordered (renewals are apart), that a handler writes to the tier that    *)
(* its invoice is about, and that what was stashed stays until it is       *)
(* applied. All for one change of plan: a second one that overtakes the    *)
(* first leaves the first without an eligible invoice.                     *)

OneChange == MaxChanges <= 1

Renewal(i) == i \in Invoices /\ inv[i].reason = "subscription_cycle"
Paid(i) == Renewal(i) /\ inv[i].status = "paid"

\* Every charge so far was within this second.
Upto == IF Paid(sub.latest) THEN inv[sub.latest].paidAt ELSE now

StripeFits ==
  /\ \A i \in Invoices : inv[i].reason = "none" <=> inv[i].status = "none"
  /\ \A i \in Invoices : inv[i].status = "open" => i = sub.latest
  /\ \A i, j \in PlanChanges : i = j
  /\ sub.latest = NoInvoice => \A i \in Invoices : inv[i].reason = "none"
  /\ sub.latest # NoInvoice => inv[sub.latest].reason # "none"
  /\ sub.status = "past_due" <=> Renewal(sub.latest) /\ ~Paid(sub.latest)
  /\ PlanChanges = {} => sub.tier = FirstTier
  /\ Upto <= now
  /\ \A i \in Invoices : Paid(i) => inv[i].paidAt <= Upto
  /\ Renewal(sub.latest) =>
       \A i \in Invoices \ {sub.latest} : Paid(i) => inv[i].paidAt < Upto

\* A failure of an invoice at a second; of one that is open, after every payment.
FailedAt(i, at) ==
  /\ Renewal(i) /\ at <= Upto
  /\ ~Paid(i) => \A j \in Invoices : Paid(j) => inv[j].paidAt < at

\* What Stripe says, in an event or to Redis, is so.
EventFits(e) ==
  /\ e.kind = "paid" => e.inv \in Invoices /\ inv[e.inv].status = "paid"
  /\ e.kind = "failed" => FailedAt(e.inv, e.at)
  /\ e.kind = "updated" => e.inv \in PlanChanges /\ e.to = sub.tier /\ e.from # sub.tier

EventsFit ==
  /\ \A e \in sent \cup processed : EventFits(e)
  /\ \A h \in Handlers : EventFits(handler[h].ev)

BucketsFit ==
  \A t \in Tiers :
    LET w == bucket[t].trans
    IN /\ ~bucket[t].exists => bucket[t] = NoBucket
       /\ w.type = "none" => w = NoTransition
       /\ w.type = "payment_failed" => FailedAt(w.inv, w.at)
       /\ w.type = "paid" => Paid(w.inv) /\ w.at = inv[w.inv].paidAt
       /\ PlanChanges = {} /\ t # FirstTier => w.type = "none"

\* The invoice's change is stashed, or done with.
Kept(i) == completed[i] \/ stash[i] # NoState

\* What a handler is about to apply is still there, or done with.
Holds(i, r) == completed[i] \/ (claim[i] = r /\ stash[i] = r)

\* A handler writes to the tier its event is about, as far as it matters still.
HandlerFits(q) ==
  LET i == q.ev.inv
  IN /\ q.pc = "idle" => q = Idle
     /\ PlanChanges = {} => q.to = FirstTier
     /\ q.pc = "read" => q.ev.kind \in {"paid", "failed"}
     /\ q.pc = "reset" => q.ev.kind = "paid" /\ Paid(i) /\ (i = sub.latest => q.to = sub.tier)
     /\ q.pc = "freeze" => q.ev.kind = "failed"
     /\ q.pc = "invoice" => q.ev.kind \in {"failed", "updated"}
     /\ q.pc \in {"invoice", "freeze"} /\ q.ev.kind = "failed" =>
          /\ ~Paid(i) => q.to = sub.tier
          /\ sub.latest \in PlanChanges => q.to # sub.tier
     /\ q.pc \in {"stash", "invoice", "claim", "apply"} /\ i \in PlanChanges => q.to = sub.tier
     /\ q.pc \in {"claim", "apply"} => i \in PlanChanges /\ inv[i].status = "paid"
     /\ q.pc \in {"invoice", "claim"} /\ q.ev.kind = "updated" => Kept(i)
     /\ q.pc = "apply" => Holds(i, q.raw)

HandlersFit == \A h \in Handlers : HandlerFits(handler[h])

\* The events of a plan change are handled before the next renewal.
ChangesApart ==
  sub.latest \notin PlanChanges =>
    /\ \A e \in sent : e.inv \notin PlanChanges
    /\ \A h \in Handlers : handler[h].ev.inv \notin PlanChanges

StashesFit ==
  \A i \in Invoices :
    /\ claim[i] # NoState => claim[i] = stash[i]
    /\ completed[i] => inv[i].status = "paid"
    /\ stash[i] # NoState =>
         /\ i \in PlanChanges
         /\ i = sub.latest => stash[i].target = sub.tier /\ stash[i].cycle = sub.cycle

\* An event is pending until a handler has gone through with it.
Pending(e) ==
  /\ e \in sent \ processed
  /\ \A h \in Handlers : handler[h].ev = e => handler[h].pc \notin {"mark", "answer"}

PendingOf(kind, i) == \E e \in sent : e.kind = kind /\ e.inv = i /\ Pending(e)

\* The bucket is held after every payment.
Frozen ==
  /\ bucket[sub.tier].trans.type = "payment_failed"
  /\ \A j \in Invoices : Paid(j) => inv[j].paidAt < bucket[sub.tier].trans.at

\* The bucket was filled for the last payment.
Filled ==
  /\ bucket[sub.tier].trans.type = "paid"
  /\ bucket[sub.tier].trans.at >= inv[sub.latest].paidAt

HoldFits ==
  /\ sub.status = "past_due" => Frozen \/ PendingOf("failed", sub.latest)
  /\ Paid(sub.latest) => Filled \/ PendingOf("paid", sub.latest)
  /\ ~Renewal(sub.latest) => bucket[sub.tier].trans.type # "payment_failed"

ChangeFits ==
  \A i \in PlanChanges :
    IF inv[i].status = "open" THEN stash[i] # NoState \/ PendingOf("updated", i)
    ELSE \/ completed[i]
         \/ PendingOf("updated", i)
         \/ stash[i] # NoState /\ PendingOf("paid", i)

\* Nothing is known of what a swallowed lookup leaves behind.
Billing ==
  /\ IInv /\ StripeFits /\ EventsFit /\ BucketsFit /\ HandlersFit /\ ChangesApart /\ StashesFit
  /\ missed \/ (HoldFits /\ ChangeFits)

-----------------------------------------------------------------------------
\* What steps of a handler leave as it is.

LEMMA Still ==
  ASSUME UNCHANGED stripe
  PROVE  /\ StripeFits => StripeFits'
         /\ \A i : (Renewal(i)' <=> Renewal(i)) /\ (Paid(i)' <=> Paid(i))
         /\ Upto' = Upto /\ PlanChanges' = PlanChanges
         /\ \A i, at : FailedAt(i, at)' <=> FailedAt(i, at)
         /\ \A e : EventFits(e)' <=> EventFits(e)
<1>1. UNCHANGED <<now, sub, inv>>
  BY DEF stripe
<1>2. \A i : (Renewal(i)' <=> Renewal(i)) /\ (Paid(i)' <=> Paid(i))
  BY <1>1 DEF Renewal, Paid
<1>3. Upto' = Upto /\ PlanChanges' = PlanChanges
  BY <1>1, <1>2 DEF Upto, PlanChanges
<1>4. \A i, at : FailedAt(i, at)' <=> FailedAt(i, at)
  BY <1>1, <1>2, <1>3 DEF FailedAt
<1>5. \A e : EventFits(e)' <=> EventFits(e)
  BY <1>1, <1>3, <1>4 DEF EventFits
<1>6. StripeFits => StripeFits'
  BY <1>1, <1>2, <1>3 DEF StripeFits
<1> QED BY <1>2, <1>3, <1>4, <1>5, <1>6

LEMMA OutsideInvoices == NoInvoice \notin PlanChanges /\ ~Renewal(NoInvoice) /\ ~Paid(NoInvoice)
BY Parameters DEF PlanChanges, Renewal, Paid

\* Handlers handle what Stripe has sent.
LEMMA EventsStep ==
  ASSUME Billing, UNCHANGED stripe, NEW h \in Handlers, NEW q,
         handler' = [handler EXCEPT ![h] = q], q.ev \in sent \cup {handler[h].ev, NoEvent},
         sent' \subseteq sent, processed' \subseteq processed \cup {handler[h].ev}
  PROVE  StripeFits' /\ EventsFit' /\ ChangesApart'
<1>1. handler \in [Handlers -> Handler]
  BY DEF Billing, IInv, TypeOK
<1>2. handler'[h] = q /\ \A g \in Handlers : g # h => handler'[g] = handler[g]
  BY <1>1
<1>3. EventFits(NoEvent) /\ NoEvent.inv \notin PlanChanges
  BY OutsideInvoices DEF EventFits, NoEvent
<1>4. EventFits(q.ev) /\ EventFits(handler[h].ev)
  BY <1>3 DEF Billing, EventsFit
<1>5. EventsFit'
  BY <1>2, <1>4, Still DEF Billing, EventsFit
<1>6. sub' = sub
  BY DEF stripe
<1>7. ChangesApart'
  BY <1>2, <1>3, <1>6, Still DEF Billing, ChangesApart
<1> QED BY <1>5, <1>7, Still DEF Billing

LEMMA HandlerStill ==
  ASSUME UNCHANGED stripe, NEW q, HandlerFits(q),
         q.pc \in {"invoice", "claim"} /\ q.ev.kind = "updated" => Kept(q.ev.inv)',
         q.pc = "apply" => Holds(q.ev.inv, q.raw)'
  PROVE  HandlerFits(q)'
BY Still DEF HandlerFits, stripe

\* Handlers keep to their tiers, if what is stashed is only applied.
LEMMA HandlersStep ==
  ASSUME Billing, UNCHANGED stripe, NEW h \in Handlers, NEW q,
         handler' = [handler EXCEPT ![h] = q], HandlerFits(q)',
         \A i \in Invoices : Kept(i) => Kept(i)',
         \A i \in Invoices : \A r : r # NoState /\ Holds(i, r) => Holds(i, r)'
  PROVE  HandlersFit'
<1>1. handler \in [Handlers -> Handler]
  BY DEF Billing, IInv, TypeOK
<1>2. handler'[h] = q /\ \A g \in Handlers : g # h => handler'[g] = handler[g]
  BY <1>1
<1>3. ASSUME NEW g \in Handlers, g # h PROVE HandlerFits(handler[g])'
  <2>0. PICK p : p = handler[g]
    OBVIOUS
  <2>1. HandlerFits(p)
    BY <2>0 DEF Billing, HandlersFit
  <2>2. p.pc \in {"invoice", "claim"} /\ p.ev.kind = "updated" => Kept(p.ev.inv)'
    <3> SUFFICES ASSUME p.pc \in {"invoice", "claim"}, p.ev.kind = "updated"
                 PROVE  Kept(p.ev.inv)'
      OBVIOUS
    <3>1. p.ev.inv \in Invoices
      BY <2>0, EventOf DEF Billing
    <3> QED BY <2>1, <3>1 DEF HandlerFits
  <2>3. p.pc = "apply" => Holds(p.ev.inv, p.raw)'
    <3> SUFFICES ASSUME p.pc = "apply" PROVE Holds(p.ev.inv, p.raw)'
      OBVIOUS
    <3>1. p.ev.inv \in Invoices /\ p.raw # NoState
      BY <2>0, EventOf DEF Billing, IInv, AppliesSomething
    <3> QED BY <2>1, <3>1 DEF HandlerFits
  <2>4. HandlerFits(p)'
    BY <2>1, <2>2, <2>3, HandlerStill
  <2> QED BY <1>2, <1>3, <2>0, <2>4
<1> QED BY <1>2, <1>3 DEF HandlersFit

LEMMA PendingStays ==
  ASSUME handler \in [Handlers -> Handler], NEW h \in Handlers, NEW q,
         handler' = [handler EXCEPT ![h] = q], NEW e, Pending(e), e \in sent' \ processed',
         q.ev = e => q.pc \notin {"mark", "answer"}
  PROVE  Pending(e)'
<1>1. handler'[h] = q /\ \A g \in Handlers : g # h => handler'[g] = handler[g]
  OBVIOUS
<1> QED BY <1>1 DEF Pending

\* What is pending stays so, or is done with.
LEMMA ResultsStay ==
  ASSUME HoldFits, ChangeFits, UNCHANGED <<stripe, redis>>,
         sub.status = "past_due" /\ PendingOf("failed", sub.latest) =>
            PendingOf("failed", sub.latest)',
         Paid(sub.latest) /\ PendingOf("paid", sub.latest) => PendingOf("paid", sub.latest)',
         \A i \in PlanChanges : PendingOf("updated", i) =>
            PendingOf("updated", i)' \/ (inv[i].status = "open" /\ stash[i] # NoState),
         \A i \in PlanChanges : stash[i] # NoState /\ PendingOf("paid", i) =>
            PendingOf("paid", i)'
  PROVE  HoldFits' /\ ChangeFits'
<1>1. UNCHANGED <<now, sub, inv, bucket, stash, claim, completed>>
  BY DEF stripe, redis
<1>2. (Frozen => Frozen') /\ (Filled => Filled')
  BY <1>1, Still DEF Frozen, Filled
<1>3. HoldFits'
  BY <1>1, <1>2, Still DEF HoldFits
<1>4. ChangeFits'
  BY <1>1, Still DEF ChangeFits
<1> QED BY <1>3, <1>4

LEMMA AllStay ==
  ASSUME HoldFits, ChangeFits, UNCHANGED <<stripe, redis>>, \A e : Pending(e) => Pending(e)'
  PROVE  HoldFits' /\ ChangeFits'
<1>1. \A kind, i : PendingOf(kind, i) => PendingOf(kind, i)'
  BY DEF PendingOf, Pending
<1>2. UNCHANGED sub
  BY DEF stripe
<1> QED BY <1>1, <1>2, ResultsStay

LEMMA RedisStill ==
  ASSUME Billing, UNCHANGED <<stripe, redis>>
  PROVE  /\ BucketsFit' /\ StashesFit'
         /\ \A i \in Invoices : Kept(i) => Kept(i)'
         /\ \A i \in Invoices : \A r : r # NoState /\ Holds(i, r) => Holds(i, r)'
<1>1. UNCHANGED <<now, sub, inv, bucket, stash, claim, completed>>
  BY DEF stripe, redis
<1>2. BucketsFit'
  BY <1>1, Still DEF Billing, BucketsFit
<1>3. StashesFit'
  BY <1>1, Still DEF Billing, StashesFit
<1> QED BY <1>1, <1>2, <1>3 DEF Kept, Holds

-----------------------------------------------------------------------------
\* The webhook: steps that leave Redis alone.

LEMMA ReceiveFits ==
  ASSUME Billing, NEW h \in Handlers, NEW e \in sent, Receive(h, e)
  PROVE  IInv' => Billing'
<1> DEFINE pc == IF e \in processed THEN "answer"
                 ELSE IF e.kind = "updated" THEN "stash" ELSE "read"
           to == IF e.kind = "updated" THEN e.to ELSE FirstTier
<1>0. PICK q : q = [Idle EXCEPT !.ev = e, !.pc = pc, !.to = to]
  OBVIOUS
<1>1. /\ handler' = [handler EXCEPT ![h] = q]
      /\ UNCHANGED <<stripe, redis>> /\ UNCHANGED <<sent, processed, missed>>
  BY <1>0 DEF Receive, Unspent
<1>2. q.ev = e /\ q.pc = pc /\ q.to = to
  BY <1>0 DEF Idle
<1>3. e \in StripeEvent /\ EventFits(e)
  BY DEF Billing, IInv, EventsAreReal, EventsFit
<1>4. HandlerFits(q)
  <2>1. e.kind = "updated" => to = sub.tier /\ PlanChanges # {}
    BY <1>3 DEF EventFits
  <2>2. pc = "read" => e.kind \in {"paid", "failed"}
    BY <1>3 DEF StripeEvent
  <2>3. pc = "stash" => e.kind = "updated"
    OBVIOUS
  <2>4. pc \in {"answer", "stash", "read"} /\ (e.kind # "updated" => to = FirstTier)
    OBVIOUS
  <2> HIDE DEF pc, to
  <2> QED BY <1>2, <2>1, <2>2, <2>3, <2>4 DEF HandlerFits
<1>5. \A d : Pending(d) => Pending(d)'
  <2> SUFFICES ASSUME NEW d, Pending(d) PROVE Pending(d)'
    OBVIOUS
  <2>1. d \in sent' \ processed' /\ (q.ev = d => q.pc \notin {"mark", "answer"})
    BY <1>1, <1>2 DEF Pending
  <2> QED BY <1>1, <2>1, PendingStays DEF Billing, IInv, TypeOK
<1> HIDE DEF pc, to
<1>6. HandlerFits(q)'
  BY <1>1, <1>2, <1>4, RedisStill, HandlerStill DEF HandlerFits, Kept, Holds, redis
<1>7. StripeFits' /\ EventsFit' /\ ChangesApart'
  BY <1>1, <1>2, EventsStep
<1>8. HandlersFit'
  BY <1>1, <1>6, RedisStill, HandlersStep
<1>9. missed' \/ (HoldFits' /\ ChangeFits')
  BY <1>1, <1>5, AllStay DEF Billing
<1> QED BY <1>1, <1>7, <1>8, <1>9, RedisStill DEF Billing

\* A handler that goes on, and leaves Redis as it is.
LEMMA MovesFit ==
  ASSUME Billing, NEW h \in Handlers, NEW q, handler' = [handler EXCEPT ![h] = q],
         q.ev \in {handler[h].ev, NoEvent}, HandlerFits(q), UNCHANGED <<stripe, redis>>,
         sent' \subseteq sent, processed' \subseteq processed \cup {handler[h].ev},
         missed' \/ (~missed /\ HoldFits /\ ChangeFits => HoldFits' /\ ChangeFits'),
         missed => missed'
  PROVE  IInv' => Billing'
<1>1. HandlerFits(q)'
  BY RedisStill, HandlerStill DEF HandlerFits, Kept, Holds, redis
<1>2. StripeFits' /\ EventsFit' /\ ChangesApart'
  BY EventsStep
<1>3. HandlersFit'
  BY <1>1, RedisStill, HandlersStep
<1> QED BY <1>2, <1>3, RedisStill DEF Billing

LEMMA MarkFits ==
  ASSUME Billing, NEW h \in Handlers, Mark(h) \/ Answer(h) \/ Die(h)
  PROVE  IInv' => Billing'
<1>1. PICK q : /\ handler' = [handler EXCEPT ![h] = q]
               /\ \/ q.pc = "answer" /\ q.ev = handler[h].ev /\ q.to = handler[h].to
                     /\ handler[h].pc = "mark"
                  \/ q = Idle
  <2>1. CASE Mark(h)
    <3>1. Go(h, "answer", handler[h].to, handler[h].raw) /\ handler[h].pc = "mark"
      BY <2>1 DEF Mark, To
    <3> QED BY <3>1, Goes DEF Billing
  <2>2. CASE Answer(h) \/ Die(h)
    BY <2>2 DEF Answer, Die
  <2> QED BY <2>1, <2>2
<1>2. /\ UNCHANGED <<stripe, redis>> /\ UNCHANGED missed
      /\ sent' \subseteq sent /\ processed' \subseteq processed \cup {handler[h].ev}
      /\ handler[h].pc \notin {"mark", "answer"} => sent' = sent /\ processed' = processed
      /\ handler[h].pc \in {"mark", "answer"} =>
           sent \ {handler[h].ev} \subseteq sent'
  BY DEF Mark, Answer, Die, Unspent
<1>3. HandlerFits(q)
  <2>1. HandlerFits(handler[h])
    BY DEF Billing, HandlersFit
  <2>2. Idle.pc = "idle" /\ Idle.to = FirstTier
    BY DEF Idle
  <2> QED BY <1>1, <2>1, <2>2 DEF HandlerFits
<1>4. q.ev \in {handler[h].ev, NoEvent}
  BY <1>1 DEF Idle
<1>5. \A d : Pending(d) => Pending(d)'
  <2> SUFFICES ASSUME NEW d, Pending(d) PROVE Pending(d)'
    OBVIOUS
  <2>1. handler[h].pc \in {"mark", "answer"} => handler[h].ev # d
    BY DEF Pending
  <2>2. d \in sent' \ processed'
    BY <1>2, <2>1 DEF Pending
  <2>3. q.ev = d => q.pc \notin {"mark", "answer"}
    BY <1>1, <2>1 DEF Idle
  <2> QED BY <1>1, <2>2, <2>3, PendingStays DEF Billing, IInv, TypeOK
<1>6. HoldFits /\ ChangeFits => HoldFits' /\ ChangeFits'
  BY <1>2, <1>5, AllStay
<1> QED BY <1>1, <1>2, <1>3, <1>4, <1>6, MovesFit

LEMMA MissFits ==
  ASSUME Billing, NEW h \in Handlers, Miss(h)
  PROVE  IInv' => Billing'
<1>1. Go(h, "mark", handler[h].to, handler[h].raw)
  BY DEF Miss, To
<1>2. PICK q : /\ handler' = [handler EXCEPT ![h] = q]
               /\ q.pc = "mark" /\ q.ev = handler[h].ev /\ q.to = FirstTier
  BY <1>1, Goes DEF Billing
<1>3. HandlerFits(q)
  BY <1>2 DEF HandlerFits
<1>4. UNCHANGED <<stripe, redis>> /\ UNCHANGED <<sent, processed>> /\ missed'
  BY DEF Miss
<1> QED BY <1>2, <1>3, <1>4, MovesFit

\* What is pending of others stays so.
LEMMA PendingOfStays ==
  ASSUME Billing, NEW h \in Handlers, NEW q, handler' = [handler EXCEPT ![h] = q],
         q.ev = handler[h].ev, UNCHANGED <<sent, processed>>, NEW kind, NEW i,
         PendingOf(kind, i),
         q.pc \notin {"mark", "answer"} \/ q.ev.kind # kind \/ q.ev.inv # i
  PROVE  PendingOf(kind, i)'
<1>1. PICK e \in sent : e.kind = kind /\ e.inv = i /\ Pending(e)
  BY DEF PendingOf
<1>2. q.ev = e => q.pc \notin {"mark", "answer"}
  BY <1>1
<1>3. Pending(e)'
  BY <1>1, <1>2, PendingStays DEF Billing, IInv, TypeOK, Pending
<1> QED BY <1>1, <1>3 DEF PendingOf

LEMMA ReadSubscriptionFits ==
  ASSUME Billing, NEW h \in Handlers, ReadSubscription(h)
  PROVE  IInv' => Billing'
<1> DEFINE e == handler[h].ev
           next == IF e.kind = "paid"
                   THEN IF ~Eligible(e.inv) THEN "mark"
                        ELSE IF inv[e.inv].reason = "subscription_cycle" THEN "reset" ELSE "claim"
                   ELSE IF sub.status = "past_due" THEN "invoice" ELSE "mark"
<1>1. PICK q : /\ handler' = [handler EXCEPT ![h] = q]
               /\ q.pc = next /\ q.ev = e
               /\ next # "mark" => q.to = sub.tier
               /\ next = "mark" => q.to = FirstTier
  <2>1. Go(h, next, sub.tier, NoState)
    BY DEF ReadSubscription
  <2> HIDE DEF next
  <2> QED BY <2>1, Goes DEF Billing
<1>2. /\ UNCHANGED <<stripe, redis>> /\ UNCHANGED <<sent, processed, missed>>
      /\ handler[h].pc = "read"
  BY DEF ReadSubscription, Unspent
<1>3. e.kind \in {"paid", "failed"} /\ EventFits(e) /\ e.inv \in Invoices
  BY <1>2, EventOf DEF Billing, HandlersFit, HandlerFits, EventsFit
<1>4. StripeFits /\ sub \in Subscription
  BY DEF Billing, IInv, TypeOK
<1>5. e.kind = "paid" /\ Eligible(e.inv) /\ ~Renewal(e.inv) =>
        e.inv \in PlanChanges /\ inv[e.inv].status = "paid"
  <2> SUFFICES ASSUME e.kind = "paid", ~Renewal(e.inv)
               PROVE  e.inv \in PlanChanges /\ inv[e.inv].status = "paid"
    OBVIOUS
  <2>1. inv[e.inv].status = "paid" /\ inv[e.inv] \in Invoice
    BY <1>3 DEF EventFits, Billing, IInv, TypeOK
  <2>2. inv[e.inv].reason # "none" /\ inv[e.inv].reason # "subscription_cycle"
    BY <1>3, <1>4, <2>1 DEF StripeFits, Renewal
  <2> QED BY <1>3, <2>1, <2>2 DEF Invoice, PlanChanges
<1>6. e.kind = "paid" /\ Renewal(e.inv) => Paid(e.inv)
  BY <1>3 DEF EventFits, Paid
<1>7. HandlerFits(q)
  <2>1. CASE e.kind = "paid" /\ ~Eligible(e.inv)
    BY <1>1, <2>1 DEF HandlerFits
  <2>2. CASE e.kind = "paid" /\ Eligible(e.inv) /\ Renewal(e.inv)
    <3>1. next = "reset"
      BY <2>2 DEF Renewal
    <3> QED BY <1>1, <1>4, <1>6, <2>2, <3>1 DEF HandlerFits, StripeFits
  <2>3. CASE e.kind = "paid" /\ Eligible(e.inv) /\ ~Renewal(e.inv)
    <3>1. next = "claim"
      BY <1>3, <2>3 DEF Renewal
    <3> QED BY <1>1, <1>4, <1>5, <2>3, <3>1 DEF HandlerFits, StripeFits
  <2>4. CASE e.kind = "failed" /\ sub.status = "past_due"
    <3>1. next = "invoice"
      BY <2>4
    <3>2. sub.latest \notin PlanChanges
      BY <1>4, <2>4 DEF StripeFits, Renewal, PlanChanges
    <3> QED BY <1>1, <1>4, <2>4, <3>1, <3>2 DEF HandlerFits, StripeFits
  <2>5. CASE e.kind = "failed" /\ sub.status # "past_due"
    BY <1>1, <2>5 DEF HandlerFits
  <2> QED BY <1>3, <2>1, <2>2, <2>3, <2>4, <2>5
<1>8. HoldFits /\ ChangeFits => HoldFits' /\ ChangeFits'
  <2>0. Paid(sub.latest) => sub.status = "active"
    BY <1>4 DEF StripeFits, Subscription
  <2>1. e.kind = "paid" /\ e.inv \in PlanChanges => next # "mark"
    <3> SUFFICES ASSUME e.kind = "paid", e.inv \in PlanChanges PROVE next # "mark"
      OBVIOUS
    <3>1. sub.latest \in PlanChanges
      BY DEF Billing, ChangesApart
    <3>2. sub.latest = e.inv /\ sub.status = "active"
      BY <1>4, <3>1 DEF StripeFits, Renewal, PlanChanges, Subscription
    <3> QED BY <3>2 DEF Eligible
  <2>2. e.kind = "paid" /\ Paid(sub.latest) /\ e.inv = sub.latest => next # "mark"
    BY <2>0 DEF Eligible
  <2>3. sub.status = "past_due" /\ PendingOf("failed", sub.latest) =>
          PendingOf("failed", sub.latest)'
    <3>1. sub.status = "past_due" /\ e.kind = "failed" => next # "mark"
      OBVIOUS
    <3> QED BY <1>1, <1>2, <3>1, PendingOfStays DEF stripe
  <2>4. Paid(sub.latest) /\ PendingOf("paid", sub.latest) => PendingOf("paid", sub.latest)'
    BY <1>1, <1>2, <2>2, PendingOfStays DEF stripe
  <2>5. \A i \in PlanChanges : PendingOf("updated", i) => PendingOf("updated", i)'
    BY <1>1, <1>2, <1>3, PendingOfStays
  <2>6. \A i \in PlanChanges : PendingOf("paid", i) => PendingOf("paid", i)'
    BY <1>1, <1>2, <2>1, PendingOfStays
  <2> QED BY <1>2, <2>3, <2>4, <2>5, <2>6, ResultsStay
<1> QED BY <1>1, <1>2, <1>7, <1>8, MovesFit

LEMMA ReadInvoiceFits ==
  ASSUME Billing, NEW h \in Handlers, ReadInvoice(h)
  PROVE  IInv' => Billing'
<1> DEFINE e == handler[h].ev
<1>1. PICK q : /\ handler' = [handler EXCEPT ![h] = q]
               /\ q.ev = e /\ (q.pc # "mark" => q.to = handler[h].to)
               /\ q.pc = "mark" => q.to = FirstTier
               /\ \/ e.kind = "updated" /\ q.pc = IF inv[e.inv].status = "paid"
                                                  THEN "claim" ELSE "mark"
                  \/ e.kind # "updated" /\ q.pc = "freeze"
                  \/ e.kind # "updated" /\ q.pc = "mark" /\ inv[e.inv].status = "paid"
  <2>1. PICK pc : /\ Go(h, pc, handler[h].to, handler[h].raw)
                  /\ \/ e.kind = "updated" /\ pc = IF inv[e.inv].status = "paid"
                                                   THEN "claim" ELSE "mark"
                     \/ e.kind # "updated" /\ pc = "freeze"
                     \/ e.kind # "updated" /\ pc = "mark" /\ inv[e.inv].status = "paid"
    BY DEF ReadInvoice, To
  <2> QED BY <2>1, Goes DEF Billing
<1>2. /\ UNCHANGED <<stripe, redis>> /\ UNCHANGED <<sent, processed, missed>>
      /\ handler[h].pc = "invoice"
  BY DEF ReadInvoice, Unspent
<1>3. HandlerFits(handler[h]) /\ EventFits(e) /\ StripeFits /\ StashesFit
  BY DEF Billing, HandlersFit, EventsFit
<1>4. e.kind \in {"failed", "updated"} /\ e.inv \in Invoices
  BY <1>2, <1>3, EventOf DEF HandlerFits, Billing
<1>5. HandlerFits(q)
  <2>1. CASE q.pc = "mark"
    BY <1>1, <2>1 DEF HandlerFits
  <2>2. CASE q.pc = "claim"
    BY <1>1, <1>2, <1>3, <1>4, <2>2 DEF HandlerFits, EventFits
  <2>3. CASE q.pc = "freeze"
    BY <1>1, <1>2, <1>3, <1>4, <2>3 DEF HandlerFits, EventFits
  <2> QED BY <1>1, <2>1, <2>2, <2>3
<1>6. HoldFits /\ ChangeFits => HoldFits' /\ ChangeFits'
  <2>1. e.kind = "failed" /\ q.pc = "mark" /\ sub.status = "past_due" => e.inv # sub.latest
    BY <1>1, <1>3 DEF StripeFits, Paid
  <2>2. e.kind = "updated" /\ q.pc = "mark" => stash[e.inv] # NoState /\ inv[e.inv].status = "open"
    <3> SUFFICES ASSUME e.kind = "updated", q.pc = "mark"
                 PROVE  stash[e.inv] # NoState /\ inv[e.inv].status = "open"
      OBVIOUS
    <3>1. inv[e.inv].status # "paid" /\ e.inv \in PlanChanges
      BY <1>1, <1>3 DEF EventFits
    <3>2. inv[e.inv] \in Invoice
      BY <1>4 DEF Billing, IInv, TypeOK
    <3>3. inv[e.inv].status = "open"
      BY <1>3, <1>4, <3>1, <3>2 DEF StripeFits, Invoice, PlanChanges
    <3>4. Kept(e.inv) /\ ~completed[e.inv]
      BY <1>2, <1>3, <1>4, <3>1 DEF HandlerFits, StashesFit
    <3> QED BY <3>3, <3>4 DEF Kept
  <2>3. sub.status = "past_due" /\ PendingOf("failed", sub.latest) =>
          PendingOf("failed", sub.latest)'
    BY <1>1, <1>2, <2>1, PendingOfStays DEF stripe
  <2>4. \A i : PendingOf("paid", i) => PendingOf("paid", i)'
    BY <1>1, <1>2, <1>4, PendingOfStays
  <2>5. \A i \in PlanChanges : PendingOf("updated", i) =>
          PendingOf("updated", i)' \/ (inv[i].status = "open" /\ stash[i] # NoState)
    BY <1>1, <1>2, <2>2, PendingOfStays
  <2> QED BY <1>2, <2>3, <2>4, <2>5, ResultsStay DEF stripe
<1> QED BY <1>1, <1>2, <1>5, <1>6, MovesFit

-----------------------------------------------------------------------------
\* The webhook: the scripts.

\* A script that only writes a bucket.
LEMMA BucketScript ==
  ASSUME Billing, NEW h \in Handlers, handler[h].pc # "idle", To(h, "mark"),
         UNCHANGED <<stripe, sent, processed, stash, claim, completed, missed>>,
         BucketsFit', missed \/ (HoldFits' /\ ChangeFits')
  PROVE  IInv' => Billing'
<1>1. PICK q : /\ handler' = [handler EXCEPT ![h] = q]
               /\ q.pc = "mark" /\ q.ev = handler[h].ev /\ q.to = FirstTier
  BY Goes DEF Billing, To
<1>2. UNCHANGED <<sent, processed, stash, claim, completed, missed>> /\ UNCHANGED stripe
  OBVIOUS
<1>3. HandlerFits(q)'
  BY <1>1 DEF HandlerFits
<1>4. StripeFits' /\ EventsFit' /\ ChangesApart'
  BY <1>1, <1>2, EventsStep
<1>5. HandlersFit'
  BY <1>1, <1>2, <1>3, HandlersStep DEF Kept, Holds
<1>6. StashesFit'
  BY <1>2, Still DEF Billing, StashesFit, stripe
<1> QED BY <1>2, <1>4, <1>5, <1>6 DEF Billing

\* It leaves the changes as they are, unless it finishes with an event of one.
LEMMA ChangesStay ==
  ASSUME Billing, ChangeFits, NEW h \in Handlers, To(h, "mark"),
         UNCHANGED <<stripe, sent, processed, stash, completed>>,
         handler[h].ev.inv \notin PlanChanges
  PROVE  ChangeFits'
<1>1. PICK q : /\ handler' = [handler EXCEPT ![h] = q]
               /\ q.pc = "mark" /\ q.ev = handler[h].ev
  BY Goes DEF Billing, To
<1>2. UNCHANGED <<sent, processed, stash, completed>> /\ UNCHANGED inv
  BY DEF stripe
<1>3. \A i \in PlanChanges : \A kind : PendingOf(kind, i) => PendingOf(kind, i)'
  BY <1>1, <1>2, PendingOfStays
<1> QED BY <1>2, <1>3, Still DEF ChangeFits

LEMMA ResetFits ==
  ASSUME Billing, NEW h \in Handlers, ResetAfterPayment(h)
  PROVE  IInv' => Billing'
<1> DEFINE e == handler[h].ev
           t == handler[h].to
           L == sub.latest
           T == sub.tier
<1>1. /\ handler[h].pc = "reset" /\ To(h, "mark")
      /\ UNCHANGED <<stripe, sent, processed, stash, claim, completed, missed>>
      /\ UNCHANGED <<now, sub, inv>>
  BY DEF ResetAfterPayment, stripe
<1>2. /\ e.kind = "paid" /\ Paid(e.inv) /\ (e.inv = L => t = T)
      /\ PlanChanges = {} => t = FirstTier
      /\ e.inv \in Invoices /\ t \in Tiers
  BY <1>1, EventOf DEF Billing, HandlersFit, HandlerFits
<1>3. PICK w : w = [type |-> "paid", at |-> inv[e.inv].paidAt, inv |-> e.inv]
  OBVIOUS
<1>4. bucket \in [Tiers -> Bucket] /\ T \in Tiers /\ inv \in [Invoices -> Invoice] /\ now \in Nat
  BY DEF Billing, IInv, TypeOK, Subscription
<1>5. \/ bucket' = bucket /\ bucket[t].exists /\ IsStalePayment(bucket[t], e)
      \/ /\ ~(bucket[t].exists /\ IsStalePayment(bucket[t], e))
         /\ bucket'[t].exists /\ bucket'[t].trans = w
         /\ \A s \in Tiers : s # t => bucket'[s] = bucket[s]
  BY <1>2, <1>3, <1>4 DEF ResetAfterPayment
<1>6. BucketsFit'
  <2>1. w.type = "paid" /\ Paid(w.inv) /\ w.at = inv[w.inv].paidAt
    BY <1>2, <1>3
  <2>2. \A s \in Tiers : bucket'[s] = bucket[s]
                         \/ (s = t /\ bucket'[s].exists /\ bucket'[s].trans = w)
    BY <1>5
  <2> QED BY <1>1, <1>2, <2>1, <2>2, Still DEF Billing, BucketsFit
<1>7. StripeFits /\ BucketsFit
  BY DEF Billing
<1>8. PICK q : /\ handler' = [handler EXCEPT ![h] = q]
               /\ q.pc = "mark" /\ q.ev = e
  BY <1>1, Goes DEF Billing, To
<1>9. ASSUME HoldFits PROVE HoldFits'
  <2>1. Frozen => Frozen'
    <3> SUFFICES ASSUME Frozen PROVE Frozen'
      OBVIOUS
    <3>1. t = T => IsStalePayment(bucket[t], e)
      BY <1>2 DEF Frozen, IsStalePayment
    <3>2. t = T => bucket[t].exists
      BY <1>2, <1>7 DEF Frozen, BucketsFit, NoBucket, NoTransition
    <3>3. bucket'[T] = bucket[T]
      BY <1>4, <1>5, <3>1, <3>2
    <3> QED BY <1>1, <3>3, Still DEF Frozen
  <2>2. sub.status = "past_due" /\ PendingOf("failed", L) => PendingOf("failed", L)'
    BY <1>1, <1>2, <1>8, PendingOfStays
  <2>3. ASSUME Paid(L), Filled PROVE Filled'
    <3>1. CASE bucket'[T] = bucket[T]
      BY <1>1, <2>3, <3>1 DEF Filled
    <3>2. CASE bucket'[T] # bucket[T]
      <4>1. t = T /\ ~(bucket[T].exists /\ IsStalePayment(bucket[T], e)) /\ bucket'[T].trans = w
        BY <1>4, <1>5, <3>2
      <4>2. bucket[T].exists
        BY <1>4, <1>7, <2>3 DEF Filled, BucketsFit, NoBucket, NoTransition
      <4>3. bucket[T].trans.at <= inv[e.inv].paidAt
        <5>1. bucket[T].trans.at \in Nat /\ inv[e.inv].paidAt \in Nat
          BY <1>2, <1>4 DEF Bucket, Transition, Invoice
        <5> QED BY <4>1, <4>2, <5>1 DEF IsStalePayment
      <4>4. inv[L].paidAt <= bucket[T].trans.at /\ inv[L].paidAt \in Nat
        BY <1>4, <2>3 DEF Filled, Paid, Renewal, Invoice, Bucket, Transition
      <4>5. w.type = "paid" /\ w.at >= inv[L].paidAt
        <5>1. bucket[T].trans.at \in Nat /\ inv[e.inv].paidAt \in Nat
          BY <1>2, <1>4 DEF Bucket, Transition, Invoice
        <5> QED BY <1>3, <4>3, <4>4, <5>1
      <4> QED BY <1>1, <4>1, <4>5 DEF Filled
    <3> QED BY <3>1, <3>2
  <2>4. ASSUME Paid(L), PendingOf("paid", L) PROVE Filled' \/ PendingOf("paid", L)'
    <3>1. CASE e.inv # L
      BY <1>1, <1>8, <2>4, <3>1, PendingOfStays
    <3>2. CASE e.inv = L
      <4>1. t = T
        BY <1>2, <3>2
      <4>2. CASE bucket'[T].trans = w
        <5>1. inv[L].paidAt \in Nat
          BY <1>2, <1>4, <3>2 DEF Invoice
        <5> QED BY <1>1, <1>3, <3>2, <4>2, <5>1 DEF Filled
      <4>3. CASE bucket' = bucket /\ IsStalePayment(bucket[T], e)
        <5>1. Upto = inv[L].paidAt /\ inv[L].paidAt \in Nat
          BY <1>2, <1>4, <3>2 DEF Upto, Invoice
        <5> DEFINE at == bucket[T].trans.at
        <5>2. at \in Nat /\ bucket[T].trans.type \in {"none", "paid", "payment_failed"}
          BY <1>4 DEF Bucket, Transition
        <5>3. at <= Upto
          <6>1. CASE bucket[T].trans.type = "none"
            BY <1>4, <1>7, <5>1, <6>1 DEF BucketsFit, NoTransition
          <6>2. CASE bucket[T].trans.type = "payment_failed"
            BY <1>4, <1>7, <6>2 DEF BucketsFit, FailedAt
          <6>3. CASE bucket[T].trans.type = "paid"
            BY <1>4, <1>7, <6>3 DEF BucketsFit, StripeFits, Paid, Renewal
          <6> QED BY <5>2, <6>1, <6>2, <6>3
        <5>4. bucket[T].trans.type = "paid" /\ at = inv[L].paidAt
          <6>1. ~(at > inv[e.inv].paidAt)
            BY <3>2, <5>1, <5>2, <5>3
          <6>2. bucket[T].trans.type = "paid" /\ (bucket[T].trans.inv = e.inv \/ at = inv[e.inv].paidAt)
            BY <4>3, <6>1 DEF IsStalePayment
          <6> QED BY <1>4, <1>7, <3>2, <6>2 DEF BucketsFit
        <5> QED BY <1>1, <4>3, <5>1, <5>4 DEF Filled
      <4> QED BY <1>5, <4>1, <4>2, <4>3
    <3> QED BY <3>1, <3>2
  <2>5. ~Renewal(L) => bucket'[T].trans.type # "payment_failed"
    BY <1>3, <1>4, <1>5, <1>9 DEF HoldFits
  <2> QED BY <1>1, <1>9, <2>1, <2>2, <2>3, <2>4, <2>5, Still DEF HoldFits
<1>10. e.inv \notin PlanChanges
  BY <1>2 DEF Paid, Renewal, PlanChanges
<1>11. missed \/ (HoldFits' /\ ChangeFits')
  BY <1>1, <1>9, <1>10, ChangesStay DEF Billing
<1> QED BY <1>1, <1>6, <1>11, BucketScript

LEMMA FreezeFits ==
  ASSUME Billing, NEW h \in Handlers, Freeze(h)
  PROVE  IInv' => Billing'
<1> DEFINE e == handler[h].ev
           t == handler[h].to
           L == sub.latest
           T == sub.tier
<1>1. /\ handler[h].pc = "freeze" /\ To(h, "mark")
      /\ UNCHANGED <<stripe, sent, processed, stash, claim, completed, missed>>
      /\ UNCHANGED <<now, sub, inv>>
  BY DEF Freeze, stripe
<1>2. /\ e.kind = "failed" /\ FailedAt(e.inv, e.at)
      /\ (~Paid(e.inv) => t = T) /\ (L \in PlanChanges => t # T)
      /\ PlanChanges = {} => t = FirstTier
      /\ e.inv \in Invoices /\ t \in Tiers /\ e.at \in Nat
  BY <1>1, EventOf DEF Billing, HandlersFit, HandlerFits, EventsFit, EventFits
<1>3. PICK w : w = [type |-> "payment_failed", at |-> e.at, inv |-> e.inv]
  OBVIOUS
<1>4. bucket \in [Tiers -> Bucket] /\ T \in Tiers /\ inv \in [Invoices -> Invoice] /\ now \in Nat
  BY DEF Billing, IInv, TypeOK, Subscription
<1>5. \/ bucket' = bucket /\ IsStaleFailure(bucket[t], e)
      \/ /\ ~IsStaleFailure(bucket[t], e)
         /\ bucket'[t].exists /\ bucket'[t].trans = w
         /\ \A s \in Tiers : s # t => bucket'[s] = bucket[s]
  BY <1>2, <1>3, <1>4 DEF Freeze
<1>6. BucketsFit'
  <2>1. w.type = "payment_failed" /\ FailedAt(w.inv, w.at)
    BY <1>2, <1>3
  <2>2. \A s \in Tiers : bucket'[s] = bucket[s]
                         \/ (s = t /\ bucket'[s].exists /\ bucket'[s].trans = w)
    BY <1>5
  <2> QED BY <1>1, <1>2, <2>1, <2>2, Still DEF Billing, BucketsFit
<1>7. StripeFits /\ BucketsFit
  BY DEF Billing
<1>8. PICK q : /\ handler' = [handler EXCEPT ![h] = q]
               /\ q.pc = "mark" /\ q.ev = e
  BY <1>1, Goes DEF Billing, To
<1> DEFINE x == bucket[T].trans
<1>t. /\ x.at \in Nat /\ x.type \in {"none", "paid", "payment_failed"}
      /\ \A j \in Invoices : inv[j].paidAt \in Nat
  BY <1>4 DEF Bucket, Transition, Invoice
<1>9. ASSUME HoldFits PROVE HoldFits'
  <2>1. ASSUME Frozen PROVE Frozen'
    <3>1. CASE bucket'[T] = bucket[T]
      BY <1>1, <2>1, <3>1, Still DEF Frozen
    <3>2. CASE bucket'[T] # bucket[T]
      <4>1. t = T /\ ~IsStaleFailure(bucket[T], e) /\ bucket'[T].trans = w
        BY <1>4, <1>5, <3>2
      <4>2. x.at < e.at
        BY <1>2, <1>t, <2>1, <4>1 DEF Frozen, IsStaleFailure
      <4>3. \A j \in Invoices : Paid(j) => inv[j].paidAt < e.at
        BY <1>2, <1>t, <2>1, <4>2 DEF Frozen
      <4> QED BY <1>1, <1>3, <4>1, <4>3, Still DEF Frozen
    <3> QED BY <3>1, <3>2
  <2>2. ASSUME sub.status = "past_due", PendingOf("failed", L)
        PROVE  Frozen' \/ PendingOf("failed", L)'
    <3>1. CASE e.inv # L
      BY <1>1, <1>8, <2>2, <3>1, PendingOfStays
    <3>2. CASE e.inv = L
      <4>1. ~Paid(L) /\ t = T /\ \A j \in Invoices : Paid(j) => inv[j].paidAt < e.at
        BY <1>2, <1>7, <2>2, <3>2 DEF StripeFits, FailedAt
      <4>2. CASE bucket'[T].trans = w
        BY <1>1, <1>3, <4>1, <4>2, Still DEF Frozen
      <4>3. CASE bucket' = bucket /\ IsStaleFailure(bucket[T], e)
        <5>1. CASE x.type = "payment_failed" /\ x.inv = e.inv
          BY <1>1, <1>4, <1>7, <3>2, <4>1, <4>3, <5>1, Still DEF BucketsFit, FailedAt, Frozen
        <5>2. CASE x.type = "payment_failed" /\ x.at >= e.at
          <6>1. \A j \in Invoices : Paid(j) => inv[j].paidAt < x.at
            BY <1>2, <1>t, <4>1, <5>2
          <6> QED BY <1>1, <4>3, <5>2, <6>1, Still DEF Frozen
        <5>3. CASE x.type = "paid" /\ x.at >= e.at
          <6>1. Paid(x.inv) /\ x.at = inv[x.inv].paidAt /\ x.inv \in Invoices
            BY <1>4, <1>7, <5>3 DEF BucketsFit, Paid, Renewal
          <6> QED BY <1>2, <1>t, <4>1, <5>3, <6>1
        <5> QED BY <1>t, <4>3, <5>1, <5>2, <5>3 DEF IsStaleFailure
      <4> QED BY <1>5, <4>1, <4>2, <4>3
    <3> QED BY <3>1, <3>2
  <2>3. ASSUME Paid(L), Filled PROVE Filled'
    <3>1. e.at <= inv[L].paidAt /\ L \in Invoices
      BY <1>2, <2>3 DEF FailedAt, Upto, Paid, Renewal
    <3>2. t = T => IsStaleFailure(bucket[T], e)
      BY <1>2, <1>t, <2>3, <3>1 DEF Filled, IsStaleFailure
    <3>3. bucket'[T] = bucket[T]
      BY <1>4, <1>5, <3>2
    <3> QED BY <1>1, <2>3, <3>3 DEF Filled
  <2>4. PendingOf("paid", L) => PendingOf("paid", L)'
    BY <1>1, <1>2, <1>8, PendingOfStays
  <2>5. ASSUME ~Renewal(L) PROVE bucket'[T].trans.type # "payment_failed"
    <3>1. L \in PlanChanges
      <4>1. L # NoInvoice
        BY <1>2, <1>7 DEF StripeFits, FailedAt, Renewal
      <4>2. L \in Invoices /\ inv[L] \in Invoice /\ inv[L].reason # "none"
        BY <1>4, <1>7, <4>1 DEF StripeFits, Billing, IInv, TypeOK, Subscription
      <4> QED BY <2>5, <4>2 DEF Renewal, PlanChanges, Invoice
    <3>2. bucket'[T] = bucket[T]
      BY <1>2, <1>4, <1>5, <3>1
    <3> QED BY <1>9, <2>5, <3>2 DEF HoldFits
  <2> QED BY <1>1, <1>9, <2>1, <2>2, <2>3, <2>4, <2>5, Still DEF HoldFits
<1>10. e.inv \notin PlanChanges
  BY <1>2 DEF FailedAt, Renewal, PlanChanges
<1>11. missed \/ (HoldFits' /\ ChangeFits')
  BY <1>1, <1>9, <1>10, ChangesStay DEF Billing
<1> QED BY <1>1, <1>6, <1>11, BucketScript

\* While a handler is at a plan change, the change is the subscription's latest invoice.
LEMMA AtChange ==
  ASSUME Billing, NEW h \in Handlers, handler[h].ev.inv \in PlanChanges
  PROVE  /\ handler[h].ev.inv = sub.latest /\ ~Renewal(sub.latest)
         /\ \A i \in PlanChanges : i = sub.latest
<1>1. sub.latest \in PlanChanges
  BY DEF Billing, ChangesApart
<1> QED BY <1>1 DEF Billing, StripeFits, Renewal, PlanChanges

LEMMA StashFits ==
  ASSUME Billing, NEW h \in Handlers, Stash(h)
  PROVE  IInv' => Billing'
<1>0. PICK e : e = handler[h].ev
  OBVIOUS
<1> USE <1>0
<1> DEFINE i == e.inv
           T == sub.tier
<1>1. /\ handler[h].pc = "stash" /\ To(h, "invoice")
      /\ UNCHANGED <<stripe, sent, processed, claim, completed, missed>>
      /\ UNCHANGED <<now, sub, inv>>
  BY DEF Stash, stripe
<1>2. e.kind = "updated" /\ i \in Invoices /\ EventFits(e) /\ HandlerFits(handler[h])
      /\ e.from \in Tiers
  BY <1>1, EventOf DEF Billing, IInv, EventsAreReal, EventsFit, HandlersFit
<1>3. i \in PlanChanges /\ e.to = T /\ e.from # T
  BY <1>2 DEF EventFits
<1>4. i = sub.latest /\ ~Renewal(sub.latest) /\ \A k \in PlanChanges : k = i
  BY <1>3, AtChange
<1>5. /\ bucket \in [Tiers -> Bucket] /\ stash \in [Invoices -> CarryOver]
      /\ T \in Tiers /\ NoTier \notin Tiers
  BY Parameters DEF Billing, IInv, TypeOK, Subscription
<1>6. bucket' = [bucket EXCEPT ![e.from] = NoBucket]
  BY DEF Stash
<1>7. /\ \A k \in Invoices : k # i => stash'[k] = stash[k]
      /\ stash'[i] = stash[i] \/ (~completed[i] /\ stash[i] = NoState)
      /\ stash'[i] # stash[i] => stash'[i].target = T /\ stash'[i].cycle = sub.cycle
      /\ completed[i] \/ stash'[i] # NoState
  <2>1. PICK rest, all :
          stash' = IF completed[i] \/ stash[i] # NoState THEN stash
                   ELSE [stash EXCEPT ![i] = [target |-> e.to, remaining |-> rest,
                                              allocation |-> all, cycle |-> sub.cycle]]
    BY DEF Stash
  <2>2. PICK s : s = [target |-> e.to, remaining |-> rest, allocation |-> all,
                      cycle |-> sub.cycle]
    OBVIOUS
  <2>3. s # NoState /\ s.target = e.to /\ s.cycle = sub.cycle
    BY <1>3, <1>5, <2>2 DEF NoState
  <2> QED BY <1>2, <1>3, <1>5, <2>1, <2>2, <2>3
<1>8. PICK q : /\ handler' = [handler EXCEPT ![h] = q]
               /\ q.pc = "invoice" /\ q.ev = e /\ q.to = handler[h].to
  BY <1>1, Goes DEF Billing, To
<1>9. \A k \in Invoices : Kept(k) => Kept(k)'
  BY <1>1, <1>7 DEF Kept
<1>10. \A k \in Invoices : \A r : r # NoState /\ Holds(k, r) => Holds(k, r)'
  BY <1>1, <1>7 DEF Holds
<1>11. HandlerFits(q)'
  <2>1. Kept(i)'
    BY <1>1, <1>7 DEF Kept
  <2> QED BY <1>1, <1>2, <1>3, <1>8, <2>1, Still DEF HandlerFits
<1>12. HandlersFit'
  BY <1>1, <1>8, <1>9, <1>10, <1>11, HandlersStep
<1>13. StripeFits' /\ EventsFit' /\ ChangesApart'
  BY <1>1, <1>8, EventsStep
<1>14. BucketsFit'
  <2>1. \A t \in Tiers : bucket'[t] = bucket[t] \/ bucket'[t] = NoBucket
    BY <1>5, <1>6
  <2>2. NoBucket.trans = NoTransition /\ NoTransition.type = "none"
    BY DEF NoBucket, NoTransition
  <2> QED BY <1>1, <2>1, <2>2, Still DEF Billing, BucketsFit
<1>15. StashesFit'
  <2> SUFFICES ASSUME NEW k \in Invoices
               PROVE  /\ claim'[k] # NoState => claim'[k] = stash'[k]
                      /\ completed'[k] => inv'[k].status = "paid"
                      /\ stash'[k] # NoState =>
                           /\ k \in PlanChanges
                           /\ k = sub.latest => stash'[k].target = T /\ stash'[k].cycle = sub.cycle
    BY <1>1, Still DEF StashesFit
  <2>1. CASE stash'[k] = stash[k]
    BY <1>1, <2>1 DEF Billing, StashesFit
  <2>2. CASE stash'[k] # stash[k]
    <3>1. k = i /\ ~completed[i] /\ stash[i] = NoState /\ claim[i] = NoState
      BY <1>2, <1>7, <2>2 DEF Billing, StashesFit
    <3> QED BY <1>1, <1>3, <1>7, <2>2, <3>1
  <2> QED BY <2>1, <2>2
<1>16. ASSUME HoldFits, ChangeFits PROVE HoldFits' /\ ChangeFits'
  <2>1. \A kind, k : PendingOf(kind, k) => PendingOf(kind, k)'
    BY <1>1, <1>8, PendingOfStays
  <2>2. HoldFits'
    <3>1. bucket'[T] = bucket[T]
      BY <1>3, <1>5, <1>6
    <3>2. sub.status # "past_due" /\ ~Paid(sub.latest)
      BY <1>4 DEF Billing, StripeFits, Paid
    <3> QED BY <1>1, <1>16, <3>1, <3>2, Still DEF HoldFits
  <2>3. \A k \in PlanChanges : stash[k] # NoState => stash'[k] # NoState
    BY <1>7 DEF PlanChanges
  <2>4. ChangeFits'
    BY <1>1, <1>16, <2>1, <2>3, Still DEF ChangeFits
  <2> QED BY <2>2, <2>4
<1> QED BY <1>1, <1>12, <1>13, <1>14, <1>15, <1>16 DEF Billing

LEMMA ClaimFits ==
  ASSUME Billing, NEW h \in Handlers, Claim(h)
  PROVE  IInv' => Billing'
<1>0. PICK e : e = handler[h].ev
  OBVIOUS
<1> USE <1>0
<1> DEFINE i == e.inv
<1>r. PICK raw : raw = IF completed[i] THEN NoState
                       ELSE IF claim[i] # NoState THEN claim[i] ELSE stash[i]
  OBVIOUS
<1> DEFINE usable == raw # NoState /\ raw.target = handler[h].to /\ raw.cycle = sub.cycle
           pc == IF usable THEN "apply" ELSE "mark"
<1>1. /\ handler[h].pc = "claim"
      /\ UNCHANGED <<stripe, sent, processed, bucket, stash, completed, missed>>
      /\ UNCHANGED <<now, sub, inv>>
  BY DEF Claim, stripe, Unspent
<1>2. i \in Invoices /\ HandlerFits(handler[h]) /\ StashesFit
  BY <1>1, EventOf DEF Billing, HandlersFit
<1>3. i \in PlanChanges /\ inv[i].status = "paid" /\ handler[h].to = sub.tier
  BY <1>1, <1>2 DEF HandlerFits
<1>4. i = sub.latest /\ ~Renewal(sub.latest) /\ \A k \in PlanChanges : k = i
  BY <1>3, AtChange
<1>5. raw = IF completed[i] THEN NoState ELSE stash[i]
  BY <1>2, <1>r DEF StashesFit
<1>6. claim \in [Invoices -> CarryOver]
  BY DEF Billing, IInv, TypeOK
<1>7. /\ \A k \in Invoices : k # i => claim'[k] = claim[k]
      /\ raw = NoState => claim' = claim
      /\ raw # NoState => claim'[i] = raw
  BY <1>2, <1>6, <1>r DEF Claim
<1>8. pc = IF completed[i] \/ stash[i] = NoState THEN "mark" ELSE "apply"
  BY <1>2, <1>3, <1>4, <1>5 DEF StashesFit
<1>9. PICK q : /\ handler' = [handler EXCEPT ![h] = q]
               /\ q.pc = pc /\ q.ev = e
               /\ pc # "mark" => q.to = handler[h].to /\ q.raw = raw
               /\ pc = "mark" => q.to = FirstTier
  <2>1. Go(h, pc, handler[h].to, raw)
    BY <1>r DEF Claim
  <2> HIDE DEF pc
  <2> QED BY <2>1, Goes DEF Billing
<1> HIDE DEF pc
<1>10. \A k \in Invoices : claim[k] # NoState => claim'[k] = claim[k] \/ completed[k]
  BY <1>2, <1>5, <1>7 DEF StashesFit
<1>11. (\A k \in Invoices : Kept(k) => Kept(k)')
       /\ \A k \in Invoices : \A r : r # NoState /\ Holds(k, r) => Holds(k, r)'
  BY <1>1, <1>10 DEF Kept, Holds
<1>12. HandlerFits(q)'
  <2>1. CASE pc = "mark"
    BY <1>9, <2>1 DEF HandlerFits
  <2>2. CASE pc = "apply"
    <3>1. Holds(i, raw)'
      <4>1. raw # NoState /\ raw = stash[i]
        BY <1>5, <1>8, <2>2
      <4> QED BY <1>1, <1>7, <4>1 DEF Holds
    <3>2. PlanChanges' # {} /\ i \in PlanChanges' /\ inv'[i].status = "paid"
      BY <1>1, <1>3, Still
    <3>3. q.pc = "apply" /\ q.ev.inv = i /\ q.to = sub'.tier /\ q.raw = raw
      BY <1>1, <1>3, <1>9, <2>2
    <3>4. Holds(q.ev.inv, q.raw)'
      BY <3>1, <3>3 DEF Holds
    <3> QED BY <3>2, <3>3, <3>4 DEF HandlerFits
  <2> QED BY <1>8, <2>1, <2>2
<1>13. HandlersFit'
  BY <1>1, <1>9, <1>11, <1>12, HandlersStep
<1>14. StripeFits' /\ EventsFit' /\ ChangesApart'
  BY <1>1, <1>9, EventsStep
<1>15. BucketsFit'
  BY <1>1, Still DEF Billing, BucketsFit
<1>16. StashesFit'
  <2>1. \A k \in Invoices : claim'[k] # NoState => claim'[k] = stash[k]
    <3> SUFFICES ASSUME NEW k \in Invoices, claim'[k] # NoState PROVE claim'[k] = stash[k]
      OBVIOUS
    <3>1. CASE claim'[k] = claim[k]
      BY <1>2, <3>1 DEF StashesFit
    <3>2. CASE claim'[k] # claim[k]
      BY <1>5, <1>7, <3>2
    <3> QED BY <3>1, <3>2
  <2> QED BY <1>1, <1>2, <2>1, Still DEF StashesFit
<1>17. ASSUME HoldFits, ChangeFits PROVE HoldFits' /\ ChangeFits'
  <2>1. \A kind, k : (pc = "apply" \/ e.kind # kind \/ e.inv # k) /\ PendingOf(kind, k) =>
          PendingOf(kind, k)'
    <3> SUFFICES ASSUME NEW kind, NEW k, pc = "apply" \/ e.kind # kind \/ e.inv # k,
                        PendingOf(kind, k)
                 PROVE  PendingOf(kind, k)'
      OBVIOUS
    <3>1. q.pc \notin {"mark", "answer"} \/ q.ev.kind # kind \/ q.ev.inv # k
      BY <1>9
    <3>2. UNCHANGED <<sent, processed>> /\ q.ev = handler[h].ev
      BY <1>1, <1>9
    <3>3. handler' = [handler EXCEPT ![h] = q]
      BY <1>9
    <3> QED BY <3>1, <3>2, <3>3, PendingOfStays
  <2>2. HoldFits'
    <3>1. sub.status # "past_due" /\ ~Paid(sub.latest)
      BY <1>4 DEF Billing, StripeFits, Paid
    <3> QED BY <1>1, <1>17, <3>1, Still DEF HoldFits
  <2>3. ChangeFits'
    <3>1. completed[i] \/ PendingOf("updated", i)' \/ (stash[i] # NoState /\ PendingOf("paid", i)')
      <4>1. CASE completed[i]
        BY <4>1
      <4>2. CASE ~completed[i] /\ stash[i] # NoState
        BY <1>3, <1>8, <1>17, <2>1, <4>2 DEF ChangeFits
      <4>3. CASE ~completed[i] /\ stash[i] = NoState
        <5>1. e.kind # "updated"
          BY <1>1, <1>2, <4>3 DEF HandlerFits, Kept
        <5> QED BY <1>3, <1>17, <2>1, <4>3, <5>1 DEF ChangeFits
      <4> QED BY <4>1, <4>2, <4>3
    <3> QED BY <1>1, <1>3, <1>4, <3>1, Still DEF ChangeFits
  <2> QED BY <2>2, <2>3
<1> QED BY <1>1, <1>13, <1>14, <1>15, <1>16, <1>17 DEF Billing

LEMMA ApplyFits ==
  ASSUME Billing, NEW h \in Handlers, Apply(h)
  PROVE  IInv' => Billing'
<1>0. PICK e : e = handler[h].ev
  OBVIOUS
<1> USE <1>0
<1> DEFINE i == e.inv
           t == handler[h].to
           s == handler[h].raw
<1>1. /\ handler[h].pc = "apply" /\ To(h, "mark")
      /\ UNCHANGED <<stripe, sent, processed, missed>>
      /\ UNCHANGED <<now, sub, inv>>
  BY DEF Apply, stripe
<1>2. i \in Invoices /\ HandlerFits(handler[h]) /\ StashesFit /\ t \in Tiers /\ s # NoState
  BY <1>1, EventOf DEF Billing, HandlersFit, IInv, AppliesSomething
<1>3. i \in PlanChanges /\ inv[i].status = "paid" /\ t = sub.tier
  BY <1>1, <1>2 DEF HandlerFits
<1>4. i = sub.latest /\ ~Renewal(sub.latest) /\ \A k \in PlanChanges : k = i
  BY <1>3, AtChange
<1>5. /\ bucket \in [Tiers -> Bucket] /\ stash \in [Invoices -> CarryOver]
      /\ claim \in [Invoices -> CarryOver] /\ completed \in [Invoices -> BOOLEAN]
  BY DEF Billing, IInv, TypeOK
<1>6. Holds(i, s)
  BY <1>1, <1>2 DEF HandlerFits
<1>7. /\ \A k \in Invoices : k # i =>
           stash'[k] = stash[k] /\ claim'[k] = claim[k] /\ completed'[k] = completed[k]
      /\ completed'[i] /\ stash'[i] \in {stash[i], NoState} /\ claim'[i] \in {claim[i], NoState}
      /\ completed[i] \/ (stash'[i] = NoState /\ claim'[i] = NoState)
      /\ \A r \in Tiers : bucket'[r] = bucket[r] \/ (bucket'[r].exists /\ bucket'[r].trans = NoTransition)
  <2>1. CASE StillClaimed(i, s)
    BY <1>2, <1>5, <2>1 DEF Apply
  <2>2. CASE ~StillClaimed(i, s)
    <3>1. UNCHANGED redis /\ completed[i]
      BY <1>6, <2>2 DEF Apply, StillClaimed, Holds
    <3> QED BY <3>1 DEF redis
  <2> QED BY <2>1, <2>2
<1>8. PICK q : /\ handler' = [handler EXCEPT ![h] = q]
               /\ q.pc = "mark" /\ q.ev = e /\ q.to = FirstTier
  BY <1>1, Goes DEF Billing, To
<1>9. (\A k \in Invoices : Kept(k) => Kept(k)')
      /\ \A k \in Invoices : \A r : r # NoState /\ Holds(k, r) => Holds(k, r)'
  <2>1. \A k \in Invoices : completed'[k] \/ (stash'[k] = stash[k] /\ claim'[k] = claim[k]
                                              /\ completed'[k] = completed[k])
    BY <1>7
  <2> QED BY <1>7, <2>1 DEF Kept, Holds
<1>10. HandlerFits(q)'
  BY <1>8 DEF HandlerFits
<1>11. HandlersFit'
  BY <1>1, <1>8, <1>9, <1>10, HandlersStep
<1>12. StripeFits' /\ EventsFit' /\ ChangesApart'
  BY <1>1, <1>8, EventsStep
<1>13. BucketsFit'
  BY <1>1, <1>7, Still DEF Billing, BucketsFit, NoTransition
<1>14. StashesFit'
  <2> SUFFICES ASSUME NEW k \in Invoices
               PROVE  /\ claim'[k] # NoState => claim'[k] = stash'[k]
                      /\ completed'[k] => inv[k].status = "paid"
                      /\ stash'[k] # NoState =>
                           /\ k \in PlanChanges
                           /\ k = sub.latest =>
                                stash'[k].target = sub.tier /\ stash'[k].cycle = sub.cycle
    BY <1>1, Still DEF StashesFit
  <2>1. CASE k # i
    BY <1>2, <1>7, <2>1 DEF StashesFit
  <2>2. CASE k = i
    <3>1. stash'[i] = NoState /\ claim'[i] = NoState
      BY <1>2, <1>7 DEF Billing, IInv, CompletedIsDone
    <3> QED BY <1>3, <2>2, <3>1
  <2> QED BY <2>1, <2>2
<1>15. ASSUME HoldFits, ChangeFits PROVE HoldFits' /\ ChangeFits'
  <2>1. sub.status # "past_due" /\ ~Paid(sub.latest)
    BY <1>4 DEF Billing, StripeFits, Paid
  <2>2. bucket'[sub.tier].trans.type # "payment_failed"
    BY <1>2, <1>3, <1>4, <1>7, <1>15 DEF HoldFits, NoTransition
  <2>3. HoldFits'
    BY <1>1, <2>1, <2>2, Still DEF HoldFits
  <2>4. ChangeFits'
    BY <1>1, <1>3, <1>4, <1>7, Still DEF ChangeFits
  <2> QED BY <2>3, <2>4
<1> QED BY <1>1, <1>11, <1>12, <1>13, <1>14, <1>15 DEF Billing

-----------------------------------------------------------------------------
\* Stripe and the user.

\* What Stripe does on its own concerns no handler, and an event it sends is new.
LEMMA SentFits ==
  ASSUME Billing, UNCHANGED <<processed, redis, handler, missed>>, NEW e,
         sent' = sent \cup {e}
  PROVE  /\ \A d : Pending(d) => Pending(d)'
         /\ \A kind, i : PendingOf(kind, i) => PendingOf(kind, i)'
         /\ ~EventFits(e) => PendingOf(e.kind, e.inv)'
<1>1. \A d : Pending(d) => Pending(d)'
  BY DEF Pending
<1>2. \A kind, i : PendingOf(kind, i) => PendingOf(kind, i)'
  BY <1>1 DEF PendingOf
<1>3. ~EventFits(e) => PendingOf(e.kind, e.inv)'
  <2> SUFFICES ASSUME ~EventFits(e) PROVE PendingOf(e.kind, e.inv)'
    OBVIOUS
  <2>1. e \notin processed /\ \A h \in Handlers : handler[h].ev # e
    BY DEF Billing, EventsFit
  <2> QED BY <2>1 DEF PendingOf, Pending
<1> QED BY <1>1, <1>2, <1>3

\* The shape of a charge.
LEMMA ChargeOf ==
  ASSUME IInv, NEW i \in Invoices, Charged(i, "subscription_cycle")
  PROVE  \E paid \in BOOLEAN :
           /\ inv'[i].reason = "subscription_cycle"
           /\ inv'[i].status = IF paid THEN "paid" ELSE "open"
           /\ paid => inv'[i].paidAt = now'
           /\ \A j \in Invoices \ {i} : inv'[j] = inv[j]
           /\ sub'.latest = i /\ sub'.tier = sub.tier
           /\ sub'.status = IF paid THEN "active" ELSE "past_due"
           /\ inv[i].reason # "none" => sub'.cycle = sub.cycle
           /\ sent' = sent \cup {[NoEvent EXCEPT !.kind = IF paid THEN "paid" ELSE "failed",
                                                 !.inv = i, !.at = now']}
<1>1. /\ inv \in [Invoices -> Invoice] /\ inv[i] \in Invoice /\ sub \in Subscription
  BY DEF IInv, TypeOK
<1>2. CASE /\ inv' = [inv EXCEPT ![i] = [@ EXCEPT !.reason = "subscription_cycle",
                                                  !.status = "paid", !.paidAt = now']]
           /\ sub' = [sub EXCEPT !.latest = i, !.status = "active",
                                 !.cycle = @ + IF inv[i].reason = "none" THEN 1 ELSE 0]
           /\ sent' = sent \cup {[NoEvent EXCEPT !.kind = "paid", !.inv = i, !.at = now']}
  <2>1. /\ inv'[i].reason = "subscription_cycle" /\ inv'[i].status = "paid"
        /\ inv'[i].paidAt = now' /\ \A j \in Invoices \ {i} : inv'[j] = inv[j]
    BY <1>1, <1>2 DEF Invoice
  <2>2. /\ sub'.latest = i /\ sub'.tier = sub.tier /\ sub'.status = "active"
        /\ inv[i].reason # "none" => sub'.cycle = sub.cycle
    BY <1>1, <1>2 DEF Subscription
  <2> QED BY <1>2, <2>1, <2>2
<1>3. CASE /\ inv' = [inv EXCEPT ![i] = [@ EXCEPT !.reason = "subscription_cycle",
                                                  !.status = "open",
                                                  !.attempts = inv[i].attempts + 1]]
           /\ sub' = [sub EXCEPT !.latest = i, !.status = "past_due",
                                 !.cycle = @ + IF inv[i].reason = "none" THEN 1 ELSE 0]
           /\ sent' = sent \cup {[NoEvent EXCEPT !.kind = "failed", !.inv = i, !.at = now']}
  <2>1. /\ inv'[i].reason = "subscription_cycle" /\ inv'[i].status = "open"
        /\ \A j \in Invoices \ {i} : inv'[j] = inv[j]
    BY <1>1, <1>3 DEF Invoice
  <2>2. /\ sub'.latest = i /\ sub'.tier = sub.tier /\ sub'.status = "past_due"
        /\ inv[i].reason # "none" => sub'.cycle = sub.cycle
    BY <1>1, <1>3 DEF Subscription
  <2> QED BY <1>3, <2>1, <2>2
<1> QED BY <1>2, <1>3 DEF Charged

LEMMA PaidByNow ==
  ASSUME Billing
  PROVE  /\ now \in Nat /\ Upto \in Nat /\ Upto <= now
         /\ \A i \in Invoices : inv[i].paidAt \in Nat /\ inv[i] \in Invoice
         /\ \A i \in Invoices : Paid(i) => inv[i].paidAt <= Upto
<1>1. /\ now \in Nat /\ \A i \in Invoices : inv[i].paidAt \in Nat /\ inv[i] \in Invoice
  BY DEF Billing, IInv, TypeOK, Invoice
<1>2. Upto \in Nat
  BY <1>1 DEF Upto, Paid, Renewal
<1> QED BY <1>1, <1>2 DEF Billing, StripeFits

\* A charge, of a new renewal or again: seconds stay in order.
LEMMA ChargeKeepsOrder ==
  ASSUME Billing, NEW i \in Invoices, Renew(i) \/ ChargeAgain(i)
  PROVE  /\ StripeFits' /\ PlanChanges' = PlanChanges /\ ~Paid(i) /\ sub'.tier = sub.tier
         /\ \A j \in Invoices : Renewal(j) => Renewal(j)'
         /\ \A j \in Invoices : Paid(j) => Paid(j)' /\ inv'[j].paidAt = inv[j].paidAt
         /\ \A j : (Renewal(j) /\ ~Paid(j)') => ~Paid(j)
         /\ \A j, at : at \in Nat /\ FailedAt(j, at) => FailedAt(j, at)'
         /\ sub'.latest = i /\ Renewal(i)' /\ i \notin PlanChanges
         /\ \A at : at = now' /\ ~Paid(i)' => FailedAt(i, at)'
<1>0. StripeFits /\ IInv
  BY DEF Billing
<1>1. PICK paid \in BOOLEAN :
           /\ inv'[i].reason = "subscription_cycle"
           /\ inv'[i].status = IF paid THEN "paid" ELSE "open"
           /\ paid => inv'[i].paidAt = now'
           /\ \A j \in Invoices \ {i} : inv'[j] = inv[j]
           /\ sub'.latest = i /\ sub'.tier = sub.tier
           /\ sub'.status = IF paid THEN "active" ELSE "past_due"
  BY <1>0, ChargeOf DEF Renew, ChargeAgain
<1>2. /\ inv[i].reason \in {"none", "subscription_cycle"} /\ ~Paid(i)
      /\ \A j \in Invoices \ {i} : inv[j].status # "open"
      /\ now' \in Nat /\ now <= now' /\ (inv[i].reason = "none" => now < now')
      /\ i # sub.latest => inv[i].reason = "none"
      /\ i = sub.latest => Renewal(i)
  <2>1. CASE Renew(i)
    <3>1. inv[i].reason = "none" /\ now' = now + 1 /\ \A j \in Invoices : inv[j].status # "open"
      BY <2>1 DEF Renew
    <3>2. i # sub.latest
      BY <1>0, <3>1, Parameters DEF StripeFits
    <3> QED BY <1>0, <3>1, <3>2, PaidByNow DEF StripeFits, Paid, Renewal
  <2>2. CASE ChargeAgain(i)
    <3>1. inv[i].reason = "subscription_cycle" /\ inv[i].status = "open" /\ now' \in {now, now + 1}
      BY <2>2 DEF ChargeAgain
    <3>2. i = sub.latest
      BY <1>0, <3>1 DEF StripeFits
    <3> QED BY <1>0, <3>1, <3>2, PaidByNow DEF StripeFits, Paid, Renewal
  <2> QED BY <2>1, <2>2
<1>3. \A j \in Invoices : inv[j] \in Invoice
  BY PaidByNow
<1>4. PlanChanges' = PlanChanges /\ i \notin PlanChanges
  <2>1. \A j \in Invoices : inv'[j].reason = "subscription_update" <=>
                            inv[j].reason = "subscription_update"
    BY <1>1, <1>2
  <2> QED BY <1>2, <2>1 DEF PlanChanges
<1>5. Renewal(i)' /\ (Paid(i)' <=> paid) /\ \A j \in Invoices \ {i} :
        (Renewal(j)' <=> Renewal(j)) /\ (Paid(j)' <=> Paid(j))
  BY <1>1 DEF Renewal, Paid
<1>6. \A j \in Invoices : Paid(j) => Paid(j)' /\ inv'[j].paidAt = inv[j].paidAt
  BY <1>1, <1>2, <1>5
<1>7. Upto' = now'
  BY <1>1, <1>5 DEF Upto
<1>8. \A j \in Invoices : Paid(j) => inv[j].paidAt < now'
  <2> SUFFICES ASSUME NEW j \in Invoices, Paid(j) PROVE inv[j].paidAt < now'
    OBVIOUS
  <2>1. inv[j].paidAt <= Upto /\ Upto <= now /\ inv[j].paidAt \in Nat /\ now \in Nat /\ Upto \in Nat
    BY PaidByNow
  <2>2. CASE inv[i].reason = "none"
    BY <1>2, <2>1, <2>2
  <2>3. CASE inv[i].reason # "none"
    <3>1. i = sub.latest /\ j # i
      BY <1>2, <2>3
    <3>2. inv[j].paidAt < Upto
      BY <1>0, <1>2, <3>1 DEF StripeFits
    <3> QED BY <1>2, <2>1, <3>2
  <2> QED BY <2>2, <2>3
<1>9. StripeFits'
  <2>1. \A j \in Invoices : inv'[j].reason = "none" <=> inv'[j].status = "none"
    BY <1>0, <1>1 DEF StripeFits
  <2>2. \A j \in Invoices : inv'[j].status = "open" => j = sub'.latest
    BY <1>1, <1>2
  <2>3. sub'.latest # NoInvoice /\ inv'[sub'.latest].reason # "none"
    BY <1>1, Parameters
  <2>4. sub'.status = "past_due" <=> Renewal(sub.latest)' /\ ~Paid(sub.latest)'
    BY <1>1, <1>5
  <2>5. \A j \in Invoices \ {i} : Paid(j)' => inv'[j].paidAt < Upto'
    BY <1>1, <1>5, <1>7, <1>8
  <2>6. \A j \in Invoices : Paid(j)' => inv'[j].paidAt <= Upto'
    <3>1. inv'[i].paidAt <= Upto' \/ ~Paid(i)'
      BY <1>1, <1>2, <1>5, <1>7
    <3>2. \A j \in Invoices \ {i} : inv'[j].paidAt \in Nat
      BY <1>1, PaidByNow
    <3> QED BY <1>2, <1>7, <2>5, <3>1, <3>2
  <2>7. Upto' <= now'
    BY <1>2, <1>7
  <2> QED BY <1>0, <1>1, <1>4, <2>1, <2>2, <2>3, <2>4, <2>5, <2>6, <2>7 DEF StripeFits
<1>10. \A j : (Renewal(j) /\ ~Paid(j)') => ~Paid(j)
  BY <1>6 DEF Renewal
<1>11. ASSUME NEW at, at = now', ~Paid(i)' PROVE FailedAt(i, at)'
  <2>1. \A j \in Invoices : Paid(j)' => inv'[j].paidAt < at
    BY <1>1, <1>5, <1>8, <1>11
  <2> QED BY <1>2, <1>5, <1>7, <1>11, <2>1 DEF FailedAt
<1>12. ASSUME NEW j, NEW at \in Nat, FailedAt(j, at) PROVE FailedAt(j, at)'
  <2>1. Renewal(j) /\ j \in Invoices
    BY <1>12 DEF FailedAt, Renewal
  <2>2. Renewal(j)'
    BY <1>5, <2>1
  <2>3. at <= Upto'
    BY <1>2, <1>7, <1>12, PaidByNow DEF FailedAt
  <2>4. ASSUME ~Paid(j)' PROVE j = i /\ ~Paid(j)
    <3>1. j # i => inv[j].status # "open" /\ inv[j].status # "none"
      BY <1>0, <1>2, <2>1 DEF StripeFits, Renewal
    <3> QED BY <1>2, <1>3, <1>5, <2>1, <2>4, <3>1 DEF Paid, Invoice
  <2>5. \A k \in Invoices : ~Paid(j)' /\ Paid(k)' => inv'[k].paidAt < at
    BY <1>1, <1>5, <1>12, <2>4 DEF FailedAt
  <2> QED BY <2>2, <2>3, <2>5 DEF FailedAt
<1> QED BY <1>1, <1>2, <1>4, <1>5, <1>6, <1>9, <1>10, <1>11, <1>12

LEMMA ChargeFits ==
  ASSUME Billing, NEW i \in Invoices, Renew(i) \/ ChargeAgain(i)
  PROVE  IInv' => Billing'
<1>0. StripeFits /\ IInv /\ EventsFit /\ StashesFit
  BY DEF Billing
<1>1. PICK paid \in BOOLEAN :
           /\ inv'[i].reason = "subscription_cycle"
           /\ inv'[i].status = IF paid THEN "paid" ELSE "open"
           /\ paid => inv'[i].paidAt = now'
           /\ \A j \in Invoices \ {i} : inv'[j] = inv[j]
           /\ sub'.latest = i /\ sub'.tier = sub.tier
           /\ sub'.status = IF paid THEN "active" ELSE "past_due"
           /\ inv[i].reason # "none" => sub'.cycle = sub.cycle
           /\ sent' = sent \cup {[NoEvent EXCEPT !.kind = IF paid THEN "paid" ELSE "failed",
                                                 !.inv = i, !.at = now']}
  BY <1>0, ChargeOf DEF Renew, ChargeAgain
<1>2. /\ UNCHANGED <<processed, redis, handler, missed>>
      /\ UNCHANGED <<bucket, stash, claim, completed>>
      /\ now' \in Nat
  BY PaidByNow DEF Renew, ChargeAgain, Rest, redis
<1>3. PICK e : /\ e = [NoEvent EXCEPT !.kind = IF paid THEN "paid" ELSE "failed",
                                      !.inv = i, !.at = now']
  OBVIOUS
<1>4. /\ e.kind = IF paid THEN "paid" ELSE "failed"
      /\ e.inv = i /\ e.at = now' /\ sent' = sent \cup {e}
  BY <1>1, <1>3 DEF NoEvent
<1>5. /\ StripeFits' /\ PlanChanges' = PlanChanges /\ ~Paid(i)
      /\ \A j \in Invoices : Renewal(j) => Renewal(j)'
      /\ \A j \in Invoices : Paid(j) => Paid(j)' /\ inv'[j].paidAt = inv[j].paidAt
      /\ \A j : (Renewal(j) /\ ~Paid(j)') => ~Paid(j)
      /\ \A j, at : at \in Nat /\ FailedAt(j, at) => FailedAt(j, at)'
      /\ Renewal(i)' /\ i \notin PlanChanges /\ (Paid(i)' <=> paid)
      /\ \A at : at = now' /\ ~Paid(i)' => FailedAt(i, at)'
  BY <1>1, ChargeKeepsOrder DEF Paid, Renewal
<1>6. ASSUME NEW d, EventFits(d), d.at \in Nat PROVE EventFits(d)'
  <2>1. d.kind = "paid" => d.inv \in Invoices /\ inv'[d.inv].status = "paid"
    <3> SUFFICES ASSUME d.kind = "paid" PROVE d.inv \in Invoices /\ inv'[d.inv].status = "paid"
      OBVIOUS
    <3>1. d.inv \in Invoices /\ inv[d.inv].status = "paid"
      BY <1>6 DEF EventFits
    <3>2. d.inv # i
      <4>1. inv[i].reason = "none" \/ inv[i].reason = "subscription_cycle"
        BY DEF Renew, ChargeAgain
      <4> QED BY <1>0, <1>5, <3>1, <4>1 DEF StripeFits, Paid, Renewal
    <3> QED BY <1>1, <3>1, <3>2
  <2>2. d.kind = "failed" => FailedAt(d.inv, d.at)'
    BY <1>5, <1>6 DEF EventFits
  <2> QED BY <1>1, <1>5, <1>6, <2>1, <2>2 DEF EventFits
<1>7. EventFits(e)'
  <2>1. ~paid => FailedAt(e.inv, e.at)'
    BY <1>4, <1>5
  <2>2. paid => i \in Invoices /\ inv'[i].status = "paid"
    BY <1>1
  <2> QED BY <1>4, <2>1, <2>2 DEF EventFits
<1>8. EventsFit'
  <2>1. \A d \in sent \cup processed : d.at \in Nat
    BY EventsAreTyped DEF Billing, IInv, TypeOK, Event
  <2>2. \A h \in Handlers : handler[h].ev.at \in Nat
    BY DEF Billing, IInv, TypeOK, Handler, Event
  <2>3. \A d \in sent' \cup processed' : EventFits(d)'
    BY <1>0, <1>2, <1>4, <1>6, <1>7, <2>1 DEF EventsFit
  <2>4. \A h \in Handlers : EventFits(handler[h].ev)'
    <3> SUFFICES ASSUME NEW h \in Handlers PROVE EventFits(handler[h].ev)'
      OBVIOUS
    <3>1. PICK d : d = handler[h].ev /\ d = handler'[h].ev
      BY <1>2
    <3>2. EventFits(d)'
      BY <1>0, <1>6, <2>2, <3>1 DEF EventsFit
    <3> QED BY <3>1, <3>2
  <2> QED BY <2>3, <2>4 DEF EventsFit
<1>9. BucketsFit'
  <2> SUFFICES ASSUME NEW t \in Tiers, NEW w, w = bucket[t].trans
               PROVE  /\ ~bucket[t].exists => bucket[t] = NoBucket
                      /\ w.type = "none" => w = NoTransition
                      /\ w.type = "payment_failed" => FailedAt(w.inv, w.at)'
                      /\ w.type = "paid" => Paid(w.inv)' /\ w.at = inv'[w.inv].paidAt
                      /\ PlanChanges = {} /\ t # FirstTier => w.type = "none"
    BY <1>2, <1>5 DEF BucketsFit
  <2>1. /\ ~bucket[t].exists => bucket[t] = NoBucket
        /\ w.type = "none" => w = NoTransition
        /\ w.type = "payment_failed" => FailedAt(w.inv, w.at)
        /\ w.type = "paid" => Paid(w.inv) /\ w.at = inv[w.inv].paidAt
        /\ PlanChanges = {} /\ t # FirstTier => w.type = "none"
    BY DEF Billing, BucketsFit
  <2>2. w.at \in Nat
    BY DEF Billing, IInv, TypeOK, Bucket, Transition
  <2>3. Paid(w.inv) => w.inv \in Invoices
    BY DEF Paid, Renewal
  <2> QED BY <1>5, <2>1, <2>2, <2>3
<1>10. HandlersFit'
  <2> SUFFICES ASSUME NEW h \in Handlers, NEW q, q = handler[h] PROVE HandlerFits(q)'
    BY <1>2 DEF HandlersFit
  <2>1. HandlerFits(q) /\ EventFits(q.ev)
    BY <1>0 DEF Billing, HandlersFit, EventsFit
  <2>2. q.pc = "reset" => q.ev.inv # i /\ Paid(q.ev.inv)' /\ q.ev.inv \in Invoices
    BY <1>5, <2>1 DEF HandlerFits, Paid, Renewal
  <2>3. q.ev.kind = "failed" /\ ~Paid(q.ev.inv)' => ~Paid(q.ev.inv)
    BY <1>5, <2>1 DEF EventFits, FailedAt
  <2>4. q.ev.inv \in PlanChanges /\ inv[q.ev.inv].status = "paid" => inv'[q.ev.inv].status = "paid"
    BY <1>1, <1>5 DEF PlanChanges
  <2>5. (Kept(q.ev.inv)' <=> Kept(q.ev.inv)) /\ (Holds(q.ev.inv, q.raw)' <=> Holds(q.ev.inv, q.raw))
    BY <1>2 DEF Kept, Holds
  <2>6. sub'.latest \notin PlanChanges /\ sub'.tier = sub.tier /\ sub'.latest = i
    BY <1>1, <1>5
  <2> QED BY <1>5, <2>1, <2>2, <2>3, <2>4, <2>5, <2>6 DEF HandlerFits
<1>11. /\ \A d \in sent : d.inv \notin PlanChanges
       /\ \A h \in Handlers : handler[h].ev.inv \notin PlanChanges
  <2>1. CASE Renew(i)
    BY <2>1 DEF Renew
  <2>2. CASE ChargeAgain(i)
    <3>1. sub.latest = i
      BY <1>0, <2>2 DEF ChargeAgain, StripeFits
    <3> QED BY <1>5, <3>1 DEF Billing, ChangesApart
  <2> QED BY <2>1, <2>2
<1>12. ChangesApart'
  BY <1>2, <1>4, <1>5, <1>11 DEF ChangesApart
<1>13. StashesFit'
  <2>1. \A j \in Invoices : completed[j] => inv'[j].status = "paid"
    <3> SUFFICES ASSUME NEW j \in Invoices, completed[j] PROVE inv'[j].status = "paid"
      OBVIOUS
    <3>1. inv[j].status = "paid"
      BY <1>0 DEF StashesFit
    <3>2. j # i
      <4>1. inv[i].reason = "none" \/ inv[i].reason = "subscription_cycle"
        BY DEF Renew, ChargeAgain
      <4> QED BY <1>0, <1>5, <3>1, <4>1 DEF StripeFits, Paid, Renewal
    <3> QED BY <1>1, <3>1, <3>2
  <2> QED BY <1>0, <1>1, <1>2, <1>5, <2>1 DEF StashesFit
<1>14. ASSUME HoldFits, ChangeFits PROVE HoldFits' /\ ChangeFits'
  <2>1. \A kind, j : PendingOf(kind, j) => PendingOf(kind, j)'
    BY <1>2, <1>4, SentFits
  <2>2. paid => PendingOf("paid", i)'
    <3> SUFFICES ASSUME paid PROVE PendingOf("paid", i)'
      OBVIOUS
    <3>1. inv[i].status # "paid"
      <4>1. inv[i].reason = "none" \/ inv[i].reason = "subscription_cycle"
        BY DEF Renew, ChargeAgain
      <4> QED BY <1>0, <1>5, <4>1 DEF StripeFits, Paid, Renewal
    <3>2. ~EventFits(e)
      BY <1>4, <3>1 DEF EventFits
    <3>3. PendingOf(e.kind, e.inv)'
      BY <1>2, <1>4, <3>2, SentFits
    <3> QED BY <1>4, <3>3
  <2>3. ~paid => Frozen' \/ PendingOf("failed", i)'
    <3> SUFFICES ASSUME ~paid PROVE Frozen' \/ PendingOf("failed", i)'
      OBVIOUS
    <3>1. CASE inv[i].reason = "none"
      <4>1. ~EventFits(e)
        BY <1>4, <3>1 DEF EventFits, FailedAt, Renewal
      <4>2. PendingOf(e.kind, e.inv)'
        BY <1>2, <1>4, <4>1, SentFits
      <4> QED BY <1>4, <4>2
    <3>2. CASE inv[i].reason # "none"
      <4>1. ChargeAgain(i)
        BY <3>2 DEF Renew
      <4>2. sub.latest = i /\ Renewal(i) /\ ~Paid(i)
        BY <1>0, <4>1 DEF ChargeAgain, StripeFits, Renewal, Paid
      <4>3. Frozen \/ PendingOf("failed", i)
        BY <1>0, <1>14, <4>2 DEF HoldFits, StripeFits
      <4>4. \A j \in Invoices : Paid(j)' => Paid(j) /\ inv'[j].paidAt = inv[j].paidAt
        BY <1>1, <1>5 DEF Paid, Renewal
      <4>5. Frozen => Frozen'
        BY <1>1, <1>2, <4>4 DEF Frozen
      <4> QED BY <2>1, <4>3, <4>5
    <3> QED BY <3>1, <3>2
  <2>4. HoldFits'
    BY <1>1, <1>5, <2>2, <2>3 DEF HoldFits
  <2>5. \A j \in PlanChanges : inv'[j] = inv[j] /\ j # i
    BY <1>1, <1>5 DEF PlanChanges
  <2>6. ChangeFits'
    BY <1>2, <1>5, <1>14, <2>1, <2>5 DEF ChangeFits
  <2> QED BY <2>4, <2>6
<1> QED BY <1>2, <1>5, <1>8, <1>9, <1>10, <1>12, <1>13, <1>14 DEF Billing

\* The first change of plan: nothing of a change is known, and all is of the first tier.
LEMMA ChangePlanFits ==
  ASSUME OneChange, Billing, NEW i \in Invoices, NEW t \in Tiers, ChangePlan(i, t)
  PROVE  IInv' => Billing'
<1>0. StripeFits /\ IInv /\ EventsFit /\ StashesFit
  BY DEF Billing
<1>1. PlanChanges = {}
  <2>1. Cardinality(PlanChanges) < MaxChanges /\ MaxChanges \in Nat
    BY Parameters DEF ChangePlan
  <2> SUFFICES ASSUME NEW k \in PlanChanges PROVE FALSE
    OBVIOUS
  <2>2. PlanChanges = {k}
    BY <1>0 DEF StripeFits
  <2>3. Cardinality(PlanChanges) = 1
    BY <2>2, FS_Singleton
  <2> QED BY <2>1, <2>3 DEF OneChange
<1>2. /\ inv \in [Invoices -> Invoice] /\ sub \in Subscription
  BY <1>0 DEF IInv, TypeOK
<1>3. PICK e : e = [kind |-> "updated", inv |-> i, at |-> now, from |-> sub.tier, to |-> t]
  OBVIOUS
<1>4. /\ inv[i].reason = "none" /\ t # sub.tier /\ sub.status = "active"
      /\ inv'[i].reason = "subscription_update" /\ inv'[i].status = "open"
      /\ \A j \in Invoices \ {i} : inv'[j] = inv[j]
      /\ sub'.tier = t /\ sub'.latest = i /\ sub'.status = "active"
      /\ sent' = sent \cup {e} /\ UNCHANGED now
      /\ UNCHANGED <<processed, redis, handler, missed>>
      /\ UNCHANGED <<bucket, stash, claim, completed>>
  <2>1. /\ inv[i].reason = "none" /\ t # sub.tier /\ sub.status = "active"
        /\ sent' = sent \cup {e} /\ UNCHANGED now
        /\ UNCHANGED <<processed, redis, handler, missed>>
        /\ UNCHANGED <<bucket, stash, claim, completed>>
    BY <1>3 DEF ChangePlan, Rest, redis
  <2>2. /\ inv'[i].reason = "subscription_update" /\ inv'[i].status = "open"
        /\ \A j \in Invoices \ {i} : inv'[j] = inv[j]
    BY <1>2 DEF ChangePlan, Invoice
  <2>3. sub'.tier = t /\ sub'.latest = i /\ sub'.status = "active"
    BY <1>2, <2>1 DEF ChangePlan, Subscription
  <2> QED BY <2>1, <2>2, <2>3
<1>5. PlanChanges' = {i} /\ i \in PlanChanges'
  BY <1>1, <1>4 DEF PlanChanges
<1>6. (\A j : Renewal(j)' <=> Renewal(j)) /\ \A j : Paid(j)' <=> Paid(j)
  <2>1. \A j \in Invoices : Renewal(j)' <=> Renewal(j)
    BY <1>4 DEF Renewal
  <2>2. \A j \in Invoices : Paid(j)' <=> Paid(j)
    BY <1>4 DEF Renewal, Paid
  <2> QED BY <2>1, <2>2 DEF Renewal, Paid
<1>7. ~Renewal(i) /\ ~Paid(i) /\ inv[i].status = "none"
  BY <1>0, <1>4 DEF Renewal, Paid, StripeFits
<1>8. Upto' = now
  BY <1>4, <1>6, <1>7 DEF Upto
<1>9. \A j \in Invoices : Paid(j)' => inv'[j].paidAt = inv[j].paidAt
  BY <1>4, <1>6, <1>7
<1>10. \A j : Renewal(j) => Paid(j)
  <2>1. \A j \in Invoices : Renewal(j) /\ ~Paid(j) => inv[j].status = "open"
    <3> SUFFICES ASSUME NEW j \in Invoices, Renewal(j), ~Paid(j) PROVE inv[j].status = "open"
      OBVIOUS
    <3>1. inv[j] \in Invoice /\ inv[j].status # "paid" /\ inv[j].status # "none"
      BY <1>0, <1>2 DEF Renewal, Paid, StripeFits
    <3> QED BY <3>1 DEF Invoice
  <2> QED BY <1>0, <1>4, <2>1 DEF StripeFits, Renewal
<1>11. \A j, at : at \in Nat /\ FailedAt(j, at) => FailedAt(j, at)'
  BY <1>6, <1>8, <1>10, PaidByNow DEF FailedAt
<1>12. StripeFits'
  <2>1. \A j \in Invoices : inv'[j].reason = "none" <=> inv'[j].status = "none"
    BY <1>0, <1>4 DEF StripeFits
  <2>2. \A j \in Invoices : inv'[j].status = "open" => j = i
    <3>1. \A j \in Invoices : inv[j].status # "open"
      <4> SUFFICES ASSUME NEW j \in Invoices, inv[j].status = "open" PROVE FALSE
        OBVIOUS
      <4>1. inv[j] \in Invoice /\ inv[j].reason # "none" /\ j \notin PlanChanges
        BY <1>0, <1>1, <1>2 DEF StripeFits
      <4>2. Renewal(j) /\ ~Paid(j)
        BY <4>1 DEF Renewal, Paid, PlanChanges, Invoice
      <4> QED BY <1>10, <4>2
    <3> QED BY <1>4, <3>1
  <2>3. sub'.latest # NoInvoice /\ inv'[sub'.latest].reason # "none"
    BY <1>4, Parameters
  <2>4. ~Renewal(sub.latest)'
    BY <1>4, <1>6, <1>7
  <2>5. Upto' <= now' /\ \A j \in Invoices : Paid(j)' => inv'[j].paidAt <= Upto'
    BY <1>4, <1>6, <1>8, <1>9, PaidByNow
  <2> QED BY <1>4, <1>5, <2>1, <2>2, <2>3, <2>4, <2>5 DEF StripeFits
<1>13. ASSUME NEW d, EventFits(d), d.at \in Nat PROVE EventFits(d)'
  <2>1. d.kind = "paid" => d.inv \in Invoices /\ inv'[d.inv].status = "paid"
    BY <1>4, <1>7, <1>13 DEF EventFits
  <2>2. d.kind = "failed" => FailedAt(d.inv, d.at)'
    BY <1>11, <1>13 DEF EventFits
  <2>3. d.kind # "updated"
    BY <1>1, <1>13 DEF EventFits
  <2> QED BY <2>1, <2>2, <2>3 DEF EventFits
<1>14. EventFits(e)' /\ ~EventFits(e)
  BY <1>1, <1>3, <1>4, <1>5 DEF EventFits
<1>15. EventsFit'
  <2>1. \A d \in sent \cup processed : d.at \in Nat
    BY EventsAreTyped DEF Billing, IInv, TypeOK, Event
  <2>2. \A h \in Handlers : handler[h].ev.at \in Nat
    BY DEF Billing, IInv, TypeOK, Handler, Event
  <2>3. \A d \in sent' \cup processed' : EventFits(d)'
    BY <1>0, <1>4, <1>13, <1>14, <2>1 DEF EventsFit
  <2>4. \A h \in Handlers : EventFits(handler[h].ev)'
    <3> SUFFICES ASSUME NEW h \in Handlers PROVE EventFits(handler[h].ev)'
      OBVIOUS
    <3>1. PICK d : d = handler[h].ev /\ d = handler'[h].ev
      BY <1>4
    <3>2. EventFits(d)'
      BY <1>0, <1>13, <2>2, <3>1 DEF EventsFit
    <3> QED BY <3>1, <3>2
  <2> QED BY <2>3, <2>4 DEF EventsFit
<1>16. BucketsFit'
  <2> SUFFICES ASSUME NEW r \in Tiers, NEW w, w = bucket[r].trans
               PROVE  /\ ~bucket[r].exists => bucket[r] = NoBucket
                      /\ w.type = "none" => w = NoTransition
                      /\ w.type = "payment_failed" => FailedAt(w.inv, w.at)'
                      /\ w.type = "paid" => Paid(w.inv)' /\ w.at = inv'[w.inv].paidAt
    BY <1>4, <1>5 DEF BucketsFit
  <2>1. /\ ~bucket[r].exists => bucket[r] = NoBucket
        /\ w.type = "none" => w = NoTransition
        /\ w.type = "payment_failed" => FailedAt(w.inv, w.at)
        /\ w.type = "paid" => Paid(w.inv) /\ w.at = inv[w.inv].paidAt
    BY DEF Billing, BucketsFit
  <2>2. w.at \in Nat
    BY DEF Billing, IInv, TypeOK, Bucket, Transition
  <2>3. Paid(w.inv) => w.inv \in Invoices
    BY DEF Paid, Renewal
  <2> QED BY <1>6, <1>9, <1>11, <2>1, <2>2, <2>3
<1>17. HandlersFit'
  <2> SUFFICES ASSUME NEW h \in Handlers, NEW q, q = handler[h] PROVE HandlerFits(q)'
    BY <1>4 DEF HandlersFit
  <2>1. HandlerFits(q) /\ EventFits(q.ev) /\ q.to = sub.tier
    BY <1>0, <1>1 DEF Billing, HandlersFit, EventsFit, HandlerFits, StripeFits
  <2>2. q.pc \in {"stash", "claim", "apply"} => q.ev.kind = "updated" \/ q.ev.inv \in PlanChanges
    BY <2>1 DEF HandlerFits, Billing, IInv, EventsAreReal
  <2>3. q.ev.inv # i \/ q.pc = "idle" \/ q.ev.kind \notin {"paid", "failed", "updated"}
    BY <1>4, <1>7, <2>1 DEF EventFits, FailedAt, PlanChanges
  <2>4. q.pc # "idle" => q.ev.kind \in {"paid", "failed", "updated"}
    BY <1>0 DEF IInv, EventsAreReal, StripeEvent
  <2>5. q.ev.kind = "failed" => Paid(q.ev.inv)'
    BY <1>6, <1>10, <2>1 DEF EventFits, FailedAt
  <2>6. q.ev.kind # "updated"
    BY <1>1, <2>1 DEF EventFits
  <2>7. q.pc # "idle" => q.ev.inv \notin PlanChanges'
    BY <1>5, <2>3, <2>4
  <2>8. q.pc \notin {"claim", "apply"} /\ q.pc # "stash"
    BY <1>1, <2>1, <2>2, <2>6 DEF HandlerFits
  <2>9. q.to # sub'.tier /\ PlanChanges' # {}
    BY <1>4, <1>5, <2>1
  <2>10. q.pc = "reset" => Paid(q.ev.inv)' /\ q.ev.inv # sub'.latest
    BY <1>4, <1>6, <1>7, <2>1 DEF HandlerFits
  <2> QED BY <2>1, <2>5, <2>6, <2>7, <2>8, <2>9, <2>10 DEF HandlerFits
<1>18. ChangesApart'
  BY <1>4, <1>5 DEF ChangesApart
<1>19. StashesFit'
  <2>1. \A j \in Invoices : stash[j] = NoState
    BY <1>0, <1>1 DEF StashesFit
  <2>2. \A j \in Invoices : completed[j] => inv'[j].status = "paid"
    BY <1>0, <1>4, <1>7 DEF StashesFit
  <2> QED BY <1>0, <1>4, <2>1, <2>2 DEF StashesFit
<1>20. HoldFits' /\ ChangeFits'
  <2>1. PendingOf("updated", i)'
    <3>1. PendingOf(e.kind, e.inv)'
      BY <1>4, <1>14, SentFits
    <3> QED BY <1>3, <3>1
  <2>2. bucket[t].trans.type = "none"
    BY <1>0, <1>1, <1>4 DEF Billing, BucketsFit, StripeFits
  <2>3. HoldFits'
    BY <1>4, <1>6, <1>7, <2>2 DEF HoldFits
  <2>4. ChangeFits'
    BY <1>4, <1>5, <2>1 DEF ChangeFits
  <2> QED BY <2>3, <2>4
<1> QED BY <1>4, <1>12, <1>15, <1>16, <1>17, <1>18, <1>19, <1>20 DEF Billing

LEMMA PayChangeFits ==
  ASSUME Billing, NEW i \in Invoices, PayChange(i)
  PROVE  IInv' => Billing'
<1>0. StripeFits /\ IInv /\ EventsFit /\ StashesFit
  BY DEF Billing
<1>1. PICK e : e = [NoEvent EXCEPT !.kind = "paid", !.inv = i, !.at = now]
  OBVIOUS
<1>2. /\ i \in PlanChanges /\ inv[i].status = "open"
      /\ inv'[i].reason = inv[i].reason /\ inv'[i].status = "paid"
      /\ \A j \in Invoices \ {i} : inv'[j] = inv[j]
      /\ sent' = sent \cup {e} /\ UNCHANGED <<now, sub>>
      /\ UNCHANGED <<processed, redis, handler, missed>>
      /\ UNCHANGED <<bucket, stash, claim, completed>>
  <2>1. inv \in [Invoices -> Invoice]
    BY <1>0 DEF IInv, TypeOK
  <2>2. inv'[i].reason = inv[i].reason /\ inv'[i].status = "paid"
        /\ \A j \in Invoices \ {i} : inv'[j] = inv[j]
    BY <2>1 DEF PayChange, Invoice
  <2> QED BY <1>1, <2>2 DEF PayChange, Rest, redis
<1>3. e.kind = "paid" /\ e.inv = i
  BY <1>1 DEF NoEvent
<1>4. PlanChanges' = PlanChanges /\ sub.latest = i /\ ~Renewal(i)
  <2>1. \A j \in Invoices : inv'[j].reason = inv[j].reason
    BY <1>2
  <2> QED BY <1>0, <1>2, <2>1 DEF PlanChanges, StripeFits, Renewal
<1>5. (\A j : Renewal(j)' <=> Renewal(j)) /\ \A j : Paid(j)' <=> Paid(j)
  <2>1. \A j \in Invoices : Renewal(j)' <=> Renewal(j)
    BY <1>2 DEF Renewal
  <2>2. \A j \in Invoices : Paid(j)' <=> Paid(j)
    BY <1>2, <1>4, <2>1 DEF Paid
  <2> QED BY <2>1, <2>2 DEF Renewal, Paid
<1>6. Upto' = Upto /\ \A j \in Invoices : Paid(j) => inv'[j].paidAt = inv[j].paidAt
  BY <1>2, <1>4, <1>5 DEF Upto, Paid
<1>7. \A j, at : FailedAt(j, at)' <=> FailedAt(j, at)
  BY <1>5, <1>6 DEF FailedAt
<1>8. StripeFits'
  <2>1. \A j \in Invoices : inv'[j].reason = "none" <=> inv'[j].status = "none"
    BY <1>0, <1>2, <1>4 DEF StripeFits
  <2>2. \A j \in Invoices : inv'[j].status = "open" => j = sub.latest
    BY <1>0, <1>2 DEF StripeFits
  <2>3. sub.latest # NoInvoice /\ inv'[sub.latest].reason # "none"
    BY <1>0, <1>2, <1>4, Parameters DEF StripeFits
  <2>4. \A j \in Invoices : Paid(j)' => inv'[j].paidAt <= Upto'
    BY <1>0, <1>5, <1>6 DEF StripeFits
  <2> QED BY <1>0, <1>2, <1>4, <1>5, <1>6, <2>1, <2>2, <2>3, <2>4 DEF StripeFits
<1>9. \A d : EventFits(d) => EventFits(d)'
  BY <1>2, <1>4, <1>7 DEF EventFits
<1>10. EventFits(e)' /\ ~EventFits(e)
  BY <1>2, <1>3 DEF EventFits
<1>11. EventsFit'
  <2>1. \A h \in Handlers : EventFits(handler[h].ev)'
    <3> SUFFICES ASSUME NEW h \in Handlers PROVE EventFits(handler[h].ev)'
      OBVIOUS
    <3>1. PICK d : d = handler[h].ev /\ d = handler'[h].ev
      BY <1>2
    <3> QED BY <1>0, <1>9, <3>1 DEF EventsFit
  <2> QED BY <1>0, <1>2, <1>9, <1>10, <2>1 DEF EventsFit
<1>12. BucketsFit'
  <2>1. \A j : Paid(j) => j \in Invoices
    BY DEF Paid, Renewal
  <2> QED BY <1>2, <1>4, <1>5, <1>6, <1>7, <2>1 DEF Billing, BucketsFit
<1>13. HandlersFit'
  <2> SUFFICES ASSUME NEW h \in Handlers, NEW q, q = handler[h] PROVE HandlerFits(q)'
    BY <1>2 DEF HandlersFit
  <2>1. HandlerFits(q)
    BY DEF Billing, HandlersFit
  <2>2. (Kept(q.ev.inv)' <=> Kept(q.ev.inv)) /\ (Holds(q.ev.inv, q.raw)' <=> Holds(q.ev.inv, q.raw))
    BY <1>2 DEF Kept, Holds
  <2>3. q.ev.inv \in PlanChanges /\ inv[q.ev.inv].status = "paid" => inv'[q.ev.inv].status = "paid"
    BY <1>2 DEF PlanChanges
  <2> QED BY <1>2, <1>4, <1>5, <2>1, <2>2, <2>3 DEF HandlerFits
<1>14. ChangesApart'
  BY <1>2, <1>4 DEF ChangesApart
<1>15. StashesFit'
  <2>1. \A j \in Invoices : completed[j] => inv'[j].status = "paid"
    BY <1>0, <1>2 DEF StashesFit
  <2> QED BY <1>0, <1>2, <1>4, <2>1 DEF StashesFit
<1>16. ASSUME HoldFits, ChangeFits PROVE HoldFits' /\ ChangeFits'
  <2>1. \A kind, j : PendingOf(kind, j) => PendingOf(kind, j)'
    BY <1>2, SentFits
  <2>2. PendingOf("paid", i)'
    <3>1. PendingOf(e.kind, e.inv)'
      BY <1>2, <1>10, SentFits
    <3> QED BY <1>3, <3>1
  <2>3. sub.status # "past_due" /\ ~Paid(i)
    BY <1>0, <1>4 DEF StripeFits, Paid
  <2>4. HoldFits'
    BY <1>2, <1>4, <1>5, <1>16, <2>3 DEF HoldFits
  <2>5. stash[i] # NoState \/ PendingOf("updated", i)
    BY <1>2, <1>16 DEF ChangeFits
  <2>6. ChangeFits'
    <3> SUFFICES ASSUME NEW j \in PlanChanges
                 PROVE  IF inv'[j].status = "open" THEN stash[j] # NoState \/ PendingOf("updated", j)'
                        ELSE \/ completed[j]
                             \/ PendingOf("updated", j)'
                             \/ stash[j] # NoState /\ PendingOf("paid", j)'
      BY <1>2, <1>4 DEF ChangeFits
    <3>1. j = i
      BY <1>0, <1>2 DEF StripeFits
    <3> QED BY <1>2, <2>1, <2>2, <2>5, <3>1
  <2> QED BY <2>4, <2>6
<1> QED BY <1>2, <1>8, <1>11, <1>12, <1>13, <1>14, <1>15, <1>16 DEF Billing

\* What the user spends, and when the session follows, is nothing to the handlers.
LEMMA UserFits ==
  ASSUME Billing, Entitle \/ Spend \/ UNCHANGED vars
  PROVE  IInv' => Billing'
<1>1. /\ UNCHANGED <<sent, processed, stash, claim, completed, handler, missed>>
      /\ UNCHANGED stripe /\ UNCHANGED <<now, sub, inv>>
  BY DEF Entitle, Spend, vars, redis, stripe
<1>2. \A t \in Tiers : /\ bucket'[t].trans = bucket[t].trans
                       /\ bucket'[t].exists \/ bucket'[t] = bucket[t]
  <2>1. CASE Spend
    <3> DEFINE b == IF bucket[entitled].exists THEN bucket[entitled] ELSE FreshBucket(entitled)
    <3>1. bucket \in [Tiers -> Bucket] /\ entitled \in Tiers
      BY DEF Billing, IInv, TypeOK
    <3>2. bucket' = [bucket EXCEPT ![entitled] = [b EXCEPT !.tokens = @ - 1]]
      BY <2>1 DEF Spend
    <3>3. b.exists /\ b.trans = bucket[entitled].trans /\ b \in Bucket
      BY <3>1, FreshType DEF Billing, BucketsFit, FreshBucket, NoBucket
    <3> HIDE DEF b
    <3>4. PICK c : c = [b EXCEPT !.tokens = @ - 1]
      OBVIOUS
    <3>5. c.exists /\ c.trans = bucket[entitled].trans
      BY <3>3, <3>4 DEF Bucket
    <3> QED BY <3>1, <3>2, <3>4, <3>5
  <2>2. CASE Entitle \/ UNCHANGED vars
    <3>1. bucket' = bucket
      BY <2>2 DEF Entitle, vars, redis
    <3> QED BY <3>1
  <2> QED BY <2>1, <2>2
<1>3. StripeFits' /\ EventsFit' /\ ChangesApart'
  <2>1. EventsFit'
    <3>1. \A h \in Handlers : EventFits(handler[h].ev)'
      <4> SUFFICES ASSUME NEW h \in Handlers PROVE EventFits(handler[h].ev)'
        OBVIOUS
      <4>1. PICK d : d = handler[h].ev /\ d = handler'[h].ev
        BY <1>1
      <4> QED BY <1>1, <4>1, Still DEF Billing, EventsFit
    <3> QED BY <1>1, <3>1, Still DEF Billing, EventsFit
  <2>2. ChangesApart'
    BY <1>1, Still DEF Billing, ChangesApart
  <2> QED BY <1>1, <2>1, <2>2, Still DEF Billing
<1>4. BucketsFit'
  BY <1>1, <1>2, Still DEF Billing, BucketsFit
<1>5. HandlersFit'
  <2> SUFFICES ASSUME NEW h \in Handlers, NEW q, q = handler[h] PROVE HandlerFits(q)'
    BY <1>1 DEF HandlersFit
  <2>1. HandlerFits(q)
    BY DEF Billing, HandlersFit
  <2>2. (Kept(q.ev.inv)' <=> Kept(q.ev.inv)) /\ (Holds(q.ev.inv, q.raw)' <=> Holds(q.ev.inv, q.raw))
    BY <1>1 DEF Kept, Holds
  <2> QED BY <1>1, <2>1, <2>2, HandlerStill DEF HandlerFits
<1>6. StashesFit'
  BY <1>1, Still DEF Billing, StashesFit
<1>7. ASSUME HoldFits, ChangeFits PROVE HoldFits' /\ ChangeFits'
  <2>1. \A kind, i : PendingOf(kind, i)' <=> PendingOf(kind, i)
    BY <1>1 DEF PendingOf, Pending
  <2>2. sub.tier \in Tiers
    BY DEF Billing, IInv, TypeOK, Subscription
  <2>3. (Frozen => Frozen') /\ (Filled => Filled')
    BY <1>1, <1>2, <2>2, Still DEF Frozen, Filled
  <2>4. HoldFits'
    BY <1>1, <1>2, <1>7, <2>1, <2>2, <2>3, Still DEF HoldFits
  <2>5. ChangeFits'
    BY <1>1, <1>7, <2>1, Still DEF ChangeFits
  <2> QED BY <2>4, <2>5
<1> QED BY <1>1, <1>3, <1>4, <1>5, <1>6, <1>7 DEF Billing

-----------------------------------------------------------------------------
\* The theorems on the hold and the plan change.

LEMMA InitFits == Init => Billing
<1> SUFFICES ASSUME Init PROVE Billing
  OBVIOUS
<1>1. PlanChanges = {} /\ (\A i : ~Renewal(i) /\ ~Paid(i)) /\ Upto = now
  BY DEF Init, PlanChanges, Renewal, Paid, Upto
<1>2. StripeFits
  BY <1>1 DEF Init, StripeFits
<1>3. EventFits(NoEvent) /\ NoEvent.inv \notin PlanChanges
  BY <1>1 DEF EventFits, NoEvent
<1>4. /\ \A h \in Handlers : handler[h] = Idle
      /\ Idle.ev = NoEvent /\ Idle.pc = "idle" /\ Idle.to = FirstTier
  BY DEF Init, Idle
<1>5. EventsFit /\ ChangesApart
  BY <1>3, <1>4 DEF EventsFit, ChangesApart, Init
<1>6. HandlersFit
  BY <1>1, <1>4 DEF HandlersFit, HandlerFits
<1>7. \A t \in Tiers : bucket[t].trans = NoTransition
  BY DEF Init, FreshBucket, NoBucket
<1>8. BucketsFit
  <2>1. \A t \in Tiers : ~bucket[t].exists => bucket[t] = NoBucket
    BY DEF Init, FreshBucket, NoBucket
  <2> QED BY <1>7, <2>1 DEF BucketsFit, NoTransition
<1>9. StashesFit
  BY DEF Init, StashesFit
<1>10. FirstTier \in Tiers /\ sub.tier = FirstTier /\ sub.status = "active"
  BY Parameters DEF Init
<1>11. HoldFits /\ ChangeFits
  BY <1>1, <1>7, <1>10 DEF HoldFits, ChangeFits, NoTransition
<1> QED BY <1>2, <1>5, <1>6, <1>8, <1>9, <1>11, InitHolds DEF Billing

LEMMA BillingStep ==
  ASSUME OneChange
  PROVE  Billing /\ [Next]_vars => Billing'
<1> SUFFICES ASSUME Billing, [Next]_vars PROVE Billing'
  OBVIOUS
<1>0. IInv'
  BY NextKeeps DEF Billing
<1>1. CASE UNCHANGED vars \/ Entitle \/ Spend
  BY <1>0, <1>1, UserFits
<1>2. ASSUME NEW i \in Invoices, Renew(i) \/ ChargeAgain(i) \/ PayChange(i)
      PROVE  Billing'
  BY <1>0, <1>2, ChargeFits, PayChangeFits
<1>3. ASSUME NEW i \in Invoices, NEW t \in Tiers, ChangePlan(i, t)
      PROVE  Billing'
  BY <1>0, <1>3, ChangePlanFits
<1>4. ASSUME NEW h \in Handlers, Handle(h)
      PROVE  Billing'
  BY <1>0, <1>4, ReceiveFits, ReadSubscriptionFits, ReadInvoiceFits, ResetFits, FreezeFits,
     StashFits, ClaimFits, ApplyFits, MarkFits, MissFits DEF Handle
<1> QED BY <1>1, <1>2, <1>3, <1>4 DEF Next

LEMMA BillingHolds ==
  ASSUME OneChange
  PROVE  Spec => []Billing
<1>1. Init => Billing
  BY InitFits
<1>2. Billing /\ [Next]_vars => Billing'
  BY BillingStep
<1> QED BY <1>1, <1>2, PTL DEF Spec

LEMMA NothingPending ==
  ASSUME Settled, NEW kind, NEW i
  PROVE  ~PendingOf(kind, i)
BY DEF Settled, PendingOf

\* While the plan is changed at most once: the bucket is held exactly while the renewal
\* is unpaid, once every event is answered, for any number of renewals, attempts within
\* a second, handlers at once and faults.
THEOREM HoldIsRight == OneChange => (Spec => []HoldFollowsPayment)
<1> SUFFICES ASSUME OneChange PROVE Spec => []HoldFollowsPayment
  OBVIOUS
<1>1. Billing => HoldFollowsPayment
  <2> SUFFICES ASSUME Billing, Settled, ~missed
               PROVE  (bucket[sub.tier].trans.type = "payment_failed") = (sub.status = "past_due")
    BY DEF HoldFollowsPayment
  <2>1. HoldFits /\ StripeFits
    BY DEF Billing
  <2>2. CASE sub.status = "past_due"
    BY <2>1, <2>2, NothingPending DEF HoldFits, Frozen
  <2>3. CASE sub.status # "past_due"
    <3>1. Paid(sub.latest) \/ ~Renewal(sub.latest)
      BY <2>1, <2>3 DEF StripeFits
    <3> QED BY <2>1, <2>3, <3>1, NothingPending DEF HoldFits, Filled
  <2> QED BY <2>2, <2>3
<1>2. Spec => []Billing
  BY BillingHolds
<1> QED BY <1>1, <1>2, PTL

\* While the plan is changed at most once: a change that was paid is carried over once
\* every event is answered, whichever of its two events came first, however often and
\* however many handlers died on the way.
THEOREM ChangeIsCarried == OneChange => (Spec => []ChangeIsApplied)
<1> SUFFICES ASSUME OneChange PROVE Spec => []ChangeIsApplied
  OBVIOUS
<1>1. Billing => ChangeIsApplied
  <2> SUFFICES ASSUME Billing, Settled, ~missed, NEW i \in PlanChanges, inv[i].status = "paid"
               PROVE  completed[i] /\ stash[i] = NoState /\ changes[i] = 1
    BY DEF ChangeIsApplied
  <2>1. completed[i]
    BY NothingPending DEF Billing, ChangeFits
  <2>2. i \in Invoices
    BY DEF PlanChanges
  <2> QED BY <2>1, <2>2 DEF Billing, IInv, CompletedIsDone
<1>2. Spec => []Billing
  BY BillingHolds
<1> QED BY <1>1, <1>2, PTL

-----------------------------------------------------------------------------
(* What is spent                                                           *)
(*                                                                         *)
(* Before a change, what is left of the first tier's bucket and what was   *)
(* spent are within its allocation. While it is under way, what was spent  *)
(* is what the old bucket, then the stash, has lost, and what requests of  *)
(* the new tier took from the provisional bucket. The new bucket is what   *)
(* remains of both.                                                        *)

\* A bucket with all that was spent of it.
Within(b) == b.tokens = 0 \/ b.tokens + spent <= b.allocation

\* The first tier's bucket, until it is stashed.
Whole(b) == /\ b.exists /\ b.allocation \in 0..TierMax[FirstTier]
            /\ b.tokens <= b.allocation

\* The new tier's bucket, until the change is applied.
Unallocated(b, max) == b.allocation = NoAllocation /\ (b.exists => b.tokens <= max)

NewBucket == bucket[sub.tier]
SpentAhead == Provisional(NewBucket, TierMax[sub.tier])

Before ==
  /\ left = {} /\ entitled = FirstTier
  /\ Whole(bucket[FirstTier])
  /\ spent <= bucket[FirstTier].allocation - bucket[FirstTier].tokens
  /\ \A t \in Tiers \ {FirstTier} : ~bucket[t].exists

Unstashed ==
  /\ left = {} /\ Unallocated(NewBucket, TierMax[sub.tier])
  /\ Whole(bucket[FirstTier])
  /\ spent <= (bucket[FirstTier].allocation - bucket[FirstTier].tokens) + SpentAhead

Stashed(i) ==
  /\ left = {FirstTier} /\ Unallocated(NewBucket, TierMax[sub.tier])
  /\ stash[i].remaining <= stash[i].allocation
  /\ spent <= (stash[i].allocation - stash[i].remaining) + SpentAhead

Applied ==
  /\ left = {FirstTier} /\ NewBucket.allocation # NoAllocation /\ Within(NewBucket)

\* Only the first tier's bucket is stashed, only it or the new one is spent from, and a
\* late reset does not reach the new one before the change is applied.
FromFirst ==
  /\ \A e \in sent : e.kind = "updated" => e.from = FirstTier
  /\ \A h \in Handlers :
       /\ handler[h].ev.kind = "updated" => handler[h].ev.from = FirstTier
       /\ handler[h].pc = "reset" /\ sub.latest \in PlanChanges => handler[h].to # sub.tier
  /\ PlanChanges # {} => sub.tier # FirstTier
  /\ entitled \in {FirstTier, sub.tier}

Spending ==
  /\ PlanChanges = {} => Before
  /\ \A i \in PlanChanges :
       IF completed[i] THEN Applied ELSE IF stash[i] = NoState THEN Unstashed ELSE Stashed(i)

Books == Billing /\ FromFirst /\ (missed \/ Spending)

\* What stands in the buckets.
LEMMA BucketTypes ==
  ASSUME IInv
  PROVE  /\ bucket \in [Tiers -> Bucket] /\ FirstTier \in Tiers /\ sub.tier \in Tiers
         /\ \A t \in Tiers : /\ bucket[t] \in Bucket /\ bucket[t].tokens \in Nat
                             /\ bucket[t].allocation \in Nat \cup {-1} /\ TierMax[t] \in Nat
         /\ spent \in Nat /\ NoAllocation = -1
BY Parameters DEF IInv, TypeOK, Bucket, Subscription, NoAllocation

LEMMA ProvisionalIs ==
  ASSUME NEW b, b.tokens \in Nat, NEW max \in Nat, Unallocated(b, max)
  PROVE  Provisional(b, max) = IF b.exists THEN max - b.tokens ELSE 0
BY DEF Unallocated, Provisional, Greater

\* If no money moves, the books stay as they are.
LEMMA SameBooks ==
  ASSUME missed \/ Spending, missed => missed', PlanChanges' = PlanChanges, sub'.tier = sub.tier,
         UNCHANGED <<bucket, stash, completed, left, spent, entitled>>
  PROVE  missed' \/ Spending'
<1>1. NewBucket' = NewBucket /\ SpentAhead' = SpentAhead
  BY DEF NewBucket, SpentAhead
<1>2. (\A b : Within(b)' <=> Within(b)) /\ (Before => Before') /\ (Unstashed => Unstashed')
  BY <1>1 DEF Within, Before, Unstashed
<1>3. (\A i : Stashed(i) => Stashed(i)') /\ (Applied => Applied')
  BY <1>1, <1>2 DEF Stashed, Applied, Within
<1> QED BY <1>2, <1>3 DEF Spending

LEMMA ChargeBooks ==
  ASSUME Books, NEW i \in Invoices, Renew(i) \/ ChargeAgain(i) \/ PayChange(i)
  PROVE  FromFirst' /\ (missed' \/ Spending')
<1>1. /\ UNCHANGED <<bucket, stash, completed, left, spent, entitled, handler, missed>>
  BY DEF Renew, ChargeAgain, PayChange, Rest, redis
<1>2. PICK e : /\ sent' = sent \cup {e} /\ e.kind \in {"paid", "failed"}
               /\ sub'.tier = sub.tier /\ PlanChanges' = PlanChanges
               /\ sub'.latest \in PlanChanges => sub'.latest = sub.latest
  <2>1. CASE Renew(i) \/ ChargeAgain(i)
    <3>1. PICK paid \in BOOLEAN :
             sent' = sent \cup {[NoEvent EXCEPT !.kind = IF paid THEN "paid" ELSE "failed",
                                                !.inv = i, !.at = now']}
      BY <2>1, ChargeOf DEF Books, Billing, Renew, ChargeAgain
    <3>2. PICK e : e = [NoEvent EXCEPT !.kind = IF paid THEN "paid" ELSE "failed",
                                       !.inv = i, !.at = now']
      OBVIOUS
    <3>3. e.kind \in {"paid", "failed"}
      BY <3>2 DEF NoEvent
    <3> QED BY <2>1, <3>1, <3>2, <3>3, ChargeKeepsOrder DEF Books
  <2>2. CASE PayChange(i)
    <3>1. PICK e : e = [NoEvent EXCEPT !.kind = "paid", !.inv = i, !.at = now]
      OBVIOUS
    <3>2. e.kind = "paid"
      BY <3>1 DEF NoEvent
    <3>3. \A j \in Invoices : inv'[j].reason = inv[j].reason
      BY <2>2 DEF PayChange, Books, Billing, IInv, TypeOK, Invoice
    <3> QED BY <2>2, <3>1, <3>2, <3>3 DEF PayChange, PlanChanges
  <2> QED BY <2>1, <2>2
<1>3. FromFirst'
  BY <1>1, <1>2 DEF Books, FromFirst
<1> QED BY <1>1, <1>2, <1>3, SameBooks DEF Books

LEMMA ChangePlanBooks ==
  ASSUME OneChange, Books, NEW i \in Invoices, NEW t \in Tiers, ChangePlan(i, t)
  PROVE  FromFirst' /\ (missed' \/ Spending')
<1>0. StripeFits /\ IInv /\ StashesFit /\ BucketsFit /\ HandlersFit /\ Billing
  BY DEF Books, Billing
<1>1. PlanChanges = {}
  <2>1. Cardinality(PlanChanges) < MaxChanges /\ MaxChanges \in Nat
    BY Parameters DEF ChangePlan
  <2> SUFFICES ASSUME NEW k \in PlanChanges PROVE FALSE
    OBVIOUS
  <2>2. PlanChanges = {k}
    BY <1>0 DEF StripeFits
  <2>3. Cardinality(PlanChanges) = 1
    BY <2>2, FS_Singleton
  <2> QED BY <2>1, <2>3 DEF OneChange
<1>2. sub.tier = FirstTier /\ t # FirstTier
  BY <1>0, <1>1 DEF StripeFits, ChangePlan
<1>3. PICK e : e = [kind |-> "updated", inv |-> i, at |-> now, from |-> sub.tier, to |-> t]
  OBVIOUS
<1>4. /\ UNCHANGED <<bucket, stash, completed, left, spent, entitled, handler, missed>>
      /\ sent' = sent \cup {e} /\ sub'.tier = t /\ sub'.latest = i /\ i \in PlanChanges'
      /\ PlanChanges' = {i} /\ inv[i].reason = "none"
  <2>1. /\ inv \in [Invoices -> Invoice] /\ sub \in Subscription
    BY <1>0 DEF IInv, TypeOK
  <2>2. inv'[i].reason = "subscription_update" /\ \A j \in Invoices \ {i} : inv'[j] = inv[j]
    BY <2>1 DEF ChangePlan, Invoice
  <2>3. sub'.tier = t /\ sub'.latest = i
    BY <2>1 DEF ChangePlan, Subscription
  <2> QED BY <1>1, <1>3, <2>2, <2>3 DEF ChangePlan, Rest, redis, PlanChanges
<1>5. FromFirst'
  <2>1. \A h \in Handlers : handler[h].to # t
    BY <1>0, <1>1, <1>2 DEF HandlersFit, HandlerFits
  <2>2. e.from = FirstTier
    BY <1>2, <1>3
  <2>3. entitled = FirstTier
    BY <1>2 DEF Books, FromFirst
  <2>4. \A d \in sent' : d.kind = "updated" => d.from = FirstTier
    BY <1>4, <2>2 DEF Books, FromFirst
  <2>5. \A h \in Handlers : handler'[h].ev.kind = "updated" => handler'[h].ev.from = FirstTier
    BY <1>4 DEF Books, FromFirst
  <2>6. sub'.tier # FirstTier
    BY <1>2, <1>4
  <2> QED BY <1>4, <2>1, <2>3, <2>4, <2>5, <2>6 DEF FromFirst
<1>6. ASSUME Spending PROVE Spending'
  <2>1. Before
    BY <1>1, <1>6 DEF Spending
  <2>2. bucket[t] = NoBucket
    BY <1>0, <1>2, <2>1 DEF Before, BucketsFit
  <2>3. ~completed[i] /\ stash[i] = NoState
    <3>1. inv[i].status # "paid"
      BY <1>0, <1>4 DEF StripeFits
    <3> QED BY <1>0, <1>1, <3>1 DEF StashesFit
  <2>4. Unstashed'
    <3>1. Unallocated(bucket[t], TierMax[t]) /\ Provisional(bucket[t], TierMax[t]) = 0
      BY <2>2 DEF Unallocated, NoBucket, Provisional
    <3>2. NewBucket' = bucket[t] /\ SpentAhead' = 0
      BY <1>4, <3>1 DEF NewBucket, SpentAhead
    <3>3. spent <= (bucket[FirstTier].allocation - bucket[FirstTier].tokens) + 0
      BY <1>0, <2>1, BucketTypes DEF Before, Whole
    <3> QED BY <1>4, <2>1, <3>1, <3>2, <3>3 DEF Unstashed, Before
  <2> QED BY <1>4, <2>3, <2>4 DEF Spending
<1> QED BY <1>4, <1>5, <1>6 DEF Books

LEMMA EntitleBooks ==
  ASSUME Books, Entitle \/ UNCHANGED vars
  PROVE  FromFirst' /\ (missed' \/ Spending')
<1>1. /\ UNCHANGED <<bucket, stash, completed, left, spent, handler, missed, sent>>
      /\ UNCHANGED <<now, sub, inv>> /\ entitled' \in {entitled, sub.tier} /\ UNCHANGED stripe
  BY DEF Entitle, vars, redis, stripe
<1>2. PlanChanges' = PlanChanges
  BY <1>1, Still
<1>3. FromFirst'
  BY <1>1, <1>2 DEF Books, FromFirst
<1>4. PlanChanges = {} => sub.tier = FirstTier
  BY DEF Books, Billing, StripeFits
<1>5. ASSUME Spending PROVE Spending'
  <2>1. NewBucket' = NewBucket /\ SpentAhead' = SpentAhead
    BY <1>1 DEF NewBucket, SpentAhead
  <2>2. /\ PlanChanges = {} /\ Before => Before'
        /\ Unstashed => Unstashed'
        /\ \A i : Stashed(i) => Stashed(i)'
    BY <1>1, <1>4, <2>1 DEF Before, Unstashed, Stashed
  <2>3. Applied => Applied'
    BY <1>1, <2>1 DEF Applied, Within
  <2> QED BY <1>1, <1>2, <1>5, <2>2, <2>3 DEF Spending
<1> QED BY <1>1, <1>3, <1>5 DEF Books

LEMMA SpendBooks ==
  ASSUME Books, Spend
  PROVE  FromFirst' /\ (missed' \/ Spending')
<1> DEFINE b == IF bucket[entitled].exists THEN bucket[entitled] ELSE FreshBucket(entitled)
           F == FirstTier
           T == sub.tier
<1>0. IInv /\ StripeFits /\ BucketsFit /\ entitled \in {F, T} /\ entitled \in Tiers
  BY DEF Books, Billing, FromFirst, IInv, TypeOK
<1>1. /\ UNCHANGED <<stash, completed, left, handler, missed, sent, entitled>>
      /\ UNCHANGED <<now, sub, inv>> /\ UNCHANGED stripe
      /\ spent' = IF entitled \in left THEN spent ELSE spent + 1
      /\ b.tokens > 0 /\ bucket' = [bucket EXCEPT ![entitled] = [b EXCEPT !.tokens = @ - 1]]
  BY DEF Spend, stripe
<1>2. PlanChanges' = PlanChanges
  BY <1>1, Still
<1>3. FromFirst'
  BY <1>1, <1>2 DEF Books, FromFirst
<1>4. b \in Bucket /\ b.exists /\ b.tokens \in Nat /\ b.allocation \in Nat \cup {-1}
  <2>1. b \in Bucket
    BY <1>0, BucketTypes, FreshType
  <2>2. b.exists
    BY DEF FreshBucket, NoBucket
  <2> HIDE DEF b
  <2> QED BY <2>1, <2>2 DEF Bucket, NoAllocation
<1>5. /\ bucket[entitled].exists => b = bucket[entitled]
      /\ ~bucket[entitled].exists => b.tokens = TierMax[entitled] /\ b.allocation = NoAllocation
                                     /\ bucket[entitled].allocation = NoAllocation
  <2>1. ~bucket[entitled].exists => bucket[entitled] = NoBucket
    BY <1>0 DEF BucketsFit
  <2> QED BY <2>1 DEF FreshBucket, NoBucket
<1> HIDE DEF b
<1>6. /\ bucket'[entitled].exists /\ bucket'[entitled].tokens = b.tokens - 1
      /\ bucket'[entitled].allocation = b.allocation
      /\ \A t \in Tiers : t # entitled => bucket'[t] = bucket[t]
  BY <1>0, <1>1, <1>4, BucketTypes DEF Bucket
<1>7. ASSUME Spending PROVE Spending'
  <2>1. ASSUME PlanChanges = {} PROVE Before'
    <3>1. Before /\ entitled = F /\ bucket[F].exists
      BY <1>7, <2>1 DEF Spending, Before, Whole
    <3>2. bucket'[F].exists /\ bucket'[F].allocation = bucket[F].allocation
          /\ bucket'[F].tokens = bucket[F].tokens - 1 /\ spent' = spent + 1
      BY <1>1, <1>5, <1>6, <3>1 DEF Before
    <3>3. \A t \in Tiers \ {F} : ~bucket'[t].exists
      BY <1>6, <3>1 DEF Before
    <3> QED BY <1>0, <1>1, <3>1, <3>2, <3>3, BucketTypes DEF Before, Whole
  <2>2. ASSUME NEW i \in PlanChanges PROVE T # F
    BY <2>2 DEF Books, FromFirst
  <2>3. ASSUME Unallocated(NewBucket, TierMax[T]), entitled = T
        PROVE  /\ Unallocated(NewBucket, TierMax[T])'
               /\ SpentAhead \in Nat /\ SpentAhead' = SpentAhead + 1
    <3>1. b.tokens <= TierMax[T] /\ b.allocation = NoAllocation
          /\ SpentAhead = TierMax[T] - b.tokens
      <4>1. CASE bucket[T].exists
        BY <1>0, <1>5, <2>3, <4>1, ProvisionalIs, BucketTypes
           DEF NewBucket, SpentAhead, Unallocated
      <4>2. CASE ~bucket[T].exists
        BY <1>0, <1>5, <2>3, <4>2, ProvisionalIs, BucketTypes
           DEF NewBucket, SpentAhead, Unallocated
      <4> QED BY <4>1, <4>2
    <3>2. PICK n : n = bucket'[T]
      OBVIOUS
    <3>3. n.exists /\ n.tokens = b.tokens - 1 /\ n.allocation = NoAllocation /\ n.tokens \in Nat
      BY <1>1, <1>4, <1>6, <2>3, <3>1, <3>2
    <3>4. Unallocated(n, TierMax[T])
      BY <1>0, <1>4, <3>1, <3>3, BucketTypes DEF Unallocated
    <3>5. Provisional(n, TierMax[T]) = TierMax[T] - n.tokens
      BY <1>0, <3>3, <3>4, ProvisionalIs, BucketTypes
    <3>6. NewBucket' = n /\ SpentAhead' = Provisional(n, TierMax[T])
      BY <1>1, <3>2 DEF NewBucket, SpentAhead
    <3> QED BY <1>0, <1>1, <1>4, <3>1, <3>3, <3>4, <3>5, <3>6, BucketTypes
  <2>4. ASSUME entitled = F, T # F PROVE NewBucket' = NewBucket /\ SpentAhead' = SpentAhead
    BY <1>0, <1>1, <1>6, <2>4, BucketTypes DEF NewBucket, SpentAhead
  <2>5. ASSUME Unallocated(NewBucket, TierMax[T]) PROVE SpentAhead \in Int
    BY <1>0, <2>5, ProvisionalIs, BucketTypes DEF NewBucket, SpentAhead
  <2>6. ASSUME NEW i \in PlanChanges, Unstashed PROVE Unstashed'
    <3>1. left = {} /\ spent' = spent + 1 /\ bucket[F].exists /\ bucket[F].allocation \in Nat
      BY <1>0, <1>1, <2>6, BucketTypes DEF Unstashed, Whole
    <3>2. CASE entitled = T
      <4>1. bucket'[F] = bucket[F]
        BY <1>0, <1>6, <2>2, <2>6, <3>2, BucketTypes
      <4>2. Whole(bucket[F])'
        BY <2>6, <4>1 DEF Unstashed, Whole
      <4>3. /\ Unallocated(NewBucket, TierMax[T])'
            /\ SpentAhead \in Nat /\ SpentAhead' = SpentAhead + 1
        BY <2>3, <2>6, <3>2 DEF Unstashed
      <4>4. bucket[F].tokens \in Nat /\ spent \in Nat
        BY <1>0, BucketTypes
      <4>5. spent' <= (bucket'[F].allocation - bucket'[F].tokens) + SpentAhead'
        BY <2>6, <3>1, <4>1, <4>3, <4>4 DEF Unstashed
      <4> QED BY <1>1, <3>1, <4>2, <4>3, <4>5 DEF Unstashed
    <3>3. CASE entitled = F
      <4>1. bucket'[F].exists /\ bucket'[F].allocation = bucket[F].allocation
            /\ bucket'[F].tokens = bucket[F].tokens - 1
        BY <1>5, <1>6, <3>1, <3>3
      <4>2. Unallocated(NewBucket, TierMax[T])'
        BY <1>1, <2>2, <2>4, <2>6, <3>3 DEF Unstashed, Unallocated
      <4>3. SpentAhead' = SpentAhead /\ SpentAhead \in Int
        BY <2>2, <2>4, <2>5, <2>6, <3>3 DEF Unstashed
      <4> QED BY <1>0, <1>1, <2>6, <3>1, <4>1, <4>2, <4>3, BucketTypes DEF Unstashed, Whole
    <3> QED BY <1>0, <3>2, <3>3
  <2>7. ASSUME NEW i \in PlanChanges, Stashed(i) PROVE Stashed(i)'
    <3>1. left = {F} /\ stash[i].remaining \in Nat /\ stash[i].allocation \in Nat
      BY <1>0, <2>7 DEF Stashed, IInv, TypeOK, CarryOver, PlanChanges
    <3>2. CASE entitled = T
      <4>1. spent' = spent + 1
        BY <1>1, <2>2, <2>7, <3>1, <3>2
      <4> QED BY <1>0, <1>1, <2>3, <2>7, <3>1, <3>2, <4>1, BucketTypes DEF Stashed
    <3>3. CASE entitled = F
      <4>1. spent' = spent
        BY <1>1, <3>1, <3>3
      <4> QED BY <1>1, <2>2, <2>4, <2>7, <3>3, <4>1 DEF Stashed, Unallocated
    <3> QED BY <1>0, <3>2, <3>3
  <2>8. ASSUME NEW i \in PlanChanges, Applied PROVE Applied'
    <3>1. left = {F} /\ NewBucket = bucket[T] /\ bucket[T].allocation # NoAllocation
      BY <2>8 DEF Applied, NewBucket
    <3>2. CASE entitled = T
      <4>1. b = bucket[T] /\ spent' = spent + 1
        BY <1>1, <1>5, <2>2, <2>8, <3>1, <3>2
      <4>2. bucket'[T].tokens + spent' <= bucket'[T].allocation
            /\ bucket'[T].allocation # NoAllocation
        BY <1>0, <1>1, <1>4, <1>6, <2>8, <3>1, <3>2, <4>1, BucketTypes DEF Applied, Within
      <4> QED BY <1>1, <2>8, <4>2 DEF Applied, Within, NewBucket
    <3>3. CASE entitled = F
      <4>1. spent' = spent
        BY <1>1, <3>1, <3>3
      <4> QED BY <1>1, <2>2, <2>4, <2>8, <3>3, <4>1 DEF Applied, Within
    <3> QED BY <1>0, <3>2, <3>3
  <2> QED BY <1>1, <1>2, <1>7, <2>1, <2>6, <2>7, <2>8 DEF Spending
<1> QED BY <1>1, <1>3, <1>7 DEF Books


\* Steps of a handler that leave the buckets and the stashes alone.
LEMMA FirstStays ==
  ASSUME Books, UNCHANGED <<stripe, entitled>>, sent' \subseteq sent, NEW h \in Handlers, NEW q,
         handler' = [handler EXCEPT ![h] = q], q.ev \in sent \cup {handler[h].ev, NoEvent},
         q.pc = "reset" => Renewal(sub.latest)
  PROVE  FromFirst'
<1>1. handler \in [Handlers -> Handler]
  BY DEF Books, Billing, IInv, TypeOK
<1>2. handler'[h] = q /\ \A g \in Handlers : g # h => handler'[g] = handler[g]
  BY <1>1
<1>3. Renewal(sub.latest) => sub.latest \notin PlanChanges
  BY DEF Renewal, PlanChanges
<1>4. q.ev.kind = "updated" => q.ev.from = FirstTier
  BY DEF Books, FromFirst, NoEvent
<1>5. PlanChanges' = PlanChanges /\ sub' = sub /\ entitled' = entitled
  BY Still DEF stripe
<1>6. \A e \in sent' : e.kind = "updated" => e.from = FirstTier
  BY DEF Books, FromFirst
<1>7. ASSUME NEW g \in Handlers
      PROVE  /\ handler'[g].ev.kind = "updated" => handler'[g].ev.from = FirstTier
             /\ handler'[g].pc = "reset" /\ sub'.latest \in PlanChanges' =>
                  handler'[g].to # sub'.tier
  <2>1. CASE g = h
    BY <1>2, <1>3, <1>4, <1>5, <2>1
  <2>2. CASE g # h
    BY <1>2, <1>5, <2>2 DEF Books, FromFirst
  <2> QED BY <2>1, <2>2
<1> QED BY <1>5, <1>6, <1>7 DEF Books, FromFirst

LEMMA HandleBooks ==
  ASSUME Books, NEW h \in Handlers,
         \/ \E e \in sent : Receive(h, e)
         \/ ReadSubscription(h) \/ ReadInvoice(h) \/ Claim(h)
         \/ Mark(h) \/ Answer(h) \/ Die(h) \/ Miss(h)
  PROVE  FromFirst' /\ (missed' \/ Spending')
<1>1. /\ UNCHANGED <<bucket, stash, completed, left, spent, entitled, stripe>>
      /\ missed => missed'
      /\ sent' \subseteq sent
  <2>1. CASE \E e \in sent : Receive(h, e)
    <3>1. PICK e \in sent : Receive(h, e)
      BY <2>1
    <3> QED BY <3>1 DEF Receive, Unspent, redis
  <2>2. CASE ReadSubscription(h) \/ ReadInvoice(h) \/ Claim(h)
    BY <2>2 DEF ReadSubscription, ReadInvoice, Claim, Unspent, redis
  <2>3. CASE Mark(h) \/ Answer(h) \/ Die(h) \/ Miss(h)
    BY <2>3 DEF Mark, Answer, Die, Miss, Unspent, redis
  <2> QED BY <2>1, <2>2, <2>3
<1>2. PICK q : /\ handler' = [handler EXCEPT ![h] = q]
               /\ q.ev \in sent \cup {handler[h].ev, NoEvent}
               /\ q.pc = "reset" => Renewal(sub.latest)
  <2>1. CASE \E e \in sent : Receive(h, e)
    <3>0. PICK e \in sent : Receive(h, e)
      BY <2>1
    <3>1. PICK q : q = [Idle EXCEPT !.ev = e,
              !.pc = IF e \in processed THEN "answer"
                     ELSE IF e.kind = "updated" THEN "stash" ELSE "read",
              !.to = IF e.kind = "updated" THEN e.to ELSE FirstTier]
      OBVIOUS
    <3>2. q.ev = e /\ q.pc # "reset"
      BY <3>1 DEF Idle
    <3> QED BY <3>0, <3>1, <3>2 DEF Receive
  <2>2. CASE ReadSubscription(h)
    <3>1. PICK pc : /\ Go(h, pc, sub.tier, NoState)
                    /\ pc = "reset" => /\ sub.latest = handler[h].ev.inv
                                       /\ inv[sub.latest].reason = "subscription_cycle"
      BY <2>2 DEF ReadSubscription, Eligible
    <3>2. handler[h].ev.inv \in Invoices
      BY <2>2, EventOf DEF ReadSubscription, Books, Billing
    <3> QED BY <3>1, <3>2, Goes DEF Books, Billing, Renewal
  <2>3. CASE ReadInvoice(h)
    <3>1. PICK pc : Go(h, pc, handler[h].to, handler[h].raw) /\ pc # "reset"
      BY <2>3 DEF ReadInvoice, To
    <3> QED BY <3>1, Goes DEF Books, Billing
  <2>4. CASE Claim(h)
    <3> DEFINE i == handler[h].ev.inv
               raw == IF completed[i] THEN NoState
                      ELSE IF claim[i] # NoState THEN claim[i] ELSE stash[i]
               usable == raw # NoState /\ raw.target = handler[h].to /\ raw.cycle = sub.cycle
    <3>1. Go(h, IF usable THEN "apply" ELSE "mark", handler[h].to, raw)
      BY <2>4 DEF Claim
    <3> HIDE DEF raw, usable
    <3>2. PICK pc \in {"apply", "mark"} : Go(h, pc, handler[h].to, raw)
      BY <3>1
    <3> QED BY <3>2, Goes DEF Books, Billing
  <2>5. CASE Mark(h) \/ Miss(h)
    <3>1. PICK pc : Go(h, pc, handler[h].to, handler[h].raw) /\ pc # "reset"
      BY <2>5 DEF Mark, Miss, To
    <3> QED BY <3>1, Goes DEF Books, Billing
  <2>6. CASE Answer(h) \/ Die(h)
    <3>1. handler' = [handler EXCEPT ![h] = Idle]
      BY <2>6 DEF Answer, Die
    <3>2. Idle.ev = NoEvent /\ Idle.pc # "reset"
      BY DEF Idle
    <3> QED BY <3>1, <3>2
  <2> QED BY <2>1, <2>2, <2>3, <2>4, <2>5, <2>6
<1>3. FromFirst'
  BY <1>1, <1>2, FirstStays
<1>4. PlanChanges' = PlanChanges /\ sub'.tier = sub.tier
  BY <1>1, Still DEF stripe
<1> QED BY <1>1, <1>3, <1>4, SameBooks DEF Books

\* Steps that write a bucket.
LEMMA ToMark ==
  ASSUME Books, UNCHANGED <<stripe, entitled>>, sent' \subseteq sent, NEW h \in Handlers,
         NEW pc \in {"mark", "invoice"}, To(h, pc)
  PROVE  FromFirst' /\ PlanChanges' = PlanChanges /\ sub' = sub
<1>1. PICK q : /\ handler' = [handler EXCEPT ![h] = q]
               /\ q.pc = pc /\ q.ev = handler[h].ev
  BY Goes DEF Books, Billing, To
<1> QED BY <1>1, FirstStays, Still DEF stripe

\* A change that was overtaken by a renewal is done with.
LEMMA ChangeIsDone ==
  ASSUME Books, ~missed, sub.latest \notin PlanChanges, NEW i \in PlanChanges
  PROVE  completed[i]
<1>1. i \in Invoices /\ inv[i] \in Invoice /\ inv[i].reason # "none" /\ StripeFits
  BY DEF Books, Billing, IInv, TypeOK, PlanChanges
<1>2. inv[i].status # "open"
  BY <1>1 DEF StripeFits
<1>3. ~PendingOf("updated", i) /\ ~PendingOf("paid", i)
  BY DEF Books, Billing, ChangesApart, PendingOf
<1> QED BY <1>2, <1>3 DEF Books, Billing, ChangeFits

LEMMA SpentAheadIs ==
  ASSUME IInv, Unallocated(NewBucket, TierMax[sub.tier])
  PROVE  SpentAhead \in Nat
<1>1. PICK b : b = NewBucket
  OBVIOUS
<1>2. b.tokens \in Nat /\ TierMax[sub.tier] \in Nat
  BY <1>1, BucketTypes DEF NewBucket
<1>3. Provisional(b, TierMax[sub.tier]) \in Nat
  BY <1>1, <1>2, ProvisionalIs DEF Unallocated
<1> QED BY <1>1, <1>3 DEF SpentAhead

\* A bucket is filled, or held at what is left.
LEMMA WrittenBooks ==
  ASSUME Books, ~missed, Spending, UNCHANGED <<stripe, stash, completed, entitled>>,
         NEW t \in Tiers, NEW n, n.exists, n.allocation \in 0..TierMax[t],
         n.tokens = n.allocation, bucket' = [bucket EXCEPT ![t] = n],
         spent' = IF t \in left \ {sub.tier} THEN spent ELSE 0,
         left' \in {left, left \ ({t} \cap {sub.tier})},
         PlanChanges = {} => t = FirstTier,
         sub.latest \in PlanChanges => t # sub.tier
  PROVE  Spending'
<1> DEFINE F == FirstTier
           T == sub.tier
<1>0. IInv /\ StripeFits /\ UNCHANGED <<stash, completed, entitled>> /\ sub' = sub
      /\ PlanChanges' = PlanChanges
  BY Still DEF Books, Billing, stripe
<1>1. /\ bucket'[t] = n /\ \A s \in Tiers : s # t => bucket'[s] = bucket[s]
      /\ NewBucket = bucket[T] /\ NewBucket' = bucket'[T]
      /\ TierMax[t] \in Nat /\ n.tokens \in Nat /\ n.allocation \in Nat
  BY <1>0, BucketTypes DEF NewBucket
<1>2. spent' \in {spent, 0} /\ spent \in Nat
  BY <1>0, BucketTypes
<1>3. ASSUME PlanChanges = {} PROVE Before'
  <2>1. Before /\ t = F /\ left = {}
    BY <1>3 DEF Spending, Before
  <2>2. Whole(n)' /\ spent' = 0 /\ left' = {}
    BY <1>1, <2>1 DEF Whole
  <2> QED BY <1>0, <1>1, <2>1, <2>2 DEF Before, Whole
<1>4. ASSUME NEW i \in PlanChanges PROVE T # F
  BY <1>4 DEF Books, FromFirst
<1>5. ASSUME NEW i \in PlanChanges, Applied PROVE Applied'
  <2>1. left = {F} /\ left' = {F}
    BY <1>4, <1>5 DEF Applied
  <2>2. CASE t = T
    <3>1. NewBucket' = n /\ spent' = 0
      BY <1>1, <2>2
    <3>2. n.tokens + 0 <= n.allocation /\ n.allocation # NoAllocation
      BY <1>1 DEF NoAllocation
    <3> QED BY <2>1, <3>1, <3>2 DEF Applied, Within
  <2>3. CASE t # T
    <3>1. NewBucket' = NewBucket
      BY <1>0, <1>1, <2>3, BucketTypes
    <3>2. NewBucket.tokens = 0 \/ NewBucket.tokens + spent' <= NewBucket.allocation
      BY <1>0, <1>1, <1>2, <1>5, BucketTypes DEF Applied, Within
    <3> QED BY <1>5, <2>1, <3>1, <3>2 DEF Applied, Within
  <2> QED BY <2>2, <2>3
<1>6. ASSUME NEW i \in PlanChanges, ~completed[i]
      PROVE  /\ t # T /\ NewBucket' = NewBucket /\ SpentAhead' = SpentAhead /\ left' = left
  <2>1. t # T
    BY <1>6, ChangeIsDone
  <2> QED BY <1>0, <1>1, <2>1, BucketTypes DEF SpentAhead
<1>7. ASSUME NEW i \in PlanChanges, ~completed[i], Unstashed PROVE Unstashed'
  <2>1. spent' = 0 /\ Unallocated(NewBucket, TierMax[T])' /\ SpentAhead' \in Nat /\ left' = {}
    BY <1>0, <1>6, <1>7, SpentAheadIs DEF Unstashed, Unallocated
  <2>2. Whole(bucket[F])'
    <3>1. CASE t = F
      BY <1>1, <3>1 DEF Whole
    <3>2. CASE t # F
      BY <1>0, <1>1, <1>7, <3>2, BucketTypes DEF Unstashed, Whole
    <3> QED BY <3>1, <3>2
  <2>3. bucket'[F].tokens \in Nat
    BY <1>0, <1>1, BucketTypes
  <2>4. spent' <= (bucket'[F].allocation - bucket'[F].tokens) + SpentAhead'
    BY <1>0, <2>1, <2>2, <2>3, BucketTypes DEF Whole
  <2> QED BY <2>1, <2>2, <2>4 DEF Unstashed
<1>8. ASSUME NEW i \in PlanChanges, ~completed[i], Stashed(i) PROVE Stashed(i)'
  <2>1. SpentAhead \in Nat /\ stash[i].remaining \in Nat /\ stash[i].allocation \in Nat
    BY <1>0, <1>8, SpentAheadIs DEF Stashed, IInv, TypeOK, CarryOver, PlanChanges
  <2>2. spent' <= (stash[i].allocation - stash[i].remaining) + SpentAhead
    BY <1>2, <1>8, <2>1 DEF Stashed
  <2> QED BY <1>0, <1>6, <1>8, <2>2 DEF Stashed, Unallocated
<1> QED BY <1>0, <1>3, <1>5, <1>7, <1>8 DEF Spending

LEMMA ResetBooks ==
  ASSUME Books, NEW h \in Handlers, ResetAfterPayment(h)
  PROVE  FromFirst' /\ (missed' \/ Spending')
<1> DEFINE e == handler[h].ev
           t == handler[h].to
<1>1. /\ handler[h].pc = "reset" /\ To(h, "mark")
      /\ UNCHANGED <<stripe, sent, stash, completed, entitled, missed>>
  BY DEF ResetAfterPayment
<1>2. /\ t \in Tiers /\ (PlanChanges = {} => t = FirstTier)
      /\ sub.latest \in PlanChanges => t # sub.tier
  BY <1>1, EventOf DEF Books, Billing, HandlersFit, HandlerFits, FromFirst
<1>3. FromFirst' /\ PlanChanges' = PlanChanges /\ sub' = sub
  BY <1>1, ToMark
<1>4. CASE UNCHANGED <<bucket, spent, left>>
  BY <1>1, <1>3, <1>4, SameBooks DEF Books
<1>5. CASE ~UNCHANGED <<bucket, spent, left>>
  <2>1. PICK n : n = [exists |-> TRUE, tokens |-> TierMax[t], allocation |-> TierMax[t],
                      trans |-> [type |-> "paid", at |-> inv[e.inv].paidAt, inv |-> e.inv]]
    OBVIOUS
  <2>2. /\ bucket' = [bucket EXCEPT ![t] = n]
        /\ spent' = IF t \in left \ {sub.tier} THEN spent ELSE 0
        /\ left' = left \ ({t} \cap {sub.tier})
    BY <1>5, <2>1 DEF ResetAfterPayment
  <2>3. n.exists /\ n.allocation \in 0..TierMax[t] /\ n.tokens = n.allocation
    BY <1>2, <2>1, BucketTypes DEF Books, Billing
  <2> QED BY <1>1, <1>2, <1>3, <2>2, <2>3, WrittenBooks DEF Books
<1> QED BY <1>4, <1>5

LEMMA FreezeBooks ==
  ASSUME Books, NEW h \in Handlers, Freeze(h)
  PROVE  FromFirst' /\ (missed' \/ Spending')
<1> DEFINE e == handler[h].ev
           t == handler[h].to
<1>1. /\ handler[h].pc = "freeze" /\ To(h, "mark")
      /\ UNCHANGED <<stripe, sent, stash, completed, entitled, missed, left>>
  BY DEF Freeze
<1>2. /\ t \in Tiers /\ (PlanChanges = {} => t = FirstTier)
      /\ sub.latest \in PlanChanges => t # sub.tier
  BY <1>1, EventOf DEF Books, Billing, HandlersFit, HandlerFits
<1>3. FromFirst' /\ PlanChanges' = PlanChanges /\ sub' = sub
  BY <1>1, ToMark
<1>4. CASE UNCHANGED <<bucket, spent>>
  BY <1>1, <1>3, <1>4, SameBooks DEF Books
<1>5. CASE ~UNCHANGED <<bucket, spent>>
  <2>0. PICK remaining : remaining = Remaining(bucket[t], TierMax[t])
    OBVIOUS
  <2>1. PICK n : n = [exists |-> TRUE, tokens |-> remaining, allocation |-> remaining,
                      trans |-> [type |-> "payment_failed", at |-> e.at, inv |-> e.inv]]
    OBVIOUS
  <2>2. /\ bucket' = [bucket EXCEPT ![t] = n]
        /\ spent' = IF t \in left \ {sub.tier} THEN spent ELSE 0
    BY <1>5, <2>0, <2>1 DEF Freeze
  <2>3. bucket[t].tokens \in Nat /\ bucket[t].allocation \in Nat \cup {-1} /\ TierMax[t] \in Nat
    BY <1>2, BucketTypes DEF Books, Billing
  <2>4. remaining \in 0..TierMax[t]
    BY <2>0, <2>3 DEF Remaining, Lesser, NoAllocation
  <2>5. n.exists /\ n.allocation \in 0..TierMax[t] /\ n.tokens = n.allocation
    BY <2>1, <2>4
  <2> QED BY <1>1, <1>2, <1>3, <2>2, <2>5, WrittenBooks DEF Books
<1> QED BY <1>4, <1>5

LEMMA StashBooks ==
  ASSUME Books, NEW h \in Handlers, Stash(h)
  PROVE  FromFirst' /\ (missed' \/ Spending')
<1>0. PICK e : e = handler[h].ev
  OBVIOUS
<1> USE <1>0
<1> DEFINE i == e.inv
           T == sub.tier
           F == FirstTier
<1>1. /\ handler[h].pc = "stash" /\ To(h, "invoice") /\ IInv
      /\ UNCHANGED <<stripe, sent, completed, entitled, spent, missed>>
  BY DEF Stash, Books, Billing
<1>2. e.kind = "updated" /\ i \in Invoices /\ EventFits(e) /\ e.from = F
  BY <1>1, EventOf DEF Books, Billing, IInv, EventsAreReal, EventsFit, FromFirst
<1>3. i \in PlanChanges /\ e.to = T /\ F # T /\ \A k \in PlanChanges : k = i
  BY <1>2, AtChange DEF EventFits, Books, Billing
<1>4. FromFirst' /\ PlanChanges' = PlanChanges /\ sub' = sub
  BY <1>1, ToMark
<1>5. /\ left' = left \cup {F} /\ NewBucket' = NewBucket /\ SpentAhead' = SpentAhead
  <2>1. bucket' = [bucket EXCEPT ![F] = NoBucket] /\ left' = left \cup {F}
    BY <1>2 DEF Stash
  <2> QED BY <1>1, <1>3, <1>4, <2>1, BucketTypes DEF NewBucket, SpentAhead
<1>6. ASSUME Spending PROVE Spending'
  <2>1. CASE completed[i]
    <3>1. Applied
      BY <1>3, <1>6, <2>1 DEF Spending
    <3> QED BY <1>1, <1>3, <1>4, <1>5, <2>1, <3>1 DEF Spending, Applied, Within
  <2>2. CASE ~completed[i] /\ stash[i] # NoState
    <3>1. Stashed(i) /\ stash' = stash
      BY <1>3, <1>6, <2>2 DEF Spending, Stash
    <3>2. Stashed(i)'
      BY <1>1, <1>4, <1>5, <3>1 DEF Stashed
    <3> QED BY <1>1, <1>3, <1>4, <2>2, <3>1, <3>2 DEF Spending
  <2>3. CASE ~completed[i] /\ stash[i] = NoState
    <3>1. Unstashed
      BY <1>3, <1>6, <2>3 DEF Spending
    <3>2. PICK b : b = bucket[F]
      OBVIOUS
    <3>3. b.exists /\ b.allocation \in 0..TierMax[F] /\ b.tokens <= b.allocation
          /\ b.tokens \in Nat /\ b.allocation # NoAllocation /\ TierMax[F] \in Nat
      BY <1>1, <3>1, <3>2, BucketTypes DEF Unstashed, Whole
    <3>4. Lesser(TierMax[F], b.allocation) = b.allocation
          /\ Lesser(b.allocation, b.tokens) = b.tokens
      BY <3>3 DEF Lesser
    <3>5. PICK s : s = [target |-> T, remaining |-> b.tokens, allocation |-> b.allocation,
                        cycle |-> sub.cycle]
      OBVIOUS
    <3>6. stash' = [stash EXCEPT ![i] = s]
      BY <1>2, <1>3, <2>3, <3>2, <3>3, <3>4, <3>5 DEF Stash
    <3>7. stash'[i] = s /\ s # NoState
      <4>1. T # NoTier
        BY <1>1, BucketTypes, Parameters
      <4> QED BY <1>1, <1>2, <3>5, <3>6, <4>1 DEF NoState, IInv, TypeOK
    <3>8. left' = {F} /\ spent' <= (s.allocation - s.remaining) + SpentAhead
          /\ s.remaining <= s.allocation
      BY <1>1, <1>5, <3>1, <3>2, <3>3, <3>5 DEF Unstashed
    <3>9. Stashed(i)'
      BY <1>4, <1>5, <3>1, <3>7, <3>8 DEF Stashed, Unstashed, Unallocated
    <3> QED BY <1>1, <1>3, <1>4, <2>3, <3>7, <3>9 DEF Spending
  <2> QED BY <2>1, <2>2, <2>3
<1> QED BY <1>1, <1>4, <1>6 DEF Books

LEMMA ApplyBooks ==
  ASSUME Books, NEW h \in Handlers, Apply(h)
  PROVE  FromFirst' /\ (missed' \/ Spending')
<1>0. PICK e, s : e = handler[h].ev /\ s = handler[h].raw
  OBVIOUS
<1> USE <1>0
<1> DEFINE i == e.inv
           T == sub.tier
           F == FirstTier
<1>1. /\ handler[h].pc = "apply" /\ To(h, "mark") /\ IInv
      /\ UNCHANGED <<stripe, sent, entitled, spent, missed>>
  BY DEF Apply, Books, Billing
<1>2. /\ i \in PlanChanges /\ handler[h].to = T /\ Holds(i, s) /\ s # NoState /\ s \in CarryOver
      /\ i \in Invoices
  BY <1>1, EventOf DEF Books, Billing, HandlersFit, HandlerFits, IInv, AppliesSomething
<1>3. F # T /\ \A k \in PlanChanges : k = i
  BY <1>2, AtChange DEF Books, Billing, FromFirst
<1>4. FromFirst' /\ PlanChanges' = PlanChanges /\ sub' = sub
  BY <1>1, ToMark
<1>5. ASSUME Spending PROVE missed' \/ Spending'
  <2>1. CASE ~StillClaimed(i, s)
    <3>1. completed[i] /\ UNCHANGED <<bucket, stash, completed, left>>
      BY <1>2, <2>1 DEF Holds, StillClaimed, Apply, redis
    <3> QED BY <1>1, <1>4, <1>5, <3>1, SameBooks
  <2>2. CASE StillClaimed(i, s)
    <3>1. stash[i] = s /\ ~completed[i] /\ Stashed(i)
      BY <1>1, <1>2, <1>5, <2>2 DEF StillClaimed, Spending, IInv, CompletedIsDone
    <3>2. PICK b, max : b = bucket[T] /\ max = TierMax[T]
      OBVIOUS
    <3>3. PICK n : n = [exists |-> TRUE, tokens |-> Carried(b, s, max),
                        allocation |-> NewAllocation(s, max), trans |-> NoTransition]
      OBVIOUS
    <3>4. /\ bucket' = [bucket EXCEPT ![T] = n] /\ left' = left \ {T}
          /\ completed' = [completed EXCEPT ![i] = TRUE]
      BY <1>2, <2>2, <3>2, <3>3 DEF Apply
    <3>5. NewBucket' = n /\ left' = {F} /\ completed'[i]
      BY <1>1, <1>2, <1>3, <1>4, <3>1, <3>4, BucketTypes DEF NewBucket, Stashed, IInv, TypeOK
    <3>6. SpentAhead \in Nat /\ SpentAhead = Provisional(b, max)
      BY <1>1, <3>1, <3>2, SpentAheadIs DEF Stashed, SpentAhead, NewBucket
    <3>7. n.allocation \in Nat /\ n.tokens = Greater(0, NewRemaining(s, max) - SpentAhead)
      BY <1>1, <1>2, <3>2, <3>3, <3>6, NewAllocationType, BucketTypes DEF Carried
    <3>8. NewRemaining(s, max) = Greater(0, n.allocation - (s.allocation - s.remaining))
      BY <3>3 DEF NewRemaining
    <3>9. n.tokens = 0 \/ n.tokens + spent <= n.allocation
      <4>1. /\ s.remaining \in Nat /\ s.allocation \in Nat /\ spent \in Nat
            /\ spent <= (s.allocation - s.remaining) + SpentAhead
        BY <1>1, <1>2, <3>1, BucketTypes DEF CarryOver, Stashed
      <4> QED BY <3>6, <3>7, <3>8, <4>1 DEF Greater
    <3>10. Applied'
      BY <1>1, <3>5, <3>7, <3>9 DEF Applied, Within, NoAllocation
    <3> QED BY <1>2, <1>3, <1>4, <3>5, <3>10 DEF Spending
  <2> QED BY <2>1, <2>2
<1> QED BY <1>1, <1>4, <1>5 DEF Books

-----------------------------------------------------------------------------
\* The theorem on what is spent.

LEMMA InitBooks == Init => Books
<1> SUFFICES ASSUME Init PROVE Books
  OBVIOUS
<1>1. Billing /\ PlanChanges = {}
  BY InitFits DEF Init, PlanChanges
<1>2. \A h \in Handlers : handler[h].ev.kind = "none" /\ handler[h].pc = "idle"
  BY DEF Init, Idle, NoEvent
<1>3. FromFirst
  BY <1>1, <1>2 DEF FromFirst, Init
<1>4. bucket[FirstTier].exists /\ bucket[FirstTier].allocation = TierMax[FirstTier]
      /\ bucket[FirstTier].tokens = TierMax[FirstTier] /\ TierMax[FirstTier] \in Nat
  BY Parameters DEF Init, FreshBucket, NoBucket
<1>5. \A t \in Tiers \ {FirstTier} : ~bucket[t].exists
  BY DEF Init, NoBucket
<1>6. Before
  BY <1>4, <1>5 DEF Before, Whole, Init
<1> QED BY <1>1, <1>3, <1>6 DEF Books, Spending

LEMMA BooksStep ==
  ASSUME OneChange
  PROVE  Books /\ [Next]_vars => Books'
<1> SUFFICES ASSUME Books, [Next]_vars PROVE FromFirst' /\ (missed' \/ Spending')
  BY BillingStep DEF Books
<1>1. CASE UNCHANGED vars \/ Entitle \/ Spend
  BY <1>1, EntitleBooks, SpendBooks
<1>2. ASSUME NEW i \in Invoices, Renew(i) \/ ChargeAgain(i) \/ PayChange(i)
      PROVE  FromFirst' /\ (missed' \/ Spending')
  BY <1>2, ChargeBooks
<1>3. ASSUME NEW i \in Invoices, NEW t \in Tiers, ChangePlan(i, t)
      PROVE  FromFirst' /\ (missed' \/ Spending')
  BY <1>3, ChangePlanBooks
<1>4. ASSUME NEW h \in Handlers, Handle(h)
      PROVE  FromFirst' /\ (missed' \/ Spending')
  BY <1>4, HandleBooks, ResetBooks, FreezeBooks, StashBooks, ApplyBooks DEF Handle
<1> QED BY <1>1, <1>2, <1>3, <1>4 DEF Next

\* While the plan is changed at most once: once every event is answered, what is left in
\* the bucket and what was spent in its cycle are within its allocation, whatever the
\* tiers' credits, the share of the cycle that is left, and the points spent from either
\* bucket while the change was under way.
THEOREM NothingIsMinted == OneChange => (Spec => []NothingMinted)
<1> SUFFICES ASSUME OneChange PROVE Spec => []NothingMinted
  OBVIOUS
<1>1. Books => NothingMinted
  <2> SUFFICES ASSUME Books, Settled, ~missed, NewBucket.allocation # NoAllocation
               PROVE  Within(NewBucket)
    BY DEF NothingMinted, NewBucket, Within
  <2>1. Spending /\ StripeFits /\ IInv
    BY DEF Books, Billing
  <2>2. CASE PlanChanges = {}
    <3>1. Before /\ NewBucket = bucket[FirstTier]
      BY <2>1, <2>2 DEF Spending, StripeFits, NewBucket
    <3> QED BY <2>1, <3>1, BucketTypes DEF Before, Whole, Within
  <2>3. ASSUME NEW i \in PlanChanges PROVE Within(NewBucket)
    <3>1. CASE completed[i]
      BY <2>1, <3>1 DEF Spending, Applied
    <3>2. CASE ~completed[i]
      BY <2>1, <3>2 DEF Spending, Unstashed, Stashed, Unallocated
    <3> QED BY <3>1, <3>2
  <2> QED BY <2>2, <2>3
<1>2. Init => Books
  BY InitBooks
<1>3. Books /\ [Next]_vars => Books'
  BY BooksStep
<1> QED BY <1>1, <1>2, <1>3, PTL DEF Spec

=============================================================================
