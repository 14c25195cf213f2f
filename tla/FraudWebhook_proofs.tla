------------------------ MODULE FraudWebhook_proofs ------------------------
(***************************************************************************)
(* Proofs about FraudWebhook: a completed event is enforced, whatever the  *)
(* number of deliveries and the points at which they die; and, when no     *)
(* delivery outlives its claim, one delivery handles an event at a time.   *)
(***************************************************************************)
EXTENDS FraudWebhook, TLAPS

LEMMA InitType == Init => TypeOK
<1> SUFFICES ASSUME Init PROVE TypeOK
  OBVIOUS
<1>1. Idle \in Work /\ Idle.pc = "idle" /\ Idle.event = NoEvent /\ Idle.todo = {}
  BY FraudAssumption DEF Idle, Work, PCs
<1>2. \A d \in Delivery : work[d] = Idle
  BY DEF Init
<1>3. work \in [Delivery -> Work]
  BY <1>1 DEF Init
<1>4. \A d \in Delivery :
        /\ work[d].pc = "idle" <=> work[d].event = NoEvent
        /\ work[d].todo \subseteq Loop(work[d].pc)
  BY <1>1, <1>2
<1>5. /\ refunded \in 0..Charge
      /\ failures \in 0..MaxFailures
  BY FraudAssumption DEF Init
<1> QED BY <1>3, <1>4, <1>5 DEF Init, TypeOK

\* A delivery that moves on within its event, with what its new loop allows.
LEMMA MoveType ==
  ASSUME TypeOK, NEW d \in Delivery, NEW w \in Work,
         w.pc # "idle", w.event \in Event, w.todo \subseteq Loop(w.pc),
         work' = [work EXCEPT ![d] = w]
  PROVE  /\ work' \in [Delivery -> Work]
         /\ \A f \in Delivery :
              /\ work'[f].pc = "idle" <=> work'[f].event = NoEvent
              /\ work'[f].todo \subseteq Loop(work'[f].pc)
BY FraudAssumption DEF TypeOK

LEMMA LeaveType ==
  ASSUME TypeOK, NEW d \in Delivery, Leave(d)
  PROVE  /\ work' \in [Delivery -> Work]
         /\ \A f \in Delivery :
              /\ work'[f].pc = "idle" <=> work'[f].event = NoEvent
              /\ work'[f].todo \subseteq Loop(work'[f].pc)
<1>1. Idle \in Work
  BY FraudAssumption DEF Idle, Work, PCs
<1> QED BY <1>1 DEF Leave, Idle, TypeOK

\* A delivery without anything left to do goes to a step outside the loops, or
\* to the start of a loop.
LEMMA GotoType ==
  ASSUME TypeOK, NEW d \in Delivery, NEW pc \in PCs \ {"idle"},
         work[d].pc # "idle", work[d].todo = {}, Goto(d, pc)
  PROVE  /\ work' \in [Delivery -> Work]
         /\ \A f \in Delivery :
              /\ work'[f].pc = "idle" <=> work'[f].event = NoEvent
              /\ work'[f].todo \subseteq Loop(work'[f].pc)
<1> DEFINE w == [work[d] EXCEPT !.pc = pc]
<1>1. w \in Work /\ w.event = work[d].event /\ w.todo = {} /\ w.pc = pc
  BY DEF TypeOK, Work
<1>2. work' = [work EXCEPT ![d] = w]
  BY DEF Goto, TypeOK
<1>3. w.event \in Event
  BY <1>1 DEF TypeOK, Work
<1> HIDE DEF w
<1> QED BY <1>1, <1>2, <1>3, MoveType

LEMMA EventType ==
  ASSUME TypeOK, NEW d \in Delivery, work[d].pc # "idle"
  PROVE  work[d] \in Work /\ work[d].event \in Event
BY DEF TypeOK, Work

\* Outside the loops a delivery has nothing left to do.
LEMMA NothingToDo ==
  ASSUME TypeOK, NEW d \in Delivery,
         work[d].pc \notin {"cancel", "detach", "suspend"}
  PROVE  work[d].todo = {}
BY DEF TypeOK, Loop

LEMMA NextType == TypeOK /\ [Next]_vars => TypeOK'
<1> SUFFICES ASSUME TypeOK, [Next]_vars PROVE TypeOK'
  OBVIOUS
<1> USE DEF stripeVars
<1>1. ASSUME NEW e \in Event, Occur(e) PROVE TypeOK'
  BY <1>1 DEF Occur, TypeOK
<1>2. ASSUME NEW e \in Event, GoesStale(e) PROVE TypeOK'
  BY <1>2 DEF GoesStale, TypeOK
<1>3. ASSUME NEW x \in Item, Create(x) PROVE TypeOK'
  BY <1>3 DEF Create, TypeOK
<1>4. CASE PartialRefund
  <2>1. refunded' \in 0..Charge
    BY <1>4, FraudAssumption DEF PartialRefund, TypeOK
  <2> QED BY <1>4, <2>1 DEF PartialRefund, TypeOK
<1>5. ASSUME NEW d \in Delivery, NEW e \in Event, Deliver(d, e) PROVE TypeOK'
  <2> DEFINE w == [Idle EXCEPT !.pc = "claim", !.event = e]
  <2>0. 0 \in 0..Charge
    BY FraudAssumption
  <2>1. w \in Work /\ w.pc # "idle" /\ w.event \in Event /\ w.todo = {}
    BY <2>0 DEF Idle, Work, PCs
  <2>2. work' = [work EXCEPT ![d] = w]
    BY <1>5 DEF Deliver
  <2> HIDE DEF w
  <2>3. work' \in [Delivery -> Work] /\ \A f \in Delivery :
              /\ work'[f].pc = "idle" <=> work'[f].event = NoEvent
              /\ work'[f].todo \subseteq Loop(work'[f].pc)
    BY <2>1, <2>2, MoveType
  <2> QED BY <1>5, <2>3 DEF Deliver, TypeOK
<1>6. ASSUME NEW d \in Delivery, Step(d) \/ Abort(d) PROVE TypeOK'
  <2> DEFINE WorkOK == /\ work' \in [Delivery -> Work]
                       /\ \A f \in Delivery :
                            /\ work'[f].pc = "idle" <=> work'[f].event = NoEvent
                            /\ work'[f].todo \subseteq Loop(work'[f].pc)
  <2>0. work[d].pc # "idle"
    BY <1>6 DEF Step, Abort, Claim, RetrieveCharge, Refund, Refresh, RefundRest,
       List, Remove, RemovedAll, Mark, FindUsers, Suspend, SuspendedAll, Finalize
  <2> DEFINE e == work[d].event
  <2>e. work[d] \in Work /\ e \in Event
    BY <2>0, EventType
  <2>1. CASE Claim(d)
    <3>1. WorkOK
      <4>1. work[d].todo = {}
        BY <2>1, NothingToDo DEF Claim
      <4>2. Goto(d, "charge") \/ Leave(d)
        BY <2>1 DEF Claim, Acknowledge
      <4> QED BY <2>0, <4>1, <4>2, GotoType, LeaveType DEF PCs
    <3> QED BY <2>1, <2>e, <3>1 DEF Claim, Acknowledge, TypeOK
  <2>2. CASE RetrieveCharge(d)
    <3> DEFINE w == [work[d] EXCEPT !.pc = "refund", !.seen = Refundable]
    <3>1. work[d].todo = {}
      BY <2>2, NothingToDo DEF RetrieveCharge
    <3>2. Refundable \in 0..Charge
      BY FraudAssumption DEF TypeOK, Refundable
    <3>3. w \in Work /\ w.pc # "idle" /\ w.event \in Event /\ w.todo = {}
      BY <2>e, <3>1, <3>2 DEF Work, PCs
    <3>4. work' = [work EXCEPT ![d] = w] \/ Goto(d, "listSubs")
      BY <2>2 DEF RetrieveCharge, TypeOK
    <3> HIDE DEF w
    <3>5. WorkOK
      BY <2>0, <3>1, <3>3, <3>4, GotoType, MoveType DEF PCs
    <3> QED BY <2>2, <3>5 DEF RetrieveCharge, TypeOK
  <2>3. CASE Refund(d) \/ RefundRest(d)
    <3>1. work[d].todo = {}
      BY <2>3, NothingToDo DEF Refund, RefundRest
    <3>2. Goto(d, "listSubs") \/ Goto(d, "refresh") \/ Leave(d)
      BY <2>3 DEF Refund, RefundRest, RefundRequest, Goto, Leave, TypeOK
    <3>3. WorkOK
      BY <2>0, <3>1, <3>2, GotoType, LeaveType DEF PCs
    <3>4. /\ <<e, "first", work[d].seen>> \in Key
          /\ <<e, "remaining", work[d].seen>> \in Key
          /\ work[d].seen \in 0..Charge
      BY <2>e DEF Work, Key
    <3>a. \/ UNCHANGED <<refunded, keys>>
          \/ /\ work[d].seen <= Refundable
             /\ refunded' = refunded + work[d].seen
             /\ \E key \in Key : keys' = keys \cup {key}
      BY <2>3, <3>4 DEF Refund, RefundRest, RefundRequest
    <3>5. refunded' \in 0..Charge /\ keys' \subseteq Key
      <4>1. refunded \in 0..Charge /\ keys \subseteq Key /\ Charge \in Nat
        BY FraudAssumption DEF TypeOK
      <4> QED BY <3>a, <3>4, <4>1 DEF Refundable
    <3> QED BY <2>3, <3>3, <3>5 DEF Refund, RefundRest, RefundRequest, TypeOK
  <2>4. CASE Refresh(d)
    <3> DEFINE w == [work[d] EXCEPT !.pc = "refundRest", !.seen = Refundable]
    <3>1. work[d].todo = {}
      BY <2>4, NothingToDo DEF Refresh
    <3>2. Refundable \in 0..Charge
      BY FraudAssumption DEF TypeOK, Refundable
    <3>3. w \in Work /\ w.pc # "idle" /\ w.event \in Event /\ w.todo = {}
      BY <2>e, <3>1, <3>2 DEF Work, PCs
    <3>4. work' = [work EXCEPT ![d] = w] \/ Goto(d, "listSubs")
      BY <2>4 DEF Refresh, TypeOK
    <3> HIDE DEF w
    <3>5. WorkOK
      BY <2>0, <3>1, <3>3, <3>4, GotoType, MoveType DEF PCs
    <3> QED BY <2>4, <3>5 DEF Refresh, TypeOK
  <2>5. CASE List(d)
    <3>0. PICK to \in {"cancel", "detach"} : \E left \in SUBSET Loop(to) :
            work' = [work EXCEPT ![d].pc = to, ![d].todo = left]
      BY <2>5 DEF List, Predating, Loop
    <3>1. PICK left \in SUBSET Loop(to) :
            work' = [work EXCEPT ![d].pc = to, ![d].todo = left]
      BY <3>0
    <3> DEFINE w == [work[d] EXCEPT !.pc = to, !.todo = left]
    <3>2. w \in Work /\ w.pc # "idle" /\ w.event \in Event
          /\ w.todo \subseteq Loop(w.pc)
      BY <2>e, <3>1 DEF Work, PCs, Loop, Item
    <3>3. work' = [work EXCEPT ![d] = w]
      BY <3>1 DEF TypeOK
    <3> HIDE DEF w
    <3>4. WorkOK
      BY <3>2, <3>3, MoveType
    <3> QED BY <2>5, <3>4 DEF List, TypeOK
  <2>6. CASE Remove(d) \/ Suspend(d)
    <3>1. PICK x \in work[d].todo :
            /\ work' = [work EXCEPT ![d].todo = @ \ {x}]
            /\ \/ /\ Remove(d) /\ work[d].pc \in {"cancel", "detach"}
                  /\ items' = [items EXCEPT ![x] = "gone"]
               \/ /\ Suspend(d) /\ work[d].pc = "suspend"
                  /\ suspension' = [suspension EXCEPT ![e][x] = "active"]
      BY <2>6 DEF Remove, Suspend
    <3> DEFINE w == [work[d] EXCEPT !.todo = @ \ {x}]
    <3>2. w \in Work /\ w.pc # "idle" /\ w.event \in Event
          /\ w.todo \subseteq Loop(w.pc)
      BY <2>0, <2>e DEF Work, TypeOK
    <3>3. work' = [work EXCEPT ![d] = w]
      BY <3>1 DEF TypeOK
    <3> HIDE DEF w
    <3>4. WorkOK
      BY <3>2, <3>3, MoveType
    <3>5. CASE Remove(d)
      BY <3>1, <3>4, <3>5 DEF Remove, TypeOK
    <3>6. CASE Suspend(d)
      <4>1. x \in User \/ work[d].pc # "suspend"
        BY <2>e DEF TypeOK, Loop
      <4>2. /\ suspension' = [suspension EXCEPT ![e][x] = "active"]
            /\ work[d].pc = "suspend"
        BY <3>1, <3>6 DEF Suspend, Remove
      <4>3. suspension' \in [Event -> [User -> {"none", "active", "resolved"}]]
        BY <4>1, <4>2, <2>e DEF TypeOK
      <4> QED BY <3>4, <3>6, <4>3 DEF Suspend, TypeOK
    <3> QED BY <2>6, <3>5, <3>6
  <2>7. CASE RemovedAll(d) \/ SuspendedAll(d)
    <3>1. work[d].todo = {}
      BY <2>7 DEF RemovedAll, SuspendedAll
    <3>2. \E pc \in PCs \ {"idle"} : Goto(d, pc)
      BY <2>7 DEF RemovedAll, SuspendedAll, PCs
    <3>3. WorkOK
      BY <2>0, <3>1, <3>2, GotoType
    <3> QED BY <2>7, <3>3 DEF RemovedAll, SuspendedAll, TypeOK
  <2>8. CASE Mark(d)
    <3>1. work[d].todo = {}
      BY <2>8, NothingToDo DEF Mark
    <3>2. WorkOK
      BY <2>0, <2>8, <3>1, GotoType DEF Mark, PCs
    <3> QED BY <2>8, <3>2 DEF Mark, TypeOK
  <2>9. CASE FindUsers(d)
    <3>1. PICK found \in {User, {}} :
            work' = [work EXCEPT ![d].pc = "suspend", ![d].todo = found]
      BY <2>9 DEF FindUsers
    <3> DEFINE w == [work[d] EXCEPT !.pc = "suspend", !.todo = found]
    <3>2. w \in Work /\ w.pc # "idle" /\ w.event \in Event
          /\ w.todo \subseteq Loop(w.pc)
      BY <2>e, <3>1 DEF Work, PCs, Loop
    <3>3. work' = [work EXCEPT ![d] = w]
      BY <3>1 DEF TypeOK
    <3> HIDE DEF w
    <3>4. WorkOK
      BY <3>2, <3>3, MoveType
    <3> QED BY <2>9, <3>4 DEF FindUsers, TypeOK
  <2>10. CASE Finalize(d)
    <3>1. WorkOK
      BY <2>10, LeaveType DEF Finalize, Acknowledge
    <3> QED BY <2>10, <2>e, <3>1 DEF Finalize, Acknowledge, TypeOK
  <2>11. CASE Abort(d)
    <3>1. WorkOK
      BY <2>11, LeaveType DEF Abort
    <3>2. failures' \in 0..MaxFailures
      BY <2>11, FraudAssumption DEF Abort, TypeOK
    <3> QED BY <2>11, <3>1, <3>2 DEF Abort, TypeOK
  <2> QED BY <1>6, <2>1, <2>2, <2>3, <2>4, <2>5, <2>6, <2>7, <2>8, <2>9, <2>10,
             <2>11 DEF Step
<1>7. ASSUME NEW e \in Event, NEW u \in User, Resolve(e, u) PROVE TypeOK'
  BY <1>7 DEF Resolve, TypeOK
<1>8. CASE UNCHANGED vars
  BY <1>8 DEF vars, TypeOK
<1> QED BY <1>1, <1>2, <1>3, <1>4, <1>5, <1>6, <1>7, <1>8 DEF Next

\* The type invariant, for any number of events, deliveries, items and users.
THEOREM TypeCorrect == Spec => []TypeOK
BY InitType, NextType, PTL DEF Spec
-----------------------------------------------------------------------------
\* What no step undoes: events stay, items that an event is to remove do not
\* come back, and money that went back stays with the customer.
Progress ==
  /\ occurred \subseteq occurred'
  /\ \A e \in occurred, K \in {Sub, Card, Item} :
       Predating(e, K)' \subseteq Predating(e, K)
  /\ refunded <= refunded'
  /\ blocked => blocked'

LEMMA StepProgress == TypeOK /\ [Next]_vars => Progress
<1> SUFFICES ASSUME TypeOK, [Next]_vars PROVE Progress
  OBVIOUS
<1> USE DEF stripeVars, Progress, Predating
<1>0. refunded \in Nat /\ refunded <= refunded
  BY FraudAssumption DEF TypeOK
<1>1. ASSUME NEW e \in Event, Occur(e) PROVE Progress
  BY <1>0, <1>1 DEF Occur
<1>2. ASSUME NEW e \in Event, GoesStale(e) PROVE Progress
  BY <1>0, <1>2 DEF GoesStale
<1>3. ASSUME NEW x \in Item, Create(x) PROVE Progress
  <2>1. ASSUME NEW e \in occurred, NEW K \in {Sub, Card, Item},
               NEW y \in K, items'[y] = "live", e \notin later'[y]
        PROVE  items[y] = "live" /\ e \notin later[y]
    <3>1. y \in Item
      BY DEF Item
    <3>2. later'[x] = occurred
      BY <1>3 DEF Create, TypeOK
    <3>3. y # x
      BY <2>1, <3>2
    <3> QED BY <1>3, <2>1, <3>1, <3>3 DEF Create, TypeOK
  <2> QED BY <1>0, <1>3, <2>1 DEF Create
<1>4. CASE PartialRefund
  BY <1>0, <1>4 DEF PartialRefund
<1>5. ASSUME NEW d \in Delivery, NEW e \in Event, Deliver(d, e) PROVE Progress
  BY <1>0, <1>5 DEF Deliver
<1>6. ASSUME NEW d \in Delivery, Step(d) PROVE Progress
  <2>1. CASE Claim(d)
    BY <1>0, <2>1 DEF Claim, Acknowledge
  <2>2. CASE RetrieveCharge(d)
    BY <1>0, <2>2 DEF RetrieveCharge
  <2>3. CASE Refund(d) \/ RefundRest(d)
    <3>1. work[d].seen \in Nat
      BY FraudAssumption DEF TypeOK, Work
    <3>2. refunded' = refunded \/ refunded' = refunded + work[d].seen
      BY <2>3 DEF Refund, RefundRest, RefundRequest
    <3>3. refunded <= refunded'
      BY <1>0, <3>1, <3>2
    <3> QED BY <2>3, <3>3 DEF Refund, RefundRest, RefundRequest
  <2>4. CASE Refresh(d)
    BY <1>0, <2>4 DEF Refresh
  <2>5. CASE List(d)
    BY <1>0, <2>5 DEF List
  <2>6. CASE Remove(d)
    <3>1. PICK x \in work[d].todo : items' = [items EXCEPT ![x] = "gone"]
      BY <2>6 DEF Remove
    <3>2. \A y \in Item : items'[y] = "live" => items[y] = "live"
      BY <3>1 DEF TypeOK
    <3> QED BY <1>0, <2>6, <3>2 DEF Remove, Item
  <2>7. CASE RemovedAll(d) \/ SuspendedAll(d) \/ Mark(d) \/ FindUsers(d)
             \/ Suspend(d) \/ Finalize(d)
    BY <1>0, <2>7 DEF RemovedAll, SuspendedAll, Mark, FindUsers, Suspend,
                      Finalize, Acknowledge
  <2> QED BY <1>6, <2>1, <2>2, <2>3, <2>4, <2>5, <2>6, <2>7 DEF Step
<1>7. ASSUME NEW d \in Delivery, Abort(d) PROVE Progress
  BY <1>0, <1>7 DEF Abort
<1>8. ASSUME NEW e \in Event, NEW u \in User, Resolve(e, u) PROVE Progress
  BY <1>0, <1>8 DEF Resolve
<1>9. CASE UNCHANGED vars
  BY <1>0, <1>9 DEF vars
<1> QED BY <1>1, <1>2, <1>3, <1>4, <1>5, <1>6, <1>7, <1>8, <1>9 DEF Next

\* Money: Stripe never gives back more than the charge.
LEMMA RefundedKept ==
  ASSUME TypeOK, TypeOK', Progress, refunded = Charge \/ DisputeOpen
  PROVE  refunded' = Charge \/ DisputeOpen'
BY FraudAssumption DEF TypeOK, Progress, DisputeOpen

LEMMA EnforcedKept ==
  ASSUME TypeOK, TypeOK', Progress, NEW e \in occurred, Enforced(e)
  PROVE  Enforced(e)'
<1>1. Predating(e, Item)' \subseteq Predating(e, Item)
  BY DEF Progress
<1>2. Predating(e, Item)' = {}
  BY <1>1 DEF Enforced
<1> QED BY <1>2, RefundedKept DEF Enforced, Progress

LEMMA LessLeft ==
  \A c \in Nat : \A a, b \in 0..c :
    a <= b => c - b <= c - a /\ c - a \in Nat /\ c - b \in Nat
OBVIOUS

\* A delivery that does not move loses nothing.
LEMMA AchievedKept ==
  ASSUME TypeOK, TypeOK', Progress, NEW d \in Delivery, Achieved(d),
         work'[d] = work[d]
  PROVE  Achieved(d)'
<1>0. PICK pc, e, seen, todo :
        /\ pc = work[d].pc /\ e = work[d].event
        /\ seen = work[d].seen /\ todo = work[d].todo
        /\ pc = work'[d].pc /\ e = work'[d].event
        /\ seen = work'[d].seen /\ todo = work'[d].todo
  OBVIOUS
<1>1. CASE pc = "idle"
  BY <1>0, <1>1 DEF Achieved, AfterMark, AfterCards, AfterSubs, AfterRefund
<1>2. CASE pc # "idle"
  <2>1. e \in occurred /\ e \in occurred'
    BY <1>0, <1>2 DEF Achieved, Progress
  <2>2. /\ Predating(e, Sub)' \subseteq Predating(e, Sub)
        /\ Predating(e, Card)' \subseteq Predating(e, Card)
    BY <2>1 DEF Progress
  <2>3. Refundable' <= Refundable /\ Refundable \in Nat /\ Refundable' \in Nat
    <3>1. refunded \in 0..Charge /\ refunded' \in 0..Charge /\ Charge \in Nat
      BY FraudAssumption DEF TypeOK
    <3>2. refunded <= refunded'
      BY DEF Progress
    <3>3. /\ Charge - refunded' <= Charge - refunded
          /\ Charge - refunded \in Nat /\ Charge - refunded' \in Nat
      BY <3>1, <3>2, LessLeft
    <3> QED BY <3>3 DEF Refundable
  <2>4. pc \in {"refund", "refundRest"} => Refundable' <= seen
    <3>1. seen \in Nat
      BY <1>0, FraudAssumption DEF TypeOK, Work
    <3>2. pc \in {"refund", "refundRest"} => Refundable <= seen
      BY <1>0 DEF Achieved
    <3> QED BY <2>3, <3>1, <3>2
  <2>5. pc \in AfterRefund /\ e \in Warning => refunded' = Charge \/ DisputeOpen'
    BY <1>0, RefundedKept DEF Achieved
  <2>6. /\ pc = "cancel" => Predating(e, Sub)' \subseteq todo
        /\ pc \in AfterSubs => Predating(e, Sub)' = {}
        /\ pc = "detach" => Predating(e, Card)' \subseteq todo
        /\ pc \in AfterCards => Predating(e, Card)' = {}
    BY <1>0, <2>2 DEF Achieved
  <2>7. pc \in AfterMark /\ e \in Blocking => blocked'
    BY <1>0 DEF Achieved, Progress
  <2> QED BY <1>0, <2>1, <2>4, <2>5, <2>6, <2>7 DEF Achieved
<1> QED BY <1>1, <1>2
\* An event becomes completed only when a delivery of it is finalized.
LEMMA CompletedBy ==
  ASSUME TypeOK, [Next]_vars, NEW e \in Event, claim'[e] = "completed",
         claim[e] # "completed"
  PROVE  \E d \in Delivery : work[d].pc = "finalize" /\ work[d].event = e
<1> USE DEF stripeVars
<1>1. ASSUME NEW d \in Delivery, Claim(d) PROVE FALSE
  BY <1>1 DEF Claim, TypeOK
<1>2. ASSUME NEW f \in Event, GoesStale(f) PROVE FALSE
  BY <1>2 DEF GoesStale, TypeOK
<1>3. ASSUME NEW d \in Delivery, Finalize(d)
      PROVE  work[d].pc = "finalize" /\ work[d].event = e
  BY <1>3 DEF Finalize, TypeOK
<1>4. ASSUME UNCHANGED claim PROVE FALSE
  BY <1>4
<1> QED BY <1>1, <1>2, <1>3, <1>4
        DEF Next, vars, Step, Occur, Create, PartialRefund, Deliver,
            RetrieveCharge, Refund, RefundRest, RefundRequest, Refresh, List,
            Remove, RemovedAll, Mark, FindUsers, Suspend, SuspendedAll, Abort,
            Resolve

LEMMA CompletedKept ==
  ASSUME IInv, TypeOK', Progress, [Next]_vars
  PROVE  CompletedOccurred' /\ CompletedIsEnforced'
<1> SUFFICES ASSUME NEW e \in Event, claim'[e] = "completed"
             PROVE  e \in occurred' /\ Enforced(e)'
  BY DEF CompletedOccurred, CompletedIsEnforced
<1>1. e \in occurred /\ Enforced(e)
  <2>1. CASE claim[e] = "completed"
    BY <2>1 DEF IInv, CompletedOccurred, CompletedIsEnforced
  <2>2. CASE claim[e] # "completed"
    <3>1. PICK d \in Delivery : work[d].pc = "finalize" /\ work[d].event = e
      BY <2>2, CompletedBy DEF IInv
    <3>2. Achieved(d)
      BY DEF IInv
    <3>3. /\ e \in occurred
          /\ e \in Warning => refunded = Charge \/ DisputeOpen
          /\ Predating(e, Sub) = {} /\ Predating(e, Card) = {}
          /\ e \in Blocking => blocked
      BY <3>1, <3>2
         DEF Achieved, AfterMark, AfterCards, AfterSubs, AfterRefund
    <3>4. Predating(e, Item) = {}
      BY <3>3 DEF Predating, Item
    <3> QED BY <3>3, <3>4 DEF Enforced
  <2> QED BY <2>1, <2>2
<1> QED BY <1>1, EnforcedKept DEF IInv, Progress

\* An accepted refund took all that was left; only then is there a key.
LEMMA RefundsKept ==
  ASSUME IInv, TypeOK', Progress, [Next]_vars
  PROVE  RefundsAreFull'
<1> SUFFICES ASSUME keys' # {} PROVE refunded' = Charge
  BY DEF RefundsAreFull
<1>1. refunded \in 0..Charge /\ refunded' \in 0..Charge /\ Charge \in Nat
  BY FraudAssumption DEF IInv, TypeOK
<1>2. CASE keys # {}
  BY <1>1, <1>2 DEF IInv, RefundsAreFull, Progress
<1>3. CASE keys = {}
  <2>1. PICK d \in Delivery : Refund(d) \/ RefundRest(d)
    BY <1>3 DEF Next, vars, stripeVars, Step, Occur, GoesStale, Create,
       PartialRefund, Deliver, Claim, RetrieveCharge, Refresh, List, Remove,
       RemovedAll, Mark, FindUsers, Suspend, SuspendedAll, Finalize, Abort,
       Resolve
  <2>2. work[d].seen \in Nat /\ Refundable <= work[d].seen
    <3>1. Achieved(d)
      BY DEF IInv
    <3> QED BY <2>1, <3>1, FraudAssumption
            DEF Achieved, Refund, RefundRest, IInv, TypeOK, Work
  <2>3. work[d].seen <= Refundable /\ refunded' = refunded + work[d].seen
    BY <1>3, <2>1 DEF Refund, RefundRest, RefundRequest
  <2> QED BY <1>1, <2>2, <2>3 DEF Refundable
<1> QED BY <1>2, <1>3
LEMMA IdleAchieves ==
  ASSUME TypeOK, NEW d \in Delivery, Leave(d)
  PROVE  Achieved(d)'
<1>1. work'[d].pc = "idle"
  BY DEF Leave, Idle, TypeOK
<1> QED BY <1>1 DEF Achieved, AfterMark, AfterCards, AfterSubs, AfterRefund

\* A delivery that takes a step achieves what the next one relies on.
LEMMA MovedAchieves ==
  ASSUME IInv, TypeOK', Progress, NEW d \in Delivery, Step(d)
  PROVE  Achieved(d)'
<1> USE DEF stripeVars
<1>0. TypeOK /\ Achieved(d)
  BY DEF IInv
<1>1. PICK e : e = work[d].event
  OBVIOUS
<1>2. work[d].pc # "idle"
  BY DEF Step, Claim, RetrieveCharge, Refund, Refresh, RefundRest, List,
     Remove, RemovedAll, Mark, FindUsers, Suspend, SuspendedAll, Finalize
<1>3. e \in occurred /\ e \in occurred'
  BY <1>0, <1>1, <1>2 DEF Achieved, Progress
<1>4. /\ Predating(e, Sub)' \subseteq Predating(e, Sub)
      /\ Predating(e, Card)' \subseteq Predating(e, Card)
  BY <1>3 DEF Progress
<1>5. refunded = Charge \/ DisputeOpen => refunded' = Charge \/ DisputeOpen'
  BY <1>0, RefundedKept
<1>6. blocked => blocked'
  BY DEF Progress
<1>7. /\ refunded \in 0..Charge /\ Charge \in Nat
      /\ Refundable \in Nat /\ (Refundable <= 0 => refunded = Charge)
  BY <1>0, FraudAssumption DEF TypeOK, Refundable
<1>8. CASE Claim(d)
  <2>1. CASE Goto(d, "charge")
    <3>1. work'[d].pc = "charge" /\ work'[d].event = e
      BY <1>0, <1>1, <2>1 DEF Goto, TypeOK, Work
    <3> QED BY <1>3, <3>1
            DEF Achieved, AfterMark, AfterCards, AfterSubs, AfterRefund
  <2>2. CASE Leave(d)
    BY <1>0, <2>2, IdleAchieves
  <2> QED BY <1>8, <2>1, <2>2 DEF Claim, Acknowledge
<1>9. CASE RetrieveCharge(d) \/ Refresh(d)
  <2>1. Refundable' = Refundable
    BY <1>9 DEF RetrieveCharge, Refresh, Refundable
  <2>2. work'[d].event = e
    BY <1>0, <1>1, <1>9 DEF RetrieveCharge, Refresh, Goto, TypeOK, Work
  <2>3. CASE /\ work'[d].pc \in {"refund", "refundRest"}
             /\ work'[d].seen = Refundable
    BY <1>3, <1>7, <2>1, <2>2, <2>3
       DEF Achieved, AfterMark, AfterCards, AfterSubs, AfterRefund
  <2>4. CASE /\ work'[d].pc = "listSubs"
             /\ e \in Warning => Refundable <= 0
    BY <1>3, <1>5, <1>7, <2>2, <2>4
       DEF Achieved, AfterMark, AfterCards, AfterSubs, AfterRefund
  <2>5. \/ /\ work'[d].pc \in {"refund", "refundRest"}
           /\ work'[d].seen = Refundable
        \/ /\ work'[d].pc = "listSubs"
           /\ e \in Warning => Refundable <= 0
    BY <1>0, <1>1, <1>7, <1>9 DEF RetrieveCharge, Refresh, Goto, TypeOK, Work
  <2> QED BY <2>3, <2>4, <2>5
<1>10. CASE Refund(d) \/ RefundRest(d)
  <2>1. CASE Leave(d)
    BY <1>0, <2>1, IdleAchieves
  <2>2. CASE Goto(d, "listSubs")
    <3>1. work'[d].pc = "listSubs" /\ work'[d].event = e
      BY <1>0, <1>1, <2>2 DEF Goto, TypeOK, Work
    <3>2. Refundable <= work[d].seen /\ work[d].seen \in Nat
      BY <1>0, <1>7, <1>10 DEF Achieved, Refund, RefundRest, TypeOK, Work
    <3>3. refunded = Charge \/ DisputeOpen \/ refunded' = Charge
      <4>1. CASE keys # {}
        BY <4>1 DEF IInv, RefundsAreFull
      <4>2. CASE keys = {}
        <5>1. \/ DisputeOpen \/ refunded = Charge
              \/ /\ work[d].seen <= Refundable
                 /\ refunded' = refunded + work[d].seen
              \/ Goto(d, "refresh") \/ Leave(d)
          BY <4>2, <1>0, <1>10
             DEF Refund, RefundRest, RefundRequest, Goto, Leave, TypeOK
        <5>2. ~Goto(d, "refresh") /\ ~Leave(d)
          BY <1>0, <3>1 DEF Goto, Leave, Idle, TypeOK, Work
        <5>3. CASE /\ work[d].seen <= Refundable
                   /\ refunded' = refunded + work[d].seen
          BY <1>7, <3>2, <5>3 DEF Refundable
        <5> QED BY <5>1, <5>2, <5>3
      <4> QED BY <4>1, <4>2
    <3> QED BY <1>3, <1>5, <3>1, <3>3
            DEF Achieved, AfterMark, AfterCards, AfterSubs, AfterRefund
  <2>3. CASE Goto(d, "refresh")
    <3>1. work'[d].pc = "refresh" /\ work'[d].event = e
      BY <1>0, <1>1, <2>3 DEF Goto, TypeOK, Work
    <3> QED BY <1>3, <3>1
            DEF Achieved, AfterMark, AfterCards, AfterSubs, AfterRefund
  <2> QED BY <1>0, <1>10, <2>1, <2>2, <2>3
          DEF Refund, RefundRest, RefundRequest, Goto, Leave, TypeOK
<1>11. CASE List(d)
  <2>1. /\ Predating(e, Sub)' = Predating(e, Sub)
        /\ Predating(e, Card)' = Predating(e, Card)
    BY <1>11 DEF List, Predating
  <2>2. CASE /\ work[d].pc = "listSubs"
             /\ work'[d].pc = "cancel" /\ work'[d].event = e
             /\ work'[d].todo = Predating(e, Sub)
    BY <1>0, <1>1, <1>3, <1>5, <2>1, <2>2
       DEF Achieved, AfterMark, AfterCards, AfterSubs, AfterRefund
  <2>3. CASE /\ work[d].pc = "listCards"
             /\ work'[d].pc = "detach" /\ work'[d].event = e
             /\ work'[d].todo = Predating(e, Card)
    BY <1>0, <1>1, <1>3, <1>5, <2>1, <2>3
       DEF Achieved, AfterMark, AfterCards, AfterSubs, AfterRefund
  <2> QED BY <1>0, <1>1, <1>11, <2>2, <2>3 DEF List, TypeOK, Work
<1>12. CASE Remove(d)
  <2>1. PICK x \in work[d].todo :
          /\ items' = [items EXCEPT ![x] = "gone"]
          /\ work' = [work EXCEPT ![d].todo = @ \ {x}]
    BY <1>12 DEF Remove
  <2>2. /\ work'[d].pc = work[d].pc /\ work'[d].event = e
        /\ work'[d].todo = work[d].todo \ {x}
    BY <1>0, <1>1, <2>1 DEF TypeOK, Work
  <2>3. x \notin Predating(e, Sub)' /\ x \notin Predating(e, Card)'
    BY <1>0, <2>1 DEF Predating, TypeOK, Item
  <2>4. work[d].pc \in {"cancel", "detach"}
    BY <1>12 DEF Remove
  <2> QED BY <1>0, <1>1, <1>3, <1>4, <1>5, <2>2, <2>3, <2>4
          DEF Achieved, AfterMark, AfterCards, AfterSubs, AfterRefund
<1>13. CASE RemovedAll(d)
  <2>1. /\ work[d].todo = {}
        /\ \/ work[d].pc = "cancel" /\ work'[d].pc = "listCards"
           \/ work[d].pc = "detach"
              /\ work'[d].pc = IF e \in Blocking THEN "mark" ELSE "users"
    BY <1>0, <1>1, <1>13 DEF RemovedAll, Goto, TypeOK, Work
  <2>2. work'[d].event = e
    BY <1>0, <1>1, <1>13 DEF RemovedAll, Goto, TypeOK, Work
  <2> QED BY <1>0, <1>1, <1>3, <1>4, <1>5, <2>1, <2>2
          DEF Achieved, AfterMark, AfterCards, AfterSubs, AfterRefund
<1>14. CASE Mark(d) \/ FindUsers(d) \/ Suspend(d) \/ SuspendedAll(d)
  <2>0. work[d] \in Work /\ d \in DOMAIN work
    BY <1>0 DEF TypeOK
  <2>1. /\ work[d].pc \in {"mark", "users", "suspend"}
        /\ work'[d].pc \in AfterMark /\ work'[d].event = e
    <3>1. CASE Mark(d) \/ SuspendedAll(d)
      BY <2>0, <1>1, <3>1 DEF Mark, SuspendedAll, Goto, Work, AfterMark
    <3>2. CASE FindUsers(d)
      BY <2>0, <1>1, <3>2 DEF FindUsers, Work, AfterMark
    <3>3. CASE Suspend(d)
      BY <2>0, <1>1, <3>3 DEF Suspend, Work, AfterMark
    <3> QED BY <1>14, <3>1, <3>2, <3>3
  <2>2. blocked' \/ work[d].pc \in AfterMark
    BY <1>14, <2>1
       DEF Mark, FindUsers, Suspend, SuspendedAll, AfterMark
  <2> QED BY <1>0, <1>1, <1>3, <1>4, <1>5, <1>6, <2>1, <2>2
          DEF Achieved, AfterMark, AfterCards, AfterSubs, AfterRefund
<1>15. CASE Finalize(d)
  BY <1>0, <1>15, IdleAchieves DEF Finalize, Acknowledge
<1> QED BY <1>8, <1>9, <1>10, <1>11, <1>12, <1>13, <1>14, <1>15 DEF Step

LEMMA AllAchieve ==
  ASSUME IInv, TypeOK', Progress, [Next]_vars, NEW d \in Delivery
  PROVE  Achieved(d)'
<1> USE DEF stripeVars
<1>0. TypeOK /\ Achieved(d)
  BY DEF IInv
<1>1. CASE Step(d)
  BY <1>1, MovedAchieves
<1>2. CASE Abort(d)
  BY <1>0, <1>2, IdleAchieves DEF Abort
<1>3. ASSUME NEW e \in Event, Deliver(d, e) PROVE Achieved(d)'
  <2>1. work'[d].pc = "claim" /\ work'[d].event = e
    BY <1>0, <1>3 DEF Deliver, Idle, TypeOK
  <2>2. e \in occurred'
    BY <1>3 DEF Deliver
  <2> QED BY <2>1, <2>2
          DEF Achieved, AfterMark, AfterCards, AfterSubs, AfterRefund
<1>4. CASE work'[d] = work[d]
  BY <1>0, <1>4, AchievedKept
<1>5. ASSUME NEW f \in Delivery \ {d}, Step(f) \/ Abort(f)
      PROVE  work'[d] = work[d]
  BY <1>0, <1>5
     DEF Step, Claim, RetrieveCharge, Refund, RefundRest, RefundRequest,
         Refresh, List, Remove, RemovedAll, Mark, FindUsers, Suspend,
         SuspendedAll, Finalize, Abort, Acknowledge, Goto, Leave, TypeOK
<1>6. ASSUME NEW f \in Delivery \ {d}, NEW e \in Event, Deliver(f, e)
      PROVE  work'[d] = work[d]
  BY <1>0, <1>6 DEF Deliver, TypeOK
<1>7. CASE UNCHANGED work
  BY <1>7, <1>4
<1>8. \/ \E f \in Delivery : Step(f) \/ Abort(f)
      \/ \E f \in Delivery, e \in Event : Deliver(f, e)
      \/ UNCHANGED work
  BY DEF Next, vars, Occur, GoesStale, Create, PartialRefund, Resolve
<1> QED BY <1>1, <1>2, <1>3, <1>4, <1>5, <1>6, <1>7, <1>8
\* The inductive invariant.
LEMMA Invariant == Spec => []IInv
<1>1. Init => IInv
  <2> SUFFICES ASSUME Init PROVE IInv
    OBVIOUS
  <2>1. \A d \in Delivery : work[d].pc = "idle"
    BY DEF Init, Idle
  <2>2. \A d \in Delivery : Achieved(d)
    BY <2>1 DEF Achieved, AfterMark, AfterCards, AfterSubs, AfterRefund
  <2>3. RefundsAreFull /\ CompletedOccurred /\ CompletedIsEnforced
    BY DEF Init, RefundsAreFull, CompletedOccurred, CompletedIsEnforced
  <2> QED BY <2>2, <2>3, InitType DEF IInv
<1>2. IInv /\ [Next]_vars => IInv'
  <2> SUFFICES ASSUME IInv, [Next]_vars PROVE IInv'
    OBVIOUS
  <2>1. TypeOK' /\ Progress
    BY NextType, StepProgress DEF IInv
  <2> QED BY <2>1, CompletedKept, RefundsKept, AllAchieve DEF IInv
<1> QED BY <1>1, <1>2, PTL DEF Spec

\* A completed event is enforced, however its deliveries died or overlapped.
THEOREM Enforcement == Spec => []CompletedIsEnforced
<1>1. IInv => CompletedIsEnforced
  BY DEF IInv
<1> QED BY <1>1, Invariant, PTL

-----------------------------------------------------------------------------
\* When no delivery outlives its claim, a delivery past its claim holds it, and
\* no other delivery of the event is past its own.
LEMMA HoldersKept ==
  ASSUME ~Overrun, TypeOK, HoldersHold, OneHandler, [Next]_vars
  PROVE  HoldersHold' /\ OneHandler'
<1> USE DEF stripeVars
<1> DEFINE Out(f) == work[f].pc \in {"idle", "claim"}
<1>1. ASSUME NEW d \in Delivery, Claim(d) PROVE HoldersHold' /\ OneHandler'
  <2>1. CASE claim[work[d].event] \in {"none", "stale"}
    <3>1. \A f \in Delivery : work[f].event = work[d].event => Out(f)
      BY <2>1 DEF HoldersHold
    <3>2. /\ claim' = [claim EXCEPT ![work[d].event] = "pending"]
          /\ work' = [work EXCEPT ![d].pc = "charge"]
      BY <1>1, <2>1 DEF Claim, Goto
    <3>3. work[d].event \in Event /\ work'[d].event = work[d].event
      BY <1>1, <3>2, EventType DEF Claim, TypeOK, Work
    <3>4. \A f \in Delivery \ {d} : work'[f] = work[f]
      BY <3>2 DEF TypeOK
    <3> QED BY <3>1, <3>2, <3>3, <3>4 DEF HoldersHold, OneHandler, TypeOK
  <2>2. CASE claim[work[d].event] \notin {"none", "stale"}
    <3>1. UNCHANGED claim /\ work' = [work EXCEPT ![d] = Idle]
      BY <1>1, <2>2 DEF Claim, Acknowledge, Leave
    <3> QED BY <3>1 DEF HoldersHold, OneHandler, Idle, TypeOK
  <2> QED BY <2>1, <2>2
<1>2. ASSUME NEW e \in Event, GoesStale(e) PROVE HoldersHold' /\ OneHandler'
  <2>1. \A f \in Delivery : work[f].event = e => Out(f)
    BY <1>2 DEF GoesStale
  <2> QED BY <1>2, <2>1 DEF GoesStale, HoldersHold, OneHandler, TypeOK
<1>3. ASSUME NEW d \in Delivery, NEW e \in Event, Deliver(d, e)
      PROVE  HoldersHold' /\ OneHandler'
  <2>1. work'[d].pc = "claim" /\ \A f \in Delivery \ {d} : work'[f] = work[f]
    BY <1>3 DEF Deliver, Idle, TypeOK
  <2> QED BY <1>3, <2>1 DEF Deliver, HoldersHold, OneHandler
<1>4. ASSUME NEW d \in Delivery, Finalize(d) PROVE HoldersHold' /\ OneHandler'
  <2>1. /\ work'[d].pc = "idle"
        /\ \A f \in Delivery \ {d} : work'[f] = work[f]
    BY <1>4 DEF Finalize, Acknowledge, Leave, Idle, TypeOK
  <2>2. \A f \in Delivery \ {d} : work[f].event = work[d].event => Out(f)
    BY <1>4 DEF Finalize, OneHandler
  <2>3. \A e \in Event : e # work[d].event => claim'[e] = claim[e]
    BY <1>4 DEF Finalize, TypeOK
  <2>4. \A f \in Delivery : ~Out(f) => work[f].event \in Event
    BY EventType
  <2> QED BY <2>1, <2>2, <2>3, <2>4 DEF HoldersHold, OneHandler
<1>5. ASSUME NEW d \in Delivery, UNCHANGED claim,
             \A f \in Delivery \ {d} : work'[f] = work[f],
             \/ work'[d].pc = "idle"
             \/ ~Out(d) /\ work'[d].event = work[d].event
      PROVE  HoldersHold' /\ OneHandler'
  BY <1>5 DEF HoldersHold, OneHandler
<1>6. ASSUME NEW d \in Delivery,
             \/ RetrieveCharge(d) \/ Refund(d) \/ Refresh(d) \/ RefundRest(d)
             \/ List(d) \/ Remove(d) \/ RemovedAll(d) \/ Mark(d)
             \/ FindUsers(d) \/ Suspend(d) \/ SuspendedAll(d) \/ Abort(d)
      PROVE  HoldersHold' /\ OneHandler'
  <2>1. /\ UNCHANGED claim
        /\ \A f \in Delivery \ {d} : work'[f] = work[f]
        /\ \/ work'[d].pc = "idle"
           \/ ~Out(d) /\ work'[d].event = work[d].event
    <3>0. work[d] \in Work /\ work \in [Delivery -> Work]
      BY DEF TypeOK
    <3>1. CASE RetrieveCharge(d) \/ Refresh(d)
      BY <3>0, <3>1 DEF RetrieveCharge, Refresh, Goto, Work
    <3>2. CASE Refund(d) \/ RefundRest(d)
      BY <3>0, <3>2 DEF Refund, RefundRest, RefundRequest, Goto, Idle, Work
    <3>3. CASE List(d) \/ RemovedAll(d)
      BY <3>0, <3>3 DEF List, RemovedAll, Goto, Work
    <3>4. CASE Remove(d) \/ Suspend(d)
      BY <3>0, <3>4 DEF Remove, Suspend, Work
    <3>5. CASE Mark(d) \/ FindUsers(d) \/ SuspendedAll(d)
      BY <3>0, <3>5 DEF Mark, FindUsers, SuspendedAll, Goto, Work
    <3>6. CASE Abort(d)
      BY <3>0, <3>6 DEF Abort, Leave, Idle
    <3> QED BY <1>6, <3>1, <3>2, <3>3, <3>4, <3>5, <3>6
  <2> QED BY <1>5, <2>1
<1>7. CASE UNCHANGED <<claim, work>>
  BY <1>7 DEF HoldersHold, OneHandler
<1> QED BY <1>1, <1>2, <1>3, <1>4, <1>6, <1>7
        DEF Next, Step, vars, Occur, Create, PartialRefund, Resolve

LEMMA HoldersInit == Init => HoldersHold /\ OneHandler
BY DEF Init, Idle, HoldersHold, OneHandler

\* No event is handled by two deliveries at once.
THEOREM OneAtATime == ASSUME ~Overrun PROVE Spec => []OneHandler
<1>1. Init => TypeOK /\ HoldersHold /\ OneHandler
  BY InitType, HoldersInit
<1>2. TypeOK /\ HoldersHold /\ OneHandler /\ [Next]_vars
        => TypeOK' /\ HoldersHold' /\ OneHandler'
  BY NextType, HoldersKept
<1> QED BY <1>1, <1>2, PTL DEF Spec

\* A redelivery of a completed event does not suspend again what support has
\* resolved.
THEOREM ResolvedIsKept == ASSUME ~Overrun PROVE Spec => ResolvedStays
<1> DEFINE Inv == TypeOK /\ HoldersHold
           A == \A e \in Event, u \in User :
                  /\ claim[e] = "completed"
                  /\ suspension[e][u] = "resolved"
                  => suspension'[e][u] = "resolved"
<1>1. Inv /\ [Next]_vars => A
  <2> SUFFICES ASSUME Inv, [Next]_vars, NEW e \in Event, NEW u \in User,
                      claim[e] = "completed", suspension[e][u] = "resolved"
               PROVE  suspension'[e][u] = "resolved"
    OBVIOUS
  <2>1. ASSUME NEW d \in Delivery, Suspend(d) PROVE suspension'[e][u] = "resolved"
    <3>1. claim[work[d].event] = "pending"
      BY <2>1 DEF Suspend, HoldersHold
    <3>2. work[d].event # e
      BY <3>1
    <3> QED BY <2>1, <3>2 DEF Suspend, TypeOK
  <2>2. ASSUME NEW f \in Event, NEW v \in User, Resolve(f, v)
        PROVE  suspension'[e][u] = "resolved"
    BY <2>2 DEF Resolve, TypeOK
  <2>3. CASE UNCHANGED suspension
    BY <2>3
  <2> QED BY <2>1, <2>2, <2>3
          DEF Next, Step, vars, Occur, GoesStale, Create, PartialRefund,
              Deliver, Claim, RetrieveCharge, Refund, RefundRest, RefundRequest,
              Refresh, List, Remove, RemovedAll, Mark, FindUsers, SuspendedAll,
              Finalize, Abort
<1>2. Init => TypeOK /\ HoldersHold /\ OneHandler
  BY InitType, HoldersInit
<1>3. TypeOK /\ HoldersHold /\ OneHandler /\ [Next]_vars
        => TypeOK' /\ HoldersHold' /\ OneHandler'
  BY NextType, HoldersKept
<1> QED BY <1>1, <1>2, <1>3, PTL DEF Spec, ResolvedStays

-----------------------------------------------------------------------------
\* What a loop is about to remove is older than the event it is removed for.
TodoIsOld ==
  \A d \in Delivery : work[d].pc \in {"cancel", "detach"} =>
    \A x \in work[d].todo : items[x] # "none" /\ work[d].event \notin later[x]

LEMMA TodoStaysOld ==
  ASSUME TypeOK, TodoIsOld, [Next]_vars
  PROVE  TodoIsOld'
<1> USE DEF stripeVars
<1> DEFINE Looping(f) == work[f].pc \in {"cancel", "detach"}
<1>1. ASSUME NEW d \in Delivery, Looping(d) PROVE work[d].todo \subseteq Item
  <2>1. work[d].todo \subseteq Loop(work[d].pc)
    BY DEF TypeOK
  <2> QED BY <1>1, <2>1 DEF Loop, Item
<1>2. ASSUME NEW x \in Item, Create(x) PROVE TodoIsOld'
  BY <1>1, <1>2 DEF Create, TodoIsOld, TypeOK
<1>3. ASSUME NEW d \in Delivery, UNCHANGED later,
             \A f \in Delivery \ {d} : work'[f] = work[f],
             \A x \in Item : items[x] # "none" => items'[x] # "none",
             work'[d].pc \in {"cancel", "detach"} =>
               \A x \in work'[d].todo : items'[x] # "none" /\ work'[d].event \notin later[x]
      PROVE  TodoIsOld'
  BY <1>1, <1>3 DEF TodoIsOld
<1>4. ASSUME NEW d \in Delivery, List(d) PROVE TodoIsOld'
  <2>1. /\ UNCHANGED <<items, later>>
        /\ work \in [Delivery -> Work]
        /\ work[d] \in Work
    BY <1>4 DEF List, TypeOK
  <2>2. CASE work[d].pc = "listSubs"
    <3>1. work' = [work EXCEPT ![d].pc = "cancel",
                               ![d].todo = Predating(work[d].event, Sub)]
      BY <1>4, <2>2 DEF List
    <3>2. /\ work'[d].todo = Predating(work[d].event, Sub)
          /\ work'[d].event = work[d].event
          /\ \A f \in Delivery \ {d} : work'[f] = work[f]
      BY <2>1, <3>1 DEF Work
    <3> QED BY <1>3, <2>1, <3>2 DEF Predating
  <2>3. CASE work[d].pc = "listCards"
    <3>1. work' = [work EXCEPT ![d].pc = "detach",
                               ![d].todo = Predating(work[d].event, Card)]
      BY <1>4, <2>3 DEF List
    <3>2. /\ work'[d].todo = Predating(work[d].event, Card)
          /\ work'[d].event = work[d].event
          /\ \A f \in Delivery \ {d} : work'[f] = work[f]
      BY <2>1, <3>1 DEF Work
    <3> QED BY <1>3, <2>1, <3>2 DEF Predating
  <2> QED BY <1>4, <2>2, <2>3 DEF List
<1>5. ASSUME NEW d \in Delivery, Remove(d) PROVE TodoIsOld'
  <2>1. PICK x \in work[d].todo :
          /\ items' = [items EXCEPT ![x] = "gone"]
          /\ work' = [work EXCEPT ![d].todo = @ \ {x}]
    BY <1>5 DEF Remove
  <2>2. /\ Looping(d) /\ UNCHANGED later
        /\ work \in [Delivery -> Work] /\ work[d] \in Work
        /\ items \in [Item -> {"none", "live", "gone"}]
    BY <1>5 DEF Remove, TypeOK
  <2>3. /\ work'[d].todo = work[d].todo \ {x}
        /\ work'[d].event = work[d].event
        /\ \A f \in Delivery \ {d} : work'[f] = work[f]
    BY <2>1, <2>2 DEF Work
  <2>4. \A y \in Item : items[y] # "none" => items'[y] # "none"
    BY <2>1, <2>2
  <2> QED BY <1>1, <1>3, <2>2, <2>3, <2>4 DEF TodoIsOld
<1>6. ASSUME NEW d \in Delivery, UNCHANGED <<items, later>>,
             \A f \in Delivery \ {d} : work'[f] = work[f],
             work'[d].pc \notin {"cancel", "detach"}
      PROVE  TodoIsOld'
  BY <1>3, <1>6
<1>7. ASSUME NEW d \in Delivery,
             \/ Claim(d) \/ RetrieveCharge(d) \/ Refund(d) \/ Refresh(d) \/ RefundRest(d)
             \/ RemovedAll(d) \/ Mark(d) \/ FindUsers(d) \/ Suspend(d)
             \/ SuspendedAll(d) \/ Finalize(d) \/ Abort(d)
      PROVE  TodoIsOld'
  <2>1. /\ UNCHANGED <<items, later>>
        /\ \A f \in Delivery \ {d} : work'[f] = work[f]
        /\ work'[d].pc \notin {"cancel", "detach"}
    <3>0. work[d] \in Work /\ work \in [Delivery -> Work]
      BY DEF TypeOK
    <3>1. CASE Claim(d) \/ Finalize(d)
      BY <3>0, <3>1 DEF Claim, Finalize, Acknowledge, Leave, Goto, Idle, Work
    <3>2. CASE Refund(d) \/ RefundRest(d)
      BY <3>0, <3>2 DEF Refund, RefundRest, RefundRequest, Goto, Idle, Work
    <3>3. CASE RemovedAll(d) \/ Suspend(d)
      BY <3>0, <3>3 DEF RemovedAll, Suspend, Goto, Work
    <3>4. CASE RetrieveCharge(d) \/ Refresh(d)
      BY <3>0, <3>4 DEF RetrieveCharge, Refresh, Goto, Work
    <3>5. CASE Mark(d) \/ FindUsers(d) \/ SuspendedAll(d)
      BY <3>0, <3>5 DEF Mark, FindUsers, SuspendedAll, Goto, Work
    <3>6. CASE Abort(d)
      BY <3>0, <3>6 DEF Abort, Leave, Idle
    <3> QED BY <1>7, <3>1, <3>2, <3>3, <3>4, <3>5, <3>6
  <2> QED BY <1>6, <2>1
<1>8. ASSUME NEW d \in Delivery, NEW e \in Event, Deliver(d, e) PROVE TodoIsOld'
  <2>1. /\ work'[d].pc = "claim" /\ UNCHANGED <<items, later>>
        /\ \A f \in Delivery \ {d} : work'[f] = work[f]
    BY <1>8 DEF Deliver, Idle, TypeOK
  <2> QED BY <1>6, <2>1
<1>9. CASE UNCHANGED <<items, later, work>>
  BY <1>9 DEF TodoIsOld
<1> QED BY <1>2, <1>4, <1>5, <1>7, <1>8, <1>9
        DEF Next, Step, vars, Occur, GoesStale, PartialRefund, Resolve

\* A delivery that is late or repeated leaves the subscriptions and the cards
\* alone that are newer than every event, also one that outlives its claim: what
\* its loops have left to do is older than its event (TodoIsOld).
THEOREM NewItemsStay == Spec => NewItemsAreKept
<1> DEFINE A == \A x \in Item :
                  items[x] = "live" /\ occurred \subseteq later[x] => items'[x] = "live"
<1>1. IInv /\ TodoIsOld /\ [Next]_vars => A
  <2> SUFFICES ASSUME IInv, TodoIsOld, [Next]_vars, NEW x \in Item,
                      items[x] = "live", occurred \subseteq later[x]
               PROVE  items'[x] = "live"
    OBVIOUS
  <2>1. TypeOK /\ \A d \in Delivery : Achieved(d)
    BY DEF IInv
  <2>2. ASSUME NEW d \in Delivery, Remove(d) PROVE items'[x] = "live"
    <3>1. work[d].event \in occurred
      BY <2>1, <2>2 DEF Remove, Achieved
    <3>2. x \notin work[d].todo
      BY <2>2, <3>1 DEF TodoIsOld, Remove
    <3> QED BY <2>1, <2>2, <3>2 DEF Remove, TypeOK
  <2>3. ASSUME NEW y \in Item, Create(y) PROVE items'[x] = "live"
    BY <2>1, <2>3 DEF Create, TypeOK
  <2>4. CASE UNCHANGED items
    BY <2>4
  <2> QED BY <2>2, <2>3, <2>4
          DEF Next, Step, vars, stripeVars, Occur, GoesStale, PartialRefund,
              Deliver, Claim, RetrieveCharge, Refund, RefundRest, RefundRequest,
              Refresh, List, RemovedAll, Mark, FindUsers, Suspend, SuspendedAll,
              Finalize, Abort, Resolve
<1>2. Init => TodoIsOld
  BY DEF Init, Idle, TodoIsOld
<1>3. IInv /\ TodoIsOld /\ [Next]_vars => TodoIsOld'
  BY TodoStaysOld DEF IInv
<1> QED BY <1>1, <1>2, <1>3, Invariant, PTL DEF Spec, NewItemsAreKept

\* A delivery that is late or repeated leaves alone what is newer than every
\* event, and what support has resolved; the latter needs that no delivery
\* outlives its claim.
THEOREM LateDeliveryIsHarmless == ASSUME ~Overrun PROVE Spec => LateDeliveryKeeps
BY NewItemsStay, ResolvedIsKept DEF LateDeliveryKeeps
=============================================================================
