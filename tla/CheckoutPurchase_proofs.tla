---------------------- MODULE CheckoutPurchase_proofs ----------------------
(***************************************************************************)
(* The purchases of extra usage for any sessions, requests and failures.   *)
(* The inductive invariant says of each place that can lead to addCredits  *)
(* (an event, a request, a mutation that runs late) that its session is    *)
(* paid for, and of the tables that they agree: the durable keys are those *)
(* of the credited sessions, the keys that are purged are some of them,    *)
(* and the trail says "credited" for the same personal ones.               *)
(***************************************************************************)
EXTENDS CheckoutPurchase, TLAPS

\* The tables, before and after each transaction.
TablesTyped ==
    /\ trail \in [Session -> Marks]
    /\ durable \subseteq Session /\ recent \subseteq Session
    /\ credits \in [Session -> Nat]
    /\ \A s \in Team : trail[s] = "none"

Agree ==
    /\ \A s \in Session : credits[s] \in {0, 1} /\ (credits[s] = 1 <=> s \in durable)
    /\ recent \subseteq durable
    /\ \A s \in Personal : trail[s] = "credited" <=> credits[s] = 1

\* A mutation that the routes may call: only addCredits marks a purchase
\* "credited", and only for a session that is paid for.
Callable(m) ==
    /\ m \in Mutation
    /\ m.op = "mark" => m.of \in Personal /\ m.as # "credited"
    /\ m.op = "credit" => stripe[m.of] = "paid"

RestTyped ==
    /\ stripe \in [Session -> Statuses]
    /\ sent \subseteq Event /\ due \subseteq sent
    /\ request \in [Request -> RequestState]
    /\ faults \in 0..MaxFaults

Justified ==
    /\ \A s \in Team : stripe[s] # "unpaid"
    /\ \A e \in sent : TakenForPaid(e) => stripe[e.of] = "paid"
    /\ \A e \in sent : e.of \in Team => e.type = "completed"
    /\ \A r \in Request :
          /\ request[r].pc # "idle" => request[r].of \in Session
          /\ request[r].pc \in {"seen", "credit"} => stripe[request[r].of] = "paid"
          /\ request[r].pc \in {"seen", "threw", "refused"} => request[r].of \in Personal
    /\ \A m \in late : Callable(m)

IInv == TablesTyped /\ Agree /\ RestTyped /\ Justified

-----------------------------------------------------------------------------
(* The mutations *)

\* A mutation leaves the tables typed and in agreement.
LEMMA RunAgrees ==
    ASSUME TablesTyped, Agree, NEW m, Callable(m), Run(m)
    PROVE  TablesTyped' /\ Agree'
<1> USE Sessions DEF TablesTyped, Agree, Callable, Mutation, Personal, Marks
<1>1. CASE m.op = "mark"
  <2>1. /\ trail' = Marked(trail, m.of, m.as)
        /\ UNCHANGED <<durable, recent, credits>>
        /\ m.of \in Personal /\ m.as # "credited" /\ m.as \in Marks
    BY <1>1 DEF Run, Mark
  <2> QED BY <2>1 DEF Marked
<1>2. CASE m.op = "credit"
  <2>1. AddCredits(m.of) /\ m.of \in Session BY <1>2 DEF Run
  <2>2. trail' = IF m.of \in Personal THEN Marked(trail, m.of, "credited") ELSE trail
    BY <2>1 DEF AddCredits
  <2>3. CASE m.of \in durable
    <3>1. UNCHANGED <<durable, recent, credits>> BY <2>1, <2>3 DEF AddCredits, Known
    <3>2. trail' = trail BY <2>1, <2>2, <2>3 DEF Marked
    <3> QED BY <3>1, <3>2
  <2>4. CASE m.of \notin durable
    <3>1. /\ credits' = [credits EXCEPT ![m.of] = @ + 1]
          /\ durable' = durable \cup {m.of}
          /\ recent' = recent \cup {m.of}
      BY <2>1, <2>4 DEF AddCredits, Known
    <3>2. credits[m.of] = 0 /\ credits'[m.of] = 1 BY <2>1, <2>4, <3>1
    <3>3. \A s \in Session \ {m.of} : credits'[s] = credits[s] BY <3>1
    <3>4. m.of \in Personal => trail'[m.of] = "credited" BY <2>1, <2>2 DEF Marked
    <3>5. \A s \in Session \ {m.of} : trail'[s] = trail[s] BY <2>2 DEF Marked
    <3>6. trail' \in [Session -> Marks] BY <2>1, <2>2 DEF Marked
    <3>7. \A s \in Team : trail'[s] = "none" BY <2>1, <2>2, <3>5 DEF Marked
    <3>8. TablesTyped'
      <4>1. credits' \in [Session -> Nat] BY <2>1, <3>1
      <4>2. durable' \subseteq Session /\ recent' \subseteq Session BY <2>1, <3>1
      <4> QED BY <3>6, <3>7, <4>1, <4>2
    <3>9. Agree'
      <4>1. \A s \in Session : credits'[s] \in {0, 1} /\ (credits'[s] = 1 <=> s \in durable')
        BY <2>1, <3>1, <3>2, <3>3
      <4>2. recent' \subseteq durable' BY <3>1
      <4>3. ASSUME NEW s \in Personal PROVE trail'[s] = "credited" <=> credits'[s] = 1
        <5>1. CASE s = m.of BY <5>1, <3>2, <3>4
        <5>2. CASE s # m.of
          <6>1. trail'[s] = trail[s] /\ credits'[s] = credits[s] BY <5>2, <3>3, <3>5
          <6> QED BY <6>1
        <5> QED BY <5>1, <5>2
      <4> QED BY <4>1, <4>2, <4>3
    <3> QED BY <3>8, <3>9
  <2> QED BY <2>3, <2>4
<1> QED BY <1>1, <1>2

\* What a mutation does to the wallets, as the ledger sees it.
Credits(m) ==
    \/ UNCHANGED credits
    \/ /\ m.op = "credit" /\ credits[m.of] = 0
       /\ credits' = [credits EXCEPT ![m.of] = 1]

LEMMA RunCredits ==
    ASSUME TablesTyped, Agree, NEW m, Callable(m), Run(m)
    PROVE  Credits(m)
BY DEF TablesTyped, Agree, Callable, Mutation, Run, Mark, AddCredits, Known, Credits

\* The same of a mutation that is called, whether it is answered or throws.
LEMMA CallAgrees ==
    ASSUME IInv, NEW m, Callable(m), Answered(m) \/ Throws(m)
    PROVE  /\ TablesTyped' /\ Agree' /\ Credits(m)
           /\ late' \subseteq late \cup {m}
           /\ faults' \in 0..MaxFaults
<1>1. CASE Run(m)
  <2>1. TablesTyped' /\ Agree' /\ Credits(m)
    BY <1>1, RunAgrees, RunCredits DEF IInv
  <2>2. late' \subseteq late \cup {m} /\ faults' \in 0..MaxFaults
    BY Sessions DEF IInv, RestTyped, Answered, Throws
  <2> QED BY <2>1, <2>2
<1>2. CASE UNCHANGED tables /\ ~Run(m)
  <2>1. TablesTyped' /\ Agree' /\ Credits(m)
    BY <1>2 DEF IInv, TablesTyped, Agree, Credits, tables, Personal
  <2>2. late' \subseteq late \cup {m} /\ faults' \in 0..MaxFaults
    BY Sessions DEF IInv, RestTyped, Answered, Throws
  <2> QED BY <2>1, <2>2
<1> QED BY <1>1, <1>2 DEF Answered, Throws

\* Nothing that is called stops being callable: a session stays paid for.
LEMMA CallableStays ==
    ASSUME NEW m, Callable(m),
           \A s \in Session : stripe[s] = "paid" => stripe'[s] = "paid"
    PROVE  Callable(m)'
BY DEF Callable, Mutation

-----------------------------------------------------------------------------
(* Every step keeps the invariant *)

LEMMA InitIInv == Init => IInv
BY Sessions DEF Init, IInv, TablesTyped, Agree, RestTyped, Justified, Idle, RequestState,
                PCs, Marks, Statuses, Personal, NoEvent, Event

\* What the steps of the routes have in common: Stripe stays as it is, one
\* request moves on from a mutation that it may call, or ends.
LEMMA CallStep ==
    ASSUME IInv, NEW r \in Request, NEW m, Callable(m), Answered(m) \/ Throws(m),
           UNCHANGED <<stripe, sent>>, due' \subseteq due,
           NEW q \in RequestState, request' = [request EXCEPT ![r] = q],
           q.pc # "idle" => q.of \in Session,
           q.pc \in {"seen", "credit"} => stripe[q.of] = "paid",
           q.pc \in {"seen", "threw", "refused"} => q.of \in Personal
    PROVE  IInv' /\ Credits(m)
<1>1. /\ TablesTyped' /\ Agree' /\ Credits(m)
      /\ late' \subseteq late \cup {m}
      /\ faults' \in 0..MaxFaults
  BY CallAgrees
<1>2. RestTyped' BY <1>1 DEF IInv, RestTyped
<1>3. Justified'
  <2>1. \A n \in late' : Callable(n)' BY <1>1, CallableStays DEF IInv, Justified
  <2>2. \A e \in sent' : TakenForPaid(e)' => stripe'[e.of] = "paid"
    BY DEF IInv, Justified, TakenForPaid
  <2>3. \A x \in Request :
          /\ request'[x].pc # "idle" => request'[x].of \in Session
          /\ request'[x].pc \in {"seen", "credit"} => stripe'[request'[x].of] = "paid"
          /\ request'[x].pc \in {"seen", "threw", "refused"} => request'[x].of \in Personal
    BY DEF IInv, Justified, RestTyped
  <2> QED BY <2>1, <2>2, <2>3 DEF IInv, Justified
<1> QED BY <1>1, <1>2, <1>3 DEF IInv

\* The requests move to and from these states.
LEMMA RequestStates ==
    ASSUME IInv, NEW r \in Request
    PROVE  /\ Idle \in RequestState /\ Idle.pc = "idle"
           /\ \A pc \in PCs : /\ [request[r] EXCEPT !.pc = pc] \in RequestState
                             /\ [request[r] EXCEPT !.pc = pc].pc = pc
                             /\ [request[r] EXCEPT !.pc = pc].of = request[r].of
BY DEF IInv, RestTyped, Idle, RequestState, PCs

LEMMA PaidSeenInv ==
    ASSUME IInv, NEW r \in Request, PaidSeen(r)
    PROVE  IInv' /\ UNCHANGED <<stripe, credits>>
<1> DEFINE m == [op |-> "mark", of |-> request[r].of, as |-> "paid_seen"]
<1>1. request[r].pc = "seen" /\ Callable(m) /\ request[r].of \in Personal
      /\ stripe[request[r].of] = "paid" /\ request[r].of \in Session
  BY DEF PaidSeen, IInv, Justified, Callable, Mutation, Marks
<1>2. PICK pc \in {"credit", "threw"} : Goto(r, pc) BY DEF PaidSeen
<1>3. Answered(m) \/ Throws(m) BY DEF PaidSeen
<1>4. request' = [request EXCEPT ![r] = [request[r] EXCEPT !.pc = pc]] BY <1>2 DEF Goto, IInv, RestTyped
<1>5. UNCHANGED <<stripe, sent, due>> BY DEF PaidSeen
<1>6. IInv' /\ Credits(m)
  <2> DEFINE q == [request[r] EXCEPT !.pc = pc]
  <2>1. q \in RequestState /\ q.pc = pc /\ q.of = request[r].of BY <1>2, RequestStates DEF PCs
  <2> HIDE DEF m, q
  <2>2. request' = [request EXCEPT ![r] = q] BY <1>4 DEF q
  <2> QED BY CallStep, <1>1, <1>2, <1>3, <1>5, <2>1, <2>2
<1> QED BY <1>5, <1>6 DEF Credits

LEMMA CreditInv ==
    ASSUME IInv, NEW r \in Request, Credit(r)
    PROVE  IInv' /\ UNCHANGED stripe
           /\ \/ UNCHANGED credits
              \/ \E s \in Session : /\ stripe[s] = "paid" /\ credits[s] = 0
                                    /\ credits' = [credits EXCEPT ![s] = 1]
<1> DEFINE s == request[r].of
           m == [op |-> "credit", of |-> s, as |-> "credited"]
<1>1. Callable(m) /\ s \in Session /\ stripe[s] = "paid"
  BY DEF Credit, IInv, Justified, Callable, Mutation, Marks
<1>2. /\ UNCHANGED <<stripe, sent>> /\ due' \subseteq due
      /\ Answered(m) \/ Throws(m)
      /\ Ends(r) \/ (s \in Personal /\ Goto(r, "threw"))
  BY DEF Credit, Succeeds
<1>3. PICK q \in RequestState :
         /\ request' = [request EXCEPT ![r] = q]
         /\ q.pc = "idle" \/ (q.pc = "threw" /\ q.of = s /\ s \in Personal)
  <2>1. CASE Ends(r) BY <2>1, RequestStates DEF Ends
  <2>2. CASE s \in Personal /\ Goto(r, "threw")
    <3>1. request' = [request EXCEPT ![r] = [request[r] EXCEPT !.pc = "threw"]]
      BY <2>2 DEF Goto, IInv, RestTyped
    <3> QED BY <2>2, <3>1, RequestStates DEF PCs
  <2> QED BY <1>2, <2>1, <2>2
<1>4. m.of = s BY DEF m
<1> HIDE DEF m, s
<1>5. IInv' /\ Credits(m) BY CallStep, <1>1, <1>2, <1>3
<1> QED BY <1>1, <1>2, <1>4, <1>5 DEF Credits

LEMMA RecordInv ==
    ASSUME IInv, NEW r \in Request, RecordThrown(r) \/ RecordRefused(r)
    PROVE  IInv' /\ UNCHANGED <<stripe, credits>>
<1> DEFINE m == [op |-> "mark", of |-> request[r].of, as |-> "failed"]
<1>1. Callable(m)
  BY DEF RecordThrown, RecordRefused, IInv, Justified, Callable, Mutation, Marks
<1>2. /\ UNCHANGED <<stripe, sent>> /\ due' \subseteq due
      /\ Answered(m) \/ Throws(m)
      /\ request' = [request EXCEPT ![r] = Idle]
  BY DEF RecordThrown, RecordRefused, Ends, Succeeds
<1>3. m.op = "mark" BY DEF m
<1> HIDE DEF m
<1>4. IInv' /\ Credits(m) BY CallStep, <1>1, <1>2, RequestStates
<1> QED BY <1>2, <1>3, <1>4 DEF Credits

\* The steps of Stripe: a session that is paid for stays so, and the events
\* that are created are those of the state it enters.
LEMMA StripeStep ==
    ASSUME IInv, NEW s \in Session, NEW st \in Statuses,
           stripe' = [stripe EXCEPT ![s] = st], stripe[s] \in {"open", "unpaid"},
           NEW e \in Event, e.of = s,
           sent' = sent \cup {e}, due' = due \cup {e},
           TakenForPaid(e) => st = "paid",
           s \in Team => e.type = "completed" /\ st # "unpaid",
           UNCHANGED <<tables, request, late, faults>>
    PROVE  IInv'
<1>1. \A x \in Session : stripe[x] = "paid" => stripe'[x] = "paid" BY DEF IInv, RestTyped
<1>2. TablesTyped' /\ Agree' BY DEF IInv, TablesTyped, Agree, tables, Personal
<1>3. RestTyped' BY DEF IInv, RestTyped, Statuses
<1>4. Justified'
  <2>1. \A m \in late' : Callable(m)' BY <1>1, CallableStays DEF IInv, Justified
  <2>2. stripe'[s] = st BY DEF IInv, RestTyped
  <2>3. \A x \in sent' : TakenForPaid(x)' => stripe'[x.of] = "paid"
    <3>1. \A x \in sent : x.of \in Session BY DEF IInv, RestTyped, Event
    <3> QED BY <1>1, <2>2, <3>1 DEF IInv, Justified, TakenForPaid
  <2>4. \A x \in sent' : x.of \in Team => x.type = "completed" BY DEF IInv, Justified
  <2>5. \A x \in Request :
          /\ request'[x].pc # "idle" => request'[x].of \in Session
          /\ request'[x].pc \in {"seen", "credit"} => stripe'[request'[x].of] = "paid"
          /\ request'[x].pc \in {"seen", "threw", "refused"} => request'[x].of \in Personal
    BY <1>1 DEF IInv, Justified
  <2>6. \A x \in Team : stripe'[x] # "unpaid"
    BY Sessions DEF IInv, Justified, RestTyped
  <2> QED BY <2>1, <2>3, <2>4, <2>5, <2>6 DEF Justified
<1> QED BY <1>2, <1>3, <1>4 DEF IInv

LEMMA CompleteInv ==
    ASSUME IInv, NEW s \in Session, Complete(s) \/ Settle(s)
    PROVE  /\ IInv' /\ UNCHANGED credits
           /\ Paid' \in {Paid, Paid \cup {s}}
<1>1. PICK st \in Statuses, e \in Event :
        /\ stripe' = [stripe EXCEPT ![s] = st] /\ stripe[s] \in {"open", "unpaid"}
        /\ e.of = s /\ sent' = sent \cup {e} /\ due' = due \cup {e}
        /\ TakenForPaid(e) => st = "paid"
        /\ s \in Team => e.type = "completed" /\ st # "unpaid"
        /\ UNCHANGED <<tables, request, late, faults>>
  <2> DEFINE ev(type, paid) == [of |-> s, type |-> type, paid |-> paid]
  <2>1. \A type \in {"completed", "succeeded", "failed"}, paid \in BOOLEAN : ev(type, paid) \in Event
    BY DEF Event
  <2>2. CASE Complete(s)
    <3>1. CASE stripe' = [stripe EXCEPT ![s] = "paid"] /\ Emits(s, "completed", TRUE)
      <4>1. "paid" \in Statuses /\ ev("completed", TRUE) \in Event BY <2>1 DEF Statuses
      <4> USE <4>1
      <4> WITNESS "paid" \in Statuses, ev("completed", TRUE) \in Event
      <4> QED BY <2>2, <3>1 DEF Complete, Emits
    <3>2. CASE s \in Delayed /\ stripe' = [stripe EXCEPT ![s] = "unpaid"] /\ Emits(s, "completed", FALSE)
      <4>1. "unpaid" \in Statuses /\ ev("completed", FALSE) \in Event BY <2>1 DEF Statuses
      <4> USE <4>1
      <4> WITNESS "unpaid" \in Statuses, ev("completed", FALSE) \in Event
      <4> QED BY <2>2, <3>2, Sessions DEF Complete, Emits, TakenForPaid
    <3> QED BY <2>2, <3>1, <3>2 DEF Complete
  <2>3. CASE Settle(s)
    <3>1. s \notin Team BY <2>3 DEF Settle, IInv, Justified
    <3>2. CASE stripe' = [stripe EXCEPT ![s] = "paid"] /\ Emits(s, "succeeded", TRUE)
      <4>1. "paid" \in Statuses /\ ev("succeeded", TRUE) \in Event BY <2>1 DEF Statuses
      <4> USE <4>1
      <4> WITNESS "paid" \in Statuses, ev("succeeded", TRUE) \in Event
      <4> QED BY <2>3, <3>1, <3>2 DEF Settle, Emits
    <3>3. CASE stripe' = [stripe EXCEPT ![s] = "failed"] /\ Emits(s, "failed", FALSE)
      <4>1. "failed" \in Statuses /\ ev("failed", FALSE) \in Event BY <2>1 DEF Statuses
      <4> USE <4>1
      <4> WITNESS "failed" \in Statuses, ev("failed", FALSE) \in Event
      <4> QED BY <2>3, <3>1, <3>3 DEF Settle, Emits, TakenForPaid
    <3> QED BY <2>3, <3>2, <3>3 DEF Settle
  <2> QED BY <2>2, <2>3
<1>2. IInv' BY <1>1, StripeStep
<1>3. UNCHANGED credits BY <1>1 DEF tables
<1>4. Paid' \in {Paid, Paid \cup {s}}
  <2>1. Paid' = IF st = "paid" THEN Paid \cup {s} ELSE Paid BY <1>1 DEF Paid, IInv, RestTyped
  <2> QED BY <2>1
<1> QED BY <1>2, <1>3, <1>4

\* A session is created, and its record with it, or late, or never.
LEMMA CreateInv ==
    ASSUME IInv, NEW s \in Session, Create(s)
    PROVE  IInv' /\ UNCHANGED <<Paid, credits>>
<1> DEFINE m == [op |-> "mark", of |-> s, as |-> "created"]
<1>1. /\ stripe[s] = "none" /\ stripe' = [stripe EXCEPT ![s] = "open"]
      /\ UNCHANGED <<sent, due, request>>
  BY DEF Create
<1>2. \A x \in Session : stripe[x] = "paid" <=> stripe'[x] = "paid" BY <1>1 DEF IInv, RestTyped
<1>3. /\ TablesTyped' /\ Agree' /\ UNCHANGED credits
      /\ \A n \in late' : Callable(n)
      /\ faults' \in 0..MaxFaults
  <2>1. CASE s \in Personal
    <3>1. Callable(m) /\ (Answered(m) \/ Throws(m))
      BY <2>1 DEF Create, Callable, Mutation, Marks
    <3>2. m.op = "mark" BY DEF m
    <3> HIDE DEF m
    <3> QED BY <3>1, <3>2, CallAgrees DEF Credits, IInv, Justified
  <2>2. CASE s \notin Personal
    BY <2>2 DEF Create, tables, IInv, TablesTyped, Agree, Personal, RestTyped, Justified
  <2> QED BY <2>1, <2>2
<1>4. RestTyped' BY <1>1, <1>3 DEF IInv, RestTyped, Statuses
<1>5. Justified'
  <2>1. \A n \in late' : Callable(n)' BY <1>2, <1>3, CallableStays
  <2>2. \A x \in sent : x.of \in Session BY DEF IInv, RestTyped, Event
  <2>3. \A x \in Team : stripe'[x] # "unpaid" BY <1>1, Sessions DEF IInv, RestTyped, Justified
  <2> QED BY <1>1, <1>2, <2>1, <2>2, <2>3 DEF IInv, Justified, TakenForPaid
<1>6. Paid' = Paid BY <1>2 DEF Paid
<1> QED BY <1>3, <1>4, <1>5, <1>6 DEF IInv

\* A request begins or ends without a mutation, or a key is purged.
LEMMA RequestStep ==
    ASSUME IInv, NEW r \in Request,
           UNCHANGED <<stripe, sent, tables, late>>, due' \subseteq due, faults' \in 0..MaxFaults,
           NEW q \in RequestState, request' = [request EXCEPT ![r] = q],
           q.pc # "idle" => q.of \in Session,
           q.pc \in {"seen", "credit"} => stripe[q.of] = "paid",
           q.pc \in {"seen", "threw", "refused"} => q.of \in Personal
    PROVE  IInv' /\ UNCHANGED <<Paid, credits>>
<1>1. TablesTyped' /\ Agree' BY DEF IInv, TablesTyped, Agree, tables, Personal
<1>2. RestTyped' BY DEF IInv, RestTyped
<1>3. Justified'
  <2>1. \A n \in late' : Callable(n)' BY DEF IInv, Justified, Callable
  <2> QED BY <2>1 DEF IInv, Justified, RestTyped, TakenForPaid
<1> QED BY <1>1, <1>2, <1>3 DEF IInv, Paid, tables

LEMMA ConfirmInv ==
    ASSUME IInv, NEW r \in Request, NEW s \in Session, Confirm(r, s)
    PROVE  IInv' /\ UNCHANGED <<Paid, credits>>
<1> DEFINE q == [pc |-> FirstStep(s), of |-> s, ev |-> NoEvent]
<1>1. /\ q \in RequestState /\ q.of = s /\ q.pc \in {"seen", "credit"}
      /\ q.pc = "seen" => s \in Personal
  BY DEF FirstStep, RequestState, PCs
<1>2. /\ stripe[s] = "paid" /\ request' = [request EXCEPT ![r] = q]
      /\ UNCHANGED <<stripe, sent, due, tables, late, faults>>
  BY DEF Confirm, Begins
<1>3. faults' \in 0..MaxFaults BY <1>2 DEF IInv, RestTyped
<1> HIDE DEF q
<1> QED BY <1>1, <1>2, <1>3, RequestStep

LEMMA DeliverInv ==
    ASSUME IInv, NEW r \in Request, NEW e \in sent, Deliver(r, e)
    PROVE  IInv' /\ UNCHANGED <<Paid, credits>>
<1>1. /\ UNCHANGED <<stripe, sent, tables, late, faults>>
      /\ due' \subseteq due
      /\ e \in Event /\ e.of \in Session
  BY DEF Deliver, IInv, RestTyped, Event
<1>2. faults' \in 0..MaxFaults BY <1>1 DEF IInv, RestTyped
<1>3. PICK q \in RequestState :
        /\ request' = [request EXCEPT ![r] = q]
        /\ q.pc # "idle" => q.of \in Session
        /\ q.pc \in {"seen", "credit"} => stripe[q.of] = "paid"
        /\ q.pc \in {"seen", "threw", "refused"} => q.of \in Personal
  <2>1. CASE e.type = "failed"
    <3> DEFINE p == [pc |-> "refused", of |-> e.of, ev |-> e]
    <3>1. p \in RequestState /\ e.of \in Personal
      BY <1>1, <2>1 DEF RequestState, PCs, IInv, Justified, Personal
    <3>2. request' = [request EXCEPT ![r] = p] BY <2>1 DEF Deliver, Begins
    <3> QED BY <1>1, <3>1, <3>2
  <2>2. CASE e.type # "failed" /\ TakenForPaid(e)
    <3> DEFINE p == [pc |-> FirstStep(e.of), of |-> e.of, ev |-> e]
    <3>1. p \in RequestState /\ p.pc \in {"seen", "credit"} /\ (p.pc = "seen" => e.of \in Personal)
      BY <1>1 DEF RequestState, PCs, FirstStep
    <3>2. request' = [request EXCEPT ![r] = p] BY <2>2 DEF Deliver, Begins
    <3>3. stripe[e.of] = "paid" BY <2>2 DEF IInv, Justified
    <3> QED BY <1>1, <3>1, <3>2, <3>3
  <2>3. CASE e.type # "failed" /\ ~TakenForPaid(e)
    <3>1. request[r] \in RequestState /\ request' = [request EXCEPT ![r] = request[r]]
      BY <2>3 DEF Deliver, IInv, RestTyped
    <3>2. request[r].pc = "idle" BY DEF Deliver
    <3> QED BY <3>1, <3>2
  <2> QED BY <2>1, <2>2, <2>3
<1> QED BY <1>1, <1>2, <1>3, RequestStep

LEMMA DieInv ==
    ASSUME IInv, NEW r \in Request, Die(r)
    PROVE  IInv' /\ UNCHANGED <<Paid, credits>>
<1>1. /\ UNCHANGED <<stripe, sent, due, tables, late>>
      /\ request' = [request EXCEPT ![r] = Idle]
  BY DEF Die, Ends
<1>2. faults' \in 0..MaxFaults BY Sessions DEF Die, IInv, RestTyped
<1> QED BY <1>1, <1>2, RequestStates, RequestStep

LEMMA PurgeInv ==
    ASSUME IInv, Purge
    PROVE  IInv' /\ UNCHANGED <<Paid, credits>>
BY DEF Purge, IInv, TablesTyped, Agree, RestTyped, Justified, Personal, Callable, TakenForPaid, Paid

LEMMA LateInv ==
    ASSUME IInv, LateMutation
    PROVE  IInv' /\ UNCHANGED Paid
           /\ \/ UNCHANGED credits
              \/ \E s \in Session : /\ stripe[s] = "paid" /\ credits[s] = 0
                                    /\ credits' = [credits EXCEPT ![s] = 1]
<1>1. PICK m \in late : /\ Run(m) /\ late' = late \ {m}
                        /\ UNCHANGED <<stripe, sent, due, request, faults>>
  BY DEF LateMutation
<1>2. Callable(m) /\ m.of \in Session BY DEF IInv, Justified, Callable, Mutation
<1>3. TablesTyped' /\ Agree' /\ Credits(m) BY <1>1, <1>2, RunAgrees, RunCredits DEF IInv
<1>4. RestTyped' BY <1>1 DEF IInv, RestTyped
<1>5. \A n \in late' : Callable(n)' BY <1>1 DEF IInv, Justified, Callable
<1>6. Justified' BY <1>1, <1>5 DEF IInv, Justified, TakenForPaid
<1> QED BY <1>1, <1>2, <1>3, <1>4, <1>6 DEF IInv, Credits, Callable, Paid

-----------------------------------------------------------------------------
(* The theorems *)

\* A step as the ledger sees it.
LedgerStep ==
    \/ UNCHANGED <<Paid, credits>>
    \/ \E s \in Session : /\ Paid' = Paid \cup {s}
                          /\ UNCHANGED credits
    \/ \E s \in Session : /\ s \in Paid /\ credits[s] = 0
                          /\ credits' = [credits EXCEPT ![s] = 1]
                          /\ UNCHANGED Paid

LEMMA NextInv ==
    ASSUME IInv, [Next]_vars
    PROVE  IInv' /\ LedgerStep
<1>1. CASE \E s \in Session : Create(s) BY <1>1, CreateInv DEF LedgerStep
<1>2. CASE \E s \in Session : Complete(s) \/ Settle(s) BY <1>2, CompleteInv DEF LedgerStep
<1>3. CASE \E r \in Request, s \in Session : Confirm(r, s) BY <1>3, ConfirmInv DEF LedgerStep
<1>4. CASE \E r \in Request, e \in sent : Deliver(r, e) BY <1>4, DeliverInv DEF LedgerStep
<1>5. CASE \E r \in Request : PaidSeen(r) BY <1>5, PaidSeenInv DEF LedgerStep, Paid
<1>6. CASE \E r \in Request : Credit(r) BY <1>6, CreditInv DEF LedgerStep, Paid
<1>7. CASE \E r \in Request : RecordThrown(r) \/ RecordRefused(r)
  BY <1>7, RecordInv DEF LedgerStep, Paid
<1>8. CASE \E r \in Request : Die(r) BY <1>8, DieInv DEF LedgerStep
<1>9. CASE LateMutation BY <1>9, LateInv DEF LedgerStep, Paid
<1>10. CASE Purge BY <1>10, PurgeInv DEF LedgerStep
<1>11. CASE UNCHANGED vars
  BY <1>11 DEF vars, tables, IInv, TablesTyped, Agree, RestTyped, Justified, Personal, Callable,
               TakenForPaid, Paid, LedgerStep
<1> QED BY <1>1, <1>2, <1>3, <1>4, <1>5, <1>6, <1>7, <1>8, <1>9, <1>10, <1>11 DEF Next, Step

THEOREM Inductive == Spec => []IInv
<1>1. IInv /\ [Next]_vars => IInv' BY NextInv
<1> QED BY <1>1, InitIInv, PTL DEF Spec

\* Types, and teams leave no trail.
THEOREM TypeCorrect == Spec => []TypeOK
<1>1. IInv => TypeOK
  BY DEF IInv, TablesTyped, RestTyped, Justified, Callable, TypeOK
<1> QED BY <1>1, Inductive, PTL

\* The trail says "credited" exactly when the wallet was credited.
THEOREM TrailIsTrue == Spec => []TrailFollowsCredit
<1>1. IInv => TrailFollowsCredit
  BY DEF IInv, TablesTyped, Agree, TrailFollowsCredit, Personal
<1> QED BY <1>1, Inductive, PTL

\* Every purchase is credited once at most, and only when it is paid for.
THEOREM Refinement == Spec => ImplementsLedger
<1>1. Init => Ledger!LedgerInit BY DEF Init, Ledger!LedgerInit, Paid
<1>2. IInv /\ [Next]_vars => [Ledger!LedgerNext]_<<Paid, credits>>
  <2>1. LedgerStep => [Ledger!LedgerNext]_<<Paid, credits>>
    BY DEF LedgerStep, Ledger!LedgerNext, Ledger!Pay, Ledger!CreditOnce
  <2> QED BY <2>1, NextInv
<1> QED BY <1>1, <1>2, Inductive, PTL DEF Spec, ImplementsLedger, Ledger!LedgerSpec

=============================================================================
