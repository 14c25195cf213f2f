----------------------- MODULE UsageSettlement_proofs -----------------------
(***************************************************************************)
(* The settlement of usage for any requests, costs, failures and renewals. *)
(* Good says what a request holds at each phase: enough to give back what  *)
(* it is about to give back, and, in its last settlement, that what is     *)
(* covered and what is under way add up to the cost. CapsPending says that *)
(* a bucket above the allocation has a cap under way that covers all of    *)
(* it, and Tracked what a refund has returned by each of its steps. The    *)
(* two conservation laws follow from what one step moves (Conserves) and   *)
(* from what becomes of a sum when one request's part of it changes.       *)
(***************************************************************************)
EXTENDS UsageSettlement, FiniteSetTheorems, TLAPS

\* What a request holds is enough for what it does next.
Phased(q) ==
    /\ q.pc \in {"new", "funding"} => q.extra = 0
    /\ q.pc \in {"new", "funding", "debiting", "undoing"} => q.included = 0
    /\ q.pc = "funding" => q.delta <= q.estimate
    /\ q.pc = "debiting" => q.extra <= q.estimate
    /\ q.pc = "restoring" => q.delta <= q.included
    /\ q.pc = "repaying" => q.delta <= q.included + q.extra

Total(q) == q.included + q.extra + q.uncovered

\* The last settlement adds up to the cost.
Settling(q) ==
    q.last =>
        /\ q.pc \in {"peeking", "taking", "charging", "repaying", "restoring", "capping", "done"}
        /\ q.pc \in {"peeking", "taking", "charging"} =>
               q.uncovered = 0 /\ q.included + q.extra + q.delta = q.cost
        /\ q.pc \in {"repaying", "restoring"} =>
               q.uncovered = 0 /\ q.included + q.extra = q.cost + q.delta /\ q.delta > 0
        /\ q.pc = "capping" => Total(q) = q.cost
        /\ q.pc = "done" => Total(q) = q.cost \/ (q.failed /\ Total(q) > q.cost)

Good(q) == q \in Request /\ Phased(q) /\ Settling(q)

IInv == TypeOK /\ \A r \in Requests : Good(req[r])

-----------------------------------------------------------------------------
(* The steps of a request *)

\* A request goes on: the others hold what they held.
LEMMA Replaced ==
    ASSUME IInv, NEW r \in Requests, NEW q, Good(q), req' = [req EXCEPT ![r] = q]
    PROVE  req' \in [Requests -> Request] /\ \A s \in Requests : Good(req'[s])
BY DEF IInv, TypeOK, Good

LEMMA CheckGood ==
    ASSUME IInv, NEW r \in Requests, Check(r)
    PROVE  tokens' \in Nat /\ \E q : Good(q) /\ req' = [req EXCEPT ![r] = q]
<1> USE Bounds
<1>1. Good(req[r]) /\ tokens \in Nat BY DEF IInv, TypeOK
<1>2. req[r].estimate \in Nat BY <1>1 DEF Good, Request
<1>3. tokens' \in Nat BY <1>1 DEF Check, Lesser
<1> DEFINE shortfall == IF req[r].chargeAll THEN req[r].estimate
                        ELSE Greater(0, req[r].estimate - tokens')
           pc == IF shortfall = 0 THEN "debiting"
                 ELSE IF req[r].usable THEN "funding" ELSE "rejected"
           q == [[req[r] EXCEPT !.delta = shortfall] EXCEPT !.pc = pc]
<1>4. req' = [req EXCEPT ![r] = q] BY DEF Check, Goes
<1>5. shortfall \in Nat /\ shortfall <= req[r].estimate BY <1>2, <1>3 DEF Greater
<1>6. req[r].pc = "new" BY DEF Check
<1>7. Good(q) BY <1>1, <1>2, <1>5, <1>6 DEF Good, Request, Phased, Settling, States
<1> QED BY <1>3, <1>4, <1>7

LEMMA FundGood ==
    ASSUME IInv, NEW r \in Requests, FundShortfall(r)
    PROVE  wallet' \in Nat /\ \E q : Good(q) /\ req' = [req EXCEPT ![r] = q]
<1>1. Good(req[r]) /\ req[r] \in Request /\ wallet \in Nat BY DEF IInv, TypeOK, Good
<1>2. req[r].pc = "funding" BY DEF FundShortfall
<1>3. wallet' \in Nat BY <1>1 DEF FundShortfall, Deducted, DeductedUnheard, Request
<1>4. CASE Goes(r, "rejected", req[r])
  <2> DEFINE q == [req[r] EXCEPT !.pc = "rejected"]
  <2>1. Good(q) BY <1>1, <1>2 DEF Good, Request, Phased, Settling, States
  <2> QED BY <1>3, <1>4, <2>1 DEF Goes
<1>5. CASE Goes(r, IF req[r].delta < req[r].estimate THEN "debiting" ELSE "running",
                [req[r] EXCEPT !.extra = req[r].delta, !.delta = 0])
  <2> DEFINE q == [[req[r] EXCEPT !.extra = req[r].delta, !.delta = 0] EXCEPT
                     !.pc = IF req[r].delta < req[r].estimate THEN "debiting" ELSE "running"]
  <2>1. Good(q) BY <1>1, <1>2 DEF Good, Request, Phased, Settling, States
  <2> QED BY <1>3, <1>5, <2>1 DEF Goes
<1> QED BY <1>4, <1>5 DEF FundShortfall

LEMMA DebitGood ==
    ASSUME IInv, NEW r \in Requests, DebitBucket(r)
    PROVE  tokens' \in Nat /\ tokens' <= tokens /\ \E q : Good(q) /\ req' = [req EXCEPT ![r] = q]
<1> USE Bounds
<1> DEFINE rate == req[r].estimate - req[r].extra
<1>1. Good(req[r]) /\ req[r] \in Request /\ tokens \in Nat BY DEF IInv, TypeOK, Good
<1>2. req[r].pc = "debiting" BY DEF DebitBucket
<1>3. rate \in Nat
  <2>1. req[r].estimate \in Nat /\ req[r].extra \in Nat BY <1>1 DEF Request
  <2>2. req[r].extra <= req[r].estimate BY <1>1, <1>2 DEF Good, Phased
  <2> QED BY <2>1, <2>2
<1>4. tokens' \in Nat /\ tokens' <= tokens BY <1>1, <1>3 DEF DebitBucket, Taken
<1>5. CASE Goes(r, "running", [req[r] EXCEPT !.included = rate, !.delta = 0])
  <2> DEFINE q == [[req[r] EXCEPT !.included = rate, !.delta = 0] EXCEPT !.pc = "running"]
  <2>1. Good(q) BY <1>1, <1>2, <1>3 DEF Good, Request, Phased, Settling, States
  <2> QED BY <1>4, <1>5, <2>1 DEF Goes
<1>6. CASE Goes(r, IF req[r].extra > 0 THEN "undoing" ELSE "rejected", req[r])
  <2> DEFINE q == [req[r] EXCEPT !.pc = IF req[r].extra > 0 THEN "undoing" ELSE "rejected"]
  <2>1. Good(q) BY <1>1, <1>2 DEF Good, Request, Phased, Settling, States
  <2> QED BY <1>4, <1>6, <2>1 DEF Goes
<1>7. CASE Goes(r, "rejected", [req[r] EXCEPT !.extra = 0])
  <2> DEFINE q == [[req[r] EXCEPT !.extra = 0] EXCEPT !.pc = "rejected"]
  <2>1. Good(q) BY <1>1, <1>2 DEF Good, Request, Phased, Settling, States
  <2> QED BY <1>4, <1>7, <2>1 DEF Goes
<1> QED BY <1>5, <1>6, <1>7 DEF DebitBucket

LEMMA UndoGood ==
    ASSUME IInv, NEW r \in Requests, UndoFunding(r)
    PROVE  wallet' \in Nat /\ \E q : Good(q) /\ req' = [req EXCEPT ![r] = q]
<1>1. Good(req[r]) /\ req[r] \in Request /\ wallet \in Nat BY DEF IInv, TypeOK, Good
<1>2. req[r].pc = "undoing" BY DEF UndoFunding
<1>3. wallet' \in Nat BY <1>1 DEF UndoFunding, Request
<1> DEFINE q == [[req[r] EXCEPT !.extra = 0] EXCEPT !.pc = "rejected"]
<1>4. Good(q) BY <1>1, <1>2 DEF Good, Request, Phased, Settling, States
<1>5. req' = [req EXCEPT ![r] = q] BY DEF UndoFunding, Goes
<1> QED BY <1>3, <1>4, <1>5

LEMMA FinishStepGood ==
    ASSUME IInv, NEW r \in Requests, FinishStep(r)
    PROVE  \E q : Good(q) /\ req' = [req EXCEPT ![r] = q]
<1> USE Bounds
<1>1. Good(req[r]) /\ req[r] \in Request BY DEF IInv, TypeOK, Good
<1>2. req[r].pc = "running" BY DEF FinishStep
<1>3. PICK c \in req[r].cost + 1 .. MaxCost :
          Goes(r, IF c > Covered(req[r]) THEN "peeking" ELSE "running",
               [req[r] EXCEPT !.cost = c, !.delta = Greater(0, c - Covered(req[r]))])
  BY DEF FinishStep
<1> DEFINE q == [[req[r] EXCEPT !.cost = c, !.delta = Greater(0, c - Covered(req[r]))]
                   EXCEPT !.pc = IF c > Covered(req[r]) THEN "peeking" ELSE "running"]
<1>4. c \in Nat BY <1>1 DEF Request
<1>5. Greater(0, c - Covered(req[r])) \in Nat BY <1>1, <1>4 DEF Greater, Covered, Request
<1>6. Good(q) BY <1>1, <1>2, <1>4, <1>5 DEF Good, Request, Phased, Settling, States
<1> QED BY <1>3, <1>6 DEF Goes

\* The last settlement begins, or ends at once, with sums that fit.
LEMMA LastGood ==
    ASSUME NEW q \in Request, NEW points \in Nat, NEW pc,
           \/ pc = "peeking" /\ q.included + q.extra + points = q.cost
           \/ pc = "done" /\ points = 0 /\ q.included + q.extra = q.cost
           \/ /\ pc = "repaying" \/ (pc = "restoring" /\ q.extra = 0)
              /\ points > 0 /\ q.included + q.extra = q.cost + points
    PROVE  Good([Last(q, points) EXCEPT !.pc = pc])
<1> DEFINE s == [Last(q, points) EXCEPT !.pc = pc]
<1>1. s \in Request BY DEF Last, Request, States
<1>2. /\ s.pc = pc /\ s.delta = points /\ s.uncovered = 0
      /\ s.included = q.included /\ s.extra = q.extra /\ s.cost = q.cost
  BY DEF Last, Request
<1>3. q.included \in Nat /\ q.extra \in Nat /\ q.cost \in Nat BY DEF Request
<1> HIDE DEF s
<1>4. Phased(s) BY <1>2, <1>3 DEF Phased
<1>5. Settling(s) BY <1>2, <1>3 DEF Settling, Total
<1> QED BY <1>1, <1>4, <1>5 DEF Good, s

LEMMA FinishGood ==
    ASSUME IInv, NEW r \in Requests, Finish(r)
    PROVE  \E q : Good(q) /\ req' = [req EXCEPT ![r] = q]
<1>1. Good(req[r]) /\ req[r] \in Request BY DEF IInv, TypeOK, Good
<1>2. req[r].pc \in {"running", "stopping"} BY DEF Finish
<1>3. ~req[r].last BY <1>1, <1>2 DEF Good, Settling
<1> DEFINE over == Covered(req[r]) - req[r].cost
<1>4. /\ req[r].included \in Nat /\ req[r].extra \in Nat /\ req[r].cost \in Nat
      /\ over = req[r].included + req[r].extra - req[r].cost
  BY <1>1 DEF Request, Covered
<1>5. CASE req[r].cost = 0
  <2> DEFINE q == [req[r] EXCEPT !.pc = "done"]
  <2>1. Good(q) BY <1>1, <1>2, <1>3 DEF Good, Request, Phased, Settling, States
  <2>2. Goes(r, "done", req[r]) BY <1>5 DEF Finish
  <2> QED BY <2>1, <2>2 DEF Goes
<1>6. CASE req[r].cost # 0 /\ over < 0
  <2>1. -over \in Nat /\ req[r].included + req[r].extra + (-over) = req[r].cost
    BY <1>4, <1>6
  <2>2. Goes(r, "peeking", Last(req[r], -over)) BY <1>6 DEF Finish
  <2>3. Good([Last(req[r], -over) EXCEPT !.pc = "peeking"]) BY <1>1, <2>1, LastGood
  <2> QED BY <2>2, <2>3 DEF Goes
<1>7. CASE req[r].cost # 0 /\ over = 0
  <2>1. Goes(r, "done", Last(req[r], 0)) BY <1>7 DEF Finish
  <2>2. 0 \in Nat /\ req[r].included + req[r].extra = req[r].cost BY <1>4, <1>7
  <2> HIDE DEF over
  <2>3. Good([Last(req[r], 0) EXCEPT !.pc = "done"]) BY <1>1, <2>2, LastGood
  <2> QED BY <2>1, <2>3 DEF Goes
<1>8. CASE req[r].cost # 0 /\ over > 0
  <2> DEFINE pc == IF req[r].extra > 0 THEN "repaying" ELSE "restoring"
  <2>1. /\ over \in Nat /\ over > 0 /\ req[r].included + req[r].extra = req[r].cost + over
        /\ pc = "repaying" \/ (pc = "restoring" /\ req[r].extra = 0)
    BY <1>4, <1>8
  <2>2. Goes(r, pc, Last(req[r], over)) BY <1>4, <1>8 DEF Finish
  <2> HIDE DEF pc, over
  <2>3. Good([Last(req[r], over) EXCEPT !.pc = pc]) BY <1>1, <2>1, LastGood
  <2> QED BY <2>2, <2>3 DEF Goes
<1>9. over \in Int BY <1>4
<1> QED BY <1>5, <1>6, <1>7, <1>8, <1>9

LEMMA PeekGood ==
    ASSUME IInv, NEW r \in Requests, Peek(r)
    PROVE  \E q : Good(q) /\ req' = [req EXCEPT ![r] = q]
<1>1. Good(req[r]) /\ req[r] \in Request /\ tokens \in Nat BY DEF IInv, TypeOK, Good
<1>2. req[r].pc = "peeking" BY DEF Peek
<1> DEFINE n == IF req[r].chargeAll THEN 0 ELSE Greater(0, tokens)
           q == [[req[r] EXCEPT !.available = n] EXCEPT !.pc = "taking"]
<1>3. n \in Nat BY <1>1 DEF Greater
<1>4. Good(q) BY <1>1, <1>2, <1>3 DEF Good, Request, Phased, Settling, States
<1>5. req' = [req EXCEPT ![r] = q] BY DEF Peek, Goes
<1> QED BY <1>4, <1>5

\* What a request holds once a charge is over, and its phase.
Ended(q, included, extra, uncovered, failed) ==
    LET e == [q EXCEPT !.included = included, !.extra = extra, !.delta = 0,
                       !.uncovered = @ + uncovered, !.failed = @ \/ failed]
    IN [e EXCEPT !.pc = After(e)]

LEMMA EndedGood ==
    ASSUME NEW q, Good(q), q.pc \in {"taking", "charging"},
           NEW included \in Nat, NEW extra \in Nat, NEW uncovered \in Nat, NEW failed \in BOOLEAN,
           included + extra + uncovered = q.included + q.extra + q.delta
    PROVE  Good(Ended(q, included, extra, uncovered, failed))
<1> DEFINE e == [q EXCEPT !.included = included, !.extra = extra, !.delta = 0,
                          !.uncovered = @ + uncovered, !.failed = @ \/ failed]
           s == Ended(q, included, extra, uncovered, failed)
<1>1. q \in Request BY DEF Good
<1>2. /\ q.included \in Nat /\ q.extra \in Nat /\ q.delta \in Nat /\ q.uncovered \in Nat
      /\ q.cost \in Nat /\ q.failed \in BOOLEAN /\ q.last \in BOOLEAN
  BY <1>1 DEF Request
<1>3. q.uncovered + uncovered \in Nat BY <1>2
<1>4. (q.failed \/ failed) \in BOOLEAN OBVIOUS
<1>5. e \in Request /\ e.last = q.last /\ e.uncovered = q.uncovered + uncovered
  BY <1>1, <1>3, <1>4 DEF Request
<1>6. After(e) \in {"done", "stopping", "running"} /\ (q.last => After(e) = "done")
  BY <1>5 DEF After
<1>7. s = [e EXCEPT !.pc = After(e)] BY DEF Ended
<1>8. s \in Request
  <2> HIDE DEF s, e
  <2> QED BY <1>5, <1>6, <1>7 DEF Request, States
<1>9. /\ s.pc = After(e) /\ s.last = q.last /\ s.cost = q.cost
      /\ s.included = included /\ s.extra = extra /\ s.uncovered = q.uncovered + uncovered
  BY <1>1, <1>7 DEF Request
<1> HIDE DEF s, e
<1>10. Phased(s) BY <1>6, <1>9 DEF Phased
<1>11. Settling(s)
  <2>1. CASE ~q.last BY <2>1, <1>9 DEF Settling
  <2>2. CASE q.last
    <3>1. q.uncovered = 0 /\ q.included + q.extra + q.delta = q.cost
      BY <2>2 DEF Good, Settling
    <3>2. Total(s) = q.cost BY <3>1, <1>2, <1>9 DEF Total
    <3> QED BY <2>2, <3>2, <1>6, <1>9 DEF Settling
  <2> QED BY <2>1, <2>2
<1> QED BY <1>8, <1>10, <1>11 DEF Good, s

LEMMA ChargeGood ==
    ASSUME IInv, NEW r \in Requests, req[r].pc = "taking", NEW rate \in Nat,
           rate <= req[r].delta, Charge(r, req[r].included + rate)
    PROVE  \E q : Good(q) /\ req' = [req EXCEPT ![r] = q]
<1>1. Good(req[r]) /\ req[r] \in Request BY DEF IInv, TypeOK, Good
<1>2. req[r].included \in Nat /\ req[r].extra \in Nat /\ req[r].delta \in Nat BY <1>1 DEF Request
<1> DEFINE included == req[r].included + rate
           rest == req[r].delta - rate
<1>3. included \in Nat /\ rest \in Nat /\ rest = req[r].delta - (included - req[r].included)
  BY <1>2
<1>4. included + rest = req[r].included + req[r].delta BY <1>2
<1>5. ASSUME NEW uncovered \in Nat, uncovered = rest,
             Ends(r, included, req[r].extra, uncovered, FALSE)
      PROVE  \E q : Good(q) /\ req' = [req EXCEPT ![r] = q]
  <2>1. included + req[r].extra + uncovered = req[r].included + req[r].extra + req[r].delta
    BY <1>2, <1>4, <1>5
  <2>2. req' = [req EXCEPT ![r] = Ended(req[r], included, req[r].extra, uncovered, FALSE)]
    BY <1>5 DEF Ends, Ended
  <2> HIDE DEF included
  <2>3. Good(Ended(req[r], included, req[r].extra, uncovered, FALSE))
    BY <1>1, <1>2, <1>3, <2>1, EndedGood
  <2> QED BY <2>2, <2>3
<1>6. CASE Goes(r, "charging", [req[r] EXCEPT !.included = included, !.delta = rest])
  <2> DEFINE q == [[req[r] EXCEPT !.included = included, !.delta = rest] EXCEPT !.pc = "charging"]
  <2>1. q \in Request BY <1>1, <1>3 DEF Request, States
  <2>2. /\ q.pc = "charging" /\ q.last = req[r].last /\ q.included = included /\ q.delta = rest
        /\ q.extra = req[r].extra /\ q.uncovered = req[r].uncovered /\ q.cost = req[r].cost
    BY <1>1 DEF Request
  <2>3. req' = [req EXCEPT ![r] = q] BY <1>6 DEF Goes
  <2> HIDE DEF q
  <2>4. Phased(q) BY <2>2 DEF Phased
  <2>5. req[r].last => /\ req[r].uncovered = 0
                       /\ req[r].included + req[r].extra + req[r].delta = req[r].cost
    BY <1>1 DEF Good, Settling
  <2>6. req[r].last => q.included + q.extra + q.delta = q.cost BY <2>2, <2>5, <1>2, <1>4
  <2>7. Settling(q) BY <2>2, <2>5, <2>6 DEF Settling
  <2> QED BY <2>1, <2>3, <2>4, <2>7 DEF Good
<1>7. \/ rest = 0 /\ Ends(r, included, req[r].extra, 0, FALSE)
      \/ Goes(r, "charging", [req[r] EXCEPT !.included = included, !.delta = rest])
      \/ Ends(r, included, req[r].extra, rest, FALSE)
  BY <1>3 DEF Charge
<1> QED BY <1>3, <1>5, <1>6, <1>7

LEMMA TakeGood ==
    ASSUME IInv, NEW r \in Requests, TakeFromBucket(r)
    PROVE  tokens' \in Nat /\ tokens' <= tokens /\ \E q : Good(q) /\ req' = [req EXCEPT ![r] = q]
<1>1. Good(req[r]) /\ req[r] \in Request /\ tokens \in Nat BY DEF IInv, TypeOK, Good
<1>2. req[r].pc = "taking" BY DEF TakeFromBucket
<1>3. /\ req[r].included \in Nat /\ req[r].extra \in Nat /\ req[r].delta \in Nat
      /\ req[r].available \in Nat /\ 0 \in Nat
  BY <1>1 DEF Request
<1> DEFINE rate == Lesser(req[r].delta, req[r].available)
<1>4. rate \in Nat /\ rate <= req[r].delta BY <1>3 DEF Lesser
<1>5. req[r].included + 0 = req[r].included BY <1>3
<1>6. \/ Taken(rate) /\ Charge(r, req[r].included + rate)
      \/ Charge(r, req[r].included) /\ UNCHANGED tokens
      \/ TakenUnheard(rate) /\ Ends(r, req[r].included, req[r].extra, req[r].delta, TRUE)
  BY DEF TakeFromBucket
<1> HIDE DEF rate
<1>7. tokens' \in Nat /\ tokens' <= tokens
  <2>1. Taken(rate) \/ UNCHANGED tokens BY <1>6, Zenon DEF TakenUnheard
  <2> QED BY <1>1, <1>4, <2>1 DEF Taken
<1>8. CASE Charge(r, req[r].included + rate) BY <1>2, <1>4, <1>7, <1>8, ChargeGood
<1>9. CASE Charge(r, req[r].included)
  <2>1. Charge(r, req[r].included + 0) BY <1>5, <1>9
  <2>2. 0 <= req[r].delta BY <1>3
  <2> QED BY <1>2, <1>3, <1>7, <2>1, <2>2, ChargeGood
<1>10. CASE Ends(r, req[r].included, req[r].extra, req[r].delta, TRUE)
  <2>1. req' = [req EXCEPT ![r] = Ended(req[r], req[r].included, req[r].extra, req[r].delta, TRUE)]
    BY <1>10 DEF Ends, Ended
  <2>2. Good(Ended(req[r], req[r].included, req[r].extra, req[r].delta, TRUE))
    BY <1>1, <1>2, <1>3, EndedGood
  <2> QED BY <1>7, <2>1, <2>2
<1> QED BY <1>6, <1>8, <1>9, <1>10

LEMMA WalletGood ==
    ASSUME IInv, NEW r \in Requests, ChargeWallet(r)
    PROVE  wallet' \in Nat /\ \E q : Good(q) /\ req' = [req EXCEPT ![r] = q]
<1>1. Good(req[r]) /\ req[r] \in Request /\ wallet \in Nat BY DEF IInv, TypeOK, Good
<1>2. req[r].pc = "charging" BY DEF ChargeWallet
<1>3. req[r].included \in Nat /\ req[r].extra \in Nat /\ req[r].delta \in Nat /\ 0 \in Nat
  BY <1>1 DEF Request
<1>4. wallet' \in Nat
  <2>1. Deducted(req[r].delta) \/ UNCHANGED wallet BY Zenon DEF ChargeWallet, DeductedUnheard
  <2> QED BY <1>1, <1>3, <2>1 DEF Deducted
<1>5. CASE Ends(r, req[r].included, req[r].extra + req[r].delta, 0, FALSE)
  <2>1. /\ req[r].extra + req[r].delta \in Nat
        /\ req[r].included + (req[r].extra + req[r].delta) + 0
              = req[r].included + req[r].extra + req[r].delta
    BY <1>3
  <2>2. req' = [req EXCEPT ![r] = Ended(req[r], req[r].included, req[r].extra + req[r].delta, 0, FALSE)]
    BY <1>5 DEF Ends, Ended
  <2>3. Good(Ended(req[r], req[r].included, req[r].extra + req[r].delta, 0, FALSE))
    BY <1>1, <1>2, <1>3, <2>1, EndedGood
  <2> QED BY <1>4, <2>2, <2>3
<1>6. ASSUME NEW failed \in BOOLEAN, Ends(r, req[r].included, req[r].extra, req[r].delta, failed)
      PROVE  \E q : Good(q) /\ req' = [req EXCEPT ![r] = q]
  <2>1. req' = [req EXCEPT ![r] = Ended(req[r], req[r].included, req[r].extra, req[r].delta, failed)]
    BY <1>6 DEF Ends, Ended
  <2>2. Good(Ended(req[r], req[r].included, req[r].extra, req[r].delta, failed))
    BY <1>1, <1>2, <1>3, EndedGood
  <2> QED BY <2>1, <2>2
<1> QED BY <1>4, <1>5, <1>6 DEF ChargeWallet

LEMMA RepayGood ==
    ASSUME IInv, NEW r \in Requests, RepayWallet(r)
    PROVE  wallet' \in Nat /\ \E q : Good(q) /\ req' = [req EXCEPT ![r] = q]
<1>1. Good(req[r]) /\ req[r] \in Request /\ wallet \in Nat BY DEF IInv, TypeOK, Good
<1>2. req[r].pc = "repaying" BY DEF RepayWallet
<1>3. /\ req[r].included \in Nat /\ req[r].extra \in Nat /\ req[r].delta \in Nat
      /\ req[r].uncovered \in Nat /\ req[r].cost \in Nat
  BY <1>1 DEF Request
<1>4. /\ req[r].delta <= req[r].included + req[r].extra
      /\ req[r].last =>
             /\ req[r].uncovered = 0 /\ req[r].delta > 0
             /\ req[r].included + req[r].extra = req[r].cost + req[r].delta
  BY <1>1, <1>2 DEF Good, Phased, Settling
<1> DEFINE points == Lesser(req[r].delta, req[r].extra)
           pc == IF points < req[r].delta THEN "restoring" ELSE "done"
<1>5. /\ points \in Nat /\ points <= req[r].delta /\ points <= req[r].extra
      /\ points = req[r].delta \/ points = req[r].extra
  BY <1>3 DEF Lesser
<1>6. wallet' \in Nat BY <1>1, <1>5 DEF RepayWallet
<1>7. CASE Goes(r, pc, [req[r] EXCEPT !.extra = @ - points, !.delta = @ - points])
  <2> DEFINE q == [[req[r] EXCEPT !.extra = @ - points, !.delta = @ - points] EXCEPT !.pc = pc]
  <2>1. req[r].extra - points \in Nat /\ req[r].delta - points \in Nat BY <1>3, <1>5
  <2>2. pc \in States BY DEF States
  <2>3. q \in Request
    <3> HIDE DEF pc, points
    <3> QED BY <1>1, <2>1, <2>2 DEF Request
  <2>4. /\ q.pc = pc /\ q.last = req[r].last /\ q.included = req[r].included
        /\ q.extra = req[r].extra - points /\ q.delta = req[r].delta - points
        /\ q.uncovered = req[r].uncovered /\ q.cost = req[r].cost
    BY <1>1 DEF Request
  <2>5. req' = [req EXCEPT ![r] = q] BY <1>7 DEF Goes
  <2>6. pc \in {"restoring", "done"} /\ (pc = "restoring" <=> points < req[r].delta) OBVIOUS
  <2> HIDE DEF q, pc, points
  <2>7. Phased(q) BY <1>3, <1>4, <1>5, <2>4, <2>6 DEF Phased
  <2>8. Settling(q) BY <1>3, <1>4, <1>5, <2>4, <2>6 DEF Settling, Total
  <2> QED BY <1>6, <2>3, <2>5, <2>7, <2>8 DEF Good
<1>8. CASE Goes(r, "done", [req[r] EXCEPT !.failed = TRUE])
  <2> DEFINE q == [[req[r] EXCEPT !.failed = TRUE] EXCEPT !.pc = "done"]
  <2>1. q \in Request BY <1>1 DEF Request, States
  <2>2. /\ q.pc = "done" /\ q.failed = TRUE /\ q.last = req[r].last /\ q.included = req[r].included
        /\ q.extra = req[r].extra /\ q.uncovered = req[r].uncovered /\ q.cost = req[r].cost
    BY <1>1 DEF Request
  <2>3. req' = [req EXCEPT ![r] = q] BY <1>8 DEF Goes
  <2> HIDE DEF q
  <2>4. Phased(q) BY <2>2 DEF Phased
  <2>5. req[r].last => Total(q) > q.cost BY <1>3, <1>4, <2>2 DEF Total
  <2>6. Settling(q) BY <2>2, <2>5 DEF Settling
  <2> QED BY <1>6, <2>1, <2>3, <2>4, <2>6 DEF Good
<1> QED BY <1>7, <1>8 DEF RepayWallet

LEMMA RestoreGood ==
    ASSUME IInv, NEW r \in Requests, RestoreBucket(r)
    PROVE  tokens' \in Nat /\ \E q : Good(q) /\ req' = [req EXCEPT ![r] = q]
<1>1. Good(req[r]) /\ req[r] \in Request /\ tokens \in Nat BY DEF IInv, TypeOK, Good
<1>2. req[r].pc = "restoring" BY DEF RestoreBucket
<1>3. /\ req[r].included \in Nat /\ req[r].extra \in Nat /\ req[r].delta \in Nat
      /\ req[r].uncovered \in Nat /\ req[r].cost \in Nat
  BY <1>1 DEF Request
<1>4. /\ req[r].delta <= req[r].included
      /\ req[r].last =>
             /\ req[r].uncovered = 0
             /\ req[r].included + req[r].extra = req[r].cost + req[r].delta
  BY <1>1, <1>2 DEF Good, Phased, Settling
<1>5. tokens + req[r].delta \in Nat /\ req[r].included - req[r].delta \in Nat BY <1>1, <1>3, <1>4
<1>6. tokens' \in Nat BY <1>1, <1>5 DEF RestoreBucket
<1>7. ASSUME NEW q \in Request, q.pc \in {"capping", "done"}, q.last = req[r].last,
             q.included = req[r].included - req[r].delta, q.extra = req[r].extra,
             q.uncovered = req[r].uncovered, q.cost = req[r].cost
      PROVE  Good(q)
  <2>1. Phased(q) BY <1>7 DEF Phased
  <2>2. req[r].last =>
          (req[r].included - req[r].delta) + req[r].extra + req[r].uncovered = req[r].cost
    BY <1>3, <1>4
  <2>3. Total(q) = (req[r].included - req[r].delta) + req[r].extra + req[r].uncovered
    BY <1>7 DEF Total
  <2>4. req[r].last => Total(q) = q.cost BY <1>7, <2>2, <2>3
  <2>5. Settling(q) BY <1>7, <2>4 DEF Settling
  <2> QED BY <2>1, <2>5 DEF Good
<1>8. CASE /\ tokens' = tokens + req[r].delta
           /\ Goes(r, "capping", [req[r] EXCEPT !.available = tokens + req[r].delta,
                                               !.included = @ - req[r].delta, !.delta = 0])
  <2> DEFINE q == [[req[r] EXCEPT !.available = tokens + req[r].delta,
                                  !.included = @ - req[r].delta, !.delta = 0]
                     EXCEPT !.pc = "capping"]
  <2>1. q \in Request BY <1>1, <1>5 DEF Request, States
  <2>2. /\ q.pc = "capping" /\ q.last = req[r].last /\ q.available = tokens + req[r].delta
        /\ q.included = req[r].included - req[r].delta /\ q.extra = req[r].extra
        /\ q.uncovered = req[r].uncovered /\ q.cost = req[r].cost
    BY <1>1 DEF Request
  <2>3. req' = [req EXCEPT ![r] = q] BY <1>8 DEF Goes
  <2> HIDE DEF q
  <2> QED BY <1>6, <1>7, <1>8, <2>1, <2>2, <2>3
<1>9. CASE /\ UNCHANGED tokens
           /\ Goes(r, "done", [req[r] EXCEPT !.included = @ - req[r].delta, !.delta = 0])
  <2> DEFINE q == [[req[r] EXCEPT !.included = @ - req[r].delta, !.delta = 0] EXCEPT !.pc = "done"]
  <2>1. q \in Request BY <1>1, <1>5 DEF Request, States
  <2>2. /\ q.pc = "done" /\ q.last = req[r].last
        /\ q.included = req[r].included - req[r].delta /\ q.extra = req[r].extra
        /\ q.uncovered = req[r].uncovered /\ q.cost = req[r].cost
    BY <1>1 DEF Request
  <2>3. req' = [req EXCEPT ![r] = q] BY <1>9 DEF Goes
  <2> HIDE DEF q
  <2> QED BY <1>6, <1>7, <1>9, <2>1, <2>2, <2>3
<1> QED BY <1>8, <1>9 DEF RestoreBucket

LEMMA CapGood ==
    ASSUME IInv, NEW r \in Requests, CapRestored(r)
    PROVE  tokens' \in Nat /\ \E q : Good(q) /\ req' = [req EXCEPT ![r] = q]
<1> USE Bounds
<1>1. Good(req[r]) /\ req[r] \in Request /\ tokens \in Nat BY DEF IInv, TypeOK, Good
<1>2. req[r].pc = "capping" BY DEF CapRestored
<1>3. tokens' \in Nat
  <2>1. Allocation \in Nat OBVIOUS
  <2>2. tokens' = Allocation \/ tokens' = tokens BY Zenon DEF CapRestored, Capped
  <2> QED BY <1>1, <2>1, <2>2
<1> DEFINE q == [req[r] EXCEPT !.pc = "done"]
<1>4. q \in Request BY <1>1 DEF Request, States
<1>5. /\ q.pc = "done" /\ q.last = req[r].last /\ q.included = req[r].included
      /\ q.extra = req[r].extra /\ q.uncovered = req[r].uncovered /\ q.cost = req[r].cost
  BY <1>1 DEF Request
<1>6. req' = [req EXCEPT ![r] = q] BY DEF CapRestored, Goes
<1> HIDE DEF q
<1>7. Phased(q) BY <1>5 DEF Phased
<1>8. Settling(q) BY <1>1, <1>2, <1>5 DEF Good, Settling, Total
<1> QED BY <1>3, <1>4, <1>6, <1>7, <1>8 DEF Good

-----------------------------------------------------------------------------
(* The invariant *)

\* What a request's step leaves of the refunds, the failures and the renewals.
LEMMA Kept ==
    ASSUME IInv, NEW r \in Requests, NEW q, Good(q), req' = [req EXCEPT ![r] = q],
           tokens' \in Nat, wallet' \in Nat, lost' \in [bucket: Nat, wallet: Nat],
           failures' \in 0..MaxFailures, NoRefund, UNCHANGED renewals
    PROVE  IInv'
<1>1. req' \in [Requests -> Request] /\ \A s \in Requests : Good(req'[s]) BY Replaced
<1>2. TypeOK' BY <1>1 DEF IInv, TypeOK, NoRefund
<1> QED BY <1>1, <1>2 DEF IInv

LEMMA NoFaultKept ==
    ASSUME IInv, NoFault
    PROVE  lost' \in [bucket: Nat, wallet: Nat] /\ failures' \in 0..MaxFailures
BY DEF IInv, TypeOK, NoFault

LEMMA FaultCounted ==
    ASSUME IInv, Fault
    PROVE  failures' \in 0..MaxFailures
<1> USE Bounds
<1> QED BY DEF IInv, TypeOK, Fault

\* What a failed call may cost.
LEMMA LostTyped ==
    ASSUME IInv, NEW n \in Nat, NEW m \in Nat,
           \/ UNCHANGED lost
           \/ lost' = [lost EXCEPT !.bucket = @ + n]
           \/ lost' = [lost EXCEPT !.wallet = @ + m]
           \/ lost' = [bucket |-> lost.bucket + n, wallet |-> lost.wallet + m]
    PROVE  lost' \in [bucket: Nat, wallet: Nat]
BY DEF IInv, TypeOK

\* Whether or not a call of a request's step fails, its cost is counted.
LEMMA StepCounted ==
    ASSUME IInv, NEW r \in Requests, Step(r)
    PROVE  /\ lost' \in [bucket: Nat, wallet: Nat] /\ failures' \in 0..MaxFailures
           /\ NoRefund /\ UNCHANGED renewals
<1> USE Bounds
<1>1. Good(req[r]) /\ req[r] \in Request BY DEF IInv, Good
<1>2. /\ req[r].included \in Nat /\ req[r].extra \in Nat /\ req[r].delta \in Nat
      /\ req[r].available \in Nat /\ req[r].estimate \in Nat /\ 0 \in Nat
  BY <1>1 DEF Request
<1>3. NoRefund /\ UNCHANGED renewals
  BY Zenon DEF Step, Check, FundShortfall, DebitBucket, UndoFunding, FinishStep, Finish, Peek,
               TakeFromBucket, ChargeWallet, RepayWallet, RestoreBucket, CapRestored
<1>4. CASE NoFault BY <1>3, <1>4, NoFaultKept
<1>5. CASE Fault
  <2>1. failures' \in 0..MaxFailures BY <1>5, FaultCounted
  <2>2. CASE FundShortfall(r) /\ ~NoFault
    <3>1. UNCHANGED lost \/ lost' = [lost EXCEPT !.wallet = @ + req[r].delta]
      BY <2>2, Zenon DEF FundShortfall, DeductedUnheard
    <3> QED BY <1>2, <1>3, <2>1, <3>1, LostTyped
  <2>3. CASE DebitBucket(r) /\ ~NoFault
    <3>1. \/ lost' = [lost EXCEPT !.wallet = @ + req[r].extra]
          \/ lost' = [bucket |-> lost.bucket + (req[r].estimate - req[r].extra),
                      wallet |-> lost.wallet + req[r].extra]
      BY <2>3, Zenon DEF DebitBucket
    <3>2. req[r].estimate - req[r].extra \in Nat
      <4>1. req[r].extra <= req[r].estimate BY <1>1, <2>3 DEF Good, Phased, DebitBucket
      <4> QED BY <1>2, <4>1
    <3> QED BY <1>2, <1>3, <2>1, <3>1, <3>2, LostTyped
  <2>4. CASE UndoFunding(r) /\ ~NoFault
    <3>1. lost' = [lost EXCEPT !.wallet = @ + req[r].extra] BY <2>4, Zenon DEF UndoFunding
    <3> QED BY <1>2, <1>3, <2>1, <3>1, LostTyped
  <2>5. CASE TakeFromBucket(r) /\ ~NoFault
    <3> DEFINE rate == Lesser(req[r].delta, req[r].available)
    <3>1. UNCHANGED lost \/ lost' = [lost EXCEPT !.bucket = @ + rate]
      BY <2>5, Zenon DEF TakeFromBucket, TakenUnheard
    <3>2. rate \in Nat BY <1>2 DEF Lesser
    <3> HIDE DEF rate
    <3> QED BY <1>2, <1>3, <2>1, <3>1, <3>2, LostTyped
  <2>6. CASE ChargeWallet(r) /\ ~NoFault
    <3>1. UNCHANGED lost \/ lost' = [lost EXCEPT !.wallet = @ + req[r].delta]
      BY <2>6, Zenon DEF ChargeWallet, DeductedUnheard
    <3> QED BY <1>2, <1>3, <2>1, <3>1, LostTyped
  <2>7. CASE RepayWallet(r) /\ ~NoFault
    <3>1. UNCHANGED lost BY <2>7, Zenon DEF RepayWallet
    <3> QED BY <1>2, <1>3, <2>1, <3>1, LostTyped
  <2>8. CASE RestoreBucket(r) /\ ~NoFault
    <3>1. lost' = [lost EXCEPT !.bucket = @ + req[r].delta] BY <2>8, Zenon DEF RestoreBucket
    <3> QED BY <1>2, <1>3, <2>1, <3>1, LostTyped
  <2>9. CASE NoFault BY <1>3, <2>9, NoFaultKept
  <2> QED
    BY <2>2, <2>3, <2>4, <2>5, <2>6, <2>7, <2>8, <2>9, Zenon
    DEF Step, Check, FinishStep, Finish, Peek, CapRestored
<1> QED
  BY <1>4, <1>5, Zenon
  DEF Step, Check, FundShortfall, DebitBucket, UndoFunding, FinishStep, Finish, Peek,
      TakeFromBucket, ChargeWallet, RepayWallet, RestoreBucket, CapRestored

LEMMA StepGood ==
    ASSUME IInv, NEW r \in Requests, Step(r)
    PROVE  tokens' \in Nat /\ wallet' \in Nat /\ \E q : Good(q) /\ req' = [req EXCEPT ![r] = q]
<1>1. tokens \in Nat /\ wallet \in Nat BY DEF IInv, TypeOK
<1>2. CASE Check(r) BY <1>1, <1>2, CheckGood DEF Check
<1>3. CASE FundShortfall(r) BY <1>1, <1>3, FundGood DEF FundShortfall
<1>4. CASE DebitBucket(r) BY <1>1, <1>4, DebitGood DEF DebitBucket
<1>5. CASE UndoFunding(r) BY <1>1, <1>5, UndoGood DEF UndoFunding
<1>6. CASE FinishStep(r) BY <1>1, <1>6, FinishStepGood DEF FinishStep
<1>7. CASE Finish(r) BY <1>1, <1>7, FinishGood DEF Finish
<1>8. CASE Peek(r) BY <1>1, <1>8, PeekGood DEF Peek
<1>9. CASE TakeFromBucket(r)
  <2>1. UNCHANGED wallet BY <1>9, Zenon DEF TakeFromBucket
  <2> QED BY <1>1, <1>9, <2>1, TakeGood
<1>10. CASE ChargeWallet(r)
  <2>1. UNCHANGED tokens BY <1>10, Zenon DEF ChargeWallet
  <2> QED BY <1>1, <1>10, <2>1, WalletGood
<1>11. CASE RepayWallet(r) BY <1>1, <1>11, RepayGood DEF RepayWallet
<1>12. CASE RestoreBucket(r)
  <2>1. UNCHANGED wallet BY <1>12 DEF RestoreBucket
  <2> QED BY <1>1, <1>12, <2>1, RestoreGood
<1>13. CASE CapRestored(r)
  <2>1. UNCHANGED wallet BY <1>13, Zenon DEF CapRestored
  <2> QED BY <1>1, <1>13, <2>1, CapGood
<1> QED
  BY <1>2, <1>3, <1>4, <1>5, <1>6, <1>7, <1>8, <1>9, <1>10, <1>11, <1>12, <1>13 DEF Step

LEMMA StepKeeps ==
    ASSUME IInv, NEW r \in Requests, Step(r)
    PROVE  IInv'
<1>1. tokens' \in Nat /\ wallet' \in Nat BY StepGood
<1>2. PICK q : Good(q) /\ req' = [req EXCEPT ![r] = q] BY StepGood
<1> QED BY <1>1, <1>2, StepCounted, Kept

\* A refund touches no request, and what a path does is one of its steps.
LEMMA RefundKeeps ==
    ASSUME IInv, NEW r \in Requests, NEW p \in Paths, RefundStep(r, p)
    PROVE  IInv'
<1> DEFINE Ref == [bucket: {"no", "add", "cap", "done"}, wallet: {"no", "add", "done"}, value: Nat]
<1>1. /\ tokens \in Nat /\ wallet \in Nat /\ refund \in [Requests -> [Paths -> Ref]]
      /\ returned \in [Requests -> [bucket: Nat, wallet: Nat]]
      /\ refunded \in [Requests -> BOOLEAN] /\ 0 \in Nat
  BY DEF IInv, TypeOK
<1>2. req[r].included \in Nat /\ req[r].extra \in Nat BY DEF IInv, TypeOK, Request
<1>3. UNCHANGED req /\ UNCHANGED renewals
  BY Zenon DEF RefundStep, StartRefund, RefundBucket, CapRefund, RefundWallet, EndRefund
<1>4. NotRefunding \in Ref BY DEF NotRefunding
<1>5. SUFFICES /\ tokens' \in Nat /\ wallet' \in Nat
               /\ refund' \in [Requests -> [Paths -> Ref]]
               /\ refunded' \in [Requests -> BOOLEAN]
               /\ returned' \in [Requests -> [bucket: Nat, wallet: Nat]]
               /\ lost' \in [bucket: Nat, wallet: Nat] /\ failures' \in 0..MaxFailures
  BY <1>3 DEF IInv, TypeOK
<1>6. refund' \in [Requests -> [Paths -> Ref]]
  <2>1. ASSUME NEW f \in Ref, refund' = [refund EXCEPT ![r][p] = f]
        PROVE  refund' \in [Requests -> [Paths -> Ref]]
    BY <1>1, <2>1
  <2>2. refund[r][p] \in Ref BY <1>1
  <2>3. ASSUME refund' = [refund EXCEPT ![r][p].bucket = "done"]
        PROVE  refund' \in [Requests -> [Paths -> Ref]]
    <3> DEFINE f == [refund[r][p] EXCEPT !.bucket = "done"]
    <3>1. f \in Ref BY <2>2
    <3>2. refund' = [refund EXCEPT ![r][p] = f] BY <1>1, <2>3
    <3> QED BY <2>1, <3>1, <3>2
  <2>4. CASE StartRefund(r, p)
    <3> DEFINE f == [bucket |-> IF req[r].included > 0 THEN "add" ELSE "done",
                     wallet |-> IF req[r].extra > 0 THEN "add" ELSE "done", value |-> 0]
    <3>1. f \in Ref BY <1>1
    <3>2. refund' = [refund EXCEPT ![r][p] = f] BY <2>4 DEF StartRefund
    <3> QED BY <2>1, <3>1, <3>2
  <2>5. CASE RefundBucket(r, p)
    <3>1. CASE refund' = [refund EXCEPT ![r][p] =
                            [@ EXCEPT !.bucket = "cap", !.value = tokens + req[r].included]]
      <4> DEFINE f == [refund[r][p] EXCEPT !.bucket = "cap", !.value = tokens + req[r].included]
      <4>1. tokens + req[r].included \in Nat BY <1>1, <1>2
      <4>2. f \in Ref BY <2>2, <4>1
      <4>3. refund' = [refund EXCEPT ![r][p] = f] BY <1>1, <3>1
      <4> QED BY <2>1, <4>2, <4>3
    <3>2. CASE refund' = [refund EXCEPT ![r][p].bucket = "done"] BY <2>3, <3>2
    <3> QED BY <2>5, <3>1, <3>2 DEF RefundBucket
  <2>6. CASE CapRefund(r, p) BY <2>3, <2>6 DEF CapRefund
  <2>7. CASE RefundWallet(r, p)
    <3> DEFINE f == [refund[r][p] EXCEPT !.wallet = "done"]
    <3>1. f \in Ref BY <2>2
    <3>2. refund' = [refund EXCEPT ![r][p] = f] BY <1>1, <2>7 DEF RefundWallet
    <3> QED BY <2>1, <3>1, <3>2
  <2>8. CASE EndRefund(r, p) BY <2>1, <1>4, <2>8 DEF EndRefund
  <2> QED BY <2>4, <2>5, <2>6, <2>7, <2>8 DEF RefundStep
<1>7. refunded' \in [Requests -> BOOLEAN]
  BY <1>1 DEF RefundStep, StartRefund, RefundBucket, CapRefund, RefundWallet, EndRefund
<1>8. returned' \in [Requests -> [bucket: Nat, wallet: Nat]]
  <2>1. \/ UNCHANGED returned
        \/ returned' = [returned EXCEPT ![r].bucket = @ + req[r].included]
        \/ returned' = [returned EXCEPT ![r].wallet = @ + req[r].extra]
    BY Zenon DEF RefundStep, StartRefund, RefundBucket, CapRefund, RefundWallet, EndRefund
  <2>2. returned[r].bucket \in Nat /\ returned[r].wallet \in Nat BY <1>1
  <2>3. /\ returned[r].bucket + req[r].included \in Nat
        /\ returned[r].wallet + req[r].extra \in Nat
    BY <1>2, <2>2
  <2> QED BY <1>1, <2>1, <2>3
<1>9. tokens' \in Nat
  <2>1. Allocation \in Nat BY Bounds
  <2>2. \/ tokens' = tokens \/ tokens' = tokens + req[r].included \/ tokens' = Allocation
    BY Zenon DEF RefundStep, StartRefund, RefundBucket, CapRefund, RefundWallet, EndRefund, Capped
  <2> QED BY <1>1, <1>2, <2>1, <2>2
<1>10. wallet' \in Nat
  <2>1. wallet' = wallet \/ wallet' = wallet + req[r].extra
    BY Zenon DEF RefundStep, StartRefund, RefundBucket, CapRefund, RefundWallet, EndRefund
  <2> QED BY <1>1, <1>2, <2>1
<1>11. lost' \in [bucket: Nat, wallet: Nat]
  <2>1. \/ UNCHANGED lost
        \/ lost' = [lost EXCEPT !.bucket = @ + req[r].included]
        \/ lost' = [lost EXCEPT !.wallet = @ + req[r].extra]
    BY Zenon DEF RefundStep, StartRefund, RefundBucket, CapRefund, RefundWallet, EndRefund, NoFault
  <2> QED BY <1>2, <2>1, LostTyped
<1>12. failures' \in 0..MaxFailures
  <2>1. Fault \/ NoFault
    BY Zenon DEF RefundStep, StartRefund, RefundBucket, CapRefund, RefundWallet, EndRefund
  <2> QED BY <2>1, FaultCounted, NoFaultKept
<1> QED BY <1>6, <1>7, <1>8, <1>9, <1>10, <1>11, <1>12

LEMMA RenewKeeps ==
    ASSUME IInv, Renew
    PROVE  IInv'
<1>1. Allocation \in Nat /\ MaxRenewals \in Nat BY Bounds
<1>2. lost' \in [bucket: Nat, wallet: Nat] /\ failures' \in 0..MaxFailures
  BY NoFaultKept DEF Renew
<1>3. renewals' \in 0..MaxRenewals BY <1>1 DEF Renew, IInv, TypeOK
<1>4. tokens' \in Nat /\ UNCHANGED <<wallet, req>> /\ NoRefund BY <1>1 DEF Renew
<1> QED BY <1>2, <1>3, <1>4 DEF IInv, TypeOK, NoRefund

LEMMA Starts == Init => IInv
<1> SUFFICES ASSUME Init PROVE IInv OBVIOUS
<1>1. {Allocation, Funds, MaxFailures, MaxRenewals} \subseteq Nat BY Bounds
<1>2. \A q \in Fresh : q \in Request
  <2> TAKE q \in Fresh
  <2>1. q \in [pc: {"new"}, estimate: Estimates, chargeAll: BOOLEAN, usable: BOOLEAN,
               available: {0}, included: {0}, extra: {0}, cost: {0}, delta: {0},
               uncovered: {0}, last: {FALSE}, failed: {FALSE}]
    BY DEF Fresh
  <2>2. {0} \subseteq Nat /\ {FALSE} \subseteq BOOLEAN /\ {"new"} \subseteq States BY DEF States
  <2> QED BY <2>1, <2>2 DEF Request
<1>3. \A q \in Fresh : q.pc = "new" /\ q.extra = 0 /\ q.included = 0 /\ ~q.last BY DEF Fresh
<1>4. \A q \in Fresh : Good(q) BY <1>2, <1>3 DEF Good, Phased, Settling
<1>5. req \in [Requests -> Request] /\ \A r \in Requests : Good(req[r])
  BY <1>2, <1>4 DEF Init
<1>6. TypeOK BY <1>1, <1>5 DEF Init, TypeOK, NotRefunding
<1> QED BY <1>5, <1>6 DEF IInv

LEMMA Inductive == IInv /\ [Next]_vars => IInv'
<1> SUFFICES ASSUME IInv, [Next]_vars PROVE IInv' OBVIOUS
<1>1. CASE UNCHANGED vars BY <1>1 DEF IInv, TypeOK, vars
<1>2. CASE Renew BY <1>2, RenewKeeps
<1>3. CASE \E r \in Requests : Step(r) BY <1>3, StepKeeps
<1>4. CASE \E r \in Requests : \E p \in Paths : RefundStep(r, p) BY <1>4, RefundKeeps
<1> QED BY <1>1, <1>2, <1>3, <1>4 DEF Next

\* Every variable stays within its type.
THEOREM TypeCorrect == Spec => []TypeOK
<1>1. IInv => TypeOK BY DEF IInv
<1> QED BY <1>1, Starts, Inductive, PTL DEF Spec

\* After its last settlement a request is charged its actual cost, or more if a
\* repayment failed, whatever other requests spend, and whatever fails or is
\* renewed meanwhile.
THEOREM ExactSettlement == Spec => []SettledExactly
<1>1. IInv => SettledExactly
  <2> SUFFICES ASSUME IInv, NEW r \in Requests, req[r].pc = "done" /\ req[r].last
               PROVE  LET total == Covered(req[r]) + req[r].uncovered
                      IN total = req[r].cost \/ (req[r].failed /\ total > req[r].cost)
    BY DEF SettledExactly
  <2> QED BY DEF IInv, Good, Settling, Total, Covered
<1> QED BY <1>1, Starts, Inductive, PTL DEF Spec

-----------------------------------------------------------------------------
(* The cap *)

\* A bucket above the allocation has a cap under way that read all of it.
CapsPending ==
    tokens > Allocation =>
        \E r \in Requests :
            \/ req[r].pc = "capping" /\ req[r].available >= tokens
            \/ \E p \in Paths : refund[r][p].bucket = "cap" /\ refund[r][p].value >= tokens

\* What only takes from the bucket leaves the caps under way.
LEMMA TakesKeepCaps ==
    ASSUME IInv, IInv', CapsPending, NEW r \in Requests, NEW q, req' = [req EXCEPT ![r] = q],
           req[r].pc # "capping", tokens' <= tokens, UNCHANGED refund
    PROVE  CapsPending'
<1>1. tokens \in Nat /\ tokens' \in Nat /\ Allocation \in Nat
  BY Bounds DEF IInv, TypeOK
<1>2. SUFFICES ASSUME tokens' > Allocation
               PROVE  \E s \in Requests :
                         \/ req'[s].pc = "capping" /\ req'[s].available >= tokens'
                         \/ \E p \in Paths : /\ refund'[s][p].bucket = "cap"
                                             /\ refund'[s][p].value >= tokens'
  BY DEF CapsPending
<1>3. tokens > Allocation BY <1>1, <1>2
<1>4. PICK s \in Requests :
          \/ req[s].pc = "capping" /\ req[s].available >= tokens
          \/ \E p \in Paths : refund[s][p].bucket = "cap" /\ refund[s][p].value >= tokens
  BY <1>3 DEF CapsPending
<1>5. CASE req[s].pc = "capping" /\ req[s].available >= tokens
  <2>1. req'[s] = req[s] BY <1>5 DEF IInv, TypeOK
  <2>2. req[s].available \in Nat BY DEF IInv, TypeOK, Request
  <2>3. req'[s].pc = "capping" /\ req'[s].available >= tokens' BY <1>1, <1>5, <2>1, <2>2
  <2> QED BY <2>3
<1>6. CASE \E p \in Paths : refund[s][p].bucket = "cap" /\ refund[s][p].value >= tokens
  <2>1. PICK p \in Paths : refund[s][p].bucket = "cap" /\ refund[s][p].value >= tokens BY <1>6
  <2>2. refund[s][p].value \in Nat BY DEF IInv, TypeOK
  <2>3. refund'[s][p].bucket = "cap" /\ refund'[s][p].value >= tokens' BY <1>1, <2>1, <2>2
  <2> QED BY <2>3
<1> QED BY <1>4, <1>5, <1>6

LEMMA StepCaps ==
    ASSUME IInv, IInv', CapsPending, NEW r \in Requests, Step(r)
    PROVE  CapsPending'
<1>1. tokens \in Nat /\ tokens' \in Nat /\ Allocation \in Nat
  BY Bounds DEF IInv, TypeOK
<1>2. UNCHANGED refund BY StepCounted DEF NoRefund
<1>3. CASE RestoreBucket(r)
  <2>1. req[r].pc # "capping" BY <1>3 DEF RestoreBucket
  <2>2. PICK q : Good(q) /\ req' = [req EXCEPT ![r] = q] BY <1>3, RestoreGood
  <2>3. CASE tokens' = tokens
    <3>1. tokens' <= tokens BY <1>1, <2>3
    <3> QED BY <1>2, <2>1, <2>2, <3>1, TakesKeepCaps
  <2>4. CASE tokens' = tokens + req[r].delta /\ tokens' # tokens
    <3>1. Goes(r, "capping", [req[r] EXCEPT !.available = tokens + req[r].delta,
                                           !.included = @ - req[r].delta, !.delta = 0])
      BY <1>3, <2>4 DEF RestoreBucket
    <3>2. req \in [Requests -> Request] BY DEF IInv, TypeOK
    <3>3. req'[r].pc = "capping" /\ req'[r].available = tokens'
      BY <2>4, <3>1, <3>2 DEF Goes, Request
    <3>4. req'[r].available >= tokens' BY <1>1, <3>3
    <3> QED BY <3>3, <3>4 DEF CapsPending
  <2> QED BY <1>3, <2>3, <2>4 DEF RestoreBucket
<1>4. CASE CapRestored(r)
  <2>1. PICK q : Good(q) /\ req' = [req EXCEPT ![r] = q] BY <1>4, CapGood
  <2>2. Capped(req[r].available) BY <1>4 DEF CapRestored
  <2>3. CASE req[r].available > Allocation
    BY <1>1, <2>2, <2>3 DEF Capped, CapsPending
  <2>4. CASE ~(req[r].available > Allocation)
    <3>1. tokens' = tokens BY <2>2, <2>4 DEF Capped
    <3>2. SUFFICES ASSUME tokens > Allocation PROVE CapsPending'
      BY <3>1 DEF CapsPending
    <3>3. req[r].available \in Nat BY DEF IInv, TypeOK, Request
    <3>4. ~(req[r].available >= tokens) BY <1>1, <2>4, <3>2, <3>3
    <3>5. PICK s \in Requests :
              \/ req[s].pc = "capping" /\ req[s].available >= tokens
              \/ \E p \in Paths : refund[s][p].bucket = "cap" /\ refund[s][p].value >= tokens
      BY <3>2 DEF CapsPending
    <3>6. s # r => req'[s] = req[s] BY <2>1 DEF IInv, TypeOK
    <3> QED BY <1>2, <3>1, <3>4, <3>5, <3>6 DEF CapsPending
  <2> QED BY <2>3, <2>4
<1>5. ASSUME req[r].pc # "capping", tokens' <= tokens PROVE CapsPending'
  <2>1. PICK q : Good(q) /\ req' = [req EXCEPT ![r] = q] BY StepGood
  <2> QED BY <1>2, <1>5, <2>1, TakesKeepCaps
<1>6. CASE Check(r)
  <2>1. tokens' <= tokens BY <1>1, <1>6 DEF Check, Lesser
  <2> QED BY <1>5, <1>6, <2>1 DEF Check
<1>7. CASE DebitBucket(r) BY <1>5, <1>7, DebitGood DEF DebitBucket
<1>8. CASE TakeFromBucket(r)
  <2>1. req[r].pc = "taking" BY <1>8, Zenon DEF TakeFromBucket
  <2>2. tokens' <= tokens BY <1>8, TakeGood
  <2> QED BY <1>5, <2>1, <2>2
<1>9. CASE /\ UNCHANGED tokens
           /\ req[r].pc \in {"funding", "undoing", "running", "stopping", "peeking", "charging",
                            "repaying"}
  <2>1. tokens' <= tokens BY <1>1, <1>9
  <2> QED BY <1>5, <1>9, <2>1
<1>10. \/ RestoreBucket(r) \/ CapRestored(r) \/ Check(r) \/ DebitBucket(r) \/ TakeFromBucket(r)
       \/ /\ UNCHANGED tokens
          /\ req[r].pc \in {"funding", "undoing", "running", "stopping", "peeking", "charging",
                           "repaying"}
  BY Zenon DEF Step, FundShortfall, UndoFunding, FinishStep, Finish, Peek, ChargeWallet, RepayWallet
<1> QED BY <1>3, <1>4, <1>6, <1>7, <1>8, <1>9, <1>10

LEMMA RefundCaps ==
    ASSUME IInv, IInv', CapsPending, NEW r \in Requests, NEW p \in Paths, RefundStep(r, p)
    PROVE  CapsPending'
<1> DEFINE Ref == [bucket: {"no", "add", "cap", "done"}, wallet: {"no", "add", "done"}, value: Nat]
<1>1. tokens \in Nat /\ tokens' \in Nat /\ Allocation \in Nat
  BY Bounds DEF IInv, TypeOK
<1>2. refund \in [Requests -> [Paths -> Ref]] /\ UNCHANGED req
  BY Zenon DEF IInv, TypeOK, RefundStep, StartRefund, RefundBucket, CapRefund, RefundWallet, EndRefund
<1>3. ASSUME UNCHANGED tokens,
             \/ refund[r][p].bucket # "cap"
             \/ tokens <= Allocation
             \/ refund[r][p].value < tokens
             \/ /\ refund'[r][p].bucket = refund[r][p].bucket
                /\ refund'[r][p].value = refund[r][p].value,
             \A s \in Requests : \A o \in Paths :
                 s # r \/ o # p => refund'[s][o] = refund[s][o]
      PROVE  CapsPending'
  <2>1. SUFFICES ASSUME tokens > Allocation PROVE CapsPending' BY <1>3 DEF CapsPending
  <2>2. PICK s \in Requests :
            \/ req[s].pc = "capping" /\ req[s].available >= tokens
            \/ \E o \in Paths : refund[s][o].bucket = "cap" /\ refund[s][o].value >= tokens
    BY <2>1 DEF CapsPending
  <2>3. CASE req[s].pc = "capping" /\ req[s].available >= tokens
    BY <1>2, <1>3, <2>3 DEF CapsPending
  <2>4. CASE \E o \in Paths : refund[s][o].bucket = "cap" /\ refund[s][o].value >= tokens
    <3>1. PICK o \in Paths : refund[s][o].bucket = "cap" /\ refund[s][o].value >= tokens BY <2>4
    <3>2. refund[r][p].value \in Nat BY <1>2
    <3>3. refund'[s][o].bucket = "cap" /\ refund'[s][o].value >= tokens
      <4>1. CASE s # r \/ o # p BY <1>3, <3>1, <4>1
      <4>2. CASE s = r /\ o = p
        <5>1. ~(tokens <= Allocation) /\ ~(refund[r][p].value < tokens)
          BY <1>1, <2>1, <3>1, <3>2, <4>2
        <5> QED BY <1>3, <3>1, <4>2, <5>1
      <4> QED BY <4>1, <4>2
    <3> QED BY <1>3, <3>3 DEF CapsPending
  <2> QED BY <2>2, <2>3, <2>4
<1>4. ASSUME NEW f, refund' = [refund EXCEPT ![r][p] = f]
      PROVE  /\ refund'[r][p] = f
             /\ \A s \in Requests : \A o \in Paths :
                    s # r \/ o # p => refund'[s][o] = refund[s][o]
  BY <1>2, <1>4
<1>5. refund[r][p] \in Ref BY <1>2
<1>6. CASE StartRefund(r, p) \/ EndRefund(r, p)
  <2>1. PICK f : refund' = [refund EXCEPT ![r][p] = f] BY <1>6 DEF StartRefund, EndRefund
  <2>2. refund[r][p].bucket # "cap" BY <1>6 DEF StartRefund, EndRefund, NotRefunding
  <2>3. UNCHANGED tokens BY <1>6 DEF StartRefund, EndRefund
  <2> QED BY <1>3, <1>4, <2>1, <2>2, <2>3
<1>7. CASE RefundWallet(r, p)
  <2> DEFINE f == [refund[r][p] EXCEPT !.wallet = "done"]
  <2>1. refund' = [refund EXCEPT ![r][p] = f] /\ UNCHANGED tokens BY <1>2, <1>7 DEF RefundWallet
  <2>2. f.bucket = refund[r][p].bucket /\ f.value = refund[r][p].value BY <1>5
  <2>3. refund'[r][p] = f BY <1>4, <2>1
  <2> HIDE DEF f
  <2> QED BY <1>3, <1>4, <2>1, <2>2, <2>3
<1>8. CASE RefundBucket(r, p)
  <2>1. refund[r][p].bucket = "add" BY <1>8 DEF RefundBucket
  <2>2. CASE /\ tokens' = tokens + req[r].included
             /\ refund' = [refund EXCEPT ![r][p] =
                              [@ EXCEPT !.bucket = "cap", !.value = tokens + req[r].included]]
    <3>1. refund'[r][p].bucket = "cap" /\ refund'[r][p].value = tokens' BY <1>2, <1>5, <2>2
    <3>2. refund'[r][p].value >= tokens' BY <1>1, <3>1
    <3> QED BY <3>1, <3>2 DEF CapsPending
  <2>3. CASE UNCHANGED tokens /\ refund' = [refund EXCEPT ![r][p].bucket = "done"]
    <3> DEFINE f == [refund[r][p] EXCEPT !.bucket = "done"]
    <3>1. refund' = [refund EXCEPT ![r][p] = f] BY <1>2, <2>3
    <3> HIDE DEF f
    <3> QED BY <1>3, <1>4, <2>1, <2>3, <3>1
  <2> QED BY <1>8, <2>2, <2>3 DEF RefundBucket
<1>9. CASE CapRefund(r, p)
  <2>1. Capped(refund[r][p].value) BY <1>9 DEF CapRefund
  <2>2. CASE refund[r][p].value > Allocation
    <3>1. tokens' = Allocation BY <2>1, <2>2 DEF Capped
    <3> QED BY <1>1, <3>1 DEF CapsPending
  <2>3. CASE ~(refund[r][p].value > Allocation)
    <3>1. UNCHANGED tokens BY <2>1, <2>3 DEF Capped
    <3>2. refund[r][p].value \in Nat BY <1>5
    <3>3. tokens <= Allocation \/ refund[r][p].value < tokens BY <1>1, <2>3, <3>2
    <3> DEFINE f == [refund[r][p] EXCEPT !.bucket = "done"]
    <3>4. refund' = [refund EXCEPT ![r][p] = f] BY <1>2, <1>9 DEF CapRefund
    <3> HIDE DEF f
    <3>5. \A s \in Requests : \A o \in Paths :
             s # r \/ o # p => refund'[s][o] = refund[s][o]
      BY <1>4, <3>4
    <3> QED BY <1>3, <3>1, <3>3, <3>5
  <2> QED BY <2>2, <2>3
<1> QED BY <1>6, <1>7, <1>8, <1>9 DEF RefundStep

\* However charges, reconciliations, refunds and renewals interleave, a bucket
\* above the cycle's allocation is about to be capped.
THEOREM AlwaysCapped == Spec => []CappedAtRest
<1>1. Init => CapsPending
  <2> SUFFICES ASSUME Init PROVE CapsPending OBVIOUS
  <2>1. Allocation \in Nat BY Bounds
  <2> QED BY <2>1 DEF Init, CapsPending
<1>2. IInv /\ IInv' /\ CapsPending /\ [Next]_vars => CapsPending'
  <2> SUFFICES ASSUME IInv, IInv', CapsPending, [Next]_vars PROVE CapsPending' OBVIOUS
  <2>1. CASE UNCHANGED vars BY <2>1 DEF CapsPending, vars
  <2>2. CASE Renew
    <3>1. Allocation \in Nat BY Bounds
    <3> QED BY <2>2, <3>1 DEF Renew, CapsPending
  <2>3. CASE \E r \in Requests : Step(r) BY <2>3, StepCaps
  <2>4. CASE \E r \in Requests : \E p \in Paths : RefundStep(r, p) BY <2>4, RefundCaps
  <2> QED BY <2>1, <2>2, <2>3, <2>4 DEF Next
<1>3. CapsPending => CappedAtRest BY DEF CapsPending, CappedAtRest
<1> QED BY <1>1, <1>2, <1>3, Starts, Inductive, PTL DEF Spec

-----------------------------------------------------------------------------
(* The refund *)

\* Only the run itself calls refund(): onCancel of its task does not.
OnePath == \A p, o \in Paths : p = o

\* While a request is refunded, and after, it does not change; what it was
\* given back is nothing before the refund and then one of its parts at most.
Tracked(r) ==
    /\ Refunding(r) \/ refunded[r] => req[r].pc \in {"running", "done"}
    /\ ~Refunding(r) /\ ~refunded[r] => returned[r].bucket = 0 /\ returned[r].wallet = 0
    /\ \A p \in Paths : /\ refund[r][p].bucket = "add" => returned[r].bucket = 0
                        /\ refund[r][p].wallet = "add" => returned[r].wallet = 0
    /\ returned[r].bucket <= req[r].included /\ returned[r].wallet <= req[r].extra

LEMMA StepTracked ==
    ASSUME IInv, IInv', NEW s \in Requests, Tracked(s), NEW r \in Requests, Step(r)
    PROVE  Tracked(s)'
<1>1. UNCHANGED <<refund, refunded, returned>> BY StepCounted DEF NoRefund
<1>2. PICK q : Good(q) /\ req' = [req EXCEPT ![r] = q] BY StepGood
<1>3. CASE s # r
  <2>1. req'[s] = req[s] BY <1>2, <1>3 DEF IInv, TypeOK
  <2> QED BY <1>1, <2>1 DEF Tracked, Refunding
<1>4. CASE s = r
  <2>1. ~Refunding(r) /\ ~refunded[r]
    <3>1. CASE req[r].pc \in {"running", "done"}
      BY <3>1 DEF Step, Check, FundShortfall, DebitBucket, UndoFunding, FinishStep, Finish, Peek,
                  TakeFromBucket, ChargeWallet, RepayWallet, RestoreBucket, CapRestored
    <3> QED BY <3>1, <1>4 DEF Tracked
  <2>2. returned[r].bucket = 0 /\ returned[r].wallet = 0 BY <1>4, <2>1 DEF Tracked
  <2>3. req'[r].included \in Nat /\ req'[r].extra \in Nat BY DEF IInv, TypeOK, Request
  <2> QED BY <1>1, <1>4, <2>1, <2>2, <2>3 DEF Tracked, Refunding
<1> QED BY <1>3, <1>4

LEMMA RefundTracked ==
    ASSUME OnePath, IInv, NEW s \in Requests, Tracked(s), NEW r \in Requests, NEW p \in Paths,
           RefundStep(r, p)
    PROVE  Tracked(s)'
<1> DEFINE Ref == [bucket: {"no", "add", "cap", "done"}, wallet: {"no", "add", "done"}, value: Nat]
<1>1. /\ refund \in [Requests -> [Paths -> Ref]] /\ refunded \in [Requests -> BOOLEAN]
      /\ returned \in [Requests -> [bucket: Nat, wallet: Nat]]
      /\ req[r].included \in Nat /\ req[r].extra \in Nat
  BY DEF IInv, TypeOK, Request
<1>2. UNCHANGED req
  BY Zenon DEF RefundStep, StartRefund, RefundBucket, CapRefund, RefundWallet, EndRefund
<1>3. CASE s # r
  <2>1. refund'[s] = refund[s] /\ refunded'[s] = refunded[s] /\ returned'[s] = returned[s]
    BY <1>1, <1>3
    DEF RefundStep, StartRefund, RefundBucket, CapRefund, RefundWallet, EndRefund
  <2> QED BY <1>2, <2>1 DEF Tracked, Refunding
<1>4. CASE s = r
  <2>1. \A o \in Paths : o = p BY DEF OnePath
  <2>2. Refunding(r) <=> refund[r][p] # NotRefunding BY <2>1 DEF Refunding
  <2>3. Refunding(r)' <=> refund'[r][p] # NotRefunding BY <2>1 DEF Refunding
  <2>4. SUFFICES
          /\ refund'[r][p] # NotRefunding \/ refunded'[r] => req[r].pc \in {"running", "done"}
          /\ refund'[r][p] = NotRefunding /\ ~refunded'[r] =>
                 returned'[r].bucket = 0 /\ returned'[r].wallet = 0
          /\ refund'[r][p].bucket = "add" => returned'[r].bucket = 0
          /\ refund'[r][p].wallet = "add" => returned'[r].wallet = 0
          /\ returned'[r].bucket <= req[r].included /\ returned'[r].wallet <= req[r].extra
    BY <1>2, <1>4, <2>1, <2>3 DEF Tracked
  <2>5. /\ refund[r][p] # NotRefunding \/ refunded[r] => req[r].pc \in {"running", "done"}
        /\ refund[r][p] = NotRefunding /\ ~refunded[r] =>
               returned[r].bucket = 0 /\ returned[r].wallet = 0
        /\ refund[r][p].bucket = "add" => returned[r].bucket = 0
        /\ refund[r][p].wallet = "add" => returned[r].wallet = 0
        /\ returned[r].bucket <= req[r].included /\ returned[r].wallet <= req[r].extra
    BY <1>4, <2>2 DEF Tracked
  <2>6. refund[r][p] \in Ref /\ returned[r] \in [bucket: Nat, wallet: Nat] BY <1>1
  <2>7. CASE StartRefund(r, p)
    <3>1. /\ refund[r][p] = NotRefunding /\ ~refunded[r] /\ req[r].pc \in {"running", "done"}
          /\ UNCHANGED <<refunded, returned>>
      BY <2>7 DEF StartRefund
    <3> QED BY <2>5, <3>1
  <2>8. CASE RefundBucket(r, p)
    <3>1. refund[r][p].bucket = "add" /\ UNCHANGED refunded BY <2>8 DEF RefundBucket
    <3>2. /\ refund[r][p] # NotRefunding /\ returned[r].bucket = 0
      BY <2>5, <3>1 DEF NotRefunding
    <3>3. returned' = [returned EXCEPT ![r].bucket = @ + req[r].included]
      BY <2>8 DEF RefundBucket
    <3>4. returned'[r].bucket = req[r].included /\ returned'[r].wallet = returned[r].wallet
      BY <1>1, <2>6, <3>2, <3>3
    <3>5. /\ refund'[r][p].bucket \in {"cap", "done"}
          /\ refund'[r][p].wallet = refund[r][p].wallet
      <4>1. CASE refund' = [refund EXCEPT ![r][p] =
                              [@ EXCEPT !.bucket = "cap", !.value = tokens + req[r].included]]
        BY <1>1, <2>6, <4>1
      <4>2. CASE refund' = [refund EXCEPT ![r][p].bucket = "done"] BY <1>1, <2>6, <4>2
      <4> QED BY <2>8, <4>1, <4>2, Zenon DEF RefundBucket
    <3>6. refund'[r][p] # NotRefunding BY <3>5 DEF NotRefunding
    <3> QED BY <1>1, <2>5, <3>1, <3>2, <3>4, <3>5, <3>6
  <2>9. CASE CapRefund(r, p)
    <3>1. refund[r][p].bucket = "cap" /\ UNCHANGED <<refunded, returned>> BY <2>9 DEF CapRefund
    <3>2. refund[r][p] # NotRefunding BY <3>1 DEF NotRefunding
    <3>3. refund'[r][p].bucket = "done" /\ refund'[r][p].wallet = refund[r][p].wallet
      BY <1>1, <2>6, <2>9 DEF CapRefund
    <3>4. refund'[r][p] # NotRefunding BY <3>3 DEF NotRefunding
    <3> QED BY <2>5, <3>1, <3>2, <3>3, <3>4
  <2>10. CASE RefundWallet(r, p)
    <3>1. refund[r][p].wallet = "add" /\ UNCHANGED refunded BY <2>10 DEF RefundWallet
    <3>2. refund[r][p] # NotRefunding /\ returned[r].wallet = 0
      BY <2>5, <3>1 DEF NotRefunding
    <3>3. returned' = [returned EXCEPT ![r].wallet = @ + req[r].extra]
      BY <2>10 DEF RefundWallet
    <3>4. returned'[r].wallet = req[r].extra /\ returned'[r].bucket = returned[r].bucket
      BY <1>1, <2>6, <3>2, <3>3
    <3>5. refund'[r][p].wallet = "done" /\ refund'[r][p].bucket = refund[r][p].bucket
      BY <1>1, <2>6, <2>10 DEF RefundWallet
    <3>6. refund'[r][p] # NotRefunding BY <3>5 DEF NotRefunding
    <3> QED BY <1>1, <2>5, <3>1, <3>2, <3>4, <3>5, <3>6
  <2>11. CASE EndRefund(r, p)
    <3>1. refund[r][p].bucket = "done" /\ UNCHANGED returned BY <2>11 DEF EndRefund
    <3>2. refund[r][p] # NotRefunding BY <3>1 DEF NotRefunding
    <3>3. refund'[r][p] = NotRefunding /\ refunded'[r] BY <1>1, <2>11 DEF EndRefund
    <3> QED BY <2>5, <3>1, <3>2, <3>3 DEF NotRefunding
  <2> QED BY <2>7, <2>8, <2>9, <2>10, <2>11 DEF RefundStep
<1> QED BY <1>3, <1>4

AllTracked == \A s \in Requests : Tracked(s)

LEMMA AlwaysTracked ==
    ASSUME OnePath
    PROVE  Spec => []AllTracked
<1>1. Init => AllTracked
  <2> SUFFICES ASSUME Init, NEW s \in Requests PROVE Tracked(s) BY DEF AllTracked
  <2>1. req[s] \in Fresh BY DEF Init
  <2>2. req[s].included = 0 /\ req[s].extra = 0 BY <2>1 DEF Fresh
  <2> QED BY <2>2 DEF Init, Tracked, Refunding, NotRefunding
<1>2. IInv /\ IInv' /\ AllTracked /\ [Next]_vars => AllTracked'
  <2> SUFFICES ASSUME IInv, IInv', AllTracked, [Next]_vars, NEW s \in Requests
               PROVE  Tracked(s)'
    BY DEF AllTracked
  <2>1. Tracked(s) BY DEF AllTracked
  <2>2. CASE UNCHANGED vars BY <2>1, <2>2 DEF Tracked, Refunding, vars
  <2>3. CASE Renew BY <2>1, <2>3 DEF Renew, NoRefund, Tracked, Refunding
  <2>4. CASE \E r \in Requests : Step(r) BY <2>1, <2>4, StepTracked
  <2>5. CASE \E r \in Requests : \E p \in Paths : RefundStep(r, p) BY <2>1, <2>5, RefundTracked
  <2> QED BY <2>2, <2>3, <2>4, <2>5 DEF Next
<1> QED BY <1>1, <1>2, Starts, Inductive, PTL DEF Spec

\* If only the run itself refunds, no request gets back more than it was
\* charged, whichever calls of the refund fail.
THEOREM RefundsOnce ==
    ASSUME OnePath
    PROVE  Spec => []RefundedOnce
<1>1. AllTracked => RefundedOnce BY DEF AllTracked, Tracked, RefundedOnce
<1> QED BY <1>1, AlwaysTracked, PTL

\* If only the run itself refunds, a refund gives back at most what was charged
\* and fills no bucket beyond its cycle.
THEOREM RefundBounded ==
    ASSUME OnePath
    PROVE  Spec => []RefundIsBounded
<1>1. CappedAtRest /\ RefundedOnce => RefundIsBounded BY DEF RefundIsBounded
<1> QED BY <1>1, AlwaysCapped, RefundsOnce, PTL

-----------------------------------------------------------------------------
(* The refund on two paths                                                 *)
(*                                                                         *)
(* The run and onCancel of its task may both be in refund() before either  *)
(* sets hasRefunded: then each gives back what was charged. No path does   *)
(* so twice, so that is the most a request gets back, whatever fails.      *)

\* The paths that may still give back the bucket's part, or the wallet's.
BucketOpen(r) ==
    {p \in Paths : refund[r][p].bucket = "add" \/ (refund[r][p].bucket = "no" /\ ~refunded[r])}
WalletOpen(r) ==
    {p \in Paths : refund[r][p].wallet = "add" \/ (refund[r][p].wallet = "no" /\ ~refunded[r])}

\* What was given back of a part, by the paths that may no longer do so.
GivenBack(points, part, open) ==
    /\ open = Paths => points = 0
    /\ open # {} => points <= part
    /\ points <= part + part

TrackedTwice(r) ==
    /\ Refunding(r) \/ refunded[r] => req[r].pc \in {"running", "done"}
    /\ GivenBack(returned[r].bucket, req[r].included, BucketOpen(r))
    /\ GivenBack(returned[r].wallet, req[r].extra, WalletOpen(r))

LEMMA NothingBack ==
    ASSUME NEW part \in Nat, NEW open
    PROVE  GivenBack(0, part, open)
BY DEF GivenBack

LEMMA FewerOpen ==
    ASSUME NEW points \in Nat, NEW part \in Nat, NEW open \in SUBSET Paths,
           NEW less \in SUBSET open, GivenBack(points, part, open)
    PROVE  GivenBack(points, part, less)
<1>1. less = Paths => open = Paths OBVIOUS
<1>2. less # {} => open # {} OBVIOUS
<1> QED BY <1>1, <1>2 DEF GivenBack

LEMMA OneGivesBack ==
    ASSUME NEW points \in Nat, NEW part \in Nat, NEW open \in SUBSET Paths, NEW p \in open,
           GivenBack(points, part, open)
    PROVE  GivenBack(points + part, part, open \ {p})
<1>1. points <= part BY DEF GivenBack
<1>2. open \ {p} # Paths OBVIOUS
<1>3. open \ {p} # {} => open = Paths BY Bounds
<1>4. open = Paths => points = 0 BY DEF GivenBack
<1>5. points + part <= part + part BY <1>1
<1>6. open \ {p} # {} => points + part <= part BY <1>3, <1>4
<1> QED BY <1>2, <1>5, <1>6 DEF GivenBack

LEMMA StepTrackedTwice ==
    ASSUME IInv, IInv', NEW s \in Requests, TrackedTwice(s), NEW r \in Requests, Step(r)
    PROVE  TrackedTwice(s)'
<1>1. UNCHANGED <<refund, refunded, returned>> BY StepCounted DEF NoRefund
<1>2. BucketOpen(s)' = BucketOpen(s) /\ WalletOpen(s)' = WalletOpen(s)
  BY <1>1 DEF BucketOpen, WalletOpen
<1>3. PICK q : Good(q) /\ req' = [req EXCEPT ![r] = q] BY StepGood
<1>4. CASE s # r
  <2>1. req'[s] = req[s] BY <1>3, <1>4 DEF IInv, TypeOK
  <2> QED BY <1>1, <1>2, <2>1 DEF TrackedTwice, Refunding, GivenBack
<1>5. CASE s = r
  <2>1. ~Refunding(r) /\ ~refunded[r]
    <3>1. CASE req[r].pc \in {"running", "done"}
      BY <3>1 DEF Step, Check, FundShortfall, DebitBucket, UndoFunding, FinishStep, Finish, Peek,
                  TakeFromBucket, ChargeWallet, RepayWallet, RestoreBucket, CapRestored
    <3> QED BY <3>1, <1>5 DEF TrackedTwice
  <2>2. BucketOpen(r) = Paths /\ WalletOpen(r) = Paths
    BY <2>1 DEF BucketOpen, WalletOpen, Refunding, NotRefunding
  <2>3. returned[r].bucket = 0 /\ returned[r].wallet = 0
    BY <1>5, <2>2 DEF TrackedTwice, GivenBack
  <2>4. req'[r].included \in Nat /\ req'[r].extra \in Nat BY DEF IInv, TypeOK, Request
  <2>5. ~Refunding(r)' /\ ~refunded'[r] BY <1>1, <2>1 DEF Refunding
  <2>6. GivenBack(0, req'[r].included, BucketOpen(r)) /\ GivenBack(0, req'[r].extra, WalletOpen(r))
    BY <2>4, NothingBack
  <2> QED BY <1>1, <1>2, <1>5, <2>3, <2>5, <2>6 DEF TrackedTwice, GivenBack
<1> QED BY <1>4, <1>5

LEMMA RefundTrackedTwice ==
    ASSUME IInv, NEW s \in Requests, TrackedTwice(s), NEW r \in Requests, NEW p \in Paths,
           RefundStep(r, p)
    PROVE  TrackedTwice(s)'
<1> DEFINE Ref == [bucket: {"no", "add", "cap", "done"}, wallet: {"no", "add", "done"}, value: Nat]
<1>1. /\ refund \in [Requests -> [Paths -> Ref]] /\ refunded \in [Requests -> BOOLEAN]
      /\ returned \in [Requests -> [bucket: Nat, wallet: Nat]]
      /\ req[r].included \in Nat /\ req[r].extra \in Nat
  BY DEF IInv, TypeOK, Request
<1>2. UNCHANGED req
  BY Zenon DEF RefundStep, StartRefund, RefundBucket, CapRefund, RefundWallet, EndRefund
<1>3. CASE s # r
  <2>1. refund'[s] = refund[s] /\ refunded'[s] = refunded[s] /\ returned'[s] = returned[s]
    BY <1>1, <1>3
    DEF RefundStep, StartRefund, RefundBucket, CapRefund, RefundWallet, EndRefund
  <2>2. BucketOpen(s)' = BucketOpen(s) /\ WalletOpen(s)' = WalletOpen(s)
    BY <2>1 DEF BucketOpen, WalletOpen
  <2> QED BY <1>2, <2>1, <2>2 DEF TrackedTwice, Refunding, GivenBack
<1>4. CASE s = r
  <2> DEFINE bo == BucketOpen(r)
             wo == WalletOpen(r)
             X == returned[r].bucket
             Y == returned[r].wallet
  <2>1. /\ refund[r][p] \in Ref /\ returned[r] \in [bucket: Nat, wallet: Nat]
        /\ X \in Nat /\ Y \in Nat
    BY <1>1
  <2>2. bo \in SUBSET Paths /\ wo \in SUBSET Paths BY DEF BucketOpen, WalletOpen
  <2>3. GivenBack(X, req[r].included, bo) /\ GivenBack(Y, req[r].extra, wo)
    BY <1>4 DEF TrackedTwice
  <2>4. req[r].pc \in {"running", "done"}
    <3>1. CASE StartRefund(r, p) BY <3>1 DEF StartRefund
    <3>2. CASE refund[r][p] # NotRefunding BY <1>4, <3>2 DEF TrackedTwice, Refunding
    <3> QED BY <3>1, <3>2
        DEF RefundStep, RefundBucket, CapRefund, RefundWallet, EndRefund, NotRefunding
  <2>5. SUFFICES /\ GivenBack(returned'[r].bucket, req[r].included, bo')
                 /\ GivenBack(returned'[r].wallet, req[r].extra, wo')
    BY <1>2, <1>4, <2>4 DEF TrackedTwice, GivenBack
  <2>6. ASSUME NEW f, refund' = [refund EXCEPT ![r][p] = f]
        PROVE  refund'[r][p] = f /\ \A o \in Paths : o # p => refund'[r][o] = refund[r][o]
    BY <1>1, <2>6
  <2>7. ASSUME returned'[r] = returned[r], bo' \subseteq bo, wo' \subseteq wo
        PROVE  /\ GivenBack(returned'[r].bucket, req[r].included, bo')
               /\ GivenBack(returned'[r].wallet, req[r].extra, wo')
    <3>1. bo' \in SUBSET bo /\ wo' \in SUBSET wo BY <2>7
    <3>2. GivenBack(X, req[r].included, bo') /\ GivenBack(Y, req[r].extra, wo')
      BY <1>1, <2>1, <2>2, <2>3, <3>1, FewerOpen
    <3> QED BY <2>7, <3>2
  <2>8. CASE StartRefund(r, p)
    <3>1. /\ refund[r][p] = NotRefunding /\ ~refunded[r] /\ UNCHANGED <<refunded, returned>>
      BY <2>8 DEF StartRefund
    <3>2. PICK f : refund' = [refund EXCEPT ![r][p] = f] BY <2>8 DEF StartRefund
    <3>3. p \in bo /\ p \in wo BY <3>1 DEF BucketOpen, WalletOpen, NotRefunding
    <3>4. bo' \subseteq bo /\ wo' \subseteq wo
      BY <2>6, <3>1, <3>2, <3>3 DEF BucketOpen, WalletOpen
    <3> QED BY <2>7, <3>1, <3>4
  <2>9. CASE RefundBucket(r, p)
    <3>1. refund[r][p].bucket = "add" /\ UNCHANGED refunded BY <2>9 DEF RefundBucket
    <3>2. returned' = [returned EXCEPT ![r].bucket = @ + req[r].included]
      BY <2>9 DEF RefundBucket
    <3>3. returned'[r].bucket = X + req[r].included /\ returned'[r].wallet = Y
      BY <1>1, <2>1, <3>2
    <3>4. /\ refund'[r][p].bucket \in {"cap", "done"}
          /\ refund'[r][p].wallet = refund[r][p].wallet
          /\ \A o \in Paths : o # p => refund'[r][o] = refund[r][o]
      <4>1. CASE refund' = [refund EXCEPT ![r][p] =
                              [@ EXCEPT !.bucket = "cap", !.value = tokens + req[r].included]]
        BY <1>1, <2>1, <4>1
      <4>2. CASE refund' = [refund EXCEPT ![r][p].bucket = "done"] BY <1>1, <2>1, <4>2
      <4> QED BY <2>9, <4>1, <4>2, Zenon DEF RefundBucket
    <3>5. p \in bo BY <3>1 DEF BucketOpen
    <3>6. bo' = bo \ {p} /\ wo' = wo BY <3>1, <3>4 DEF BucketOpen, WalletOpen
    <3>7. GivenBack(X + req[r].included, req[r].included, bo \ {p})
      BY <1>1, <2>1, <2>2, <2>3, <3>5, OneGivesBack
    <3> QED BY <2>3, <3>3, <3>6, <3>7
  <2>10. CASE CapRefund(r, p)
    <3>1. refund[r][p].bucket = "cap" /\ UNCHANGED <<refunded, returned>> BY <2>10 DEF CapRefund
    <3>2. /\ refund'[r][p].bucket = "done" /\ refund'[r][p].wallet = refund[r][p].wallet
          /\ \A o \in Paths : o # p => refund'[r][o] = refund[r][o]
      BY <1>1, <2>1, <2>10 DEF CapRefund
    <3>3. bo' \subseteq bo /\ wo' \subseteq wo BY <3>1, <3>2 DEF BucketOpen, WalletOpen
    <3> QED BY <2>7, <3>1, <3>3
  <2>11. CASE RefundWallet(r, p)
    <3>1. refund[r][p].wallet = "add" /\ UNCHANGED refunded BY <2>11 DEF RefundWallet
    <3>2. returned' = [returned EXCEPT ![r].wallet = @ + req[r].extra]
      BY <2>11 DEF RefundWallet
    <3>3. returned'[r].wallet = Y + req[r].extra /\ returned'[r].bucket = X
      BY <1>1, <2>1, <3>2
    <3>4. /\ refund'[r][p].wallet = "done" /\ refund'[r][p].bucket = refund[r][p].bucket
          /\ \A o \in Paths : o # p => refund'[r][o] = refund[r][o]
      BY <1>1, <2>1, <2>11 DEF RefundWallet
    <3>5. p \in wo BY <3>1 DEF WalletOpen
    <3>6. wo' = wo \ {p} /\ bo' = bo BY <3>1, <3>4 DEF BucketOpen, WalletOpen
    <3>7. GivenBack(Y + req[r].extra, req[r].extra, wo \ {p})
      BY <1>1, <2>1, <2>2, <2>3, <3>5, OneGivesBack
    <3> QED BY <2>3, <3>3, <3>6, <3>7
  <2>12. CASE EndRefund(r, p)
    <3>1. UNCHANGED returned /\ refunded'[r] BY <1>1, <2>12 DEF EndRefund
    <3>2. refund'[r][p] = NotRefunding /\ \A o \in Paths : o # p => refund'[r][o] = refund[r][o]
      BY <1>1, <2>12 DEF EndRefund
    <3>3. bo' \subseteq bo /\ wo' \subseteq wo
      BY <3>1, <3>2 DEF BucketOpen, WalletOpen, NotRefunding
    <3> QED BY <2>7, <3>1, <3>3
  <2> QED BY <2>8, <2>9, <2>10, <2>11, <2>12 DEF RefundStep
<1> QED BY <1>3, <1>4

AllTrackedTwice == \A s \in Requests : TrackedTwice(s)

RefundedTwiceAtMost ==
    \A r \in Requests :
        /\ returned[r].bucket <= req[r].included + req[r].included
        /\ returned[r].wallet <= req[r].extra + req[r].extra

\* Even if both paths are in refund() at once and any of their calls fail, no
\* request gets back more than twice what it was charged, and only what it is
\* charged by then: it is not charged any more once a refund has begun.
THEOREM RefundsTwiceAtMost == Spec => []RefundedTwiceAtMost
<1>1. Init => AllTrackedTwice
  <2> SUFFICES ASSUME Init, NEW s \in Requests PROVE TrackedTwice(s) BY DEF AllTrackedTwice
  <2>1. req[s] \in Fresh BY DEF Init
  <2>2. req[s].included = 0 /\ req[s].extra = 0 BY <2>1 DEF Fresh
  <2>3. returned[s].bucket = 0 /\ returned[s].wallet = 0 BY DEF Init
  <2>4. GivenBack(0, 0, BucketOpen(s)) /\ GivenBack(0, 0, WalletOpen(s)) BY NothingBack
  <2> QED BY <2>2, <2>3, <2>4 DEF Init, TrackedTwice, Refunding, NotRefunding
<1>2. IInv /\ IInv' /\ AllTrackedTwice /\ [Next]_vars => AllTrackedTwice'
  <2> SUFFICES ASSUME IInv, IInv', AllTrackedTwice, [Next]_vars, NEW s \in Requests
               PROVE  TrackedTwice(s)'
    BY DEF AllTrackedTwice
  <2>1. TrackedTwice(s) BY DEF AllTrackedTwice
  <2>2. ASSUME UNCHANGED <<req, refund, refunded, returned>> PROVE TrackedTwice(s)'
    <3>1. BucketOpen(s)' = BucketOpen(s) /\ WalletOpen(s)' = WalletOpen(s)
      BY <2>2 DEF BucketOpen, WalletOpen
    <3> QED BY <2>1, <2>2, <3>1 DEF TrackedTwice, Refunding, GivenBack
  <2>3. CASE UNCHANGED vars BY <2>2, <2>3 DEF vars
  <2>4. CASE Renew BY <2>2, <2>4 DEF Renew, NoRefund
  <2>5. CASE \E r \in Requests : Step(r) BY <2>1, <2>5, StepTrackedTwice
  <2>6. CASE \E r \in Requests : \E p \in Paths : RefundStep(r, p)
    BY <2>1, <2>6, RefundTrackedTwice
  <2> QED BY <2>3, <2>4, <2>5, <2>6 DEF Next
<1>3. AllTrackedTwice => RefundedTwiceAtMost
  BY DEF AllTrackedTwice, TrackedTwice, GivenBack, RefundedTwiceAtMost
<1> QED BY <1>1, <1>2, <1>3, Starts, Inductive, PTL DEF Spec

-----------------------------------------------------------------------------
(* Sums *)

\* What becomes of a sum when one request's part of it changes: its points are
\* replaced by others, and those of the other requests stay.

LEMMA PointsOfOne ==
    ASSUME NEW r, NEW n \in Nat
    PROVE  IsFiniteSet({r} \X (1..n)) /\ Cardinality({r} \X (1..n)) = n
<1>1. IsFiniteSet({r}) /\ Cardinality({r}) = 1 BY FS_Singleton
<1>2. IsFiniteSet(1..n) /\ Cardinality(1..n) = n
  <2>1. IsFiniteSet(1..n) /\ Cardinality(1..n) = IF 1 > n THEN 0 ELSE n - 1 + 1 BY FS_Interval
  <2> QED BY <2>1
<1>3. IsFiniteSet({r} \X (1..n)) BY <1>1, <1>2, FS_Product
<1>4. Cardinality({r} \X (1..n)) = 1 * n BY <1>1, <1>2, FS_Product
<1>5. 1 * n = n OBVIOUS
<1> QED BY <1>3, <1>4, <1>5

LEMMA PointsAreFinite ==
    ASSUME NEW f \in [Requests -> Nat]
    PROVE  IsFiniteSet(PointsOf(f)) /\ Sum(f) \in Nat
<1> DEFINE T == {{r} \X (1..f[r]) : r \in Requests}
           g == [r \in Requests |-> {r} \X (1..f[r])]
<1>1. g \in Surjection(Requests, T) BY DEF Surjection
<1>2. IsFiniteSet(T) BY <1>1, FS_Surjection, Bounds
<1>3. ASSUME NEW S \in T PROVE IsFiniteSet(S)
  <2>1. PICK r \in Requests : S = {r} \X (1..f[r]) OBVIOUS
  <2>2. f[r] \in Nat OBVIOUS
  <2> QED BY <2>1, <2>2, PointsOfOne
<1>4. PointsOf(f) = UNION T BY DEF PointsOf
<1> HIDE DEF T
<1>5. IsFiniteSet(PointsOf(f)) BY <1>2, <1>3, <1>4, FS_UNION
<1> QED BY <1>5, FS_CardinalityType DEF Sum

LEMMA SumOfOthers ==
    ASSUME NEW f \in [Requests -> Nat], NEW r \in Requests
    PROVE  LET others == UNION {{s} \X (1..f[s]) : s \in Requests \ {r}}
           IN  IsFiniteSet(others) /\ Sum(f) = Cardinality(others) + f[r]
<1> DEFINE others == UNION {{s} \X (1..f[s]) : s \in Requests \ {r}}
           mine == {r} \X (1..f[r])
<1>1. IsFiniteSet(mine) /\ Cardinality(mine) = f[r] /\ f[r] \in Nat BY PointsOfOne
<1>2. PointsOf(f) = others \cup mine BY DEF PointsOf
<1>3. others \cap mine = {} OBVIOUS
<1> HIDE DEF others, mine
<1>4. IsFiniteSet(others) /\ Cardinality(others) \in Nat
  <2>1. others \in SUBSET PointsOf(f) BY <1>2
  <2> QED BY <2>1, PointsAreFinite, FS_Subset, FS_CardinalityType
<1>5. Cardinality(others \cup mine) =
        Cardinality(others) + Cardinality(mine) - Cardinality(others \cap mine)
  BY <1>1, <1>4, FS_Union
<1>6. Cardinality(others \cap mine) = 0 BY <1>3, FS_EmptySet
<1> QED BY <1>1, <1>2, <1>4, <1>5, <1>6 DEF Sum, others

LEMMA SumChanges ==
    ASSUME NEW f \in [Requests -> Nat], NEW g \in [Requests -> Nat], NEW r \in Requests,
           \A s \in Requests \ {r} : g[s] = f[s]
    PROVE  Sum(f) \in Nat /\ Sum(g) + f[r] = Sum(f) + g[r]
<1> DEFINE others(h) == UNION {{s} \X (1..h[s]) : s \in Requests \ {r}}
<1>1. others(f) = others(g) OBVIOUS
<1>2. Sum(f) = Cardinality(others(f)) + f[r] /\ IsFiniteSet(others(f)) BY SumOfOthers
<1>3. Sum(g) = Cardinality(others(g)) + g[r] BY SumOfOthers
<1> HIDE DEF others
<1>4. Cardinality(others(f)) \in Nat BY <1>2, FS_CardinalityType
<1>5. f[r] \in Nat /\ g[r] \in Nat OBVIOUS
<1> QED BY <1>1, <1>2, <1>3, <1>4, <1>5

LEMMA SumOfLess ==
    ASSUME NEW f \in [Requests -> Nat], NEW g \in [Requests -> Nat],
           \A r \in Requests : f[r] <= g[r]
    PROVE  Sum(f) <= Sum(g)
<1>1. ASSUME NEW r \in Requests PROVE {r} \X (1..f[r]) \subseteq {r} \X (1..g[r])
  <2>1. f[r] \in Nat /\ g[r] \in Nat /\ f[r] <= g[r] OBVIOUS
  <2>2. 1..f[r] \subseteq 1..g[r] BY <2>1
  <2> QED BY <2>2
<1>2. PointsOf(f) \in SUBSET PointsOf(g) BY <1>1 DEF PointsOf
<1>3. IsFiniteSet(PointsOf(g)) BY PointsAreFinite
<1> QED BY <1>2, <1>3, FS_Subset DEF Sum

LEMMA SumOfNone ==
    ASSUME NEW f, \A r \in Requests : f[r] = 0
    PROVE  Sum(f) = 0
<1>1. PointsOf(f) = {} BY DEF PointsOf
<1> QED BY <1>1, FS_EmptySet DEF Sum

-----------------------------------------------------------------------------
(* Nothing is lost, and nothing made                                       *)
(*                                                                         *)
(* A step moves points between the bucket or the wallet, the request it is *)
(* of and what failed calls cost; the requests it is not of keep what they *)
(* have. What could make points or lose them is a cap, of a check or after *)
(* a refund: but as long as no invoice is paid, what is in the bucket was  *)
(* never more than the allocation, nor was what the caps under way read.   *)

\* What a step of a request moves.
Moves(r, q) ==
    /\ wallet' + ExCharge(q) + lost'.wallet = wallet + ExCharge(req[r]) + lost.wallet
    /\ tokens <= Allocation /\ (req[r].pc = "capping" => req[r].available <= Allocation) =>
         /\ tokens' + InCharge(q) + lost'.bucket = tokens + InCharge(req[r]) + lost.bucket
         /\ q.pc = "capping" => q.available = tokens'

Conserves(r) ==
    \E q \in Request : req' = [req EXCEPT ![r] = q] /\ Moves(r, q)

LEMMA Numbers ==
    ASSUME IInv, NEW r \in Requests
    PROVE  /\ req[r] \in Request /\ Phased(req[r])
           /\ tokens \in Nat /\ wallet \in Nat /\ Allocation \in Nat
           /\ lost \in [bucket: Nat, wallet: Nat] /\ lost.bucket \in Nat /\ lost.wallet \in Nat
           /\ req[r].included \in Nat /\ req[r].extra \in Nat /\ req[r].delta \in Nat
           /\ req[r].available \in Nat /\ req[r].estimate \in Nat
BY Bounds DEF IInv, TypeOK, Good, Request

\* A request that goes on without a point being moved.
LEMMA NoMove ==
    ASSUME IInv, NEW r \in Requests, NEW q \in Request, req' = [req EXCEPT ![r] = q],
           q.included = req[r].included, q.extra = req[r].extra,
           req[r].pc # "rejected", q.pc = "rejected" => q.included = 0 /\ q.extra = 0,
           q.pc # "capping",
           UNCHANGED <<wallet, lost>>, tokens' = tokens \/ tokens' = Lesser(tokens, Allocation)
    PROVE  Conserves(r)
<1>1. InCharge(q) = InCharge(req[r]) /\ ExCharge(q) = ExCharge(req[r])
  BY DEF InCharge, ExCharge
<1>2. tokens <= Allocation => tokens' = tokens BY Numbers DEF Lesser
<1> QED BY <1>1, <1>2 DEF Conserves, Moves

LEMMA GoesOnce ==
    ASSUME IInv, NEW r \in Requests, NEW q, NEW w, req' = [req EXCEPT ![r] = q],
           req' = [req EXCEPT ![r] = w]
    PROVE  q = w
<1>1. req \in [Requests -> Request] BY DEF IInv, TypeOK
<1>2. req'[r] = q /\ req'[r] = w BY <1>1
<1> QED BY <1>2

LEMMA CheckMoves ==
    ASSUME IInv, NEW r \in Requests, Check(r)
    PROVE  Conserves(r)
<1>1. PICK q : Good(q) /\ req' = [req EXCEPT ![r] = q] BY CheckGood
<1>2. PICK pc \in {"debiting", "funding", "rejected"} :
         \E n : q = [[req[r] EXCEPT !.delta = n] EXCEPT !.pc = pc]
  <2>1. PICK pc \in {"debiting", "funding", "rejected"} :
           \E n : req' = [req EXCEPT ![r] = [[req[r] EXCEPT !.delta = n] EXCEPT !.pc = pc]]
    BY DEF Check, Goes
  <2>2. PICK n : req' = [req EXCEPT ![r] = [[req[r] EXCEPT !.delta = n] EXCEPT !.pc = pc]]
    BY <2>1
  <2>3. q = [[req[r] EXCEPT !.delta = n] EXCEPT !.pc = pc] BY <1>1, <2>2, GoesOnce
  <2> QED BY <2>1, <2>3
<1>3. /\ q.included = req[r].included /\ q.extra = req[r].extra /\ q.pc = pc /\ q \in Request
      /\ req[r].pc = "new"
  BY <1>1, <1>2, Numbers DEF Request, Good, Check
<1>4. q.included = 0 /\ q.extra = 0 BY <1>3, Numbers DEF Phased
<1> QED BY <1>1, <1>2, <1>3, <1>4, NoMove DEF Check, NoFault

\* A request that goes on once its points are moved.
LEMMA Moved ==
    ASSUME IInv, NEW r \in Requests, NEW q \in Request, req' = [req EXCEPT ![r] = q],
           q.pc # "capping",
           wallet' + ExCharge(q) + lost'.wallet = wallet + ExCharge(req[r]) + lost.wallet,
           tokens' + InCharge(q) + lost'.bucket = tokens + InCharge(req[r]) + lost.bucket
    PROVE  Conserves(r)
BY DEF Conserves, Moves

LEMMA FundMoves ==
    ASSUME IInv, NEW r \in Requests, FundShortfall(r)
    PROVE  Conserves(r)
<1>1. PICK q : Good(q) /\ req' = [req EXCEPT ![r] = q] BY FundGood
<1>2. req[r].pc = "funding" /\ tokens' = tokens BY DEF FundShortfall
<1>3. req[r].included = 0 /\ req[r].extra = 0 BY <1>2, Numbers DEF Phased
<1>4. q \in Request BY <1>1 DEF Good
<1>5. InCharge(req[r]) = 0 /\ ExCharge(req[r]) = 0 BY <1>2, <1>3 DEF InCharge, ExCharge
<1>6. CASE Deducted(req[r].delta) /\ NoFault /\
           Goes(r, IF req[r].delta < req[r].estimate THEN "debiting" ELSE "running",
                [req[r] EXCEPT !.extra = req[r].delta, !.delta = 0])
  <2>1. PICK pc \in {"debiting", "running"} :
           req' = [req EXCEPT ![r] =
                     [[req[r] EXCEPT !.extra = req[r].delta, !.delta = 0] EXCEPT !.pc = pc]]
    BY <1>6 DEF Goes
  <2>2. q = [[req[r] EXCEPT !.extra = req[r].delta, !.delta = 0] EXCEPT !.pc = pc]
    BY <1>1, <2>1, GoesOnce
  <2>3. q.pc = pc /\ q.extra = req[r].delta /\ q.included = 0
    BY <1>3, <2>1, <2>2, Numbers DEF Request
  <2>4. InCharge(q) = 0 /\ ExCharge(q) = req[r].delta BY <2>3 DEF InCharge, ExCharge
  <2>5. wallet' = wallet - req[r].delta /\ lost' = lost BY <1>6 DEF Deducted, NoFault
  <2>6. wallet' + ExCharge(q) + lost'.wallet = wallet + ExCharge(req[r]) + lost.wallet
    BY <1>5, <2>4, <2>5, Numbers
  <2>7. tokens' + InCharge(q) + lost'.bucket = tokens + InCharge(req[r]) + lost.bucket
    BY <1>2, <1>5, <2>4, <2>5
  <2>8. q.pc # "capping" BY <2>1, <2>3
  <2> QED BY <1>1, <1>4, <2>6, <2>7, <2>8, Moved
<1>7. CASE /\ Goes(r, "rejected", req[r])
           /\ UNCHANGED <<wallet, lost>> \/ DeductedUnheard(req[r].delta)
  <2>1. PICK w : w = [req[r] EXCEPT !.pc = "rejected"] OBVIOUS
  <2>2. q = w BY <1>1, <1>7, <2>1, GoesOnce DEF Goes
  <2>3. q.pc = "rejected" BY <2>1, <2>2, Numbers DEF Request
  <2>4. InCharge(q) = 0 /\ ExCharge(q) = 0 BY <2>3 DEF InCharge, ExCharge
  <2>5. lost'.bucket = lost.bucket /\ wallet' + lost'.wallet = wallet + lost.wallet
    <3>1. CASE UNCHANGED <<wallet, lost>> BY <3>1
    <3>2. CASE Deducted(req[r].delta) /\ lost' = [lost EXCEPT !.wallet = @ + req[r].delta]
      BY <3>2, Numbers DEF Deducted
    <3> QED BY <1>7, <3>1, <3>2 DEF DeductedUnheard
  <2>6. wallet' + ExCharge(q) + lost'.wallet = wallet + ExCharge(req[r]) + lost.wallet
    <3>1. wallet' \in Nat /\ lost'.wallet \in Int
      <4>1. wallet' \in Nat BY FundGood
      <4>2. lost'.wallet \in Int
        <5>1. CASE UNCHANGED <<wallet, lost>> BY <5>1, Numbers
        <5>2. CASE lost' = [lost EXCEPT !.wallet = @ + req[r].delta] BY <5>2, Numbers
        <5> QED BY <1>7, <5>1, <5>2 DEF DeductedUnheard
      <4> QED BY <4>1, <4>2
    <3> QED BY <1>5, <2>4, <2>5, <3>1, Numbers
  <2>7. tokens' + InCharge(q) + lost'.bucket = tokens + InCharge(req[r]) + lost.bucket
    BY <1>2, <1>5, <2>4, <2>5
  <2> QED BY <1>1, <1>4, <2>3, <2>6, <2>7, Moved
<1> QED BY <1>6, <1>7 DEF FundShortfall, NoFault

LEMMA NumbersAfter ==
    ASSUME IInv'
    PROVE  tokens' \in Nat /\ wallet' \in Nat /\ lost'.bucket \in Nat /\ lost'.wallet \in Nat
BY DEF IInv, TypeOK

LEMMA DebitMoves ==
    ASSUME IInv, IInv', NEW r \in Requests, DebitBucket(r)
    PROVE  Conserves(r)
<1>1. PICK q : Good(q) /\ req' = [req EXCEPT ![r] = q] BY DebitGood
<1>2. req[r].pc = "debiting" /\ wallet' = wallet BY DEF DebitBucket
<1>3. req[r].included = 0 BY <1>2, Numbers DEF Phased
<1>4. q \in Request BY <1>1 DEF Good
<1>5. InCharge(req[r]) = 0 /\ ExCharge(req[r]) = req[r].extra
  BY <1>2, <1>3 DEF InCharge, ExCharge
<1>6. PICK rate \in Nat : rate = req[r].estimate - req[r].extra
  <2>1. req[r].extra <= req[r].estimate BY <1>2, Numbers DEF Phased
  <2> QED BY <2>1, Numbers
<1>7. CASE Taken(rate) /\ NoFault /\
           Goes(r, "running", [req[r] EXCEPT !.included = rate, !.delta = 0])
  <2>1. PICK w : w = [[req[r] EXCEPT !.included = rate, !.delta = 0] EXCEPT !.pc = "running"]
    OBVIOUS
  <2>2. q = w BY <1>1, <1>7, <2>1, GoesOnce DEF Goes
  <2>3. q.pc = "running" /\ q.included = rate /\ q.extra = req[r].extra
    BY <2>1, <2>2, Numbers DEF Request
  <2>4. InCharge(q) = rate /\ ExCharge(q) = req[r].extra BY <2>3 DEF InCharge, ExCharge
  <2>5. tokens' = tokens - rate /\ lost' = lost BY <1>7 DEF Taken, NoFault
  <2>6. wallet' + ExCharge(q) + lost'.wallet = wallet + ExCharge(req[r]) + lost.wallet
    BY <1>2, <1>5, <2>4, <2>5
  <2>7. tokens' + InCharge(q) + lost'.bucket = tokens + InCharge(req[r]) + lost.bucket
    BY <1>5, <2>4, <2>5, Numbers
  <2> QED BY <1>1, <1>4, <2>3, <2>6, <2>7, Moved
<1>8. CASE /\ Goes(r, IF req[r].extra > 0 THEN "undoing" ELSE "rejected", req[r])
           /\ UNCHANGED tokens /\ NoFault
  <2>1. PICK pc \in {"undoing", "rejected"} :
           /\ req' = [req EXCEPT ![r] = [req[r] EXCEPT !.pc = pc]]
           /\ pc = "rejected" => req[r].extra = 0
    <3>1. CASE req[r].extra > 0
      <4>1. Goes(r, "undoing", req[r]) BY <1>8, <3>1
      <4> QED BY <4>1 DEF Goes
    <3>2. CASE ~(req[r].extra > 0)
      <4>1. Goes(r, "rejected", req[r]) BY <1>8, <3>2
      <4>2. req[r].extra = 0 BY <3>2, Numbers
      <4> QED BY <4>1, <4>2 DEF Goes
    <3> QED BY <3>1, <3>2
  <2>2. q = [req[r] EXCEPT !.pc = pc] BY <1>1, <2>1, GoesOnce
  <2>3. q.pc = pc /\ q.included = 0 /\ q.extra = req[r].extra
    BY <1>3, <2>1, <2>2, Numbers DEF Request
  <2>4. q.pc # "capping" /\ req[r].pc # "rejected" BY <1>2, <2>1, <2>3
  <2> QED BY <1>1, <1>2, <1>3, <1>4, <1>8, <2>1, <2>3, <2>4, NoMove DEF NoFault
<1>9. CASE /\ Goes(r, "rejected", [req[r] EXCEPT !.extra = 0])
           /\ \/ UNCHANGED tokens /\ lost' = [lost EXCEPT !.wallet = @ + req[r].extra]
              \/ Taken(rate) /\ lost' = [bucket |-> lost.bucket + rate,
                                         wallet |-> lost.wallet + req[r].extra]
  <2>1. PICK w : w = [[req[r] EXCEPT !.extra = 0] EXCEPT !.pc = "rejected"] OBVIOUS
  <2>2. q = w BY <1>1, <1>9, <2>1, GoesOnce DEF Goes
  <2>3. q.pc = "rejected" BY <2>1, <2>2, Numbers DEF Request
  <2>4. InCharge(q) = 0 /\ ExCharge(q) = 0 BY <2>3 DEF InCharge, ExCharge
  <2>5. lost'.wallet = lost.wallet + req[r].extra
    <3>1. CASE lost' = [lost EXCEPT !.wallet = @ + req[r].extra] BY <3>1, Numbers
    <3>2. CASE lost' = [bucket |-> lost.bucket + rate, wallet |-> lost.wallet + req[r].extra]
      BY <3>2
    <3> QED BY <1>9, <3>1, <3>2
  <2>6. tokens' + lost'.bucket = tokens + lost.bucket
    <3>1. CASE UNCHANGED tokens /\ lost' = [lost EXCEPT !.wallet = @ + req[r].extra]
      BY <3>1, Numbers
    <3>2. CASE /\ Taken(rate)
               /\ lost' = [bucket |-> lost.bucket + rate, wallet |-> lost.wallet + req[r].extra]
      BY <3>2, Numbers DEF Taken
    <3> QED BY <1>9, <3>1, <3>2
  <2>7. wallet' + ExCharge(q) + lost'.wallet = wallet + ExCharge(req[r]) + lost.wallet
    BY <1>2, <1>5, <2>4, <2>5, Numbers
  <2>8. tokens' + InCharge(q) + lost'.bucket = tokens + InCharge(req[r]) + lost.bucket
    BY <1>5, <2>4, <2>6, Numbers, NumbersAfter
  <2> QED BY <1>1, <1>4, <2>3, <2>7, <2>8, Moved
<1> QED BY <1>6, <1>7, <1>8, <1>9 DEF DebitBucket

LEMMA UndoMoves ==
    ASSUME IInv, IInv', NEW r \in Requests, UndoFunding(r)
    PROVE  Conserves(r)
<1>1. PICK q : Good(q) /\ req' = [req EXCEPT ![r] = q] BY UndoGood
<1>2. req[r].pc = "undoing" /\ tokens' = tokens BY DEF UndoFunding
<1>3. req[r].included = 0 BY <1>2, Numbers DEF Phased
<1>4. q \in Request BY <1>1 DEF Good
<1>5. PICK w : w = [[req[r] EXCEPT !.extra = 0] EXCEPT !.pc = "rejected"] OBVIOUS
<1>6. q = w BY <1>1, <1>5, GoesOnce DEF UndoFunding, Goes
<1>7. q.pc = "rejected" BY <1>5, <1>6, Numbers DEF Request
<1>8. InCharge(q) = 0 /\ ExCharge(q) = 0 /\ InCharge(req[r]) = 0 /\ ExCharge(req[r]) = req[r].extra
  BY <1>2, <1>3, <1>7 DEF InCharge, ExCharge
<1>9. wallet' + lost'.wallet = wallet + lost.wallet + req[r].extra /\ lost'.bucket = lost.bucket
  <2>1. CASE wallet' = wallet + req[r].extra /\ NoFault BY <2>1, Numbers DEF NoFault
  <2>2. CASE lost' = [lost EXCEPT !.wallet = @ + req[r].extra] /\ UNCHANGED wallet
    BY <2>2, Numbers
  <2> QED BY <2>1, <2>2 DEF UndoFunding
<1>10. wallet' + ExCharge(q) + lost'.wallet = wallet + ExCharge(req[r]) + lost.wallet
  BY <1>8, <1>9, Numbers, NumbersAfter
<1>11. tokens' + InCharge(q) + lost'.bucket = tokens + InCharge(req[r]) + lost.bucket
  BY <1>2, <1>8, <1>9
<1> QED BY <1>1, <1>4, <1>7, <1>10, <1>11, Moved

\* A request that is charged what was taken for it.
LEMMA Charged ==
    ASSUME IInv, NEW r \in Requests, NEW q \in Request, req' = [req EXCEPT ![r] = q],
           req[r].pc # "rejected", q.pc \notin {"rejected", "capping"},
           wallet' + q.extra + lost'.wallet = wallet + req[r].extra + lost.wallet,
           tokens' + q.included + lost'.bucket = tokens + req[r].included + lost.bucket
    PROVE  Conserves(r)
<1>1. InCharge(q) = q.included /\ ExCharge(q) = q.extra BY DEF InCharge, ExCharge
<1>2. InCharge(req[r]) = req[r].included /\ ExCharge(req[r]) = req[r].extra
  BY DEF InCharge, ExCharge
<1> QED BY <1>1, <1>2, Moved

LEMMA FinishStepMoves ==
    ASSUME IInv, IInv', NEW r \in Requests, FinishStep(r)
    PROVE  Conserves(r)
<1>1. PICK q : Good(q) /\ req' = [req EXCEPT ![r] = q] BY FinishStepGood
<1>2. q \in Request /\ req[r].pc = "running" BY <1>1 DEF Good, FinishStep
<1>3. PICK c : Goes(r, IF c > Covered(req[r]) THEN "peeking" ELSE "running",
                    [req[r] EXCEPT !.cost = c, !.delta = Greater(0, c - Covered(req[r]))])
  BY DEF FinishStep
<1>4. PICK pc \in {"peeking", "running"} : pc = IF c > Covered(req[r]) THEN "peeking" ELSE "running"
  OBVIOUS
<1>5. PICK n : n = Greater(0, c - Covered(req[r])) OBVIOUS
<1>6. PICK w : w = [[req[r] EXCEPT !.cost = c, !.delta = n] EXCEPT !.pc = pc] OBVIOUS
<1>7. req' = [req EXCEPT ![r] = w] BY <1>3, <1>4, <1>5, <1>6 DEF Goes
<1>8. q = w BY <1>1, <1>7, GoesOnce
<1>9. q.pc = pc /\ q.included = req[r].included /\ q.extra = req[r].extra
  BY <1>6, <1>8, Numbers DEF Request
<1> QED BY <1>1, <1>2, <1>4, <1>9, Charged DEF FinishStep, NoFault

LEMMA FinishMoves ==
    ASSUME IInv, IInv', NEW r \in Requests, Finish(r)
    PROVE  Conserves(r)
<1>1. PICK q : Good(q) /\ req' = [req EXCEPT ![r] = q] BY FinishGood
<1>2. q \in Request /\ req[r].pc # "rejected" BY <1>1 DEF Good, Finish
<1>3. PICK v, pc, w :
          /\ v = req[r] \/ \E points : v = Last(req[r], points)
          /\ pc \in {"done", "peeking", "repaying", "restoring"}
          /\ w = [v EXCEPT !.pc = pc]
          /\ req' = [req EXCEPT ![r] = w]
  <2>1. CASE Goes(r, "done", req[r]) BY <2>1 DEF Goes
  <2>2. ASSUME NEW points, NEW pc \in {"done", "peeking", "repaying", "restoring"},
               Goes(r, pc, Last(req[r], points))
        PROVE  \E v, o, w :
                  /\ v = req[r] \/ \E n : v = Last(req[r], n)
                  /\ o \in {"done", "peeking", "repaying", "restoring"}
                  /\ w = [v EXCEPT !.pc = o]
                  /\ req' = [req EXCEPT ![r] = w]
    BY <2>2 DEF Goes
  <2> DEFINE over == Covered(req[r]) - req[r].cost
  <2>3. \/ Goes(r, "done", req[r]) \/ Goes(r, "done", Last(req[r], 0))
        \/ Goes(r, "peeking", Last(req[r], -over))
        \/ Goes(r, "repaying", Last(req[r], over)) \/ Goes(r, "restoring", Last(req[r], over))
    BY Zenon DEF Finish
  <2> HIDE DEF over
  <2>4. CASE Goes(r, "done", Last(req[r], 0)) BY <2>2, <2>4
  <2>5. CASE Goes(r, "peeking", Last(req[r], -over)) BY <2>2, <2>5
  <2>6. CASE Goes(r, "repaying", Last(req[r], over)) BY <2>2, <2>6
  <2>7. CASE Goes(r, "restoring", Last(req[r], over)) BY <2>2, <2>7
  <2> QED BY <2>1, <2>3, <2>4, <2>5, <2>6, <2>7
<1>4. q = w BY <1>1, <1>3, GoesOnce
<1>5. /\ v.included = req[r].included /\ v.extra = req[r].extra
      /\ w.included = v.included /\ w.extra = v.extra /\ w.pc = pc
  <2>1. CASE v = req[r] BY <1>3, <2>1, Numbers DEF Request
  <2>2. CASE \E points : v = Last(req[r], points) BY <1>3, <2>2, Numbers DEF Request, Last
  <2> QED BY <1>3, <2>1, <2>2
<1> QED BY <1>1, <1>2, <1>3, <1>4, <1>5, Charged DEF Finish, NoFault

LEMMA PeekMoves ==
    ASSUME IInv, IInv', NEW r \in Requests, Peek(r)
    PROVE  Conserves(r)
<1>1. PICK q : Good(q) /\ req' = [req EXCEPT ![r] = q] BY PeekGood
<1>2. q \in Request /\ req[r].pc = "peeking" BY <1>1 DEF Good, Peek
<1>3. PICK n, w : w = [[req[r] EXCEPT !.available = n] EXCEPT !.pc = "taking"]
                  /\ req' = [req EXCEPT ![r] = w]
  BY DEF Peek, Goes
<1>4. q = w BY <1>1, <1>3, GoesOnce
<1>5. q.pc = "taking" /\ q.included = req[r].included /\ q.extra = req[r].extra
  BY <1>3, <1>4, Numbers DEF Request
<1> QED BY <1>1, <1>2, <1>5, Charged DEF Peek, NoFault

LEMMA EndedHolds ==
    ASSUME IInv, IInv', NEW r \in Requests, NEW included, NEW extra, NEW uncovered,
           NEW failed, Ends(r, included, extra, uncovered, failed)
    PROVE  \E q \in Request : /\ req' = [req EXCEPT ![r] = q]
                              /\ q.included = included /\ q.extra = extra
                              /\ q.pc \in {"done", "stopping", "running"}
<1> DEFINE e == [req[r] EXCEPT !.included = included, !.extra = extra, !.delta = 0,
                               !.uncovered = @ + uncovered, !.failed = @ \/ failed]
           q == [e EXCEPT !.pc = After(e)]
<1>1. req' = [req EXCEPT ![r] = q] BY DEF Ends
<1>2. q.included = included /\ q.extra = extra /\ q.pc = After(e) BY Numbers DEF Request
<1>3. After(e) \in {"done", "stopping", "running"} BY DEF After
<1> HIDE DEF e, q
<1>4. q \in Request
  <2>1. req \in [Requests -> Request] /\ req' \in [Requests -> Request] BY DEF IInv, TypeOK
  <2>2. req'[r] = q BY <1>1, <2>1
  <2> QED BY <2>1, <2>2
<1> QED BY <1>1, <1>2, <1>3, <1>4

LEMMA ChargeHolds ==
    ASSUME IInv, IInv', NEW r \in Requests, NEW included, Charge(r, included)
    PROVE  \E q \in Request : /\ req' = [req EXCEPT ![r] = q]
                              /\ q.included = included /\ q.extra = req[r].extra
                              /\ q.pc \in {"done", "stopping", "running", "charging"}
<1>1. PICK rest : rest = req[r].delta - (included - req[r].included) OBVIOUS
<1>2. CASE Goes(r, "charging", [req[r] EXCEPT !.included = included, !.delta = rest])
  <2>1. PICK q : q = [[req[r] EXCEPT !.included = included, !.delta = rest]
                        EXCEPT !.pc = "charging"]
    OBVIOUS
  <2>2. req' = [req EXCEPT ![r] = q] BY <1>2, <2>1 DEF Goes
  <2>3. q.included = included /\ q.extra = req[r].extra /\ q.pc = "charging"
    BY <2>1, Numbers DEF Request
  <2>4. q \in Request
    <3>1. req \in [Requests -> Request] /\ req' \in [Requests -> Request] BY DEF IInv, TypeOK
    <3>2. req'[r] = q BY <2>2, <3>1
    <3> QED BY <3>1, <3>2
  <2> QED BY <2>2, <2>3, <2>4
<1>3. CASE \E uncovered : Ends(r, included, req[r].extra, uncovered, FALSE)
  <2>1. PICK uncovered : Ends(r, included, req[r].extra, uncovered, FALSE) BY <1>3
  <2>2. PICK failed, extra : failed = FALSE /\ extra = req[r].extra OBVIOUS
  <2>3. Ends(r, included, extra, uncovered, failed) BY <2>1, <2>2
  <2> HIDE <2>1, <2>2
  <2>4. PICK q \in Request : /\ req' = [req EXCEPT ![r] = q]
                             /\ q.included = included /\ q.extra = extra
                             /\ q.pc \in {"done", "stopping", "running"}
    BY <2>3, EndedHolds
  <2>5. q.pc \in {"done", "stopping", "running", "charging"} BY <2>4
  <2> QED BY <2>2, <2>4, <2>5
<1> QED BY <1>1, <1>2, <1>3, Zenon DEF Charge

LEMMA TakeMoves ==
    ASSUME IInv, IInv', NEW r \in Requests, TakeFromBucket(r)
    PROVE  Conserves(r)
<1>1. req[r].pc # "rejected" /\ UNCHANGED wallet BY Zenon DEF TakeFromBucket
<1>2. PICK rate \in Nat : rate = Lesser(req[r].delta, req[r].available)
  BY Numbers DEF Lesser
<1>3. CASE Taken(rate) /\ Charge(r, req[r].included + rate) /\ NoFault
  <2>1. PICK included : included = req[r].included + rate OBVIOUS
  <2>2. Charge(r, included) BY <1>3, <2>1
  <2>3. PICK q \in Request : /\ req' = [req EXCEPT ![r] = q]
                             /\ q.included = included /\ q.extra = req[r].extra
                             /\ q.pc \in {"done", "stopping", "running", "charging"}
    BY <2>2, ChargeHolds
  <2>4. tokens' = tokens - rate /\ lost' = lost BY <1>3 DEF Taken, NoFault
  <2>5. tokens' + q.included + lost'.bucket = tokens + req[r].included + lost.bucket
    BY <2>1, <2>3, <2>4, Numbers
  <2>6. wallet' + q.extra + lost'.wallet = wallet + req[r].extra + lost.wallet
    BY <1>1, <2>3, <2>4
  <2> QED BY <1>1, <2>3, <2>5, <2>6, Charged
<1>4. CASE Charge(r, req[r].included) /\ UNCHANGED tokens /\ NoFault
  <2>1. PICK included : included = req[r].included OBVIOUS
  <2>2. Charge(r, included) BY <1>4, <2>1
  <2>3. PICK q \in Request : /\ req' = [req EXCEPT ![r] = q]
                             /\ q.included = included /\ q.extra = req[r].extra
                             /\ q.pc \in {"done", "stopping", "running", "charging"}
    BY <2>2, ChargeHolds
  <2>4. lost' = lost BY <1>4 DEF NoFault
  <2> QED BY <1>1, <1>4, <2>1, <2>3, <2>4, Charged
<1>5. CASE TakenUnheard(rate) /\ Ends(r, req[r].included, req[r].extra, req[r].delta, TRUE)
  <2>1. PICK included, extra, uncovered, failed :
            included = req[r].included /\ extra = req[r].extra /\ uncovered = req[r].delta
            /\ failed = TRUE
    OBVIOUS
  <2>2. Ends(r, included, extra, uncovered, failed) BY <1>5, <2>1
  <2>3. PICK q \in Request : /\ req' = [req EXCEPT ![r] = q]
                             /\ q.included = included /\ q.extra = extra
                             /\ q.pc \in {"done", "stopping", "running"}
    <3> HIDE <1>5, <2>1
    <3> QED BY <2>2, EndedHolds
  <2>4. tokens' + lost'.bucket = tokens + lost.bucket /\ lost'.wallet = lost.wallet
    <3>1. CASE UNCHANGED <<tokens, lost>> BY <3>1
    <3>2. CASE Taken(rate) /\ lost' = [lost EXCEPT !.bucket = @ + rate]
      BY <3>2, Numbers DEF Taken
    <3> QED BY <1>5, <3>1, <3>2 DEF TakenUnheard
  <2>5. tokens' + q.included + lost'.bucket = tokens + req[r].included + lost.bucket
    BY <2>1, <2>3, <2>4, Numbers, NumbersAfter
  <2>6. wallet' + q.extra + lost'.wallet = wallet + req[r].extra + lost.wallet
    BY <1>1, <2>1, <2>3, <2>4
  <2> QED BY <1>1, <2>3, <2>5, <2>6, Charged
<1> QED BY <1>2, <1>3, <1>4, <1>5, Zenon DEF TakeFromBucket

LEMMA ChargeWalletMoves ==
    ASSUME IInv, IInv', NEW r \in Requests, ChargeWallet(r)
    PROVE  Conserves(r)
<1>1. req[r].pc # "rejected" /\ UNCHANGED tokens BY Zenon DEF ChargeWallet
<1>2. ASSUME NEW extra, NEW uncovered, NEW failed,
             Ends(r, req[r].included, extra, uncovered, failed),
             wallet' + extra + lost'.wallet = wallet + req[r].extra + lost.wallet,
             lost'.bucket = lost.bucket
      PROVE  Conserves(r)
  <2>1. PICK included : included = req[r].included OBVIOUS
  <2>2. Ends(r, included, extra, uncovered, failed) BY <1>2, <2>1
  <2>3. PICK q \in Request : /\ req' = [req EXCEPT ![r] = q]
                             /\ q.included = included /\ q.extra = extra
                             /\ q.pc \in {"done", "stopping", "running"}
    <3> HIDE <2>1
    <3> QED BY <2>2, EndedHolds
  <2> QED BY <1>1, <1>2, <2>1, <2>3, Charged
<1>3. CASE Deducted(req[r].delta) /\ NoFault /\
           Ends(r, req[r].included, req[r].extra + req[r].delta, 0, FALSE)
  <2>1. PICK extra, failed : extra = req[r].extra + req[r].delta /\ failed = FALSE OBVIOUS
  <2>2. Ends(r, req[r].included, extra, 0, failed) BY <1>3, <2>1
  <2>3. wallet' + extra + lost'.wallet = wallet + req[r].extra + lost.wallet
    BY <1>3, <2>1, Numbers DEF Deducted, NoFault
  <2>4. lost'.bucket = lost.bucket BY <1>3 DEF NoFault
  <2> HIDE <1>3, <2>1
  <2> QED BY <1>2, <2>2, <2>3, <2>4
<1>4. CASE UNCHANGED wallet /\ NoFault /\
           Ends(r, req[r].included, req[r].extra, req[r].delta, FALSE)
  <2>1. PICK extra, uncovered, failed :
            extra = req[r].extra /\ uncovered = req[r].delta /\ failed = FALSE
    OBVIOUS
  <2>2. Ends(r, req[r].included, extra, uncovered, failed) BY <1>4, <2>1
  <2>3. wallet' + extra + lost'.wallet = wallet + req[r].extra + lost.wallet
    BY <1>4, <2>1 DEF NoFault
  <2>4. lost'.bucket = lost.bucket BY <1>4 DEF NoFault
  <2> HIDE <1>4, <2>1
  <2> QED BY <1>2, <2>2, <2>3, <2>4
<1>5. CASE DeductedUnheard(req[r].delta) /\
           Ends(r, req[r].included, req[r].extra, req[r].delta, TRUE)
  <2>1. PICK extra, uncovered, failed :
            extra = req[r].extra /\ uncovered = req[r].delta /\ failed = TRUE
    OBVIOUS
  <2>2. Ends(r, req[r].included, extra, uncovered, failed) BY <1>5, <2>1
  <2>3. wallet' + lost'.wallet = wallet + lost.wallet /\ lost'.bucket = lost.bucket
    <3>1. CASE UNCHANGED <<wallet, lost>> BY <3>1
    <3>2. CASE Deducted(req[r].delta) /\ lost' = [lost EXCEPT !.wallet = @ + req[r].delta]
      BY <3>2, Numbers DEF Deducted
    <3> QED BY <1>5, <3>1, <3>2 DEF DeductedUnheard
  <2>4. wallet' + extra + lost'.wallet = wallet + req[r].extra + lost.wallet
    BY <2>1, <2>3, Numbers, NumbersAfter
  <2> HIDE <1>5, <2>1
  <2> QED BY <1>2, <2>2, <2>3, <2>4
<1> QED BY <1>3, <1>4, <1>5, Zenon DEF ChargeWallet

LEMMA RepayMoves ==
    ASSUME IInv, IInv', NEW r \in Requests, RepayWallet(r)
    PROVE  Conserves(r)
<1>1. PICK q : Good(q) /\ req' = [req EXCEPT ![r] = q] BY RepayGood
<1>2. q \in Request /\ req[r].pc # "rejected" /\ UNCHANGED <<tokens, lost>>
  BY <1>1 DEF Good, RepayWallet, NoFault
<1>3. PICK points \in Nat : points = Lesser(req[r].delta, req[r].extra) BY Numbers DEF Lesser
<1>4. CASE /\ wallet' = wallet + points
           /\ Goes(r, IF points < req[r].delta THEN "restoring" ELSE "done",
                   [req[r] EXCEPT !.extra = @ - points, !.delta = @ - points])
  <2>1. PICK pc \in {"restoring", "done"} :
            pc = IF points < req[r].delta THEN "restoring" ELSE "done"
    OBVIOUS
  <2>2. PICK w : w = [[req[r] EXCEPT !.extra = @ - points, !.delta = @ - points] EXCEPT !.pc = pc]
    OBVIOUS
  <2>3. req' = [req EXCEPT ![r] = w] BY <1>4, <2>1, <2>2 DEF Goes
  <2>4. q = w BY <1>1, <2>3, GoesOnce
  <2>5. q.pc = pc /\ q.included = req[r].included /\ q.extra = req[r].extra - points
    BY <2>2, <2>4, Numbers DEF Request
  <2>6. wallet' + q.extra + lost'.wallet = wallet + req[r].extra + lost.wallet
    BY <1>2, <1>4, <2>5, Numbers
  <2> QED BY <1>1, <1>2, <2>1, <2>5, <2>6, Charged
<1>5. CASE Goes(r, "done", [req[r] EXCEPT !.failed = TRUE]) /\ UNCHANGED <<wallet, lost>>
  <2>1. PICK w : w = [[req[r] EXCEPT !.failed = TRUE] EXCEPT !.pc = "done"] OBVIOUS
  <2>2. q = w BY <1>1, <1>5, <2>1, GoesOnce DEF Goes
  <2>3. q.pc = "done" /\ q.included = req[r].included /\ q.extra = req[r].extra
    BY <2>1, <2>2, Numbers DEF Request
  <2> QED BY <1>1, <1>2, <1>5, <2>3, Charged
<1> QED BY <1>3, <1>4, <1>5 DEF RepayWallet

LEMMA RestoreMoves ==
    ASSUME IInv, IInv', NEW r \in Requests, RestoreBucket(r)
    PROVE  Conserves(r)
<1>1. PICK q : Good(q) /\ req' = [req EXCEPT ![r] = q] BY RestoreGood
<1>2. q \in Request /\ req[r].pc = "restoring" /\ UNCHANGED wallet
  BY <1>1 DEF Good, RestoreBucket
<1>3. InCharge(req[r]) = req[r].included /\ ExCharge(req[r]) = req[r].extra
  BY <1>2 DEF InCharge, ExCharge
<1>4. CASE /\ tokens' = tokens + req[r].delta
           /\ Goes(r, "capping", [req[r] EXCEPT !.available = tokens + req[r].delta,
                                               !.included = @ - req[r].delta, !.delta = 0])
           /\ NoFault
  <2>1. PICK w : w = [[req[r] EXCEPT !.available = tokens + req[r].delta,
                                     !.included = @ - req[r].delta, !.delta = 0]
                        EXCEPT !.pc = "capping"]
    OBVIOUS
  <2>2. q = w BY <1>1, <1>4, <2>1, GoesOnce DEF Goes
  <2>3. /\ q.pc = "capping" /\ q.included = req[r].included - req[r].delta
        /\ q.extra = req[r].extra /\ q.available = tokens'
    BY <1>4, <2>1, <2>2, Numbers DEF Request
  <2>4. InCharge(q) = req[r].included - req[r].delta /\ ExCharge(q) = req[r].extra
    BY <2>3 DEF InCharge, ExCharge
  <2>5. lost' = lost BY <1>4 DEF NoFault
  <2>6. tokens' + InCharge(q) + lost'.bucket = tokens + InCharge(req[r]) + lost.bucket
    BY <1>3, <1>4, <2>4, <2>5, Numbers
  <2>7. wallet' + ExCharge(q) + lost'.wallet = wallet + ExCharge(req[r]) + lost.wallet
    BY <1>2, <1>3, <2>4, <2>5
  <2> QED BY <1>1, <1>2, <2>3, <2>6, <2>7 DEF Conserves, Moves
<1>5. CASE /\ lost' = [lost EXCEPT !.bucket = @ + req[r].delta]
           /\ Goes(r, "done", [req[r] EXCEPT !.included = @ - req[r].delta, !.delta = 0])
           /\ UNCHANGED tokens
  <2>1. PICK w : w = [[req[r] EXCEPT !.included = @ - req[r].delta, !.delta = 0]
                        EXCEPT !.pc = "done"]
    OBVIOUS
  <2>2. q = w BY <1>1, <1>5, <2>1, GoesOnce DEF Goes
  <2>3. q.pc = "done" /\ q.included = req[r].included - req[r].delta /\ q.extra = req[r].extra
    BY <2>1, <2>2, Numbers DEF Request
  <2>4. lost'.bucket = lost.bucket + req[r].delta /\ lost'.wallet = lost.wallet
    BY <1>5, Numbers
  <2>5. tokens' + q.included + lost'.bucket = tokens + req[r].included + lost.bucket
    BY <1>5, <2>3, <2>4, Numbers
  <2>6. wallet' + q.extra + lost'.wallet = wallet + req[r].extra + lost.wallet
    BY <1>2, <2>3, <2>4
  <2> QED BY <1>1, <1>2, <2>3, <2>5, <2>6, Charged
<1> QED BY <1>4, <1>5 DEF RestoreBucket

LEMMA CapMoves ==
    ASSUME IInv, IInv', NEW r \in Requests, CapRestored(r)
    PROVE  Conserves(r)
<1>1. PICK q : Good(q) /\ req' = [req EXCEPT ![r] = q] BY CapGood
<1>2. q \in Request /\ req[r].pc = "capping" /\ UNCHANGED <<wallet, lost>>
  BY <1>1 DEF Good, CapRestored, NoFault
<1>3. PICK w : w = [req[r] EXCEPT !.pc = "done"] OBVIOUS
<1>4. q = w BY <1>1, <1>3, GoesOnce DEF CapRestored, Goes
<1>5. q.pc = "done" /\ q.included = req[r].included /\ q.extra = req[r].extra
  BY <1>3, <1>4, Numbers DEF Request
<1>6. /\ InCharge(q) = InCharge(req[r]) /\ ExCharge(q) = ExCharge(req[r])
  BY <1>2, <1>5 DEF InCharge, ExCharge
<1>7. req[r].available <= Allocation => tokens' = tokens
  BY Numbers DEF CapRestored, Capped
<1> QED BY <1>1, <1>2, <1>5, <1>6, <1>7 DEF Conserves, Moves

LEMMA StepMoves ==
    ASSUME IInv, IInv', NEW r \in Requests, Step(r)
    PROVE  Conserves(r)
BY Zenon, CheckMoves, FundMoves, DebitMoves, UndoMoves, FinishStepMoves, FinishMoves, PeekMoves,
   TakeMoves, ChargeWalletMoves, RepayMoves, RestoreMoves, CapMoves
DEF Step

\* What requests were charged and what they were given back, as functions whose
\* sums are numbers.
LEMMA ChargesTyped ==
    ASSUME IInv
    PROVE  /\ OfBucket \in [Requests -> Nat] /\ OfWallet \in [Requests -> Nat]
           /\ ToBucket \in [Requests -> Nat] /\ ToWallet \in [Requests -> Nat]
BY DEF IInv, TypeOK, Request, OfBucket, OfWallet, ToBucket, ToWallet, InCharge, ExCharge

LEMMA ChargesTypedAfter ==
    ASSUME IInv'
    PROVE  /\ OfBucket' \in [Requests -> Nat] /\ OfWallet' \in [Requests -> Nat]
           /\ ToBucket' \in [Requests -> Nat] /\ ToWallet' \in [Requests -> Nat]
BY DEF IInv, TypeOK, Request, OfBucket, OfWallet, ToBucket, ToWallet, InCharge, ExCharge

LEMMA StepWallet ==
    ASSUME IInv, IInv', WalletConserved, NEW r \in Requests, Step(r)
    PROVE  WalletConserved'
<1>1. PICK q \in Request : req' = [req EXCEPT ![r] = q] /\ Moves(r, q) BY StepMoves DEF Conserves
<1>2. UNCHANGED returned BY StepCounted DEF NoRefund
<1>3. PICK f \in [Requests -> Nat] : f = OfWallet BY ChargesTyped
<1>4. PICK g \in [Requests -> Nat] : g = OfWallet' BY ChargesTypedAfter
<1>5. PICK h \in [Requests -> Nat] : h = ToWallet BY ChargesTyped
<1>6. h = ToWallet' BY <1>2, <1>5 DEF ToWallet
<1>7. f[r] = ExCharge(req[r]) /\ g[r] = ExCharge(q) /\ \A s \in Requests \ {r} : g[s] = f[s]
  <2>1. req \in [Requests -> Request] BY DEF IInv, TypeOK
  <2>2. req'[r] = q /\ \A s \in Requests \ {r} : req'[s] = req[s] BY <1>1, <2>1
  <2> QED BY <1>3, <1>4, <2>2 DEF OfWallet
<1>8. Sum(f) \in Nat /\ Sum(g) + f[r] = Sum(f) + g[r] BY <1>7, SumChanges
<1>9. Sum(g) \in Nat /\ Sum(h) \in Nat /\ f[r] \in Nat /\ g[r] \in Nat BY PointsAreFinite
<1>10. wallet + Sum(f) + lost.wallet = Funds + Sum(h) BY <1>3, <1>5 DEF WalletConserved
<1>11. wallet' + g[r] + lost'.wallet = wallet + f[r] + lost.wallet BY <1>1, <1>7 DEF Moves
<1>12. Funds \in Nat BY Bounds
<1>13. wallet \in Nat /\ lost.wallet \in Nat /\ wallet' \in Nat /\ lost'.wallet \in Nat
  BY Numbers, NumbersAfter
<1>14. wallet' + Sum(g) + lost'.wallet = Funds + Sum(h)
  BY <1>8, <1>9, <1>10, <1>11, <1>12, <1>13
<1> QED BY <1>4, <1>6, <1>14 DEF WalletConserved

LEMMA RefundWalletKeeps ==
    ASSUME IInv, IInv', WalletConserved, NEW r \in Requests, NEW p \in Paths, RefundWallet(r, p)
    PROVE  WalletConserved'
<1>1. UNCHANGED req /\ returned' = [returned EXCEPT ![r].wallet = @ + req[r].extra]
  BY DEF RefundWallet
<1>2. returned \in [Requests -> [bucket: Nat, wallet: Nat]] BY DEF IInv, TypeOK
<1>3. PICK f \in [Requests -> Nat] : f = OfWallet /\ f = OfWallet'
  BY <1>1, ChargesTyped DEF OfWallet
<1>4. PICK g \in [Requests -> Nat] : g = ToWallet BY ChargesTyped
<1>5. PICK h \in [Requests -> Nat] : h = ToWallet' BY ChargesTypedAfter
<1>6. h[r] = g[r] + req[r].extra /\ \A s \in Requests \ {r} : h[s] = g[s]
  BY <1>1, <1>2, <1>4, <1>5 DEF ToWallet
<1>7. Sum(g) \in Nat /\ Sum(h) + g[r] = Sum(g) + h[r] BY <1>6, SumChanges
<1>8. Sum(f) \in Nat /\ Sum(h) \in Nat /\ g[r] \in Nat BY PointsAreFinite
<1>9. wallet' + lost'.wallet = wallet + lost.wallet + req[r].extra
  <2>1. CASE wallet' = wallet + req[r].extra /\ NoFault BY <2>1, Numbers DEF NoFault
  <2>2. CASE UNCHANGED wallet /\ lost' = [lost EXCEPT !.wallet = @ + req[r].extra]
    BY <2>2, Numbers
  <2> QED BY <2>1, <2>2 DEF RefundWallet
<1>10. wallet + Sum(f) + lost.wallet = Funds + Sum(g) BY <1>3, <1>4 DEF WalletConserved
<1>11. Funds \in Nat BY Bounds
<1>12. Sum(h) = Sum(g) + req[r].extra BY <1>6, <1>7, <1>8, Numbers
<1>13. /\ wallet \in Nat /\ lost.wallet \in Nat /\ wallet' \in Nat /\ lost'.wallet \in Nat
       /\ req[r].extra \in Nat
  BY Numbers, NumbersAfter
<1>14. wallet' + Sum(f) + lost'.wallet = Funds + Sum(h)
  BY <1>7, <1>8, <1>9, <1>10, <1>11, <1>12, <1>13
<1> QED BY <1>3, <1>5, <1>14 DEF WalletConserved

\* What touches neither the wallet nor what it paid for.
LEMMA WalletStays ==
    ASSUME WalletConserved, UNCHANGED <<wallet, req>>, lost'.wallet = lost.wallet,
           \A r \in Requests : returned'[r].wallet = returned[r].wallet
    PROVE  WalletConserved'
<1>1. OfWallet' = OfWallet /\ ToWallet' = ToWallet BY DEF OfWallet, ToWallet
<1>2. PICK f, g : f = OfWallet /\ g = ToWallet OBVIOUS
<1>3. f = OfWallet' /\ g = ToWallet' BY <1>1, <1>2
<1>4. wallet + Sum(f) + lost.wallet = Funds + Sum(g) BY <1>2 DEF WalletConserved
<1>5. wallet' + Sum(f) + lost'.wallet = Funds + Sum(g) BY <1>4
<1> QED BY <1>3, <1>5 DEF WalletConserved

\* However requests, refunds and failed calls interleave, and whatever calls
\* refund(), every point of the wallet is in it, is charged to the request it
\* was taken for, or was lost with a call that failed.
THEOREM WalletIsConserved == Spec => []WalletConserved
<1>1. Init => WalletConserved
  <2> SUFFICES ASSUME Init PROVE WalletConserved OBVIOUS
  <2>1. PICK f, g : f = OfWallet /\ g = ToWallet OBVIOUS
  <2>2. \A r \in Requests : req[r].extra = 0 BY DEF Init, Fresh
  <2>3. \A r \in Requests : f[r] = 0 /\ g[r] = 0
    BY <2>1, <2>2 DEF Init, OfWallet, ToWallet, ExCharge
  <2>4. Sum(f) = 0 /\ Sum(g) = 0 BY <2>3, SumOfNone
  <2>5. wallet = Funds /\ lost.wallet = 0 /\ Funds \in Nat BY Bounds DEF Init
  <2>6. wallet + Sum(f) + lost.wallet = Funds + Sum(g) BY <2>4, <2>5
  <2> QED BY <2>1, <2>6 DEF WalletConserved
<1>2. IInv /\ IInv' /\ WalletConserved /\ [Next]_vars => WalletConserved'
  <2> SUFFICES ASSUME IInv, IInv', WalletConserved, [Next]_vars PROVE WalletConserved' OBVIOUS
  <2>1. CASE UNCHANGED vars BY <2>1, WalletStays DEF vars
  <2>2. CASE Renew BY <2>2, WalletStays DEF Renew, NoRefund, NoFault
  <2>3. CASE \E r \in Requests : Step(r) BY <2>3, StepWallet
  <2>4. ASSUME NEW r \in Requests, NEW p \in Paths, RefundStep(r, p) PROVE WalletConserved'
    <3>1. CASE RefundWallet(r, p) BY <3>1, RefundWalletKeeps
    <3>2. CASE StartRefund(r, p) BY <3>2, WalletStays DEF StartRefund, NoFault
    <3>3. CASE CapRefund(r, p) BY <3>3, WalletStays DEF CapRefund, NoFault
    <3>4. CASE EndRefund(r, p) BY <3>4, WalletStays DEF EndRefund, NoFault
    <3>5. CASE RefundBucket(r, p)
      <4>1. UNCHANGED <<wallet, req>> BY <3>5 DEF RefundBucket
      <4>2. returned' = [returned EXCEPT ![r].bucket = @ + req[r].included]
        BY <3>5 DEF RefundBucket
      <4>3. returned \in [Requests -> [bucket: Nat, wallet: Nat]] BY DEF IInv, TypeOK
      <4>4. \A s \in Requests : returned'[s].wallet = returned[s].wallet BY <4>2, <4>3
      <4>5. lost'.wallet = lost.wallet BY <3>5, Numbers DEF RefundBucket, NoFault
      <4> QED BY <4>1, <4>4, <4>5, WalletStays
    <3> QED BY <2>4, <3>1, <3>2, <3>3, <3>4, <3>5 DEF RefundStep
  <2> QED BY <2>1, <2>2, <2>3, <2>4 DEF Next
<1> QED BY <1>1, <1>2, Starts, Inductive, PTL DEF Spec

-----------------------------------------------------------------------------
(* The bucket *)

\* As long as no invoice was paid, the caps under way read no more than the
\* allocation: none takes anything away.
CapsIdle ==
    renewals = 0 =>
        /\ tokens <= Allocation
        /\ \A r \in Requests :
             /\ req[r].pc = "capping" => req[r].available <= Allocation
             /\ \A p \in Paths : refund[r][p].bucket = "cap" => refund[r][p].value <= Allocation

\* A bucket whose points are accounted for has no more than the allocation: no
\* request got back more than it was charged.
LEMMA NotAbove ==
    ASSUME IInv, \A r \in Requests : Tracked(r), BucketConserved, renewals = 0
    PROVE  tokens <= Allocation
<1>1. PICK f \in [Requests -> Nat] : f = OfBucket BY ChargesTyped
<1>2. PICK g \in [Requests -> Nat] : g = ToBucket BY ChargesTyped
<1>3. ASSUME NEW r \in Requests PROVE g[r] <= f[r]
  <2>1. g[r] = returned[r].bucket BY <1>2 DEF ToBucket
  <2>2. f[r] = InCharge(req[r]) BY <1>1 DEF OfBucket
  <2>3. CASE req[r].pc = "rejected"
    <3>1. ~Refunding(r) /\ ~refunded[r] BY <2>3 DEF Tracked
    <3>2. returned[r].bucket = 0 BY <3>1 DEF Tracked
    <3> QED BY <2>1, <2>2, <2>3, <3>2 DEF InCharge
  <2>4. CASE req[r].pc # "rejected"
    <3>1. returned[r].bucket <= req[r].included BY DEF Tracked
    <3> QED BY <2>1, <2>2, <2>4, <3>1 DEF InCharge
  <2> QED BY <2>3, <2>4
<1>4. Sum(g) <= Sum(f) BY <1>3, SumOfLess
<1>5. Sum(f) \in Nat /\ Sum(g) \in Nat BY PointsAreFinite
<1>6. tokens + Sum(f) + lost.bucket = Allocation + Sum(g) BY <1>1, <1>2 DEF BucketConserved
<1>7. tokens \in Nat /\ lost.bucket \in Nat /\ Allocation \in Nat BY Bounds DEF IInv, TypeOK
<1> QED BY <1>4, <1>5, <1>6, <1>7

\* The points of the bucket are accounted for after a step too.
LEMMA StepBucket ==
    ASSUME IInv, IInv', BucketConserved, CapsIdle, NEW r \in Requests, Step(r), renewals = 0
    PROVE  BucketConserved'
<1>1. PICK q \in Request : req' = [req EXCEPT ![r] = q] /\ Moves(r, q) BY StepMoves DEF Conserves
<1>2. UNCHANGED returned BY StepCounted DEF NoRefund
<1>3. PICK f \in [Requests -> Nat] : f = OfBucket BY ChargesTyped
<1>4. PICK g \in [Requests -> Nat] : g = OfBucket' BY ChargesTypedAfter
<1>5. PICK h \in [Requests -> Nat] : h = ToBucket BY ChargesTyped
<1>6. h = ToBucket' BY <1>2, <1>5 DEF ToBucket
<1>7. f[r] = InCharge(req[r]) /\ g[r] = InCharge(q) /\ \A s \in Requests \ {r} : g[s] = f[s]
  <2>1. req \in [Requests -> Request] BY DEF IInv, TypeOK
  <2>2. req'[r] = q /\ \A s \in Requests \ {r} : req'[s] = req[s] BY <1>1, <2>1
  <2> QED BY <1>3, <1>4, <2>2 DEF OfBucket
<1>8. Sum(f) \in Nat /\ Sum(g) + f[r] = Sum(f) + g[r] BY <1>7, SumChanges
<1>9. Sum(g) \in Nat /\ Sum(h) \in Nat /\ f[r] \in Nat /\ g[r] \in Nat BY PointsAreFinite
<1>10. tokens + Sum(f) + lost.bucket = Allocation + Sum(h) BY <1>3, <1>5 DEF BucketConserved
<1>11. tokens' + g[r] + lost'.bucket = tokens + f[r] + lost.bucket
  <2>1. tokens <= Allocation /\ (req[r].pc = "capping" => req[r].available <= Allocation)
    BY DEF CapsIdle
  <2> QED BY <1>1, <1>7, <2>1 DEF Moves
<1>12. Allocation \in Nat BY Bounds
<1>13. tokens \in Nat /\ lost.bucket \in Nat /\ tokens' \in Nat /\ lost'.bucket \in Nat
  BY Numbers, NumbersAfter
<1>14. tokens' + Sum(g) + lost'.bucket = Allocation + Sum(h)
  BY <1>8, <1>9, <1>10, <1>11, <1>12, <1>13
<1> QED BY <1>4, <1>6, <1>14 DEF BucketConserved

LEMMA StepIdle ==
    ASSUME IInv, IInv', CapsIdle, NEW r \in Requests, Step(r), renewals = 0,
           tokens' <= Allocation
    PROVE  CapsIdle'
<1>1. PICK q \in Request : req' = [req EXCEPT ![r] = q] /\ Moves(r, q) BY StepMoves DEF Conserves
<1>2. UNCHANGED refund BY StepCounted DEF NoRefund
<1>3. tokens <= Allocation /\ (req[r].pc = "capping" => req[r].available <= Allocation)
  BY DEF CapsIdle
<1>4. q.pc = "capping" => q.available <= Allocation BY <1>1, <1>3 DEF Moves
<1>5. req \in [Requests -> Request] BY DEF IInv, TypeOK
<1>6. \A s \in Requests : req'[s].pc = "capping" => req'[s].available <= Allocation
  BY <1>1, <1>4, <1>5 DEF CapsIdle
<1> QED BY <1>2, <1>6 DEF CapsIdle

LEMMA RefundBucketKeeps ==
    ASSUME IInv, IInv', BucketConserved, NEW r \in Requests, NEW p \in Paths,
           RefundBucket(r, p), renewals = 0
    PROVE  BucketConserved'
<1>1. UNCHANGED req /\ returned' = [returned EXCEPT ![r].bucket = @ + req[r].included]
  BY DEF RefundBucket
<1>2. returned \in [Requests -> [bucket: Nat, wallet: Nat]] BY DEF IInv, TypeOK
<1>3. PICK f \in [Requests -> Nat] : f = OfBucket /\ f = OfBucket'
  BY <1>1, ChargesTyped DEF OfBucket
<1>4. PICK g \in [Requests -> Nat] : g = ToBucket BY ChargesTyped
<1>5. PICK h \in [Requests -> Nat] : h = ToBucket' BY ChargesTypedAfter
<1>6. h[r] = g[r] + req[r].included /\ \A s \in Requests \ {r} : h[s] = g[s]
  BY <1>1, <1>2, <1>4, <1>5 DEF ToBucket
<1>7. Sum(g) \in Nat /\ Sum(h) + g[r] = Sum(g) + h[r] BY <1>6, SumChanges
<1>8. Sum(f) \in Nat /\ Sum(h) \in Nat /\ g[r] \in Nat BY PointsAreFinite
<1>9. tokens' + lost'.bucket = tokens + lost.bucket + req[r].included
  <2>1. CASE tokens' = tokens + req[r].included /\ NoFault BY <2>1, Numbers DEF NoFault
  <2>2. CASE UNCHANGED tokens /\ lost' = [lost EXCEPT !.bucket = @ + req[r].included]
    BY <2>2, Numbers
  <2> QED BY <2>1, <2>2 DEF RefundBucket
<1>10. tokens + Sum(f) + lost.bucket = Allocation + Sum(g) BY <1>3, <1>4 DEF BucketConserved
<1>11. Allocation \in Nat BY Bounds
<1>12. Sum(h) = Sum(g) + req[r].included BY <1>6, <1>7, <1>8, Numbers
<1>13. /\ tokens \in Nat /\ lost.bucket \in Nat /\ tokens' \in Nat /\ lost'.bucket \in Nat
       /\ req[r].included \in Nat
  BY Numbers, NumbersAfter
<1>14. tokens' + Sum(f) + lost'.bucket = Allocation + Sum(h)
  BY <1>7, <1>8, <1>9, <1>10, <1>11, <1>12, <1>13
<1> QED BY <1>3, <1>5, <1>14 DEF BucketConserved

\* What touches neither the bucket nor what it paid for.
LEMMA BucketStays ==
    ASSUME BucketConserved, UNCHANGED <<tokens, req, renewals>>, lost'.bucket = lost.bucket,
           \A r \in Requests : returned'[r].bucket = returned[r].bucket
    PROVE  BucketConserved'
<1>1. OfBucket' = OfBucket /\ ToBucket' = ToBucket BY DEF OfBucket, ToBucket
<1>2. PICK f, g : f = OfBucket /\ g = ToBucket OBVIOUS
<1>3. f = OfBucket' /\ g = ToBucket' BY <1>1, <1>2
<1>4. renewals = 0 => tokens + Sum(f) + lost.bucket = Allocation + Sum(g)
  BY <1>2 DEF BucketConserved
<1>5. renewals' = 0 => tokens' + Sum(f) + lost'.bucket = Allocation + Sum(g) BY <1>4
<1> QED BY <1>3, <1>5 DEF BucketConserved

LEMMA RefundConserves ==
    ASSUME IInv, IInv', BucketConserved, CapsIdle, NEW r \in Requests, NEW p \in Paths,
           RefundStep(r, p), renewals = 0
    PROVE  BucketConserved'
<1>1. returned \in [Requests -> [bucket: Nat, wallet: Nat]] /\ refund[r][p].value \in Nat
  BY DEF IInv, TypeOK
<1>2. CASE StartRefund(r, p) BY <1>2, BucketStays DEF StartRefund, NoFault
<1>3. CASE RefundBucket(r, p) BY <1>3, RefundBucketKeeps
<1>4. CASE CapRefund(r, p)
  <2>1. refund[r][p].value <= Allocation BY <1>4 DEF CapsIdle, CapRefund
  <2>2. tokens' = tokens BY <1>1, <1>4, <2>1, Numbers DEF CapRefund, Capped
  <2> QED BY <1>4, <2>2, BucketStays DEF CapRefund, NoFault
<1>5. CASE RefundWallet(r, p)
  <2>1. UNCHANGED <<tokens, req, renewals>> BY <1>5 DEF RefundWallet
  <2>2. returned' = [returned EXCEPT ![r].wallet = @ + req[r].extra] BY <1>5 DEF RefundWallet
  <2>3. \A s \in Requests : returned'[s].bucket = returned[s].bucket BY <1>1, <2>2
  <2>4. lost'.bucket = lost.bucket BY <1>5, Numbers DEF RefundWallet, NoFault
  <2> QED BY <2>1, <2>3, <2>4, BucketStays
<1>6. CASE EndRefund(r, p) BY <1>6, BucketStays DEF EndRefund, NoFault
<1> QED BY <1>2, <1>3, <1>4, <1>5, <1>6 DEF RefundStep

LEMMA RefundIdle ==
    ASSUME IInv, CapsIdle, NEW r \in Requests, NEW p \in Paths, RefundStep(r, p), renewals = 0,
           tokens' <= Allocation
    PROVE  CapsIdle'
<1> DEFINE Ref == [bucket: {"no", "add", "cap", "done"}, wallet: {"no", "add", "done"}, value: Nat]
<1>1. refund \in [Requests -> [Paths -> Ref]] BY DEF IInv, TypeOK
<1>2. UNCHANGED req
  BY Zenon DEF RefundStep, StartRefund, RefundBucket, CapRefund, RefundWallet, EndRefund
<1>3. refund[r][p] \in Ref BY <1>1
<1>4. PICK f : /\ refund' = [refund EXCEPT ![r][p] = f]
               /\ f.bucket = "cap" => f.value <= Allocation
  <2>1. CASE StartRefund(r, p)
    <3>1. PICK f : /\ f = [bucket |-> IF req[r].included > 0 THEN "add" ELSE "done",
                           wallet |-> IF req[r].extra > 0 THEN "add" ELSE "done", value |-> 0]
                   /\ refund' = [refund EXCEPT ![r][p] = f]
      BY <2>1 DEF StartRefund
    <3>2. f.bucket # "cap" BY <3>1
    <3> QED BY <3>1, <3>2
  <2>2. CASE RefundBucket(r, p)
    <3>1. CASE /\ tokens' = tokens + req[r].included
               /\ refund' = [refund EXCEPT ![r][p] =
                                [@ EXCEPT !.bucket = "cap", !.value = tokens + req[r].included]]
      <4>1. PICK f : f = [refund[r][p] EXCEPT !.bucket = "cap", !.value = tokens + req[r].included]
        OBVIOUS
      <4>2. refund' = [refund EXCEPT ![r][p] = f] BY <1>1, <3>1, <4>1
      <4>3. f.value = tokens' BY <1>3, <3>1, <4>1
      <4> QED BY <4>2, <4>3
    <3>2. CASE refund' = [refund EXCEPT ![r][p].bucket = "done"]
      <4>1. PICK f : f = [refund[r][p] EXCEPT !.bucket = "done"] OBVIOUS
      <4>2. refund' = [refund EXCEPT ![r][p] = f] BY <1>1, <3>2, <4>1
      <4>3. f.bucket = "done" BY <1>3, <4>1
      <4> QED BY <4>2, <4>3
    <3> QED BY <2>2, <3>1, <3>2 DEF RefundBucket
  <2>3. CASE CapRefund(r, p)
    <3>1. PICK f : f = [refund[r][p] EXCEPT !.bucket = "done"] OBVIOUS
    <3>2. refund' = [refund EXCEPT ![r][p] = f] BY <1>1, <2>3, <3>1 DEF CapRefund
    <3>3. f.bucket = "done" BY <1>3, <3>1
    <3> QED BY <3>2, <3>3
  <2>4. CASE RefundWallet(r, p)
    <3>1. PICK f : f = [refund[r][p] EXCEPT !.wallet = "done"] OBVIOUS
    <3>2. refund' = [refund EXCEPT ![r][p] = f] BY <1>1, <2>4, <3>1 DEF RefundWallet
    <3>3. f.bucket = refund[r][p].bucket /\ f.value = refund[r][p].value BY <1>3, <3>1
    <3>4. f.bucket = "cap" => f.value <= Allocation BY <3>3 DEF CapsIdle
    <3> QED BY <3>2, <3>4
  <2>5. CASE EndRefund(r, p)
    <3>1. NotRefunding.bucket # "cap" BY DEF NotRefunding
    <3> QED BY <2>5, <3>1 DEF EndRefund
  <2> QED BY <2>1, <2>2, <2>3, <2>4, <2>5 DEF RefundStep
<1>5. \A s \in Requests : \A o \in Paths :
          refund'[s][o].bucket = "cap" => refund'[s][o].value <= Allocation
  <2> SUFFICES ASSUME NEW s \in Requests, NEW o \in Paths, refund'[s][o].bucket = "cap"
               PROVE  refund'[s][o].value <= Allocation
    OBVIOUS
  <2>1. CASE s = r /\ o = p
    <3>1. refund'[s][o] = f BY <1>1, <1>4, <2>1
    <3> QED BY <1>4, <3>1
  <2>2. CASE s # r \/ o # p
    <3>1. refund'[s][o] = refund[s][o] BY <1>1, <1>4, <2>2
    <3> QED BY <3>1 DEF CapsIdle
  <2> QED BY <2>1, <2>2
<1> QED BY <1>2, <1>5 DEF CapsIdle

\* Only an invoice that is paid renews the bucket.
LEMMA OnlyRenewed ==
    ASSUME IInv, [Next]_vars, renewals' = 0
    PROVE  renewals = 0 /\ ~Renew
<1>1. renewals \in 0..MaxRenewals BY DEF IInv, TypeOK
<1>2. renewals' = renewals \/ renewals' = renewals + 1
  <2>1. ASSUME NEW r \in Requests, Step(r) PROVE renewals' = renewals
    BY <2>1, StepCounted
  <2>2. ASSUME NEW r \in Requests, NEW p \in Paths, RefundStep(r, p) PROVE renewals' = renewals
    BY <2>2, Zenon DEF RefundStep, StartRefund, RefundBucket, CapRefund, RefundWallet, EndRefund
  <2> QED BY <2>1, <2>2, Zenon DEF Next, Renew, vars
<1> QED BY <1>1, <1>2, Bounds DEF Renew

\* If only the run itself refunds, then as long as no invoice was paid every
\* point of the billing cycle is in the bucket, is charged to the request it was
\* taken for, or was lost with a call that failed.
THEOREM BucketIsConserved ==
    ASSUME OnePath
    PROVE  Spec => []BucketConserved
<1> DEFINE Accounted == BucketConserved /\ CapsIdle
<1>1. Init => Accounted
  <2> SUFFICES ASSUME Init PROVE Accounted OBVIOUS
  <2>1. PICK f, g : f = OfBucket /\ g = ToBucket OBVIOUS
  <2>2. \A r \in Requests : req[r].included = 0 /\ req[r].pc = "new" BY DEF Init, Fresh
  <2>3. \A r \in Requests : f[r] = 0 /\ g[r] = 0
    BY <2>1, <2>2 DEF Init, OfBucket, ToBucket, InCharge
  <2>4. Sum(f) = 0 /\ Sum(g) = 0 BY <2>3, SumOfNone
  <2>5. tokens = Allocation /\ lost.bucket = 0 /\ Allocation \in Nat BY Bounds DEF Init
  <2>6. tokens + Sum(f) + lost.bucket = Allocation + Sum(g) BY <2>4, <2>5
  <2>7. BucketConserved BY <2>1, <2>6 DEF BucketConserved
  <2>8. CapsIdle BY <2>2, <2>5 DEF Init, NotRefunding, CapsIdle
  <2> QED BY <2>7, <2>8
<1>2. IInv /\ IInv' /\ AllTracked' /\ Accounted /\ [Next]_vars => Accounted'
  <2> SUFFICES ASSUME IInv, IInv', AllTracked', BucketConserved, CapsIdle, [Next]_vars
               PROVE  BucketConserved' /\ CapsIdle'
    OBVIOUS
  <2>1. CASE renewals' # 0 BY <2>1 DEF BucketConserved, CapsIdle
  <2>2. CASE renewals' = 0
    <3>1. renewals = 0 /\ ~Renew BY <2>2, OnlyRenewed
    <3>2. BucketConserved'
      <4>1. CASE UNCHANGED vars BY <4>1, BucketStays DEF vars
      <4>2. CASE \E r \in Requests : Step(r) BY <3>1, <4>2, StepBucket
      <4>3. CASE \E r \in Requests : \E p \in Paths : RefundStep(r, p)
        BY <3>1, <4>3, RefundConserves
      <4> QED BY <3>1, <4>1, <4>2, <4>3 DEF Next
    <3>3. tokens' <= Allocation
      <4>1. (IInv /\ (\A r \in Requests : Tracked(r)) /\ BucketConserved /\ renewals = 0
               => tokens <= Allocation)'
        BY NotAbove, PTL
      <4> QED BY <2>2, <3>2, <4>1 DEF AllTracked
    <3>4. CapsIdle'
      <4>1. CASE UNCHANGED vars BY <4>1 DEF vars, CapsIdle
      <4>2. CASE \E r \in Requests : Step(r) BY <3>1, <3>3, <4>2, StepIdle
      <4>3. CASE \E r \in Requests : \E p \in Paths : RefundStep(r, p)
        BY <3>1, <3>3, <4>3, RefundIdle
      <4> QED BY <3>1, <4>1, <4>2, <4>3 DEF Next
    <3> QED BY <3>2, <3>4
  <2> QED BY <2>1, <2>2
<1> QED BY <1>1, <1>2, Starts, Inductive, AlwaysTracked, PTL DEF Spec

=============================================================================
