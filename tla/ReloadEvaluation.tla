-------------------------- MODULE ReloadEvaluation --------------------------
(***************************************************************************)
(* How much an automatic top-up of the Extra Usage wallet may charge:      *)
(* evaluateAutoReloadCharge of convex/extraUsage.ts, as a pure operator.   *)
(*                                                                         *)
(* The wallet counts points, Stripe charges whole cents, and a cent does   *)
(* not buy a whole number of points: both conversions round.  A wanted     *)
(* top-up is rounded up to a cent; under a monthly cap the charge is the   *)
(* largest one whose points still fit (the loop of the source).            *)
(***************************************************************************)
EXTENDS Integers

CONSTANTS
  PointsNum,       \* a cent buys PointsNum / PointsDen points: 250 / 3 in the
  PointsDen,       \* source (10000 points to the dollar, sold at 1.2 dollars)
  MinChargeCents   \* 100 in the source: no charge below one dollar

ASSUME ReloadAssumption ==
  /\ PointsNum \in Nat \ {0}
  /\ PointsDen \in 1..PointsNum
  /\ MinChargeCents \in Nat \ {0}

\* The source's "undefined" for a monthly cap and for what is left of it.
Unlimited == -1

AtLeast(a, b) == IF a >= b THEN a ELSE b
AtMost(a, b)  == IF a <= b THEN a ELSE b

\* extraUsageDollarsToPoints.
PointsOf(cents) == (cents * PointsNum) \div PointsDen

\* The least number of cents that buys at least these points.
CentsRoundedUp(points) ==
  (points * PointsDen + PointsNum - 1) \div PointsNum

\* The greatest number of cents that buys at most these points.
CentsWithin(points) ==
  (PointsDen * (points + 1) - 1) \div PointsNum

\* What may still be spent this month, Unlimited without a cap.
MonthlyRemaining(cap, spent) ==
  IF cap = Unlimited THEN Unlimited ELSE AtLeast(0, cap - spent)

Refused(reason) == [allowed |-> FALSE, cents |-> 0, reason |-> reason]

\* No top-up is due: the wallet covers the request, or, with no request left
\* to cover (requested = 0), it is above the threshold.
Covered(balance, threshold, requested) ==
  IF requested > 0 THEN balance >= requested ELSE balance > threshold

\* Mutant of DesiredCents: the reload amount is charged, whatever the balance.
WholeReloadCents(balance, reload, requested) ==
  CentsRoundedUp(AtLeast(reload, requested))

\* The charge that brings the wallet to the reload amount, or to the request
\* if that is more; at least the minimum when there is a request to cover.
DesiredCents(balance, reload, requested) ==
  LET wanted == CentsRoundedUp(
                  AtLeast(0, AtLeast(reload, requested) - balance))
  IN  IF requested > 0 /\ wanted > 0
        THEN AtLeast(MinChargeCents, wanted)
        ELSE wanted

\* The desired charge, cut to what the monthly cap leaves room for.
ChargeCents(balance, reload, requested, remaining) ==
  LET desired == DesiredCents(balance, reload, requested)
  IN  IF remaining = Unlimited
        THEN desired
        ELSE AtMost(desired,
                    CentsWithin(AtLeast(0, remaining - balance)))

EvaluateCharge(balance, threshold, reload, requested, remaining) ==
  LET cents == ChargeCents(balance, reload, requested, remaining)
  IN  IF reload <= 0 THEN Refused("reload_amount_not_configured")
      ELSE IF Covered(balance, threshold, requested) THEN Refused("not_needed")
      ELSE IF remaining # Unlimited /\ requested > remaining
        THEN Refused("monthly_cap_exceeded")
      ELSE IF \/ cents < MinChargeCents
              \/ requested > 0 /\ balance + PointsOf(cents) < requested
        THEN Refused("amount_to_charge_below_minimum")
      ELSE [allowed |-> TRUE, cents |-> cents, reason |-> "none"]
=============================================================================
