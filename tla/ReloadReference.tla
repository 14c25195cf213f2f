--------------------------- MODULE ReloadReference ---------------------------
(***************************************************************************)
(* EvaluateCharge against a reference definition, for every input up to a  *)
(* bound. Both properties are about constants alone.                       *)
(***************************************************************************)
EXTENDS ReloadEvaluation, FiniteSetsExt

CONSTANT MaxAmount  \* bound on every amount of points

Points == 0..MaxAmount
Cents == 0..(MaxAmount + MinChargeCents)

\* A wallet with automatic top-ups, what a request needs of it, and what is left
\* of the month's cap. The amount to reload is bought in whole cents.
Inputs ==
  [balance : Points, threshold : Points, requested : Points,
   reload : {PointsOf(c) : c \in Cents} \cap Points,
   remaining : Points \cup {Unlimited}]

Evaluated(i) ==
  EvaluateCharge(i.balance, i.threshold, i.reload, i.requested, i.remaining)

\* A charge that leaves the wallet able to pay for the request, keeps it within
\* what the month's cap still lets the user spend, and is not below the minimum.
Acceptable(i, cents) ==
  LET after == i.balance + PointsOf(cents)
  IN  /\ cents >= MinChargeCents
      /\ i.requested > 0 => after >= i.requested
      /\ i.remaining # Unlimited => after <= i.remaining

\* The least charge that brings the wallet to its target.
FillsTheWallet(i) ==
  Min({c \in Cents :
         /\ i.balance + PointsOf(c) >= AtLeast(i.reload, i.requested)
         /\ i.requested > 0 => c >= MinChargeCents})

\* The charge is refused when none is due or none is acceptable; otherwise it
\* is the largest acceptable one that does not overfill the wallet.
Reference(i) ==
  LET due == i.reload > 0 /\ ~Covered(i.balance, i.threshold, i.requested)
      fitting == {c \in 0..FillsTheWallet(i) : Acceptable(i, c)}
  IN  IF due /\ fitting # {} THEN Max(fitting) ELSE 0

\* evaluateAutoReloadCharge allows exactly the charge of the reference.
MatchesReference ==
  \A i \in Inputs :
    LET e == Evaluated(i)
        charge == Reference(i)
    IN  e.allowed = (charge > 0) /\ e.cents = charge

\* Once a top-up is credited the same evaluation asks for no other one, neither
\* for the request nor for the threshold that is left when it is paid for: no
\* chain of charges follows from one low balance.
NoChainOfTopUps ==
  \A i \in Inputs :
    LET e == Evaluated(i)
        after == i.balance + PointsOf(e.cents)
    IN  e.allowed =>
          \A want \in {0, i.requested} :
            ~Evaluated([i EXCEPT !.balance = after, !.requested = want]).allowed
=============================================================================
