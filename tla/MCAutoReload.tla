---------------------------- MODULE MCAutoReload ----------------------------
(* Instances of AutoReload for TLC. *)
EXTENDS AutoReload, TLC

Uncapped == {Unlimited}

Symmetry == Permutations(Call) \cup Permutations(Op)

\* The evaluation of a charge on a grid where both conversions round: five
\* points to three cents, two cents at least, up to nine points.
Grid ==
  INSTANCE ReloadReference
    WITH PointsNum <- 5, PointsDen <- 3, MinChargeCents <- 2, MaxAmount <- 9

\* evaluateAutoReloadCharge allows exactly the charge of the reference, for
\* every input of the grid, and no chain of charges follows from one low balance.
\* The evaluation reads no state: both formulas are about constants, and are
\* evaluated where no operation has begun yet.
ChargeIsRight == used = {} => Grid!MatchesReference /\ Grid!NoChainOfTopUps
=============================================================================
