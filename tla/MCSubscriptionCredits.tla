----------------------- MODULE MCSubscriptionCredits -----------------------
(* Instances of SubscriptionCredits for TLC. *)
EXTENDS SubscriptionCredits, TLC

CONSTANTS pro, ultra

Credits == pro :> 1 @@ ultra :> 3
Symmetry == Permutations(Handlers)

=============================================================================
