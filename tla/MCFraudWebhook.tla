--------------------------- MODULE MCFraudWebhook ---------------------------
EXTENDS FraudWebhook, TLC

Symmetry == Permutations(Delivery)
=============================================================================
