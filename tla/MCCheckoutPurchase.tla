------------------------- MODULE MCCheckoutPurchase -------------------------
EXTENDS CheckoutPurchase, TLC

=============================================================================
