--------------------------- MODULE PurchaseLedger ---------------------------
(***************************************************************************)
(* What buying extra usage promises: a Checkout Session that is paid for   *)
(* is credited to the wallet once, and no other is.                        *)
(***************************************************************************)
EXTENDS Naturals

CONSTANT Session

VARIABLES
    paid,      \* the sessions that are paid for
    credits    \* how often the wallet was credited for each session

LedgerInit ==
    /\ paid = {}
    /\ credits = [s \in Session |-> 0]

Pay(s) ==
    /\ paid' = paid \cup {s}
    /\ UNCHANGED credits

CreditOnce(s) ==
    /\ s \in paid
    /\ credits[s] = 0
    /\ credits' = [credits EXCEPT ![s] = 1]
    /\ UNCHANGED paid

LedgerNext == \E s \in Session : Pay(s) \/ CreditOnce(s)

LedgerSpec == LedgerInit /\ [][LedgerNext]_<<paid, credits>>
=============================================================================
