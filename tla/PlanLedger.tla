----------------------------- MODULE PlanLedger -----------------------------
(***************************************************************************)
(* What the webhook promises about the invoices of a subscription, without *)
(* events, handlers or scripts: an invoice renews the plan or changes it;  *)
(* only a change carries the rest of the bucket over to the new tier, only *)
(* after it was paid, and only once, whatever comes twice or out of order. *)
(***************************************************************************)
CONSTANT Invoices

VARIABLE plan  \* what has become of each invoice

Stage == {"unused", "renewal", "changed", "paid", "carried"}

LedgerTypeOK == plan \in [Invoices -> Stage]

LedgerInit == plan = [i \in Invoices |-> "unused"]

Moves(i, from, to) ==
    /\ plan[i] = from
    /\ plan' = [plan EXCEPT ![i] = to]

Renewed(i) == Moves(i, "unused", "renewal")
Changed(i) == Moves(i, "unused", "changed")
Paid(i) == Moves(i, "changed", "paid")
CarriedOver(i) == Moves(i, "paid", "carried")

LedgerNext ==
    \E i \in Invoices : Renewed(i) \/ Changed(i) \/ Paid(i) \/ CarriedOver(i)

LedgerSpec == LedgerInit /\ [][LedgerNext]_plan
=============================================================================
