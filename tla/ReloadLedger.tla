---------------------------- MODULE ReloadLedger ----------------------------
(***************************************************************************)
(* What auto-reload promises about the user's money, without calls, leases *)
(* or Stripe: each reload operation is dropped before it charges, or it    *)
(* charges the card once and the wallet is credited once for it; and while *)
(* one operation could still charge or is charged and not yet credited, no *)
(* other operation begins.  The one exception is a payment that settles    *)
(* after it was answered: its operation goes astray, and a stray charge is *)
(* only credited by a call that still drives the operation.                *)
(***************************************************************************)
CONSTANTS
  Op,
  SettlesLate  \* payments may settle after they were answered

VARIABLE ledger  \* what has become of each operation

Stage == {"unused", "held", "charged", "credited", "dropped", "stray"}

LedgerTypeOK == ledger \in [Op -> Stage]

LedgerInit == ledger = [o \in Op |-> "unused"]

Moves(o, from, to) ==
  /\ ledger[o] = from
  /\ ledger' = [ledger EXCEPT ![o] = to]

Begin(o) ==
  /\ \A p \in Op : ledger[p] \notin {"held", "charged"}
  /\ Moves(o, "unused", "held")

Charge(o) == Moves(o, "held", "charged")
CreditWallet(o) ==
  Moves(o, "charged", "credited") \/ Moves(o, "stray", "credited")
Drop(o) == Moves(o, "held", "dropped")

Stray(o) ==
  /\ SettlesLate
  /\ Moves(o, "dropped", "stray") \/ Moves(o, "charged", "stray")

LedgerNext ==
  \E o \in Op :
    Begin(o) \/ Charge(o) \/ CreditWallet(o) \/ Drop(o) \/ Stray(o)

LedgerSpec == LedgerInit /\ [][LedgerNext]_ledger
=============================================================================
