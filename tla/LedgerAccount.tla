---------------------------- MODULE LedgerAccount ----------------------------
(***************************************************************************)
(* That CreditLedger implements CreditAccount.                             *)
(***************************************************************************)
EXTENDS CreditLedger

(* The abstract account of the committed ledger at its last observation,   *)
(* carried along in a variable so that TLC computes it once per state.     *)
VARIABLE account

LiveAtBirth(r) == IsLotRow(r) /\ (r.exp = Null \/ r.exp > r.at)

AccountOf(rows, periods, t) ==
  [credited  |-> SumOf(LAMBDA r : r.delta, {r \in rows : LiveAtBirth(r)}),
   spent     |-> -SumOf(LAMBDA r : r.delta,
                        {r \in rows : r.kind # "expiry" /\ ~IsLotRow(r)}),
   available |-> BalanceAt(rows, periods, t)]

Observed    == account = AccountOf(ledger, pauses, asOf)
Observation == account' = AccountOf(ledger', pauses', asOf')

Abstract == INSTANCE CreditAccount WITH
  credited  <- account.credited,
  spent     <- account.spent,
  available <- account.available,
  frozen    <- HasOpenPause

(* The ledger implements the account: postings change the spendable balance*)
(* by exactly what they record, credits lapse only outside a pause, and    *)
(* pausing or resuming moves none.                                         *)
ImplementsAccount == Abstract!Spec
=============================================================================
