---------------------------- MODULE CreditAccount ----------------------------
(***************************************************************************)
(* What the credit ledger of one workspace promises its customer,          *)
(* independently of rows, replays and clocks.  Credits are posted, spent,  *)
(* or lapse; a transaction's effect on the spendable balance is exactly    *)
(* what it records; a paused account is frozen: nothing is spent, nothing  *)
(* lapses, and pausing or resuming changes no balance.                     *)
(***************************************************************************)
EXTENDS Integers

VARIABLES
  credited,     \* all credits ever added that could be spent when added
  spent,        \* all credits ever spent
  available,    \* the spendable balance
  frozen        \* the subscription is paused

account == <<credited, spent, available, frozen>>

Init ==
  /\ credited = 0 /\ spent = 0 /\ available = 0
  /\ frozen = FALSE

(* One transaction adds c credits and spends s, however many.              *)
Post ==
  LET c == credited' - credited
      s == spent' - spent
  IN  /\ c \in Nat /\ s \in Nat
      /\ s > 0 => ~frozen
      /\ s <= available + c
      /\ available' = (available + c) - s
      /\ UNCHANGED frozen

Lapse ==
  /\ ~frozen
  /\ available' \in 0..available
  /\ UNCHANGED <<credited, spent, frozen>>

Freeze == ~frozen /\ frozen' = TRUE /\ UNCHANGED <<credited, spent, available>>
Thaw   == frozen /\ frozen' = FALSE /\ UNCHANGED <<credited, spent, available>>

Next == Freeze \/ Thaw \/ Lapse \/ Post

Spec == Init /\ [][Next]_account
=============================================================================
