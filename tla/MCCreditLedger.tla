--------------------------- MODULE MCCreditLedger ---------------------------
(***************************************************************************)
(* CreditLedger for TLC: the requests of each run.                         *)
(***************************************************************************)
EXTENDS CreditLedger

Req(op, amount, exp) == [op |-> op, amount |-> amount, exp |-> exp]

(* Lots of both kinds, either of which a late webhook can bear expired; a  *)
(* spend larger than a pack alone, and its refund, by itself and by claim. *)
SpendRequests ==
  {Req("debit", 2, Null), Req("grant", 2, 2), Req("pack", 1, 3),
   Req("refund", 2, Null), Req("settle", 2, Null)}

(* A dated lot around a pause.                                              *)
PauseRequests ==
  {Req("debit", 1, Null), Req("grant", 2, 2),
   Req("pause", 0, Null), Req("resume", 0, Null)}

FreeRequests == {Req("read", 0, Null), Req("takeback", 1, Null),
                 Req("pause", 0, Null), Req("resume", 0, Null)}

RaceRequests == {Req("debit", 1, Null), Req("grant", 1, 2)}

AccountRequests == PauseRequests \cup {Req("refund", 1, Null), Req("settle", 1, Null)}

(* Corrections of both signs.                                               *)
AdjustRequests ==
  {Req("adjust", 1, Null), Req("takeback", 1, Null), Req("debit", 2, Null),
   Req("refund", 1, Null)}

AllRequests ==
  SpendRequests \cup AccountRequests \cup AdjustRequests \cup FreeRequests \cup RaceRequests

=============================================================================
