--------------------------- MODULE AttemptContract ---------------------------
(***************************************************************************)
(* What a creator is promised of a press of "generate": it is answered     *)
(* once, with the work and its charge together or with neither.            *)
(***************************************************************************)
EXTENDS Naturals

CONSTANTS Attempts, Prices

VARIABLES phase, paid

contractVars == <<phase, paid>>

Phases == {"unused", "open", "delivered", "closed"}

ContractInit ==
  /\ phase = [a \in Attempts |-> "unused"]
  /\ paid = [a \in Attempts |-> 0]

Open(a) ==
  /\ phase[a] = "unused"
  /\ phase' = [phase EXCEPT ![a] = "open"]
  /\ UNCHANGED paid

Deliver(a, price) ==
  /\ phase[a] = "open"
  /\ phase' = [phase EXCEPT ![a] = "delivered"]
  /\ paid' = [paid EXCEPT ![a] = price]

(* Several may be given up at once.                                        *)
Close(S) ==
  /\ \A a \in S : phase[a] = "open"
  /\ phase' = [a \in Attempts |-> IF a \in S THEN "closed" ELSE phase[a]]
  /\ UNCHANGED paid

Answer(a) ==
  \/ \E price \in Prices : Deliver(a, price)
  \/ \E S \in SUBSET Attempts : a \in S /\ Close(S)

ContractNext == \E a \in Attempts : Open(a) \/ Answer(a)

ContractSpec == ContractInit /\ [][ContractNext]_contractVars
=============================================================================
