------------------------------ MODULE RunSlots ------------------------------
(***************************************************************************)
(* The run slots of a workspace (db/src/run-slot.ts): `Limit` session      *)
(* advisory locks, tried in order of their index.  A slot lives as long as *)
(* the connection that took it.                                            *)
(***************************************************************************)
EXTENDS Naturals, FiniteSets

CONSTANTS Callers, Limit, Nobody

ASSUME SlotAssumption == Limit \in Nat \ {0} /\ Nobody \notin Callers

VARIABLES
  lock,   \* whose session holds each index
  probe   \* the index a caller tries next

slotVars == <<lock, probe>>

Indices == 0..(Limit - 1)

SlotInit ==
  /\ lock = [i \in Indices |-> Nobody]
  /\ probe = [c \in Callers |-> 0]

SlotTypeOK ==
  /\ lock \in [Indices -> Callers \cup {Nobody}]
  /\ probe \in [Callers -> 0..Limit]

(* Mutant: the slot is handed out whoever holds it.                        *)
IsFreeToAnyone(i) == i \in Indices

IsFree(i) == lock[i] = Nobody

(* pg_try_advisory_lock on the next index: taken, or on to the one after.  *)
TakeSlot(c) ==
  /\ probe[c] < Limit /\ IsFree(probe[c])
  /\ lock' = [lock EXCEPT ![probe[c]] = c]
  /\ UNCHANGED probe

PassSlot(c) ==
  /\ probe[c] < Limit /\ ~IsFree(probe[c])
  /\ probe' = [probe EXCEPT ![c] = @ + 1]
  /\ UNCHANGED lock

(* Every index was found taken when it was tried, or the pool had no       *)
(* connection to try with.                                                 *)
NoSlot(c) == probe[c] \in {0, Limit} /\ UNCHANGED slotVars

Held(c) == {i \in Indices : lock[i] = c}

(* release(), the end of the process, and the loss of the connection.      *)
FreeSlot(c) ==
  /\ lock' = [i \in Indices |-> IF lock[i] = c THEN Nobody ELSE lock[i]]
  /\ UNCHANGED probe
=============================================================================
