---------------------------- MODULE MCGeneration ----------------------------
(* Instances of Generation for TLC.                                        *)
EXTENDS Generation

CONSTANTS c1, c2, c3, c4, a1, a2, a3, a4

(* One press and its repeats; presses apart.                               *)
OneAttempt == [c \in Callers |-> a1]
OwnAttempts == [c \in Callers |-> CASE c = c1 -> a1 [] c = c2 -> a2 [] c = c3 -> a3 [] c = c4 -> a4]

SameInput == [c \in Callers |-> 1]
OneDiffers == [c \in Callers |-> IF c = c3 THEN 2 ELSE 1]
=============================================================================
