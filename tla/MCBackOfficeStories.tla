------------------------- MODULE MCBackOfficeStories -------------------------
(***************************************************************************)
(* What goes on behind the owner's back: the executor deleting a           *)
(* workspace, the worker analysing a pasted reference, visitors trying a   *)
(* Sample Spin, and the last two sharing the day's budget.  The story is   *)
(* chosen at the start and kept; the other modules' variables rest.        *)
(***************************************************************************)
EXTENDS DeletionLifecycle, AutopsyWork, SampleSpin, TLC

CONSTANTS w1, w2, a1, a2, r1, r2, r3, r4, v1, v2, v3

VARIABLE story

Alike == Permutations({w1, w2}) \cup Permutations({r1, r2, r3})

SharedAutopsies == INSTANCE AutopsyWork WITH
    AutopsyIds <- {a1, a2}, MaxTries <- 2, Costs <- {3}
Spins == INSTANCE SampleSpin WITH SpinIds <- {r1, r2, r3}, Visitors <- {v1, v2}
SharedSpins == INSTANCE SampleSpin WITH
    SpinIds <- {r4}, Visitors <- {v3}, MaxVersion <- 1, Costs <- {1}

StoriesInit ==
    /\ story \in {"deletion", "autopsies", "spins", "one budget"}
    /\ XInit /\ SpendInit /\ AutopsyInit /\ SpinInit

StoriesNext ==
    /\ UNCHANGED story
    /\ \/ story = "deletion" /\ XNext /\ UNCHANGED <<spendVars, autopsyVars, spinVars>>
       \/ story = "autopsies" /\ AutopsyNext /\ UNCHANGED <<xVars, spinVars>>
       \/ story = "spins" /\ Spins!SpinNext /\ UNCHANGED <<xVars, autopsyVars>>
       \/ story = "one budget" /\ SharedAutopsies!AutopsyNext /\ UNCHANGED <<xVars, spinVars>>
       \/ story = "one budget" /\ SharedSpins!SpinNext /\ UNCHANGED <<xVars, autopsyVars>>

StoriesSpec ==
    StoriesInit /\ [][StoriesNext]_<<xVars, spendVars, autopsyVars, spinVars, story>>
=============================================================================
