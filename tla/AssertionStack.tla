--------------------------- MODULE AssertionStack ---------------------------
(***************************************************************************)
(* What a solver promises about its assertion stack (manual/embedding.tex, *)
(* push and pop; Manager.h): the assertions and objectives in force, and,  *)
(* for every level pushed, those that were in force when it was.  A check  *)
(* changes nothing.                                                        *)
(***************************************************************************)
EXTENDS Integers, Sequences

CONSTANTS Formula,    \* what may be asserted
          Objective   \* what may be optimised

VARIABLES asserted,   \* the formulas in force
          objectives, \* the objectives in force, in order
          levels      \* per level: what was in force below it

stackVars == <<asserted, objectives, levels>>

StackInit == asserted = {} /\ objectives = <<>> /\ levels = <<>>

Assert == /\ \E F \in SUBSET Formula : asserted' = asserted \cup F
          /\ UNCHANGED <<objectives, levels>>

Optimise == /\ \E o \in Objective : objectives' = Append(objectives, o)
            /\ UNCHANGED <<asserted, levels>>

Push == /\ levels' = Append(levels, [asserted |-> asserted, objectives |-> objectives])
        /\ UNCHANGED <<asserted, objectives>>

(* Drop the levels above the n lowest ones.                                *)
PopTo(n) == /\ asserted' = levels[n + 1].asserted
            /\ objectives' = levels[n + 1].objectives
            /\ levels' = SubSeq(levels, 1, n)

Pop == \E n \in 0 .. Len(levels) - 1 : PopTo(n)

StackNext == Assert \/ Optimise \/ Push \/ Pop

StackSpec == StackInit /\ [][StackNext]_stackVars
=============================================================================
