----------------------------- MODULE MCSATModule -----------------------------
EXTENDS SATModule

(* Incremental use: two theory variables, checks between additions and     *)
(* removals, backends that give up.                                        *)
MCTheoryVar == {1, 2}
MCConflicts == {{1, -2}}
MCScripts == {<<{1, 3}, {1, -3}, {-2}>>, <<{1, 2}, {-1, -3}, {-2, 3}>>}
MCGivesUp == {{2}, {1, 2}}

(* One check, with conflicts over several levels and theory propagations.  *)
LearningTheoryVar == {1, 2, 5}
LearningConflicts == {{1, -2}, {1, -5}}
LearningScripts == {<<{1, 3}, {-2, -4, 3}, {-2, -4, -3}>>}
LearningGivesUp == {}

(* Removal: a clause that fixes a literal is added, checked and removed.   *)
RemovalTheoryVar == {2}
RemovalConflicts == {}
RemovalScripts == {<<{1, 2}, {1, -2}, {-1, 2}, {-1, -2}>>}
=============================================================================
