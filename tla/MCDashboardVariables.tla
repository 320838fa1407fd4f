------------------------ MODULE MCDashboardVariables ------------------------
EXTENDS DashboardVariables

\* Nothing depends on which name is which.
NamesSymmetry == Permutations(VariableNames)
=============================================================================
