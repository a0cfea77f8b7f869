----------------------------- MODULE MCLauncher -----------------------------
\* The launcher with two process ids and two profiles (two server builds).
EXTENDS Launcher, TLC

CONSTANTS l1, l2, p1, p2

MCPid == {l1, l2}
MCProfile == {p1, p2}
Symmetry == Permutations(MCPid) \cup Permutations(MCProfile)
=============================================================================
