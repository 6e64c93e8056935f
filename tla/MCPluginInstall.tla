-------------------------- MODULE MCPluginInstall --------------------------
EXTENDS PluginInstall, TLC

CONSTANTS j1, j2, v1, v2

Symmetry == Permutations(Jobs) \cup Permutations(Versions)
=============================================================================
