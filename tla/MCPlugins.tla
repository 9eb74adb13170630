------------------------------- MODULE MCPlugins -------------------------------
EXTENDS Plugins, TLC

Symmetry == Permutations(Buffers)
=============================================================================
