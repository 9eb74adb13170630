---------------------------- MODULE MCWifiRetries ----------------------------
EXTENDS WifiRetries, TLC

\* The access points differ only in name.
Symmetry == Permutations(Caches)
=============================================================================
