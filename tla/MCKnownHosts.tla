---------------------------- MODULE MCKnownHosts ----------------------------
(* Instance of KnownHosts for TLC: two connections, two keys.              *)
EXTENDS KnownHosts, TLC

CONSTANTS c1, c2, k1, k2

MCClients == {c1, c2}
MCKeys == {k1, k2}
MCFingerprints == {NoKey, k1}
MCInitialLines == {<<<<"other", NoKey>>>>, <<<<"record", k2>>, <<"record", k2>>, <<"other", NoKey>>>>}
MCSymmetry == Permutations(MCClients)
=============================================================================
