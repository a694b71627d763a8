------------------------ MODULE MC_LeAddressManager ------------------------
EXTENDS LeAddressManager, TLC

CONSTANTS c1, c2

\* Two clients, e.g. the scanning and the advertising manager.
MCClients == {c1, c2}
MCOneClient == {c1}

MCSymmetry == Permutations(MCClients)
=============================================================================
