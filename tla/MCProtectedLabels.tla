------------------------- MODULE MCProtectedLabels -------------------------
\* TLC instance of ProtectedLabels: two threads of one client, which is restarted
\* as often as crashes are left.
EXTENDS ProtectedLabels, TLC
OneClient == [t \in Threads |-> CHOOSE c \in Clients : TRUE]
Symmetry ==
    Permutations(Servers) \cup Permutations(Keys)
        \cup Permutations(Threads) \cup Permutations(Records)
=============================================================================
