--------------------------- MODULE MCNativeIndex ---------------------------
\* TLC instance of NativeIndex.  Labels are numbers so that their home slots
\* collide: odd labels share a home slot and even labels probe into it.
EXTENDS NativeIndex, TLC
CollidingHome == [l \in Labels |-> IF l % 2 = 1 THEN Capacity - 1 ELSE 0]
Symmetry == Permutations(Threads) \cup Permutations(Tokens)
=============================================================================
