---------------------------- MODULE MCTaskWord -----------------------------
\* TLC instance of TaskWord: threads and trainers are interchangeable.
EXTENDS TaskWord, TLC
Symmetry == Permutations(Threads) \cup Permutations(Trainers)
=============================================================================
