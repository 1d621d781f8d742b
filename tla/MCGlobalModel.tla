--------------------------- MODULE MCGlobalModel ---------------------------
\* TLC instance of GlobalModel: all models but the first have the same size, as
\* the checkpoints of one architecture have.
EXTENDS GlobalModel
SizeInChunks == [m \in Models |-> IF m = 1 THEN 1 ELSE 2]
=============================================================================
