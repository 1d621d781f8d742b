------------------------ MODULE MCAggregationServer ------------------------
\* TLC instance of AggregationServer: request threads are interchangeable, SIDs
\* and tasks are numbers because the code orders them.
EXTENDS AggregationServer, TLC
Symmetry == Permutations(Handlers)
AllOwners == [t \in Tasks |-> Sids]
FirstOwns == [t \in Tasks |-> {1}]
=============================================================================
