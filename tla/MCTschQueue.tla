---------------------------- MODULE MCTschQueue ----------------------------
EXTENDS TschQueue

CONSTANTS A

\* A dedicated link to A, and one that only listens.
Dedicated == [addr |-> A, tx |-> TRUE, rx |-> FALSE, shared |-> FALSE, type |-> "normal"]
Listen    == [addr |-> Broadcast, tx |-> FALSE, rx |-> TRUE, shared |-> FALSE, type |-> "normal"]

MCKinds == {Dedicated, Listen}
DedicatedKinds == {Dedicated}
============================================================================
