\* A ring of three usable descriptors, probed, opened, closed and removed.
CONSTANT Capacity = 3
SPECIFICATION FairSpec
INVARIANTS IInv NoUseAfterFree ExactUnwind NapiBalanced
PROPERTIES OperationsReturn LinkComesUp
