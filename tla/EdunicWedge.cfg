\* The queue of an interface that was closed and opened with a full ring.
CONSTANT Capacity = 2
SPECIFICATION FairSpec
PROPERTY StoppedIsWoken
