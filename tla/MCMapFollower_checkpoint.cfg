\* Checkpoints are kept at any moment; one restart of the producer.
CONSTANTS
    Window = 1
    Orderly = FALSE
    MaxEvents = 1
    MaxLines = 2
    MaxDrops = 1
    MaxLives = 2
SPECIFICATION Spec
INVARIANT CheckpointsBind
CHECK_DEADLOCK FALSE
