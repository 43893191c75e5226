\* The sector timer's configuration, fifo #(16, 8, 0): a full FIFO refuses.
SPECIFICATION Spec
CONSTANTS
    w1 = w1
    w2 = w2
    Item = {w1, w2}
    Depth = 4
    WriteWhenFull = FALSE
INVARIANT TypeOK
PROPERTY ImplementsQueue
