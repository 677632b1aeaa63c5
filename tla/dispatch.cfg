CONSTANTS
    w1 = w1 w2 = w2 p1 = p1 a = a b = b c = c
    None = None
    Worker = {w1, w2}
    Weight <- Mixed
    Poster = {p1}
    Service = {a, b, c}
    Boot <- BootA
    MaxMsg = 2
SPECIFICATION Spec
INVARIANTS QueueOnce ContextsOK
PROPERTIES ImplementsMailbox
