CONSTANTS
    t1 = t1 t2 = t2 Net = Net
    None = None
    Sender = {t1, t2}
    MaxId = 2
    Units = 2
    Uses <- AllUses
    Early = FALSE
SPECIFICATION FairSpec
INVARIANTS WireOK WriteWatched SendingOK
PROPERTIES CloseServed
CHECK_DEADLOCK FALSE
