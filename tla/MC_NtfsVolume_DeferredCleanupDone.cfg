CONSTANTS
    Volume = {v1}
    Handle = {h1, h2, h3}
    Node = {"f1", "d1", "f2"}
    Dir = {"d1"}
    Root = "root"
    Parent <- MCParent
    InitialNode = {"f1", "d1"}
    MaxMounts = 2
    MaxRefCount = 2
    None = None
SPECIFICATION Spec
INVARIANT DeferredCleanupDone
CHECK_DEADLOCK FALSE
