SPECIFICATION Spec
CONSTANTS
    Clients = {c1}
    Topics = {"a", "b"}
    Messages = {{"a"}, {"a", "b"}}
    System = System
    Capacity = 2
    MaxEvents = 4
INVARIANT NoGap
INVARIANT InOrder
PROPERTY Delivered
