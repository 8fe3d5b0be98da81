SPECIFICATION Spec
CONSTANTS
    Order <- HttpFirst
    Http <- OneOfEach
    Conns = {c1}
    NoConn = NoConn
INVARIANT AllListenersDrain
CHECK_DEADLOCK FALSE
