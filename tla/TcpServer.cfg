CONSTANTS
    Conns = {c1, c2, c3}
    Base = base
    IoLoops = {l1, l2}
    Stoppers = {base, main}
    Calls = {"close", "shutdown"}
    Wrap = 8
SPECIFICATION Spec
 
PROPERTIES StopReturnsWithoutPool
CHECK_DEADLOCK FALSE
