\* Two games at two terminals, and one Ctrl-C.
SPECIFICATION DemoSpec
CONSTANTS
    Games = {g1, g2}
    MaxInterrupts = 1
INVARIANT GameEndsItsChildren
CHECK_DEADLOCK FALSE
