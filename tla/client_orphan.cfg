SPECIFICATION Spec
CONSTANTS
    Renders = {r1, r2}
    LongCommands = {r2}
    NoRender = NoRender
INVARIANT NeverOrphan
CHECK_DEADLOCK FALSE
