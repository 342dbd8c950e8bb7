SPECIFICATION Spec
CONSTANTS
    c1 = c1
    c2 = c2
    c3 = c3
    Components = {c1, c2, c3}
    Places = {p1, p2, p3, p4, p5}
    Root = Root
    Long = {c1, c2}
    KeyFor <- Collide
SYMMETRY Symmetry
INVARIANTS TypeOK CountsAreExact WrittenOnce NothingMissing KeysIdentify
CHECK_DEADLOCK FALSE
