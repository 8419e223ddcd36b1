SPECIFICATION Spec
CONSTANTS
    Threads = {t1, t2, t3}
    Metas = {g1, g2}
    Shapes <- MCShapes
INVARIANTS SlotsKept Assertions FreeSlotsFound
SYMMETRY Symmetry
