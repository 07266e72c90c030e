CONSTANTS
    a = a  b = b
    a1 = a1  a2 = a2  a3 = a3  b1 = b1
    f1 = f1  f2 = f2  g1 = g1
    Run <- MCRun
    Piece <- MCPiece
    RunOf <- MCRunOf
    Slots = 2
SPECIFICATION MCSpec
SYMMETRY MCChunks
INVARIANTS SlotAccounting WorkConserving
PROPERTIES ImplementsFairSlots FewAreServed
\* a closed scheduler with every caller refused has nothing left to do
CHECK_DEADLOCK FALSE
