\* Two candidates, three memory rows, two overlapping connections.
SPECIFICATION Spec
CONSTANTS
    Candidate = {k1, k2}
    Memory = {m1, m2, m3}
    Conn = {c1, c2}
    NoCandidate = NoCandidate
    MaxReviews = 2
INVARIANT TypeOK
INVARIANT DecisionsHold
INVARIANT OneDecisionPerCandidate
PROPERTY RetiredStaysRetired
PROPERTY ContractSpec
CHECK_DEADLOCK FALSE
SYMMETRY RowSymmetry
