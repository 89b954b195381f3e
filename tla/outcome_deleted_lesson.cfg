\* The lesson of a memory that has been deleted is still offered.
SPECIFICATION Spec
CONSTANTS
    Parts = {"outcomes"}
    Memory = {m2, m3}
    Candidate = {a1}
    Caller = {c1, c2}
    Nobody = Nobody
    MaxConflict = 3
    Proposal = {k1, k2, k3}
    Poison = {k3}
    Traded = k2
    Client = {c1, c2}
    Noone = Nobody
    MaxCandidate = 3
    MaxRecord = 1
    Chunks = 2
    Mem = {m1, m2, m3}
    NoMem = NoMem
    Rule = {m1}
    Summarised = {m2, m3}
    Alike = {{m2, m3}}
    Limit = 2
    Marks = 5
    MaxDecided = 2
CHECK_DEADLOCK FALSE
INVARIANT LessonsAreOfActiveMemories
SYMMETRY Symmetry
