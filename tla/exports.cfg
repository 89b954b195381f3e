\* One sensitive memory, a profile and a vault shape, one approval, two exports.
SPECIFICATION Spec
CONSTANTS
    profile = profile
    vault = vault
    m1 = m1
    None = None
    Memory = {m1}
    Shape = {profile, vault}
    Files = {vault}
    Covers <- KindCovers
    Approval = {a1}
    Export = {x1, x2}
    Conn = {c1, c2}
INVARIANT TypeOK
INVARIANT ExportsAreAccounted
INVARIANT OneTimeAndDone
PROPERTY ContractSpec
CHECK_DEADLOCK FALSE
SYMMETRY ExportSymmetry
