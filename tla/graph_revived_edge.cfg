\* Consolidation revives an edge of a deleted memory.
SPECIFICATION Spec
CONSTANTS
    Mem = {m1, m2, m3}
    Text = {t1, t2}
    project = project
    projectForm = projectForm
    fact = fact
    Entity = {project, projectForm}
    ItemTyped = {}
    Alias <- TwoForms
    Item = Item
    NoKey = NoKey
    MaxCorrections = 0
SYMMETRY Symmetry
INVARIANT ActiveEdgeHasSupport
