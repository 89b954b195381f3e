\* Every operation: three memories, two forms of one entity and one typed like an item.
SPECIFICATION Spec
CONSTANTS
    Mem = {m1, m2, m3}
    Text = {t1, t2}
    project = project
    projectForm = projectForm
    fact = fact
    Entity = {project, projectForm, fact}
    ItemTyped = {fact}
    Alias <- TwoForms
    Item = Item
    NoKey = NoKey
    MaxCorrections = 1
SYMMETRY Symmetry
INVARIANT TypeOK
INVARIANT ShownIsSupported
INVARIANT ShownIsCurrent
PROPERTY HiddenNodeStaysHidden
