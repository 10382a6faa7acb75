SPECIFICATION Spec
CONSTANTS
    e1 = e1  e2 = e2
    ok = ok  cancel = cancel
    top = top  bottom = bottom
    None = None
    Refs <- MCRefs
    Ids = {ok, cancel}
    Places = {top, bottom}
    Trees <- MCTrees
    MaxGen = 3
    MaxEffects = 3
INVARIANTS RefTypeOK ActiveFrameCurrent ActedOnNamed PinNamesOneElement
PROPERTIES AuthorityChangesOpenly
CHECK_DEADLOCK FALSE
