CONSTANTS
    Leaf = leaf
    Face = face
    Derived = derived
    Mixed = mixed
    Heir = heir
    NoClass = noClass
    Classes = {leaf, face, derived, mixed, heir}
    List <- MCList
    Metas <- MCMetas
    Instance <- MCInstance
    Heap <- MCHeap
    Objects <- MCObjects
    Memories <- MCMemories
    Nesting <- MCNesting
CHECK_DEADLOCK FALSE
SPECIFICATION FairSpec
INVARIANTS
    ReadsLive
    DefaultsRight
    PanicsOnMaps
PROPERTY
    Ends
