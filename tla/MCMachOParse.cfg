CONSTANTS
    Files <- MCFiles
    WordBits = 6
    WordMod <- MCWordMod
SPECIFICATION Spec
INVARIANTS
    RebaseExact
    SectionsInside
    TlvTemplate
