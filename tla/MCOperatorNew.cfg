CONSTANTS
    ExportSets <- MCExportSets
    MaxBlocks = 2
SPECIFICATION Spec
INVARIANTS
    TypeOK
    PlainBlocksReturn
    LateBlocksReturn
