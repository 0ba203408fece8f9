CONSTANTS Blocks = {x, y}
          MAX_FILE_BYTES = 2
          MaxLength = 4
          MaxTime = 3
          Coarse = FALSE
          Length = 9
          HeaderSize = 1
          Tables <- MCTables
          MAX_SECTIONS = 4
          MAX_EXECUTABLE_BYTES = 4
          MAX_INSTRUCTIONS = 3
          MAX_FINDINGS = 1
          MaxSize = 2
          None = None
SPECIFICATION AuditSpec
SYMMETRY Symmetry
INVARIANTS RejectedIfChanged SectionsApart CompleteMeansReviewed
CHECK_DEADLOCK FALSE
