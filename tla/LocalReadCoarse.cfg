CONSTANTS Blocks = {x, y}
          MAX_FILE_BYTES = 2
          MaxLength = 2
          MaxTime = 0
          Coarse = TRUE
SPECIFICATION Spec
SYMMETRY Symmetry
INVARIANT ReadIsWhole
CHECK_DEADLOCK FALSE
