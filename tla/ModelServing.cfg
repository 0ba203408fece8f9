CONSTANTS MaxRuns = 2
          MaxEpochs = 2
          MaxAcc = 1
          Absent = Absent
          Torn = Torn
          Predicts = {p1, p2}
          Reports = {m1}
          None = None
SPECIFICATION Spec
SYMMETRY Symmetry
INVARIANTS BestIsSaved MetricsHonest ServedSinceStart
PROPERTY Settled
