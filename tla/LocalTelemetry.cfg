CONSTANTS Infers = {i1, i2, i3}
          Scrapes = {s1}
SPECIFICATION Spec
INVARIANTS OneInference MetricsMatchAnswers ScrapeConsistent
PROPERTIES AllAnswered
CHECK_DEADLOCK FALSE
