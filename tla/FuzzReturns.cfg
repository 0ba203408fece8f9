CONSTANTS Jobs <- MCReportJobs
          Elapsed = {1, 4}
          THRESHOLD = 2
SPECIFICATION FuzzSpec
INVARIANT ReportReturned
CHECK_DEADLOCK FALSE
