CONSTANTS Jobs <- MCJobs
          Elapsed = {1, 2, 4, 5}
          THRESHOLD = 2
          Files <- MCFileOrder
          InitialTree <- MCInitialTree
          Edits <- MCEdits
          Edited = {"one.py"}
          Unreadable = Unreadable
          Absent = Absent
          Torn = Torn
          FIELDS = {"module_id", "version", "services", "certificate_standard", "certificate_status", "certificate_reference"}
          TARGET_FIELDS = {"module_id", "version", "services"}
          ModuleId = "module_id"
          Services = "services"
          Standard = "certificate_standard"
          Status = "certificate_status"
          Scope = {"module_id", "version", "certificate_reference"}
          Targets <- MCTargets
          Documents <- MCDocuments
          Current = "FIPS 140-3"
          MAX_DOCUMENTS = 4
          Allowed <- MCAllowed
          Null = Null
          Unknown = Unknown
          Names = {"a", "b"}
          BadName = "/"
          Starts = {1, 2}
          Days = {0, 2, 3}
          CheckTimes = {1, 3, 4, 5}
          LastTime = 4
          MAX_DAYS = 2
          Serials = {1, 2}
          MaxChains = 2
          BadLength = BadLength
          Evaluations <- MCEvaluations
          Lists <- MCLists
          CLASSES = {0, 1, 2}
          MAX_RESULTS = 4
SPECIFICATION EvidenceSpec
INVARIANTS ReportsAccount BomCoversScan StandardsAgree AcceptedIsIssued RanksAreCompetition
PROPERTY GapsPersist
CHECK_DEADLOCK FALSE
