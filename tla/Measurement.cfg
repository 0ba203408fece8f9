CONSTANTS Files <- MCFiles
          NoFile = NoFile
          HandlerCalls <- MCHandlerCalls
          DEFAULT_SAMPLE_RATE = 4
          Polynomials <- MCPolynomials
          Moduli = {2, 5, 7, 3329}
          Operands <- MCOperands
          LweModuli = {1, 2, 3, 7, 40}
          MAX_SAFE = 12
          Dimensions <- MCDimensions
          StdFactors <- MCStdFactors
          Secrets <- MCSecrets
          ToyModuli = {2, 3}
          MatrixRows = 2
          Calls <- MCCalls
          CHUNK = 2
          CAP = 4
          LastByte = 7
          MaxWrites = 1
          Batches <- MCBatches
          CValues <- MCCValues
          Elapsed = {0, 1}
          None = None
          CudaOutputs <- MCCudaOutputs
          RocmOutputs = {Missing, 2}
          MemoryRequests = {0, 2, 3, 9}
          CHANNEL_MB = 2
          ROCM_MB = 3
          RAM_MB = 8
          Missing = Missing
          Header = Header
          Short = Short
SPECIFICATION MeasurementSpec
INVARIANTS LoadedWhole NothingAfterClose TransformIsWalsh AnswersInRange PassedMeansZero ScoreIsHonest AllocationHonest
CHECK_DEADLOCK FALSE
