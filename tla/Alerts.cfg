CONSTANTS Calls = {c1, c2, c3}
          Sources = {synthetic, local}
          latency_ms = latency_ms
          Metrics = {latency_ms}
          Values = {0, 1}
          Threshold <- MCThreshold
          Cooldown = 2
          Readings = {0, 1, 2, 3}
          HasTransport = TRUE
          Nonfinite = Nonfinite
          brief = brief
          long = long
          Policies = {brief, long}
          ScopeCooldown <- MCCooldown
          Requests <- MCRequests
          MaxChunks = 2
          MaxTime = 2
          MaxLog = 8
          None = None
          Invalid = Invalid
          Unset = Unset
          InvalidMessage = InvalidMessage
          Paused = Paused
          Error = Error
SPECIFICATION AlertsSpec
INVARIANTS CooldownSpacing SuppressedIsCovered StreamAnswersControls AlertsSpaced
PROPERTIES DecidedDespiteTransport PlaybackEnds
