SPECIFICATION Spec
CONSTANTS
  MaxAddress = 2
  Payloads <- MCPayloads
  Buffers <- MCBuffers
  HostPlatform = "posix"
  MaxEvents = 2
  MaxLines = 4
  MaxFlushes = 2
  MaxFaults = 1
INVARIANTS AcceptedIsFlushed FlushedIsReadable
