SPECIFICATION Spec
CONSTANTS
  BufferSize = 2
  MaxBytes = 3
  Tries = 1
  Retries = 1
INVARIANT UncompletedNeverComplete
