CONSTANTS
  MaxFaults = 2
SPECIFICATION Spec
INVARIANTS NothingLost SuccessIsComplete
PROPERTIES DesignPreserved RetryCompletes
