SPECIFICATION HTTPSpec
CONSTANTS
  kPre = 1
  kInit = 3
  ExtraSz = 4
  Zero = "0"
  Byte = {"a", "b"}
  MaxData = 4
  Requests <- MCRequests
INVARIANTS BufferCorrect ServesWhatWasAsked BadOnlyWhenBad ServedInTime
CHECK_DEADLOCK FALSE
