\* A request of two units and a response of three, a receive buffer of two
\* units, two attempts per call.  From 30 the sequence number wraps.  The
\* exploration of a behaviour ends with the first hazard it meets.
CONSTANTS
  Roles = {"fetch", "serve"}
  SeqSpace = 32
  Isns = {3, 30}
  PeerIsn = 20
  RxBuf = 2
  MaxRetries = 2
  OutLen = 2
  ReqLen = 2
  RespLen = 3
  Nested = TRUE
  Halts = {"nested", "fin_gap", "fin_race", "wrap", "overflow"}
SPECIFICATION Spec
CHECK_DEADLOCK FALSE
INVARIANTS StreamInOrder AckedIsKept SentIsReceived
 
