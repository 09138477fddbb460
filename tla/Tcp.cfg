SPECIFICATION Spec
CONSTANTS
  PCBS = 2
  W = 3
  BUF = 2
  MSS = 1
  LPORTS = {1, 2}
  SERVICES = {1}
  FPORTS = {80}
  ISS <- TwoNumbers
  SENDS = {3}
  SIZES = {1}
  PEER_ISS = 0
  PEER_WNDS = {0, 2}
  PEER_BYTES = 3
  MAX_SENT = 3
  MAX_TRAFFIC = 3
CHECK_DEADLOCK FALSE
CONSTRAINT FewBytes
INVARIANTS BlocksTrue StreamIn StreamOut Windows
