SPECIFICATION Spec
CONSTANTS
  ME = "me"
  GW = "gw"
  TALKERS = {"h"}
  NEAR = {"gw", "h", "i"}
  FAR = {"far"}
  QSIZE = 2
  ARP_CACHE = 2
  UDP_PCBS = 1
  PORTS = {7}
  DYNAMIC = {7}
  NPAGES = 6
  MAX_RX = 2
CHECK_DEADLOCK FALSE
INVARIANTS RingsTrue PacketsKept RightHop OwnDatagrams
