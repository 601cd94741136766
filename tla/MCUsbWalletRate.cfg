SPECIFICATION Spec
CONSTANTS
  MAX_PAYLOAD = 1
  Cmds = {"SEND_PSBT", "SEND_BROKEN", "GET_SIGNED_PSBT", "GET_FIRMWARE_VER"}
  BadLens = {0, 2}
  MAX_CMDS_PER_SEC = 2
  SECOND = 2
  MaxReqs = 4
  MaxNoise = 1
INVARIANTS
  MaxPerSecond
CHECK_DEADLOCK FALSE
