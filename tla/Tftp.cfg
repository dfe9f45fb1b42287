SPECIFICATION MCSpec
CONSTANTS
  TFTP_SEQUENCE_SIZE = 3
  TFTP_BLOCK_SIZE = 2
  TftpBlkSizeOption = 3
  FileLengths = {4, 9}
  TftpTimeoutCountMax = 1
  Ports = {1, 2}
  Options = TRUE
  Errors = {"FILE_NOT_FOUND", "DISK_FULL"}
  NetRetries = {"no", "forever"}
  MaxAttempts = 3
  MaxLost = 1
  MaxCopies = 1
INVARIANTS TftpTypeOK Intact
PROPERTY FileArrives
CHECK_DEADLOCK FALSE
