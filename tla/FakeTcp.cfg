SPECIFICATION LinkSpec
CONSTANTS
  HASH_BUF_SIZE = 1
  ENC_SIZE = 2
  INFO_SIZE = 1
  SA4_SIZES = 2
  OM_MAX_PKT_SIZE = 8
  SeqSpace = 12
  Isns = {0, 9}
  DataLens = {1, 3, 5, 6}
  MaxSent = 2
INVARIANTS RecordsAgree SeqTiles DeliveredIntact LengthChecksExact
CHECK_DEADLOCK FALSE
