SPECIFICATION FairSpec
CONSTANTS
  MaxFaults = 1
  Places <- OnlyReceipt
PROPERTIES MissingReceiptWritten
CHECK_DEADLOCK FALSE
