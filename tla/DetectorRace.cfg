SPECIFICATION SessionSpec
CONSTANTS
  MaxMessages = 2
  MaxWakes = 2
CHECK_DEADLOCK FALSE
PROPERTY DetectorSparesSuspended
