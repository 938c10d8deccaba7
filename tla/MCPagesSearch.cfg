CONSTANTS
  MaxRows = 3
  Instants = {1, 2}
  Amounts = {1, 2}
  PageSizes = {1, 2}
  MaxTouches = 1
SPECIFICATION PagesSpec
PROPERTY SearchHolds
CHECK_DEADLOCK FALSE
