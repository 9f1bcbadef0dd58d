CONSTANTS
  Tasks = {core, web}
  LastEvent = 3
  Errors = {1, 2}
  Updates = {3}
  Downgraded = {2}
  Offgrid = TRUE
  Recovery = TRUE
SPECIFICATION EventsSpec

PROPERTY OnlyUpwards
