SPECIFICATION SpecInFlight
CONSTANTS
  Hosts <- HostList
  MaxConcurrent = 2
PROPERTY CancelledInFlightIsInterrupted
CHECK_DEADLOCK FALSE
