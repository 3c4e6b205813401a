CONSTANTS
  MaxSession = 2
  MaxFlight = 2
SPECIFICATION DeviceFairSpec
PROPERTIES
  LostIsNoticed
  OrphanEnds
