\* The values the program ships with.
CONSTANTS
  ReconnectMin = 1
  ReconnectMax = 30
  StableSession = 30
  Flap = 2
  MaxSession = 35
SPECIFICATION ReconnectSpec
PROPERTIES FlappingEndsAtTheCeiling
