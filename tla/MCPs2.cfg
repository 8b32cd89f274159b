SPECIFICATION Spec
CONSTANTS
  Keys <- MCKeys
  Packets <- MCPackets
  InitConfig <- MCConfig
  QueueLimit = 2
CHECK_DEADLOCK FALSE
INVARIANTS
  TypeOK
  MouseInFrame
  ButtonsFollow
  CapitalsWereMeant
  NoByteStuck
PROPERTIES
  ActivationEnds
