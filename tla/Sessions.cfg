SPECIFICATION FairSpec
CONSTANTS
  MaxTokens = 2
  Devices = {d1, d2}
  Phones = {d2}
  MaxCalls = 2
  NoDevice = NoDevice
INVARIANTS TypeOK OneUsablePerFamily FamilyDiesWhole ReplayHasCause
PROPERTY SuspensionEndsSessions
CHECK_DEADLOCK FALSE
