SPECIFICATION Spec
CONSTANTS
  ui = ui
  player = player
  roomA = roomA
  roomB = roomB
  Absent = Absent
  NoSession = NoSession
  Callers <- MCCallers
  Sessions <- MCSessions
  Days <- MCDays
INVARIANTS TypeOK OneFreeSessionPerDay GrantedIsCommitted
PROPERTIES AvailableIsTrue EveryCallIsAnswered ImplementsAllowance
