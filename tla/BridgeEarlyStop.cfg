SPECIFICATION AnsweredSpec
CONSTANTS
  film = film
  trailer = trailer
  NoSource = NoSource
  Sources <- OneSource
  NetworkSources <- OneSource
  External = FALSE
  Reloadable = TRUE
  Transient = FALSE
  Stimuli <- EarlyStopStimuli
  MaxStimuli = 4
PROPERTIES NativePauseReachesRoom
CHECK_DEADLOCK FALSE
