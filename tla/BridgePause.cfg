SPECIFICATION FairSpec
CONSTANTS
  film = film
  trailer = trailer
  NoSource = NoSource
  Sources <- OneSource
  NetworkSources <- OneSource
  External = FALSE
  Reloadable = TRUE
  Transient = FALSE
  Stimuli <- PauseStimuli
  MaxStimuli = 5
PROPERTIES PauseWins PausedRoomSilencesPhone
CHECK_DEADLOCK FALSE
