SPECIFICATION FairSpec
CONSTANTS
  film = film
  trailer = trailer
  NoSource = NoSource
  Sources <- OneSource
  NetworkSources <- OneSource
  External = FALSE
  Reloadable = TRUE
  Transient = FALSE
  Stimuli <- SeekStimuli
  MaxStimuli = 5
PROPERTIES ExplicitPauseAlwaysWins
CHECK_DEADLOCK FALSE
