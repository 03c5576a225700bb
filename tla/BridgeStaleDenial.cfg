SPECIFICATION Spec
CONSTANTS
  film = film
  trailer = trailer
  NoSource = NoSource
  Sources <- OneSource
  NetworkSources <- OneSource
  External = FALSE
  Reloadable = TRUE
  Transient = FALSE
  Stimuli <- StaleDenialStimuli
  MaxStimuli = 5
PROPERTIES FocusLossEndsPlay
CHECK_DEADLOCK FALSE
