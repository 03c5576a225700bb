SPECIFICATION Spec
CONSTANTS
  film = film
  trailer = trailer
  NoSource = NoSource
  Sources <- TwoSources
  NetworkSources <- TwoSources
  External = FALSE
  Reloadable = TRUE
  Transient = FALSE
  Stimuli <- SwitchStimuli
  MaxStimuli = 5
PROPERTIES FocusLossEndsPlay SourceChangeInvalidates
CHECK_DEADLOCK FALSE
