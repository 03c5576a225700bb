SPECIFICATION Spec
CONSTANTS
  film = film
  trailer = trailer
  NoSource = NoSource
  Sources <- OneSource
  NetworkSources <- OneSource
  External = TRUE
  Reloadable = FALSE
  Transient = TRUE
  Stimuli <- PhoneStimuli
  MaxStimuli = 5
PROPERTIES PlayIsAuthorized OwnStartIsGranted
CHECK_DEADLOCK FALSE
