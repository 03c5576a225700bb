SPECIFICATION Spec
CONSTANTS
  film = film
  trailer = trailer
  NoSource = NoSource
  Sources <- OneSource
  NetworkSources <- OneSource
  External = FALSE
  Reloadable = TRUE
  Transient = FALSE
  Stimuli <- PhoneStimuli
  MaxStimuli = 5
INVARIANTS TypeOK OneReloadPerOutage
PROPERTIES PlayIsAuthorized ReconnectNeverResumes OwnStartIsGranted
CHECK_DEADLOCK FALSE
