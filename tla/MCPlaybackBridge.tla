-------------------------- MODULE MCPlaybackBridge --------------------------
(* Small instances of PlaybackBridge for TLC: one or two network sources,  *)
(* and for each question the environment events that bear on it.           *)
EXTENDS PlaybackBridge

CONSTANTS film, trailer

OneSource == {film}
TwoSources == {film, trailer}

(* The phone with every cause of failure, without seeks or audio focus.    *)
PhoneStimuli == {"user", "load", "peer", "link", "native", "fault", "deny"}

(* A second video, a seek, lost audio focus or the end of the session at   *)
(* any moment; nothing fails and nothing is denied.                        *)
SwitchStimuli == {"user", "seek", "load", "peer", "native", "focus", "dispose"}

(* Everything that can leave the decoder playing after a pause.            *)
PauseStimuli == {"user", "load", "peer", "link", "native", "fault", "deny", "focus"}

(* Where the disagreements with the comments show.                         *)
StaleDenialStimuli == {"load", "peer", "deny", "focus"}
SeekStimuli == {"user", "seek", "load", "peer"}
EarlyStopStimuli == {"load", "peer", "native"}
=============================================================================
