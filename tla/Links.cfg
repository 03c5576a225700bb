SPECIFICATION LinksSpec
CONSTANTS
  MaxGeneration = 8
  RunIds = {"run", "other"}
  run_id = "run"
  Invites = {"i1", "i2"}
  Roles = {"host", "guest"}
  Names = {"ready"}
  Values = {"v1", "v2"}
  ttl_seconds = 2
  MAX_CHECKPOINTS = 1
  MaxClock = 4
  Pages = {"p"}
  MaxChunks = 2
  MaxNet = 2
  MaxFaults = 2
CHECK_DEADLOCK FALSE
INVARIANTS OneThingUnderWay OneStory OneLifetime FileHoldsManifest EndedIsWhole
PROPERTIES OnlyOwnFailureEndsLink JoinIsAnswered FinishedIsFinal SilenceBecomesGap
