CONSTANTS
  Specs <- AllSpecs
  Cfg <- Flags
  SecretSets <- Secrets
  Claims <- SourceClaims
  Webhooks = FALSE
  Reverts = FALSE
  Due <- DueNames
  Busy <- BusyNames
  MaxEdits = 2
  PodEdits = 1
SPECIFICATION FairSpec
INVARIANTS TypeOK SyncedWhenReady ReadyRunsUnmixed NothingMissing OneFinisher WorkOnVolume
PROPERTIES Settles
