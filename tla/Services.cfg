CONSTANTS
  Procs = {p1, p2}
  NoProc = noproc
  Creds = {c1, c2}
  NoCred = nocred
  Unknown = unknown
  MaxCreds = 2
  MaxLogins = 1
  MaxPauses = 1
  MaxTabs = 1
  AgentFaults = 1
  MaxSnaps = 2
  MaxSessions = 1
  MaxRetain = 2
  BackupChanges = 1
  MaxAsks = 1
  BackupFaults = 1
  SourceVersions = 2
  MaxOps = 4
  EgressFaults = 2
  MaxVersions = 2
  StripeFaults = 2
  Limit = 1
  MeterTime = 2
  MeterChanges = 1
  MeterFaults = 1
  MaxEvents = 2
  ReplaySessions = 2
  MaxUnparsed = 1
  CommandLimit = 1
  ReplayChanges = 2
SPECIFICATION Spec
INVARIANTS TypeOK RecordedUsable CoordinatesRestored ActiveIsEnforced SecretsHaveRows OneAttempt NothingPassedOver ScreenContinues
PROPERTIES BindsWhatWasInstalled PauseKeepsCredential FileAndSourceAgree PolicyReached OneBackupPerDue ChangesApplied OverQuotaStops
CHECK_DEADLOCK FALSE
