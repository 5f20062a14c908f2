SPECIFICATION Spec
CONSTANTS
  Releases <- MCReleases
  Installed <- MCInstalled
  None = none
  Down = down
  Faults = {}
  LastName = 2
  Follows = {TRUE}
INVARIANT BackupUsable
CHECK_DEADLOCK FALSE
