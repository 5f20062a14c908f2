SPECIFICATION Spec
CONSTANTS
  Releases <- MCReleases
  Installed <- MCInstalled
  None = none
  Down = down
  Faults = {"rename", "power"}
  LastName = 2
  Follows = {TRUE, FALSE}
INVARIANTS FilesWhole AlwaysRecoverable FirstUpdateKeepsRunning
 
CHECK_DEADLOCK FALSE
