\* Every pair of a valid default and any agent file, then edits during each load
CONSTANTS
  Agent = {"writer"}
  Disks <- MC_Disks
  Edits <- MC_Edits
  MaxEdits = 1
  undefined = undefined
  malformed = malformed
  null = null
SPECIFICATION Spec
INVARIANTS
  StagesComplete
  InForceValid
  DeployableIfValid
  BridgeKeepsStages
PROPERTIES
  ReloadIsCurrent
