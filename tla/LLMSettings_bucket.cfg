\* An agent whose file is probabilistic, under a standalone default (finding 2)
CONSTANTS
  Agent = {"writer"}
  Disks <- MC_Disks
  Edits <- MC_Edits
  MaxEdits = 0
  undefined = undefined
  malformed = malformed
  null = null
SPECIFICATION Spec
INVARIANT
  ProbabilisticAgentResolves
