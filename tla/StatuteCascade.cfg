\* Two edits between any requests of one walk
CONSTANTS
  Category = {k}
  Domain = {d1, d2}
  Role = {r}
  Other = {o}
  Field = {f}
  NewStatute = {d2}
  Seed <- MC_Seed
  MaxEdits = 2
SPECIFICATION Spec
CHECK_DEADLOCK FALSE
INVARIANTS
  EffectiveIsCascade
  OneMoment
  OutcomeJustified
