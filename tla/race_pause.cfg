CONSTANTS
  Tasks = {core, web}
  Core = core
SPECIFICATION Spec
INVARIANTS RaceCoherent
