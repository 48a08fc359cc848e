SPECIFICATION Spec
CONSTANTS
  Hash <- Hashes
  Images <- AllImages
  Wanted = {"even", "odd", "more"}
INVARIANTS
  FirstDefinition
  FunctionsFound
  GivesUpLate
  NothingMissed
