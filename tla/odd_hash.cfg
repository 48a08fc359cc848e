SPECIFICATION Spec
CONSTANTS
  Hash <- Hashes
  Images <- AllImages
  Wanted = {"even", "odd", "more"}
INVARIANT NamedIsFound
