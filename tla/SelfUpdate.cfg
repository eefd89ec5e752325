CONSTANTS
  MaxVersion = 3
  Kinds <- MCKinds
  MaxBoots = 3
  CutAt = {"guard", "guard_rm", "apply", "confirm", "rollback"}
SPECIFICATION Spec
INVARIANTS LinkRunnable ProvenBeforeWork
PROPERTIES ConfirmedStays NotTriedAgain BrokenGoesBack
