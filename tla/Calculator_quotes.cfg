\* Every request the handler accepts, after every other one.
SPECIFICATION Spec
INVARIANT
  SplittingNeverPays
PROPERTY
  MoreCostsMore
