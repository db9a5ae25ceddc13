SPECIFICATION FairSpec
CONSTANTS
  Loaders = {t1, t2}
  Workers = {w1, w2, w3}
  Unloader = u
  NoOne = none
INVARIANT EveryThreadIsOwnedOnce
PROPERTY LoadsAndUnloadEnd
