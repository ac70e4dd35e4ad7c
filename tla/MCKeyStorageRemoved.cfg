\* Violated although no write fails: a key that was removed comes back.
SPECIFICATION Spec
CONSTANTS
  k1 = k1
  k2 = k2
  k3 = k3
  Keys <- MCKeys
  Invalid = Invalid
  Unreadable = Unreadable
  None = None
  MayFail = FALSE
INVARIANT RemovedIsGone
