\* Three keys (one in use, one that replaces it, one left from before), one time and two display settings; any read or write may fail.
SPECIFICATION SettingsSpec
CONSTANTS
  k1 = k1
  k2 = k2
  k3 = k3
  t1 = t1
  small = small
  large = large
  Keys <- MCKeys
  Times <- MCTimes
  Looks <- MCLooks
  DefaultLook = small
  Invalid = Invalid
  Unreadable = Unreadable
  None = None
  MayFail = TRUE
INVARIANTS
  SettingsTypeOK
  SettingsInForce
  KeySafe
PROPERTIES
  StartKeepsKey
  SaveIsWhole
  KeySpec
