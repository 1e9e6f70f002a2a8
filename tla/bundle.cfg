\* Two provisions, two publications, one changed file.
SPECIFICATION FairSpec
CONSTANTS
  p1 = p1
  p2 = p2
  old = old
  new = new
  Path = {p1, p2}
  Content = {old, new}
  Version <- Versions
  Worker = {w1, w2}
  Pins <- PinsUsed
  Attempts = 2
  MaxPublish = 2
  None = None
  Missing = Missing
  Cut = Cut
  Garbled = Garbled
  NoDir = NoDir
INVARIANT OnlyWholeVersions
INVARIANT PointerUsable
INVARIANT QuietStartsReady
PROPERTY LiveNeverTouched
PROPERTY ImplementsBundleStore
PROPERTY ProvisionEnds
CHECK_DEADLOCK FALSE
