SPECIFICATION FairSpec
CONSTANTS
  Slots = {k1, k2}
  Channels <- MCChannels
  AutoChannels <- MCAuto
  MaxQueue = 1
  None = None
INVARIANTS TypeOK OneSocket NeverStranded SubscriptionsAgree ServerForgetsOnlyDead
PROPERTIES HalfOpenNoticed
