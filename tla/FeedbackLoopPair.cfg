\* Two rates of the receiver, one change of an advertised rate.
CONSTANTS
  Host = {a, b}
  Talker = {a}
  Rates = {5, 12}
  ISO_RFAIR_INITIAL = 9
  ISO_IDLE_RATE = 8
  ISO_MIN_RFAIR = 5
  MaxInFlight = 2
  MaxChanges = 1
SPECIFICATION FairSpec
INVARIANT TypeOK
PROPERTIES
  RaisedByPeer
  FeedbackSettles
  SenderFollows
  UnheardSlowsDown
CHECK_DEADLOCK FALSE
