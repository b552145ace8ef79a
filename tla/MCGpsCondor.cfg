CONSTANTS
  init_counter = init_counter
  other = other
  Clients <- TwoClients
  MSG_BUF_SIZE = 4
  GPS_BUF_SIZE = 2
  Spurious = FALSE
SPECIFICATION FairSpec
INVARIANTS ZeroMeansRead BufferFaithful
PROPERTY QueryAnswered
CHECK_DEADLOCK FALSE
