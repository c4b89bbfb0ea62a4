SPECIFICATION PaidSpec
CONSTANTS
  three = three
  two = two
  once = once
  wrapped = wrapped
  small = small
  untriggered = untriggered
  clientA = clientA
  clientB = clientB
  ask = ask
  o1 = o1
  o2 = o2
  t1 = t1
  t2 = t2
  ServerKey = ServerKey
  NoCommitment = NoCommitment
  QueryType = {ask}
  Ids = {three, two, once, wrapped, small, untriggered}
  ConfigOf <- MCConfigOf
  Openers = {o1, o2}
  Threads = {t1, t2}
  MinDeposit = 2
  MaxChannels = 1
  MaxBadAttempts = 2
  MaxObjects = 2
  MaxRequests = 4
  Word64 = 64
CHECK_DEADLOCK FALSE
INVARIANT CapHeld
