CONSTANTS
  k1 = k1
  k2 = k2
  m0 = m0
  m1 = m1
  m2 = m2
  NoKey = NoKey
  Keys <- TwoKeys
  Msgs <- LongMsgs
  Empty = m0
  MsgLen <- LongMsgLen
  Versions <- TwoVersions
  MaxSigned = 2
  MaxWire = 3
SPECIFICATION Spec
INVARIANT TypeOK
INVARIANT Provability
INVARIANT OneOutput
INVARIANT ShakeBinding
INVARIANT CTBinding
PROPERTY ImplementsVRF
CHECK_DEADLOCK FALSE
