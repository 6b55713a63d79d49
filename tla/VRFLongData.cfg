CONSTANTS
  k1 = k1
  k2 = k2
  m0 = m0
  m1 = m1
  m2 = m2
  NoKey = NoKey
  Keys <- TwoKeys
  Msgs <- TwoLongMsgs
  Empty = m0
  MsgLen <- TwoLongMsgLen
  Versions <- TwoVersions
  MaxSigned = 1
  MaxWire = 1
SPECIFICATION Spec
CHECK_DEADLOCK FALSE
INVARIANT DataBinding
