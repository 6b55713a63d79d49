CONSTANTS
  ByteBits = 3
  AccBits = 8
  MaxAbs = 11
  q = 29
  QBits = 5
  I8Bits = {2, 3}
  I16Bits = {5}
  Vectors <- CVectors
  Strings <- CStrings
  Null = Null
SPECIFICATION CodecSpec
INVARIANT RoundTrip OneEncoding RoomIsEnough
CHECK_DEADLOCK FALSE
