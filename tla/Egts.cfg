SPECIFICATION Spec
CONSTANTS
  Conns = {1, 2}
  Cuts = {14, 40, 53, 110}
  Registered = {1, 2}
  Script <- MCScript
  EncodePacket <- MCEncodePacket
  PacketRecords <- MCPacketRecords
  PacketParams <- MCPacketParams
  ResponsesTo <- MCResponsesTo
  IdentityIsLast <- MCIdentityIsLast
  ByteLen <- MCByteLen
  FirstBytes <- MCFirstBytes
  BytesAfter <- MCBytesAfter
  DecodeBuffer <- MCDecodeBuffer
INVARIANTS
  NumbersDistinct
  DecodedAsSent
  PieceIsPrefix
  HangsOnlyOnPieces
CHECK_DEADLOCK FALSE
