SPECIFICATION Spec
CONSTANTS
  Protocols = {"TeltonikaNx"}
  MaxConns <- MCMaxConns
  Scripts <- MCScripts
  DeviceImei <- MCDeviceImei
  Cuts <- MCCuts
  FreshSession <- MCFreshSession
  Logins <- MCLogins
  LoginsAnswered <- MCLoginsAnswered
  Answering <- MCAnswering
  EndsOnPiece <- MCEndsOnPiece
  AgreedSessions <- MCAgreedSessions
  EncodePacket <- MCEncodePacket
  PacketRecords <- MCPacketRecords
  CarriesParams <- MCCarriesParams
  AcceptsReply <- MCAcceptsReply
  AcceptsLogin <- MCAcceptsLogin
  ByteLen <- MCByteLen
  FirstBytes <- MCFirstBytes
  BytesAfter <- MCBytesAfter
  HandleBuffer <- MCHandleBuffer
PROPERTY Answered
CHECK_DEADLOCK FALSE
