SPECIFICATION FairReaderSpec
CONSTANTS
  FileHeader = 2
  PacketHeader = 3
  EthernetHeader = 1
  IPv4Header = 1
  UDPHeader = 1
  Word = 1
  MaxIHL = 2
  Sizes <- MCSizes
  MaxLength = 5
  MaxRewinds = 1
INVARIANTS
  PayloadInPacket
  EachPacketOnce
PROPERTY ReachesEnd
