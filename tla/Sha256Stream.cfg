SPECIFICATION Spec
CONSTANTS
  BlockBytes = 5
  LengthBytes = 2
  ByteBits = 4
  ByteValues = 16
  Symbols <- MCSymbols
  Stale <- MCStale
  MaxMessage = 12
INVARIANTS TypeOK DigestIsOfMessage DigestDeterminesMessage
