CONSTANTS
  Addresses = {1, 2, 3, 4, 5}
  Texts <- MCTexts
  HashSize = 2
  Files <- MCFiles
  Payloads <- MCPayloads
  Loopback = 5
  BufferSize = 3
  Modulus = 3
  MaxDatagrams = 3
SPECIFICATION Spec
INVARIANTS TypeOK ConfigurationIsRead LookupCorrect  DropsAreDistance ConfiguredAgentsAreSafe
CHECK_DEADLOCK FALSE
