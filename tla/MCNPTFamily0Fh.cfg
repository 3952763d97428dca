\* The library as its CMakeLists.txt builds it.  A byte of 16 values and a field of 8 stand
\* for 256 and 64; the highest voltage is 0.875 V.
CONSTANTS
  Requests <- SomeRequests
  Foreign <- SomeForeign
  MaxVID = 27
  Needed <- NeededVoltage
  AllowOdd = TRUE
  ByteSize = 16
  FieldSize = 8

SPECIFICATION FairSpec
INVARIANTS VoltageCovers
PROPERTIES StepsAllowed ReachesRequest
