CONSTANTS
  c1 = c1
  c2 = c2
  Clients <- TwoClients
  Messages <- AskStopSet
  AnswerSizes <- TwoSizes
  Garbage <- SomeByte
  MaxMessages <- TwoAndOne

SPECIFICATION FairSpec
INVARIANTS InStep NeverSendsFreed
PROPERTIES SendEnds
