CONSTANTS
  Nullopt = nullopt
  Empty = empty
  Everyone = everyone
  Server = "s"
  Gateway = "g"
  Clients <- MCClients
  Dials <- MCDials
  Prots <- MCProts
  Prot = "prot"
  Programs <- MCPrograms
  MaxSends = 2
SPECIFICATION FairSpec
CHECK_DEADLOCK FALSE
INVARIANTS
  OwnAnswersInOrder
  DeliveredOnceAndMeant
PROPERTIES
  LateIsDelivered
  AnswerArrives
