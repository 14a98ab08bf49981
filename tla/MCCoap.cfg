CONSTANTS
  Peer = {"p", "q"}
  Mortal = {"p"}
  Url = {"u"}
  MaxOpen = 2
  MaxObservers = 2
  MaxRetransmit = 2
  RefreshInterval = 2
  MaxEvents = 1
SPECIFICATION FairSpec
INVARIANTS
  TypeOK
  OpenTransactions
  
PROPERTIES
  EndedByOwnClient
  
