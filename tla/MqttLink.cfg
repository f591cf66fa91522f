SPECIFICATION FairSpec
CONSTANTS
  MaxRequests = 3
  MaxInflight = 2
INVARIANT LinkInv
INVARIANT ExecutedInOrder
INVARIANT NoServedRequestWaits
INVARIANT NoEchoBecomesRequest
PROPERTY ImplementsRpcChannel
PROPERTY StoredRequestServed
PROPERTY StoredRequestAnswered
PROPERTY CallsReturn
