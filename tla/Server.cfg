SPECIFICATION Spec
CONSTANTS
  Conns = {c1, c2}
  Environments <- MCEnvironments
  Requests <- MCRequests
  Peers = {"p1"}
  Forwards = {""}
  Keys = {"k1", "k2", ""}
  Paths = {"/v1/crypto/sign", "/decrypt"}
  Max = 1
  Window = 2
  Closed = Closed
  NoAnswer = NoAnswer
  NoRequest = NoRequest
  NoReply = NoReply
INVARIANTS
  TypeOK
  HandledByRole
  OnlyAdmittedCounted
  HeadersOnHandled
PROPERTIES
  OnlyDrains
  Drains
