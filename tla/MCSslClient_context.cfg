CONSTANTS
  c1 = c1
  c2 = c2
  Clients <- MCClients
  MaxBytes = 2
  MaxContexts = 2
  FatalKinds = {"connection", "read", "write"}
SPECIFICATION SslSpec
CHECK_DEADLOCK FALSE
INVARIANT ContextOwned
