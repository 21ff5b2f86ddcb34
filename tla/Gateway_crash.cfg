\* FIXME.md: a disconnect is queued for and does not end the server.
SPECIFICATION Spec
CONSTANTS
  MaxConns = 2
  MaxMsgs = 2
  MaxAnims = 1
  Letters = 1
INVARIANT DisconnectNeverEndsServer
CHECK_DEADLOCK FALSE
