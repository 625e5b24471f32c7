CONSTANTS
  ServiceKey <- MCServiceKey
  ServiceName <- MCServiceName
  LenWidth = 8
  Alphabet = {"i", "d", "c"}
  ShortMax = 3
  PadMax = 300
SPECIFICATION Spec
INVARIANT ResolverFilterExact
