CONSTANTS
  ServiceKey <- MCServiceKey
  ServiceName <- MCServiceName
  LenWidth = 8
  cer = cer
  cer6 = cer6
  prn = prn
  Instances <- MCInstances
  InstName <- MCInstName
  InstAddr <- MCInstAddr
  BrowserIds <- MCBrowserIds
  Clients <- MCClients
  MaxRunning = 1
  MaxBrowseEvents = 2
  MaxBytes = 1
  MaxContexts = 1
  MaxSignals = 1
  NULL = NULL
SPECIFICATION Spec
CHECK_DEADLOCK FALSE
INVARIANT NoQuitAfterFree
