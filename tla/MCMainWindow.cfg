\* It stops where the user has used up the commands and the starts.
SPECIFICATION Spec
CHECK_DEADLOCK FALSE
CONSTANTS
  s1 = s1
  s2 = s2
  Hosts <- MCHosts
  NoHost = NoHost
  VerifySha1 = VerifySha1
  OtherProtocol = OtherProtocol
  DefaultProtocol = OtherProtocol
  NoProtocol = NoProtocol
  Millis = 3
  IntModulus = 16
  WideModulus = 256
  DefaultIdle = 7
  DefaultTimeout = 10
  Port = Port
  NoPort = NoPort
  NoConfig = NoConfig
  Released = Released
  InitialFiles <- MCFiles
  MaxStarts = 2
  Configs = {c1, c2, c3}
  MaxDialogs = 1
  MaxCommands = 5
INVARIANTS
  GuiTypeOK
  OneServerChecked
  IdleMeansClean
  SsrTypeOK
  ThreadsHaveTheirCode
  StateCanBeShutDown
PROPERTIES
  
  UiComesBack
