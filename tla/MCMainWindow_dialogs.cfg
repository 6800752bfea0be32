\* Dialogs over dialogs.  It stops where the user has used up the commands.
SPECIFICATION Spec
CHECK_DEADLOCK FALSE
CONSTANTS
  s1 = s1
  s2 = s2
  Hosts = {s1}
  NoHost = NoHost
  VerifySha1 = VerifySha1
  OtherProtocol = OtherProtocol
  DefaultProtocol = OtherProtocol
  NoProtocol = NoProtocol
  Millis = 3
  IntModulus = 16
  WideModulus = 256
  DefaultIdle = 7
  DefaultTimeout = 10
  Port = Port
  NoPort = NoPort
  NoConfig = NoConfig
  Released = Released
  InitialFiles <- MCOneFile
  MaxStarts = 1
  Configs = {c1, c2, c3}
  MaxDialogs = 3
  MaxCommands = 6
INVARIANT
  NothingDangles
