SPECIFICATION SpecAfterCrash
CONSTANTS
  app1 = app1
  app2 = app2
  cli1 = cli1
  cli2 = cli2
  cli3 = cli3
  App = App
  Cli1 = Cli1
  Cli2 = Cli2
  Cli3 = Cli3
  Thread = {app1, cli1, cli2, cli3}
  Proc = {App, Cli1, Cli2, Cli3}
  ProcOf <- MCProcOf
  Crashable = {}
  TornCrash = FALSE
  MaxDepth = 1
  MaxWrites = 1
  NoLock = NoLock
INVARIANTS NoLostUpdate
