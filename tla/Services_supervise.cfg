SPECIFICATION FairSpec
CONSTANTS
  Services = {v1, v2}
  Definitions <- MCDefinitions
  Retries = 2
  MaxExits = 1
INVARIANTS
  TypeOK
  OneProcess
  DownForAReason
  HealthIsOfThisProcess
PROPERTIES
  ExitIsNoticed
