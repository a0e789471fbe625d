SPECIFICATION FairSpec
CONSTANTS
  EnvironmentsTried <- MCEnvironments
  Complete <- MCComplete
INVARIANTS
  TypeOK
  
  NumbersHaveACause
  OneDatabase
  ConfiguredOrigins
  ModesAgree
PROPERTIES
  CompleteEnvironmentBoots
