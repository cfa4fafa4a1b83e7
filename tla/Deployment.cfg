\* Deployments, starts, single steps and repairs of four databases.
SPECIFICATION Spec
CONSTANT Origins <- AllOrigins
INVARIANTS
  TypeOK
  VersionTellsSchema
  RetryKeepsItsChance
  InitializedHasTables
  StartInitializes
PROPERTIES
  UpgradeIsAtomic
  PaymentsSurvive
  DeployEnds
