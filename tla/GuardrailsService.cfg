\* The parts of the service, one in each behaviour.
CONSTANTS
  \* Two policies, every override, caches of none to two pipelines.
  Registered = {"pii", "harm"}
  Keys = {"min", "endpoint"}
  Values = {"low", "high", "bad"}
  Refused = {"bad"}
  Allowed = {"min", "endpoint"}
  Forbidden = {"endpoint"}
  Default = "bank"
  Folders <- Mounted
  Environments <- Variables
  Capacities <- Bounds
  Requests <- AnyRequest
  \* Every Azure guard with up to three categories.
  AzureChecks <- AnyAzureCheck
  Reports <- WhatAzureReports
  MaxCalls = 3
  \* Texts of up to five pieces, and up to three entities in five characters.
  Pieces <- FourPieces
  LocalChecks <- AnyLocalCheck
  Entities <- SomeEntities
  Positions = 5
  \* Batches of one or two items with up to three evaluators.
  Batches <- SomeBatches
  EvalSettings <- SomeEvalSettings
  SdkResults <- SomeSdkResults
  Severities = {0, 20, 40}
  \* Two requests while the issuer and the key age past their lifetimes
  \* and change once.
  Callers = {"first", "second"}
  Authorizations <- SomeHeaders
  AuthSettings <- SomeAuthSettings
  Lifetime = 1
  KeyLifetime = 0
  MaxTicks = 2
  MaxRotations = 1
SPECIFICATION ServiceSpec
INVARIANTS
  LastGoodFileRules
  ServedAsConfigured
  CacheKeepsRecent
  MainAnswersDecide
  NoCallIsLeftBehind
  RedactionIsSafe
  AcceptedIsTrusted
PROPERTIES
  NothingHelpsHarm
  NoFailureIsLost
\* A check, a batch and a request come to their ends.
CHECK_DEADLOCK FALSE
