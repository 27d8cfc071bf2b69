\* The Azure part of the service alone: one question, or a preliminary one too.
CONSTANTS
  Registered = {}
  Keys = {}
  Values = {}
  Refused = {}
  Allowed = {}
  Forbidden = {}
  Default = "bank"
  Folders = {}
  Environments = {}
  Capacities = {}
  Requests = {}
  AzureChecks <- OneQuestion
  Reports <- WhatAzureReports
  MaxCalls = 1
  Pieces = {}
  LocalChecks = {}
  Entities = {}
  Positions = 0
  Batches = {}
  EvalSettings = {}
  SdkResults = {}
  Severities = {}
  Callers = {}
  Authorizations = {}
  AuthSettings = {}
  Lifetime = 1
  KeyLifetime = 0
  MaxTicks = 0
  MaxRotations = 0
SPECIFICATION ServiceSpec
INVARIANT FailClosedIsClosed
CHECK_DEADLOCK FALSE
