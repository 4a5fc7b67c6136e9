SPECIFICATION Spec
CONSTANTS
  app = app
  lib = lib
  web = web
  r1 = r1
  r2 = r2
  r3 = r3
  r4 = r4
  Names = {app, lib, web}
  Requests = {r1, r2, r3, r4}
  NameOf <- MCNameOf
  AutoCreate = TRUE
  MaxId = 4
  CreateAttempts = 2
  MaxCrashes = 1
INVARIANTS RegistryTypeOK OneIdPerName ResolvedIsMapped DataHasOwner ContentionNeedsCreators
CHECK_DEADLOCK FALSE
