SPECIFICATION Spec
CONSTANTS
  Providers = {"a", "b"}
  UserNames = {"a", "x"}
  Loopback = {"local1", "local2"}
  Elsewhere = {"lan"}
  MaxEdits = 3
PROPERTIES
  UserProvidersArePreserved
CHECK_DEADLOCK FALSE
