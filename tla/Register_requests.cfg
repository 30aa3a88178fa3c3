SPECIFICATION Spec
CONSTANTS
  MaxHandlers = 8
  Services = {"get", "set", "other"}
  Attributes = {3, 60000, 60001, 65003, 65100, 65101, 125536}
  Words = {0, 7, 20054}
  Keys = {0, 20054}
  MaxConfigs = 2
PROPERTIES AddressesKeepHandlers KeyOnlyByItsRegister
