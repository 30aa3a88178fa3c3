SPECIFICATION Spec
CONSTANTS
  MaxHandlers = 8
  Services = {"set"}
  Attributes = {60000, 65100}
  Words = {0, 7, 20054}
  Keys = {0, 20054}
  MaxConfigs = 1
PROPERTY KeyIsCarried
