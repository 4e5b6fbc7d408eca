CONSTANTS
  Parsers = {p, q}
  StdCallbacks = {s}
  FnCallbacks = {f, g}
  UserData = {u}
  None = None
  Dead = Dead
  Inherited = Inherited
  Crash = Crash
SPECIFICATION Spec
PROPERTIES
  InstancesAreSeparate
