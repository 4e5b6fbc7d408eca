CONSTANTS
  Parsers = {p, q, r}
  StdCallbacks = {s}
  FnCallbacks = {f, g}
  UserData = {u}
  None = None
  Dead = Dead
  Inherited = Inherited
  Crash = Crash
SYMMETRY Alike
SPECIFICATION Spec
INVARIANTS
  TypeOK
  OwnRegistrationHolds
