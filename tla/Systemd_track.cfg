CONSTANTS
  Absent = Absent
  Units = {service, socket, device}
  Ignored = {device}
  ActiveStates = {"active", "reloading", "failed"}
  MaxEvents = 4
SPECIFICATION Spec
CHECK_DEADLOCK FALSE
INVARIANTS TypeOK Tracks SentIsTrue
SYMMETRY UnitSymmetry
