CONSTANTS
  Absent = Absent
  Units = {service, socket}
  Ignored = {}
  ActiveStates = {"active", "failed"}
  MaxEvents = 2
SPECIFICATION Spec
CHECK_DEADLOCK FALSE
INVARIANT SentIsLatest
