\* One member of staff and one client, two acts, one change by others, one fault.
CONSTANTS
  None = None
  member = member  client = client
  Staff = {member}
  Clients = {client}
  Dues = {1}
  Visits <- AllVisits
  MaxActs = 2
  MaxOthers = 1
  MaxFaults = 1
\* The user may have done all there is to do.
CHECK_DEADLOCK FALSE
SPECIFICATION Spec
INVARIANTS
  StaleHasCause
  UntouchedDueIsKept
  MovesAreOnWhatWasSeen
