\* Two workers, two mails, polls of one row, two attempts, one lapse and one fault.
CONSTANTS
  None = None
  w1 = w1  w2 = w2  ann = ann  bob = bob
  Workers = {w1, w2}
  Users = {ann, bob}
  Entries = {1, 2}
  Recipients <- TwoMails
  MaxAttempts = 2
  BatchSize = 1
  MaxLapses = 1
  MaxFaults = 1
CHECK_DEADLOCK FALSE
SPECIFICATION FairSpec
INVARIANTS
  RecordsTellDeliveries
  OneDelivererPerLease
  DuplicatesHaveCause
  RetriesAreBounded
PROPERTIES
  MailIsDelivered
  EveryMailSettled
