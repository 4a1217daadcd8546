SPECIFICATION Spec
CONSTANTS
  o1 = o1
  o2 = o2
  own = own
  shared = shared
  laptop = laptop
  me = me
  Objects = {o1, o2}
  Matching = {o1}
  Others = {shared}
  Personal = own
  Targets <- MCTargets
  Devices = {laptop, phone}
  Readers = {phone}
  Me = laptop
  Reads <- MCReads
  AccountOf <- MCAccounts
  Anonymous = Anonymous
  MaxLog = 2
  MaxDeletes = 1
  MaxQueries = 1
  Faults = {"send", "bucket", "did", "inbox", "label"}
  MaxFaults = 1
INVARIANTS TrashIsDeleted DeletionsReach PostsReach
CHECK_DEADLOCK FALSE
