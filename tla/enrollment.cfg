SPECIFICATION Spec
CONSTANTS
    laptop = laptop
    phone = phone
    Machine = {laptop, phone}
    Account = laptop
    MaxDevices = 3
    MaxMonths = 1
    MaxApprovals = 2
    MaxUpdates = 2
    MaxFaults = 1
INVARIANTS
    EnrollmentWorks
    DevicesWereApproved
CHECK_DEADLOCK FALSE
