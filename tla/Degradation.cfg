SPECIFICATION Spec
CONSTANTS
    Singles = {"hostname"}
    FirmwarePaths = {"throttling", "undervoltage"}
    Reasons = {"unsupported", "temporarily_unavailable"}
    MaximumInterfaces = 1
    MaximumStates = 6
    ReminderInterval = 2
    Horizon = 3
INVARIANTS
    ReportNeverFails
    AccurateJournal
PROPERTIES
    Cadence
