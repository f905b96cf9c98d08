\* One spike, no edit by an operator.
CONSTANTS
    SendsPerHourCap = 1
    MaxSends = 2
    MaxHours = 3
    DeliveryAttempts = 3
    MaxEdits = 0
SPECIFICATION GuardSpec
PROPERTIES OnlySignUpFlips
CHECK_DEADLOCK FALSE
