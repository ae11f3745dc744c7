\* Three devices; one restart or dropped key package among them.
SPECIFICATION Spec
CHECK_DEADLOCK FALSE
CONSTANTS
    Members = {a, b, c}
    Founders = {a}
    NoGroup = NoGroup
    MaxMembers = 1
    MaxPackages = 1
    MaxEpoch = 3
    MaxTexts = 1
INVARIANT EpochAgreement
PROPERTY EverybodyCatchesUp
