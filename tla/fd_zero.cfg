SPECIFICATION Spec
CONSTANTS
    ARRAY_DEFAULT_CAPACITY = 1
    Base = 2
    Words = 2
    MaxPid = 2
    MaxFd = 2
    Self = 1
    MaxChanges = 1
    MaxLogins = 2
    MaxLines = 1
    Views <- SomeViews
    Addresses4 <- OneWord
    Addresses6 <- TwoWords
INVARIANT
    AllDescriptorsReported
