SPECIFICATION Spec
CONSTANTS
    Arguments <- MCArguments
    MaxArgs = 3
    NoDigits = NoDigits
    Kilo = 4
    Hour = 2
    Day = 4
    Width64 = 256
    Width32 = 32
INVARIANT
    LimitsAsAsked
CHECK_DEADLOCK FALSE
