SPECIFICATION ParamSpec
CONSTANTS
    Values <- MCValues
    TypeOf <- MCTypeOf
    NumberOf <- MCNumberOf
    NameHint = Absent
    TypeOrder <- MCTypeOrder
    Samples <- MCSamples
    MaxValues = 4
    MaxTotal = 21
    Absent = Absent
INVARIANTS RangeVouched
PROPERTIES EnumHolds
CHECK_DEADLOCK FALSE
