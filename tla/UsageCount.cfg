CONSTANTS
    c1 = c1
    c2 = c2
    f1 = f1
    f2 = f2
    k1 = k1
    k2 = k2
    NoOne = NoOne
    MaxHour = 3
    Counter = {c1,c2}
    Flusher = {f1,f2}
    Late = 1
    Keep = 1
    Code = {k1,k2}
    CodesOf <- TwoHoursFail
    MaxCodes = 1
    Invalid = {2}
    Limit = 2
    MaxCount = 2
    MaxFails = 1
SPECIFICATION FairSpec
INVARIANTS CountsAddUp SendsCorrected
PROPERTIES EveryHourSent
