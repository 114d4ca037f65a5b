CONSTANTS
    h1 = h1
    h2 = h2
    k = k
    l = l
    NoKey = NoKey
    Event = {1,2,3,4,5}
    Key = {k,l}
    KeyOf <- Keys
    Revision <- Revisions
    Handler = {h1,h2}
    MaxFails = 1
SPECIFICATION FairSpec
INVARIANTS
    TypeOK
    HeadIsTop
PROPERTIES
    ImplementsEffects
    EventuallySettled
