\* Two instances alert for one pair; the provider and Redis fail, nothing crashes.
SPECIFICATION FairSpec
CONSTANTS
    adaMath = adaMath
    bobMath = bobMath
    ada = ada
    bob = bob
    Server = {sv1, sv2}
    Pair = {adaMath}
    StudentOf <- Students
    MaxWeeks = 1
    Calls = {"delete"}
    Faults = {"redis", "email"}
INVARIANT OneNotePerWindow
PROPERTIES OnlyAKeySuppresses EmailsSettle
CHECK_DEADLOCK FALSE
