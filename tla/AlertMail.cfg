\* The emails of two alerts in one queue; the provider, the database and the
\* server fail, students read and delete the notes meanwhile.
SPECIFICATION Spec
CONSTANTS
    adaMath = adaMath
    bobMath = bobMath
    ada = ada
    bob = bob
    Server = {sv1}
    Pair = {adaMath, bobMath}
    StudentOf <- Students
    MaxWeeks = 1
    Calls = {"read", "readAll", "delete"}
    Faults = {"db", "email", "crash"}
SYMMETRY Symmetry
INVARIANTS TypeOK OneEmailAtATime AttemptsRunOnce
PROPERTIES StudentCallsLast ImplementsLadder
CHECK_DEADLOCK FALSE
