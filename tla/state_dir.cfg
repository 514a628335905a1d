SPECIFICATION StateSpec
CONSTANTS
    Server = {s1, s2, s3}
    MaxFaults = 2
    Env = Env
    Absent = Absent
    Torn = Torn
    Unset = Unset
SYMMETRY ServerSymmetry
INVARIANTS StateTypeOK ServingIsSound NextStartSucceeds
CHECK_DEADLOCK FALSE
