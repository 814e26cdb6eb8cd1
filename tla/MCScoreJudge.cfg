CONSTANT
    Cfg <- MCCfg
SPECIFICATION Spec
INVARIANTS
    AbsentIsNotZero
    BroadFailureGraded
PROPERTY
    HarmNeverHelps
CHECK_DEADLOCK FALSE
