SPECIFICATION ApiSpec
CONSTANTS
    Slots = {s1, s2}
SYMMETRY Symmetric
 
PROPERTIES ForbidRespected NoDanglingCreated WriteChecked
CHECK_DEADLOCK FALSE
