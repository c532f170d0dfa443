CONSTANTS
    Owner = owner
    Callers = {owner, other}
    Functors = {f1, f2}
SPECIFICATION ThreadSpec
PROPERTIES
    DestructorReturns
