SPECIFICATION Spec
CONSTANT
    Paths = {a, b}
INVARIANTS
    NeverRefusesItsOwn
