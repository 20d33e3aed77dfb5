CONSTANTS
    N = 3
    Compartments = {c1, c2, c3, c4, c5}
SPECIFICATION Spec
SYMMETRY CompartmentSymmetry
INVARIANTS LoadIsExact
PROPERTY PlacedOnLeastLoaded
