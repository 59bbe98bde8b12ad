SPECIFICATION Spec
CONSTANTS
    o1 = o1
    o2 = o2
    o3 = o3
    Null = Null
    Orders <- ThreeOrders
    Prices <- SomePrices
    Amounts <- SomeAmounts
INVARIANTS
    TypeOK
    SettledWhenEnough
    NotScattered
PROPERTIES
    ImplementsContract
SYMMETRY OrderSymmetry
