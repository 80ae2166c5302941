SPECIFICATION Spec
CONSTANTS
    Users = {owner, ann, bob}
    Owner = owner
    Workers = {w1, w2}
    AccessType = "private"
    MaxMembers = 2
    Ops = {"invite", "leave", "role", "delete"}
    Grants = {"admin"}
    Faults = {"abort", "expire"}
    MaxRows = 1
INVARIANTS
    OneOwner
    CountNeverAbove
    OvershootBounded
PROPERTIES
    TableSpec
SYMMETRY Symmetry
