SPECIFICATION MsgSpec
CONSTANTS
    Users = {owner, ann, bob, cy}
    Owner = owner
    Workers = {w1}
    AccessType = "private"
    MaxMembers = 3
    Ops = {"join", "invite", "leave", "kick", "role", "delete"}
    Grants = {"admin"}
    Faults = {"drop"}
    MaxRows = 1
    Posts = {p1}
    MaxUnread = 1
INVARIANTS
    MemberSetComplete
PROPERTIES
    AdminOnlyByOwner
    FanoutReachesMembers
SYMMETRY Symmetry
