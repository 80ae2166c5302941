SPECIFICATION MsgSpec
CONSTANTS
    Users = {owner, ann, bob}
    Owner = owner
    Workers = {w1}
    AccessType = "public"
    MaxMembers = 3
    Ops = {"join"}
    Grants = {}
    Faults = {"expire"}
    MaxRows = 1
    Posts = {p1}
    MaxUnread = 1
PROPERTIES
    FanoutReachesMembers
