SPECIFICATION FairMsgSpec
CONSTANTS
    Users = {owner, ann}
    Owner = owner
    Workers = {w1}
    AccessType = "public"
    MaxMembers = 3
    Ops = {"join", "leave"}
    Grants = {}
    Faults = {"expire"}
    MaxRows = 2
    Posts = {p1}
    MaxUnread = 1
INVARIANTS
    OnlyPastMembersCounted
PROPERTIES
    StaleSetHeals
