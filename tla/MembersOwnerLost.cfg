CONSTANTS
    ann = ann
    bob = bob
    People = {ann, bob}
    Me = ann
    MaxMemberCalls = 2
    MaxMemberWrites = 3
SPECIFICATION MemberSpec
INVARIANTS OwnerRemains
CHECK_DEADLOCK FALSE
