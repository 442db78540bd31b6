\* Each client makes MaxRequests requests, and then the system may stop.
SPECIFICATION ProvedSpec
CONSTANTS
    Users = {u1, u2}
    Phones = {p1, p2}
    Emails = {e1, e2}
    Clients = {c1, c2}
    Roles = {customer, expert}
    NoUser = NoUser
    NoRole = NoRole
    NoAddress = NoAddress
    MaxCodes = 4
    MaxRequests = 2
    MaxEdits = 1
SYMMETRY AddressSymmetry
INVARIANTS
    OneAccountPerAddress
PROPERTIES
    OnlyPortalMakesBare
CHECK_DEADLOCK FALSE
