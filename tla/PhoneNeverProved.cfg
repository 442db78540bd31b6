\* The client makes MaxRequests requests, and then the system may stop.
SPECIFICATION FreshSpec
CONSTANTS
    Users = {u1, u2}
    Phones = {p1}
    Emails = {e1}
    Clients = {c1}
    Roles = {customer, expert}
    NoUser = NoUser
    NoRole = NoRole
    NoAddress = NoAddress
    MaxCodes = 3
    MaxRequests = 4
    MaxEdits = 1
INVARIANTS
    RegisteredPhoneWasProved
CHECK_DEADLOCK FALSE
