SPECIFICATION Spec
CONSTANTS
    Requests = {r1, r2, r3}
    Ids = {i1, i2}
    Passwords = {s1, s2}
    MaxFailures = 1
    MaxRestarts = 1
INVARIANTS TypeOK UniqueIds PasswordsStayWithTheirProfile SerialChangesAreKept
CHECK_DEADLOCK FALSE
