\* Requests of one account overlap: logins, refreshes and a password change.
CONSTANTS
    u1 = u1  u2 = u2  r1 = r1  r2 = r2  r3 = r3
    Nobody = Nobody
    Users = {u1}
    AdminEmails = {u1}
    Slots = {r1, r2}
    MaxTokens = 3
    MaxPasswords = 1
SPECIFICATION Spec
INVARIANTS TypeOK OneTokenPerLogin SignedOutStaysOut OldPasswordSessionsEnd
PROPERTIES TokensActAsSessions
SYMMETRY SlotSymmetry
