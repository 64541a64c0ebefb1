SPECIFICATION Spec
CONSTANTS
    s1 = s1
    s2 = s2
    alice = alice
    Session = {s1, s2}
    User = {alice}
    Userid <- OneUser
    MaxScopes = 3
    None = None
INVARIANTS EverybodyIsShown NobodyElseIsShown OneLinePerUser
CHECK_DEADLOCK FALSE
