SPECIFICATION ChatSpec
CONSTANTS
    Staff = {}
    Requests = {r1}
    Messages = {m1, m2}
    NoOne = noone
    MaxOffences = 3
INVARIANT Escalates
CHECK_DEADLOCK FALSE
