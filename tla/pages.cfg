SPECIFICATION Spec
CONSTANTS
    s1 = s1
    s2 = s2
    s3 = s3
    p1 = p1
    x1 = x1
    x2 = x2
    Timeline = Timeline
    None = None
    Squeak = {s1, s2, s3}
    Profile = {p1}
    Text = {x1, x2}
    Query = {Timeline, x1}
    Author <- ThreeAuthor
    Texts <- ThreeTexts
    Key <- ThreeKey
    Limit = 1
    Requests = {"insert", "unlock", "remove", "delete", "follow", "edit"}
    Faults = {"request"}
    MaxFetches = 3
    MaxFaults = 1
INVARIANT TypeOK
INVARIANT ListsInOrder
INVARIANT ListsHaveNoGaps
CHECK_DEADLOCK FALSE
CONSTRAINT OneList
