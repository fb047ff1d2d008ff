SPECIFICATION WatchSpec
CONSTANTS
    Runs = {w1, w2}
    Sources = {page}
    Contents = {c1, c2}
    base = base
    edited = edited
    v1 = v1
    Cards = {base, edited}
    VersionIds = {v1}
    VersionOf <- MCVersionOf
    MaxSnapshots = 2
    Nothing = Nothing
INVARIANTS
    NotifiedIsHeard
PROPERTIES
    ChangesAreHeard
