CONSTANTS
    a = a
    b = b
    r1 = r1
    r2 = r2
    Users = {a, b}
    Requests = {r1, r2}
    Emails = {e1, e2}
    Usernames = {n1, n2}
    Symbols = {x1, x2}
    MaxWatchlist = 1
    MaxVersion = 2
    MaxChanges = 1
    MaxIds = 2
    MaxOpen = 2
SPECIFICATION ServiceSpec
SYMMETRY MCSymmetry
INVARIANTS ServiceTypeOK NamesUnique OldTokensRefused FriendsAgreed RemovalsStand
PROPERTIES SavesEditCurrent FriendsStay
CHECK_DEADLOCK FALSE
