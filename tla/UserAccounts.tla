---------------------------- MODULE UserAccounts ----------------------------
(***************************************************************************)
(* The documents of users as the handlers of accounts edit them: each      *)
(* reads a document, awaits other reads, and saves what it changed.  A     *)
(* save is external and does what Mongoose does: it writes the changed     *)
(* fields only, checks and increments the version __v when an array is     *)
(* replaced, and fails on a duplicate email or username (unique indexes).  *)
(* A token is issued at login with the tokenVersion of the document, and   *)
(* accepted as long as the document has it.  Passwords and roles matter    *)
(* here only in that they change, which is to put an end to older tokens.  *)
(***************************************************************************)
EXTENDS Integers, FiniteSets

CONSTANTS
    Users,        \* accounts that may be created
    Emails, Usernames, Symbols,
    Requests,     \* bound: requests open at one time
    MaxWatchlist, \* MAX_WATCHLIST_SYMBOLS
    MaxVersion,   \* bound: watchlists saved per user
    MaxChanges    \* bound: tokenVersion

VARIABLES
    users,     \* users[u]: the document of u
    request,   \* request[r]: what request r read and is about to save
    token,     \* a token somebody holds, any one of them, and whether the email,
               \* password or role of its user changed since it was issued (history)
    lost       \* accounts with a change of tokenVersion overwritten (history)

vars == <<users, request, token, lost>>

NoUser == [version |-> -1]
User == [email: Emails, username: Usernames, watchlist: SUBSET Symbols,
         version: 0..MaxVersion, tokenVersion: 0..MaxChanges]

NoToken == [tokenVersion |-> -1]
Token == [user: Users, tokenVersion: 0..MaxChanges, outdated: BOOLEAN]

Idle == [kind |-> "idle"]

TypeOK ==
    /\ users \in [Users -> User \cup {NoUser}]
    /\ \A u \in Users : users[u] # NoUser => Cardinality(users[u].watchlist) <= MaxWatchlist
    /\ \A r \in Requests : request[r].kind \in {"idle", "create", "profile", "email", "password", "watchlist"}
    /\ token \in Token \cup {NoToken}
    /\ lost \subseteq Users

Init ==
    /\ users = [u \in Users |-> NoUser]
    /\ request = [r \in Requests |-> Idle]
    /\ token = NoToken
    /\ lost = {}

Registered == {u \in Users : users[u] # NoUser}

TakenBy(others, email, username) ==
    \E v \in others : users[v].email = email \/ users[v].username = username

Open(r, q) == request[r] = Idle /\ request' = [request EXCEPT ![r] = q]

Close(r) == request' = [request EXCEPT ![r] = Idle]

-----------------------------------------------------------------------------
(* The first half of a handler: reads and checks *)

Create(r, u, email, username) ==
    /\ u \notin Registered
    /\ ~TakenBy(Registered, email, username)
    /\ Open(r, [kind |-> "create", user |-> u, email |-> email, username |-> username])
    /\ UNCHANGED <<users, token, lost>>

UpdateProfile(r, u, username) ==
    /\ u \in Registered
    /\ \A v \in Registered \ {u} : users[v].username # username
    /\ Open(r, [kind |-> "profile", user |-> u, username |-> username])
    /\ UNCHANGED <<users, token, lost>>

ChangeEmail(r, u, email) ==
    /\ u \in Registered
    /\ \A v \in Registered \ {u} : users[v].email # email
    /\ users[u].tokenVersion < MaxChanges
    /\ Open(r, [kind |-> "email", user |-> u, email |-> email,
                tokenVersion |-> users[u].tokenVersion])
    /\ UNCHANGED <<users, token, lost>>

\* The current password is compared with the document just read.
ChangePassword(r, u) ==
    /\ u \in Registered
    /\ users[u].tokenVersion < MaxChanges
    /\ Open(r, [kind |-> "password", user |-> u, tokenVersion |-> users[u].tokenVersion])
    /\ UNCHANGED <<users, token, lost>>

\* addToWatchlist and removeFromWatchlist compute the whole new list; one
\* that equals the old list is not saved.
EditWatchlist(r, u, add, remove) ==
    /\ u \in Registered
    /\ LET new == (users[u].watchlist \cup add) \ remove
       IN  /\ Cardinality(new) <= MaxWatchlist
           /\ new # users[u].watchlist
           /\ Open(r, [kind |-> "watchlist", user |-> u, version |-> users[u].version,
                       watchlist |-> new, add |-> add, remove |-> remove])
    /\ UNCHANGED <<users, token, lost>>

-----------------------------------------------------------------------------
(* The second half: create and save *)

\* Mutant: the collection has no unique indexes.
NothingDuplicate(u, email, username) == email \in Emails /\ username \in Usernames

\* The unique indexes let the document of u have these names.
Unique(u, email, username) == ~TakenBy(Registered \ {u}, email, username)

SaveCreated(r) ==
    LET q == request[r]
    IN  /\ q.kind = "create"
        /\ users' = IF q.user \notin Registered /\ Unique(q.user, q.email, q.username)
                    THEN [users EXCEPT ![q.user] =
                            [email |-> q.email, username |-> q.username,
                             watchlist |-> {}, version |-> 0, tokenVersion |-> 0]]
                    ELSE users
        /\ Close(r)
        /\ UNCHANGED <<token, lost>>

SaveProfile(r) ==
    LET q == request[r]
    IN  /\ q.kind = "profile"
        /\ users' = IF Unique(q.user, users[q.user].email, q.username)
                    THEN [users EXCEPT ![q.user].username = q.username]
                    ELSE users
        /\ Close(r)
        /\ UNCHANGED <<token, lost>>

\* A version that another change has raised since it was read is overwritten.
LoseChange(q) ==
    lost' = IF users[q.user].tokenVersion = q.tokenVersion THEN lost ELSE lost \cup {q.user}

Outdate(u) ==
    token' = IF token # NoToken /\ token.user = u THEN [token EXCEPT !.outdated = TRUE]
             ELSE token

\* Mutant: the email is saved without a new tokenVersion.
SaveEmailOnly(r) ==
    LET q == request[r]
    IN  /\ q.kind = "email"
        /\ IF Unique(q.user, q.email, users[q.user].username)
           THEN /\ users' = [users EXCEPT ![q.user].email = q.email]
                /\ Outdate(q.user)
           ELSE UNCHANGED <<users, token>>
        /\ Close(r)
        /\ UNCHANGED lost

SaveEmail(r) ==
    LET q == request[r]
    IN  /\ q.kind = "email"
        /\ IF Unique(q.user, q.email, users[q.user].username)
           THEN /\ users' = [users EXCEPT ![q.user].email = q.email,
                                         ![q.user].tokenVersion = q.tokenVersion + 1]
                /\ LoseChange(q)
                /\ Outdate(q.user)
           ELSE UNCHANGED <<users, lost, token>>
        /\ Close(r)

SavePassword(r) ==
    LET q == request[r]
    IN  /\ q.kind = "password"
        /\ users' = [users EXCEPT ![q.user].tokenVersion = q.tokenVersion + 1]
        /\ LoseChange(q)
        /\ Outdate(q.user)
        /\ Close(r)

\* Mutant: the version is not compared.
SaveAnyWatchlist(r) ==
    LET q == request[r]
    IN  /\ q.kind = "watchlist"
        /\ users[q.user].version < MaxVersion
        /\ users' = [users EXCEPT ![q.user].watchlist = q.watchlist,
                                  ![q.user].version = @ + 1]
        /\ Close(r)
        /\ UNCHANGED <<token, lost>>

\* A VersionError ends the request when another list was saved meanwhile.
SaveWatchlist(r) ==
    LET q == request[r]
    IN  /\ q.kind = "watchlist"
        /\ IF users[q.user].version = q.version
           THEN /\ users[q.user].version < MaxVersion
                /\ users' = [users EXCEPT ![q.user].watchlist = q.watchlist,
                                          ![q.user].version = @ + 1]
           ELSE UNCHANGED users
        /\ Close(r)
        /\ UNCHANGED <<token, lost>>

Save(r) ==
    \/ SaveCreated(r) \/ SaveProfile(r) \/ SaveEmail(r) \/ SavePassword(r) \/ SaveWatchlist(r)

Start(r) ==
    \/ \E u \in Users, e \in Emails, n \in Usernames : Create(r, u, e, n)
    \/ \E u \in Users, n \in Usernames : UpdateProfile(r, u, n)
    \/ \E u \in Users, e \in Emails : ChangeEmail(r, u, e)
    \/ \E u \in Users : ChangePassword(r, u)
    \/ \E u \in Users, s \in Symbols :
          EditWatchlist(r, u, {s}, {}) \/ EditWatchlist(r, u, {}, {s})

-----------------------------------------------------------------------------
(* Handlers with one access to the database *)

\* updateRole: $set and $inc in one update.
UpdateRole(u) ==
    /\ u \in Registered
    /\ users[u].tokenVersion < MaxChanges
    /\ users' = [users EXCEPT ![u].tokenVersion = @ + 1]
    /\ Outdate(u)
    /\ UNCHANGED <<request, lost>>

\* login reads the document once and signs what it found there.
Login(u) ==
    /\ u \in Registered
    /\ token' = [user |-> u, tokenVersion |-> users[u].tokenVersion, outdated |-> FALSE]
    /\ UNCHANGED <<users, request, lost>>

\* validate of the JWT strategy, for every request that needs a token.
Accepted(t) ==
    /\ t # NoToken
    /\ t.user \in Registered
    /\ users[t.user].tokenVersion = t.tokenVersion

Access == \E u \in Users : Login(u) \/ UpdateRole(u)

Next == (\E r \in Requests : Start(r) \/ Save(r)) \/ Access

Spec == Init /\ [][Next]_vars

-----------------------------------------------------------------------------
(* Properties *)

\* However registrations and edits race past their own checks, no two accounts
\* share an email or a username, so a login finds one account.
NamesUnique ==
    \A u, v \in Registered :
        u # v => users[u].email # users[v].email /\ users[u].username # users[v].username

\* A token from before the last change of its user's email, password or role
\* is not accepted, whatever else is saved meanwhile.  Two changes open at once
\* may lose a step of the version, which two of the three handlers increment in
\* memory: then it may come back to what it was, and such accounts are left out.
OldTokensRefused ==
    Accepted(token) /\ token.user \notin lost => ~token.outdated

\* A save edits the document as it is, not as the handler read it: concurrent
\* edits of other fields stay, and a watchlist loses nothing that was added to
\* it, and regains nothing that was removed, after the handler read it.  Only
\* tokenVersion is saved as it was read, plus one.
SavesEditCurrent ==
    [][\A u \in Registered : users'[u] # users[u] =>
         \/ users'[u] = [users[u] EXCEPT !.tokenVersion = @ + 1]   \* updateRole
         \/ \E r \in Requests :
            LET q == request[r]
            IN  /\ q # Idle /\ q.user = u
                /\ \/ /\ q.kind = "profile"
                      /\ users'[u] = [users[u] EXCEPT !.username = q.username]
                   \/ /\ q.kind = "email"
                      /\ users'[u] = [users[u] EXCEPT !.email = q.email,
                                         !.tokenVersion = q.tokenVersion + 1]
                   \/ /\ q.kind = "password"
                      /\ users'[u] = [users[u] EXCEPT !.tokenVersion = q.tokenVersion + 1]
                   \/ /\ q.kind = "watchlist"
                      /\ users'[u] = [users[u] EXCEPT
                                         !.watchlist = (@ \cup q.add) \ q.remove,
                                         !.version = @ + 1]
      ]_vars
=============================================================================
