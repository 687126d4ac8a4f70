---------------------------- MODULE UsersService ----------------------------
(***************************************************************************)
(* UsersService as a whole: accounts and the friend requests between them, *)
(* whose handlers interleave.  Only a registered user is asked, and only a *)
(* registered one can ask, accept or remove.                               *)
(***************************************************************************)
EXTENDS Friendships, FiniteSets

CONSTANTS
    Emails, Usernames, Symbols, MaxWatchlist,   \* as in UserAccounts
    MaxVersion, MaxChanges,
    MaxOpen       \* bound: requests open at one time, of both kinds

ASSUME UsersServiceAssumption == {MaxWatchlist, MaxVersion, MaxChanges, MaxOpen} \subseteq Nat

VARIABLES
    users, token, lost,   \* as in UserAccounts
    edit                  \* edit[r]: what request r on an account has read

accountVars == <<users, edit, token, lost>>
serviceVars == <<vars, accountVars>>

Accounts == INSTANCE UserAccounts WITH request <- edit

ServiceInit == Init /\ Accounts!Init

\* Fewer than MaxOpen requests are open.
Vacancy ==
    Cardinality({r \in Requests : request[r] # Idle})
        + Cardinality({r \in Requests : edit[r] # Accounts!Idle}) < MaxOpen

BothRegistered(p) == {p[1], p[2]} \subseteq Accounts!Registered

\* A handler of an account starts or saves.
AccountStep ==
    \/ \E r \in Requests :
          \/ Accounts!Save(r)
          \/ Vacancy /\ Accounts!Start(r)
    \/ Accounts!Access

FriendStep ==
    \/ \E r \in Requests, p \in Pairs :
          Vacancy /\ BothRegistered(p) /\ (Send(r, p) \/ Accept(r, p))
    \/ \E r \in Requests : Insert(r) \/ SaveAccepted(r)
    \/ \E p \in Pairs : BothRegistered(p) /\ Remove(p)

ServiceNext ==
    \/ AccountStep /\ UNCHANGED vars
    \/ FriendStep /\ UNCHANGED accountVars

ServiceSpec == ServiceInit /\ [][ServiceNext]_serviceVars

-----------------------------------------------------------------------------
(* Properties of the parts that the service keeps, see there *)

\* The documents of both collections stay what their schemas allow.
ServiceTypeOK == TypeOK /\ Accounts!TypeOK

\* No two accounts share an email or a username.
NamesUnique == Accounts!NamesUnique

\* Changes of an account put an end to the tokens issued before.
OldTokensRefused == Accounts!OldTokensRefused

\* Edits of an account start from the document as it is when they are saved.
SavesEditCurrent == Accounts!SavesEditCurrent
=============================================================================
