---------------------------- MODULE Friendships ----------------------------
(***************************************************************************)
(* Friend requests of UsersService: one document per ordered pair of users *)
(* (a unique index), looked up, then inserted or saved after an await, or  *)
(* deleted in both directions.  A document keeps its _id for life; save    *)
(* updates by _id and throws when the document is gone.                    *)
(***************************************************************************)
EXTENDS Naturals

CONSTANTS
    Users,
    Requests,   \* bound: requests open at one time
    MaxIds      \* bound: documents ever created

ASSUME FriendshipsAssumption == MaxIds \in Nat

VARIABLES
    friendship,   \* friendship[<<u, f>>]: the document with userId u and friendId f
    lastId,       \* _id of the newest document
    request,      \* request[r]: what request r has read, before it writes
    agreed,       \* documents whose recipient asked to accept them (history)
    withdrawn     \* documents one of the two asked to remove (history)

vars == <<friendship, lastId, request, agreed, withdrawn>>

Pairs == {p \in Users \X Users : p[1] # p[2]}
Swapped(p) == <<p[2], p[1]>>

NoDocument == [status |-> "none"]
Document == [id: 1..MaxIds, status: {"pending", "accepted"}]
Idle == [stage |-> "idle"]

TypeOK ==
    /\ friendship \in [Pairs -> Document \cup {NoDocument}]
    /\ \A p, q \in Pairs :
          friendship[p] = friendship[q] /\ friendship[p] # NoDocument => p = q
    /\ lastId \in 0..MaxIds
    /\ request \in [Requests -> {Idle}
                        \cup [stage: {"insert"}, pair: Pairs]
                        \cup [stage: {"save"}, pair: Pairs, id: 1..MaxIds]]
    /\ agreed \subseteq 1..lastId
    /\ withdrawn \subseteq 1..lastId

Init ==
    /\ friendship = [p \in Pairs |-> NoDocument]
    /\ lastId = 0
    /\ request = [r \in Requests |-> Idle]
    /\ agreed = {}
    /\ withdrawn = {}

Exists(p) == friendship[p] # NoDocument

-----------------------------------------------------------------------------
\* sendFriendRequest finds no document in either direction ...
Send(r, p) ==
    /\ request[r] = Idle
    /\ ~Exists(p) /\ ~Exists(Swapped(p))
    /\ request' = [request EXCEPT ![r] = [stage |-> "insert", pair |-> p]]
    /\ UNCHANGED <<friendship, lastId, agreed, withdrawn>>

\* Mutant: the insertion replaces a document of the same pair.
InsertOver(r) ==
    /\ request[r].stage = "insert"
    /\ request' = [request EXCEPT ![r] = Idle]
    /\ lastId < MaxIds
    /\ lastId' = lastId + 1
    /\ friendship' = [friendship EXCEPT ![request[r].pair] =
                        [id |-> lastId', status |-> "pending"]]
    /\ UNCHANGED <<agreed, withdrawn>>

\* ... and creates one, unless the unique index refuses it.
Insert(r) ==
    /\ request[r].stage = "insert"
    /\ request' = [request EXCEPT ![r] = Idle]
    /\ IF Exists(request[r].pair)
       THEN UNCHANGED <<friendship, lastId>>
       ELSE /\ lastId < MaxIds
            /\ lastId' = lastId + 1
            /\ friendship' = [friendship EXCEPT ![request[r].pair] =
                                [id |-> lastId', status |-> "pending"]]
    /\ UNCHANGED <<agreed, withdrawn>>

\* acceptFriendRequest: the recipient p[2] finds the pending document ...
Accept(r, p) ==
    /\ request[r] = Idle
    /\ friendship[p].status = "pending"
    /\ LET id == friendship[p].id
       IN  /\ request' = [request EXCEPT ![r] = [stage |-> "save", pair |-> p, id |-> id]]
           /\ agreed' = agreed \cup {id}
    /\ UNCHANGED <<friendship, lastId, withdrawn>>

\* Mutant: the document is saved by its pair of users.
SaveByPair(r) ==
    /\ request[r].stage = "save"
    /\ request' = [request EXCEPT ![r] = Idle]
    /\ friendship' = [friendship EXCEPT ![request[r].pair] =
                        IF @ = NoDocument THEN @ ELSE [@ EXCEPT !.status = "accepted"]]
    /\ UNCHANGED <<lastId, agreed, withdrawn>>

\* Mutant: nothing is looked up before the status is set.
SaveBlindly(r) ==
    /\ request[r].stage = "save"
    /\ request' = [request EXCEPT ![r] = Idle]
    /\ friendship' = [friendship EXCEPT ![request[r].pair].status = "accepted"]
    /\ UNCHANGED <<lastId, agreed, withdrawn>>

\* Mutant: a document that is gone is inserted again (upsert).
SaveUpsert(r) ==
    LET q == request[r]
    IN  /\ q.stage = "save"
        /\ request' = [request EXCEPT ![r] = Idle]
        /\ friendship' = [friendship EXCEPT ![q.pair] =
                            IF @ = NoDocument \/ @.id = q.id
                            THEN [id |-> q.id, status |-> "accepted"] ELSE @]
        /\ UNCHANGED <<lastId, agreed, withdrawn>>

\* ... and saves it; one that was deleted meanwhile is not found by its _id.
SaveAccepted(r) ==
    LET q == request[r]
    IN  /\ q.stage = "save"
        /\ request' = [request EXCEPT ![r] = Idle]
        /\ friendship' = [friendship EXCEPT ![q.pair] =
                            IF @ # NoDocument /\ @.id = q.id
                            THEN [@ EXCEPT !.status = "accepted"] ELSE @]
        /\ UNCHANGED <<lastId, agreed, withdrawn>>

\* removeFriend: deleteMany in both directions.
Remove(p) ==
    /\ friendship' = [friendship EXCEPT ![p] = NoDocument, ![Swapped(p)] = NoDocument]
    /\ withdrawn' = withdrawn \cup
         {friendship[q].id : q \in {x \in {p, Swapped(p)} : Exists(x)}}
    /\ UNCHANGED <<lastId, request, agreed>>

Next ==
    \/ \E r \in Requests, p \in Pairs : Send(r, p) \/ Accept(r, p)
    \/ \E r \in Requests : Insert(r) \/ SaveAccepted(r)
    \/ \E p \in Pairs : Remove(p)

Spec == Init /\ [][Next]_vars

-----------------------------------------------------------------------------
(* Properties *)

\* Nobody is a friend of someone whose request he did not accept: an accepted
\* document is one its recipient agreed to, not an earlier request of the same
\* user that was withdrawn while he answered.
FriendsAgreed ==
    \A p \in Pairs : friendship[p].status = "accepted" => friendship[p].id \in agreed

\* What was removed stays removed: no late acceptance brings a document back,
\* and none is left in the other direction, where two requests may have crossed.
RemovalsStand ==
    \A p \in Pairs : Exists(p) => friendship[p].id \notin withdrawn

\* A friendship is not taken back by a new request: as long as neither removes
\* it, an accepted document stays as it is.
FriendsStay ==
    [][\A p \in Pairs : friendship[p].status = "accepted" =>
          \/ friendship'[p] = friendship[p]
          \/ friendship[p].id \in withdrawn']_vars
=============================================================================
