-------------------------- MODULE UsersServiceProofs --------------------------
(***************************************************************************)
(* Accounts and friend requests, for any number of users, requests and     *)
(* documents.                                                              *)
(*                                                                         *)
(* Of the friend requests, an acceptance is safe since it saves by the _id *)
(* it read, and no two documents ever have the same.  Of the accounts, the *)
(* unique indexes keep the names apart, the version __v tells whether a    *)
(* watchlist is still the one a handler read, and a token is never ahead   *)
(* of the document it was signed for.                                      *)
(***************************************************************************)
EXTENDS UsersService, FiniteSetTheorems, TLAPS

-----------------------------------------------------------------------------
(* Friend requests *)

\* An _id names one document, and the next one is new.
IdsUnique ==
    /\ \A p \in Pairs : Exists(p) => friendship[p].id \in 1..lastId
    /\ \A p, q \in Pairs :
          Exists(p) /\ Exists(q) /\ friendship[p].id = friendship[q].id => p = q

\* Whoever saves an acceptance was asked by the recipient.
SavesAgreed ==
    \A r \in Requests : request[r].stage = "save" => request[r].id \in agreed

FriendInvariant ==
    TypeOK /\ IdsUnique /\ SavesAgreed /\ FriendsAgreed /\ RemovalsStand

InsertRequest == [stage: {"insert"}, pair: Pairs]

SaveRequest == [stage: {"save"}, pair: Pairs, id: 1..MaxIds]

FriendRequest == {Idle} \cup InsertRequest \cup SaveRequest

FriendDocument == Document \cup {NoDocument}

LEMMA FriendTypes ==
    ASSUME TypeOK
    PROVE  /\ friendship \in [Pairs -> FriendDocument] /\ request \in [Requests -> FriendRequest]
           /\ lastId \in 0..MaxIds /\ MaxIds \in Nat
           /\ agreed \subseteq 1..lastId /\ withdrawn \subseteq 1..lastId
  BY FriendshipsAssumption
  DEF TypeOK, FriendRequest, FriendDocument, InsertRequest, SaveRequest

LEMMA Documents ==
    ASSUME TypeOK, NEW p \in Pairs
    PROVE  /\ Exists(p) => friendship[p] \in Document
           /\ friendship[p].status \in {"pending", "accepted"} => Exists(p)
<1>1. friendship[p] \in FriendDocument
  BY FriendTypes
<1>2. QED
  BY <1>1 DEF FriendDocument, Document, NoDocument, Exists

LEMMA FriendStages ==
    ASSUME TypeOK, NEW r \in Requests
    PROVE  /\ request[r].stage = "insert" => request[r] \in InsertRequest
           /\ request[r].stage = "save" => request[r] \in SaveRequest
<1>1. request[r] \in FriendRequest
  BY FriendTypes
<1>2. QED
  BY <1>1 DEF FriendRequest, InsertRequest, SaveRequest, Idle

LEMMA SwappedPair ==
    ASSUME NEW p \in Pairs
    PROVE  Swapped(p) \in Pairs
  BY DEF Pairs, Swapped

\* The types by their parts; documents differ, because their ids do.
LEMMA FriendTypeParts ==
    ASSUME friendship' \in [Pairs -> FriendDocument], request' \in [Requests -> FriendRequest],
           lastId' \in 0..MaxIds, agreed' \subseteq 1..lastId', withdrawn' \subseteq 1..lastId',
           IdsUnique'
    PROVE  TypeOK'
<1>1. ASSUME NEW p \in Pairs, NEW q \in Pairs,
             friendship'[p] = friendship'[q], friendship'[p] # NoDocument
      PROVE  p = q
  BY <1>1 DEF IdsUnique, Exists
<1>2. QED
  BY <1>1 DEF TypeOK, FriendRequest, FriendDocument, InsertRequest, SaveRequest

LEMMA SendKeeps ==
    ASSUME FriendInvariant, NEW r \in Requests, NEW p \in Pairs, Send(r, p)
    PROVE  FriendInvariant'
<1>1. UNCHANGED <<friendship, lastId, agreed, withdrawn>>
  BY DEF Send
<1>2. TypeOK /\ request' = [request EXCEPT ![r] = [stage |-> "insert", pair |-> p]]
  BY DEF Send, FriendInvariant
<1>3. request' \in [Requests -> FriendRequest]
  BY <1>2, FriendTypes DEF FriendRequest, InsertRequest
<1>4. IdsUnique' /\ FriendsAgreed' /\ RemovalsStand'
  BY <1>1 DEF FriendInvariant, IdsUnique, FriendsAgreed, RemovalsStand, Exists
<1>5. SavesAgreed'
  BY <1>1, <1>2, FriendTypes DEF FriendInvariant, SavesAgreed
<1>6. TypeOK'
  BY <1>1, <1>2, <1>3, <1>4, FriendTypes, FriendTypeParts
<1>7. QED
  BY <1>4, <1>5, <1>6 DEF FriendInvariant

LEMMA AcceptKeeps ==
    ASSUME FriendInvariant, NEW r \in Requests, NEW p \in Pairs, Accept(r, p)
    PROVE  FriendInvariant'
<1> DEFINE id == friendship[p].id
<1>1. UNCHANGED <<friendship, lastId, withdrawn>> /\ TypeOK
  BY DEF Accept, FriendInvariant
<1>2. /\ request' = [request EXCEPT ![r] = [stage |-> "save", pair |-> p, id |-> id]]
      /\ agreed' = agreed \cup {id}
  BY DEF Accept
<1>3. id \in 1..MaxIds /\ id \in 1..lastId
  BY <1>1, Documents DEF Accept, Document, FriendInvariant, IdsUnique
<1> HIDE DEF id
<1>4. request' \in [Requests -> FriendRequest] /\ agreed' \subseteq 1..lastId
  BY <1>1, <1>2, <1>3, FriendTypes DEF FriendRequest, SaveRequest
<1>5. IdsUnique' /\ FriendsAgreed' /\ RemovalsStand'
  BY <1>1, <1>2 DEF FriendInvariant, IdsUnique, FriendsAgreed, RemovalsStand, Exists
<1>6. SavesAgreed'
  BY <1>1, <1>2, FriendTypes DEF FriendInvariant, SavesAgreed
<1>7. TypeOK'
  BY <1>1, <1>4, <1>5, FriendTypes, FriendTypeParts
<1>8. QED
  BY <1>5, <1>6, <1>7 DEF FriendInvariant

\* Whoever inserts or saves is done.
LEMMA FriendDone ==
    ASSUME FriendInvariant, NEW r \in Requests, request' = [request EXCEPT ![r] = Idle],
           UNCHANGED agreed
    PROVE  request' \in [Requests -> FriendRequest] /\ SavesAgreed'
<1>1. request \in [Requests -> FriendRequest]
  BY FriendTypes DEF FriendInvariant
<1>2. request' \in [Requests -> FriendRequest]
  BY <1>1 DEF FriendRequest
<1>3. SavesAgreed'
  BY <1>1 DEF FriendInvariant, SavesAgreed, Idle
<1>4. QED
  BY <1>2, <1>3

\* A new document has an _id that no removal and no acceptance ever named.
LEMMA InsertKeeps ==
    ASSUME FriendInvariant, NEW r \in Requests, Insert(r)
    PROVE  FriendInvariant'
<1> DEFINE p == request[r].pair
<1>1. UNCHANGED <<agreed, withdrawn>> /\ TypeOK /\ request' = [request EXCEPT ![r] = Idle]
  BY DEF Insert, FriendInvariant
<1>2. p \in Pairs
  BY <1>1, FriendStages DEF Insert, InsertRequest
<1>3. request' \in [Requests -> FriendRequest] /\ SavesAgreed'
  BY <1>1, FriendDone
<1>4. CASE Exists(p)
  <2>1. UNCHANGED <<friendship, lastId>>
    BY <1>4 DEF Insert
  <2>2. IdsUnique' /\ FriendsAgreed' /\ RemovalsStand'
    BY <1>1, <2>1 DEF FriendInvariant, IdsUnique, FriendsAgreed, RemovalsStand, Exists
  <2>3. TypeOK'
    BY <1>1, <1>3, <2>1, <2>2, FriendTypes, FriendTypeParts
  <2>4. QED
    BY <1>3, <2>2, <2>3 DEF FriendInvariant
<1>5. CASE ~Exists(p)
  <2>1. /\ lastId < MaxIds /\ lastId' = lastId + 1
        /\ friendship' = [friendship EXCEPT ![p] = [id |-> lastId', status |-> "pending"]]
    BY <1>5 DEF Insert
  <2> HIDE DEF p
  <2>2. lastId \in Nat /\ MaxIds \in Nat /\ lastId' \in 1..MaxIds
    BY <1>1, <2>1, FriendTypes
  <2>3. [id |-> lastId', status |-> "pending"] \in Document
    BY <2>2 DEF Document
  <2>4. friendship' \in [Pairs -> FriendDocument]
    BY <1>1, <2>1, <2>3, FriendTypes DEF FriendDocument
  <2>5. /\ friendship'[p].id = lastId' /\ friendship'[p].status = "pending"
        /\ \A q \in Pairs \ {p} : friendship'[q] = friendship[q]
    BY <1>1, <1>2, <2>1, FriendTypes
  <2>6. /\ \A q \in Pairs : Exists(q) => friendship[q].id \in 1..lastId
        /\ \A q, x \in Pairs :
              Exists(q) /\ Exists(x) /\ friendship[q].id = friendship[x].id => q = x
    BY DEF FriendInvariant, IdsUnique
  <2>7. \A q \in Pairs : Exists(q)' => friendship'[q].id \in 1..lastId'
    BY <2>1, <2>2, <2>5, <2>6 DEF Exists
  <2>8. ASSUME NEW q \in Pairs, NEW x \in Pairs, Exists(q)', Exists(x)',
               friendship'[q].id = friendship'[x].id
        PROVE  q = x
    BY <2>1, <2>2, <2>5, <2>6, <2>8 DEF Exists
  <2>9. IdsUnique'
    BY <2>7, <2>8 DEF IdsUnique
  <2>10. FriendsAgreed'
    BY <1>1, <2>5 DEF FriendsAgreed, FriendInvariant
  <2>11. agreed \subseteq 1..lastId /\ withdrawn \subseteq 1..lastId
    BY <1>1, FriendTypes
  <2>12. lastId' \notin withdrawn
    BY <2>1, <2>2, <2>11
  <2>13. RemovalsStand'
    BY <1>1, <2>5, <2>12 DEF RemovalsStand, FriendInvariant, Exists
  <2>14. agreed' \subseteq 1..lastId' /\ withdrawn' \subseteq 1..lastId'
    BY <1>1, <2>1, <2>2, <2>11
  <2>15. TypeOK'
    BY <1>3, <2>2, <2>4, <2>9, <2>14, FriendTypeParts
  <2>16. QED
    BY <1>3, <2>9, <2>10, <2>13, <2>15 DEF FriendInvariant
<1>6. QED
  BY <1>4, <1>5

\* The document that has the _id is the one the recipient agreed to.
LEMMA SaveKeeps ==
    ASSUME FriendInvariant, NEW r \in Requests, SaveAccepted(r)
    PROVE  FriendInvariant'
<1> DEFINE p == request[r].pair
           id == request[r].id
<1>1. /\ UNCHANGED <<lastId, agreed, withdrawn>> /\ TypeOK
      /\ request' = [request EXCEPT ![r] = Idle]
      /\ friendship' = [friendship EXCEPT ![p] =
                           IF friendship[p] # NoDocument /\ friendship[p].id = id
                           THEN [friendship[p] EXCEPT !.status = "accepted"]
                           ELSE friendship[p]]
  BY DEF SaveAccepted, FriendInvariant
<1>2. p \in Pairs
  BY <1>1, FriendStages DEF SaveAccepted, SaveRequest
<1>3. id \in agreed
  BY DEF FriendInvariant, SavesAgreed, SaveAccepted
<1> HIDE DEF p, id
<1>4. request' \in [Requests -> FriendRequest] /\ SavesAgreed'
  BY <1>1, FriendDone
<1>5. friendship \in [Pairs -> FriendDocument]
  BY <1>1, FriendTypes
<1>6. \A q \in Pairs \ {p} : friendship'[q] = friendship[q]
  BY <1>1, <1>5
<1>7. /\ friendship'[p] \in FriendDocument
      /\ friendship'[p] # NoDocument => Exists(p) /\ friendship'[p].id = friendship[p].id
      /\ friendship'[p] = friendship[p] \/ friendship'[p].id \in agreed
  <2>1. CASE friendship[p] # NoDocument /\ friendship[p].id = id
    <3>1. friendship[p] \in Document
      BY <1>1, <1>2, <2>1, Documents DEF Exists
    <3>2. friendship'[p] = [friendship[p] EXCEPT !.status = "accepted"]
      BY <1>1, <1>2, <1>5, <2>1
    <3>3. friendship'[p] \in Document /\ friendship'[p].id = friendship[p].id
      BY <3>1, <3>2 DEF Document
    <3>4. QED
      BY <1>3, <2>1, <3>3 DEF Exists, FriendDocument
  <2>2. CASE ~(friendship[p] # NoDocument /\ friendship[p].id = id)
    <3>1. friendship'[p] = friendship[p]
      BY <1>1, <1>2, <1>5, <2>2
    <3>2. QED
      BY <1>2, <1>5, <3>1 DEF Exists
  <2>3. QED
    BY <2>1, <2>2
<1>8. friendship' \in [Pairs -> FriendDocument]
  BY <1>1, <1>5, <1>6, <1>7
<1>9. ASSUME NEW q \in Pairs, friendship'[q] # NoDocument
      PROVE  Exists(q) /\ friendship'[q].id = friendship[q].id
  BY <1>6, <1>7, <1>9 DEF Exists
<1>10. IdsUnique' /\ RemovalsStand'
  BY <1>1, <1>9 DEF IdsUnique, RemovalsStand, FriendInvariant, Exists
<1>11. FriendsAgreed'
  <2>1. FriendsAgreed
    BY DEF FriendInvariant
  <2>2. ASSUME NEW q \in Pairs, friendship'[q].status = "accepted"
        PROVE  friendship'[q].id \in agreed'
    <3>1. agreed' = agreed
      BY <1>1
    <3>2. friendship'[q] = friendship[q] \/ friendship'[q].id \in agreed
      BY <1>6, <1>7
    <3>3. QED
      BY <2>1, <2>2, <3>1, <3>2 DEF FriendsAgreed
  <2>3. QED
    BY <2>2 DEF FriendsAgreed
<1>12. TypeOK'
  BY <1>1, <1>4, <1>8, <1>10, FriendTypes, FriendTypeParts
<1>13. QED
  BY <1>4, <1>10, <1>11, <1>12 DEF FriendInvariant

\* No other document has the _id of one that is removed.
LEMMA RemoveKeeps ==
    ASSUME FriendInvariant, NEW p \in Pairs, Remove(p)
    PROVE  FriendInvariant'
<1> DEFINE i == Swapped(p)
           removed == {friendship[q].id : q \in {x \in {p, i} : Exists(x)}}
<1>1. /\ UNCHANGED <<lastId, request, agreed>> /\ TypeOK
      /\ friendship' = [friendship EXCEPT ![p] = NoDocument, ![i] = NoDocument]
      /\ withdrawn' = withdrawn \cup removed
  BY DEF Remove, FriendInvariant
<1>2. i \in Pairs
  BY SwappedPair
<1>3. friendship \in [Pairs -> FriendDocument]
  BY <1>1, FriendTypes
<1>4. \A q \in Pairs : friendship'[q] = IF q \in {p, i} THEN NoDocument ELSE friendship[q]
  BY <1>1, <1>3
<1>5. friendship' \in [Pairs -> FriendDocument]
  BY <1>1, <1>3 DEF FriendDocument
<1>6. /\ \A q \in Pairs : Exists(q) => friendship[q].id \in 1..lastId
      /\ \A q, x \in Pairs :
            Exists(q) /\ Exists(x) /\ friendship[q].id = friendship[x].id => q = x
  BY DEF FriendInvariant, IdsUnique
<1>7. removed \subseteq 1..lastId
  BY <1>2, <1>6
<1>8. \A q \in Pairs : Exists(q) /\ friendship[q].id \in removed => q \in {p, i}
  BY <1>2, <1>6
<1> HIDE DEF i, removed
<1>9. ASSUME NEW q \in Pairs, friendship'[q] # NoDocument
      PROVE  Exists(q) /\ friendship'[q] = friendship[q] /\ q \notin {p, i}
  BY <1>4, <1>9 DEF Exists
<1>10. IdsUnique'
  BY <1>1, <1>6, <1>9 DEF IdsUnique, Exists
<1>11. RemovalsStand'
  <2>1. RemovalsStand
    BY DEF FriendInvariant
  <2>2. ASSUME NEW q \in Pairs, friendship'[q] # NoDocument
        PROVE  friendship'[q].id \notin withdrawn'
    <3>1. Exists(q) /\ friendship'[q] = friendship[q] /\ q \notin {p, i}
      BY <1>9, <2>2
    <3>2. friendship[q].id \notin withdrawn /\ friendship[q].id \notin removed
      BY <1>8, <2>1, <3>1 DEF RemovalsStand
    <3>3. withdrawn' = withdrawn \cup removed
      BY <1>1
    <3>4. QED
      BY <3>1, <3>2, <3>3
  <2>3. QED
    BY <2>2 DEF RemovalsStand, Exists
<1>12. FriendsAgreed'
  <2>1. FriendsAgreed
    BY DEF FriendInvariant
  <2>2. ASSUME NEW q \in Pairs, friendship'[q].status = "accepted"
        PROVE  friendship'[q].id \in agreed'
    <3>1. friendship'[q] # NoDocument
      BY <2>2 DEF NoDocument
    <3>2. friendship'[q] = friendship[q]
      BY <1>9, <3>1
    <3>3. agreed' = agreed
      BY <1>1
    <3>4. QED
      BY <2>1, <2>2, <3>2, <3>3 DEF FriendsAgreed
  <2>3. QED
    BY <2>2 DEF FriendsAgreed
<1>13. SavesAgreed'
  BY <1>1 DEF SavesAgreed, FriendInvariant
<1>14. withdrawn' \subseteq 1..lastId
  BY <1>1, <1>7, FriendTypes
<1>15. TypeOK'
  BY <1>1, <1>5, <1>10, <1>14, FriendTypes, FriendTypeParts
<1>16. QED
  BY <1>10, <1>11, <1>12, <1>13, <1>15 DEF FriendInvariant

LEMMA FriendKept ==
    ASSUME FriendInvariant, UNCHANGED vars
    PROVE  FriendInvariant'
  BY DEF vars, FriendInvariant, TypeOK, IdsUnique, SavesAgreed, FriendsAgreed, RemovalsStand,
         Exists

LEMMA FriendInit == Init => FriendInvariant
<1> SUFFICES ASSUME Init PROVE FriendInvariant
  OBVIOUS
<1>1. \A p \in Pairs : friendship[p] = NoDocument /\ friendship[p].status = "none"
  BY DEF Init, NoDocument
<1>2. IdsUnique /\ RemovalsStand /\ FriendsAgreed
  BY <1>1 DEF IdsUnique, RemovalsStand, FriendsAgreed, Exists
<1>3. SavesAgreed
  BY DEF Init, SavesAgreed, Idle
<1>4. TypeOK
  BY FriendshipsAssumption DEF Init, TypeOK
<1>5. QED
  BY <1>2, <1>3, <1>4 DEF FriendInvariant

LEMMA FriendStepKeeps ==
    ASSUME FriendInvariant, FriendStep
    PROVE  FriendInvariant'
  BY SendKeeps, AcceptKeeps, InsertKeeps, SaveKeeps, RemoveKeeps DEF FriendStep

\* An accepted document is not replaced: an insertion finds it, an acceptance
\* leaves it accepted, and whoever deletes it withdraws its _id.
LEMMA AcceptedStays ==
    ASSUME FriendInvariant, FriendStep, NEW p \in Pairs, friendship[p].status = "accepted"
    PROVE  friendship'[p] = friendship[p] \/ friendship[p].id \in withdrawn'
<1>1. TypeOK /\ Exists(p) /\ friendship \in [Pairs -> FriendDocument]
  BY Documents, FriendTypes DEF FriendInvariant
<1>2. CASE \E r \in Requests, q \in Pairs : Send(r, q) \/ Accept(r, q)
  BY <1>2 DEF Send, Accept
<1>3. CASE \E r \in Requests : Insert(r)
  <2>1. PICK r \in Requests : Insert(r)
    BY <1>3
  <2>2. CASE request[r].pair = p
    BY <1>1, <2>1, <2>2 DEF Insert
  <2>3. CASE request[r].pair # p
    BY <1>1, <2>1, <2>3 DEF Insert
  <2>4. QED
    BY <2>2, <2>3
<1>4. CASE \E r \in Requests : SaveAccepted(r)
  <2>1. PICK r \in Requests : SaveAccepted(r)
    BY <1>4
  <2>2. friendship'[p] \in {friendship[p], [friendship[p] EXCEPT !.status = "accepted"]}
    BY <1>1, <2>1 DEF SaveAccepted
  <2>3. friendship[p] \in Document
    BY <1>1, Documents
  <2>4. [friendship[p] EXCEPT !.status = "accepted"] = friendship[p]
    BY <2>3 DEF Document
  <2>5. QED
    BY <2>2, <2>4
<1>5. CASE \E q \in Pairs : Remove(q)
  <2>1. PICK q \in Pairs : Remove(q)
    BY <1>5
  <2>2. CASE p \in {q, Swapped(q)}
    BY <1>1, <2>1, <2>2 DEF Remove
  <2>3. CASE p \notin {q, Swapped(q)}
    BY <1>1, <2>1, <2>3 DEF Remove
  <2>4. QED
    BY <2>2, <2>3
<1>6. QED
  BY <1>2, <1>3, <1>4, <1>5 DEF FriendStep

LEMMA FriendInvariance == ServiceSpec => []FriendInvariant
<1>1. ServiceInit => FriendInvariant
  BY FriendInit DEF ServiceInit
<1>2. FriendInvariant /\ [ServiceNext]_serviceVars => FriendInvariant'
  BY FriendStepKeeps, FriendKept DEF ServiceNext, serviceVars
<1>3. QED
  BY <1>1, <1>2, PTL DEF ServiceSpec

\* Nobody is a friend of someone whose request he did not accept: who saves an
\* acceptance was asked to, and the _id he saves by is not of another request.
THEOREM ServiceFriendsAgreed == ServiceSpec => []FriendsAgreed
<1>1. FriendInvariant => FriendsAgreed
  BY DEF FriendInvariant
<1>2. QED
  BY <1>1, FriendInvariance, PTL

\* What was removed stays removed: a save does not bring back a document whose
\* _id is gone, and a new request has a new one.
THEOREM ServiceRemovalsStand == ServiceSpec => []RemovalsStand
<1>1. FriendInvariant => RemovalsStand
  BY DEF FriendInvariant
<1>2. QED
  BY <1>1, FriendInvariance, PTL

\* An accepted document stays as it is until one of the two removes it.
THEOREM ServiceFriendsStay == ServiceSpec => FriendsStay
<1>1. FriendInvariant /\ [ServiceNext]_serviceVars =>
          [\A p \in Pairs : friendship[p].status = "accepted" =>
              \/ friendship'[p] = friendship[p]
              \/ friendship[p].id \in withdrawn']_vars
  BY AcceptedStays DEF ServiceNext, serviceVars
<1>2. QED
  BY <1>1, FriendInvariance, PTL DEF ServiceSpec, FriendsStay

-----------------------------------------------------------------------------
(* Accounts *)

CreateEdit == [kind: {"create"}, user: Users, email: Emails, username: Usernames]

ProfileEdit == [kind: {"profile"}, user: Users, username: Usernames]

EmailEdit == [kind: {"email"}, user: Users, email: Emails, tokenVersion: 0..(MaxChanges - 1)]

PasswordEdit == [kind: {"password"}, user: Users, tokenVersion: 0..(MaxChanges - 1)]

WatchlistEdit == [kind: {"watchlist"}, user: Users, version: 0..MaxVersion,
                  watchlist: SUBSET Symbols, add: SUBSET Symbols, remove: SUBSET Symbols]

AccountEdit ==
    {Accounts!Idle} \cup CreateEdit \cup ProfileEdit \cup EmailEdit \cup PasswordEdit
        \cup WatchlistEdit

\* A watchlist to be saved is the edit of the one in the document, as long as
\* that has the version it was read with; no later version is that one again.
ListCurrent(q) ==
    LET d == users[q.user]
    IN  /\ Cardinality(q.watchlist) <= MaxWatchlist
        /\ q.version <= d.version
        /\ q.version = d.version => q.watchlist = (d.watchlist \cup q.add) \ q.remove

EditFits(q) ==
    /\ q.kind \in {"profile", "email", "password", "watchlist"} =>
           q.user \in Accounts!Registered
    /\ q.kind = "watchlist" => ListCurrent(q)

EditsFit == edit \in [Requests -> AccountEdit] /\ \A r \in Requests : EditFits(edit[r])

\* A token is not ahead of the document it was signed for, and behind it once
\* email, password or role changed, as long as no change was overwritten.
TokenBehind ==
    token # Accounts!NoToken /\ token.user \notin lost =>
        /\ token.user \in Accounts!Registered
        /\ token.tokenVersion <= users[token.user].tokenVersion
        /\ token.outdated => token.tokenVersion < users[token.user].tokenVersion

AccountInvariant == Accounts!TypeOK /\ EditsFit /\ NamesUnique /\ TokenBehind

AccountDocument == Accounts!User \cup {Accounts!NoUser}

SmallList(list) == Cardinality(list) <= MaxWatchlist

ListsSmall == \A u \in Accounts!Registered : SmallList(users[u].watchlist)

\* The provers take the Cardinality that UserAccounts extends for another one.
LEMMA SameCardinality == \A S : Accounts!Cardinality(S) = Cardinality(S)
  BY DEF Accounts!Cardinality, Cardinality

LEMMA AccountTypes ==
    ASSUME Accounts!TypeOK
    PROVE  /\ users \in [Users -> AccountDocument] /\ ListsSmall
           /\ token \in Accounts!Token \cup {Accounts!NoToken} /\ lost \subseteq Users
           /\ MaxWatchlist \in Nat /\ MaxVersion \in Nat /\ MaxChanges \in Nat
  BY UsersServiceAssumption, SameCardinality
  DEF Accounts!TypeOK, Accounts!Registered, AccountDocument, ListsSmall, SmallList

LEMMA AccountTypeParts ==
    ASSUME users' \in [Users -> AccountDocument], ListsSmall', EditsFit',
           token' \in Accounts!Token \cup {Accounts!NoToken}, lost' \subseteq Users
    PROVE  Accounts!TypeOK'
<1>1. \A u \in Users : users'[u] # Accounts!NoUser => Cardinality(users'[u].watchlist) <= MaxWatchlist
  BY DEF ListsSmall, SmallList, Accounts!Registered
<1>2. ASSUME NEW r \in Requests
      PROVE  edit'[r].kind \in {"idle", "create", "profile", "email", "password", "watchlist"}
  <2>1. edit'[r] \in AccountEdit
    BY DEF EditsFit
  <2>2. QED
    BY <2>1 DEF AccountEdit, CreateEdit, ProfileEdit, EmailEdit, PasswordEdit, WatchlistEdit,
                Accounts!Idle
<1>3. QED
  BY <1>1, <1>2, SameCardinality DEF Accounts!TypeOK, AccountDocument

LEMMA AccountDocuments ==
    ASSUME Accounts!TypeOK, NEW u \in Users
    PROVE  u \in Accounts!Registered <=> users[u] \in Accounts!User
<1>1. users[u] \in AccountDocument
  BY AccountTypes
<1>2. Accounts!NoUser \notin Accounts!User
  <2>1. ASSUME Accounts!NoUser \in Accounts!User
        PROVE  FALSE
    <3>1. Accounts!NoUser.version \in 0..MaxVersion
      BY <2>1 DEF Accounts!User
    <3>2. Accounts!NoUser.version = -1
      BY DEF Accounts!NoUser
    <3>3. QED
      BY <3>1, <3>2, UsersServiceAssumption
  <2>2. QED
    BY <2>1
<1>3. QED
  BY <1>1, <1>2 DEF AccountDocument, Accounts!Registered

LEMMA EditKinds ==
    ASSUME AccountInvariant, NEW r \in Requests
    PROVE  /\ edit[r].kind = "create" => edit[r] \in CreateEdit
           /\ edit[r].kind = "profile" => edit[r] \in ProfileEdit
           /\ edit[r].kind = "email" => edit[r] \in EmailEdit
           /\ edit[r].kind = "password" => edit[r] \in PasswordEdit
           /\ edit[r].kind = "watchlist" => edit[r] \in WatchlistEdit
           /\ EditFits(edit[r])
<1>1. edit[r] \in AccountEdit /\ EditFits(edit[r])
  BY DEF AccountInvariant, EditsFit
<1>2. QED
  BY <1>1 DEF AccountEdit, CreateEdit, ProfileEdit, EmailEdit, PasswordEdit, WatchlistEdit,
              Accounts!Idle

\* A handler that reads and checks leaves the documents alone.
LEMMA OpenKeeps ==
    ASSUME AccountInvariant, NEW r \in Requests, NEW q \in AccountEdit, EditFits(q),
           UNCHANGED <<users, token, lost>>, edit' = [edit EXCEPT ![r] = q]
    PROVE  AccountInvariant'
<1>1. Accounts!TypeOK /\ EditsFit /\ NamesUnique /\ TokenBehind
  BY DEF AccountInvariant
<1>2. edit' \in [Requests -> AccountEdit]
  BY <1>1 DEF EditsFit
<1>3. ASSUME NEW x \in Requests
      PROVE  EditFits(edit[x])'
  <2>1. EditFits(edit'[x])
    BY <1>1 DEF EditsFit
  <2>2. QED
    BY <2>1 DEF EditFits, ListCurrent, Accounts!Registered
<1>4. EditsFit'
  BY <1>2, <1>3 DEF EditsFit
<1>5. NamesUnique' /\ TokenBehind'
  BY <1>1 DEF NamesUnique, Accounts!NamesUnique, TokenBehind, Accounts!Registered
<1>6. Accounts!TypeOK'
  BY <1>1, <1>4, AccountTypes, AccountTypeParts DEF ListsSmall, Accounts!Registered
<1>7. QED
  BY <1>4, <1>5, <1>6 DEF AccountInvariant

LEMMA StartKeeps ==
    ASSUME AccountInvariant, NEW r \in Requests, Accounts!Start(r)
    PROVE  AccountInvariant'
<1>1. Accounts!TypeOK /\ MaxChanges \in Nat /\ MaxVersion \in Nat
  BY AccountTypes DEF AccountInvariant
<1>2. \A u \in Accounts!Registered : u \in Users /\ users[u] \in Accounts!User
  BY <1>1, AccountDocuments DEF Accounts!Registered
<1>3. UNCHANGED <<users, token, lost>>
  BY DEF Accounts!Start, Accounts!Create, Accounts!UpdateProfile, Accounts!ChangeEmail,
         Accounts!ChangePassword, Accounts!EditWatchlist
<1>4. \E q \in AccountEdit : EditFits(q) /\ edit' = [edit EXCEPT ![r] = q]
  <2>1. CASE \E u \in Users, e \in Emails, n \in Usernames : Accounts!Create(r, u, e, n)
    <3>1. PICK u \in Users, e \in Emails, n \in Usernames : Accounts!Create(r, u, e, n)
      BY <2>1
    <3> DEFINE q == [kind |-> "create", user |-> u, email |-> e, username |-> n]
    <3>2. q \in AccountEdit /\ q.kind = "create"
      BY DEF AccountEdit, CreateEdit
    <3>3. edit' = [edit EXCEPT ![r] = q]
      BY <3>1 DEF Accounts!Create, Accounts!Open
    <3> HIDE DEF q
    <3>4. EditFits(q)
      BY <3>2 DEF EditFits
    <3>5. QED
      BY <3>2, <3>3, <3>4
  <2>2. CASE \E u \in Users, n \in Usernames : Accounts!UpdateProfile(r, u, n)
    <3>1. PICK u \in Users, n \in Usernames : Accounts!UpdateProfile(r, u, n)
      BY <2>2
    <3> DEFINE q == [kind |-> "profile", user |-> u, username |-> n]
    <3>2. q \in AccountEdit /\ q.kind = "profile" /\ q.user = u
      BY DEF AccountEdit, ProfileEdit
    <3>3. edit' = [edit EXCEPT ![r] = q] /\ u \in Accounts!Registered
      BY <3>1 DEF Accounts!UpdateProfile, Accounts!Open
    <3> HIDE DEF q
    <3>4. EditFits(q)
      BY <3>2, <3>3 DEF EditFits
    <3>5. QED
      BY <3>2, <3>3, <3>4
  <2>3. CASE \E u \in Users, e \in Emails : Accounts!ChangeEmail(r, u, e)
    <3>1. PICK u \in Users, e \in Emails : Accounts!ChangeEmail(r, u, e)
      BY <2>3
    <3> DEFINE q == [kind |-> "email", user |-> u, email |-> e,
                     tokenVersion |-> users[u].tokenVersion]
    <3>2. /\ edit' = [edit EXCEPT ![r] = q] /\ u \in Accounts!Registered
          /\ users[u].tokenVersion < MaxChanges
      BY <3>1 DEF Accounts!ChangeEmail, Accounts!Open
    <3>3. users[u].tokenVersion \in 0..(MaxChanges - 1)
      BY <1>1, <1>2, <3>2 DEF Accounts!User
    <3>4. q \in AccountEdit /\ q.kind = "email" /\ q.user = u
      BY <3>3 DEF AccountEdit, EmailEdit
    <3> HIDE DEF q
    <3>5. EditFits(q)
      BY <3>2, <3>4 DEF EditFits
    <3>6. QED
      BY <3>2, <3>4, <3>5
  <2>4. CASE \E u \in Users : Accounts!ChangePassword(r, u)
    <3>1. PICK u \in Users : Accounts!ChangePassword(r, u)
      BY <2>4
    <3> DEFINE q == [kind |-> "password", user |-> u, tokenVersion |-> users[u].tokenVersion]
    <3>2. /\ edit' = [edit EXCEPT ![r] = q] /\ u \in Accounts!Registered
          /\ users[u].tokenVersion < MaxChanges
      BY <3>1 DEF Accounts!ChangePassword, Accounts!Open
    <3>3. users[u].tokenVersion \in 0..(MaxChanges - 1)
      BY <1>1, <1>2, <3>2 DEF Accounts!User
    <3>4. q \in AccountEdit /\ q.kind = "password" /\ q.user = u
      BY <3>3 DEF AccountEdit, PasswordEdit
    <3> HIDE DEF q
    <3>5. EditFits(q)
      BY <3>2, <3>4 DEF EditFits
    <3>6. QED
      BY <3>2, <3>4, <3>5
  <2>5. CASE \E u \in Users, add \in SUBSET Symbols, remove \in SUBSET Symbols :
                 Accounts!EditWatchlist(r, u, add, remove)
    <3>1. PICK u \in Users, add \in SUBSET Symbols, remove \in SUBSET Symbols :
              Accounts!EditWatchlist(r, u, add, remove)
      BY <2>5
    <3> DEFINE new == (users[u].watchlist \cup add) \ remove
               q == [kind |-> "watchlist", user |-> u, version |-> users[u].version,
                     watchlist |-> new, add |-> add, remove |-> remove]
    <3>2. /\ edit' = [edit EXCEPT ![r] = q] /\ u \in Accounts!Registered
          /\ Cardinality(new) <= MaxWatchlist
      BY <3>1, SameCardinality DEF Accounts!EditWatchlist, Accounts!Open
    <3>3. users[u].version \in 0..MaxVersion /\ users[u].watchlist \in SUBSET Symbols
      BY <1>2, <3>2 DEF Accounts!User
    <3>4. new \in SUBSET Symbols
      BY <3>3
    <3> HIDE DEF new
    <3>5. q \in AccountEdit /\ q.kind = "watchlist"
      BY <3>3, <3>4 DEF AccountEdit, WatchlistEdit
    <3>6. /\ q.user = u /\ q.version = users[u].version /\ q.watchlist = new
          /\ q.add = add /\ q.remove = remove
      OBVIOUS
    <3> HIDE DEF q
    <3>7. users[u].version <= users[u].version
      BY <1>1, <3>3
    <3>8. ListCurrent(q)
      BY <3>2, <3>6, <3>7 DEF ListCurrent, new
    <3>9. EditFits(q)
      BY <3>2, <3>6, <3>8 DEF EditFits
    <3>10. QED
      BY <3>2, <3>5, <3>9
  <2>6. QED
    <3>1. \A s \in Symbols : {s} \in SUBSET Symbols /\ {} \in SUBSET Symbols
      OBVIOUS
    <3>2. QED
      BY <2>1, <2>2, <2>3, <2>4, <2>5, <3>1 DEF Accounts!Start
<1>5. QED
  BY <1>3, <1>4, OpenKeeps

\* The requests are open as before, or done.
EditsClosed ==
    /\ edit' \in [Requests -> AccountEdit]
    /\ \A r \in Requests : edit'[r] = edit[r] \/ edit'[r] = Accounts!Idle

\* The document of u is now d, whose names are free, and whose list is the one
\* it was or has a later version.
Saved(u, d) ==
    /\ users' = [users EXCEPT ![u] = d]
    /\ SmallList(d.watchlist)
    /\ u \in Accounts!Registered =>
           \/ users[u].version < d.version
           \/ d.version = users[u].version /\ d.watchlist = users[u].watchlist
    /\ \A v \in Accounts!Registered \ {u} :
           users[v].email # d.email /\ users[v].username # d.username

LEMMA CloseEdit ==
    ASSUME AccountInvariant, NEW r \in Requests, Accounts!Close(r)
    PROVE  EditsClosed
<1>1. edit \in [Requests -> AccountEdit]
  BY DEF AccountInvariant, EditsFit
<1>2. Accounts!Idle \in AccountEdit
  BY DEF AccountEdit
<1>3. QED
  BY <1>1, <1>2 DEF EditsClosed, Accounts!Close

LEMMA NothingSaved ==
    ASSUME AccountInvariant, EditsClosed, UNCHANGED <<users, token, lost>>
    PROVE  AccountInvariant'
<1>1. Accounts!TypeOK /\ EditsFit /\ NamesUnique /\ TokenBehind
  BY DEF AccountInvariant
<1>2. ASSUME NEW r \in Requests
      PROVE  EditFits(edit[r])'
  <2>1. EditFits(edit'[r])
    BY <1>1 DEF EditsFit, EditsClosed, EditFits, Accounts!Idle
  <2>2. QED
    BY <2>1 DEF EditFits, ListCurrent, Accounts!Registered
<1>3. EditsFit'
  BY <1>2 DEF EditsFit, EditsClosed
<1>4. NamesUnique' /\ TokenBehind'
  BY <1>1 DEF NamesUnique, Accounts!NamesUnique, TokenBehind, Accounts!Registered
<1>5. Accounts!TypeOK'
  BY <1>1, <1>3, AccountTypes, AccountTypeParts DEF ListsSmall, Accounts!Registered
<1>6. QED
  BY <1>3, <1>4, <1>5 DEF AccountInvariant

LEMMA SavedDocument ==
    ASSUME AccountInvariant, EditsClosed, NEW u \in Users, NEW d \in Accounts!User, Saved(u, d)
    PROVE  /\ users' \in [Users -> AccountDocument] /\ ListsSmall'
           /\ Accounts!Registered' = Accounts!Registered \cup {u}
           /\ users'[u] = d /\ \A v \in Users \ {u} : users'[v] = users[v]
           /\ EditsFit' /\ NamesUnique'
<1>1. Accounts!TypeOK /\ EditsFit /\ NamesUnique
  BY DEF AccountInvariant
<1>2. users \in [Users -> AccountDocument] /\ ListsSmall
  BY <1>1, AccountTypes
<1>3. users'[u] = d /\ \A v \in Users \ {u} : users'[v] = users[v]
  BY <1>2 DEF Saved
<1>4. users' \in [Users -> AccountDocument]
  BY <1>2 DEF Saved, AccountDocument
<1>5. \A v \in Accounts!Registered : users[v] \in Accounts!User
  BY <1>1, AccountDocuments DEF Accounts!Registered
<1>6. d # Accounts!NoUser
  <2>1. d.version \in 0..MaxVersion
    BY DEF Accounts!User
  <2>2. Accounts!NoUser.version = -1 /\ -1 \notin 0..MaxVersion
    BY UsersServiceAssumption DEF Accounts!NoUser
  <2>3. QED
    BY <2>1, <2>2
<1>7. \A v \in Users : v \in Accounts!Registered' <=> v \in Accounts!Registered \/ v = u
  BY <1>3, <1>6 DEF Accounts!Registered
<1>8. Accounts!Registered' = Accounts!Registered \cup {u}
  BY <1>7 DEF Accounts!Registered
<1>9. ASSUME NEW v \in Accounts!Registered'
      PROVE  SmallList(users'[v].watchlist)
  <2>1. CASE v = u
    BY <1>3, <2>1 DEF Saved
  <2>2. CASE v # u
    <3>1. v \in Accounts!Registered /\ v \in Users
      BY <1>8, <1>9, <2>2 DEF Accounts!Registered
    <3>2. QED
      BY <1>2, <1>3, <2>2, <3>1 DEF ListsSmall
  <2>3. QED
    BY <2>1, <2>2
<1>10. ListsSmall'
  BY <1>9 DEF ListsSmall, SmallList
<1>11. ASSUME NEW r \in Requests
       PROVE  EditFits(edit[r])'
  <2>1. EditFits(edit'[r])
    BY <1>1 DEF EditsFit, EditsClosed, EditFits, Accounts!Idle
  <2>2. edit'[r].kind \in {"profile", "email", "password", "watchlist"} =>
            edit'[r].user \in Accounts!Registered'
    BY <1>8, <2>1 DEF EditFits
  <2>3. ASSUME edit'[r].kind = "watchlist"
        PROVE  ListCurrent(edit[r])'
    <3>1. edit'[r] \in WatchlistEdit /\ edit'[r] = edit[r]
      BY <1>1, <2>3, EditKinds DEF EditsClosed, Accounts!Idle
    <3> DEFINE q == edit[r]
    <3>2. ListCurrent(q) /\ q.user \in Accounts!Registered /\ q.version \in 0..MaxVersion
      BY <2>1, <2>3, <3>1 DEF EditFits, WatchlistEdit
    <3>3. q.user \in Users /\ users[q.user] \in Accounts!User
      BY <1>5, <3>2 DEF Accounts!Registered
    <3>4. users[q.user].version \in 0..MaxVersion /\ d.version \in 0..MaxVersion
      BY <3>3 DEF Accounts!User
    <3>5. /\ Cardinality(q.watchlist) <= MaxWatchlist
          /\ q.version <= users[q.user].version
          /\ q.version = users[q.user].version =>
                 q.watchlist = (users[q.user].watchlist \cup q.add) \ q.remove
      BY <3>2 DEF ListCurrent
    <3>6. \/ users[q.user].version < users'[q.user].version
          \/ /\ users'[q.user].version = users[q.user].version
             /\ users'[q.user].watchlist = users[q.user].watchlist
      <4>1. CASE q.user = u
        BY <1>3, <3>2, <4>1 DEF Saved
      <4>2. CASE q.user # u
        BY <1>3, <3>3, <4>2
      <4>3. QED
        BY <4>1, <4>2
    <3>7. users'[q.user].version \in 0..MaxVersion
      BY <1>3, <3>3, <3>4
    <3>8. /\ q.version <= users'[q.user].version
          /\ q.version = users'[q.user].version =>
                 q.watchlist = (users'[q.user].watchlist \cup q.add) \ q.remove
      <4>1. q.version \in Int /\ users[q.user].version \in Int /\ users'[q.user].version \in Int
        BY <3>2, <3>4, <3>7
      <4> HIDE DEF q
      <4>2. CASE users[q.user].version < users'[q.user].version
        BY <3>5, <4>1, <4>2
      <4>3. CASE /\ users'[q.user].version = users[q.user].version
                 /\ users'[q.user].watchlist = users[q.user].watchlist
        BY <3>5, <4>3
      <4>4. QED
        BY <3>6, <4>2, <4>3
    <3>9. QED
      BY <3>1, <3>5, <3>8 DEF ListCurrent
  <2>4. QED
    BY <2>2, <2>3 DEF EditFits
<1>12. EditsFit'
  BY <1>11 DEF EditsFit, EditsClosed
<1>13. ASSUME NEW v \in Accounts!Registered', NEW w \in Accounts!Registered', v # w
       PROVE  users'[v].email # users'[w].email /\ users'[v].username # users'[w].username
  <2>1. /\ v \in Users /\ (v = u \/ v \in Accounts!Registered)
        /\ w \in Users /\ (w = u \/ w \in Accounts!Registered)
    BY <1>8, <1>13 DEF Accounts!Registered
  <2>2. CASE v = u \/ w = u
    BY <1>3, <1>13, <2>1, <2>2 DEF Saved, Accounts!Registered
  <2>3. CASE v # u /\ w # u
    BY <1>1, <1>3, <1>13, <2>1, <2>3
    DEF NamesUnique, Accounts!NamesUnique, Accounts!Registered
  <2>4. QED
    BY <2>2, <2>3
<1>14. NamesUnique'
  BY <1>13 DEF NamesUnique, Accounts!NamesUnique
<1>15. QED
  BY <1>3, <1>4, <1>8, <1>10, <1>12, <1>14

\* A change of the document that leaves the tokens accepted ...
TokensStay(u, d) ==
    /\ UNCHANGED token
    /\ u \in Accounts!Registered => d.tokenVersion = users[u].tokenVersion

\* ... and one that puts an end to them, unless it overwrites another.
TokensEnd(u, d) ==
    /\ Accounts!Outdate(u)
    /\ u \in Accounts!Registered
    /\ u \in lost' \/ d.tokenVersion = users[u].tokenVersion + 1

LEMMA SavedKeeps ==
    ASSUME AccountInvariant, EditsClosed, NEW u \in Users, NEW d \in Accounts!User, Saved(u, d),
           lost \subseteq lost', lost' \subseteq Users, TokensStay(u, d) \/ TokensEnd(u, d)
    PROVE  AccountInvariant'
<1>1. /\ users' \in [Users -> AccountDocument] /\ ListsSmall'
      /\ Accounts!Registered' = Accounts!Registered \cup {u}
      /\ users'[u] = d /\ \A v \in Users \ {u} : users'[v] = users[v]
      /\ EditsFit' /\ NamesUnique'
  BY SavedDocument
<1>2. Accounts!TypeOK /\ TokenBehind
  BY DEF AccountInvariant
<1>3. /\ token' = token \/ /\ token # Accounts!NoToken /\ token.user = u
                           /\ token' = [token EXCEPT !.outdated = TRUE]
      /\ token # Accounts!NoToken => token \in Accounts!Token
      /\ token \in Accounts!Token \cup {Accounts!NoToken}
  BY <1>2, AccountTypes DEF TokensStay, TokensEnd, Accounts!Outdate
<1>4. /\ token' \in Accounts!Token \cup {Accounts!NoToken}
      /\ token' # Accounts!NoToken =>
             /\ token # Accounts!NoToken /\ token'.user = token.user
             /\ token'.tokenVersion = token.tokenVersion
  BY <1>3 DEF Accounts!Token
<1>5. ASSUME token' # Accounts!NoToken, token'.user \notin lost'
      PROVE  /\ token'.user \in Accounts!Registered'
             /\ token'.tokenVersion <= users'[token'.user].tokenVersion
             /\ token'.outdated => token'.tokenVersion < users'[token'.user].tokenVersion
  <2> DEFINE v == token.user
  <2>1. token # Accounts!NoToken /\ token'.user = v /\ token'.tokenVersion = token.tokenVersion
    BY <1>4, <1>5
  <2>2. v \notin lost /\ token \in Accounts!Token
    BY <1>3, <1>5, <2>1
  <2>3. /\ v \in Accounts!Registered /\ v \in Users
        /\ token.tokenVersion <= users[v].tokenVersion
        /\ token.outdated => token.tokenVersion < users[v].tokenVersion
    BY <1>2, <2>1, <2>2 DEF TokenBehind, Accounts!Registered
  <2>4. users[v] \in Accounts!User
    BY <1>2, <2>3, AccountDocuments
  <2>5. /\ token.tokenVersion \in Nat /\ users[v].tokenVersion \in Nat
        /\ d.tokenVersion \in Nat
    BY <2>2, <2>4 DEF Accounts!Token, Accounts!User
  <2>6. CASE v = u
    <3>1. users'[token'.user] = d
      BY <1>1, <2>1, <2>6
    <3>2. CASE TokensStay(u, d)
      BY <1>1, <2>1, <2>3, <2>6, <3>1, <3>2 DEF TokensStay
    <3>3. CASE TokensEnd(u, d)
      <4>1. d.tokenVersion = users[v].tokenVersion + 1
        BY <1>5, <2>1, <2>6, <3>3 DEF TokensEnd
      <4>2. token.tokenVersion < d.tokenVersion /\ token.tokenVersion <= d.tokenVersion
        BY <2>3, <2>5, <4>1
      <4>3. QED
        BY <1>1, <2>1, <2>3, <3>1, <4>2
    <3>4. QED
      BY <3>2, <3>3
  <2>7. CASE v # u
    <3>1. token' = token
      BY <1>3, <2>7
    <3>2. users'[token'.user] = users[v]
      BY <1>1, <2>1, <2>3, <2>7
    <3>3. QED
      BY <1>1, <2>1, <2>3, <3>1, <3>2
  <2>8. QED
    BY <2>6, <2>7
<1>6. TokenBehind'
  BY <1>5 DEF TokenBehind
<1>7. Accounts!TypeOK'
  BY <1>1, <1>4, AccountTypeParts
<1>8. QED
  BY <1>1, <1>6, <1>7 DEF AccountInvariant

LEMMA LoginKeeps ==
    ASSUME AccountInvariant, NEW u \in Users, Accounts!Login(u)
    PROVE  AccountInvariant'
<1>1. Accounts!TypeOK /\ EditsFit /\ NamesUnique
  BY DEF AccountInvariant
<1>2. /\ UNCHANGED <<users, edit, lost>> /\ u \in Accounts!Registered
      /\ token' = [user |-> u, tokenVersion |-> users[u].tokenVersion, outdated |-> FALSE]
  BY DEF Accounts!Login
<1>3. users[u].tokenVersion \in 0..MaxChanges /\ users[u].tokenVersion <= users[u].tokenVersion
  BY <1>1, <1>2, AccountDocuments, AccountTypes DEF Accounts!User
<1>4. token' \in Accounts!Token
  BY <1>2, <1>3 DEF Accounts!Token
<1>5. TokenBehind'
  BY <1>2, <1>3 DEF TokenBehind, Accounts!Registered
<1>6. EditsFit' /\ NamesUnique'
  BY <1>1, <1>2 DEF EditsFit, EditFits, ListCurrent, NamesUnique, Accounts!NamesUnique,
                    Accounts!Registered
<1>7. Accounts!TypeOK'
  BY <1>1, <1>2, <1>4, <1>6, AccountTypes, AccountTypeParts DEF ListsSmall, Accounts!Registered
<1>8. QED
  BY <1>5, <1>6, <1>7 DEF AccountInvariant

-----------------------------------------------------------------------------
(* The saves *)

LEMMA SaveCreatedKeeps ==
    ASSUME AccountInvariant, NEW r \in Requests, Accounts!SaveCreated(r)
    PROVE  AccountInvariant'
<1> DEFINE q == edit[r]
           d == [email |-> q.email, username |-> q.username, watchlist |-> {}, version |-> 0,
                 tokenVersion |-> 0]
<1>1. EditsClosed /\ UNCHANGED <<token, lost>>
  BY CloseEdit DEF Accounts!SaveCreated
<1>2. q \in CreateEdit
  BY EditKinds DEF Accounts!SaveCreated
<1>3. Accounts!TypeOK
  BY DEF AccountInvariant
<1>4. CASE q.user \notin Accounts!Registered /\ Accounts!Unique(q.user, q.email, q.username)
  <2>1. users' = [users EXCEPT ![q.user] = d]
    BY <1>4 DEF Accounts!SaveCreated
  <2>2. d \in Accounts!User /\ q.user \in Users
    BY <1>2, <1>3, AccountTypes DEF Accounts!User, CreateEdit
  <2>3. SmallList(d.watchlist)
    BY <1>3, AccountTypes, FS_EmptySet DEF SmallList
  <2>4. \A v \in Accounts!Registered \ {q.user} :
            users[v].email # d.email /\ users[v].username # d.username
    BY <1>4 DEF Accounts!Unique, Accounts!TakenBy
  <2>5. Saved(q.user, d) /\ TokensStay(q.user, d)
    BY <1>1, <1>4, <2>1, <2>3, <2>4 DEF Saved, TokensStay
  <2>6. lost \subseteq lost' /\ lost' \subseteq Users
    BY <1>1, <1>3, AccountTypes
  <2> HIDE DEF d, q
  <2>7. QED
    BY <1>1, <2>2, <2>5, <2>6, SavedKeeps
<1>5. CASE ~(q.user \notin Accounts!Registered /\ Accounts!Unique(q.user, q.email, q.username))
  <2>1. UNCHANGED users
    BY <1>5 DEF Accounts!SaveCreated
  <2>2. QED
    BY <1>1, <2>1, NothingSaved
<1>6. QED
  BY <1>4, <1>5

\* The document that a handler of a registered user edits.
LEMMA EditedDocument ==
    ASSUME AccountInvariant, NEW u \in Accounts!Registered
    PROVE  /\ u \in Users /\ users[u] \in Accounts!User /\ SmallList(users[u].watchlist)
           /\ \A v \in Accounts!Registered \ {u} :
                  users[v].email # users[u].email /\ users[v].username # users[u].username
           /\ users \in [Users -> AccountDocument] /\ lost \subseteq Users
           /\ MaxVersion \in Nat /\ MaxChanges \in Nat
<1>1. Accounts!TypeOK /\ NamesUnique /\ u \in Users
  BY DEF AccountInvariant, Accounts!Registered
<1>2. QED
  BY <1>1, AccountDocuments, AccountTypes DEF ListsSmall, NamesUnique, Accounts!NamesUnique

LEMMA SaveProfileKeeps ==
    ASSUME AccountInvariant, NEW r \in Requests, Accounts!SaveProfile(r)
    PROVE  AccountInvariant'
<1> DEFINE q == edit[r]
           u == q.user
           d == [users[u] EXCEPT !.username = q.username]
<1>1. EditsClosed /\ UNCHANGED <<token, lost>>
  BY CloseEdit DEF Accounts!SaveProfile
<1>2. q \in ProfileEdit /\ u \in Accounts!Registered
  BY EditKinds DEF Accounts!SaveProfile, EditFits
<1>3. /\ u \in Users /\ users[u] \in Accounts!User /\ SmallList(users[u].watchlist)
      /\ users \in [Users -> AccountDocument] /\ lost \subseteq Users
  BY <1>2, EditedDocument
<1>4. CASE Accounts!Unique(u, users[u].email, q.username)
  <2>1. users' = [users EXCEPT ![u] = d]
    BY <1>3, <1>4 DEF Accounts!SaveProfile
  <2>2. /\ d \in Accounts!User /\ d.watchlist = users[u].watchlist
        /\ d.version = users[u].version /\ d.tokenVersion = users[u].tokenVersion
        /\ d.email = users[u].email /\ d.username = q.username
    BY <1>2, <1>3 DEF Accounts!User, ProfileEdit
  <2> HIDE DEF d
  <2>3. \A v \in Accounts!Registered \ {u} :
            users[v].email # d.email /\ users[v].username # d.username
    BY <1>4, <2>2 DEF Accounts!Unique, Accounts!TakenBy
  <2>4. Saved(u, d) /\ TokensStay(u, d)
    BY <1>1, <1>3, <2>1, <2>2, <2>3 DEF Saved, TokensStay
  <2> HIDE DEF u
  <2>5. QED
    BY <1>1, <1>3, <2>2, <2>4, SavedKeeps
<1>5. CASE ~Accounts!Unique(u, users[u].email, q.username)
  <2>1. UNCHANGED users
    BY <1>5 DEF Accounts!SaveProfile
  <2>2. QED
    BY <1>1, <2>1, NothingSaved
<1>6. QED
  BY <1>4, <1>5

\* A change of email or password: the version that was read, plus one.
LEMMA LostChange ==
    ASSUME AccountInvariant, NEW q, NEW u \in Accounts!Registered, q.user = u,
           Accounts!LoseChange(q)
    PROVE  /\ lost \subseteq lost' /\ lost' \subseteq Users
           /\ u \in lost' \/ q.tokenVersion = users[u].tokenVersion
<1>1. lost \subseteq Users /\ u \in Users
  BY EditedDocument
<1>2. QED
  BY <1>1 DEF Accounts!LoseChange

LEMMA SaveEmailKeeps ==
    ASSUME AccountInvariant, NEW r \in Requests, Accounts!SaveEmail(r)
    PROVE  AccountInvariant'
<1> DEFINE q == edit[r]
           u == q.user
           d == [users[u] EXCEPT !.email = q.email, !.tokenVersion = q.tokenVersion + 1]
<1>1. EditsClosed
  BY CloseEdit DEF Accounts!SaveEmail
<1>2. q \in EmailEdit /\ u \in Accounts!Registered
  BY EditKinds DEF Accounts!SaveEmail, EditFits
<1>3. /\ u \in Users /\ users[u] \in Accounts!User /\ SmallList(users[u].watchlist)
      /\ users \in [Users -> AccountDocument] /\ MaxChanges \in Nat
  BY <1>2, EditedDocument
<1>4. CASE Accounts!Unique(u, q.email, users[u].username)
  <2>1. /\ users' = [users EXCEPT ![u].email = q.email, ![u].tokenVersion = q.tokenVersion + 1]
        /\ Accounts!LoseChange(q) /\ Accounts!Outdate(u)
    BY <1>4 DEF Accounts!SaveEmail
  <2>2. users' = [users EXCEPT ![u] = d]
    BY <1>3, <2>1
  <2>3. q.tokenVersion + 1 \in 0..MaxChanges
    BY <1>2, <1>3 DEF EmailEdit
  <2>4. /\ d \in Accounts!User /\ d.watchlist = users[u].watchlist
        /\ d.version = users[u].version /\ d.tokenVersion = q.tokenVersion + 1
        /\ d.email = q.email /\ d.username = users[u].username
    BY <1>2, <1>3, <2>3 DEF Accounts!User, EmailEdit
  <2> HIDE DEF d
  <2>5. \A v \in Accounts!Registered \ {u} :
            users[v].email # d.email /\ users[v].username # d.username
    BY <1>4, <2>4 DEF Accounts!Unique, Accounts!TakenBy
  <2>6. /\ lost \subseteq lost' /\ lost' \subseteq Users
        /\ u \in lost' \/ q.tokenVersion = users[u].tokenVersion
    BY <1>2, <2>1, LostChange
  <2>7. Saved(u, d) /\ TokensEnd(u, d)
    BY <1>2, <1>3, <2>1, <2>2, <2>4, <2>5, <2>6 DEF Saved, TokensEnd
  <2> HIDE DEF u
  <2>8. QED
    BY <1>1, <1>3, <2>4, <2>6, <2>7, SavedKeeps
<1>5. CASE ~Accounts!Unique(u, q.email, users[u].username)
  <2>1. UNCHANGED <<users, token, lost>>
    BY <1>5 DEF Accounts!SaveEmail
  <2>2. QED
    BY <1>1, <2>1, NothingSaved
<1>6. QED
  BY <1>4, <1>5

LEMMA SavePasswordKeeps ==
    ASSUME AccountInvariant, NEW r \in Requests, Accounts!SavePassword(r)
    PROVE  AccountInvariant'
<1> DEFINE q == edit[r]
           u == q.user
           d == [users[u] EXCEPT !.tokenVersion = q.tokenVersion + 1]
<1>1. EditsClosed
  BY CloseEdit DEF Accounts!SavePassword
<1>2. q \in PasswordEdit /\ u \in Accounts!Registered
  BY EditKinds DEF Accounts!SavePassword, EditFits
<1>3. /\ u \in Users /\ users[u] \in Accounts!User /\ SmallList(users[u].watchlist)
      /\ \A v \in Accounts!Registered \ {u} :
             users[v].email # users[u].email /\ users[v].username # users[u].username
      /\ users \in [Users -> AccountDocument] /\ MaxChanges \in Nat
  BY <1>2, EditedDocument
<1>4. /\ users' = [users EXCEPT ![u] = d]
      /\ Accounts!LoseChange(q) /\ Accounts!Outdate(u)
  BY <1>3 DEF Accounts!SavePassword
<1>5. q.tokenVersion + 1 \in 0..MaxChanges
  BY <1>2, <1>3 DEF PasswordEdit
<1>6. /\ d \in Accounts!User /\ d.watchlist = users[u].watchlist
      /\ d.version = users[u].version /\ d.tokenVersion = q.tokenVersion + 1
      /\ d.email = users[u].email /\ d.username = users[u].username
  BY <1>3, <1>5 DEF Accounts!User
<1> HIDE DEF d
<1>7. /\ lost \subseteq lost' /\ lost' \subseteq Users
      /\ u \in lost' \/ q.tokenVersion = users[u].tokenVersion
  BY <1>2, <1>4, LostChange
<1>8. Saved(u, d) /\ TokensEnd(u, d)
  BY <1>2, <1>3, <1>4, <1>6, <1>7 DEF Saved, TokensEnd
<1> HIDE DEF u
<1>9. QED
  BY <1>1, <1>3, <1>6, <1>7, <1>8, SavedKeeps

LEMMA SaveWatchlistKeeps ==
    ASSUME AccountInvariant, NEW r \in Requests, Accounts!SaveWatchlist(r)
    PROVE  AccountInvariant'
<1> DEFINE q == edit[r]
           u == q.user
           d == [users[u] EXCEPT !.watchlist = q.watchlist, !.version = users[u].version + 1]
<1>1. EditsClosed /\ UNCHANGED <<token, lost>>
  BY CloseEdit DEF Accounts!SaveWatchlist
<1>2. q \in WatchlistEdit /\ u \in Accounts!Registered /\ ListCurrent(q)
  BY EditKinds DEF Accounts!SaveWatchlist, EditFits
<1>3. /\ u \in Users /\ users[u] \in Accounts!User
      /\ \A v \in Accounts!Registered \ {u} :
             users[v].email # users[u].email /\ users[v].username # users[u].username
      /\ users \in [Users -> AccountDocument] /\ MaxVersion \in Nat /\ lost \subseteq Users
  BY <1>2, EditedDocument
<1>4. CASE users[u].version = q.version
  <2>1. /\ users[u].version < MaxVersion
        /\ users' = [users EXCEPT ![u].watchlist = q.watchlist,
                                  ![u].version = users[u].version + 1]
    BY <1>3, <1>4 DEF Accounts!SaveWatchlist
  <2>2. users' = [users EXCEPT ![u] = d]
    BY <1>3, <2>1
  <2>3. users[u].version \in 0..MaxVersion /\ users[u].version + 1 \in 0..MaxVersion
    BY <1>3, <2>1 DEF Accounts!User
  <2>4. /\ d \in Accounts!User /\ d.watchlist = q.watchlist
        /\ d.version = users[u].version + 1 /\ d.tokenVersion = users[u].tokenVersion
        /\ d.email = users[u].email /\ d.username = users[u].username
    BY <1>2, <1>3, <2>3 DEF Accounts!User, WatchlistEdit
  <2> HIDE DEF d
  <2>5. SmallList(d.watchlist) /\ users[u].version < d.version
    BY <1>2, <1>3, <2>3, <2>4 DEF SmallList, ListCurrent
  <2>6. Saved(u, d) /\ TokensStay(u, d)
    BY <1>1, <1>3, <2>2, <2>4, <2>5 DEF Saved, TokensStay
  <2> HIDE DEF u
  <2>7. QED
    BY <1>1, <1>3, <2>4, <2>6, SavedKeeps
<1>5. CASE users[u].version # q.version
  <2>1. UNCHANGED users
    BY <1>5 DEF Accounts!SaveWatchlist
  <2>2. QED
    BY <1>1, <2>1, NothingSaved
<1>6. QED
  BY <1>4, <1>5

LEMMA UpdateRoleKeeps ==
    ASSUME AccountInvariant, NEW u \in Users, Accounts!UpdateRole(u)
    PROVE  AccountInvariant'
<1> DEFINE d == [users[u] EXCEPT !.tokenVersion = users[u].tokenVersion + 1]
<1>1. EditsClosed /\ UNCHANGED <<edit, lost>> /\ u \in Accounts!Registered
  BY DEF Accounts!UpdateRole, AccountInvariant, EditsFit, EditsClosed
<1>2. /\ users[u] \in Accounts!User /\ SmallList(users[u].watchlist)
      /\ \A v \in Accounts!Registered \ {u} :
             users[v].email # users[u].email /\ users[v].username # users[u].username
      /\ users \in [Users -> AccountDocument] /\ MaxChanges \in Nat /\ lost \subseteq Users
  BY <1>1, EditedDocument
<1>3. /\ users[u].tokenVersion < MaxChanges /\ Accounts!Outdate(u)
      /\ users' = [users EXCEPT ![u] = d]
  BY <1>2 DEF Accounts!UpdateRole
<1>4. users[u].tokenVersion + 1 \in 0..MaxChanges
  BY <1>2, <1>3 DEF Accounts!User
<1>5. /\ d \in Accounts!User /\ d.watchlist = users[u].watchlist
      /\ d.version = users[u].version /\ d.tokenVersion = users[u].tokenVersion + 1
      /\ d.email = users[u].email /\ d.username = users[u].username
  BY <1>2, <1>4 DEF Accounts!User
<1> HIDE DEF d
<1>6. Saved(u, d) /\ TokensEnd(u, d)
  BY <1>1, <1>2, <1>3, <1>5 DEF Saved, TokensEnd
<1>7. QED
  BY <1>1, <1>2, <1>5, <1>6, SavedKeeps

LEMMA AccountInit == Accounts!Init => AccountInvariant
<1> SUFFICES ASSUME Accounts!Init PROVE AccountInvariant
  OBVIOUS
<1>1. /\ \A u \in Users : users[u] = Accounts!NoUser
      /\ users \in [Users -> AccountDocument] /\ Accounts!Registered = {}
  BY DEF Accounts!Init, AccountDocument, Accounts!Registered
<1>2. edit = [r \in Requests |-> Accounts!Idle] /\ Accounts!Idle.kind = "idle"
  BY DEF Accounts!Init, Accounts!Idle
<1>3. edit \in [Requests -> AccountEdit]
  BY <1>2 DEF AccountEdit
<1>4. EditsFit
  BY <1>2, <1>3 DEF EditsFit, EditFits
<1>5. NamesUnique /\ ListsSmall
  BY <1>1 DEF NamesUnique, Accounts!NamesUnique, ListsSmall
<1>6. TokenBehind
  BY DEF Accounts!Init, TokenBehind
<1>7. Accounts!TypeOK
  BY <1>1, <1>2, SameCardinality DEF Accounts!Init, Accounts!TypeOK, AccountDocument
<1>8. QED
  BY <1>4, <1>5, <1>6, <1>7 DEF AccountInvariant

LEMMA AccountKept ==
    ASSUME AccountInvariant, UNCHANGED accountVars
    PROVE  AccountInvariant'
  BY DEF accountVars, AccountInvariant, Accounts!TypeOK, EditsFit, EditFits, ListCurrent,
         NamesUnique, Accounts!NamesUnique, TokenBehind, Accounts!Registered

LEMMA AccountStepKeeps ==
    ASSUME AccountInvariant, AccountStep
    PROVE  AccountInvariant'
  BY SaveCreatedKeeps, SaveProfileKeeps, SaveEmailKeeps, SavePasswordKeeps, SaveWatchlistKeeps,
     StartKeeps, LoginKeeps, UpdateRoleKeeps
  DEF AccountStep, Accounts!Save, Accounts!Access

LEMMA AccountInvariance == ServiceSpec => []AccountInvariant
<1>1. ServiceInit => AccountInvariant
  BY AccountInit DEF ServiceInit
<1>2. AccountInvariant /\ [ServiceNext]_serviceVars => AccountInvariant'
  BY AccountStepKeeps, AccountKept DEF ServiceNext, serviceVars
<1>3. QED
  BY <1>1, <1>2, PTL DEF ServiceSpec

\* How a save may change the document of u, as SavesEditCurrent has it.
EditedBy(u, q) ==
    /\ q # Accounts!Idle /\ q.user = u
    /\ \/ /\ q.kind = "profile"
          /\ users'[u] = [users[u] EXCEPT !.username = q.username]
       \/ /\ q.kind = "email"
          /\ users'[u] = [users[u] EXCEPT !.email = q.email,
                                          !.tokenVersion = q.tokenVersion + 1]
       \/ /\ q.kind = "password"
          /\ users'[u] = [users[u] EXCEPT !.tokenVersion = q.tokenVersion + 1]
       \/ /\ q.kind = "watchlist"
          /\ users'[u] = [users[u] EXCEPT !.watchlist = (@ \cup q.add) \ q.remove,
                                          !.version = @ + 1]

LEMMA SaveEdits ==
    ASSUME AccountInvariant, NEW r \in Requests, Accounts!Save(r),
           NEW u \in Accounts!Registered, users'[u] # users[u]
    PROVE  EditedBy(u, edit[r])
<1> DEFINE q == edit[r]
<1>1. /\ u \in Users /\ users \in [Users -> AccountDocument] /\ users[u] \in Accounts!User
      /\ MaxVersion \in Nat
  BY EditedDocument
<1>2. EditFits(q)
  BY EditKinds
<1>3. q.kind # "idle" => q # Accounts!Idle
  BY DEF Accounts!Idle
<1>4. CASE Accounts!SaveCreated(r)
  <2>1. q \in CreateEdit
    BY <1>4, EditKinds DEF Accounts!SaveCreated
  <2>2. CASE q.user = u
    BY <1>4, <2>2 DEF Accounts!SaveCreated
  <2>3. CASE q.user # u
    BY <1>1, <1>4, <2>3 DEF Accounts!SaveCreated
  <2>4. QED
    BY <2>2, <2>3
<1>5. CASE Accounts!SaveProfile(r)
  <2>1. q.kind = "profile" /\ users' = [users EXCEPT ![q.user].username = q.username]
    BY <1>5 DEF Accounts!SaveProfile
  <2>2. q.user = u
    BY <1>1, <2>1
  <2>3. users'[u] = [users[u] EXCEPT !.username = q.username]
    BY <1>1, <2>1, <2>2
  <2>4. QED
    BY <1>3, <2>1, <2>2, <2>3 DEF EditedBy
<1>6. CASE Accounts!SaveEmail(r)
  <2>1. /\ q.kind = "email"
        /\ users' = [users EXCEPT ![q.user].email = q.email,
                                  ![q.user].tokenVersion = q.tokenVersion + 1]
    BY <1>6 DEF Accounts!SaveEmail
  <2>2. q.user = u
    BY <1>1, <2>1
  <2>3. users'[u] = [users[u] EXCEPT !.email = q.email, !.tokenVersion = q.tokenVersion + 1]
    BY <1>1, <2>1, <2>2
  <2>4. QED
    BY <1>3, <2>1, <2>2, <2>3 DEF EditedBy
<1>7. CASE Accounts!SavePassword(r)
  <2>1. /\ q.kind = "password"
        /\ users' = [users EXCEPT ![q.user].tokenVersion = q.tokenVersion + 1]
    BY <1>7 DEF Accounts!SavePassword
  <2>2. q.user = u
    BY <1>1, <2>1
  <2>3. users'[u] = [users[u] EXCEPT !.tokenVersion = q.tokenVersion + 1]
    BY <1>1, <2>1, <2>2
  <2>4. QED
    BY <1>3, <2>1, <2>2, <2>3 DEF EditedBy
<1>8. CASE Accounts!SaveWatchlist(r)
  <2>1. /\ q.kind = "watchlist" /\ users[q.user].version = q.version
        /\ users' = [users EXCEPT ![q.user].watchlist = q.watchlist,
                                  ![q.user].version = users[q.user].version + 1]
    BY <1>1, <1>8 DEF Accounts!SaveWatchlist
  <2>2. q.user = u
    BY <1>1, <2>1
  <2>3. q.watchlist = (users[u].watchlist \cup q.add) \ q.remove
    BY <1>2, <2>1, <2>2 DEF EditFits, ListCurrent
  <2>4. users'[u] = [users[u] EXCEPT !.watchlist = (users[u].watchlist \cup q.add) \ q.remove,
                                     !.version = users[u].version + 1]
    BY <1>1, <2>1, <2>2, <2>3
  <2>5. QED
    BY <1>3, <2>1, <2>2, <2>4 DEF EditedBy
<1>9. QED
  BY <1>4, <1>5, <1>6, <1>7, <1>8 DEF Accounts!Save

LEMMA StepEdits ==
    ASSUME AccountInvariant, AccountStep, NEW u \in Accounts!Registered, users'[u] # users[u]
    PROVE  \/ users'[u] = [users[u] EXCEPT !.tokenVersion = @ + 1]
           \/ \E r \in Requests : EditedBy(u, edit[r])
<1>1. u \in Users /\ users \in [Users -> AccountDocument]
  BY EditedDocument
<1>2. CASE \E r \in Requests : Accounts!Save(r)
  BY <1>2, SaveEdits
<1>3. CASE \E r \in Requests : Accounts!Start(r)
  BY <1>3
  DEF Accounts!Start, Accounts!Create, Accounts!UpdateProfile, Accounts!ChangeEmail,
      Accounts!ChangePassword, Accounts!EditWatchlist
<1>4. CASE \E v \in Users : Accounts!Login(v)
  BY <1>4 DEF Accounts!Login
<1>5. CASE \E v \in Users : Accounts!UpdateRole(v)
  <2>1. PICK v \in Users : users' = [users EXCEPT ![v].tokenVersion = users[v].tokenVersion + 1]
    BY <1>5 DEF Accounts!UpdateRole
  <2>2. v = u
    BY <1>1, <2>1
  <2>3. QED
    BY <1>1, <2>1, <2>2
<1>6. QED
  BY <1>2, <1>3, <1>4, <1>5 DEF AccountStep, Accounts!Access

-----------------------------------------------------------------------------
(* What holds of accounts *)

\* The documents of both collections stay what their schemas allow: watchlists
\* are not too long, versions are in range, and no two friend requests are one.
THEOREM ServiceTypes == ServiceSpec => []ServiceTypeOK
<1>1. FriendInvariant /\ AccountInvariant => ServiceTypeOK
  BY DEF FriendInvariant, AccountInvariant, ServiceTypeOK
<1>2. QED
  BY <1>1, FriendInvariance, AccountInvariance, PTL

\* However registrations and edits race past their checks, no two accounts share
\* an email or a username: the unique indexes refuse the second save.
THEOREM ServiceNamesUnique == ServiceSpec => []NamesUnique
<1>1. AccountInvariant => NamesUnique
  BY DEF AccountInvariant
<1>2. QED
  BY <1>1, AccountInvariance, PTL

\* A token from before the last change of its user's email, password or role is
\* not accepted: each raises the version of the document above the token's,
\* unless two changes overwrote one another.
THEOREM ServiceOldTokensRefused == ServiceSpec => []OldTokensRefused
<1>1. ASSUME AccountInvariant
      PROVE  OldTokensRefused
  <2>1. Accounts!TypeOK /\ TokenBehind
    BY <1>1 DEF AccountInvariant
  <2>2. SUFFICES ASSUME Accounts!Accepted(token), token.user \notin lost, token.outdated
                 PROVE  FALSE
    BY DEF OldTokensRefused, Accounts!OldTokensRefused
  <2>3. token # Accounts!NoToken /\ token.user \in Accounts!Registered
    BY <2>2 DEF Accounts!Accepted
  <2>4. token \in Accounts!Token
    BY <2>1, <2>3, AccountTypes
  <2>5. token.tokenVersion < users[token.user].tokenVersion
    BY <2>1, <2>2, <2>3 DEF TokenBehind
  <2>6. users[token.user].tokenVersion = token.tokenVersion /\ token.tokenVersion \in Int
    BY <2>2, <2>4 DEF Accounts!Accepted, Accounts!Token
  <2>7. QED
    BY <2>5, <2>6
<1>2. QED
  BY <1>1, AccountInvariance, PTL

\* A save edits the document as it is, not as its handler read it: a watchlist
\* is saved only while it has the version, and so the symbols, that were read.
THEOREM ServiceSavesEditCurrent == ServiceSpec => SavesEditCurrent
<1>1. AccountInvariant /\ [ServiceNext]_serviceVars =>
          [\A u \in Accounts!Registered : users'[u] # users[u] =>
              \/ users'[u] = [users[u] EXCEPT !.tokenVersion = @ + 1]
              \/ \E r \in Requests : EditedBy(u, edit[r])]_(Accounts!vars)
  BY StepEdits DEF ServiceNext, serviceVars, accountVars, Accounts!vars
<1>2. QED
  BY <1>1, AccountInvariance, PTL
  DEF ServiceSpec, SavesEditCurrent, Accounts!SavesEditCurrent, EditedBy
=============================================================================
