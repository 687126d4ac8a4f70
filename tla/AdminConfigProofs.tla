-------------------------- MODULE AdminConfigProofs --------------------------
(***************************************************************************)
(* However processes start, stop and serve administrators, a key never has *)
(* two values in use, and none once a process serves; and a restoration is *)
(* all or nothing: for any number of keys, processes and requests.         *)
(*                                                                         *)
(* All three rest on what the transactions have read: every value in use,  *)
(* exactly one of each key, and of the keys nobody wrote since, the        *)
(* present one.                                                            *)
(***************************************************************************)
EXTENDS AdminConfig, FiniteSetTheorems, TLAPS

\* Every key has one value.
Complete(configs) == \A k \in Keys : \E v \in Values : configs[k] = {v}

InTransaction(r) == request[r].stage \in {"set", "restore"}

\* A key has at most one value in use, and exactly one where somebody relies on it.
ValuesInUse ==
    /\ \A k \in Keys : active[k] = {} \/ \E v \in Values : active[k] = {v}
    /\ (\E p \in Processes : process[p] = Serving) \/ snapshots # <<>> => Complete(active)

SnapshotsComplete == \A i \in DOMAIN snapshots : Complete(snapshots[i])

\* A process has seen or seeded the keys it is through with.
Through(proc, configs) ==
    /\ \A j, k \in proc.missing : j = k
    /\ \A k \in Keys \ (proc.todo \cup proc.missing) : configs[k] # {}

StartedThrough ==
    \A p \in Processes : process[p].stage = "starting" => Through(process[p], active)

\* A transaction has read one value of every key, and the one in use of those
\* that it has not missed; what it restores was a snapshot.
ReadCurrent ==
    \A r \in Requests : InTransaction(r) =>
        /\ Complete(request[r].read)
        /\ \A k \in Keys \ request[r].missed : request[r].read[k] = active[k]
        /\ request[r].stage = "restore" => Complete(request[r].configs)

AdminInvariant ==
    TypeOK /\ ValuesInUse /\ SnapshotsComplete /\ StartedThrough /\ ReadCurrent

-----------------------------------------------------------------------------
(* Types *)

FoundRequest == [stage: {"found"}, by: Processes, key: Keys, value: Values]

SetRequest == [stage: {"set"}, by: Processes, key: Keys, value: Values,
               read: Configs, missed: SUBSET Keys]

RestoreRequest == [stage: {"restore"}, by: Processes, configs: Configs,
                   read: Configs, missed: SUBSET Keys]

AdminRequest == {Idle} \cup FoundRequest \cup SetRequest \cup RestoreRequest

StartingProcess == [stage: {"starting"}, todo: SUBSET Keys, missing: SUBSET Keys]

AdminProcess == {Down, Serving} \cup StartingProcess

LEMMA Types ==
    ASSUME TypeOK
    PROVE  /\ request \in [Requests -> AdminRequest]
           /\ process \in [Processes -> AdminProcess]
           /\ active \in Configs /\ snapshots \in Seq(Configs)
           /\ \A r \in Requests : request[r] # Idle => process[request[r].by] = Serving
           /\ MaxValues \in Nat /\ MaxSnapshots \in Nat /\ MaxCrashes \in Nat
           /\ chosen \in 0..MaxValues /\ crashes \in 0..MaxCrashes
           /\ Len(snapshots) <= MaxSnapshots
  BY AdminConfigAssumption
  DEF TypeOK, AdminRequest, AdminProcess, FoundRequest, SetRequest, RestoreRequest,
      StartingProcess

\* TypeOK by its parts.
LEMMA TypeParts ==
    ASSUME active' \in Configs, snapshots' \in Seq(Configs), Len(snapshots') <= MaxSnapshots,
           request' \in [Requests -> AdminRequest], process' \in [Processes -> AdminProcess],
           \A r \in Requests : request'[r] # Idle => process'[request'[r].by] = Serving,
           chosen' \in 0..MaxValues, crashes' \in 0..MaxCrashes
    PROVE  TypeOK'
  BY DEF TypeOK, AdminRequest, AdminProcess, FoundRequest, SetRequest, RestoreRequest,
         StartingProcess

\* The stage of a request tells which fields it has.
LEMMA RequestStages ==
    ASSUME TypeOK, NEW r \in Requests
    PROVE  /\ request[r].stage = "found" => request[r] \in FoundRequest
           /\ request[r].stage = "set" => request[r] \in SetRequest
           /\ request[r].stage = "restore" => request[r] \in RestoreRequest
           /\ request[r].stage = "idle" <=> request[r] = Idle
<1>1. request[r] \in AdminRequest
  BY Types
<1>2. QED
  BY <1>1 DEF AdminRequest, FoundRequest, SetRequest, RestoreRequest, Idle

LEMMA ProcessStages ==
    ASSUME TypeOK, NEW p \in Processes
    PROVE  /\ process[p].stage = "starting" => process[p] \in StartingProcess
           /\ process[p] = Serving => process[p].stage = "serving"
           /\ process[p] = Down => process[p].stage = "down"
<1>1. process[p] \in AdminProcess
  BY Types
<1>2. QED
  BY <1>1 DEF AdminProcess, StartingProcess, Serving, Down

LEMMA InformedTypes ==
    ASSUME TypeOK, NEW keys \in SUBSET Keys
    PROVE  /\ Informed(keys) \in [Requests -> AdminRequest]
           /\ \A r \in Requests :
                 /\ Informed(keys)[r] = Idle <=> request[r] = Idle
                 /\ Informed(keys)[r] # Idle => Informed(keys)[r].by = request[r].by
                 /\ Informed(keys)[r].stage = request[r].stage
<1>1. ASSUME NEW r \in Requests
      PROVE  /\ Informed(keys)[r] \in AdminRequest
             /\ Informed(keys)[r] = Idle <=> request[r] = Idle
             /\ Informed(keys)[r] # Idle => Informed(keys)[r].by = request[r].by
             /\ Informed(keys)[r].stage = request[r].stage
  <2>1. request[r] \in AdminRequest
    BY Types
  <2>2. CASE request[r].stage = "set"
    <3>1. request[r] \in SetRequest
      BY <2>2, RequestStages
    <3>2. Informed(keys)[r] = [request[r] EXCEPT !.missed = request[r].missed \cup keys]
      BY <2>2 DEF Informed
    <3>3. Informed(keys)[r] \in SetRequest /\ Informed(keys)[r].by = request[r].by
      BY <3>1, <3>2 DEF SetRequest
    <3>4. QED
      BY <2>2, <3>1, <3>3 DEF AdminRequest, SetRequest, Idle
  <2>3. CASE request[r].stage = "restore"
    <3>1. request[r] \in RestoreRequest
      BY <2>3, RequestStages
    <3>2. Informed(keys)[r] = [request[r] EXCEPT !.missed = request[r].missed \cup keys]
      BY <2>3 DEF Informed
    <3>3. Informed(keys)[r] \in RestoreRequest /\ Informed(keys)[r].by = request[r].by
      BY <3>1, <3>2 DEF RestoreRequest
    <3>4. QED
      BY <2>3, <3>1, <3>3 DEF AdminRequest, RestoreRequest, Idle
  <2>4. CASE request[r].stage \notin {"set", "restore"}
    <3>1. Informed(keys)[r] = request[r]
      BY <2>4 DEF Informed
    <3>2. QED
      BY <2>1, <3>1
  <2>5. QED
    BY <2>2, <2>3, <2>4
<1>2. DOMAIN Informed(keys) = Requests /\ Informed(keys) = [r \in Requests |-> Informed(keys)[r]]
  BY DEF Informed
<1>3. Informed(keys) \in [Requests -> AdminRequest]
  BY <1>1, <1>2
<1>4. QED
  BY <1>1, <1>3

LEMMA RequestTypes ==
    ASSUME TypeOK, NEW r \in Requests, request[r] # Idle
    PROVE  request[r].by \in Processes
<1>1. request[r] \in AdminRequest
  BY Types
<1>2. QED
  BY <1>1 DEF AdminRequest, FoundRequest, SetRequest, RestoreRequest

-----------------------------------------------------------------------------
(* Each action keeps the types, and requests in processes that serve *)

\* A process that changes but serves on, or did not serve, ends no request.
LEMMA OneProcess ==
    ASSUME TypeOK, NEW p \in Processes, NEW new \in AdminProcess,
           process[p] # Serving \/ new = Serving,
           process' = [process EXCEPT ![p] = new]
    PROVE  /\ process' \in [Processes -> AdminProcess]
           /\ \A q \in Processes : process[q] = Serving => process'[q] = Serving
  BY Types

LEMMA ProcessTypes ==
    ASSUME TypeOK, NEW p \in Processes, Start(p) \/ Look(p) \/ Serve(p)
    PROVE  TypeOK'
<1>1. CASE Start(p)
  <2>1. Starting(Keys, {}) \in AdminProcess
    BY DEF Starting, AdminProcess, StartingProcess
  <2>2. process[p] # Serving /\ process' = [process EXCEPT ![p] = Starting(Keys, {})]
    BY <1>1 DEF Start, Down, Serving
  <2>3. /\ process' \in [Processes -> AdminProcess]
        /\ \A q \in Processes : process[q] = Serving => process'[q] = Serving
    BY <2>1, <2>2, OneProcess
  <2>4. QED
    BY <1>1, <2>3, Types, TypeParts, RequestTypes DEF Start
<1>2. CASE Look(p)
  <2>1. process[p] \in StartingProcess /\ process[p] # Serving
    BY <1>2, ProcessStages DEF Look, Serving
  <2>2. PICK k \in process[p].todo :
            process' = [process EXCEPT ![p] =
                Starting(process[p].todo \ {k}, IF active[k] = {} THEN {k} ELSE {})]
    BY <1>2 DEF Look
  <2>3. Starting(process[p].todo \ {k}, IF active[k] = {} THEN {k} ELSE {}) \in AdminProcess
    BY <2>1, <2>2 DEF Starting, AdminProcess, StartingProcess
  <2>4. /\ process' \in [Processes -> AdminProcess]
        /\ \A q \in Processes : process[q] = Serving => process'[q] = Serving
    BY <2>1, <2>2, <2>3, OneProcess
  <2>5. QED
    BY <1>2, <2>4, Types, TypeParts, RequestTypes DEF Look
<1>3. CASE Serve(p)
  <2>1. Serving \in AdminProcess
    BY DEF AdminProcess
  <2>2. /\ process' \in [Processes -> AdminProcess]
        /\ \A q \in Processes : process[q] = Serving => process'[q] = Serving
    BY <1>3, <2>1, OneProcess DEF Serve
  <2>3. QED
    BY <1>3, <2>2, Types, TypeParts, RequestTypes DEF Serve
<1>4. QED
  BY <1>1, <1>2, <1>3

LEMMA SeedTypes ==
    ASSUME TypeOK, NEW p \in Processes, Seed(p)
    PROVE  TypeOK'
<1>1. process[p] \in StartingProcess /\ process[p] # Serving
  BY ProcessStages DEF Seed, Serving
<1>2. PICK k \in process[p].missing :
          IF Fits(k)
          THEN /\ active' = [active EXCEPT ![k] = active[k] \cup {Seeded}]
               /\ process' = [process EXCEPT ![p].missing = {}]
               /\ request' = Informed({k})
          ELSE /\ process' = [process EXCEPT ![p] = Down]
               /\ UNCHANGED <<active, request>>
  BY DEF Seed
<1>3. k \in Keys
  BY <1>1, <1>2 DEF StartingProcess
<1>4. CASE Fits(k)
  <2>1. [process[p] EXCEPT !.missing = {}] \in AdminProcess
    BY <1>1 DEF AdminProcess, StartingProcess
  <2>2. /\ process' \in [Processes -> AdminProcess]
        /\ \A q \in Processes : process[q] = Serving => process'[q] = Serving
    BY <1>1, <1>2, <1>4, <2>1, OneProcess
  <2>3. active' \in Configs
    BY <1>2, <1>3, <1>4, Types DEF Configs, Values, Seeded
  <2>4. /\ request' \in [Requests -> AdminRequest]
        /\ \A r \in Requests : request'[r] # Idle => process'[request'[r].by] = Serving
    BY <1>2, <1>3, <1>4, <2>2, Types, InformedTypes, RequestTypes
  <2>5. QED
    BY <2>2, <2>3, <2>4, Types, TypeParts DEF Seed
<1>5. CASE ~Fits(k)
  <2>1. Down \in AdminProcess
    BY DEF AdminProcess
  <2>2. /\ process' \in [Processes -> AdminProcess]
        /\ \A q \in Processes : process[q] = Serving => process'[q] = Serving
    BY <1>1, <1>2, <1>5, <2>1, OneProcess
  <2>3. QED
    BY <1>2, <1>5, <2>2, Types, TypeParts, RequestTypes DEF Seed
<1>6. QED
  BY <1>4, <1>5

LEMMA CrashTypes ==
    ASSUME TypeOK, NEW p \in Processes, Crash(p)
    PROVE  TypeOK'
<1>1. Down \in AdminProcess /\ Idle \in AdminRequest
  BY DEF AdminProcess, AdminRequest
<1>2. /\ process' \in [Processes -> AdminProcess] /\ request' \in [Requests -> AdminRequest]
      /\ crashes' \in 0..MaxCrashes
  BY <1>1, Types DEF Crash
<1>3. ASSUME NEW r \in Requests, request'[r] # Idle
      PROVE  process'[request'[r].by] = Serving
  <2>1. request'[r] = request[r] /\ request[r].by # p
    BY <1>3 DEF Crash
  <2>2. request[r].by \in Processes
    BY <1>3, <2>1, RequestTypes
  <2>3. QED
    BY <1>3, <2>1, <2>2, Types DEF Crash
<1>4. QED
  BY <1>2, <1>3, Types, TypeParts DEF Crash

\* A request moves on, in the same process or not.
LEMMA OneRequest ==
    ASSUME TypeOK, NEW r \in Requests, NEW q \in AdminRequest, NEW keys \in SUBSET Keys,
           q = Idle \/ process[q.by] = Serving, UNCHANGED process,
           \/ request' = [request EXCEPT ![r] = q]
           \/ request' = [Informed(keys) EXCEPT ![r] = q]
    PROVE  /\ request' \in [Requests -> AdminRequest]
           /\ \A x \in Requests : request'[x] # Idle => process'[request'[x].by] = Serving
<1>1. CASE request' = [request EXCEPT ![r] = q]
  BY <1>1, Types
<1>2. CASE request' = [Informed(keys) EXCEPT ![r] = q]
  BY <1>2, Types, InformedTypes
<1>3. QED
  BY <1>1, <1>2

LEMMA GetTypes ==
    ASSUME TypeOK, NEW k \in Keys, Get(k)
    PROVE  TypeOK'
<1>1. /\ request' \in [Requests -> AdminRequest]
      /\ \A r \in Requests : request'[r] # Idle => process'[request'[r].by] = Serving
  BY Types, InformedTypes DEF Get
<1>2. QED
  BY <1>1, Types, TypeParts DEF Get

LEMMA ManualTypes ==
    ASSUME TypeOK, NEW p \in Processes, CreateManualSnapshot(p)
    PROVE  TypeOK'
<1>1. snapshots' \in Seq(Configs) /\ Len(snapshots') <= MaxSnapshots
  BY Types DEF CreateManualSnapshot
<1>2. QED
  BY <1>1, Types, TypeParts DEF CreateManualSnapshot

LEMMA UpdateTypes ==
    ASSUME TypeOK, NEW r \in Requests, NEW p \in Processes, NEW k \in Keys, Update(r, p, k)
    PROVE  TypeOK'
<1> DEFINE q == [stage |-> "found", by |-> p, key |-> k, value |-> chosen']
<1>1. chosen' \in 0..MaxValues
  BY Types DEF Update
<1>2. q \in AdminRequest /\ process[q.by] = Serving
  BY <1>1 DEF AdminRequest, FoundRequest, Values, Seeded, Update
<1>3. request' = [Informed({k}) EXCEPT ![r] = q] /\ UNCHANGED process
  BY DEF Update
<1> HIDE DEF q
<1>4. /\ request' \in [Requests -> AdminRequest]
      /\ \A x \in Requests : request'[x] # Idle => process'[request'[x].by] = Serving
  BY <1>2, <1>3, OneRequest
<1>5. QED
  BY <1>1, <1>4, Types, TypeParts DEF Update

LEMMA BeginTypes ==
    ASSUME TypeOK, NEW r \in Requests,
           \/ BeginSet(r) \/ Abort(r) \/ Retry(r)
           \/ \E p \in Processes, i \in 1..MaxSnapshots : BeginRestore(r, p, i)
    PROVE  TypeOK'
<1>1. \E q \in AdminRequest : /\ request' = [request EXCEPT ![r] = q]
                              /\ q = Idle \/ process[q.by] = Serving
  <2>1. CASE BeginSet(r)
    <3> DEFINE q == [stage |-> "set", by |-> request[r].by, key |-> request[r].key,
                     value |-> request[r].value, read |-> active, missed |-> {}]
    <3>1. request[r] \in FoundRequest /\ process[request[r].by] = Serving
      BY <2>1, RequestStages, Types DEF BeginSet, Idle
    <3>2. q \in AdminRequest /\ q.by = request[r].by
      BY <3>1, Types DEF AdminRequest, FoundRequest, SetRequest
    <3>3. request' = [request EXCEPT ![r] = q]
      BY <2>1 DEF BeginSet
    <3> HIDE DEF q
    <3>4. QED
      BY <3>1, <3>2, <3>3
  <2>2. CASE Abort(r)
    BY <2>2 DEF Abort, AdminRequest
  <2>3. CASE Retry(r)
    <3> DEFINE q == [request[r] EXCEPT !.read = active, !.missed = {}]
    <3>1. request' = [request EXCEPT ![r] = q]
      BY <2>3, Types DEF Retry
    <3>2. CASE request[r].stage = "set"
      <4>1. request[r] \in SetRequest /\ process[request[r].by] = Serving
        BY <3>2, RequestStages, Types DEF Idle
      <4>2. q \in AdminRequest /\ q.by = request[r].by
        BY <4>1, Types DEF AdminRequest, SetRequest
      <4> HIDE DEF q
      <4>3. QED
        BY <3>1, <4>1, <4>2
    <3>3. CASE request[r].stage = "restore"
      <4>1. request[r] \in RestoreRequest /\ process[request[r].by] = Serving
        BY <3>3, RequestStages, Types DEF Idle
      <4>2. q \in AdminRequest /\ q.by = request[r].by
        BY <4>1, Types DEF AdminRequest, RestoreRequest
      <4> HIDE DEF q
      <4>3. QED
        BY <3>1, <4>1, <4>2
    <3>4. QED
      BY <2>3, <3>2, <3>3 DEF Retry
  <2>4. CASE \E p \in Processes, i \in 1..MaxSnapshots : BeginRestore(r, p, i)
    <3>1. PICK p \in Processes, i \in 1..MaxSnapshots : BeginRestore(r, p, i)
      BY <2>4
    <3> DEFINE q == [stage |-> "restore", by |-> p, configs |-> snapshots[i],
                     read |-> active, missed |-> {}]
    <3>2. snapshots[i] \in Configs
      BY <3>1, Types DEF BeginRestore
    <3>3. q \in AdminRequest /\ process[q.by] = Serving
      BY <3>1, <3>2, Types DEF AdminRequest, RestoreRequest, BeginRestore
    <3>4. request' = [request EXCEPT ![r] = q]
      BY <3>1 DEF BeginRestore
    <3> HIDE DEF q
    <3>5. QED
      BY <3>3, <3>4
  <2>5. QED
    BY <2>1, <2>2, <2>3, <2>4
<1>2. UNCHANGED <<active, snapshots, process, chosen, crashes>>
  BY DEF BeginSet, Abort, Retry, BeginRestore
<1>3. /\ request' \in [Requests -> AdminRequest]
      /\ \A x \in Requests : request'[x] # Idle => process'[request'[x].by] = Serving
  BY <1>1, <1>2, OneRequest
<1>4. QED
  BY <1>2, <1>3, Types, TypeParts

LEMMA CommitTypes ==
    ASSUME TypeOK, NEW r \in Requests, CommitSet(r) \/ CommitRestore(r)
    PROVE  TypeOK'
<1>1. Idle \in AdminRequest
  BY DEF AdminRequest
<1>2. CASE CommitSet(r)
  <2>1. request[r] \in SetRequest
    BY <1>2, RequestStages DEF CommitSet
  <2>2. /\ [request[r].read EXCEPT ![request[r].key] = {request[r].value}] \in Configs
        /\ active' \in Configs /\ request[r].key \in Keys
    BY <1>2, <2>1, Types DEF CommitSet, SetRequest, Configs
  <2>3. snapshots' \in Seq(Configs) /\ Len(snapshots') <= MaxSnapshots
    BY <1>2, <2>2, Types DEF CommitSet
  <2>4. /\ request' = [Informed({request[r].key}) EXCEPT ![r] = Idle]
        /\ UNCHANGED <<process, chosen, crashes>>
    BY <1>2 DEF CommitSet
  <2>5. /\ request' \in [Requests -> AdminRequest]
        /\ \A x \in Requests : request'[x] # Idle => process'[request'[x].by] = Serving
    BY <1>1, <2>2, <2>4, OneRequest
  <2>6. QED
    BY <2>2, <2>3, <2>4, <2>5, Types, TypeParts
<1>3. CASE CommitRestore(r)
  <2> DEFINE written == Written(request[r])
  <2>1. request[r] \in RestoreRequest /\ written \in SUBSET Keys
    BY <1>3, RequestStages DEF CommitRestore, Written
  <2> HIDE DEF written
  <2>2. /\ request[r].configs \in Configs
        /\ active' = [k \in Keys |-> IF k \in written
                                     THEN (active[k] \ request[r].read[k]) \cup request[r].configs[k]
                                     ELSE active[k]]
    BY <1>3, <2>1 DEF CommitRestore, RestoreRequest, written
  <2>3. active' \in Configs
    BY <2>2, Types DEF Configs
  <2>4. snapshots' \in Seq(Configs) /\ Len(snapshots') <= MaxSnapshots
    BY <1>3, <2>2, Types DEF CommitRestore
  <2>5. /\ request' = [Informed(written) EXCEPT ![r] = Idle]
        /\ UNCHANGED <<process, chosen, crashes>>
    BY <1>3 DEF CommitRestore, written
  <2>6. /\ request' \in [Requests -> AdminRequest]
        /\ \A x \in Requests : request'[x] # Idle => process'[request'[x].by] = Serving
    BY <1>1, <2>1, <2>5, OneRequest
  <2>7. QED
    BY <2>3, <2>4, <2>5, <2>6, Types, TypeParts
<1>4. QED
  BY <1>2, <1>3

LEMMA TypeStep == TypeOK /\ [Next]_vars => TypeOK'
<1> SUFFICES ASSUME TypeOK, [Next]_vars PROVE TypeOK'
  OBVIOUS
<1>1. CASE UNCHANGED vars
  BY <1>1 DEF TypeOK, vars
<1>2. CASE Next
  BY <1>2, ProcessTypes, SeedTypes, CrashTypes, ManualTypes, GetTypes, BeginTypes, CommitTypes,
     UpdateTypes DEF Next
<1>3. QED
  BY <1>1, <1>2

-----------------------------------------------------------------------------
(* What the steps do to the values *)

\* The keys of W come to have one value each, the others keep theirs.
WritesValues(W) ==
    /\ \A k \in W : \E v \in Values : active'[k] = {v}
    /\ \A k \in Keys \ W : active'[k] = active[k]

\* A request is not in a transaction after the step, is where it was but for
\* what it now has missed, or has just read what is in use.
ReadsOn(W, r) ==
    \/ request'[r].stage \notin {"set", "restore"}
    \/ request'[r] = Informed(W)[r]
    \/ /\ request'[r].read = active' /\ Complete(active')
       /\ request'[r].stage = "restore" => Complete(request'[r].configs)

LEMMA InformedReads ==
    ASSUME TypeOK, NEW W \in SUBSET Keys, NEW r \in Requests, InTransaction(r)
    PROVE  /\ Informed(W)[r].read = request[r].read
           /\ Informed(W)[r].missed = request[r].missed \cup W
           /\ request[r].stage = "restore" => Informed(W)[r].configs = request[r].configs
           /\ Informed(W)[r].stage = request[r].stage
<1>1. Informed(W)[r] = [request[r] EXCEPT !.missed = request[r].missed \cup W]
  BY DEF Informed, InTransaction
<1>2. CASE request[r].stage = "set"
  <2>1. request[r] \in SetRequest
    BY <1>2, RequestStages
  <2>2. QED
    BY <1>1, <1>2, <2>1 DEF SetRequest
<1>3. CASE request[r].stage = "restore"
  <2>1. request[r] \in RestoreRequest
    BY <1>3, RequestStages
  <2>2. QED
    BY <1>1, <1>3, <2>1 DEF RestoreRequest
<1>4. QED
  BY <1>2, <1>3 DEF InTransaction

LEMMA ReadStep ==
    ASSUME AdminInvariant, NEW W \in SUBSET Keys, WritesValues(W),
           \A r \in Requests : ReadsOn(W, r)
    PROVE  ReadCurrent'
<1>1. ASSUME NEW r \in Requests, request'[r].stage \in {"set", "restore"}
      PROVE  /\ Complete(request'[r].read)
             /\ \A k \in Keys \ request'[r].missed : request'[r].read[k] = active'[k]
             /\ request'[r].stage = "restore" => Complete(request'[r].configs)
  <2>1. CASE request'[r] = Informed(W)[r]
    <3>1. TypeOK /\ ReadCurrent
      BY DEF AdminInvariant
    <3>2. InTransaction(r)
      BY <1>1, <2>1, <3>1, InformedTypes DEF InTransaction
    <3>3. /\ Complete(request[r].read)
          /\ \A k \in Keys \ request[r].missed : request[r].read[k] = active[k]
          /\ request[r].stage = "restore" => Complete(request[r].configs)
      BY <3>1, <3>2 DEF ReadCurrent
    <3>4. /\ request'[r].read = request[r].read
          /\ request'[r].missed = request[r].missed \cup W
          /\ request[r].stage = "restore" => request'[r].configs = request[r].configs
          /\ request'[r].stage = request[r].stage
      BY <2>1, <3>1, <3>2, InformedReads
    <3>5. QED
      BY <3>3, <3>4 DEF WritesValues
  <2>2. CASE request'[r].read = active' /\ Complete(active')
             /\ (request'[r].stage = "restore" => Complete(request'[r].configs))
    BY <2>2
  <2>3. QED
    BY <1>1, <2>1, <2>2 DEF ReadsOn
<1>2. QED
  BY <1>1 DEF ReadCurrent, InTransaction

\* The snapshots stay, or a complete one is added where every key has a value.
SnapshotsGrow ==
    \/ UNCHANGED snapshots
    \/ \E c \in Configs : /\ Complete(c) /\ snapshots' = Append(snapshots, c)
                          /\ Complete(active')

\* Where a process comes to serve, every key has a value.
ServesComplete ==
    \A p \in Processes : process'[p] = Serving => process[p] = Serving \/ Complete(active')

LEMMA ValuesStep ==
    ASSUME AdminInvariant, NEW W \in SUBSET Keys, WritesValues(W), SnapshotsGrow,
           ServesComplete
    PROVE  ValuesInUse' /\ SnapshotsComplete'
<1>1. /\ \A k \in Keys : active[k] = {} \/ \E v \in Values : active[k] = {v}
      /\ (\E p \in Processes : process[p] = Serving) \/ snapshots # <<>> => Complete(active)
      /\ SnapshotsComplete /\ snapshots \in Seq(Configs)
  BY Types DEF AdminInvariant, ValuesInUse
<1>2. Complete(active) => Complete(active')
  BY DEF Complete, WritesValues
<1>3. \A k \in Keys : active'[k] = {} \/ \E v \in Values : active'[k] = {v}
  BY <1>1 DEF WritesValues
<1>4. snapshots' # <<>> => Complete(active')
  BY <1>1, <1>2 DEF SnapshotsGrow
<1>5. (\E p \in Processes : process'[p] = Serving) => Complete(active')
  BY <1>1, <1>2 DEF ServesComplete
<1>6. SnapshotsComplete'
  <2>1. CASE UNCHANGED snapshots
    BY <1>1, <2>1 DEF SnapshotsComplete, Complete
  <2>2. CASE \E c \in Configs : Complete(c) /\ snapshots' = Append(snapshots, c)
    <3>1. PICK c \in Configs : Complete(c) /\ snapshots' = Append(snapshots, c)
      BY <2>2
    <3>2. ASSUME NEW i \in DOMAIN snapshots'
          PROVE  Complete(snapshots'[i])
      <4>1. \/ i \in DOMAIN snapshots /\ snapshots'[i] = snapshots[i]
            \/ snapshots'[i] = c
        BY <1>1, <3>1, <3>2
      <4>2. QED
        BY <1>1, <3>1, <4>1 DEF SnapshotsComplete
    <3>3. QED
      BY <3>2 DEF SnapshotsComplete
  <2>3. QED
    BY <2>1, <2>2 DEF SnapshotsGrow
<1>7. QED
  BY <1>3, <1>4, <1>5, <1>6 DEF ValuesInUse, Complete

\* Nothing is written, and no process comes to serve.
LEMMA NothingWritten ==
    ASSUME UNCHANGED active
    PROVE  WritesValues({})
  BY DEF WritesValues

LEMMA NobodyInformed ==
    ASSUME TypeOK, NEW r \in Requests
    PROVE  Informed({})[r] = request[r]
<1>1. CASE request[r].stage = "set"
  <2>1. request[r] \in SetRequest
    BY <1>1, RequestStages
  <2>2. QED
    BY <1>1, <2>1 DEF Informed, SetRequest
<1>2. CASE request[r].stage = "restore"
  <2>1. request[r] \in RestoreRequest
    BY <1>2, RequestStages
  <2>2. QED
    BY <1>2, <2>1 DEF Informed, RestoreRequest
<1>3. CASE request[r].stage \notin {"set", "restore"}
  BY <1>3 DEF Informed
<1>4. QED
  BY <1>1, <1>2, <1>3

\* A transaction that begins, or begins again, reads what is in use; whoever
\* has it begin serves, so that every key has a value.
LEMMA OpenComplete ==
    ASSUME AdminInvariant, NEW r \in Requests, request[r] # Idle
    PROVE  Complete(active)
  BY Types, RequestTypes DEF AdminInvariant, ValuesInUse

\* A step that writes the keys of W keeps the invariant.
Effect(W) ==
    /\ WritesValues(W) /\ SnapshotsGrow /\ ServesComplete
    /\ \A r \in Requests : ReadsOn(W, r)
    /\ StartedThrough'

LEMMA EffectKeeps ==
    ASSUME AdminInvariant, TypeOK', NEW W \in SUBSET Keys, Effect(W)
    PROVE  AdminInvariant'
<1>1. ReadCurrent'
  BY ReadStep DEF Effect
<1>2. ValuesInUse' /\ SnapshotsComplete'
  BY ValuesStep DEF Effect
<1>3. QED
  BY <1>1, <1>2 DEF AdminInvariant, Effect

\* A key never loses its last value.
LEMMA ValuesStay ==
    ASSUME NEW W \in SUBSET Keys, WritesValues(W)
    PROVE  /\ \A k \in Keys : active[k] # {} => active'[k] # {}
           /\ Complete(active) => Complete(active')
  BY DEF WritesValues, Complete

LEMMA StartedKept ==
    ASSUME AdminInvariant, NEW W \in SUBSET Keys, WritesValues(W), UNCHANGED process
    PROVE  StartedThrough' /\ ServesComplete
<1>1. \A k \in Keys : active[k] # {} => active'[k] # {}
  BY ValuesStay
<1>2. StartedThrough
  BY DEF AdminInvariant
<1>3. StartedThrough'
  BY <1>1, <1>2 DEF StartedThrough, Through
<1>4. ServesComplete
  BY DEF ServesComplete
<1>5. QED
  BY <1>3, <1>4

\* One process goes on with its start, or stops.
LEMMA StartedOne ==
    ASSUME AdminInvariant, NEW W \in SUBSET Keys, WritesValues(W), NEW p \in Processes,
           \A q \in Processes \ {p} : process'[q] = process[q],
           process'[p] # Serving \/ Complete(active'),
           process'[p].stage = "starting" => Through(process'[p], active')
    PROVE  StartedThrough' /\ ServesComplete
<1>1. \A k \in Keys : active[k] # {} => active'[k] # {}
  BY ValuesStay
<1>2. StartedThrough
  BY DEF AdminInvariant
<1>3. ASSUME NEW q \in Processes, process'[q].stage = "starting"
      PROVE  Through(process'[q], active')
  <2>1. CASE q = p
    BY <1>3, <2>1
  <2>2. CASE q # p
    <3>1. process'[q] = process[q]
      BY <2>2
    <3>2. Through(process[q], active)
      BY <1>2, <1>3, <3>1 DEF StartedThrough
    <3>3. QED
      BY <1>1, <3>1, <3>2 DEF Through
  <2>3. QED
    BY <2>1, <2>2
<1>4. StartedThrough'
  BY <1>3 DEF StartedThrough
<1>5. ServesComplete
  BY DEF ServesComplete
<1>6. QED
  BY <1>4, <1>5

\* The requests stay where they are.
LEMMA RequestsStay ==
    ASSUME TypeOK, UNCHANGED request
    PROVE  \A r \in Requests : ReadsOn({}, r)
  BY NobodyInformed DEF ReadsOn

-----------------------------------------------------------------------------
(* The steps *)

LEMMA ProcessEffect ==
    ASSUME AdminInvariant, NEW p \in Processes, Start(p) \/ Look(p) \/ Serve(p)
    PROVE  Effect({})
<1>1. UNCHANGED <<active, snapshots, request>>
  BY DEF Start, Look, Serve
<1>2. WritesValues({}) /\ SnapshotsGrow
  BY <1>1, NothingWritten DEF SnapshotsGrow
<1>3. TypeOK /\ StartedThrough /\ ValuesInUse
  BY DEF AdminInvariant
<1>4. \A r \in Requests : ReadsOn({}, r)
  BY <1>1, <1>3, RequestsStay
<1>5. process \in [Processes -> AdminProcess]
  BY <1>3, Types
<1>6. \A q \in Processes \ {p} : process'[q] = process[q]
  BY <1>5 DEF Start, Look, Serve
<1>7. /\ process'[p] # Serving \/ Complete(active')
      /\ process'[p].stage = "starting" => Through(process'[p], active')
  <2>1. CASE Start(p)
    <3>1. process'[p] = Starting(Keys, {})
      BY <1>5, <2>1 DEF Start
    <3>2. QED
      BY <3>1 DEF Starting, Serving, Through
  <2>2. CASE Look(p)
    <3>1. process[p].stage = "starting" /\ process[p].missing = {}
      BY <2>2 DEF Look
    <3>2. PICK k \in process[p].todo :
              process'[p] = Starting(process[p].todo \ {k}, IF active[k] = {} THEN {k} ELSE {})
      BY <1>5, <2>2 DEF Look
    <3>3. process'[p] # Serving
      BY <3>2 DEF Starting, Serving
    <3>4. ASSUME NEW x \in Keys \ (process'[p].todo \cup process'[p].missing)
          PROVE  active'[x] # {}
      <4>1. CASE x = k
        BY <1>1, <3>2, <3>4, <4>1 DEF Starting
      <4>2. CASE x # k
        <5>1. x \notin process[p].todo
          BY <3>2, <3>4, <4>2 DEF Starting
        <5>2. QED
          BY <1>1, <1>3, <3>1, <5>1 DEF StartedThrough, Through
      <4>3. QED
        BY <4>1, <4>2
    <3>5. \A j, x \in process'[p].missing : j = x
      BY <3>2 DEF Starting
    <3>6. QED
      BY <3>3, <3>4, <3>5 DEF Through
  <2>3. CASE Serve(p)
    <3>1. process[p] = Starting({}, {}) /\ process'[p] = Serving
      BY <1>5, <2>3 DEF Serve
    <3>2. \A k \in Keys : active[k] # {}
      BY <1>3, <3>1 DEF StartedThrough, Through, Starting
    <3>3. Complete(active')
      BY <1>1, <1>3, <3>2 DEF ValuesInUse, Complete
    <3>4. QED
      BY <3>1, <3>3 DEF Serving
  <2>4. QED
    BY <2>1, <2>2, <2>3
<1>8. StartedThrough' /\ ServesComplete
  BY <1>2, <1>6, <1>7, StartedOne
<1>9. QED
  BY <1>2, <1>4, <1>8 DEF Effect

LEMMA SeedEffect ==
    ASSUME AdminInvariant, NEW p \in Processes, Seed(p)
    PROVE  \E W \in SUBSET Keys : Effect(W)
<1>1. TypeOK /\ StartedThrough /\ ValuesInUse
  BY DEF AdminInvariant
<1>2. process[p].stage = "starting" /\ process[p] \in StartingProcess
  BY <1>1, ProcessStages DEF Seed
<1>3. process \in [Processes -> AdminProcess] /\ active \in Configs /\ MaxValues \in Nat
  BY <1>1, Types
<1>4. UNCHANGED snapshots /\ SnapshotsGrow
  BY DEF Seed, SnapshotsGrow
<1>5. PICK k \in process[p].missing :
          IF Fits(k)
          THEN /\ active' = [active EXCEPT ![k] = active[k] \cup {Seeded}]
               /\ process' = [process EXCEPT ![p].missing = {}]
               /\ request' = Informed({k})
          ELSE /\ process' = [process EXCEPT ![p] = Down]
               /\ UNCHANGED <<active, request>>
  BY DEF Seed
<1>6. k \in Keys
  BY <1>2, <1>5 DEF StartingProcess
<1>7. CASE Fits(k)
  <2>1. active'[k] = {Seeded} /\ \A x \in Keys \ {k} : active'[x] = active[x]
    BY <1>3, <1>5, <1>6, <1>7 DEF Fits, Configs
  <2>2. Seeded \in Values
    BY <1>3 DEF Seeded, Values
  <2>3. WritesValues({k})
    BY <2>1, <2>2 DEF WritesValues
  <2>4. \A r \in Requests : ReadsOn({k}, r)
    BY <1>5, <1>7 DEF ReadsOn
  <2>5. /\ process'[p] = [process[p] EXCEPT !.missing = {}]
        /\ \A q \in Processes \ {p} : process'[q] = process[q]
    BY <1>3, <1>5, <1>7
  <2>6. process'[p] # Serving /\ process'[p].todo = process[p].todo
    BY <1>2, <2>5 DEF StartingProcess, Serving
  <2>7. ASSUME NEW x \in Keys \ (process'[p].todo \cup process'[p].missing)
        PROVE  active'[x] # {}
    <3>1. CASE x = k
      BY <2>1, <3>1
    <3>2. CASE x # k
      <4>1. x \notin process[p].todo
        BY <2>6, <2>7
      <4>2. CASE x \in process[p].missing
        BY <1>1, <1>2, <1>5, <3>2, <4>2 DEF StartedThrough, Through
      <4>3. CASE x \notin process[p].missing
        BY <1>1, <1>2, <2>1, <2>7, <3>2, <4>1, <4>3 DEF StartedThrough, Through
      <4>4. QED
        BY <4>2, <4>3
    <3>3. QED
      BY <3>1, <3>2
  <2>8. Through(process'[p], active')
    <3>1. process'[p].missing = {}
      BY <1>2, <2>5 DEF StartingProcess
    <3>2. QED
      BY <2>7, <3>1 DEF Through
  <2>9. StartedThrough' /\ ServesComplete
    BY <1>6, <2>3, <2>5, <2>6, <2>8, StartedOne
  <2>10. Effect({k})
    BY <1>4, <2>3, <2>4, <2>9 DEF Effect
  <2>11. QED
    BY <1>6, <2>10
<1>8. CASE ~Fits(k)
  <2>1. WritesValues({}) /\ \A r \in Requests : ReadsOn({}, r)
    BY <1>1, <1>5, <1>8, NothingWritten, RequestsStay
  <2>2. process'[p] = Down /\ \A q \in Processes \ {p} : process'[q] = process[q]
    BY <1>3, <1>5, <1>8
  <2>3. process'[p] # Serving /\ process'[p].stage # "starting"
    BY <2>2 DEF Down, Serving
  <2>4. StartedThrough' /\ ServesComplete
    BY <2>1, <2>2, <2>3, StartedOne
  <2>5. Effect({})
    BY <1>4, <2>1, <2>4 DEF Effect
  <2>6. QED
    BY <2>5
<1>9. QED
  BY <1>7, <1>8

LEMMA CrashEffect ==
    ASSUME AdminInvariant, NEW p \in Processes, Crash(p)
    PROVE  Effect({})
<1>1. TypeOK /\ UNCHANGED <<active, snapshots>>
  BY DEF AdminInvariant, Crash
<1>2. WritesValues({}) /\ SnapshotsGrow
  BY <1>1, NothingWritten DEF SnapshotsGrow
<1>3. \A r \in Requests : request'[r] = Idle \/ request'[r] = request[r]
  BY DEF Crash
<1>4. \A r \in Requests : ReadsOn({}, r)
  BY <1>1, <1>3, NobodyInformed DEF ReadsOn, Idle
<1>5. process'[p] = Down /\ \A q \in Processes \ {p} : process'[q] = process[q]
  BY <1>1, Types DEF Crash
<1>6. process'[p] # Serving /\ process'[p].stage # "starting"
  BY <1>5 DEF Down, Serving
<1>7. StartedThrough' /\ ServesComplete
  BY <1>2, <1>5, <1>6, StartedOne
<1>8. QED
  BY <1>2, <1>4, <1>7 DEF Effect

\* An administrator's snapshot is of one value of every key: the process serves.
LEMMA ManualEffect ==
    ASSUME AdminInvariant, NEW p \in Processes, CreateManualSnapshot(p)
    PROVE  Effect({})
<1>1. TypeOK /\ UNCHANGED <<active, process, request>>
  BY DEF AdminInvariant, CreateManualSnapshot
<1>2. WritesValues({})
  BY <1>1, NothingWritten
<1>3. Complete(active) /\ active \in Configs
  BY <1>1, Types DEF CreateManualSnapshot, AdminInvariant, ValuesInUse
<1>4. SnapshotsGrow
  BY <1>1, <1>3 DEF SnapshotsGrow, CreateManualSnapshot, Complete
<1>5. \A r \in Requests : ReadsOn({}, r)
  BY <1>1, RequestsStay
<1>6. StartedThrough' /\ ServesComplete
  BY <1>1, <1>2, StartedKept
<1>7. QED
  BY <1>2, <1>4, <1>5, <1>6 DEF Effect

\* Reading a key bumps its version, whose value stays.
LEMMA ReadKey ==
    ASSUME AdminInvariant, NEW k \in Keys, active[k] # {}, UNCHANGED active
    PROVE  WritesValues({k})
  BY DEF AdminInvariant, ValuesInUse, WritesValues

LEMMA GetEffect ==
    ASSUME AdminInvariant, NEW k \in Keys, Get(k)
    PROVE  Effect({k})
<1>1. UNCHANGED <<active, snapshots, process>> /\ active[k] # {} /\ request' = Informed({k})
  BY DEF Get
<1>2. WritesValues({k}) /\ SnapshotsGrow
  BY <1>1, ReadKey DEF SnapshotsGrow
<1>3. StartedThrough' /\ ServesComplete
  BY <1>1, <1>2, StartedKept
<1>4. \A r \in Requests : ReadsOn({k}, r)
  BY <1>1 DEF ReadsOn
<1>5. QED
  BY <1>2, <1>3, <1>4 DEF Effect

LEMMA UpdateEffect ==
    ASSUME AdminInvariant, NEW r \in Requests, NEW p \in Processes, NEW k \in Keys,
           Update(r, p, k)
    PROVE  Effect({k})
<1> DEFINE q == [stage |-> "found", by |-> p, key |-> k, value |-> chosen']
<1>1. UNCHANGED <<active, snapshots, process>> /\ active[k] # {}
  BY DEF Update
<1>2. WritesValues({k}) /\ SnapshotsGrow
  BY <1>1, ReadKey DEF SnapshotsGrow
<1>3. StartedThrough' /\ ServesComplete
  BY <1>1, <1>2, StartedKept
<1>4. request' = [Informed({k}) EXCEPT ![r] = q] /\ q.stage = "found"
  BY DEF Update
<1> HIDE DEF q
<1>5. ASSUME NEW x \in Requests
      PROVE  request'[x] = Informed({k})[x] \/ request'[x] = q
  BY <1>4 DEF Informed
<1>6. \A x \in Requests : ReadsOn({k}, x)
  BY <1>4, <1>5 DEF ReadsOn
<1>7. QED
  BY <1>2, <1>3, <1>6 DEF Effect

LEMMA BeginEffect ==
    ASSUME AdminInvariant, NEW r \in Requests,
           \/ BeginSet(r) \/ Abort(r) \/ Retry(r)
           \/ \E p \in Processes, i \in 1..MaxSnapshots : BeginRestore(r, p, i)
    PROVE  Effect({})
<1>1. UNCHANGED <<active, snapshots, process>>
  BY DEF BeginSet, Abort, Retry, BeginRestore
<1>2. TypeOK /\ WritesValues({}) /\ SnapshotsGrow
  BY <1>1, NothingWritten DEF SnapshotsGrow, AdminInvariant
<1>3. StartedThrough' /\ ServesComplete
  BY <1>1, <1>2, StartedKept
<1>4. \A x \in Requests \ {r} : request'[x] = request[x]
  BY <1>2, Types DEF BeginSet, Abort, Retry, BeginRestore
<1>5. \A x \in Requests \ {r} : ReadsOn({}, x)
  BY <1>2, <1>4, NobodyInformed DEF ReadsOn
<1>6. ReadsOn({}, r)
  <2>1. CASE BeginSet(r)
    <3>1. Complete(active) /\ UNCHANGED active
      BY <2>1, OpenComplete DEF BeginSet, Idle
    <3>2. request'[r].read = active /\ request'[r].stage = "set"
      BY <1>2, <2>1, Types DEF BeginSet
    <3>3. QED
      BY <3>1, <3>2 DEF ReadsOn, Complete
  <2>2. CASE Abort(r)
    <3>1. request'[r].stage = "idle"
      BY <1>2, <2>2, Types DEF Abort, Idle
    <3>2. QED
      BY <3>1 DEF ReadsOn
  <2>3. CASE Retry(r)
    <3>1. Complete(active) /\ UNCHANGED active
      BY <2>3, OpenComplete DEF Retry, Idle
    <3>2. request'[r] = [request[r] EXCEPT !.read = active, !.missed = {}]
      BY <1>2, <2>3, Types DEF Retry
    <3>3. CASE request[r].stage = "set"
      <4>1. request[r] \in SetRequest
        BY <1>2, <3>3, RequestStages
      <4>2. request'[r].read = active /\ request'[r].stage = "set"
        BY <3>2, <4>1 DEF SetRequest
      <4>3. QED
        BY <3>1, <4>2 DEF ReadsOn, Complete
    <3>4. CASE request[r].stage = "restore"
      <4>1. request[r] \in RestoreRequest /\ Complete(request[r].configs)
        BY <1>2, <3>4, RequestStages DEF AdminInvariant, ReadCurrent, InTransaction
      <4>2. request'[r].read = active /\ request'[r].configs = request[r].configs
        BY <3>2, <4>1 DEF RestoreRequest
      <4>3. QED
        BY <3>1, <4>1, <4>2 DEF ReadsOn, Complete
    <3>5. QED
      BY <2>3, <3>3, <3>4 DEF Retry
  <2>4. CASE \E p \in Processes, i \in 1..MaxSnapshots : BeginRestore(r, p, i)
    <3>1. PICK p \in Processes, i \in 1..MaxSnapshots : BeginRestore(r, p, i)
      BY <2>4
    <3>2. Complete(snapshots[i]) /\ Complete(active)
      BY <3>1 DEF AdminInvariant, SnapshotsComplete, ValuesInUse, BeginRestore
    <3>3. request'[r].read = active /\ request'[r].configs = snapshots[i]
      BY <1>2, <3>1, Types DEF BeginRestore
    <3>4. QED
      BY <1>1, <3>2, <3>3 DEF ReadsOn, Complete
  <2>5. QED
    BY <2>1, <2>2, <2>3, <2>4
<1>7. QED
  BY <1>2, <1>3, <1>5, <1>6 DEF Effect

\* The key has one value, read and in use, which the new one replaces.
LEMMA SetEffect ==
    ASSUME AdminInvariant, NEW r \in Requests, CommitSet(r)
    PROVE  \E W \in SUBSET Keys : Effect(W)
<1> DEFINE key == request[r].key
           value == request[r].value
           read == request[r].read
<1>1. TypeOK /\ request[r] \in SetRequest
  BY RequestStages DEF AdminInvariant, CommitSet
<1>2. key \in Keys /\ value \in Values /\ read \in Configs
  BY <1>1 DEF SetRequest
<1>3. read[key] = active[key] /\ Complete(read)
  BY <1>2 DEF AdminInvariant, ReadCurrent, InTransaction, CommitSet
<1>4. /\ active' = [active EXCEPT ![key] = (active[key] \ read[key]) \cup {value}]
      /\ snapshots' = Append(snapshots, [read EXCEPT ![key] = {value}])
      /\ request' = [Informed({key}) EXCEPT ![r] = Idle]
      /\ UNCHANGED process
  BY DEF CommitSet
<1> HIDE DEF key, value, read
<1>5. active'[key] = {value} /\ \A k \in Keys \ {key} : active'[k] = active[k]
  BY <1>1, <1>2, <1>3, <1>4, Types DEF Configs
<1>6. WritesValues({key})
  BY <1>2, <1>5 DEF WritesValues
<1>7. Complete([read EXCEPT ![key] = {value}]) /\ [read EXCEPT ![key] = {value}] \in Configs
  BY <1>2, <1>3 DEF Complete, Configs
<1>8. Complete(active)
  BY OpenComplete DEF CommitSet, Idle
<1>9. Complete(active')
  BY <1>2, <1>6, <1>8, ValuesStay
<1>10. SnapshotsGrow
  BY <1>4, <1>7, <1>9 DEF SnapshotsGrow
<1>11. StartedThrough' /\ ServesComplete
  BY <1>2, <1>4, <1>6, StartedKept
<1>12. ASSUME NEW x \in Requests
       PROVE  request'[x] = Informed({key})[x] \/ request'[x] = Idle
  BY <1>4 DEF Informed
<1>13. \A x \in Requests : ReadsOn({key}, x)
  BY <1>12 DEF ReadsOn, Idle
<1>14. Effect({key})
  BY <1>6, <1>10, <1>11, <1>13 DEF Effect
<1>15. QED
  BY <1>2, <1>14

\* Every key is written, so that the transaction has missed none: what it read
\* of each is in use, and the snapshot's value replaces it.
LEMMA WholeRestored ==
    ASSUME AdminInvariant, NEW r \in Requests, CommitRestore(r)
    PROVE  /\ Written(request[r]) = Keys
           /\ active' = request[r].configs
           /\ Complete(request[r].configs) /\ request[r].configs \in Configs
<1>1. TypeOK /\ request[r] \in RestoreRequest
  BY RequestStages DEF AdminInvariant, CommitRestore
<1>2. /\ Complete(request[r].read) /\ Complete(request[r].configs)
      /\ \A k \in Keys \ request[r].missed : request[r].read[k] = active[k]
  BY DEF AdminInvariant, ReadCurrent, InTransaction, CommitRestore
<1>3. Written(request[r]) = Keys
  BY <1>2 DEF Written, Complete
<1>4. \A k \in Keys : request[r].read[k] = active[k]
  BY <1>2, <1>3 DEF CommitRestore
<1>5. active' = [k \in Keys |-> (active[k] \ request[r].read[k]) \cup request[r].configs[k]]
  BY <1>3 DEF CommitRestore
<1>6. request[r].configs \in Configs
  BY <1>1 DEF RestoreRequest
<1>7. active' = request[r].configs
  BY <1>4, <1>5, <1>6 DEF Configs
<1>8. QED
  BY <1>2, <1>3, <1>6, <1>7

LEMMA RestoreEffect ==
    ASSUME AdminInvariant, NEW r \in Requests, CommitRestore(r)
    PROVE  Effect(Keys)
<1>1. /\ Written(request[r]) = Keys /\ active' = request[r].configs
      /\ Complete(request[r].configs) /\ request[r].configs \in Configs
  BY WholeRestored
<1>2. WritesValues(Keys)
  BY <1>1 DEF WritesValues, Complete
<1>3. SnapshotsGrow
  BY <1>1 DEF SnapshotsGrow, CommitRestore, Complete
<1>4. StartedThrough' /\ ServesComplete
  BY <1>2, StartedKept DEF CommitRestore
<1>5. request' = [Informed(Keys) EXCEPT ![r] = Idle]
  BY <1>1 DEF CommitRestore
<1>6. ASSUME NEW x \in Requests
      PROVE  request'[x] = Informed(Keys)[x] \/ request'[x] = Idle
  BY <1>5 DEF Informed
<1>7. \A x \in Requests : ReadsOn(Keys, x)
  BY <1>6 DEF ReadsOn, Idle
<1>8. QED
  BY <1>2, <1>3, <1>4, <1>7 DEF Effect

LEMMA NextEffect ==
    ASSUME AdminInvariant, Next
    PROVE  \E W \in SUBSET Keys : Effect(W)
<1>1. {} \in SUBSET Keys /\ Keys \in SUBSET Keys /\ \A k \in Keys : {k} \in SUBSET Keys
  OBVIOUS
<1>2. CASE \E p \in Processes : Start(p) \/ Look(p) \/ Serve(p) \/ Crash(p)
                                   \/ CreateManualSnapshot(p)
  BY <1>1, <1>2, ProcessEffect, CrashEffect, ManualEffect
<1>3. CASE \E p \in Processes : Seed(p)
  BY <1>3, SeedEffect
<1>4. CASE \E k \in Keys : Get(k)
  BY <1>1, <1>4, GetEffect
<1>5. CASE \E r \in Requests, p \in Processes, k \in Keys : Update(r, p, k)
  BY <1>1, <1>5, UpdateEffect
<1>6. CASE \E r \in Requests : \/ BeginSet(r) \/ Abort(r) \/ Retry(r)
                               \/ \E p \in Processes, i \in 1..MaxSnapshots : BeginRestore(r, p, i)
  BY <1>1, <1>6, BeginEffect
<1>7. CASE \E r \in Requests : CommitSet(r) \/ CommitRestore(r)
  BY <1>1, <1>7, SetEffect, RestoreEffect
<1>8. QED
  BY <1>2, <1>3, <1>4, <1>5, <1>6, <1>7 DEF Next

-----------------------------------------------------------------------------
(* The invariant *)

LEMMA AdminInit == Init => AdminInvariant
<1> SUFFICES ASSUME Init PROVE AdminInvariant
  OBVIOUS
<1>1. TypeOK
  BY AdminConfigAssumption DEF Init, TypeOK, Configs, Down, Idle
<1>2. \A p \in Processes : process[p] = Down /\ process[p] # Serving
                              /\ process[p].stage # "starting"
  BY DEF Init, Down, Serving
<1>3. ValuesInUse /\ SnapshotsComplete /\ StartedThrough
  BY <1>2 DEF Init, ValuesInUse, SnapshotsComplete, StartedThrough
<1>4. ReadCurrent
  BY DEF Init, ReadCurrent, InTransaction, Idle
<1>5. QED
  BY <1>1, <1>3, <1>4 DEF AdminInvariant

LEMMA AdminStep == AdminInvariant /\ [Next]_vars => AdminInvariant'
<1> SUFFICES ASSUME AdminInvariant, [Next]_vars PROVE AdminInvariant'
  OBVIOUS
<1>1. TypeOK'
  BY TypeStep DEF AdminInvariant
<1>2. CASE UNCHANGED vars
  BY <1>2 DEF vars, AdminInvariant, TypeOK, ValuesInUse, SnapshotsComplete, StartedThrough,
              ReadCurrent, InTransaction, Complete, Through
<1>3. CASE Next
  <2>1. PICK W \in SUBSET Keys : Effect(W)
    BY <1>3, NextEffect
  <2>2. QED
    BY <1>1, <2>1, EffectKeeps
<1>4. QED
  BY <1>2, <1>3

LEMMA AdminInvariance == Spec => []AdminInvariant
  BY AdminInit, AdminStep, PTL DEF Spec

\* A key never has two values in use, of which readers would see now one and now
\* the other: a process seeds only a key without one, and a transaction of set
\* or restoreSnapshot retires every value it read, which, unless somebody wrote
\* the key since, are all there are.
THEOREM AdminOneInUse == Spec => []OneInUse
<1>1. ASSUME AdminInvariant
      PROVE  OneInUse
  <2>1. \A v : Cardinality({v}) = 1 /\ Cardinality({}) = 0
    BY FS_Singleton, FS_EmptySet
  <2>2. ASSUME NEW k \in Keys
        PROVE  Cardinality(active[k]) <= 1
    <3>1. CASE active[k] = {}
      BY <2>1, <3>1, FS_EmptySet
    <3>2. CASE \E v \in Values : active[k] = {v}
      <4>1. PICK v \in Values : active[k] = {v}
        BY <3>2
      <4>2. Cardinality(active[k]) = 1
        BY <2>1, <4>1
      <4>3. QED
        BY <4>2
    <3>3. QED
      BY <1>1, <3>1, <3>2 DEF AdminInvariant, ValuesInUse
  <2>3. QED
    BY <1>1, <2>2 DEF OneInUse, AdminInvariant
<1>2. QED
  BY <1>1, AdminInvariance, PTL

\* As soon as a process serves requests every key has a value in use, and every
\* snapshot has one for it: the process has been through all keys in
\* onModuleInit, and no step takes a value without giving another.
THEOREM AdminNothingMissing == Spec => []NothingMissing
<1>1. ASSUME AdminInvariant
      PROVE  NothingMissing
  BY <1>1 DEF AdminInvariant, ValuesInUse, SnapshotsComplete, Complete, NothingMissing
<1>2. QED
  BY <1>1, AdminInvariance, PTL

\* When a restoration commits, the values in use are those of its snapshot: it
\* writes every key, so that no edit committed while it ran survives beside it.
THEOREM AdminRestoredWhole == Spec => RestoredWhole
<1> DEFINE Committed(r) == /\ request[r].stage = "restore"
                           /\ snapshots' = Append(snapshots, request[r].configs)
                           /\ request'[r] = Idle
<1>1. ASSUME AdminInvariant, [Next]_vars, NEW r \in Requests, Committed(r)
      PROVE  active' = request[r].configs
  <2>1. snapshots \in Seq(Configs) /\ TypeOK
    BY <1>1, Types DEF AdminInvariant
  <2>2. snapshots' # snapshots
    BY <1>1, <2>1
  <2>3. CASE CommitRestore(r)
    BY <1>1, <2>3, WholeRestored
  <2>4. CASE ~CommitRestore(r)
    <3>1. request'[r] = Idle /\ request[r].stage = "restore" /\ request[r] # Idle
      BY <1>1 DEF Idle
    <3>2. request' # request
      BY <3>1
    <3>3. PICK x \in Requests : CommitSet(x) \/ CommitRestore(x)
      BY <1>1, <2>2, <3>2
      DEF Next, vars, Start, Look, Seed, Serve, Crash, CreateManualSnapshot, Get, BeginSet,
          Retry, Abort, Update, BeginRestore
    <3>4. x # r
      BY <2>4, <3>1, <3>3 DEF CommitSet
    <3>5. PICK W \in SUBSET Keys : request' = [Informed(W) EXCEPT ![x] = Idle]
      <4>1. CASE CommitSet(x)
        <5>1. request[x] \in SetRequest
          BY <2>1, <4>1, RequestStages DEF CommitSet
        <5>2. {request[x].key} \in SUBSET Keys
          BY <5>1 DEF SetRequest
        <5>3. QED
          BY <4>1, <5>2 DEF CommitSet
      <4>2. CASE CommitRestore(x)
        BY <4>2 DEF CommitRestore, Written
      <4>3. QED
        BY <3>3, <4>1, <4>2
    <3>6. request'[r] = Informed(W)[r]
      BY <3>4, <3>5 DEF Informed
    <3>7. QED
      BY <2>1, <3>1, <3>6, InformedTypes
  <2>5. QED
    BY <2>3, <2>4
<1>2. AdminInvariant /\ [Next]_vars =>
          [\A r \in Requests :
              /\ request[r].stage = "restore"
              /\ snapshots' = Append(snapshots, request[r].configs)
              /\ request'[r] = Idle
              => active' = request[r].configs]_vars
  BY <1>1
<1>3. QED
  BY <1>2, AdminInvariance, PTL DEF Spec, RestoredWhole
=============================================================================
