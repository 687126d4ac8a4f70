----------------------------- MODULE AdminConfig -----------------------------
(***************************************************************************)
(* The configuration administrators edit: versions of keyed values, at     *)
(* most one of a key in use (a partial unique index), and snapshots of the *)
(* values in use.  A process seeds missing keys as it starts; afterwards   *)
(* set and restoreSnapshot run as transactions on a snapshot of their own, *)
(* which a version retired, inserted or bumped (lastUsedAt) by another     *)
(* since then makes fail and run again.                                    *)
(***************************************************************************)
EXTENDS Naturals, FiniteSets, Sequences

CONSTANTS
    Keys,          \* SEED_CONFIGS
    Processes,     \* processes that serve requests
    Requests,      \* bound: requests of administrators open at one time
    MaxValues,     \* bound: values administrators choose
    MaxSnapshots,  \* bound: snapshots taken
    MaxCrashes     \* bound: processes that stop

ASSUME AdminConfigAssumption == {MaxValues, MaxSnapshots, MaxCrashes} \subseteq Nat

VARIABLES
    active,     \* active[k]: the values of k in use
    snapshots,  \* the snapshots, oldest first
    process,    \* process[p]: down, starting or serving
    request,    \* request[r]: the administrator's request r
    chosen,     \* number of the last value chosen
    crashes

vars == <<active, snapshots, process, request, chosen, crashes>>

\* The value a key is seeded with; administrators choose 1, 2, ...
Seeded == 0
Values == Seeded..MaxValues

Configs == [Keys -> SUBSET Values]

Down == [stage |-> "down"]
Serving == [stage |-> "serving"]
Starting(todo, missing) == [stage |-> "starting", todo |-> todo, missing |-> missing]

Idle == [stage |-> "idle"]

TypeOK ==
    /\ active \in Configs
    /\ snapshots \in Seq(Configs) /\ Len(snapshots) <= MaxSnapshots
    /\ process \in [Processes -> {Down, Serving}
                       \cup [stage: {"starting"}, todo: SUBSET Keys, missing: SUBSET Keys]]
    /\ request \in [Requests -> {Idle}
                       \cup [stage: {"found"}, by: Processes, key: Keys, value: Values]
                       \cup [stage: {"set"}, by: Processes, key: Keys, value: Values,
                             read: Configs, missed: SUBSET Keys]
                       \cup [stage: {"restore"}, by: Processes, configs: Configs,
                             read: Configs, missed: SUBSET Keys]]
    /\ \A r \in Requests : request[r] # Idle => process[request[r].by] = Serving
    /\ chosen \in 0..MaxValues
    /\ crashes \in 0..MaxCrashes

Init ==
    /\ active = [k \in Keys |-> {}]
    /\ snapshots = <<>>
    /\ process = [p \in Processes |-> Down]
    /\ request = [r \in Requests |-> Idle]
    /\ chosen = 0
    /\ crashes = 0

\* The requests once versions of the keys were written: a transaction that
\* read them before has missed it.
Informed(keys) ==
    [r \in Requests |->
        IF request[r].stage \in {"set", "restore"}
        THEN [request[r] EXCEPT !.missed = @ \cup keys] ELSE request[r]]

-----------------------------------------------------------------------------
(* onModuleInit *)

Start(p) ==
    /\ process[p] = Down
    /\ process' = [process EXCEPT ![p] = Starting(Keys, {})]
    /\ UNCHANGED <<active, snapshots, request, chosen, crashes>>

\* Whether the next key has a version in use ...
Look(p) ==
    /\ process[p].stage = "starting"
    /\ process[p].missing = {}
    /\ \E k \in process[p].todo :
          process' = [process EXCEPT ![p] =
                        Starting(@.todo \ {k}, IF active[k] = {} THEN {k} ELSE {})]
    /\ UNCHANGED <<active, snapshots, request, chosen, crashes>>

\* Mutant: no index is unique.
AnyFits(k) == k \in Keys

\* The partial unique index lets a version of k be in use.
Fits(k) == active[k] = {}

\* ... and, if not, its creation, which fails if another process was faster:
\* the process then does not start.
Seed(p) ==
    /\ process[p].stage = "starting"
    /\ \E k \in process[p].missing :
          IF Fits(k)
          THEN /\ active' = [active EXCEPT ![k] = @ \cup {Seeded}]
               /\ process' = [process EXCEPT ![p].missing = {}]
               /\ request' = Informed({k})
          ELSE /\ process' = [process EXCEPT ![p] = Down]
               /\ UNCHANGED <<active, request>>
    /\ UNCHANGED <<snapshots, chosen, crashes>>

\* Mutant: the keys are seeded in the background.
ServeEarly(p) ==
    /\ process[p].stage = "starting"
    /\ process[p].missing = {}
    /\ process' = [process EXCEPT ![p] = Serving]
    /\ UNCHANGED <<active, snapshots, request, chosen, crashes>>

Serve(p) ==
    /\ process[p] = Starting({}, {})
    /\ process' = [process EXCEPT ![p] = Serving]
    /\ UNCHANGED <<active, snapshots, request, chosen, crashes>>

\* Mutant: an open transaction outlives its process.
CrashAlone(p) ==
    /\ process[p] # Down
    /\ crashes < MaxCrashes
    /\ crashes' = crashes + 1
    /\ process' = [process EXCEPT ![p] = Down]
    /\ UNCHANGED <<active, snapshots, request, chosen>>

\* The requests of a process end with it; open transactions are aborted.
Crash(p) ==
    /\ process[p] # Down
    /\ crashes < MaxCrashes
    /\ crashes' = crashes + 1
    /\ process' = [process EXCEPT ![p] = Down]
    /\ request' = [r \in Requests |->
                     IF request[r] # Idle /\ request[r].by = p THEN Idle ELSE request[r]]
    /\ UNCHANGED <<active, snapshots, chosen>>

-----------------------------------------------------------------------------
(* Reading and editing *)

\* get and getFull bump lastUsedAt of the version they return.
Get(k) ==
    /\ \E p \in Processes : process[p] = Serving
    /\ active[k] # {}
    /\ request' = Informed({k})
    /\ UNCHANGED <<active, snapshots, process, chosen, crashes>>

\* PUT :key finds the key ...
Update(r, p, k) ==
    /\ request[r] = Idle
    /\ process[p] = Serving
    /\ active[k] # {}
    /\ chosen < MaxValues
    /\ chosen' = chosen + 1
    /\ request' = [Informed({k}) EXCEPT
                     ![r] = [stage |-> "found", by |-> p, key |-> k, value |-> chosen']]
    /\ UNCHANGED <<active, snapshots, process, crashes>>

\* ... and opens the transaction of set.
BeginSet(r) ==
    LET q == request[r]
    IN  /\ q.stage = "found"
        /\ request' = [request EXCEPT ![r] =
              [stage |-> "set", by |-> q.by, key |-> q.key, value |-> q.value,
               read |-> active, missed |-> {}]]
        /\ UNCHANGED <<active, snapshots, process, chosen, crashes>>

\* The versions it read of the key are retired, one is inserted, and all
\* values in use as the transaction sees them make an automatic snapshot.
CommitSet(r) ==
    LET q == request[r]
        new == [q.read EXCEPT ![q.key] = {q.value}]
    IN  /\ q.stage = "set"
        /\ q.key \notin q.missed
        /\ Len(snapshots) < MaxSnapshots
        /\ active' = [active EXCEPT ![q.key] = (@ \ q.read[q.key]) \cup {q.value}]
        /\ snapshots' = Append(snapshots, new)
        /\ request' = [Informed({q.key}) EXCEPT ![r] = Idle]
        /\ UNCHANGED <<process, chosen, crashes>>

CreateManualSnapshot(p) ==
    /\ process[p] = Serving
    /\ Len(snapshots) < MaxSnapshots
    /\ snapshots' = Append(snapshots, active)
    /\ UNCHANGED <<active, process, request, chosen, crashes>>

BeginRestore(r, p, i) ==
    /\ request[r] = Idle
    /\ process[p] = Serving
    /\ i \in DOMAIN snapshots
    /\ request' = [request EXCEPT ![r] =
          [stage |-> "restore", by |-> p, configs |-> snapshots[i],
           read |-> active, missed |-> {}]]
    /\ UNCHANGED <<active, snapshots, process, chosen, crashes>>

\* Mutant: only the keys whose value changes are written.
WrittenChanged(q) == {k \in Keys : q.read[k] # q.configs[k]}

\* The keys whose versions the restoration retires or inserts.
Written(q) == {k \in Keys : q.read[k] \cup q.configs[k] # {}}

\* Every version in use that the transaction read is retired, the snapshot's
\* are inserted, and the restoration is recorded as a snapshot.
CommitRestore(r) ==
    LET q == request[r]
    IN  /\ q.stage = "restore"
        /\ Written(q) \cap q.missed = {}
        /\ Len(snapshots) < MaxSnapshots
        /\ active' = [k \in Keys |-> IF k \in Written(q)
                                     THEN (active[k] \ q.read[k]) \cup q.configs[k]
                                     ELSE active[k]]
        /\ snapshots' = Append(snapshots, q.configs)
        /\ request' = [Informed(Written(q)) EXCEPT ![r] = Idle]
        /\ UNCHANGED <<process, chosen, crashes>>

\* A write conflict: the driver runs the callback again.
Retry(r) ==
    LET q == request[r]
    IN  /\ \/ q.stage = "set" /\ q.key \in q.missed
           \/ q.stage = "restore" /\ Written(q) \cap q.missed # {}
        /\ request' = [request EXCEPT ![r].read = active, ![r].missed = {}]
        /\ UNCHANGED <<active, snapshots, process, chosen, crashes>>

\* The request fails: nothing of it is written.
Abort(r) ==
    /\ request[r] # Idle
    /\ request' = [request EXCEPT ![r] = Idle]
    /\ UNCHANGED <<active, snapshots, process, chosen, crashes>>

Next ==
    \/ \E p \in Processes :
          \/ Start(p) \/ Look(p) \/ Seed(p) \/ Serve(p) \/ Crash(p)
          \/ CreateManualSnapshot(p)
    \/ \E k \in Keys : Get(k)
    \/ \E r \in Requests :
          \/ BeginSet(r) \/ CommitSet(r) \/ CommitRestore(r) \/ Retry(r) \/ Abort(r)
          \/ \E p \in Processes, k \in Keys : Update(r, p, k)
          \/ \E p \in Processes, i \in 1..MaxSnapshots : BeginRestore(r, p, i)

Spec == Init /\ [][Next]_vars

-----------------------------------------------------------------------------
(* Properties *)

\* However processes start and administrators edit at one time, a key never has
\* two values in use, of which readers would see now one and now the other; and
\* requests are in progress in processes that serve only.
OneInUse ==
    /\ TypeOK
    /\ \A k \in Keys : Cardinality(active[k]) <= 1

\* As soon as a process serves requests, every key has a value in use, and
\* every snapshot has one for it: no restoration makes a key disappear and the
\* commission or the market hours fall back to their defaults unnoticed.
NothingMissing ==
    (\E p \in Processes : process[p] = Serving) \/ snapshots # <<>> =>
        \A k \in Keys :
            /\ active[k] # {}
            /\ \A i \in DOMAIN snapshots : snapshots[i][k] # {}

\* A restoration is all or nothing: when it commits, the values in use are
\* those of the snapshot, none of an edit committed while it ran among them.
RestoredWhole ==
    [][\A r \in Requests :
          /\ request[r].stage = "restore"
          /\ snapshots' = Append(snapshots, request[r].configs)
          /\ request'[r] = Idle
          => active' = request[r].configs]_vars
=============================================================================
