------------------------------ MODULE KvReads ------------------------------
(***************************************************************************)
(* What the clients of a cluster whose number of replicas never changes    *)
(* read: a Get is answered from the replica's own database                 *)
(* (server.rs:63-68), also while the replica is recovering.  The values    *)
(* alone do not tell whether a read goes back in time, because a key may   *)
(* have the same value, or none, at several points of the log.  So the     *)
(* history variable shown remembers, for each key of each replica, how far *)
(* in the log its value has come.                                          *)
(***************************************************************************)
EXTENDS KvServer

VARIABLE shown      \* shown[n][k]: the index of the log that n shows k at

\* The value of k after i commands of the only configuration.
ValueAt(k, i) == ExpectedState(1, i)[k]

\* n shows every key at least at the index that update_database has just reached.
Reached(n, k) == IF applied'[n] > shown[n][k] THEN applied'[n] ELSE shown[n][k]

\* The indexes from i on that a value v of k may be that of.
Later(k, v, i) == {j \in i .. Len(log[1]) : ValueAt(k, j) = v}

\* A new value is that of the first index it can be of, which is where
\* update_database is, unless the replica crashes in the middle of a snapshot.
Follow(n, k) ==
    LET later == Later(k, db'[n][k], Reached(n, k))
    IN  IF db'[n][k] = db[n][k] \/ later = {}
        THEN Reached(n, k)
        ELSE CHOOSE j \in later : \A i \in later : j <= i

readVars == <<vars, shown>>

ReadsInit == Init /\ shown = [n \in Node |-> [k \in Key |-> 0]]

ReadsNext == Next /\ shown' = [n \in Node |-> [k \in Key |-> Follow(n, k)]]

ReadsSpec == ReadsInit /\ [][ReadsNext]_readVars

FairReadsSpec == ReadsSpec /\ Fairness

-----------------------------------------------------------------------------
\* A replica's own reads never go back in time: when the value of a key changes, it
\* changes to that of an index no smaller than the one last shown, and decided, also
\* across a crash and the replay that follows it.  It is the compaction of
\* server.rs:281-285 that keeps the replay from passing through old values, such as
\* that of a key which was deleted since.
MonotonicReads ==
    [][\A n \in Node, k \in Key :
          db'[n][k] # db[n][k] =>
              \E j \in shown[n][k] .. Decided(n) : ValueAt(k, j) = db'[n][k]]_readVars
=============================================================================
