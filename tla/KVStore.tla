------------------------------ MODULE KVStore ------------------------------
(***************************************************************************)
(* What the code above the block database counts on: a map from keys to    *)
(* values, and for every CTxDB object the set of changes it has made since *)
(* TxnBegin, which it alone sees and which reach the map together or not   *)
(* at all.                                                                 *)
(***************************************************************************)
CONSTANTS Key, Value, NULL, Handle

VARIABLES store, pending

vars == <<store, pending>>

Init ==
  /\ store \in [Key -> Value \cup {NULL}]
  /\ pending = [h \in Handle |-> NULL]

(* What h reads at k. *)
Get(h, k) ==
  IF pending[h] # NULL /\ k \in DOMAIN pending[h] THEN pending[h][k] ELSE store[k]

Begin(h) ==
  /\ pending[h] = NULL
  /\ pending' = [pending EXCEPT ![h] = [k \in {} |-> NULL]]
  /\ UNCHANGED store

(* A change to k; the value NULL removes the key. *)
Set(h, k, v) ==
  \/ /\ pending[h] = NULL
     /\ store' = [store EXCEPT ![k] = v]
     /\ UNCHANGED pending
  \/ /\ pending[h] # NULL
     /\ pending' = [pending EXCEPT ![h] =
                      [x \in DOMAIN pending[h] \cup {k} |->
                         IF x = k THEN v ELSE pending[h][x]]]
     /\ UNCHANGED store

Commit(h) ==
  /\ pending[h] # NULL
  /\ store' = [k \in Key |-> Get(h, k)]
  /\ pending' = [pending EXCEPT ![h] = NULL]

Discard(h) ==
  /\ pending' = [pending EXCEPT ![h] = NULL]
  /\ UNCHANGED store

(* The process dies. *)
Crash ==
  /\ pending' = [h \in Handle |-> NULL]
  /\ UNCHANGED store

Next ==
  \/ \E h \in Handle : Begin(h) \/ Commit(h) \/ Discard(h)
  \/ \E h \in Handle, k \in Key, v \in Value \cup {NULL} : Set(h, k, v)
  \/ Crash

Spec == Init /\ [][Next]_vars
============================================================================
