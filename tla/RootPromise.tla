---------------------------- MODULE RootPromise ----------------------------
(***************************************************************************)
(* What the state root promises: it gets one host identity, once, and a    *)
(* process works only in a root that has it.  A foreign root is never      *)
(* given one.                                                              *)
(***************************************************************************)
CONSTANTS Processes, Hosts, Nil

VARIABLES
  foreign,     \* the root belongs to something else
  published,   \* the identity of the root
  users        \* processes with an open connection

promise == <<foreign, published, users>>

Init == foreign \in BOOLEAN /\ published = Nil /\ users = {}

Publish ==
  /\ ~ foreign /\ published = Nil
  /\ published' \in Hosts
  /\ UNCHANGED <<foreign, users>>

Open ==
  /\ published # Nil
  /\ \E p \in Processes \ users : users' = users \union {p}
  /\ UNCHANGED <<foreign, published>>

Leave ==
  /\ \E p \in users : users' = users \ {p}
  /\ UNCHANGED <<foreign, published>>

Next == Publish \/ Open \/ Leave
Spec == Init /\ [][Next]_promise
=============================================================================
