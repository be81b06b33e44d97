----------------------------- MODULE HashTable -----------------------------
(***************************************************************************)
(* What the server takes a uthash table to be: the elements in the order   *)
(* they were added, each under the key it was added with.  Two elements    *)
(* may have one key.  Context is written on top of this specification.     *)
(***************************************************************************)
EXTENDS Sequences, SequencesExt

CONSTANTS Obj, Key, NULL

VARIABLES
  order,  \* the elements of the table, in the order of their addition
  key     \* the key of each of them, NULL for the others

HInit == order = <<>> /\ key = [o \in Obj |-> NULL]

AddTo(o, k) ==
  /\ key[o] = NULL
  /\ order' = Append(order, o)
  /\ key' = [key EXCEPT ![o] = k]

DeleteFrom(o) ==
  /\ key[o] # NULL
  /\ \E i \in DOMAIN order : order[i] = o /\ order' = RemoveAt(order, i)
  /\ key' = [key EXCEPT ![o] = NULL]

HNext == \E o \in Obj : DeleteFrom(o) \/ \E k \in Key : AddTo(o, k)

HSpec == HInit /\ [][HNext]_<<order, key>>
============================================================================
