------------------------------ MODULE Replicas ------------------------------
(***************************************************************************)
(* What replicating the writes promises, whatever the messages do:         *)
(* a node holds of a writer only what that writer has signed, all of it    *)
(* from the first write on, and goes on from there.  Of a forked history   *)
(* it stays on the branch it has seen first.  Only a restart, or taking    *)
(* over another state, begins a new life of a node, and with it anew.      *)
(*                                                                         *)
(* A write is its history; see Ledger.                                     *)
(***************************************************************************)
EXTENDS Integers, Sequences

CONSTANTS Node, Writer

VARIABLES
  signed,   \* per writer the writes it has signed
  held,     \* per node and writer the last write held, <<>> if none is
  life      \* per node how often it has begun anew

vars == <<signed, held, life>>

Init ==
  /\ signed = [w \in Writer |-> {}]
  /\ held = [n \in Node |-> [w \in Writer |-> <<>>]]
  /\ life = [n \in Node |-> 0]

(* At most one more write is signed, after one of that writer or as its    *)
(* first.                                                                  *)
MaySign ==
  \/ UNCHANGED signed
  \/ \E w \in Writer :
       \E v \in signed'[w] \ signed[w] :
         /\ signed' = [signed EXCEPT ![w] = @ \cup {v}]
         /\ v # <<>> /\ SubSeq(v, 1, Len(v) - 1) \in signed[w] \cup {<<>>}

IsPrefixOf(v, w) == Len(v) <= Len(w) /\ SubSeq(w, 1, Len(v)) = v

(* Node n learns more.                                                     *)
Learn(n) ==
  /\ MaySign
  /\ \A m \in Node \ {n} : held'[m] = held[m]
  /\ \A w \in Writer :
       /\ held'[n][w] \in signed'[w] \cup {<<>>}
       /\ IsPrefixOf(held[n][w], held'[n][w])
  /\ UNCHANGED life

(* Node n begins anew.                                                     *)
Anew(n) ==
  /\ life' = [life EXCEPT ![n] = @ + 1]
  /\ \A m \in Node \ {n} : held'[m] = held[m]
  /\ \A w \in Writer : held'[n][w] \in signed[w] \cup {<<>>}
  /\ UNCHANGED signed

Next == \E n \in Node : Learn(n) \/ Anew(n)

Spec == Init /\ [][Next]_vars

=============================================================================
