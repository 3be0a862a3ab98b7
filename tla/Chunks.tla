------------------------------- MODULE Chunks -------------------------------
(***************************************************************************)
(* A message too long for one event is cut into parts and put together     *)
(* again where they arrive (src/sync/chunk.ts).                            *)
(*                                                                         *)
(* A message is identified by its sender and a number.  Of a payload only  *)
(* the number of its characters matters, taken to be bytes too.  Times are *)
(* ages.  Which of several partial messages of the same age goes first is  *)
(* left open.  More than 4096 messages are not completed in the time that  *)
(* the reassembler remembers them.                                         *)
(*                                                                         *)
(* A definition X_Fault is X with a fault that X could have had; no        *)
(* specification uses it.                                                  *)
(***************************************************************************)
EXTENDS Integers, FiniteSets, Sequences, Sums

CONSTANTS
  MaxContent,   \* characters of one event
  MaxParts,     \* parts of one message
  MaxPartial,   \* messages of one sender that are in the making
  MaxBytes,     \* characters of all parts that are kept
  ChunkTtl      \* the age up to which a partial or a complete message is kept

ASSUME ChunksAssumption ==
  /\ {MaxContent, MaxParts, MaxPartial, MaxBytes} \subseteq Nat \ {0}
  /\ ChunkTtl \in Nat

ceil(n, d) == (n + d - 1) \div d

(* The lengths of the parts of a payload in base64, <<>> if there are more *)
(* than a receiver takes.  One part is an event of its own.                *)
splitPayload(size) ==
  LET b64 == 4 * ceil(size, 3)
      n == ceil(b64, MaxContent)
  IN  IF size <= MaxContent THEN <<size>>
      ELSE IF n > MaxParts THEN <<>>
      ELSE [i \in 1..n |-> IF i < n THEN MaxContent ELSE b64 - (n - 1) * MaxContent]

-----------------------------------------------------------------------------
(* The reassembler: what is in the making, and what was completed.         *)

Empty == [partials |-> {}, done |-> {}]

Reassembler(Msg) ==
  [partials : SUBSET [msg : Msg, total : 1..MaxParts, have : SUBSET (1..MaxParts),
                      bytes : Nat, age : 0..(ChunkTtl + 1)],
   done : SUBSET [msg : Msg, age : 0..(ChunkTtl + 1)]]

buffered(ps) == sumOf([p \in ps |-> p.bytes], ps)

of(ps, sender) == {p \in ps : p.msg[1] = sender}

oldest(ps) == {p \in ps : \A q \in ps : q.age <= p.age}

(* What has gone quiet, and what was completed long ago, is forgotten.     *)
sweep(r) ==
  [partials |-> {p \in r.partials : p.age <= ChunkTtl},
   done |-> {d \in r.done : d.age <= ChunkTtl}]

(* Fault: the limit is not kept.                                           *)
shed_Fault(ps) == {ps}

(* What may be left of ps once the oldest have made room for the others:   *)
(* nothing younger went before something older, and without the last of    *)
(* those that went there was still no room.                                *)
shed(ps) ==
  {qs \in SUBSET ps :
     /\ buffered(qs) <= MaxBytes
     /\ \A p \in ps \ qs : \A q \in qs : q.age <= p.age
     /\ qs = ps \/ \E p \in ps \ qs : /\ \A o \in ps \ qs : p.age <= o.age
                                      /\ buffered(qs \cup {p}) > MaxBytes}

Outcome(partials, done, whole) ==
  [reasm |-> [partials |-> partials, done |-> done], whole |-> whole]

(* Fault: what was completed is not remembered.                            *)
complete_Fault(ps, done, p) == Outcome(ps \ {p}, done, TRUE)

(* The last part completes the message.                                    *)
complete(ps, done, p) == Outcome(ps \ {p}, done \cup {[msg |-> p.msg, age |-> 0]}, TRUE)

(* Fault: a part counts whether it was there already or not.               *)
withPart_Fault(p, index, len) ==
  [p EXCEPT !.have = @ \cup {Cardinality(@) + 1}, !.bytes = @ + len, !.age = 0]

withPart(p, index, len) ==
  IF index \in p.have THEN [p EXCEPT !.age = 0]
  ELSE [p EXCEPT !.have = @ \cup {index}, !.bytes = @ + len, !.age = 0]

(* Fault: one too few of a sender.                                         *)
roomFor_Fault(others, sender) ==
  IF Cardinality(of(others, sender)) + 1 < MaxPartial THEN {others}
  ELSE {others \ {o} : o \in oldest(of(others, sender))}

(* The others of which there is room for one more of this sender.          *)
roomFor(others, sender) ==
  IF Cardinality(of(others, sender)) < MaxPartial THEN {others}
  ELSE {others \ {o} : o \in oldest(of(others, sender))}

(* accept: what may come of part index of total of a message.  Another     *)
(* total than before starts the message anew.                              *)
accept(r, msg, index, total, len) ==
  LET s == sweep(r)
      others == {p \in s.partials : p.msg # msg}
      mine == {p \in s.partials : p.msg = msg /\ p.total = total}
      new == [msg |-> msg, total |-> total, have |-> {}, bytes |-> 0, age |-> 0]
      p == withPart(IF mine = {} THEN new ELSE CHOOSE q \in mine : TRUE, index, len)
      kept == UNION {shed(qs \cup {p}) :
                       qs \in IF mine = {} THEN roomFor(others, msg[1]) ELSE {others}}
  IN  IF total \notin 1..MaxParts \/ index \notin 1..total THEN {Outcome(r.partials, r.done, FALSE)}
      ELSE IF \E d \in s.done : d.msg = msg THEN {Outcome(s.partials, s.done, FALSE)}
      ELSE {IF p \in ps /\ Cardinality(p.have) = total THEN complete(ps, s.done, p)
            ELSE Outcome(ps, s.done, FALSE) : ps \in kept}

(* All ages grow, up to where they make no difference any more.            *)
olderBy1(r) ==
  LET older(x) == [x EXCEPT !.age = IF @ > ChunkTtl THEN @ ELSE @ + 1]
  IN  [partials |-> {older(p) : p \in r.partials}, done |-> {older(d) : d \in r.done}]

=============================================================================
