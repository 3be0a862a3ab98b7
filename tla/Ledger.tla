------------------------------- MODULE Ledger -------------------------------
(***************************************************************************)
(* What one node holds of one writer's chain of writes, and what becomes   *)
(* of it when a write arrives (src/ledger/ledger.ts, WriterChain in        *)
(* src/chain/writer.ts).                                                   *)
(*                                                                         *)
(* The id of a write commits to the write before it, so a write is its     *)
(* history: the sequence of the contents from the writer's first write to  *)
(* itself.  Its seq is its length less one, its prev all but its last      *)
(* element, and <<>> is the null that stands before a first write.         *)
(*                                                                         *)
(* Every write is signed by its writer and carries its proofs, so what     *)
(* verifyWrite rejects never appears; plots are left out.  A chain is      *)
(* pruned below base, and tip is the last write held or, with none held,   *)
(* the pruned one below the base.  pend holds writes ahead of the chain.   *)
(*                                                                         *)
(* A definition X_Fault is X with a fault that X could have had; no        *)
(* specification uses it.                                                  *)
(***************************************************************************)
EXTENDS Integers, Sequences

seq(w) == Len(w) - 1
upTo(w, n) == SubSeq(w, 1, n)
prev(w) == upTo(w, Len(w) - 1)
Extends(w, v) == Len(v) <= Len(w) /\ upTo(w, Len(v)) = v

(* Writes of which no two have one seq.                                    *)
OnePerSeq(S) == \A v, w \in S : Len(v) = Len(w) => v = w

EmptyLog == [base |-> 0, tip |-> <<>>, pend |-> {}]

Log(Write) ==
  {l \in [base : Nat, tip : Write \cup {<<>>}, pend : SUBSET Write] :
     l.base <= Len(l.tip) /\ OnePerSeq(l.pend)}

-----------------------------------------------------------------------------
(* What a log holds.                                                       *)

nextSeq(l) == Len(l.tip)
at(l, s) == upTo(l.tip, s + 1)

(* The applied writes from seq s on, as far down as they are held.         *)
writesFrom(l, s) == {at(l, i) : i \in {j \in l.base..(nextSeq(l) - 1) : j >= s}}

(* The id at seq s, <<>> if there is none or it is not known any more.     *)
idAt(l, s) ==
  IF s >= l.base - 1 /\ s >= 0 /\ s < nextSeq(l) THEN at(l, s) ELSE <<>>

(* What is held at the seq of w, at or above the base: applied or waiting. *)
existing(l, w) ==
  IF seq(w) < nextSeq(l) THEN {at(l, seq(w))} ELSE {p \in l.pend : Len(p) = Len(w)}

-----------------------------------------------------------------------------
(* apply: the log after a write has arrived, what was appended, whether it *)
(* was only buffered, and whether it proves a fork.                        *)

Result(l, applied, buffered, fork) ==
  [log |-> l, applied |-> applied, buffered |-> buffered, fork |-> fork]

(* The waiting writes that follow on w without a gap or a break.           *)
Linked(l, w) ==
  {p \in l.pend : /\ Extends(p, w)
                  /\ \A n \in (Len(w) + 1)..Len(p) : upTo(p, n) \in l.pend}

(* Fault: what is waiting stays where it is.                               *)
drain_Fault(l, w) == Result([l EXCEPT !.tip = w], {w}, FALSE, FALSE)

(* w is appended, and with it what was waiting for it.  If the next one    *)
(* that waits does not link, it is dropped and apply fails: then nothing   *)
(* is reported as applied.                                                 *)
drain(l, w) ==
  LET run == Linked(l, w) \cup {w}
      last == CHOOSE p \in run : \A q \in run : Len(q) <= Len(p)
      broken == {p \in l.pend \ run : Len(p) = Len(last) + 1}
  IN  Result([base |-> l.base, tip |-> last, pend |-> l.pend \ (run \cup broken)],
             IF broken = {} THEN run ELSE {}, FALSE, FALSE)

linksTo(l, w) == prev(w) = l.tip

(* Nothing happens to a write below the base, which is settled, nor to one *)
(* that is there already.  Another one in its place proves a fork.         *)
apply(l, w) ==
  CASE seq(w) < l.base -> Result(l, {}, FALSE, FALSE)
    [] seq(w) >= l.base /\ existing(l, w) # {} ->
         Result(l, {}, FALSE, w \notin existing(l, w))
    [] seq(w) > nextSeq(l) /\ existing(l, w) = {} ->
         Result([l EXCEPT !.pend = @ \cup {w}], {}, TRUE, FALSE)
    [] seq(w) = nextSeq(l) /\ existing(l, w) = {} /\ linksTo(l, w) -> drain(l, w)
    [] OTHER -> Result(l, {}, FALSE, FALSE)

(* The length of the longest of S.                                         *)
longest(S) == CHOOSE n \in {0} \cup {Len(w) : w \in S} : \A w \in S : Len(w) <= n

(* What has come of some writes, and then of w.                            *)
Then(r, w) ==
  LET q == apply(r.log, w)
  IN  Result(q.log, r.applied \cup q.applied, r.buffered \/ q.buffered, r.fork \/ q.fork)

(* The writes of S, of which no two have one seq, one by one from the      *)
(* lowest on.  f[n] is what comes of those up to length n.                 *)
applyAll(l, S) ==
  LET f[n \in 0..longest(S)] ==
        IF n = 0 THEN Result(l, {}, FALSE, FALSE)
        ELSE IF \A w \in S : Len(w) # n THEN f[n - 1]
        ELSE Then(f[n - 1], CHOOSE w \in S : Len(w) = n)
  IN  f[longest(S)]

(* Rows are pairs of a write and the number of rows of its seq before it.  *)
(* Those of one seq come one by one; once one of them has changed the log, *)
(* the others do not.                                                      *)
round(l, rows) ==
  LET taken == {r \in rows : apply(l, r[1]).log # l}
      first == CHOOSE r \in taken : \A q \in taken : r[2] <= q[2]
  IN  IF taken = {} THEN l ELSE apply(l, first[1]).log

(* The rows by seq, those of one seq in the order of writing.              *)
replay(l, rows) ==
  LET f[n \in 0..longest({r[1] : r \in rows})] ==
        IF n = 0 THEN l ELSE round(f[n - 1], {r \in rows : Len(r[1]) = n})
  IN  f[longest({r[1] : r \in rows})]

-----------------------------------------------------------------------------
(* Checkpoints: a log from the head h of one on.                           *)

(* Fault: only the base moves.                                             *)
seedCheckpoint_Fault(l, h) == IF h = <<>> THEN l ELSE [l EXCEPT !.base = Len(h)]

(* seedCheckpoint: whatever was held above h goes, and what was waiting.   *)
seedCheckpoint(l, h) == IF h = <<>> THEN l ELSE [base |-> Len(h), tip |-> h, pend |-> {}]

(* Fault: what is held above h is not linked onto the new base.            *)
pruneBelow_Fault(l, h) == IF Len(h) <= l.base THEN l ELSE [l EXCEPT !.base = Len(h), !.tip = h]

(* pruneBelow: what is held above h is linked onto the new base, if it     *)
(* links.  What is waiting stays.                                          *)
pruneBelow(l, h) ==
  IF l.tip = <<>> \/ Len(h) <= l.base THEN l
  ELSE [base |-> Len(h), tip |-> IF Extends(l.tip, h) THEN l.tip ELSE h, pend |-> l.pend]

=============================================================================
