-------------------------- MODULE Transport_proofs --------------------------
(***************************************************************************)
(* Theorems of the transport, for any number of peers and relays, any      *)
(* limits and any settings: what holds of the subscriptions, the           *)
(* connections, the pins and the reassembler however events arrive.        *)
(***************************************************************************)
EXTENDS Transport, Sums_proofs, FiniteSetTheorems, WellFoundedInduction, TLAPS

Age == 0..Never
PartAge == 0..(ChunkTtl + 1)

Setting ==
  [via : SUBSET Relay, says : [Peer -> Nat], sizes : SUBSET (Nat \ {0}), announces : [Peer -> Nat],
   pins : SUBSET Peer, closes : Nat, losses : Nat, leaves : Nat]

Message == [parts : Seq(Nat), vote : Checkpoint, arrived : SUBSET Nat, age : PartAge,
            late : BOOLEAN, heard : 0..2]

Presence == [kind : {"presence"}, from : Peer, age : Age]
Frame(s) == [kind : {"frame"}, msg : DOMAIN s, index : Nat]

(* What is counted down and what is remembered of the peers.               *)
SignsOK ==
  /\ left \in Setting
  /\ seen \in [Peer -> Age] /\ lastFrame \in [Peer -> Age] /\ presences \in [Peer -> Age]

(* A relay is armed once: of its armings only the last can be open, then   *)
(* none is due, and after destroy all are closed.                          *)
RelaysOK ==
  /\ joined \in BOOLEAN
  /\ relaySubs \in [Relay -> Nat] /\ arms \in [Relay -> Nat] /\ timers \in [Relay -> Nat]
  /\ \A x \in live : x[1] \in left.via /\ x[2] \in 1..arms[x[1]]
  /\ \A r \in Relay \ left.via : timers[r] = 0 /\ relaySubs[r] = 0
  /\ \A r \in left.via :
       /\ relaySubs[r] \in {0, arms[r]} /\ (~joined => relaySubs[r] = 0)
       /\ timers[r] <= 1 /\ (timers[r] = 1 => relaySubs[r] = 0)
       /\ \A k \in 1..arms[r] : <<r, k>> \notin closed => k = relaySubs[r]

(* Connections, votes and pins, of links o with these pins.                *)
Connected(o) ==
  /\ o.active \subseteq Peer /\ o.conns = o.active
  /\ o.offers \in [Peer -> Checkpoint \cup {None}]
  /\ \A p \in Peer \ o.conns : o.offers[p] = None
InRoom(o, pinnedToo) ==
  pinnedToo \subseteq o.active /\ Cardinality(o.active \ pinnedToo) <= MaxPeers

LinksOK ==
  /\ pinned \subseteq Peer /\ known \subseteq Peer
  /\ Connected(TheLinks)
  /\ joined => known \subseteq pinned /\ InRoom(TheLinks, pinned)

(* What was said and what is on its way.                                   *)
SaidOK(s, l) ==
  \A m \in DOMAIN s : /\ m \in Peer \X Nat /\ m[2] > l.says[m[1]]
                      /\ s[m] \in Message /\ Len(s[m].parts) <= MaxParts
                      /\ s[m].heard > 0 => s[m].arrived # {}
AirOK(a, s) ==
  \A x \in a : /\ x = <<x[1], x[2]>>
               /\ \/ x[2] \in Presence
                  \/ x[2] \in Frame(s) /\ x[2].index \in DOMAIN s[x[2].msg].parts

(* What the reassembler has of the messages s.                             *)
PartialOK(p, s) ==
  /\ p \in [msg : DOMAIN s, total : 2..MaxParts, have : SUBSET Nat, bytes : Nat, age : PartAge]
  /\ p.total = Len(s[p.msg].parts) /\ p.have \subseteq DOMAIN s[p.msg].parts
  /\ Cardinality(p.have) < p.total /\ p.bytes = sumOf(s[p.msg].parts, p.have)
Bounded(ps) ==
  buffered(ps) <= MaxBytes /\ \A p \in Peer : Cardinality(of(ps, p)) <= MaxPartial
Unique(ps) == \A p, q \in ps : p.msg = q.msg => p = q

ReasmOK(r, s) ==
  /\ r = [partials |-> r.partials, done |-> r.done]
  /\ IsFiniteSet(r.partials) /\ Unique(r.partials) /\ Bounded(r.partials)
  /\ \A p \in r.partials : PartialOK(p, s)
  /\ r.done \subseteq [msg : DOMAIN s, age : PartAge]

(* A message that was delivered is remembered for as long as another part  *)
(* of it would not be late.                                                *)
Remembered(r, s) ==
  \A m \in DOMAIN s :
    Len(s[m].parts) > 1 /\ ~s[m].late /\ s[m].heard > 0 =>
      /\ s[m].heard = 1
      /\ s[m].age > ChunkTtl \/ \E d \in r.done : d.msg = m /\ d.age <= s[m].age

(* The inductive invariant.                                                *)
TransportInv ==
  /\ SignsOK /\ RelaysOK /\ LinksOK
  /\ SaidOK(said, left) /\ AirOK(air, said)
  /\ ReasmOK(reasm, said) /\ Remembered(reasm, said)

-----------------------------------------------------------------------------
(* The reassembler.                                                        *)

(* What is buffered, and what is buffered of fewer.                        *)
LEMMA BufferedSubset ==
  ASSUME NEW ps, NEW qs, IsFiniteSet(ps), qs \subseteq ps, \A p \in ps : p.bytes \in Nat
  PROVE  buffered(qs) <= buffered(ps) /\ buffered(ps) \in Nat /\ buffered(qs) \in Nat
<1> DEFINE f == [p \in ps |-> p.bytes]
           g == [p \in qs |-> p.bytes]
<1>1. \A p \in qs : g[p] = f[p]
  OBVIOUS
<1>2. \A p \in ps : f[p] \in Nat
  OBVIOUS
<1>3. buffered(ps) = sumOf(f, ps) /\ buffered(qs) = sumOf(g, qs)
  BY Zenon DEF buffered
<1> HIDE DEF f, g
<1>4. sumOf(g, qs) = sumOf(f, qs)
  BY <1>1, SumSame
<1>5. sumOf(f, qs) <= sumOf(f, ps)
  BY <1>2, SumSubset
<1>6. sumOf(f, ps) \in Nat /\ sumOf(f, qs) \in Nat
  <2>1. IsFiniteSet(qs)
    BY FS_Subset
  <2> QED BY <2>1, <1>2, SumType
<1> QED BY <1>3, <1>4, <1>5, <1>6

-----------------------------------------------------------------------------
(* Payloads.                                                               *)

(* Division rounds down.                                                   *)
LEMMA DivRounds ==
  ASSUME NEW a \in Nat, NEW d \in Nat \ {0}
  PROVE  /\ a \div d \in Nat /\ d * (a \div d) <= a /\ a < d * (a \div d) + d
OBVIOUS

(* The parts of a payload are few enough, and none has a negative length.  *)
LEMMA SplitShape ==
  ASSUME NEW size \in Nat \ {0}
  PROVE  /\ splitPayload(size) \in Seq(Nat)
         /\ Len(splitPayload(size)) <= MaxParts
<1> DEFINE b64 == 4 * ceil(size, 3)
           n == ceil(b64, MaxContent)
<1>0. MaxContent \in Nat \ {0} /\ MaxParts \in Nat \ {0}
  BY ChunksAssumption
<1>1. b64 \in Nat
  <2>1. (size + 3 - 1) \div 3 \in Nat
    OBVIOUS
  <2> QED BY <2>1 DEF ceil
<1> HIDE DEF b64
<1>2. n \in Nat /\ MaxContent * n <= b64 + MaxContent - 1
  <2>1. b64 + MaxContent - 1 \in Nat
    BY <1>0, <1>1
  <2> QED BY <2>1, <1>0, DivRounds DEF ceil
<1>3. CASE size <= MaxContent
  <2>1. splitPayload(size) = <<size>>
    BY <1>3 DEF splitPayload
  <2> QED BY <2>1, <1>0
<1>4. CASE ~(size <= MaxContent) /\ n > MaxParts
  <2>1. splitPayload(size) = <<>>
    BY <1>4 DEF splitPayload, b64
  <2> QED BY <2>1, <1>0
<1>5. CASE ~(size <= MaxContent) /\ ~(n > MaxParts)
  <2> DEFINE part == [i \in 1..n |-> IF i < n THEN MaxContent ELSE b64 - (n - 1) * MaxContent]
  <2>1. splitPayload(size) = part
    BY <1>5 DEF splitPayload, b64
  <2>2. b64 - (n - 1) * MaxContent \in Nat
    <3>1. (n - 1) * MaxContent = MaxContent * n - MaxContent
      BY <1>0, <1>2
    <3> HIDE DEF n
    <3>2. MaxContent * n \in Int /\ (n - 1) * MaxContent \in Int
      BY <1>0, <1>2
    <3> QED BY <3>1, <3>2, <1>0, <1>1, <1>2
  <2> HIDE DEF n
  <2>3. part \in [1..n -> Nat]
    BY <2>2, <1>0, <1>2
  <2>4. part \in Seq(Nat) /\ Len(part) = n
    BY <2>3, <1>2
  <2> QED BY <2>1, <2>4, <1>0, <1>2, <1>5
<1> QED BY <1>3, <1>4, <1>5

-----------------------------------------------------------------------------
(* The reassembler.                                                        *)

(* Fewer partial messages are within the limits too.                       *)
LEMMA SmallerBounded ==
  ASSUME NEW ps, NEW qs, IsFiniteSet(ps), qs \subseteq ps, \A p \in ps : p.bytes \in Nat,
         Bounded(ps)
  PROVE  Bounded(qs)
<1>1. buffered(qs) <= MaxBytes
  <2>1. buffered(qs) <= buffered(ps) /\ buffered(ps) \in Nat /\ buffered(qs) \in Nat
    BY BufferedSubset
  <2> QED BY <2>1, ChunksAssumption DEF Bounded
<1>2. ASSUME NEW p \in Peer PROVE Cardinality(of(qs, p)) <= MaxPartial
  <2>1. of(qs, p) \subseteq of(ps, p) /\ of(ps, p) \subseteq ps
    BY DEF of
  <2>2. IsFiniteSet(of(ps, p))
    BY <2>1, FS_Subset
  <2>3. /\ Cardinality(of(qs, p)) <= Cardinality(of(ps, p)) /\ IsFiniteSet(of(qs, p))
    BY <2>1, <2>2, FS_Subset
  <2>4. Cardinality(of(qs, p)) \in Nat /\ Cardinality(of(ps, p)) \in Nat
    BY <2>2, <2>3, FS_CardinalityType
  <2> QED BY <2>3, <2>4, ChunksAssumption DEF Bounded
<1> QED BY <1>1, <1>2 DEF Bounded

(* Forgetting partial messages is always safe.                             *)
LEMMA SmallerOK ==
  ASSUME NEW r, NEW s, ReasmOK(r, s), NEW qs, qs \subseteq r.partials,
         NEW dn, dn \subseteq [msg : DOMAIN s, age : PartAge]
  PROVE  ReasmOK([partials |-> qs, done |-> dn], s)
<1> DEFINE t == [partials |-> qs, done |-> dn]
<1>1. t.partials = qs /\ t.done = dn
  OBVIOUS
<1>2. IsFiniteSet(qs)
  BY FS_Subset DEF ReasmOK
<1>3. Bounded(qs)
  <2>1. \A p \in r.partials : p.bytes \in Nat
    BY DEF ReasmOK, PartialOK
  <2> QED BY <2>1, SmallerBounded DEF ReasmOK
<1>4. Unique(qs) /\ \A p \in qs : PartialOK(p, s)
  BY DEF ReasmOK, Unique
<1>5. t = [partials |-> t.partials, done |-> t.done]
  OBVIOUS
<1> QED BY <1>1, <1>2, <1>3, <1>4, <1>5 DEF ReasmOK

(* What has gone quiet is forgotten.                                       *)
LEMMA SweepOK ==
  ASSUME NEW r, NEW s, ReasmOK(r, s)
  PROVE  /\ ReasmOK(sweep(r), s)
         /\ sweep(r).partials = {p \in r.partials : p.age <= ChunkTtl}
         /\ sweep(r).done = {d \in r.done : d.age <= ChunkTtl}
<1>1. r.done \subseteq [msg : DOMAIN s, age : PartAge]
  BY DEF ReasmOK
<1> QED BY <1>1, SmallerOK DEF sweep

(* A partial message that may just have become whole.                      *)
Filled(p, s) ==
  /\ p \in [msg : DOMAIN s, total : 2..MaxParts, have : SUBSET Nat, bytes : Nat, age : PartAge]
  /\ p.total = Len(s[p.msg].parts) /\ p.have \subseteq DOMAIN s[p.msg].parts
  /\ Cardinality(p.have) <= p.total /\ p.bytes = sumOf(s[p.msg].parts, p.have)

(* The account of a partial message follows the parts it has: a part is    *)
(* counted once.                                                           *)
LEMMA WithPartOK ==
  ASSUME NEW s, NEW q, PartialOK(q, s), s[q.msg].parts \in Seq(Nat),
         NEW i \in DOMAIN s[q.msg].parts, NEW p, p = withPart(q, i, s[q.msg].parts[i])
  PROVE  Filled(p, s) /\ p.msg = q.msg
<1> DEFINE parts == s[q.msg].parts
<1>1. /\ q \in [msg : DOMAIN s, total : 2..MaxParts, have : SUBSET Nat, bytes : Nat, age : PartAge]
      /\ q.total = Len(parts) /\ q.have \subseteq DOMAIN parts
      /\ Cardinality(q.have) < q.total /\ q.bytes = sumOf(parts, q.have)
  BY DEF PartialOK
<1>2. /\ DOMAIN parts = 1..Len(parts) /\ Len(parts) \in Nat /\ parts[i] \in Nat
      /\ \A j \in DOMAIN parts : parts[j] \in Nat
  OBVIOUS
<1>3. IsFiniteSet(DOMAIN parts) /\ Cardinality(DOMAIN parts) = Len(parts)
  BY <1>2, FS_Interval
<1>4. 0 \in PartAge /\ i \in Nat
  BY <1>2, ChunksAssumption DEF PartAge
<1>5. CASE i \in q.have
  <2>1. p = [q EXCEPT !.age = 0]
    BY <1>5 DEF withPart
  <2>2. /\ p \in [msg : DOMAIN s, total : 2..MaxParts, have : SUBSET Nat, bytes : Nat, age : PartAge]
        /\ p.msg = q.msg /\ p.total = q.total /\ p.have = q.have /\ p.bytes = q.bytes
    BY <2>1, <1>1, <1>4
  <2>3. Cardinality(q.have) \in Nat
    BY <1>1, <1>3, FS_Subset, FS_CardinalityType
  <2>4. Cardinality(q.have) <= q.total
    BY <2>3, <1>1, <1>2
  <2> QED BY <2>2, <2>4, <1>1 DEF Filled
<1>6. CASE i \notin q.have
  <2> DEFINE have == q.have \cup {i}
             bytes == q.bytes + parts[i]
  <2>1. p = [q EXCEPT !.have = have, !.bytes = bytes, !.age = 0]
    BY <1>6 DEF withPart
  <2>2. have \subseteq DOMAIN parts /\ have \in SUBSET Nat /\ bytes \in Nat
    BY <1>1, <1>2, <1>4
  <2>3. IsFiniteSet(q.have) /\ IsFiniteSet({i}) /\ q.have \cap {i} = {}
    BY <1>1, <1>3, <1>6, FS_Subset, FS_Singleton
  <2>4. bytes = sumOf(parts, have)
    <3>1. sumOf(parts, {i}) = parts[i]
      BY <1>2, SumOne
    <3>2. \A j \in q.have \cup {i} : parts[j] \in Nat
      BY <1>1, <1>2
    <3>3. sumOf(parts, q.have \cup {i}) = sumOf(parts, q.have) + sumOf(parts, {i})
      BY <3>2, <2>3, SumUnion
    <3> QED BY <3>1, <3>3, <1>1
  <2>5. Cardinality(have) <= Len(parts)
    BY <2>2, <1>3, FS_Subset
  <2> HIDE DEF have, bytes
  <2>6. /\ p \in [msg : DOMAIN s, total : 2..MaxParts, have : SUBSET Nat, bytes : Nat, age : PartAge]
        /\ p.msg = q.msg /\ p.total = q.total /\ p.have = have /\ p.bytes = bytes
    BY <2>1, <2>2, <1>1, <1>4
  <2> QED BY <2>2, <2>4, <2>5, <2>6, <1>1 DEF Filled
<1> QED BY <1>5, <1>6

(* A message that was not in the making starts with no part.               *)
LEMMA NewOK ==
  ASSUME NEW s, NEW m \in DOMAIN s, Len(s[m].parts) \in 2..MaxParts,
         NEW q, q = [msg |-> m, total |-> Len(s[m].parts), have |-> {}, bytes |-> 0, age |-> 0]
  PROVE  PartialOK(q, s) /\ q.msg = m
<1>1. Cardinality({}) = 0
  BY FS_EmptySet
<1>2. sumOf(s[m].parts, {}) = 0
  <2>1. UNION {{y} \X (1..s[m].parts[y]) : y \in {}} = {}
    OBVIOUS
  <2> QED BY <2>1, <1>1 DEF sumOf
<1>3. 0 \in PartAge
  BY ChunksAssumption DEF PartAge
<1>4. /\ q.msg = m /\ q.total = Len(s[m].parts) /\ q.have = {} /\ q.bytes = 0
      /\ q \in [msg : DOMAIN s, total : 2..MaxParts, have : SUBSET Nat, bytes : Nat, age : PartAge]
  BY <1>3
<1>5. Cardinality(q.have) < q.total
  BY <1>1, <1>4, ChunksAssumption
<1> QED BY <1>2, <1>4, <1>5 DEF PartialOK

(* Room is made for one more message of the sender.                        *)
LEMMA RoomForOK ==
  ASSUME NEW others, NEW sender \in Peer, IsFiniteSet(others), Bounded(others),
         NEW qs \in roomFor(others, sender)
  PROVE  qs \subseteq others /\ Cardinality(of(qs, sender)) < MaxPartial
<1>1. IsFiniteSet(of(others, sender)) /\ Cardinality(of(others, sender)) \in Nat
  <2>1. of(others, sender) \subseteq others
    BY DEF of
  <2> QED BY <2>1, FS_Subset, FS_CardinalityType
<1>2. CASE Cardinality(of(others, sender)) < MaxPartial
  BY <1>2 DEF roomFor
<1>3. CASE ~(Cardinality(of(others, sender)) < MaxPartial)
  <2>1. PICK o \in oldest(of(others, sender)) : qs = others \ {o}
    BY <1>3 DEF roomFor
  <2>2. o \in of(others, sender) /\ of(qs, sender) = of(others, sender) \ {o}
    BY <2>1 DEF oldest, of
  <2>3. Cardinality(of(others, sender) \ {o}) = Cardinality(of(others, sender)) - 1
    BY <2>2, <1>1, FS_RemoveElement
  <2>4. Cardinality(of(others, sender)) <= MaxPartial
    BY DEF Bounded
  <2>5. Cardinality(of(qs, sender)) = Cardinality(of(others, sender)) - 1
    BY <2>2, <2>3
  <2>6. Cardinality(of(qs, sender)) < MaxPartial
    BY <2>4, <2>5, <1>1, ChunksAssumption
  <2> QED BY <2>1, <2>6
<1> QED BY <1>2, <1>3

(* One more message p in the making, and as many evicted as it takes.      *)
LEMMA ShedOK ==
  ASSUME NEW s, NEW p, Filled(p, s), p.msg[1] \in Peer, NEW others, IsFiniteSet(others),
         \A q \in others : PartialOK(q, s) /\ q.msg # p.msg,
         Unique(others), Bounded(others), Cardinality(of(others, p.msg[1])) < MaxPartial,
         NEW ps \in shed(others \cup {p})
  PROVE  /\ ps \subseteq others \cup {p} /\ IsFiniteSet(ps) /\ Unique(ps) /\ Bounded(ps)
         /\ \A q \in ps : q # p => PartialOK(q, s)
<1>1. ps \subseteq others \cup {p} /\ buffered(ps) <= MaxBytes
  BY DEF shed
<1>2. IsFiniteSet(others \cup {p})
  BY FS_AddElement
<1>3. IsFiniteSet(ps)
  BY <1>1, <1>2, FS_Subset
<1>4. Unique(ps) /\ \A q \in ps : q # p => PartialOK(q, s)
  BY <1>1 DEF Unique
<1>5. ASSUME NEW x \in Peer PROVE Cardinality(of(ps, x)) <= MaxPartial
  <2>1. IsFiniteSet(of(others, x)) /\ Cardinality(of(others, x)) \in Nat
    <3>1. of(others, x) \subseteq others
      BY DEF of
    <3> QED BY <3>1, FS_Subset, FS_CardinalityType
  <2>2. MaxPartial \in Nat
    BY ChunksAssumption
  <2>3. CASE x # p.msg[1]
    <3>1. of(ps, x) \subseteq of(others, x)
      BY <1>1, <2>3 DEF of
    <3>2. Cardinality(of(ps, x)) <= Cardinality(of(others, x)) /\ Cardinality(of(ps, x)) \in Nat
      BY <3>1, <2>1, FS_Subset, FS_CardinalityType
    <3>3. Cardinality(of(others, x)) <= MaxPartial
      BY DEF Bounded
    <3> QED BY <3>2, <3>3, <2>1, <2>2
  <2>4. CASE x = p.msg[1]
    <3>1. of(ps, x) \subseteq of(others, x) \cup {p}
      BY <1>1 DEF of
    <3>2. /\ IsFiniteSet(of(others, x) \cup {p})
          /\ \/ Cardinality(of(others, x) \cup {p}) = Cardinality(of(others, x))
             \/ Cardinality(of(others, x) \cup {p}) = Cardinality(of(others, x)) + 1
      BY <2>1, FS_AddElement
    <3>3. /\ Cardinality(of(ps, x)) <= Cardinality(of(others, x) \cup {p})
          /\ Cardinality(of(ps, x)) \in Nat
      BY <3>1, <3>2, FS_Subset, FS_CardinalityType
    <3>4. Cardinality(of(others, x)) < MaxPartial
      BY <2>4
    <3> QED BY <3>2, <3>3, <3>4, <2>1, <2>2
  <2> QED BY <2>3, <2>4
<1> QED BY <1>1, <1>3, <1>4, <1>5 DEF Bounded

(* accept keeps the limits and the account, remembers what it remembered,  *)
(* and completes only a message that it does not remember, which it then   *)
(* does.                                                                   *)
LEMMA AcceptOK ==
  ASSUME NEW r, NEW s, ReasmOK(r, s), NEW m \in DOMAIN s, m[1] \in Peer,
         s[m].parts \in Seq(Nat), Len(s[m].parts) \in 2..MaxParts,
         NEW i \in DOMAIN s[m].parts,
         NEW a \in accept(r, m, i, Len(s[m].parts), s[m].parts[i])
  PROVE  /\ ReasmOK(a.reasm, s) /\ a.whole \in BOOLEAN
         /\ sweep(r).done \subseteq a.reasm.done
         /\ a.whole => /\ \A d \in sweep(r).done : d.msg # m
                       /\ [msg |-> m, age |-> 0] \in a.reasm.done
<1> DEFINE n == Len(s[m].parts)
           len == s[m].parts[i]
           w == sweep(r)
           others == {p \in w.partials : p.msg # m}
           mine == {p \in w.partials : p.msg = m /\ p.total = n}
           new == [msg |-> m, total |-> n, have |-> {}, bytes |-> 0, age |-> 0]
           q == IF mine = {} THEN new ELSE CHOOSE q \in mine : TRUE
           p == withPart(q, i, len)
           kept == UNION {shed(qs \cup {p}) :
                            qs \in IF mine = {} THEN roomFor(others, m[1]) ELSE {others}}
<1>0. sweep(r) = w
  OBVIOUS
<1>1. ReasmOK(w, s) /\ w.done \subseteq [msg : DOMAIN s, age : PartAge]
  BY SweepOK DEF ReasmOK
<1>2. n \in 1..MaxParts /\ i \in 1..n
  BY ChunksAssumption
<1>3. a \in IF \E d \in w.done : d.msg = m THEN {Outcome(w.partials, w.done, FALSE)}
            ELSE {IF p \in ps /\ Cardinality(p.have) = n THEN complete(ps, w.done, p)
                  ELSE Outcome(ps, w.done, FALSE) : ps \in kept}
  BY <1>2, Zenon DEF accept
<1>4. PartialOK(q, s) /\ q.msg = m
  <2>1. CASE mine = {}
    <3>1. q = new
      BY <2>1
    <3> HIDE DEF q
    <3> QED BY <3>1, NewOK
  <2>2. CASE mine # {}
    <3>1. q \in mine
      BY <2>2
    <3> HIDE DEF q
    <3> QED BY <3>1, <1>1 DEF ReasmOK
  <2> QED BY <2>1, <2>2
<1>5. Filled(p, s) /\ p.msg = m /\ p.total = n
  <2> HIDE DEF q
  <2>1. Filled(p, s) /\ p.msg = m
    BY <1>4, WithPartOK
  <2> QED BY <2>1 DEF Filled
<1> HIDE DEF p, q, new, len, w
<1>6. /\ others \subseteq w.partials /\ IsFiniteSet(w.partials) /\ IsFiniteSet(others)
      /\ Bounded(others) /\ Unique(others) /\ Bounded(w.partials)
      /\ \A o \in w.partials : PartialOK(o, s)
  <2>1. \A o \in w.partials : o.bytes \in Nat
    BY <1>1 DEF ReasmOK, PartialOK
  <2> QED BY <2>1, <1>1, FS_Subset, SmallerBounded DEF ReasmOK, Unique
<1>7. ASSUME NEW ps \in kept
      PROVE  /\ ps \subseteq others \cup {p} /\ IsFiniteSet(ps) /\ Unique(ps) /\ Bounded(ps)
             /\ \A o \in ps : o # p => PartialOK(o, s)
  <2>1. PICK qs \in IF mine = {} THEN roomFor(others, m[1]) ELSE {others} :
               ps \in shed(qs \cup {p})
    OBVIOUS
  <2>2. qs \subseteq others /\ Cardinality(of(qs, m[1])) < MaxPartial
    <3>1. CASE mine = {}
      <4>1. qs \in roomFor(others, m[1])
        BY <2>1, <3>1
      <4> HIDE DEF others
      <4> QED BY <4>1, <1>6, RoomForOK
    <3>2. CASE mine # {}
      <4>1. PICK o \in w.partials : o.msg = m
        BY <3>2
      <4>2. qs = others /\ of(qs, m[1]) \subseteq of(w.partials, m[1]) \ {o}
        BY <2>1, <3>2, <4>1 DEF of
      <4>3. IsFiniteSet(of(w.partials, m[1])) /\ o \in of(w.partials, m[1])
        <5>1. of(w.partials, m[1]) \subseteq w.partials /\ o \in of(w.partials, m[1])
          BY <4>1 DEF of
        <5> QED BY <5>1, <1>6, FS_Subset
      <4>4. /\ IsFiniteSet(of(w.partials, m[1]) \ {o})
            /\ Cardinality(of(w.partials, m[1]) \ {o}) = Cardinality(of(w.partials, m[1])) - 1
        BY <4>3, FS_RemoveElement
      <4>5. /\ Cardinality(of(qs, m[1])) <= Cardinality(of(w.partials, m[1]) \ {o})
            /\ Cardinality(of(qs, m[1])) \in Nat /\ Cardinality(of(w.partials, m[1])) \in Nat
        BY <4>2, <4>3, <4>4, FS_Subset, FS_CardinalityType
      <4>6. Cardinality(of(w.partials, m[1])) <= MaxPartial
        BY <1>6 DEF Bounded
      <4>7. Cardinality(of(qs, m[1])) < MaxPartial
        BY <4>4, <4>5, <4>6, ChunksAssumption
      <4> QED BY <4>2, <4>7
    <3> QED BY <3>1, <3>2
  <2>3. /\ IsFiniteSet(qs) /\ Unique(qs) /\ Bounded(qs)
        /\ \A o \in qs : PartialOK(o, s) /\ o.msg # p.msg
    <3>1. \A o \in qs : PartialOK(o, s) /\ o.msg # p.msg
      BY <2>2, <1>5, <1>6
    <3>2. \A o \in others : o.bytes \in Nat
      BY <1>6 DEF PartialOK
    <3> HIDE DEF others
    <3>3. IsFiniteSet(qs) /\ Unique(qs) /\ Bounded(qs)
      BY <3>2, <2>2, <1>6, FS_Subset, SmallerBounded DEF Unique
    <3> QED BY <3>1, <3>3
  <2> HIDE DEF others
  <2>4. /\ ps \subseteq qs \cup {p} /\ IsFiniteSet(ps) /\ Unique(ps) /\ Bounded(ps)
        /\ \A o \in ps : o # p => PartialOK(o, s)
    BY <2>1, <2>2, <2>3, <1>5, ShedOK
  <2> QED BY <2>2, <2>4
<1> HIDE DEF kept
<1>8. CASE \E d \in w.done : d.msg = m
  <2>1. a = Outcome(w.partials, w.done, FALSE)
    BY <1>3, <1>8
  <2>2. a.reasm = [partials |-> w.partials, done |-> w.done] /\ a.whole = FALSE
    BY <2>1 DEF Outcome
  <2> DEFINE rr == a.reasm
  <2>3. rr = [partials |-> w.partials, done |-> w.done] /\ rr.done = w.done /\ rr.partials = w.partials
    BY <2>2
  <2> HIDE DEF rr
  <2>4. ReasmOK(rr, s)
    BY <2>3, <1>1, SmallerOK
  <2> QED BY <2>2, <2>3, <2>4, <1>0 DEF rr
<1>9. CASE ~(\E d \in w.done : d.msg = m)
  <2>1. PICK ps \in kept :
          a = IF p \in ps /\ Cardinality(p.have) = n THEN complete(ps, w.done, p)
              ELSE Outcome(ps, w.done, FALSE)
    BY <1>3, <1>9
  <2>2. /\ ps \subseteq others \cup {p} /\ IsFiniteSet(ps) /\ Unique(ps) /\ Bounded(ps)
        /\ \A o \in ps : o # p => PartialOK(o, s)
    BY <1>7
  <2>3. CASE p \in ps /\ Cardinality(p.have) = n
    <3> DEFINE dn == w.done \cup {[msg |-> m, age |-> 0]}
    <3>1. a.reasm = [partials |-> ps \ {p}, done |-> dn] /\ a.whole = TRUE
      BY <2>1, <2>3, <1>5 DEF complete, Outcome
    <3>2. dn \subseteq [msg : DOMAIN s, age : PartAge]
      BY <1>1, ChunksAssumption DEF PartAge
    <3>3. ps \ {p} \subseteq w.partials
      BY <2>2
    <3>4. a.reasm.done = dn /\ w.done \subseteq dn /\ [msg |-> m, age |-> 0] \in dn
      BY <3>1
    <3> HIDE DEF dn
    <3>5. ReasmOK([partials |-> ps \ {p}, done |-> dn], s)
      BY <3>2, <3>3, <1>1, SmallerOK
    <3>6. ReasmOK(a.reasm, s)
      BY <3>1, <3>5, Zenon
    <3>7. a.whole \in BOOLEAN /\ \A d \in w.done : d.msg # m
      BY <3>1, <1>9
    <3> QED BY <3>4, <3>6, <3>7, <1>0
  <2>4. CASE ~(p \in ps /\ Cardinality(p.have) = n)
    <3>1. a.reasm = [partials |-> ps, done |-> w.done] /\ a.whole = FALSE
      BY <2>1, <2>4 DEF Outcome
    <3>2. p \in ps => PartialOK(p, s)
      <4>1. SUFFICES ASSUME p \in ps PROVE Cardinality(p.have) < p.total
        BY <1>5 DEF Filled, PartialOK
      <4>2. Cardinality(p.have) # n /\ Cardinality(p.have) <= n
        BY <4>1, <2>4, <1>5 DEF Filled
      <4>3. IsFiniteSet(p.have)
        <5>1. p.have \subseteq 1..n
          BY <1>5 DEF Filled
        <5>2. IsFiniteSet(1..n)
          BY <1>2, FS_Interval
        <5> QED BY <5>1, <5>2, FS_Subset
      <4>4. Cardinality(p.have) \in Nat
        BY <4>3, FS_CardinalityType
      <4> QED BY <4>2, <4>4, <1>2, <1>5
    <3>3. \A o \in ps : PartialOK(o, s)
      BY <3>2, <2>2
    <3>4. ReasmOK(a.reasm, s)
      BY <3>1, <3>3, <2>2, <1>1 DEF ReasmOK
    <3>5. a.reasm.done = w.done /\ a.whole = FALSE
      BY <3>1
    <3> QED BY <3>4, <3>5, <1>0
  <2> QED BY <2>3, <2>4
<1> QED BY <1>8, <1>9

(* Growing older changes nothing but ages.                                 *)
LEMMA OlderOK ==
  ASSUME NEW r, NEW s, ReasmOK(r, s)
  PROVE  ReasmOK(olderBy1(r), s)
<1> DEFINE older(x) == [x EXCEPT !.age = IF @ > ChunkTtl THEN @ ELSE @ + 1]
           ps == {older(p) : p \in r.partials}
           dn == {older(d) : d \in r.done}
<1>0. ChunkTtl \in Nat /\ MaxBytes \in Nat /\ MaxPartial \in Nat
  BY ChunksAssumption
<1>1. \A p \in r.partials :
        /\ PartialOK(older(p), s) /\ older(p).msg = p.msg /\ older(p).bytes = p.bytes
        /\ p.bytes \in Nat
  <2> SUFFICES ASSUME NEW p \in r.partials
               PROVE  /\ PartialOK(older(p), s) /\ older(p).msg = p.msg
                      /\ older(p).bytes = p.bytes /\ p.bytes \in Nat
    OBVIOUS
  <2> DEFINE n == IF p.age > ChunkTtl THEN p.age ELSE p.age + 1
             q == older(p)
  <2>1. /\ p \in [msg : DOMAIN s, total : 2..MaxParts, have : SUBSET Nat, bytes : Nat, age : PartAge]
        /\ p.total = Len(s[p.msg].parts) /\ p.have \subseteq DOMAIN s[p.msg].parts
        /\ Cardinality(p.have) < p.total /\ p.bytes = sumOf(s[p.msg].parts, p.have)
    BY DEF ReasmOK, PartialOK
  <2>2. n \in PartAge
    BY <2>1, <1>0 DEF PartAge
  <2>3. q = [p EXCEPT !.age = n]
    OBVIOUS
  <2> HIDE DEF n, q
  <2>4. /\ q \in [msg : DOMAIN s, total : 2..MaxParts, have : SUBSET Nat, bytes : Nat, age : PartAge]
        /\ q.msg = p.msg /\ q.total = p.total /\ q.have = p.have /\ q.bytes = p.bytes
    BY <2>1, <2>2, <2>3
  <2>5. PartialOK(q, s)
    BY <2>1, <2>4 DEF PartialOK
  <2> QED BY <2>1, <2>4, <2>5 DEF q
<1>2. dn \subseteq [msg : DOMAIN s, age : PartAge]
  <2> SUFFICES ASSUME NEW d \in r.done
               PROVE  older(d) \in [msg : DOMAIN s, age : PartAge]
    OBVIOUS
  <2>1. d \in [msg : DOMAIN s, age : PartAge]
    BY DEF ReasmOK
  <2> QED BY <2>1, <1>0 DEF PartAge
<1> HIDE DEF older
<1>3. IsFiniteSet(r.partials) /\ Unique(r.partials) /\ Bounded(r.partials)
  BY DEF ReasmOK
<1> DEFINE f == [p \in r.partials |-> older(p)]
<1>4. IsFiniteSet(ps) /\ Unique(ps)
  <2>1. f \in Surjection(r.partials, ps)
    BY DEF Surjection
  <2>2. IsFiniteSet(ps)
    BY <2>1, <1>3, FS_Surjection
  <2> QED BY <2>2, <1>1, <1>3 DEF Unique
<1>5. buffered(ps) <= MaxBytes
  <2> DEFINE U == UNION {{p} \X (1..p.bytes) : p \in r.partials}
             V == UNION {{p} \X (1..p.bytes) : p \in ps}
             g == [u \in U |-> <<older(u[1]), u[2]>>]
  <2>1. buffered(r.partials) = Cardinality(U) /\ buffered(ps) = Cardinality(V)
    <3>1. {{p} \X (1..[q \in r.partials |-> q.bytes][p]) : p \in r.partials}
            = {{p} \X (1..p.bytes) : p \in r.partials}
      OBVIOUS
    <3>2. {{p} \X (1..[q \in ps |-> q.bytes][p]) : p \in ps} = {{p} \X (1..p.bytes) : p \in ps}
      BY Zenon
    <3> QED BY <3>1, <3>2 DEF buffered, sumOf
  <2>2. g \in Surjection(U, V)
    <3>1. ASSUME NEW u \in U PROVE <<older(u[1]), u[2]>> \in V
      <4>1. u[1] \in r.partials /\ u[2] \in 1..u[1].bytes
        OBVIOUS
      <4>2. older(u[1]) \in ps /\ u[2] \in 1..older(u[1]).bytes
        BY <4>1, <1>1
      <4> QED BY <4>2
    <3>2. ASSUME NEW y \in V PROVE \E u \in U : g[u] = y
      <4>1. PICK q \in ps : y \in {q} \X (1..q.bytes)
        OBVIOUS
      <4>2. PICK p \in r.partials : q = older(p)
        BY <4>1
      <4>3. <<p, y[2]>> \in U
        BY <4>1, <4>2, <1>1
      <4>4. y = <<q, y[2]>>
        BY <4>1
      <4>5. g[<<p, y[2]>>] = <<older(p), y[2]>>
        BY <4>3
      <4> QED BY <4>2, <4>3, <4>4, <4>5
    <3> HIDE DEF U, V
    <3> QED BY <3>1, <3>2 DEF Surjection
  <2>3. IsFiniteSet(U) /\ Cardinality(U) \in Nat
    <3> DEFINE b == [p \in r.partials |-> p.bytes]
    <3>1. \A p \in r.partials : b[p] \in Nat
      BY <1>1
    <3>2. {{p} \X (1..b[p]) : p \in r.partials} = {{p} \X (1..p.bytes) : p \in r.partials}
      OBVIOUS
    <3> HIDE DEF b
    <3>3. IsFiniteSet(UNION {{p} \X (1..b[p]) : p \in r.partials})
      BY <3>1, <1>3, SumType
    <3>4. IsFiniteSet(U)
      BY <3>2, <3>3
    <3> HIDE DEF U
    <3> QED BY <3>4, FS_CardinalityType
  <2> HIDE DEF U, V, g
  <2>4. IsFiniteSet(V) /\ Cardinality(V) <= Cardinality(U)
    BY <2>2, <2>3, FS_Surjection
  <2>5. Cardinality(V) \in Nat /\ Cardinality(U) <= MaxBytes
    BY <2>1, <2>4, <1>3, FS_CardinalityType DEF Bounded
  <2> QED BY <2>1, <2>3, <2>4, <2>5, <1>0
<1>6. ASSUME NEW x \in Peer PROVE Cardinality(of(ps, x)) <= MaxPartial
  <2> DEFINE old == of(r.partials, x)
             g == [p \in old |-> older(p)]
  <2>1. g \in Surjection(old, of(ps, x))
    <3>1. \A p \in old : older(p) \in of(ps, x)
      BY <1>1 DEF of
    <3>2. \A q \in of(ps, x) : \E p \in old : older(p) = q
      BY <1>1 DEF of
    <3> HIDE DEF old
    <3> QED BY <3>1, <3>2 DEF Surjection
  <2>2. IsFiniteSet(old) /\ Cardinality(old) <= MaxPartial
    <3>1. old \subseteq r.partials
      BY DEF of
    <3> QED BY <3>1, <1>3, FS_Subset DEF Bounded
  <2> HIDE DEF old, g
  <2>3. IsFiniteSet(of(ps, x)) /\ Cardinality(of(ps, x)) <= Cardinality(old)
    BY <2>1, <2>2, FS_Surjection
  <2>4. Cardinality(of(ps, x)) \in Nat /\ Cardinality(old) \in Nat
    BY <2>2, <2>3, FS_CardinalityType
  <2> QED BY <2>2, <2>3, <2>4, <1>0
<1>7. \A q \in ps : PartialOK(q, s)
  BY <1>1
<1> DEFINE t == [partials |-> ps, done |-> dn]
<1>8. t = olderBy1(r)
  BY DEF olderBy1, older
<1>9. t.partials = ps /\ t.done = dn /\ t = [partials |-> t.partials, done |-> t.done]
  OBVIOUS
<1> HIDE DEF ps, dn, t
<1>10. ReasmOK(t, s)
  BY <1>2, <1>4, <1>5, <1>6, <1>7, <1>9 DEF ReasmOK, Bounded
<1> QED BY <1>8, <1>10

-----------------------------------------------------------------------------
(* Connections.                                                            *)

(* A connection that closes takes its vote with it.                        *)
LEMMA FireCloseOK ==
  ASSUME NEW o, Connected(o), NEW v, NEW x, x = fireClose(o, v)
  PROVE  Connected(x) /\ x.active = o.active \ {v}
<1>1. x.active = o.active \ {v} /\ x.conns = o.conns \ {v} /\ x.offers = [o.offers EXCEPT ![v] = None]
  BY DEF fireClose, Links
<1> QED BY <1>1 DEF Connected

(* One more connection without a vote.                                     *)
LEMMA ConnectOK ==
  ASSUME NEW o, Connected(o), NEW p \in Peer,
         NEW x, x = Links(o.active \cup {p}, o.conns \cup {p}, o.offers)
  PROVE  Connected(x) /\ x.active = o.active \cup {p}
<1>1. x.active = o.active \cup {p} /\ x.conns = o.conns \cup {p} /\ x.offers = o.offers
  BY DEF Links
<1> QED BY <1>1 DEF Connected

(* activate keeps those that are pinned, and the others in the room there  *)
(* is, whoever has to leave.                                               *)
LEMMA ActivateOK ==
  ASSUME NEW o, Connected(o), InRoom(o, pinned), NEW p \in Peer,
         NEW pinnedToo, pinned \subseteq pinnedToo, pinnedToo \subseteq pinned \cup {p},
         NEW frames, NEW signsOf, NEW x \in activate(o, p, frames, signsOf, pinnedToo),
         p \in pinnedToo \/ pinnedToo = pinned
  PROVE  Connected(x) /\ InRoom(x, pinnedToo)
<1> DEFINE with(q) == Links(q.active \cup {p}, q.conns \cup {p}, q.offers)
           victims == leastRecent(o, frames, signsOf)
<1>0. MaxPeers \in Nat \ {0} /\ IsFiniteSet(Peer)
  BY TransportAssumption
<1>1. /\ o.active \subseteq Peer /\ pinned \subseteq o.active
      /\ IsFiniteSet(o.active) /\ Cardinality(o.active) \in Nat
      /\ IsFiniteSet(o.active \ pinned) /\ Cardinality(o.active \ pinned) \in Nat
      /\ Cardinality(o.active \ pinned) <= MaxPeers
  <2>1. o.active \subseteq Peer /\ o.active \ pinned \subseteq Peer
    BY DEF Connected
  <2> QED BY <2>1, <1>0, FS_Subset, FS_CardinalityType DEF InRoom
<1>2. victims \subseteq o.active \ pinned
  BY DEF leastRecent
<1>3. \/ p \in o.active /\ x = o
      \/ p \notin o.active /\ hasRoom(o, p, pinnedToo) /\ x = with(o)
      \/ p \notin o.active /\ ~hasRoom(o, p, pinnedToo) /\ x = o
      \/ /\ p \notin o.active /\ ~hasRoom(o, p, pinnedToo)
         /\ \E v \in victims : x = with(fireClose(o, v))
  BY DEF activate
<1> HIDE DEF with, victims
<1>4. CASE p \in o.active /\ x = o
  <2>1. pinnedToo \subseteq o.active /\ o.active \ pinnedToo \subseteq o.active \ pinned
    BY <1>1, <1>4
  <2>2. /\ Cardinality(o.active \ pinnedToo) <= Cardinality(o.active \ pinned)
        /\ Cardinality(o.active \ pinnedToo) \in Nat
    BY <2>1, <1>1, FS_Subset, FS_CardinalityType
  <2>3. Cardinality(o.active \ pinnedToo) <= MaxPeers
    BY <2>2, <1>0, <1>1
  <2> QED BY <2>1, <2>3, <1>4 DEF InRoom
<1>5. CASE p \notin o.active /\ hasRoom(o, p, pinnedToo) /\ x = with(o)
  <2>1. Connected(x) /\ x.active = o.active \cup {p}
    BY <1>5, ConnectOK DEF with
  <2>2. pinnedToo \subseteq x.active
    BY <2>1, <1>1
  <2>3. CASE p \in pinnedToo
    <3>1. x.active \ pinnedToo \subseteq o.active \ pinned
      BY <2>1, <2>3
    <3>2. /\ Cardinality(x.active \ pinnedToo) <= Cardinality(o.active \ pinned)
          /\ Cardinality(x.active \ pinnedToo) \in Nat
      BY <3>1, <1>1, FS_Subset, FS_CardinalityType
    <3>3. Cardinality(x.active \ pinnedToo) <= MaxPeers
      BY <3>2, <1>0, <1>1
    <3> QED BY <3>3, <2>1, <2>2 DEF InRoom
  <2>4. CASE p \notin pinnedToo
    <3>1. Cardinality(o.active) < MaxPeers
      BY <1>5, <2>4 DEF hasRoom
    <3>2. IsFiniteSet(x.active) /\ Cardinality(x.active) = Cardinality(o.active) + 1
      <4>1. /\ IsFiniteSet(o.active \cup {p})
            /\ Cardinality(o.active \cup {p}) = Cardinality(o.active) + 1
        BY <1>1, <1>5, FS_AddElement
      <4> QED BY <4>1, <2>1
    <3>3. x.active \ pinnedToo \subseteq x.active
      OBVIOUS
    <3>4. /\ Cardinality(x.active \ pinnedToo) <= Cardinality(x.active)
          /\ Cardinality(x.active \ pinnedToo) \in Nat
      BY <3>2, <3>3, FS_Subset, FS_CardinalityType
    <3>5. Cardinality(x.active \ pinnedToo) <= MaxPeers
      BY <3>1, <3>2, <3>4, <1>0, <1>1
    <3> QED BY <3>5, <2>1, <2>2 DEF InRoom
  <2> QED BY <2>3, <2>4
<1>6. CASE ~hasRoom(o, p, pinnedToo) /\ x = o
  <2>1. pinnedToo = pinned
    BY <1>6 DEF hasRoom
  <2> QED BY <2>1, <1>6
<1>7. CASE p \notin o.active /\ ~hasRoom(o, p, pinnedToo) /\ \E v \in victims : x = with(fireClose(o, v))
  <2>1. PICK v \in victims : x = with(fireClose(o, v))
    BY <1>7
  <2>2. pinnedToo = pinned /\ v \in o.active \ pinned
    BY <2>1, <1>2, <1>7 DEF hasRoom
  <2>3. Connected(x) /\ x.active = (o.active \ {v}) \cup {p}
    <3>1. Connected(fireClose(o, v)) /\ fireClose(o, v).active = o.active \ {v}
      BY FireCloseOK
    <3> QED BY <2>1, <3>1, ConnectOK DEF with
  <2> DEFINE rest == (o.active \ pinned) \ {v}
  <2>4. IsFiniteSet(rest) /\ Cardinality(rest) = Cardinality(o.active \ pinned) - 1
    BY <2>2, <1>1, FS_RemoveElement
  <2>5. p \notin rest /\ p \notin pinned
    BY <1>1, <1>7
  <2>6. Cardinality(rest \cup {p}) = Cardinality(rest) + 1
    BY <2>4, <2>5, FS_AddElement
  <2>7. x.active \ pinned = rest \cup {p}
    BY <2>3, <2>5
  <2>8. Cardinality(x.active \ pinned) = Cardinality(o.active \ pinned)
    <3>1. Cardinality(x.active \ pinned) = Cardinality(o.active \ pinned) - 1 + 1
      BY <2>4, <2>6, <2>7
    <3> QED BY <3>1, <1>1
  <2>9. pinnedToo \subseteq x.active
    BY <2>2, <2>3, <1>1
  <2> QED BY <2>2, <2>3, <2>8, <2>9, <1>1 DEF InRoom
<1> QED BY <1>3, <1>4, <1>5, <1>6, <1>7

(* A vote counts for a connection only.                                    *)
LEMMA DeliverOK ==
  ASSUME NEW o, Connected(o), NEW m, said[m].vote \in Checkpoint, NEW x, x = deliver(o, m)
  PROVE  Connected(x) /\ x.active = o.active
<1>1. CASE m[1] \in o.active
  <2>1. x = [o EXCEPT !.offers[m[1]] = said[m].vote]
    BY <1>1 DEF deliver
  <2>2. x.active = o.active /\ x.conns = o.conns /\ x.offers = [o.offers EXCEPT ![m[1]] = said[m].vote]
    BY <2>1
  <2> QED BY <2>2, <1>1 DEF Connected
<1>2. CASE m[1] \notin o.active
  BY <1>2 DEF deliver
<1> QED BY <1>1, <1>2

-----------------------------------------------------------------------------
(* The actions, each of which disturbs some parts of the invariant.        *)

(* Subscriptions that are not touched stay as they are, ...                *)
LEMMA RelaysSame ==
  ASSUME RelaysOK, UNCHANGED <<joined, relays>>, left'.via = left.via
  PROVE  RelaysOK'
<1>1. /\ joined' = joined /\ relaySubs' = relaySubs /\ arms' = arms /\ timers' = timers
      /\ live' = live /\ closed' = closed
  BY DEF relays
<1> QED BY <1>1 DEF RelaysOK

(* ... so do connections and pins, ...                                     *)
LEMMA LinksSame ==
  ASSUME LinksOK, UNCHANGED <<joined, links, pins>>
  PROVE  LinksOK'
<1>1. /\ joined' = joined /\ active' = active /\ conns' = conns /\ offers' = offers
      /\ pinned' = pinned /\ known' = known
  BY DEF links, pins
<1>2. TheLinks' = TheLinks
  BY <1>1 DEF TheLinks
<1> QED BY <1>1, <1>2 DEF LinksOK

(* ... and messages, of which some may get lost.                           *)
LEMMA MessagesSame ==
  ASSUME SaidOK(said, left), AirOK(air, said), ReasmOK(reasm, said), Remembered(reasm, said),
         UNCHANGED <<reasm, said>>, air' \subseteq air, left'.says = left.says
  PROVE  SaidOK(said, left)' /\ AirOK(air, said)' /\ ReasmOK(reasm, said)' /\ Remembered(reasm, said)'
<1>1. reasm' = reasm /\ said' = said
  OBVIOUS
<1>2. SaidOK(said, left)'
  BY <1>1 DEF SaidOK
<1>3. AirOK(air, said)'
  BY <1>1 DEF AirOK
<1> QED BY <1>1, <1>2, <1>3

(* What may still happen is counted down.                                  *)
LEMMA SpendOK ==
  ASSUME left \in Setting, NEW what \in {"closes", "losses", "leaves"}, Spend(what)
  PROVE  left' \in Setting /\ left'.via = left.via /\ left'.says = left.says
<1>1. CASE what = "closes"
  BY <1>1 DEF Spend, Setting
<1>2. CASE what = "losses"
  BY <1>2 DEF Spend, Setting
<1>3. CASE what = "leaves"
  BY <1>3 DEF Spend, Setting
<1> QED BY <1>1, <1>2, <1>3

(* A subscription closes: the others of its arming are told apart from     *)
(* the next arming's.                                                      *)
LEMMA OnCloseOK ==
  ASSUME TransportInv, NEW r, NEW k, NEW s, OnClose(r, k, s)
  PROVE  TransportInv'
<1>1. /\ left' \in Setting /\ left'.via = left.via /\ left'.says = left.says
  <2>1. left' = left \/ Spend("closes")
    BY DEF OnClose
  <2> QED BY <2>1, SpendOK DEF TransportInv, SignsOK
<1>2. SignsOK'
  BY <1>1 DEF TransportInv, SignsOK, OnClose, life
<1>3. LinksOK'
  BY LinksSame DEF TransportInv, OnClose
<1>4. SaidOK(said, left)' /\ AirOK(air, said)' /\ ReasmOK(reasm, said)' /\ Remembered(reasm, said)'
  BY <1>1, MessagesSame DEF TransportInv, OnClose
<1>5. RelaysOK'
  <2>1. r \in left.via /\ k \in 1..arms[r] /\ r \in Relay
    BY DEF TransportInv, SignsOK, Setting, RelaysOK, OnClose
  <2>2. RelaysOK /\ joined' = joined /\ arms' = arms /\ live' \subseteq live
    BY DEF TransportInv, OnClose
  <2>3. CASE heardOf(r, k)
    <3>1. relaySubs' = relaySubs /\ timers' = timers /\ closed' = closed
      BY <2>3 DEF OnClose
    <3> QED BY <3>1, <2>2, <1>1 DEF RelaysOK
  <2>4. CASE ~heardOf(r, k)
    <3>1. /\ closed' = closed \cup {<<r, k>>} /\ relaySubs' = [relaySubs EXCEPT ![r] = 0]
          /\ timers' = [timers EXCEPT ![r] = @ + retries]
      BY <2>4 DEF OnClose
    <3>2. k = relaySubs[r] /\ relaySubs[r] # 0
      BY <2>1, <2>2, <2>4 DEF RelaysOK, heardOf
    <3>3. joined /\ timers[r] = 0
      BY <2>1, <2>2, <3>2 DEF RelaysOK
    <3>4. retries = 1
      BY <3>3 DEF retries
    <3>5. timers' = [timers EXCEPT ![r] = 1]
      BY <3>1, <3>3, <3>4, <2>2 DEF RelaysOK
    <3>6. /\ relaySubs' \in [Relay -> Nat] /\ timers' \in [Relay -> Nat]
          /\ \A x \in live' : x[1] \in left'.via /\ x[2] \in 1..arms'[x[1]]
          /\ \A q \in Relay \ left'.via : timers'[q] = 0 /\ relaySubs'[q] = 0
      BY <3>1, <3>5, <2>1, <2>2, <1>1 DEF RelaysOK
    <3>7. ASSUME NEW q \in left'.via
          PROVE  /\ relaySubs'[q] \in {0, arms'[q]} /\ (~joined' => relaySubs'[q] = 0)
                 /\ timers'[q] <= 1 /\ (timers'[q] = 1 => relaySubs'[q] = 0)
                 /\ \A j \in 1..arms'[q] : <<q, j>> \notin closed' => j = relaySubs'[q]
      <4>1. q \in Relay
        BY <1>1 DEF TransportInv, SignsOK, Setting
      <4>2. CASE q = r
        BY <4>1, <4>2, <3>1, <3>2, <3>3, <3>5, <2>1, <2>2 DEF RelaysOK
      <4>3. CASE q # r
        BY <4>1, <4>3, <3>1, <3>5, <2>2, <1>1 DEF RelaysOK
      <4> QED BY <4>2, <4>3
    <3> QED BY <3>6, <3>7, <2>2 DEF RelaysOK
  <2> QED BY <2>3, <2>4
<1> QED BY <1>2, <1>3, <1>4, <1>5 DEF TransportInv

(* A relay replays presences of the peers.                                 *)
LEMMA ReplayedOK ==
  ASSUME presences \in [Peer -> Age], NEW r
  PROVE  AirOK(replayed(r), said)
<1> SUFFICES ASSUME NEW p \in Peer PROVE presence(p) \in Presence
  BY DEF AirOK, replayed
<1> QED BY DEF presence, Presence

(* A relay is armed again.                                                 *)
LEMMA ReArmOK ==
  ASSUME TransportInv, NEW r \in Relay, ReArm(r)
  PROVE  TransportInv'
<1>1. SignsOK'
  BY DEF TransportInv, SignsOK, ReArm, life
<1>2. LinksOK'
  BY LinksSame DEF TransportInv, ReArm
<1>3. SaidOK(said, left)' /\ AirOK(air, said)' /\ ReasmOK(reasm, said)' /\ Remembered(reasm, said)'
  <2>1. said' = said /\ left' = left /\ reasm' = reasm
    BY DEF ReArm
  <2>2. air' = air \/ air' = air \cup replayed(r)
    BY DEF ReArm, armRelay
  <2>3. AirOK(air, said) /\ AirOK(replayed(r), said)
    BY ReplayedOK DEF TransportInv, SignsOK
  <2>4. AirOK(air', said)
    BY <2>2, <2>3 DEF AirOK
  <2> QED BY <2>1, <2>4 DEF TransportInv
<1>4. RelaysOK'
  <2>1. /\ RelaysOK /\ left' = left /\ joined' = joined /\ closed' = closed
        /\ timers' = [timers EXCEPT ![r] = @ - 1] /\ timers[r] > 0
    BY DEF TransportInv, ReArm
  <2>2. r \in left.via /\ timers[r] = 1 /\ timers'[r] = 0 /\ relaySubs[r] = 0
        /\ timers' \in [Relay -> Nat]
    BY <2>1 DEF RelaysOK
  <2>3. CASE ~joined
    <3>1. arms' = arms /\ relaySubs' = relaySubs /\ live' = live
      BY <2>3 DEF ReArm
    <3> QED BY <3>1, <2>1, <2>2 DEF RelaysOK
  <2>4. CASE joined
    <3>1. /\ arms' = [arms EXCEPT ![r] = @ + 1]
          /\ relaySubs' = [relaySubs EXCEPT ![r] = arms'[r]]
          /\ live' = live \cup opened(r, arms'[r])
      BY <2>4 DEF ReArm, armRelay
    <3>2. /\ arms'[r] = arms[r] + 1 /\ relaySubs'[r] = arms'[r] /\ arms[r] \in Nat
          /\ arms' \in [Relay -> Nat] /\ relaySubs' \in [Relay -> Nat]
      BY <3>1, <2>1 DEF RelaysOK
    <3>3. \A x \in live' : x[1] \in left'.via /\ x[2] \in 1..arms'[x[1]]
      <4>1. ASSUME NEW x \in live PROVE x[1] \in left'.via /\ x[2] \in 1..arms'[x[1]]
        BY <3>1, <3>2, <2>1 DEF RelaysOK
      <4>2. ASSUME NEW s \in Subs
            PROVE  <<r, arms'[r], s>>[1] \in left'.via
                   /\ <<r, arms'[r], s>>[2] \in 1..arms'[<<r, arms'[r], s>>[1]]
        BY <3>2, <2>1, <2>2
      <4> QED BY <4>1, <4>2, <3>1 DEF opened
    <3>4. ASSUME NEW q \in left'.via
          PROVE  /\ relaySubs'[q] \in {0, arms'[q]} /\ (~joined' => relaySubs'[q] = 0)
                 /\ timers'[q] <= 1 /\ (timers'[q] = 1 => relaySubs'[q] = 0)
                 /\ \A j \in 1..arms'[q] : <<q, j>> \notin closed' => j = relaySubs'[q]
      <4>1. q \in Relay
        BY <2>1 DEF TransportInv, SignsOK, Setting
      <4>2. CASE q = r
        <5>1. ASSUME NEW j \in 1..arms'[q], <<q, j>> \notin closed' PROVE j = arms'[q]
          <6>1. j \notin 1..arms[q]
            BY <5>1, <4>2, <2>1, <2>2 DEF RelaysOK
          <6> QED BY <5>1, <6>1, <4>2, <3>2
        <5> QED BY <5>1, <4>2, <3>2, <2>1, <2>2, <2>4
      <4>3. CASE q # r
        BY <4>1, <4>3, <3>1, <2>1 DEF RelaysOK
      <4> QED BY <4>2, <4>3
    <3>5. \A q \in Relay \ left'.via : timers'[q] = 0 /\ relaySubs'[q] = 0
      BY <3>1, <2>1, <2>2 DEF RelaysOK
    <3> QED BY <3>2, <3>3, <3>4, <3>5, <2>1, <2>2 DEF RelaysOK
  <2> QED BY <2>3, <2>4
<1> QED BY <1>1, <1>2, <1>3, <1>4 DEF TransportInv

(* What is heard is heard by a transport there is, which has the peers it  *)
(* pinned.                                                                 *)
LEMMA HeardWhenJoined ==
  ASSUME TransportInv, NEW r, NEW s, listens(r, s)
  PROVE  joined /\ InRoom(TheLinks, pinned) /\ Connected(TheLinks) /\ pinned \subseteq Peer
<1>1. r \in left.via /\ relaySubs[r] # 0
  BY DEF TransportInv, RelaysOK, listens
<1>2. joined
  BY <1>1 DEF TransportInv, RelaysOK
<1> QED BY <1>2 DEF TransportInv, LinksOK

(* Links that are in order become the links of the node.                   *)
LEMMA BecomeOK ==
  ASSUME NEW o, Connected(o), InRoom(o, pinned'), Become(o),
         pinned' \subseteq Peer, known' \subseteq pinned'
  PROVE  LinksOK'
<1>1. active' = o.active /\ conns' = o.conns /\ offers' = o.offers
  BY DEF Become
<1>2. TheLinks'.active = o.active /\ TheLinks'.conns = o.conns /\ TheLinks'.offers = o.offers
  BY <1>1 DEF TheLinks, Links
<1>3. Connected(TheLinks')
  BY <1>2 DEF Connected
<1>4. InRoom(TheLinks', pinned')
  BY <1>2 DEF InRoom
<1> QED BY <1>3, <1>4 DEF LinksOK

(* A presence.                                                             *)
LEMMA HearPresenceOK ==
  ASSUME TransportInv, NEW r, NEW e, <<r, e>> \in air, HearPresence(r, e)
  PROVE  TransportInv'
<1>1. e.from \in Peer /\ listens(r, "presence")
  <2>1. e \in Presence
    BY DEF TransportInv, AirOK, HearPresence, Frame
  <2> QED BY <2>1 DEF Presence, HearPresence
<1>2. SignsOK'
  <2>1. /\ left' = left /\ lastFrame' = lastFrame /\ presences' = presences
        /\ seen' = seen \/ seen' = [seen EXCEPT ![e.from] = 0]
    BY DEF HearPresence
  <2>2. 0 \in Age
    BY TransportAssumption DEF Age, Never
  <2> QED BY <2>1, <2>2 DEF TransportInv, SignsOK
<1>3. RelaysOK'
  BY RelaysSame DEF TransportInv, HearPresence
<1>4. SaidOK(said, left)' /\ AirOK(air, said)' /\ ReasmOK(reasm, said)' /\ Remembered(reasm, said)'
  <2>1. air' \subseteq air /\ reasm' = reasm /\ said' = said /\ left' = left
    BY DEF HearPresence
  <2> QED BY <2>1, MessagesSame DEF TransportInv
<1>5. LinksOK'
  <2>1. joined /\ InRoom(TheLinks, pinned) /\ Connected(TheLinks)
    BY <1>1, HeardWhenJoined
  <2>2. /\ pinned' = pinned /\ known' = known /\ joined' = joined
        /\ pinned \subseteq Peer /\ known \subseteq pinned
    BY <2>1 DEF TransportInv, LinksOK, HearPresence, pins
  <2>3. CASE UNCHANGED <<seen, links>>
    BY <2>2, <2>3, LinksSame DEF TransportInv, pins
  <2>4. CASE \E o \in activate(TheLinks, e.from, lastFrame, seen', pinned) : Become(o)
    <3>1. PICK o \in activate(TheLinks, e.from, lastFrame, seen', pinned) : Become(o)
      BY <2>4
    <3>2. Connected(o) /\ InRoom(o, pinned)
      BY <3>1, <2>1, <1>1, ActivateOK
    <3> QED BY <3>1, <3>2, <2>2, BecomeOK
  <2> QED BY <2>3, <2>4 DEF HearPresence
<1> QED BY <1>2, <1>3, <1>4, <1>5 DEF TransportInv

(* An event is lost.                                                       *)
LEMMA DropOK ==
  ASSUME TransportInv, NEW r, NEW e, Drop(r, e)
  PROVE  TransportInv'
<1>1. left' \in Setting /\ left'.via = left.via /\ left'.says = left.says
  <2>1. left' = left \/ Spend("losses")
    BY DEF Drop
  <2> QED BY <2>1, SpendOK DEF TransportInv, SignsOK
<1>2. SignsOK'
  BY <1>1 DEF TransportInv, SignsOK, Drop, life
<1>3. RelaysOK'
  BY <1>1, RelaysSame DEF TransportInv, Drop
<1>4. LinksOK'
  BY LinksSame DEF TransportInv, Drop
<1>5. SaidOK(said, left)' /\ AirOK(air, said)' /\ ReasmOK(reasm, said)' /\ Remembered(reasm, said)'
  <2>1. air' \subseteq air /\ reasm' = reasm /\ said' = said
    BY DEF Drop
  <2> QED BY <2>1, <1>1, MessagesSame DEF TransportInv
<1> QED BY <1>2, <1>3, <1>4, <1>5 DEF TransportInv

(* Peers that went quiet are dropped, pinned ones are not.                 *)
LEMMA SweepAllOK ==
  ASSUME TransportInv, Sweep
  PROVE  TransportInv'
<1> DEFINE stale == {p \in Peer : gone(p)}
           dropped == (active \cap stale) \ pinned
<1>1. SignsOK'
  <2>1. Never \in Age
    BY TransportAssumption DEF Age, Never
  <2> QED BY <2>1 DEF TransportInv, SignsOK, Sweep
<1>2. RelaysOK'
  BY RelaysSame DEF TransportInv, Sweep
<1>3. SaidOK(said, left)' /\ AirOK(air, said)' /\ ReasmOK(reasm, said)' /\ Remembered(reasm, said)'
  <2>1. air' = air /\ reasm' = reasm /\ said' = said /\ left' = left
    BY DEF Sweep
  <2> QED BY <2>1, MessagesSame DEF TransportInv
<1>4. LinksOK'
  <2> DEFINE o == Links(active \ dropped, conns \ dropped,
                        [p \in Peer |-> IF p \in dropped THEN None ELSE offers[p]])
  <2>1. /\ joined /\ InRoom(TheLinks, pinned) /\ Connected(TheLinks)
        /\ pinned \subseteq Peer /\ known \subseteq pinned
    BY DEF TransportInv, LinksOK, Sweep
  <2>2. Become(o) /\ pinned' = pinned /\ known' = known
    BY DEF Sweep, Become, Links, pins
  <2>3. /\ o.active = active \ dropped /\ o.conns = conns \ dropped
        /\ o.offers = [p \in Peer |-> IF p \in dropped THEN None ELSE offers[p]]
    BY DEF Links
  <2>4. /\ TheLinks.active = active /\ TheLinks.conns = conns /\ TheLinks.offers = offers
    BY DEF TheLinks, Links
  <2>5. dropped \cap pinned = {}
    OBVIOUS
  <2> HIDE DEF o, dropped
  <2>6. Connected(o)
    BY <2>1, <2>3, <2>4 DEF Connected
  <2>7. InRoom(o, pinned)
    <3>1. pinned \subseteq o.active /\ o.active \ pinned \subseteq active \ pinned
      BY <2>1, <2>3, <2>4, <2>5 DEF InRoom
    <3>2. IsFiniteSet(active \ pinned) /\ Cardinality(active \ pinned) <= MaxPeers
      <4>1. active \ pinned \subseteq Peer
        BY <2>1, <2>4 DEF Connected
      <4> QED BY <4>1, <2>1, <2>4, TransportAssumption, FS_Subset DEF InRoom
    <3>3. /\ Cardinality(o.active \ pinned) <= Cardinality(active \ pinned)
          /\ Cardinality(o.active \ pinned) \in Nat /\ Cardinality(active \ pinned) \in Nat
      BY <3>1, <3>2, FS_Subset, FS_CardinalityType
    <3>4. Cardinality(o.active \ pinned) <= MaxPeers
      BY <3>2, <3>3, TransportAssumption
    <3> QED BY <3>1, <3>4 DEF InRoom
  <2> QED BY <2>1, <2>2, <2>6, <2>7, BecomeOK
<1> QED BY <1>1, <1>2, <1>3, <1>4 DEF TransportInv

(* A peer is pinned, and has a connection if there is a transport.         *)
LEMMA DialOK ==
  ASSUME TransportInv, NEW p \in Peer, Dial(p)
  PROVE  TransportInv'
<1>1. left' \in Setting /\ left'.via = left.via /\ left'.says = left.says
  BY DEF TransportInv, SignsOK, Dial, Setting
<1>2. SignsOK'
  BY <1>1 DEF TransportInv, SignsOK, Dial, life
<1>3. RelaysOK'
  BY <1>1, RelaysSame DEF TransportInv, Dial
<1>4. SaidOK(said, left)' /\ AirOK(air, said)' /\ ReasmOK(reasm, said)' /\ Remembered(reasm, said)'
  <2>1. air' = air /\ reasm' = reasm /\ said' = said
    BY DEF Dial
  <2> QED BY <2>1, <1>1, MessagesSame DEF TransportInv
<1>5. LinksOK'
  <2>1. known' \subseteq known \cup {p} /\ joined' = joined /\ LinksOK
    BY DEF TransportInv, Dial
  <2>2. CASE joined
    <3>1. PICK o \in activate(TheLinks, p, lastFrame, seen, pinned') : Become(o)
      BY <2>2 DEF Dial
    <3>2. pinned' = pinned \cup {p}
      BY <2>2 DEF Dial
    <3>3. Connected(o) /\ InRoom(o, pinned')
      BY <3>1, <3>2, <2>1, <2>2, ActivateOK DEF LinksOK
    <3> QED BY <3>1, <3>2, <3>3, <2>1, <2>2, BecomeOK DEF LinksOK
  <2>3. CASE ~joined
    <3>1. pinned' = pinned /\ active' = active /\ conns' = conns /\ offers' = offers
      BY <2>3 DEF Dial, links
    <3>2. TheLinks' = TheLinks
      BY <3>1 DEF TheLinks
    <3> QED BY <3>1, <3>2, <2>1, <2>3 DEF LinksOK
  <2> QED BY <2>2, <2>3
<1> QED BY <1>2, <1>3, <1>4, <1>5 DEF TransportInv

(* A peer is no longer dialed at the next start.                           *)
LEMMA UnpinOK ==
  ASSUME TransportInv, NEW p \in Peer, Unpin(p)
  PROVE  TransportInv'
<1>1. SignsOK'
  BY DEF TransportInv, SignsOK, Unpin, life
<1>2. RelaysOK'
  BY RelaysSame DEF TransportInv, Unpin
<1>3. SaidOK(said, left)' /\ AirOK(air, said)' /\ ReasmOK(reasm, said)' /\ Remembered(reasm, said)'
  <2>1. air' = air /\ reasm' = reasm /\ said' = said /\ left' = left
    BY DEF Unpin
  <2> QED BY <2>1, MessagesSame DEF TransportInv
<1>4. LinksOK'
  <2>1. /\ known' \subseteq known /\ joined' = joined /\ pinned' = pinned
        /\ active' = active /\ conns' = conns /\ offers' = offers
    BY DEF Unpin, links
  <2>2. TheLinks' = TheLinks
    BY <2>1 DEF TheLinks
  <2> QED BY <2>1, <2>2 DEF TransportInv, LinksOK
<1> QED BY <1>1, <1>2, <1>3, <1>4 DEF TransportInv

(* A channel is left: whatever was subscribed to is closed.                *)
LEMMA LeaveOK ==
  ASSUME TransportInv, Leave
  PROVE  TransportInv'
<1>1. left' \in Setting /\ left'.via = left.via /\ left'.says = left.says
  BY SpendOK DEF TransportInv, SignsOK, Leave
<1>2. SignsOK'
  BY <1>1 DEF TransportInv, SignsOK, Leave, life
<1>3. SaidOK(said, left)' /\ AirOK(air, said)' /\ ReasmOK(reasm, said)' /\ Remembered(reasm, said)'
  <2>1. air' = air /\ reasm' = reasm /\ said' = said
    BY DEF Leave
  <2> QED BY <2>1, <1>1, MessagesSame DEF TransportInv
<1>4. LinksOK'
  <2>1. /\ ~joined' /\ active' = {} /\ conns' = {} /\ offers' = NoVotes
        /\ pinned' = pinned /\ known' = known
    BY DEF Leave, pins
  <2>2. /\ TheLinks'.active = {} /\ TheLinks'.conns = {} /\ TheLinks'.offers = NoVotes
    BY <2>1 DEF TheLinks, Links
  <2>3. Connected(TheLinks')
    BY <2>2 DEF Connected, NoVotes
  <2> QED BY <2>1, <2>3 DEF TransportInv, LinksOK
<1>5. RelaysOK'
  <2>1. /\ joined' = FALSE /\ relaySubs' = [r \in Relay |-> 0]
        /\ closed' = closed \cup {<<r, arms[r]>> : r \in Relay}
        /\ live' = live /\ timers' = timers /\ arms' = arms /\ RelaysOK
    BY DEF TransportInv, Leave
  <2>2. ASSUME NEW q \in left'.via
        PROVE  /\ timers'[q] <= 1
               /\ \A j \in 1..arms'[q] : <<q, j>> \in closed'
    <3>1. q \in Relay /\ q \in left.via
      BY <1>1 DEF TransportInv, SignsOK, Setting
    <3> QED BY <3>1, <2>1 DEF RelaysOK
  <2>3. \A q \in left'.via : relaySubs'[q] = 0
    BY <2>1, <1>1 DEF TransportInv, SignsOK, Setting
  <2> QED BY <2>1, <2>2, <2>3, <1>1 DEF RelaysOK
<1> QED BY <1>2, <1>3, <1>4, <1>5 DEF TransportInv

(* A node that has nothing of any message is in order.                     *)
LEMMA EmptyOK ==
  ASSUME NEW s PROVE ReasmOK(Empty, s)
<1>1. /\ Empty.partials = {} /\ Empty.done = {}
      /\ Empty = [partials |-> Empty.partials, done |-> Empty.done]
  BY DEF Empty
<1>2. buffered({}) = 0
  <2>1. UNION {{x} \X (1..[p \in {} |-> p.bytes][x]) : x \in {}} = {}
    OBVIOUS
  <2> QED BY <2>1, FS_EmptySet DEF buffered, sumOf
<1>3. \A p \in Peer : Cardinality(of({}, p)) = 0
  <2>1. \A p \in Peer : of({}, p) = {}
    BY DEF of
  <2> QED BY <2>1, FS_EmptySet
<1>4. Bounded({})
  BY <1>2, <1>3, ChunksAssumption DEF Bounded
<1> QED BY <1>1, <1>4, FS_EmptySet DEF ReasmOK, Unique

(* A channel is joined: every relay is armed once more, the known peers    *)
(* are dialed.                                                             *)
LEMMA JoinOK ==
  ASSUME TransportInv, Join
  PROVE  TransportInv'
<1>1. left' = left /\ left.via \subseteq Relay
  BY DEF TransportInv, SignsOK, Setting, Join
<1>2. SignsOK'
  <2>1. NoSigns \in [Peer -> Age]
    BY TransportAssumption DEF NoSigns, Age, Never
  <2> QED BY <2>1 DEF TransportInv, SignsOK, Join
<1>3. LinksOK'
  <2>1. /\ pinned' = known /\ active' = known /\ conns' = known /\ offers' = NoVotes
        /\ known' = known /\ known \subseteq Peer
    BY DEF TransportInv, LinksOK, Join
  <2> DEFINE o == Links(known, known, NoVotes)
  <2>2. o.active = known /\ o.conns = known /\ o.offers = NoVotes /\ Become(o)
    BY <2>1 DEF Links, Become
  <2> HIDE DEF o
  <2>3. Connected(o)
    BY <2>1, <2>2 DEF Connected, NoVotes
  <2>4. InRoom(o, known)
    <3>1. Cardinality(known \ known) = 0
      <4>1. known \ known = {}
        OBVIOUS
      <4> QED BY <4>1, FS_EmptySet
    <3> QED BY <3>1, <2>2, TransportAssumption DEF InRoom
  <2> QED BY <2>1, <2>2, <2>3, <2>4, BecomeOK
<1>4. RelaysOK'
  <2>a. /\ relaySubs' = arms' /\ timers' = [r \in Relay |-> 0] /\ joined' = TRUE /\ closed' = closed
    BY Zenon DEF Join
  <2>b. arms' = [r \in Relay |-> IF r \in left.via THEN arms[r] + 1 ELSE 0]
    BY Zenon DEF Join
  <2>c. live' = live \cup UNION {opened(r, arms'[r]) : r \in left.via}
    BY Zenon DEF Join
  <2>d. RelaysOK /\ ~joined
    BY Zenon DEF TransportInv, Join
  <2>1. /\ relaySubs' = arms' /\ timers' = [r \in Relay |-> 0] /\ joined' = TRUE /\ closed' = closed
        /\ arms' = [r \in Relay |-> IF r \in left.via THEN arms[r] + 1 ELSE 0]
        /\ RelaysOK /\ ~joined
    BY <2>a, <2>b, <2>d
  <2>2. ASSUME NEW q \in left.via
        PROVE  /\ arms'[q] = arms[q] + 1 /\ arms[q] \in Nat
               /\ \A j \in 1..arms'[q] : <<q, j>> \notin closed' => j = arms'[q]
    <3>1. q \in Relay /\ relaySubs[q] = 0
      BY <1>1, <2>1 DEF RelaysOK
    <3>2. arms'[q] = arms[q] + 1 /\ arms[q] \in Nat
      BY <3>1, <2>1 DEF RelaysOK
    <3>3. \A j \in 1..arms[q] : <<q, j>> \in closed
      BY <3>1, <2>1 DEF RelaysOK
    <3> QED BY <3>2, <3>3, <2>1
  <2>3. arms' \in [Relay -> Nat] /\ relaySubs' \in [Relay -> Nat] /\ timers' \in [Relay -> Nat]
    BY <2>1 DEF RelaysOK
  <2>4. \A x \in live' : x[1] \in left.via /\ x[2] \in 1..arms'[x[1]]
    <3>1. ASSUME NEW x \in live PROVE x[1] \in left.via /\ x[2] \in 1..arms'[x[1]]
      BY <2>1, <2>2 DEF RelaysOK
    <3>2. ASSUME NEW r \in left.via, NEW s \in Subs
          PROVE  <<r, arms'[r], s>>[1] \in left.via
                 /\ <<r, arms'[r], s>>[2] \in 1..arms'[<<r, arms'[r], s>>[1]]
      BY <2>2
    <3> QED BY <3>1, <3>2, <2>c DEF opened
  <2>5. \A q \in Relay \ left.via : timers'[q] = 0 /\ relaySubs'[q] = 0
    BY <2>1
  <2>6. \A q \in left.via : timers'[q] = 0 /\ relaySubs'[q] = arms'[q]
    BY <2>1, <1>1
  <2> QED BY <2>1, <2>2, <2>3, <2>4, <2>5, <2>6, <1>1 DEF RelaysOK
<1>5. SaidOK(said, left)' /\ AirOK(air, said)' /\ ReasmOK(reasm, said)' /\ Remembered(reasm, said)'
  <2>1. /\ said' = [m \in DOMAIN said |->
                      [said[m] EXCEPT !.arrived = {}, !.late = FALSE, !.heard = 0]]
        /\ reasm' = Empty /\ air' = air \cup UNION {replayed(r) : r \in left.via}
    BY DEF Join
  <2>2. DOMAIN said' = DOMAIN said
    BY <2>1
  <2>3. ASSUME NEW m \in DOMAIN said
        PROVE  /\ said'[m] \in Message /\ said'[m].parts = said[m].parts /\ said'[m].heard = 0
               /\ m \in Peer \X Nat /\ m[2] > left.says[m[1]] /\ Len(said[m].parts) <= MaxParts
    <3>1. /\ m \in Peer \X Nat /\ m[2] > left.says[m[1]] /\ Len(said[m].parts) <= MaxParts
          /\ said[m] \in Message
      BY Zenon DEF TransportInv, SaidOK
    <3>2. said'[m] = [said[m] EXCEPT !.arrived = {}, !.late = FALSE, !.heard = 0]
      BY <2>1
    <3>3. ASSUME NEW s \in Message
          PROVE  LET t == [s EXCEPT !.arrived = {}, !.late = FALSE, !.heard = 0]
                 IN  t \in Message /\ t.parts = s.parts /\ t.heard = 0
      <4> DEFINE s1 == [s EXCEPT !.arrived = {}]
                 s2 == [s1 EXCEPT !.late = FALSE]
                 s3 == [s2 EXCEPT !.heard = 0]
      <4>1. s1 \in Message /\ s1.parts = s.parts
        BY DEF Message
      <4> HIDE DEF s1
      <4>2. s2 \in Message /\ s2.parts = s.parts
        BY <4>1 DEF Message
      <4> HIDE DEF s2
      <4>3. s3 \in Message /\ s3.parts = s.parts /\ s3.heard = 0
        BY <4>2 DEF Message
      <4> QED BY <4>3, Zenon DEF s1, s2
    <3> QED BY <3>1, <3>2, <3>3
  <2>4. SaidOK(said, left)'
    BY <2>2, <2>3, <1>1 DEF SaidOK
  <2>5. AirOK(air, said)'
    <3>1. AirOK(air, said)
      BY DEF TransportInv
    <3>2. \A r \in left.via : AirOK(replayed(r), said)
      BY ReplayedOK DEF TransportInv, SignsOK
    <3>3. AirOK(air', said)
      BY <3>1, <3>2, <2>1 DEF AirOK
    <3> QED BY <3>3, <2>2, <2>3 DEF AirOK, Frame
  <2>6. ReasmOK(reasm, said)'
    BY <2>1, EmptyOK
  <2>7. Remembered(reasm, said)'
    BY <2>2, <2>3 DEF Remembered
  <2> QED BY <2>4, <2>5, <2>6, <2>7
<1> QED BY <1>2, <1>3, <1>4, <1>5 DEF TransportInv

(* A peer publishes its presence.                                          *)
LEMMA AnnounceOK ==
  ASSUME TransportInv, NEW p \in Peer, Announce(p)
  PROVE  TransportInv'
<1>1. left' \in Setting /\ left'.via = left.via /\ left'.says = left.says
  BY DEF TransportInv, SignsOK, Announce, Setting
<1>2. 0 \in Age
  BY TransportAssumption DEF Age, Never
<1>3. SignsOK'
  BY <1>1, <1>2 DEF TransportInv, SignsOK, Announce, life
<1>4. RelaysOK'
  BY <1>1, RelaysSame DEF TransportInv, Announce
<1>5. LinksOK'
  BY LinksSame DEF TransportInv, Announce
<1>6. SaidOK(said, left)' /\ AirOK(air, said)' /\ ReasmOK(reasm, said)' /\ Remembered(reasm, said)'
  <2> DEFINE e == [kind |-> "presence", from |-> p, age |-> 0]
  <2>1. /\ air' = air \cup {<<r, e>> : r \in left.via}
        /\ reasm' = reasm /\ said' = said
    BY DEF Announce
  <2>2. e \in Presence
    BY <1>2 DEF Presence
  <2> HIDE DEF e
  <2>3. AirOK(air', said)
    BY <2>1, <2>2 DEF TransportInv, AirOK
  <2>4. SaidOK(said', left')
    BY <2>1, <1>1 DEF TransportInv, SaidOK
  <2> QED BY <2>1, <2>3, <2>4 DEF TransportInv
<1> QED BY <1>3, <1>4, <1>5, <1>6 DEF TransportInv

(* What holds of the reassembler holds when more has been said.            *)
LEMMA MoreSaidOK ==
  ASSUME NEW s, NEW t, DOMAIN s \subseteq DOMAIN t, \A m \in DOMAIN s : t[m].parts = s[m].parts
  PROVE  /\ \A r : ReasmOK(r, s) => ReasmOK(r, t)
         /\ \A a : AirOK(a, s) => AirOK(a, t)
<1>1. ASSUME NEW p, PartialOK(p, s) PROVE PartialOK(p, t)
  BY <1>1 DEF PartialOK
<1>2. [msg : DOMAIN s, age : PartAge] \subseteq [msg : DOMAIN t, age : PartAge]
  OBVIOUS
<1>3. ASSUME NEW r, ReasmOK(r, s) PROVE ReasmOK(r, t)
  BY <1>1, <1>2, <1>3 DEF ReasmOK
<1>4. ASSUME NEW e \in Frame(s), e.index \in DOMAIN s[e.msg].parts
      PROVE  e \in Frame(t) /\ e.index \in DOMAIN t[e.msg].parts
  BY <1>4 DEF Frame
<1>5. ASSUME NEW a, AirOK(a, s) PROVE AirOK(a, t)
  BY <1>4, <1>5 DEF AirOK
<1> QED BY <1>3, <1>5

(* A peer says something new.                                              *)
LEMMA SayOK ==
  ASSUME TransportInv, NEW p \in Peer, NEW size \in left.sizes, NEW c \in Checkpoint, Say(p, size, c)
  PROVE  TransportInv'
<1> DEFINE m == <<p, left.says[p]>>
           parts == splitPayload(size)
           new == [parts |-> parts, vote |-> c, arrived |-> {}, age |-> 0, late |-> FALSE, heard |-> 0]
<1>1. /\ left.says[p] \in Nat /\ left.says[p] > 0 /\ size \in Nat \ {0} /\ left \in Setting
      /\ left.says \in [Peer -> Nat]
  BY DEF TransportInv, SignsOK, Setting, Say
<1>2. left' = [left EXCEPT !.says[p] = @ - 1]
  BY DEF Say
<1>3. /\ left' \in Setting /\ left'.via = left.via
      /\ left'.says = [left.says EXCEPT ![p] = left.says[p] - 1]
  BY <1>1, <1>2 DEF Setting
<1>4. SignsOK'
  BY <1>3 DEF TransportInv, SignsOK, Say, life
<1>5. RelaysOK'
  BY <1>3, RelaysSame DEF TransportInv, Say
<1>6. LinksOK'
  BY LinksSame DEF TransportInv, Say
<1>7. /\ said' = [x \in DOMAIN said \cup {m} |-> IF x \in DOMAIN said THEN said[x] ELSE new]
      /\ air' = air \cup {<<r, [kind |-> "frame", msg |-> m, index |-> i]>> :
                            r \in left.via, i \in DOMAIN parts}
      /\ reasm' = reasm
  BY DEF Say
<1>8. parts \in Seq(Nat) /\ Len(parts) <= MaxParts
  BY <1>1, SplitShape
<1> HIDE DEF parts
<1>9. new \in Message /\ new.parts = parts /\ new.heard = 0
  <2>1. 0 \in PartAge /\ 0 \in 0..2
    BY ChunksAssumption DEF PartAge
  <2> QED BY <2>1, <1>8 DEF Message
<1> HIDE DEF new
<1>10. /\ m \notin DOMAIN said /\ m \in Peer \X Nat /\ m[1] = p /\ m[2] = left.says[p]
  <2>1. m \notin DOMAIN said
    BY <1>1 DEF TransportInv, SaidOK
  <2> QED BY <2>1, <1>1
<1> HIDE DEF m
<1>11. /\ DOMAIN said' = DOMAIN said \cup {m} /\ said'[m] = new
       /\ \A x \in DOMAIN said : said'[x] = said[x]
  BY <1>7, <1>10
<1>12. SaidOK(said', left')
  <2>1. ASSUME NEW x \in DOMAIN said
        PROVE  /\ x \in Peer \X Nat /\ x[2] > left'.says[x[1]]
               /\ said'[x] \in Message /\ Len(said'[x].parts) <= MaxParts
               /\ said'[x].heard > 0 => said'[x].arrived # {}
    <3>1. /\ x \in Peer \X Nat /\ x[2] > left.says[x[1]]
          /\ said[x] \in Message /\ Len(said[x].parts) <= MaxParts
          /\ said[x].heard > 0 => said[x].arrived # {}
      BY DEF TransportInv, SaidOK
    <3>2. left'.says[x[1]] <= left.says[x[1]] /\ left'.says[x[1]] \in Nat /\ left.says[x[1]] \in Nat
      BY <3>1, <1>1, <1>3
    <3> QED BY <3>1, <3>2, <1>11
  <2>2. left'.says[p] = left.says[p] - 1
    BY <1>1, <1>3
  <2>3. m[2] > left'.says[m[1]]
    BY <2>2, <1>1, <1>10
  <2> QED BY <2>1, <2>3, <1>8, <1>9, <1>10, <1>11 DEF SaidOK
<1>13. AirOK(air', said')
  <2>1. AirOK(air, said')
    BY <1>11, MoreSaidOK DEF TransportInv
  <2>2. ASSUME NEW i \in DOMAIN parts
        PROVE  /\ [kind |-> "frame", msg |-> m, index |-> i] \in Frame(said')
               /\ i \in DOMAIN said'[m].parts
    BY <1>8, <1>9, <1>11 DEF Frame
  <2> QED BY <2>1, <2>2, <1>7 DEF AirOK
<1>14. ReasmOK(reasm', said')
  BY <1>7, <1>11, MoreSaidOK DEF TransportInv
<1>15. Remembered(reasm', said')
  BY <1>7, <1>9, <1>11 DEF TransportInv, Remembered
<1> QED BY <1>4, <1>5, <1>6, <1>12, <1>13, <1>14, <1>15 DEF TransportInv


(* What is noted of a part that came: nothing of other messages changes.   *)
LEMMA NotedOK ==
  ASSUME NEW m \in DOMAIN said, said[m] \in Message, NEW i \in Nat, NEW w \in BOOLEAN,
         NEW s, s = Noted(m, i, w)
  PROVE  /\ DOMAIN s = DOMAIN said /\ \A x \in DOMAIN said \ {m} : s[x] = said[x]
         /\ s[m] \in Message /\ s[m].parts = said[m].parts /\ s[m].arrived # {}
         /\ s[m].vote = said[m].vote /\ s[m].arrived = said[m].arrived \cup {i}
         /\ s[m].age = IF said[m].heard > 0 THEN said[m].age ELSE 0
         /\ ~s[m].late => ~said[m].late /\ ~(said[m].age > ChunkTtl /\ said[m].arrived # {})
         /\ s[m].heard = IF w /\ said[m].heard < 2 THEN said[m].heard + 1 ELSE said[m].heard
<1> DEFINE old == said[m]
           late == old.age > ChunkTtl /\ old.arrived # {}
           s1 == [old EXCEPT !.arrived = old.arrived \cup {i}]
           s2 == [s1 EXCEPT !.age = IF old.heard > 0 THEN old.age ELSE 0]
           s3 == [s2 EXCEPT !.late = old.late \/ late]
           times == IF w /\ old.heard < 2 THEN old.heard + 1 ELSE old.heard
           s4 == [s3 EXCEPT !.heard = times]
<1>1. s = [said EXCEPT ![m] = s4]
  BY Zenon DEF Noted
<1>2. DOMAIN s = DOMAIN said /\ s[m] = s4 /\ \A x \in DOMAIN said \ {m} : s[x] = said[x]
  BY <1>1
<1>3. 0 \in PartAge /\ late \in BOOLEAN
  BY ChunksAssumption DEF PartAge
<1>4. old \in Message
  OBVIOUS
<1> HIDE DEF old, late
<1>5. /\ s1 \in Message /\ s1.parts = old.parts /\ s1.vote = old.vote /\ s1.arrived = old.arrived \cup {i}
      /\ s1.age = old.age /\ s1.late = old.late /\ s1.heard = old.heard
  BY <1>4 DEF Message
<1> HIDE DEF s1
<1>6. /\ s2 \in Message /\ s2.parts = old.parts /\ s2.vote = old.vote /\ s2.arrived = old.arrived \cup {i}
      /\ s2.age = (IF old.heard > 0 THEN old.age ELSE 0) /\ s2.late = old.late /\ s2.heard = old.heard
  BY <1>3, <1>5 DEF Message
<1> HIDE DEF s2
<1>7. /\ s3 \in Message /\ s3.parts = old.parts /\ s3.vote = old.vote /\ s3.arrived = old.arrived \cup {i}
      /\ s3.age = s2.age /\ s3.heard = old.heard
  BY <1>3, <1>6 DEF Message
<1>8. s3.late = (old.late \/ late)
  BY <1>6 DEF Message
<1> HIDE DEF s3
<1>a. times \in 0..2
  <2>1. old.heard \in 0..2
    BY <1>4 DEF Message
  <2> QED BY <2>1
<1> HIDE DEF times
<1>9. /\ s4 \in Message /\ s4.parts = old.parts /\ s4.vote = old.vote /\ s4.arrived = old.arrived \cup {i}
      /\ s4.age = s3.age /\ s4.late = s3.late /\ s4.heard = times
  BY <1>7, <1>a DEF Message
<1> HIDE DEF s4
<1>10. ~s[m].late => ~old.late /\ ~late
  BY <1>2, <1>8, <1>9
<1>11. s[m].age = IF old.heard > 0 THEN old.age ELSE 0
  BY <1>2, <1>6, <1>7, <1>9
<1> QED BY <1>2, <1>9, <1>10, <1>11, Zenon DEF old, late, times

(* What the reassembler does with a part keeps what is remembered.         *)
LEMMA RememberedOK ==
  ASSUME ReasmOK(reasm, said), Remembered(reasm, said), SaidOK(said, left),
         NEW m \in DOMAIN said, NEW i \in Nat, NEW w \in BOOLEAN, NEW s, s = Noted(m, i, w),
         NEW r, sweep(reasm).done \subseteq r.done,
         Len(said[m].parts) > 1 /\ w => /\ \A d \in sweep(reasm).done : d.msg # m
                                        /\ [msg |-> m, age |-> 0] \in r.done
  PROVE  Remembered(r, s)
<1>1. /\ said[m] \in Message /\ said[m].age \in PartAge /\ said[m].heard \in 0..2
      /\ said[m].heard > 0 => said[m].arrived # {}
  BY DEF SaidOK, Message
<1>2. /\ DOMAIN s = DOMAIN said /\ \A x \in DOMAIN said \ {m} : s[x] = said[x]
      /\ s[m].parts = said[m].parts
      /\ s[m].age = IF said[m].heard > 0 THEN said[m].age ELSE 0
      /\ ~s[m].late => ~said[m].late /\ ~(said[m].age > ChunkTtl /\ said[m].arrived # {})
      /\ s[m].heard = IF w /\ said[m].heard < 2 THEN said[m].heard + 1 ELSE said[m].heard
  BY <1>1, NotedOK
<1>3. ASSUME NEW d \in reasm.done, d.age <= ChunkTtl
      PROVE  d \in r.done /\ d \in sweep(reasm).done
  BY <1>3, SweepOK
<1>4. \A d \in reasm.done : d.age \in Int
  BY DEF ReasmOK, PartAge
<1> SUFFICES ASSUME NEW x \in DOMAIN said, Len(s[x].parts) > 1, ~s[x].late, s[x].heard > 0
             PROVE  /\ s[x].heard = 1
                    /\ s[x].age > ChunkTtl \/ \E d \in r.done : d.msg = x /\ d.age <= s[x].age
  BY <1>2 DEF Remembered
<1>5. CASE x # m
  <2>1. /\ said[x].heard = 1 /\ s[x] = said[x] /\ said[x].age \in PartAge
        /\ said[x].age > ChunkTtl \/ \E d \in reasm.done : d.msg = x /\ d.age <= said[x].age
    BY <1>2, <1>5 DEF Remembered, SaidOK, Message
  <2>2. CASE ~(said[x].age > ChunkTtl)
    <3>1. PICK d \in reasm.done : d.msg = x /\ d.age <= said[x].age
      BY <2>1, <2>2
    <3>2. d.age <= ChunkTtl
      BY <3>1, <2>1, <2>2, <1>4, ChunksAssumption DEF PartAge
    <3> QED BY <3>1, <3>2, <2>1, <1>3
  <2> QED BY <2>1, <2>2
<1>6. CASE x = m /\ said[m].heard = 0
  <2>a. s[m].age = 0
    BY <1>2, <1>6
  <2>1. w /\ s[m].heard = 1
    BY <1>1, <1>2, <1>6
  <2>2. [msg |-> m, age |-> 0] \in r.done
    BY <2>1, <1>2, <1>6
  <2>3. [msg |-> m, age |-> 0].msg = m /\ [msg |-> m, age |-> 0].age <= s[m].age
    BY <2>a
  <2> QED BY <2>1, <2>2, <2>3, <1>6
<1>7. CASE x = m /\ said[m].heard > 0
  <2>1. ~(said[m].age > ChunkTtl) /\ ~said[m].late /\ s[m].age = said[m].age
    BY <1>1, <1>2, <1>7
  <2>2. said[m].heard = 1 /\ \E d \in reasm.done : d.msg = m /\ d.age <= said[m].age
    BY <2>1, <1>2, <1>7 DEF Remembered
  <2>3. PICK d \in reasm.done : d.msg = m /\ d.age <= said[m].age
    BY <2>2
  <2>4. d.age <= ChunkTtl
    BY <2>1, <2>3, <1>1, <1>4, ChunksAssumption DEF PartAge
  <2>5. ~w
    BY <2>3, <2>4, <1>2, <1>3, <1>7
  <2> QED BY <2>1, <2>2, <2>3, <2>4, <2>5, <1>2, <1>3, <1>7
<1> QED BY <1>1, <1>5, <1>6, <1>7

(* Another age of a message changes nothing of its parts.                  *)
LEMMA SaidKeptOK ==
  ASSUME NEW s, NEW t, NEW l, SaidOK(s, l), DOMAIN t = DOMAIN s,
         \A m \in DOMAIN s : /\ t[m] \in Message /\ t[m].parts = s[m].parts
                             /\ t[m].heard > 0 => t[m].arrived # {}
  PROVE  /\ SaidOK(t, l)
         /\ \A a : AirOK(a, s) => AirOK(a, t)
         /\ \A r : ReasmOK(r, s) => ReasmOK(r, t)
<1>1. SaidOK(t, l)
  BY DEF SaidOK
<1> QED BY <1>1, MoreSaidOK

(* A frame or a part of one is heard: it may complete a message, connect   *)
(* its sender in the room of another peer, and count as its vote.          *)
LEMMA HearFrameOK ==
  ASSUME TransportInv, NEW r, NEW e, <<r, e>> \in air, HearFrame(r, e)
  PROVE  TransportInv'
<1> DEFINE m == e.msg
           parts == said[m].parts
           total == Len(parts)
           i == e.index
           outcomes == IF total = 1 THEN {Outcome(reasm.partials, reasm.done, TRUE)}
                       ELSE accept(reasm, m, i, total, parts[i])
<1>1. /\ e \in Frame(said) /\ e.index \in DOMAIN said[e.msg].parts
  <2>1. <<r, e>>[2] = e
    OBVIOUS
  <2>2. e.kind = "frame"
    BY DEF HearFrame
  <2>3. e \notin Presence
    BY <2>2 DEF Presence
  <2> QED BY <2>1, <2>3 DEF TransportInv, AirOK
<1>2. /\ m \in DOMAIN said /\ m \in Peer \X Nat /\ said[m] \in Message
      /\ Len(said[m].parts) <= MaxParts
  BY <1>1 DEF TransportInv, SaidOK, Frame
<1>3. /\ parts \in Seq(Nat) /\ i \in 1..total /\ total \in Nat /\ m[1] \in Peer
      /\ said[m].vote \in Checkpoint
  BY <1>1, <1>2 DEF Message
<1>4. /\ joined /\ InRoom(TheLinks, pinned) /\ Connected(TheLinks) /\ pinned \subseteq Peer
  BY HeardWhenJoined DEF HearFrame
<1>5. /\ UNCHANGED <<joined, relays, pins, presences, left>>
      /\ air' = air \ {<<r, e>>} /\ lastFrame' = [lastFrame EXCEPT ![m[1]] = 0] /\ seen' = signs(m[1])
  BY Zenon DEF HearFrame
<1>6. \E a \in outcomes :
        /\ reasm' = a.reasm
        /\ IF a.whole
             THEN \E o \in activate(TheLinks, m[1], lastFrame', seen', pinned) :
                    /\ Become(deliver(o, m))
                    /\ said' = Noted(m, i, m[1] \in o.active)
             ELSE said' = Noted(m, i, FALSE) /\ UNCHANGED links
  BY Zenon DEF HearFrame
<1> HIDE DEF outcomes
<1>7. PICK a \in outcomes :
        /\ reasm' = a.reasm
        /\ IF a.whole
             THEN \E o \in activate(TheLinks, m[1], lastFrame', seen', pinned) :
                    /\ Become(deliver(o, m))
                    /\ said' = Noted(m, i, m[1] \in o.active)
             ELSE said' = Noted(m, i, FALSE) /\ UNCHANGED links
  BY <1>6, Zenon
<1>8. SignsOK'
  <2>1. 0 \in Age
    BY TransportAssumption DEF Age, Never
  <2>2. signs(m[1]) \in [Peer -> Age]
    BY <2>1, <1>3 DEF TransportInv, SignsOK, signs
  <2>3. [lastFrame EXCEPT ![m[1]] = 0] \in [Peer -> Age]
    BY <2>1, <1>3 DEF TransportInv, SignsOK
  <2> QED BY <2>2, <2>3, <1>5 DEF TransportInv, SignsOK
<1>9. RelaysOK'
  BY <1>5, RelaysSame DEF TransportInv
<1>10. /\ ReasmOK(a.reasm, said) /\ a.whole \in BOOLEAN /\ sweep(reasm).done \subseteq a.reasm.done
       /\ total > 1 /\ a.whole => /\ \A d \in sweep(reasm).done : d.msg # m
                                  /\ [msg |-> m, age |-> 0] \in a.reasm.done
  <2>1. CASE total = 1
    <3>1. a = Outcome(reasm.partials, reasm.done, TRUE)
      BY <2>1 DEF outcomes
    <3>2. a.reasm = [partials |-> reasm.partials, done |-> reasm.done] /\ a.whole = TRUE
      BY <3>1 DEF Outcome
    <3>3. reasm = [partials |-> reasm.partials, done |-> reasm.done] /\ ReasmOK(reasm, said)
      BY DEF TransportInv, ReasmOK
    <3>4. sweep(reasm).done \subseteq reasm.done
      BY SweepOK DEF TransportInv
    <3>5. a.reasm = reasm /\ a.whole \in BOOLEAN
      BY <3>2, <3>3
    <3>6. ~(total > 1)
      BY <2>1
    <3> QED BY <3>3, <3>4, <3>5, <3>6
  <2>2. CASE total # 1
    <3>1. a \in accept(reasm, m, i, total, parts[i])
      BY <2>2, Zenon DEF outcomes
    <3>2. total \in Nat /\ total # 1 /\ i \in 1..total /\ total <= MaxParts /\ MaxParts \in Nat
      BY <2>2, <1>2, <1>3, ChunksAssumption
    <3>3. total \in 2..MaxParts
      <4> HIDE DEF total, i
      <4> QED BY <3>2
    <3> QED BY <3>1, <3>3, <1>2, <1>3, AcceptOK DEF TransportInv
  <2> QED BY <2>1, <2>2
<1>11. LinksOK' /\ \E w \in BOOLEAN : said' = Noted(m, i, w) /\ (w => a.whole)
  <2>1. CASE a.whole
    <3>1. PICK o \in activate(TheLinks, m[1], lastFrame', seen', pinned) :
            /\ Become(deliver(o, m)) /\ said' = Noted(m, i, m[1] \in o.active)
      BY <1>7, <2>1
    <3>2. Connected(o) /\ InRoom(o, pinned)
      BY <3>1, <1>3, <1>4, ActivateOK
    <3>3. Connected(deliver(o, m)) /\ deliver(o, m).active = o.active
      BY <3>2, <1>3, DeliverOK
    <3>4. pinned' = pinned /\ known' = known /\ known \subseteq pinned
      BY <1>4, <1>5 DEF TransportInv, LinksOK, pins
    <3>5. InRoom(deliver(o, m), pinned')
      BY <3>2, <3>3, <3>4 DEF InRoom
    <3>6. LinksOK'
      BY <3>1, <3>3, <3>4, <3>5, <1>4, BecomeOK
    <3> DEFINE w == m[1] \in o.active
    <3>7. w \in BOOLEAN /\ said' = Noted(m, i, w)
      BY <3>1
    <3> HIDE DEF w
    <3> QED BY <3>6, <3>7, <2>1
  <2>2. CASE ~a.whole
    <3>1. said' = Noted(m, i, FALSE) /\ UNCHANGED links
      BY <1>7, <2>2
    <3>2. LinksOK'
      BY <3>1, <1>5, LinksSame DEF TransportInv
    <3> QED BY <3>1, <3>2
  <2> QED BY <2>1, <2>2
<1>12. PICK w \in BOOLEAN : said' = Noted(m, i, w) /\ (w => a.whole)
  BY <1>11
<1> HIDE DEF i, parts, total
<1>13. /\ DOMAIN said' = DOMAIN said /\ \A x \in DOMAIN said \ {m} : said'[x] = said[x]
       /\ said'[m] \in Message /\ said'[m].parts = said[m].parts /\ said'[m].arrived # {}
  <2>1. i \in Nat
    BY <1>3
  <2> QED BY <2>1, <1>2, <1>12, NotedOK
<1>14. /\ SaidOK(said', left)
       /\ \A x : AirOK(x, said) => AirOK(x, said')
       /\ \A x : ReasmOK(x, said) => ReasmOK(x, said')
  <2>1. \A x \in DOMAIN said : /\ said'[x] \in Message /\ said'[x].parts = said[x].parts
                               /\ said'[x].heard > 0 => said'[x].arrived # {}
    BY <1>13 DEF TransportInv, SaidOK
  <2> QED BY <2>1, <1>13, SaidKeptOK DEF TransportInv
<1>15. Remembered(a.reasm, said')
  <2>1. i \in Nat
    BY <1>3
  <2>2. Len(said[m].parts) > 1 /\ w => /\ \A d \in sweep(reasm).done : d.msg # m
                                       /\ [msg |-> m, age |-> 0] \in a.reasm.done
    BY <1>10, <1>12 DEF total, parts
  <2> QED BY <2>1, <2>2, <1>2, <1>10, <1>12, RememberedOK DEF TransportInv
<1>16. AirOK(air', said)
  BY <1>5 DEF TransportInv, AirOK
<1>17. left' = left /\ reasm' = a.reasm
  BY <1>5, <1>7
<1> QED BY <1>8, <1>9, <1>10, <1>11, <1>14, <1>15, <1>16, <1>17 DEF TransportInv

(* A moment passes: everything is a moment older, and what is remembered   *)
(* of a message is never older than the message.                           *)
LEMMA TickOK ==
  ASSUME TransportInv, Tick
  PROVE  TransportInv'
<1> DEFINE older(n) == IF n = Never THEN n ELSE IF n > PresenceTtl THEN n ELSE n + 1
           aged(n) == IF n > ChunkTtl THEN n ELSE n + 1
           moved(x) == IF x[2].kind = "presence" THEN <<x[1], [x[2] EXCEPT !.age = older(@)]>> ELSE x
<1>1. /\ seen' = [p \in Peer |-> older(seen[p])]
      /\ lastFrame' = [p \in Peer |-> older(lastFrame[p])]
      /\ presences' = [p \in Peer |-> older(presences[p])]
  BY Zenon DEF Tick
<1>2. /\ reasm' = olderBy1(reasm)
      /\ said' = [m \in DOMAIN said |-> [said[m] EXCEPT !.age = aged(@)]]
      /\ air' = {moved(x) : x \in air}
      /\ UNCHANGED <<joined, relays, links, pins, left>>
  BY Zenon DEF Tick
<1>3. \A n \in Age : older(n) \in Age
  BY TransportAssumption DEF Age, Never
<1>4. \A n \in PartAge : aged(n) \in PartAge /\ (n > ChunkTtl => aged(n) > ChunkTtl)
                         /\ \A d \in PartAge : d <= n => aged(d) <= aged(n)
  BY ChunksAssumption DEF PartAge
<1> HIDE DEF older, aged
<1>5. SignsOK'
  <2>1. left' = left /\ left \in Setting
    BY <1>2 DEF TransportInv, SignsOK
  <2>2. seen' \in [Peer -> Age] /\ lastFrame' \in [Peer -> Age] /\ presences' \in [Peer -> Age]
    BY <1>1, <1>3 DEF TransportInv, SignsOK
  <2> QED BY <2>1, <2>2 DEF SignsOK
<1>6. RelaysOK'
  BY <1>2, RelaysSame DEF TransportInv
<1>7. LinksOK'
  BY <1>2, LinksSame DEF TransportInv
<1>8. ASSUME NEW m \in DOMAIN said
      PROVE  /\ said'[m] \in Message /\ said'[m].parts = said[m].parts
             /\ said'[m].age = aged(said[m].age) /\ said[m].age \in PartAge
             /\ said'[m].late = said[m].late /\ said'[m].heard = said[m].heard
             /\ said'[m].arrived = said[m].arrived
             /\ said[m].heard > 0 => said[m].arrived # {}
  <2>1. said[m] \in Message /\ (said[m].heard > 0 => said[m].arrived # {})
    BY DEF TransportInv, SaidOK
  <2>2. said'[m] = [said[m] EXCEPT !.age = aged(said[m].age)]
    BY <1>2
  <2>3. said[m].age \in PartAge
    BY <2>1 DEF Message
  <2>4. aged(said[m].age) \in PartAge
    BY <2>3, <1>4
  <2> QED BY <2>1, <2>2, <2>3, <2>4 DEF Message
<1>9. DOMAIN said' = DOMAIN said
  BY <1>2
<1>10. /\ SaidOK(said', left)
       /\ \A x : AirOK(x, said) => AirOK(x, said')
       /\ \A x : ReasmOK(x, said) => ReasmOK(x, said')
  <2>1. SaidOK(said, left)
    BY DEF TransportInv
  <2>2. \A m \in DOMAIN said : /\ said'[m] \in Message /\ said'[m].parts = said[m].parts
                               /\ said'[m].heard > 0 => said'[m].arrived # {}
    BY <1>8
  <2> QED BY <2>1, <2>2, <1>9, SaidKeptOK
<1>11. AirOK(air', said)
  <2>1. ASSUME NEW x \in air
        PROVE  LET y == moved(x)
               IN  /\ y = <<y[1], y[2]>>
                   /\ \/ y[2] \in Presence
                      \/ y[2] \in Frame(said) /\ y[2].index \in DOMAIN said[y[2].msg].parts
    <3>1. /\ x = <<x[1], x[2]>>
          /\ \/ x[2] \in Presence
             \/ x[2] \in Frame(said) /\ x[2].index \in DOMAIN said[x[2].msg].parts
      BY DEF TransportInv, AirOK
    <3>2. CASE x[2].kind = "presence"
      <4>1. x[2] \in Presence
        BY <3>1, <3>2 DEF Frame
      <4>2. older(x[2].age) \in Age
        BY <4>1, <1>3 DEF Presence
      <4>3. [x[2] EXCEPT !.age = older(x[2].age)] \in Presence
        BY <4>1, <4>2 DEF Presence
      <4>4. moved(x) = <<x[1], [x[2] EXCEPT !.age = older(x[2].age)]>>
        BY <3>2
      <4> HIDE DEF moved
      <4> QED BY <4>3, <4>4
    <3>3. CASE x[2].kind # "presence"
      <4>1. moved(x) = x
        BY <3>3
      <4> HIDE DEF moved
      <4> QED BY <4>1, <3>1
    <3> QED BY <3>2, <3>3
  <2> HIDE DEF moved
  <2> QED BY <2>1, <1>2 DEF AirOK
<1>12. ReasmOK(reasm', said)
  BY <1>2, OlderOK DEF TransportInv
<1>13. Remembered(reasm', said')
  <2>1. \A d \in reasm.done : d.age \in PartAge
    BY DEF TransportInv, ReasmOK
  <2>2. ASSUME NEW d \in reasm.done
        PROVE  \E b \in reasm'.done : b.msg = d.msg /\ b.age = aged(d.age)
    <3> DEFINE b == [d EXCEPT !.age = IF @ > ChunkTtl THEN @ ELSE @ + 1]
    <3>1. b \in olderBy1(reasm).done
      BY DEF olderBy1
    <3>2. d \in [msg : DOMAIN said, age : PartAge]
      BY DEF TransportInv, ReasmOK
    <3>3. b = [d EXCEPT !.age = aged(d.age)]
      BY DEF aged
    <3> HIDE DEF b
    <3>4. b.msg = d.msg /\ b.age = aged(d.age)
      BY <3>2, <3>3
    <3> QED BY <3>1, <3>4, <1>2
  <2> SUFFICES ASSUME NEW m \in DOMAIN said, Len(said[m].parts) > 1, ~said[m].late, said[m].heard > 0
               PROVE  /\ said'[m].heard = 1
                      /\ \/ said'[m].age > ChunkTtl
                         \/ \E d \in reasm'.done : d.msg = m /\ d.age <= said'[m].age
    BY <1>8, <1>9 DEF Remembered
  <2>3. /\ said[m].heard = 1
        /\ said[m].age > ChunkTtl \/ \E d \in reasm.done : d.msg = m /\ d.age <= said[m].age
    BY DEF TransportInv, Remembered
  <2>4. CASE said[m].age > ChunkTtl
    BY <2>3, <2>4, <1>4, <1>8
  <2>5. CASE \E d \in reasm.done : d.msg = m /\ d.age <= said[m].age
    <3>1. PICK d \in reasm.done : d.msg = m /\ d.age <= said[m].age
      BY <2>5
    <3>2. aged(d.age) <= aged(said[m].age)
      BY <3>1, <2>1, <1>4, <1>8
    <3> QED BY <3>1, <3>2, <2>2, <2>3, <1>8
  <2> QED BY <2>3, <2>4, <2>5
<1>14. left' = left
  BY <1>2
<1> QED BY <1>5, <1>6, <1>7, <1>10, <1>11, <1>12, <1>13, <1>14 DEF TransportInv

-----------------------------------------------------------------------------
(* Everything begins in order, ...                                         *)
LEMMA InitOK ==
  ASSUME Init
  PROVE  TransportInv
<1>1. left \in Setting /\ left.via \subseteq Relay
  BY TransportAssumption DEF Init, Setting
<1>2. SignsOK
  <2>1. NoSigns \in [Peer -> Age]
    BY TransportAssumption DEF NoSigns, Age, Never
  <2> QED BY <2>1, <1>1 DEF Init, SignsOK
<1>3. RelaysOK
  <2>1. /\ joined = TRUE /\ arms = relaySubs /\ timers = [r \in Relay |-> 0] /\ closed = {}
        /\ relaySubs = [r \in Relay |-> IF r \in left.via THEN 1 ELSE 0]
        /\ live = UNION {opened(r, 1) : r \in left.via}
    BY Zenon DEF Init
  <2>2. \A q \in left.via : arms[q] = 1 /\ relaySubs[q] = 1 /\ timers[q] = 0
    BY <2>1, <1>1
  <2>3. \A q \in Relay \ left.via : timers[q] = 0 /\ relaySubs[q] = 0
    BY <2>1
  <2>4. arms \in [Relay -> Nat] /\ timers \in [Relay -> Nat]
    BY <2>1
  <2>5. ASSUME NEW x \in live PROVE x[1] \in left.via /\ x[2] \in 1..arms[x[1]]
    <3>1. PICK q \in left.via : x \in opened(q, 1)
      BY <2>1
    <3>2. x[1] = q /\ x[2] = 1
      BY <3>1 DEF opened
    <3> QED BY <3>2, <2>2
  <2> QED BY <2>1, <2>2, <2>3, <2>4, <2>5 DEF RelaysOK
<1>4. LinksOK
  <2>1. /\ active = {} /\ conns = {} /\ offers = NoVotes /\ pinned = {} /\ known = {}
    BY DEF Init
  <2>2. /\ TheLinks.active = {} /\ TheLinks.conns = {} /\ TheLinks.offers = NoVotes
    BY <2>1 DEF TheLinks, Links
  <2>3. InRoom(TheLinks, {})
    <3>1. Cardinality({} \ {}) = 0
      <4>1. {} \ {} = {}
        OBVIOUS
      <4> QED BY <4>1, FS_EmptySet
    <3> QED BY <3>1, <2>2, TransportAssumption DEF InRoom
  <2>4. Connected(TheLinks)
    BY <2>2 DEF Connected, NoVotes
  <2> QED BY <2>1, <2>3, <2>4 DEF LinksOK
<1>5. SaidOK(said, left) /\ AirOK(air, said) /\ Remembered(reasm, said)
  <2>1. said = <<>> /\ air = {}
    BY DEF Init
  <2>2. DOMAIN said = {}
    BY <2>1
  <2> QED BY <2>1, <2>2 DEF SaidOK, AirOK, Remembered
<1>6. ReasmOK(reasm, said)
  BY EmptyOK DEF Init
<1> QED BY <1>2, <1>3, <1>4, <1>5, <1>6 DEF TransportInv

(* ... and every step keeps it so.                                         *)
LEMMA StepOK ==
  ASSUME TransportInv, [Next]_vars
  PROVE  TransportInv'
<1>1. CASE \E r \in Relay : ReArm(r)
  BY <1>1, ReArmOK
<1>2. CASE \E x \in live : OnClose(x[1], x[2], x[3])
  BY <1>2, OnCloseOK
<1>3. CASE \E x \in air : HearPresence(x[1], x[2]) \/ HearFrame(x[1], x[2]) \/ Drop(x[1], x[2])
  <2>1. PICK x \in air : HearPresence(x[1], x[2]) \/ HearFrame(x[1], x[2]) \/ Drop(x[1], x[2])
    BY <1>3
  <2>2. <<x[1], x[2]>> \in air
    <3>1. x = <<x[1], x[2]>>
      BY DEF TransportInv, AirOK
    <3> QED BY <3>1
  <2>3. CASE HearPresence(x[1], x[2])
    BY <2>2, <2>3, HearPresenceOK
  <2>4. CASE HearFrame(x[1], x[2])
    BY <2>2, <2>4, HearFrameOK
  <2>5. CASE Drop(x[1], x[2])
    BY <2>5, DropOK
  <2> QED BY <2>1, <2>3, <2>4, <2>5
<1>4. CASE \E p \in Peer : Dial(p) \/ Unpin(p) \/ Announce(p)
  BY <1>4, DialOK, UnpinOK, AnnounceOK
<1>5. CASE \E p \in Peer, size \in left.sizes, c \in Checkpoint : Say(p, size, c)
  BY <1>5, SayOK
<1>6. CASE Sweep
  BY <1>6, SweepAllOK
<1>7. CASE Leave
  BY <1>7, LeaveOK
<1>8. CASE Join
  BY <1>8, JoinOK
<1>9. CASE Tick
  BY <1>9, TickOK
<1>10. CASE UNCHANGED vars
  <2>1. /\ UNCHANGED <<joined, relays, links, life, pins, reasm, presences, air, said, left>>
    BY <1>10 DEF vars, relays, links, life, pins
  <2>2. SignsOK'
    BY <2>1 DEF TransportInv, SignsOK, life
  <2>3. RelaysOK' /\ LinksOK'
    BY <2>1, RelaysSame, LinksSame DEF TransportInv
  <2>4. SaidOK(said, left)' /\ AirOK(air, said)' /\ ReasmOK(reasm, said)' /\ Remembered(reasm, said)'
    BY <2>1, MessagesSame DEF TransportInv
  <2> QED BY <2>2, <2>3, <2>4 DEF TransportInv
<1> QED BY <1>1, <1>2, <1>3, <1>4, <1>5, <1>6, <1>7, <1>8, <1>9, <1>10 DEF Next

(* The invariant holds however the relays, the peers and the channel       *)
(* behave.                                                                 *)
THEOREM TransportSafe == Spec => []TransportInv
<1>1. Init => TransportInv
  BY InitOK
<1>2. TransportInv /\ [Next]_vars => TransportInv'
  BY StepOK
<1> QED BY <1>1, <1>2, PTL DEF Spec

(* Every variable has its type, and a partial message has fewer parts than *)
(* it will have, all counted once (chunk.ts, accept).                      *)
THEOREM TypeCorrect == Spec => []TypeOK
<1>1. TransportInv => TypeOK
  <2> SUFFICES ASSUME TransportInv PROVE TypeOK
    OBVIOUS
  <2>1. /\ active \subseteq Peer /\ pinned \subseteq Peer /\ known \subseteq Peer
        /\ offers \in [Peer -> Checkpoint \cup {None}]
    <3>1. TheLinks.active = active /\ TheLinks.offers = offers
      BY DEF TheLinks, Links
    <3> QED BY <3>1 DEF TransportInv, LinksOK, Connected
  <2>2. ASSUME NEW p \in reasm.partials
        PROVE  /\ p.total \in 2..MaxParts /\ Cardinality(p.have) < p.total
               /\ p.bytes = sumOf(said[p.msg].parts, p.have)
    BY DEF TransportInv, ReasmOK, PartialOK
  <2>3. /\ joined \in BOOLEAN
        /\ relaySubs \in [Relay -> Nat] /\ arms \in [Relay -> Nat] /\ timers \in [Relay -> Nat]
        /\ seen \in [Peer -> 0..Never] /\ lastFrame \in [Peer -> 0..Never]
    BY DEF TransportInv, RelaysOK, SignsOK, Age
  <2> QED BY <2>1, <2>2, <2>3 DEF TypeOK
<1> QED BY <1>1, TransportSafe, PTL

(* No more is kept of unfinished messages than the limits say, whoever     *)
(* sends what (chunk.ts, maxPartialPerSender and maxTotalBytes).           *)
THEOREM BufferAlwaysBounded == Spec => []BufferBounded
<1>1. TransportInv => BufferBounded
  BY DEF TransportInv, ReasmOK, Bounded, BufferBounded
<1> QED BY <1>1, TransportSafe, PTL

(* A message that comes in parts from many relays is delivered once, if no *)
(* part of it comes after it was forgotten (chunk.ts, done).               *)
THEOREM NeverDeliveredTwice == Spec => []DeliveredOnce
<1>1. TransportInv => DeliveredOnce
  <2> SUFFICES ASSUME TransportInv, NEW m \in DOMAIN said, InParts(m), ~said[m].late
               PROVE  said[m].heard <= 1
    BY DEF DeliveredOnce
  <2>1. said[m].heard \in 0..2
    BY DEF TransportInv, SaidOK, Message
  <2>2. said[m].heard > 0 => said[m].heard = 1
    BY DEF TransportInv, Remembered, InParts
  <2> QED BY <2>1, <2>2
<1> QED BY <1>1, TransportSafe, PTL

(* Only peers that are connected have a vote (nostr.ts, fireClose;         *)
(* node.ts, addPeer).                                                      *)
THEOREM VotesAlwaysFromConnections == Spec => []VotesFromConnections
<1>1. TransportInv => VotesFromConnections
  <2> SUFFICES ASSUME TransportInv PROVE VotesFromConnections
    OBVIOUS
  <2>1. TheLinks.active = active /\ TheLinks.conns = conns /\ TheLinks.offers = offers
    BY DEF TheLinks, Links
  <2> QED BY <2>1 DEF TransportInv, LinksOK, Connected, VotesFromConnections
<1> QED BY <1>1, TransportSafe, PTL

(* Pins hold, across restarts too, and the rest is in the room there is    *)
(* (nostr.ts, activate; known-peers.ts).                                   *)
THEOREM PinsAlwaysKeptInRoom == Spec => []PinsKeptInRoom
<1>1. TransportInv => PinsKeptInRoom
  <2> SUFFICES ASSUME TransportInv, joined PROVE PinsKeptInRoom
    BY DEF PinsKeptInRoom
  <2>1. TheLinks.active = active
    BY DEF TheLinks, Links
  <2> QED BY <2>1 DEF TransportInv, LinksOK, InRoom, PinsKeptInRoom
<1> QED BY <1>1, TransportSafe, PTL

(* Of the armings of a relay at most the last is open, and no re-arming is *)
(* due then (nostr.ts, armRelay).                                          *)
THEOREM AlwaysArmedOnce == Spec => []ArmedOnce
<1>1. TransportInv => ArmedOnce
  BY DEF TransportInv, RelaysOK, ArmedOnce
<1> QED BY <1>1, TransportSafe, PTL

-----------------------------------------------------------------------------
(* What has come of a message is kept until the last part comes.           *)

(* What was said in parts, and whether there is room for all of it.        *)
Bulk(s) == {n \in DOMAIN s : Len(s[n].parts) > 1}
Whole(s, n) == sumOf(s[n].parts, DOMAIN s[n].parts)
Few(s, p) == Cardinality({n \in Bulk(s) : n[1] = p}) <= MaxPartial
Fits(s) == sumOf([n \in Bulk(s) |-> Whole(s, n)], Bulk(s)) <= MaxBytes
Room(s, p) == Few(s, p) /\ Fits(s)

(* Of a message x that is not late every part that came is there, unless   *)
(* the next one will be late.                                              *)
InMaking(x, m, r) ==
  /\ \A d \in r.done : d.msg # m
  /\ \/ x.arrived = {} /\ \A p \in r.partials : p.msg # m
     \/ /\ x.arrived # {} /\ x.arrived # DOMAIN x.parts
        /\ x.age > ChunkTtl \/ \E p \in r.partials : p.msg = m /\ p.have = x.arrived /\ p.age = x.age

Gathered(s, r, m) ==
  IF Len(s[m].parts) > 1 THEN InMaking(s[m], m, r) ELSE s[m].arrived = {}

Gathering ==
  /\ IsFiniteSet(DOMAIN said)
  /\ joined => \A m \in DOMAIN said :
       Room(said, m[1]) /\ MayConnect(m[1]) /\ ~said[m].late /\ said[m].heard = 0 =>
         Gathered(said, reasm, m)

GatherInv == TransportInv /\ Gathering

(* What is in the making are parts of what was said.                       *)
LEMMA BufferedWhole ==
  ASSUME NEW s, IsFiniteSet(DOMAIN s), \A n \in DOMAIN s : s[n].parts \in Seq(Nat),
         NEW ps, Unique(ps), \A p \in ps : Filled(p, s)
  PROVE  buffered(ps) <= sumOf([n \in Bulk(s) |-> Whole(s, n)], Bulk(s))
<1> DEFINE f == [p \in ps |-> p.bytes]
           g == [n \in Bulk(s) |-> Whole(s, n)]
           h == [p \in ps |-> p.msg]
<1>1. IsFiniteSet(Bulk(s))
  BY FS_Subset DEF Bulk
<1>2. ASSUME NEW n \in DOMAIN s
      PROVE  /\ Whole(s, n) \in Nat
             /\ \A have \in SUBSET DOMAIN s[n].parts :
                  sumOf(s[n].parts, have) \in Nat /\ sumOf(s[n].parts, have) <= Whole(s, n)
  <2> DEFINE parts == s[n].parts
  <2>1. DOMAIN parts = 1..Len(parts) /\ Len(parts) \in Nat /\ \A j \in DOMAIN parts : parts[j] \in Nat
    OBVIOUS
  <2>2. IsFiniteSet(DOMAIN parts)
    BY <2>1, FS_Interval
  <2> HIDE DEF parts
  <2>3. ASSUME NEW have \in SUBSET DOMAIN parts
        PROVE  sumOf(parts, have) \in Nat /\ sumOf(parts, have) <= sumOf(parts, DOMAIN parts)
    <3>1. IsFiniteSet(have) /\ \A j \in have : parts[j] \in Nat
      BY <2>1, <2>2, FS_Subset
    <3> QED BY <3>1, <2>1, <2>2, SumType, SumSubset
  <2>4. sumOf(parts, DOMAIN parts) \in Nat
    BY <2>1, <2>2, SumType
  <2> QED BY <2>3, <2>4 DEF parts, Whole
<1>3. \A n \in Bulk(s) : g[n] \in Nat /\ g[n] = Whole(s, n)
  BY <1>2 DEF Bulk
<1>4. ASSUME NEW p \in ps
      PROVE  h[p] \in Bulk(s) /\ f[p] \in Nat /\ f[p] <= g[h[p]]
  <2>1. /\ p.msg \in DOMAIN s /\ p.total \in 2..MaxParts /\ p.total = Len(s[p.msg].parts)
        /\ p.have \in SUBSET DOMAIN s[p.msg].parts /\ p.bytes = sumOf(s[p.msg].parts, p.have)
    BY DEF Filled
  <2>2. p.msg \in Bulk(s)
    BY <2>1 DEF Bulk
  <2> QED BY <2>1, <2>2, <1>2, <1>3
<1>5. \A p, q \in ps : h[p] = h[q] => p = q
  BY DEF Unique
<1> HIDE DEF f, g, h
<1>6. sumOf(f, ps) <= sumOf(g, Bulk(s))
  BY <1>1, <1>3, <1>4, <1>5, SumInto
<1> QED BY <1>6, Zenon DEF buffered, f, g

(* All that was said is some number of characters.                         *)
LEMMA WholeType ==
  ASSUME NEW s, IsFiniteSet(DOMAIN s), \A n \in DOMAIN s : s[n].parts \in Seq(Nat)
  PROVE  /\ \A n \in DOMAIN s : Whole(s, n) \in Nat
         /\ sumOf([n \in Bulk(s) |-> Whole(s, n)], Bulk(s)) \in Nat
<1>1. ASSUME NEW n \in DOMAIN s PROVE Whole(s, n) \in Nat
  <2> DEFINE parts == s[n].parts
  <2>1. DOMAIN parts = 1..Len(parts) /\ Len(parts) \in Nat /\ \A j \in DOMAIN parts : parts[j] \in Nat
    OBVIOUS
  <2>2. IsFiniteSet(DOMAIN parts)
    BY <2>1, FS_Interval
  <2> HIDE DEF parts
  <2>3. sumOf(parts, DOMAIN parts) \in Nat
    BY <2>1, <2>2, SumType
  <2> QED BY <2>3 DEF parts, Whole
<1> DEFINE g == [n \in Bulk(s) |-> Whole(s, n)]
<1>2. IsFiniteSet(Bulk(s)) /\ \A n \in Bulk(s) : g[n] \in Nat
  BY <1>1, FS_Subset DEF Bulk
<1> HIDE DEF g
<1>3. sumOf(g, Bulk(s)) \in Nat
  BY <1>2, SumType
<1> QED BY <1>1, <1>3 DEF g

(* If all fits, nothing is evicted for want of room.                       *)
LEMMA ShedNone ==
  ASSUME NEW ps, IsFiniteSet(ps), \A p \in ps : p.bytes \in Nat, buffered(ps) <= MaxBytes,
         NEW qs \in shed(ps)
  PROVE  qs = ps
<1> SUFFICES ASSUME qs # ps PROVE FALSE
  OBVIOUS
<1>1. qs \subseteq ps /\ \E p \in ps \ qs : buffered(qs \cup {p}) > MaxBytes
  BY DEF shed
<1>2. PICK p \in ps \ qs : buffered(qs \cup {p}) > MaxBytes
  BY <1>1
<1>3. qs \cup {p} \subseteq ps
  BY <1>1
<1>4. buffered(qs \cup {p}) <= buffered(ps) /\ buffered(ps) \in Nat /\ buffered(qs \cup {p}) \in Nat
  BY <1>3, BufferedSubset
<1> QED BY <1>2, <1>4, ChunksAssumption

(* A sender of few messages has room for one that is not in the making.    *)
LEMMA FewLeavesRoom ==
  ASSUME NEW s, IsFiniteSet(DOMAIN s), NEW m \in Bulk(s), Few(s, m[1]),
         NEW others, Unique(others), \A o \in others : o.msg \in Bulk(s) /\ o.msg # m
  PROVE  Cardinality(of(others, m[1])) < MaxPartial
<1> DEFINE N == {n \in Bulk(s) : n[1] = m[1]}
           h == [o \in of(others, m[1]) |-> o.msg]
<1>1. IsFiniteSet(N) /\ m \in N /\ Cardinality(N) <= MaxPartial
  BY FS_Subset DEF Bulk, Few
<1>2. \A o \in of(others, m[1]) : o.msg \in N \ {m}
  BY DEF of
<1>3. \A o, q \in of(others, m[1]) : o.msg = q.msg => o = q
  BY DEF of, Unique
<1> HIDE DEF N
<1>4. IsFiniteSet(N \ {m}) /\ Cardinality(N \ {m}) = Cardinality(N) - 1 /\ Cardinality(N) \in Nat
  BY <1>1, FS_RemoveElement, FS_CardinalityType
<1>5. h \in Injection(of(others, m[1]), N \ {m})
  BY <1>2, <1>3 DEF Injection, IsInjective
<1>6. /\ IsFiniteSet(of(others, m[1]))
      /\ Cardinality(of(others, m[1])) <= Cardinality(N \ {m})
  BY <1>4, <1>5, FS_Injection
<1>7. Cardinality(of(others, m[1])) \in Nat
  BY <1>6, FS_CardinalityType
<1> QED BY <1>1, <1>4, <1>6, <1>7, ChunksAssumption

(* Of message m these parts came and are not forgotten; these are kept now *)
(* and are not all.                                                        *)
Came(r, m, had) ==
  /\ \A d \in r.done : d.msg # m
  /\ \/ had = {} /\ \A o \in sweep(r).partials : o.msg # m
     \/ \E o \in sweep(r).partials : o.msg = m /\ o.have = had
Added(r, s, m, have) ==
  /\ \A d \in r.done : d.msg # m
  /\ have # DOMAIN s[m].parts
  /\ \E p \in r.partials : p.msg = m /\ p.age = 0 /\ p.have = have

(* Where all that was said fits, a part that comes evicts nothing of those *)
(* that have few messages, and is added to what came before it.            *)
LEMMA AcceptGathers ==
  ASSUME NEW r, NEW s, ReasmOK(r, s), IsFiniteSet(DOMAIN s), Fits(s),
         \A n \in DOMAIN s : s[n].parts \in Seq(Nat),
         NEW m \in DOMAIN s, m[1] \in Peer, Len(s[m].parts) \in 2..MaxParts,
         NEW i \in DOMAIN s[m].parts,
         NEW a \in accept(r, m, i, Len(s[m].parts), s[m].parts[i])
  PROVE  /\ \A o \in r.partials :
              o.msg # m /\ o.age <= ChunkTtl /\ Few(s, o.msg[1]) => o \in a.reasm.partials
         /\ \A o \in a.reasm.partials : o.msg # m => o \in r.partials
         /\ \A d \in a.reasm.done : d.msg # m => d \in r.done
         /\ \A had : Came(r, m, had) => a.whole \/ Added(a.reasm, s, m, had \cup {i})
<1> DEFINE n == Len(s[m].parts)
           len == s[m].parts[i]
           w == sweep(r)
           others == {p \in w.partials : p.msg # m}
           mine == {p \in w.partials : p.msg = m /\ p.total = n}
           new == [msg |-> m, total |-> n, have |-> {}, bytes |-> 0, age |-> 0]
           q == IF mine = {} THEN new ELSE CHOOSE q \in mine : TRUE
           p == withPart(q, i, len)
           kept == UNION {shed(qs \cup {p}) :
                            qs \in IF mine = {} THEN roomFor(others, m[1]) ELSE {others}}
<1>0. sweep(r) = w
  OBVIOUS
<1>1. /\ ReasmOK(w, s) /\ w.partials = {o \in r.partials : o.age <= ChunkTtl}
      /\ w.done = {d \in r.done : d.age <= ChunkTtl}
  BY SweepOK
<1>2. n \in 1..MaxParts /\ i \in 1..n
  BY ChunksAssumption
<1>3. a \in IF \E d \in w.done : d.msg = m THEN {Outcome(w.partials, w.done, FALSE)}
            ELSE {IF p \in ps /\ Cardinality(p.have) = n THEN complete(ps, w.done, p)
                  ELSE Outcome(ps, w.done, FALSE) : ps \in kept}
  BY <1>2, Zenon DEF accept
<1>a. mine = {} => \A o \in w.partials : o.msg # m
  BY <1>1 DEF ReasmOK, PartialOK
<1>4. /\ PartialOK(q, s) /\ q.msg = m
      /\ IF mine = {} THEN q.have = {} ELSE q \in mine
  <2>1. CASE mine = {}
    <3>1. q = new
      BY <2>1
    <3> HIDE DEF q
    <3> QED BY <3>1, <2>1, NewOK
  <2>2. CASE mine # {}
    <3>1. q \in mine
      BY <2>2
    <3> HIDE DEF q
    <3> QED BY <3>1, <2>2, <1>1 DEF ReasmOK
  <2> QED BY <2>1, <2>2
<1>5. Filled(p, s) /\ p.msg = m /\ p.have = q.have \cup {i} /\ p.age = 0
  <2> HIDE DEF q
  <2>1. Filled(p, s) /\ p.msg = m
    BY <1>4, WithPartOK
  <2>2. q \in [msg : DOMAIN s, total : 2..MaxParts, have : SUBSET Nat, bytes : Nat, age : PartAge]
    BY <1>4 DEF PartialOK
  <2>3. p.have = q.have \cup {i} /\ p.age = 0
    BY <2>2 DEF withPart
  <2> QED BY <2>1, <2>3
<1>6. /\ IsFiniteSet(others) /\ Unique(others) /\ Unique(w.partials)
      /\ \A o \in others : /\ Filled(o, s) /\ o.msg \in Bulk(s) /\ o.msg # m
  <2>1. IsFiniteSet(w.partials) /\ Unique(w.partials) /\ \A o \in w.partials : PartialOK(o, s)
    BY <1>1 DEF ReasmOK
  <2>2. ASSUME NEW o, PartialOK(o, s) PROVE Filled(o, s) /\ o.msg \in Bulk(s)
    <3>1. /\ o \in [msg : DOMAIN s, total : 2..MaxParts, have : SUBSET Nat, bytes : Nat, age : PartAge]
          /\ o.total = Len(s[o.msg].parts) /\ o.have \subseteq DOMAIN s[o.msg].parts
          /\ Cardinality(o.have) < o.total /\ o.bytes = sumOf(s[o.msg].parts, o.have)
      BY <2>2 DEF PartialOK
    <3>2. s[o.msg].parts \in Seq(Nat)
      BY <3>1
    <3>3. IsFiniteSet(1..Len(s[o.msg].parts))
      <4> DEFINE k == Len(s[o.msg].parts)
      <4>1. k \in Int
        BY <3>2
      <4> HIDE DEF k
      <4>2. IsFiniteSet(1..k)
        BY <4>1, FS_Interval
      <4> QED BY <4>2 DEF k
    <3>4. IsFiniteSet(o.have)
      BY <3>1, <3>2, <3>3, FS_Subset
    <3>5. Cardinality(o.have) \in Nat
      BY <3>4, FS_CardinalityType
    <3> QED BY <3>1, <3>5 DEF Filled, Bulk
  <2> QED BY <2>1, <2>2, FS_Subset DEF Unique
<1>7. m \in Bulk(s)
  BY DEF Bulk
<1> HIDE DEF p, q, new, len, w, others
<1>8. ASSUME NEW ps \in kept
      PROVE  /\ p \in ps /\ ps \ {p} \subseteq others
             /\ \A o \in others : Few(s, o.msg[1]) => o \in ps
  <2>1. PICK qs \in IF mine = {} THEN roomFor(others, m[1]) ELSE {others} :
               ps \in shed(qs \cup {p})
    OBVIOUS
  <2>2. qs \subseteq others /\ \A o \in others : Few(s, o.msg[1]) => o \in qs
    <3>1. CASE qs = others
      BY <3>1
    <3>2. CASE qs # others
      <4>1. qs \in roomFor(others, m[1]) /\ ~(Cardinality(of(others, m[1])) < MaxPartial)
        BY <2>1, <3>2 DEF roomFor
      <4>2. PICK x \in oldest(of(others, m[1])) : qs = others \ {x}
        BY <4>1 DEF roomFor
      <4>3. x.msg[1] = m[1]
        BY <4>2 DEF oldest, of
      <4>4. ~Few(s, m[1])
        BY <4>1, <1>6, <1>7, FewLeavesRoom
      <4> QED BY <4>2, <4>3, <4>4
    <3> QED BY <3>1, <3>2
  <2>3. ps = qs \cup {p}
    <3>1. IsFiniteSet(qs \cup {p})
      BY <2>2, <1>6, FS_Subset, FS_AddElement
    <3>2. Unique(qs \cup {p}) /\ \A o \in qs \cup {p} : Filled(o, s)
      BY <2>2, <1>5, <1>6 DEF Unique
    <3>3. \A o \in qs \cup {p} : o.bytes \in Nat
      BY <3>2 DEF Filled
    <3>4. buffered(qs \cup {p}) <= sumOf([x \in Bulk(s) |-> Whole(s, x)], Bulk(s))
      BY <3>2, BufferedWhole
    <3>5. buffered(qs \cup {p}) \in Nat
      BY <3>1, <3>3, BufferedSubset
    <3>6. IsFiniteSet(qs \cup {p}) /\ buffered(qs \cup {p}) <= MaxBytes
      BY <3>1, <3>4, <3>5, WholeType, ChunksAssumption DEF Fits
    <3> QED BY <3>3, <3>6, <2>1, ShedNone
  <2> QED BY <2>2, <2>3
<1> HIDE DEF kept, mine
<1>9. CASE \E d \in w.done : d.msg = m
  <2>1. a = Outcome(w.partials, w.done, FALSE)
    BY <1>3, <1>9
  <2>2. a.reasm.partials = w.partials /\ a.reasm.done = w.done
    BY <2>1 DEF Outcome
  <2>3. \A had : ~Came(r, m, had)
    BY <1>1, <1>9 DEF Came
  <2> QED BY <2>2, <2>3, <1>1
<1>10. CASE ~\E d \in w.done : d.msg = m
  <2>1. PICK ps \in kept : a = IF p \in ps /\ Cardinality(p.have) = n THEN complete(ps, w.done, p)
                               ELSE Outcome(ps, w.done, FALSE)
    BY <1>3, <1>10
  <2>2. /\ p \in ps /\ ps \ {p} \subseteq others
        /\ \A o \in others : Few(s, o.msg[1]) => o \in ps
    BY <1>8
  <2>3. others = {o \in w.partials : o.msg # m}
    BY DEF others
  <2>4. CASE Cardinality(p.have) = n
    <3>1. a = complete(ps, w.done, p)
      BY <2>1, <2>2, <2>4
    <3>2. /\ a.reasm.partials = ps \ {p} /\ a.whole = TRUE
          /\ a.reasm.done = w.done \cup {[msg |-> p.msg, age |-> 0]}
      BY <3>1 DEF complete, Outcome
    <3>3. \A d \in a.reasm.done : d.msg # m => d \in r.done
      BY <3>2, <1>1, <1>5
    <3> QED BY <3>2, <3>3, <2>2, <2>3, <1>1, <1>5
  <2>5. CASE Cardinality(p.have) # n
    <3>1. a = Outcome(ps, w.done, FALSE)
      BY <2>1, <2>5
    <3>2. a.reasm.partials = ps /\ a.reasm.done = w.done
      BY <3>1 DEF Outcome
    <3>3. p.have # DOMAIN s[m].parts
      <4>1. DOMAIN s[m].parts = 1..n /\ n \in Nat
        OBVIOUS
      <4>2. Cardinality(1..n) = n
        BY <4>1, <1>2, FS_Interval
      <4> QED BY <4>1, <4>2, <2>5
    <3>4. ASSUME NEW had, Came(r, m, had)
          PROVE  q.have = had
      <4>1. CASE \A o \in w.partials : o.msg # m
        <5>1. mine = {}
          BY <4>1 DEF mine
        <5>2. had = {}
          BY <4>1, <3>4, <1>0 DEF Came
        <5> QED BY <5>1, <5>2, <1>4
      <4>2. CASE \E o \in w.partials : o.msg = m
        <5>1. PICK o \in w.partials : o.msg = m /\ o.have = had
          BY <4>2, <3>4, <1>0 DEF Came
        <5>2. mine # {}
          BY <5>1, <1>a
        <5>3. q \in w.partials /\ q.msg = m
          BY <5>2, <1>4 DEF mine
        <5> QED BY <5>1, <5>3, <1>6 DEF Unique
      <4> QED BY <4>1, <4>2
    <3>5. \A d \in a.reasm.done : d \in r.done
      BY <3>2, <1>1
    <3>6. \A o \in a.reasm.partials : o.msg # m => o \in r.partials
      BY <3>2, <2>2, <2>3, <1>1, <1>5
    <3>7. \A o \in r.partials : o.msg # m /\ o.age <= ChunkTtl /\ Few(s, o.msg[1]) => o \in a.reasm.partials
      BY <3>2, <2>2, <2>3, <1>1
    <3>8. ASSUME NEW had, Came(r, m, had)
          PROVE  Added(a.reasm, s, m, had \cup {i})
      <4>1. p.have = had \cup {i} /\ p \in a.reasm.partials
        BY <3>2, <3>4, <3>8, <2>2, <1>5
      <4>2. \A d \in a.reasm.done : d.msg # m
        BY <3>5, <3>8 DEF Came
      <4> QED BY <4>1, <4>2, <3>3, <1>5 DEF Added
    <3> QED BY <3>5, <3>6, <3>7, <3>8
  <2> QED BY <2>4, <2>5
<1> QED BY <1>9, <1>10

(* Room for more messages is room for fewer.                               *)
LEMMA RoomForFewer ==
  ASSUME NEW s, NEW t, DOMAIN s \subseteq DOMAIN t, IsFiniteSet(DOMAIN t),
         \A n \in DOMAIN t : t[n].parts \in Seq(Nat),
         \A n \in DOMAIN s : t[n].parts = s[n].parts,
         NEW p, Room(t, p)
  PROVE  Room(s, p)
<1>1. Bulk(s) \subseteq Bulk(t) /\ IsFiniteSet(Bulk(t))
  BY FS_Subset DEF Bulk
<1>2. Few(s, p)
  <2> DEFINE A == {n \in Bulk(s) : n[1] = p}
             B == {n \in Bulk(t) : n[1] = p}
  <2>1. A \subseteq B /\ IsFiniteSet(B)
    BY <1>1, FS_Subset
  <2>2. Cardinality(B) <= MaxPartial
    BY DEF Room, Few
  <2> HIDE DEF A, B
  <2>3. /\ Cardinality(A) <= Cardinality(B)
        /\ Cardinality(A) \in Nat /\ Cardinality(B) \in Nat
    BY <2>1, FS_Subset, FS_CardinalityType
  <2>4. Cardinality(A) <= MaxPartial
    BY <2>2, <2>3, ChunksAssumption
  <2> QED BY <2>4 DEF A, Few
<1>3. Fits(s)
  <2> DEFINE f == [n \in Bulk(s) |-> Whole(s, n)]
             g == [n \in Bulk(t) |-> Whole(t, n)]
  <2>1. \A n \in Bulk(t) : g[n] \in Nat
    BY WholeType DEF Bulk
  <2>2. \A n \in Bulk(s) : f[n] = g[n]
    BY <1>1 DEF Bulk, Whole
  <2>3. sumOf(g, Bulk(t)) <= MaxBytes
    BY DEF Room, Fits
  <2> HIDE DEF f, g
  <2>4. sumOf(g, Bulk(s)) <= sumOf(g, Bulk(t)) /\ sumOf(g, Bulk(t)) \in Nat /\ sumOf(g, Bulk(s)) \in Nat
    <3>1. IsFiniteSet(Bulk(s)) /\ \A n \in Bulk(s) : g[n] \in Nat
      BY <1>1, <2>1, FS_Subset
    <3> QED BY <3>1, <1>1, <2>1, SumSubset, SumType
  <2>5. sumOf(f, Bulk(s)) = sumOf(g, Bulk(s))
    BY <2>2, SumSame
  <2>6. sumOf(f, Bulk(s)) <= MaxBytes
    BY <2>3, <2>4, <2>5, ChunksAssumption
  <2> QED BY <2>6 DEF f, Fits
<1> QED BY <1>2, <1>3 DEF Room

(* More pins leave less room.                                              *)
LEMMA PinsTakeRoom ==
  ASSUME pinned \subseteq pinned', pinned' \subseteq Peer, NEW p, MayConnect(p)'
  PROVE  MayConnect(p)
<1>1. pinned \ {p} \subseteq pinned' \ {p} /\ IsFiniteSet(pinned' \ {p})
  BY FS_Subset, TransportAssumption
<1>2. /\ Cardinality(pinned \ {p}) <= Cardinality(pinned' \ {p})
      /\ Cardinality(pinned \ {p}) \in Nat /\ Cardinality(pinned' \ {p}) \in Nat
  BY <1>1, FS_Subset, FS_CardinalityType
<1> QED BY <1>2, TransportAssumption DEF MayConnect

(* The parts of what was said.                                             *)
LEMMA SaidParts ==
  ASSUME TransportInv
  PROVE  \A n \in DOMAIN said : said[n] \in Message /\ said[n].parts \in Seq(Nat)
BY DEF TransportInv, SaidOK, Message

(* Steps that are not about messages.                                      *)
LEMMA GatheringSame ==
  ASSUME TransportInv, Gathering, UNCHANGED <<said, reasm>>, joined' => joined,
         joined' => pinned \subseteq pinned' /\ pinned' \subseteq Peer
  PROVE  Gathering'
<1> SUFFICES ASSUME joined', NEW m \in DOMAIN said, MayConnect(m[1])'
             PROVE  MayConnect(m[1])
  BY DEF Gathering
<1> QED BY PinsTakeRoom

(* A message that is said has not come yet.                                *)
LEMMA SayGathers ==
  ASSUME TransportInv, TransportInv', Gathering, NEW p \in Peer, NEW size, NEW c, Say(p, size, c)
  PROVE  Gathering'
<1> DEFINE m == <<p, left.says[p]>>
           entry == [parts |-> splitPayload(size), vote |-> c, arrived |-> {}, age |-> 0,
                     late |-> FALSE, heard |-> 0]
<1>1. /\ said' = [x \in DOMAIN said \cup {m} |-> IF x \in DOMAIN said THEN said[x] ELSE entry]
      /\ UNCHANGED <<joined, pins, reasm>> /\ left.says[p] > 0
  BY Zenon DEF Say
<1>2. /\ DOMAIN said' = DOMAIN said \cup {m}
      /\ \A x \in DOMAIN said : said'[x] = said[x]
      /\ m \notin DOMAIN said => said'[m] = entry
  BY <1>1
<1>3. entry.arrived = {}
  OBVIOUS
<1> HIDE DEF m, entry
<1>4. IsFiniteSet(DOMAIN said') /\ pinned' = pinned /\ pinned \subseteq Peer
  BY <1>1, <1>2, FS_AddElement DEF Gathering, pins, TransportInv, LinksOK
<1>5. ASSUME NEW x \in DOMAIN said', joined', Room(said', x[1]), MayConnect(x[1])', ~said'[x].late,
             said'[x].heard = 0
      PROVE  Gathered(said', reasm', x)
  <2>1. CASE x \in DOMAIN said
    <3>1. Room(said, x[1])
      <4>1. \A n \in DOMAIN said' : said'[n].parts \in Seq(Nat)
        <5>1. SaidOK(said', left')
          BY DEF TransportInv
        <5> QED BY <5>1 DEF SaidOK, Message
      <4>2. DOMAIN said \subseteq DOMAIN said' /\ \A n \in DOMAIN said : said'[n].parts = said[n].parts
        BY <1>2
      <4> QED BY <4>1, <4>2, <1>4, <1>5, RoomForFewer
    <3>2. MayConnect(x[1])
      BY <1>4, <1>5 DEF MayConnect
    <3>3. Gathered(said, reasm, x)
      BY <1>1, <1>2, <1>5, <2>1, <3>1, <3>2 DEF Gathering
    <3> QED BY <3>3, <1>1, <1>2, <2>1 DEF Gathered
  <2>2. CASE x \notin DOMAIN said
    <3>1. said'[x] = entry
      BY <1>2, <2>2
    <3>2. (\A o \in reasm.partials : o.msg # x) /\ \A d \in reasm.done : d.msg # x
      BY <2>2 DEF TransportInv, ReasmOK, PartialOK
    <3> QED BY <3>1, <3>2, <1>1, <1>3 DEF Gathered, InMaking
  <2> QED BY <2>1, <2>2
<1> QED BY <1>4, <1>5 DEF Gathering

(* Another transport begins with nothing of any message.                   *)
LEMMA JoinGathers ==
  ASSUME TransportInv, Gathering, Join
  PROVE  Gathering'
<1>1. /\ reasm' = Empty
      /\ said' = [m \in DOMAIN said |-> [said[m] EXCEPT !.arrived = {}, !.late = FALSE, !.heard = 0]]
  BY Zenon DEF Join
<1>2. reasm'.partials = {} /\ reasm'.done = {}
  BY <1>1 DEF Empty
<1>3. DOMAIN said' = DOMAIN said /\ \A m \in DOMAIN said : said'[m].arrived = {}
  <2>1. DOMAIN said' = DOMAIN said
    BY <1>1
  <2>2. ASSUME NEW m \in DOMAIN said PROVE said'[m].arrived = {}
    <3>1. said'[m] = [said[m] EXCEPT !.arrived = {}, !.late = FALSE, !.heard = 0]
      BY <1>1
    <3>2. said[m] \in Message
      BY SaidParts
    <3> QED BY <3>1, <3>2 DEF Message
  <2> QED BY <2>1, <2>2
<1> QED BY <1>2, <1>3 DEF Gathering, Gathered, InMaking

(* Among some peers there is one heard of least recently.                  *)
LEMMA OldestExists ==
  ASSUME NEW A, A \subseteq Peer, A # {}, NEW f, \A p \in A : f[p] \in Age
  PROVE  \E v \in A : \A q \in A : f[q] <= f[v]
<1> DEFINE R == {ss \in Nat \X Nat : ss[1] < ss[2]}
           lacks(p) == Never - f[p]
           N == {lacks(p) : p \in A}
<1>1. IsWellFoundedOn(R, Nat)
  BY NatLessThanWellFounded DEF OpToRel
<1>2. \A x, y \in Nat : y < x => <<y, x>> \in R
  OBVIOUS
<1>3. \A p \in A : lacks(p) \in Nat /\ f[p] \in Int
  BY TransportAssumption DEF Age, Never
<1>4. N \subseteq Nat /\ N # {}
  BY <1>3
<1> HIDE DEF R
<1>5. PICK x \in N : \A y \in N : ~(<<y, x>> \in R)
  <2> HIDE DEF N
  <2> QED BY <1>1, <1>4, WFMin
<1>6. PICK v \in A : x = lacks(v)
  BY <1>5
<1>7. ASSUME NEW q \in A PROVE f[q] <= f[v]
  <2>1. lacks(q) \in Nat /\ lacks(v) \in Nat /\ ~(lacks(q) < lacks(v))
    BY <1>2, <1>3, <1>5, <1>6
  <2> QED BY <2>1, <1>3, TransportAssumption DEF Never
<1> QED BY <1>7

(* A peer that the pins of others leave room for is connected.             *)
LEMMA ActivateConnects ==
  ASSUME NEW o, Connected(o), InRoom(o, pinned), NEW p \in Peer, MayConnect(p),
         NEW frames, NEW signsOf, frames \in [Peer -> Age], signsOf \in [Peer -> Age],
         NEW x \in activate(o, p, frames, signsOf, pinned)
  PROVE  p \in x.active
<1> DEFINE with(q) == Links(q.active \cup {p}, q.conns \cup {p}, q.offers)
           victims == leastRecent(o, frames, signsOf)
           rest == o.active \ pinned
           age == [q \in Peer |-> IF frames[q] # Never THEN frames[q] ELSE signsOf[q]]
<1>1. \A q : p \in with(q).active
  BY DEF Links
<1>2. CASE p \in o.active \/ hasRoom(o, p, pinned) \/ victims # {}
  <2>1. \/ p \in o.active /\ x = o
        \/ x = with(o)
        \/ \E v \in victims : x = with(fireClose(o, v))
    BY <1>2 DEF activate
  <2> HIDE DEF with, victims
  <2> QED BY <2>1, <1>1
<1>3. CASE p \notin o.active /\ ~hasRoom(o, p, pinned)
  <2>1. /\ IsFiniteSet(o.active) /\ Cardinality(o.active) \in Nat /\ pinned \subseteq o.active
        /\ o.active \subseteq Peer
    <3>1. o.active \subseteq Peer /\ pinned \subseteq o.active
      BY DEF Connected, InRoom
    <3> QED BY <3>1, FS_Subset, FS_CardinalityType, TransportAssumption
  <2>2. ~(Cardinality(o.active) < MaxPeers) /\ p \notin pinned
    BY <1>3 DEF hasRoom
  <2>3. pinned \ {p} = pinned
    BY <2>2
  <2>4. Cardinality(pinned) < MaxPeers
    BY <2>3 DEF MayConnect
  <2>5. rest # {}
    <3>1. pinned # o.active
      BY <2>2, <2>4
    <3> QED BY <3>1, <2>1
  <2>6. \A q \in rest : age[q] \in Age
    BY <2>1
  <2> HIDE DEF age
  <2>7. PICK v \in rest : \A q \in rest : age[q] <= age[v]
    BY <2>1, <2>5, <2>6, OldestExists
  <2>8. \A q \in rest : age[q] = IF frames[q] # Never THEN frames[q] ELSE signsOf[q]
    BY <2>1 DEF age
  <2>9. v \in victims
    BY <2>7, <2>8 DEF leastRecent
  <2> QED BY <1>2, <2>9
<1> QED BY <1>2, <1>3

(* A message that grows older is as old as what has come of it.            *)
LEMMA TickGathers ==
  ASSUME TransportInv, Gathering, Tick
  PROVE  Gathering'
<1> DEFINE aged(n) == IF n > ChunkTtl THEN n ELSE n + 1
           older(x) == [x EXCEPT !.age = aged(@)]
<1>1. /\ reasm' = [partials |-> {older(p) : p \in reasm.partials}, done |-> {older(d) : d \in reasm.done}]
      /\ said' = [m \in DOMAIN said |-> older(said[m])]
      /\ UNCHANGED <<joined, pins>>
  BY Zenon DEF Tick, olderBy1
<1>2. reasm'.partials = {older(p) : p \in reasm.partials} /\ reasm'.done = {older(d) : d \in reasm.done}
  BY <1>1
<1>3. \A n \in PartAge : n > ChunkTtl => aged(n) > ChunkTtl
  OBVIOUS
<1>4. ASSUME NEW m \in DOMAIN said
      PROVE  /\ said'[m].parts = said[m].parts /\ said'[m].arrived = said[m].arrived
             /\ said'[m].late = said[m].late /\ said'[m].heard = said[m].heard
             /\ said'[m].age = aged(said[m].age) /\ said[m].age \in PartAge
  <2>1. said'[m] = older(said[m]) /\ said[m] \in Message
    BY <1>1, SaidParts
  <2> HIDE DEF aged
  <2> QED BY <2>1 DEF Message
<1>5. ASSUME NEW p \in reasm.partials
      PROVE  /\ older(p) \in reasm'.partials /\ older(p).msg = p.msg /\ older(p).have = p.have
             /\ older(p).age = aged(p.age)
  <2>1. p \in [msg : DOMAIN said, total : 2..MaxParts, have : SUBSET Nat, bytes : Nat, age : PartAge]
    BY DEF TransportInv, ReasmOK, PartialOK
  <2> HIDE DEF aged
  <2> QED BY <2>1, <1>2
<1>6. ASSUME NEW d \in reasm.done PROVE older(d).msg = d.msg
  <2>1. d \in [msg : DOMAIN said, age : PartAge]
    BY DEF TransportInv, ReasmOK
  <2> HIDE DEF aged
  <2> QED BY <2>1
<1>7. /\ \A p \in reasm'.partials : \E q \in reasm.partials : p.msg = q.msg
      /\ \A d \in reasm'.done : \E q \in reasm.done : d.msg = q.msg
  <2>1. ASSUME NEW p \in reasm'.partials PROVE \E q \in reasm.partials : p.msg = q.msg
    <3>1. PICK q \in reasm.partials : p = older(q)
      BY <1>2
    <3>2. p.msg = q.msg
      BY <1>5, <3>1, Zenon
    <3> QED BY <3>2
  <2>2. ASSUME NEW d \in reasm'.done PROVE \E q \in reasm.done : d.msg = q.msg
    <3>1. PICK q \in reasm.done : d = older(q)
      BY <1>2
    <3>2. d.msg = q.msg
      BY <1>6, <3>1, Zenon
    <3> QED BY <3>2
  <2> QED BY <2>1, <2>2
<1> HIDE DEF older, aged
<1>8. DOMAIN said' = DOMAIN said /\ IsFiniteSet(DOMAIN said')
  BY <1>1 DEF Gathering
<1>9. ASSUME NEW m \in DOMAIN said, joined', Room(said', m[1]), MayConnect(m[1])', ~said'[m].late,
             said'[m].heard = 0
      PROVE  Gathered(said', reasm', m)
  <2>1. Room(said, m[1])
    <3>1. \A n \in DOMAIN said' : said'[n].parts \in Seq(Nat)
      BY <1>4, <1>8, SaidParts
    <3> QED BY <3>1, <1>4, <1>8, <1>9, RoomForFewer
  <2>2. MayConnect(m[1]) /\ joined
    BY <1>1, <1>9 DEF MayConnect, pins
  <2>3. Gathered(said, reasm, m)
    BY <1>4, <1>9, <2>1, <2>2 DEF Gathering
  <2>4. CASE ~(Len(said[m].parts) > 1)
    BY <2>3, <2>4, <1>4 DEF Gathered
  <2>5. CASE Len(said[m].parts) > 1
    <3>1. InMaking(said[m], m, reasm)
      BY <2>3, <2>5 DEF Gathered
    <3>2. \A d \in reasm'.done : d.msg # m
      BY <3>1, <1>7 DEF InMaking
    <3>3. CASE said[m].arrived = {} /\ \A p \in reasm.partials : p.msg # m
      <4>1. said'[m].arrived = {} /\ \A p \in reasm'.partials : p.msg # m
        BY <3>3, <1>4, <1>7
      <4> QED BY <4>1, <3>2, <2>5, <1>4 DEF Gathered, InMaking
    <3>4. CASE /\ said[m].arrived # {} /\ said[m].arrived # DOMAIN said[m].parts
               /\ \/ said[m].age > ChunkTtl
                  \/ \E p \in reasm.partials : p.msg = m /\ p.have = said[m].arrived /\ p.age = said[m].age
      <4>1. \/ said'[m].age > ChunkTtl
            \/ \E p \in reasm'.partials : p.msg = m /\ p.have = said'[m].arrived /\ p.age = said'[m].age
        <5>1. CASE said[m].age > ChunkTtl
          BY <5>1, <1>3, <1>4
        <5>2. CASE \E p \in reasm.partials : p.msg = m /\ p.have = said[m].arrived /\ p.age = said[m].age
          BY <5>2, <1>4, <1>5
        <5> QED BY <3>4, <5>1, <5>2
      <4>2. said'[m].arrived # {} /\ said'[m].arrived # DOMAIN said'[m].parts
        BY <3>4, <1>4
      <4> QED BY <4>1, <4>2, <3>2, <2>5, <1>4 DEF Gathered, InMaking
    <3> QED BY <3>1, <3>3, <3>4 DEF InMaking
  <2> QED BY <2>4, <2>5
<1> QED BY <1>8, <1>9 DEF Gathering

(* What a part that comes leaves of the messages it is not of.             *)
LEMMA OthersGathered ==
  ASSUME NEW s, NEW t, NEW r, NEW q, NEW x \in DOMAIN s, t[x] = s[x], Gathered(s, r, x),
         s[x].age > ChunkTtl \/ \A o \in r.partials : o.msg = x /\ o.age = s[x].age => o \in q.partials,
         \A o \in q.partials : o.msg = x => o \in r.partials,
         \A d \in q.done : d.msg = x => d \in r.done
  PROVE  Gathered(t, q, x)
<1>1. CASE ~(Len(s[x].parts) > 1)
  BY <1>1 DEF Gathered
<1>2. CASE Len(s[x].parts) > 1
  <2>1. InMaking(s[x], x, r)
    BY <1>2 DEF Gathered
  <2>2. InMaking(s[x], x, q)
    BY <2>1 DEF InMaking
  <2> QED BY <2>2, <1>2 DEF Gathered
<1> QED BY <1>1, <1>2

(* A part is added to those that came before it; with the last one the     *)
(* message is delivered.                                                   *)
LEMMA HearFrameGathers ==
  ASSUME TransportInv, TransportInv', Gathering, NEW r, NEW e, <<r, e>> \in air, HearFrame(r, e)
  PROVE  Gathering'
<1> DEFINE m == e.msg
           parts == said[m].parts
           total == Len(parts)
           i == e.index
           outcomes == IF total = 1 THEN {Outcome(reasm.partials, reasm.done, TRUE)}
                       ELSE accept(reasm, m, i, total, parts[i])
<1>1. /\ e \in Frame(said) /\ e.index \in DOMAIN said[e.msg].parts
  <2>1. <<r, e>>[2] = e
    OBVIOUS
  <2>2. e.kind = "frame"
    BY DEF HearFrame
  <2>3. e \notin Presence
    BY <2>2 DEF Presence
  <2> QED BY <2>1, <2>3 DEF TransportInv, AirOK
<1>2. /\ m \in DOMAIN said /\ m \in Peer \X Nat /\ said[m] \in Message
      /\ Len(said[m].parts) <= MaxParts /\ said[m].heard \in 0..2 /\ said[m].age \in PartAge
  BY <1>1 DEF TransportInv, SaidOK, Frame, Message
<1>3. /\ parts \in Seq(Nat) /\ i \in 1..total /\ total \in Nat /\ m[1] \in Peer /\ i \in Nat
  BY <1>1, <1>2 DEF Message
<1>4. /\ joined /\ InRoom(TheLinks, pinned) /\ Connected(TheLinks) /\ pinned \subseteq Peer
  BY HeardWhenJoined DEF HearFrame
<1>5. UNCHANGED <<joined, pins>>
  BY Zenon DEF HearFrame
<1>6. \E a \in outcomes :
        /\ reasm' = a.reasm
        /\ IF a.whole
             THEN \E o \in activate(TheLinks, m[1], lastFrame', seen', pinned) :
                    /\ Become(deliver(o, m))
                    /\ said' = Noted(m, i, m[1] \in o.active)
             ELSE said' = Noted(m, i, FALSE) /\ UNCHANGED links
  BY Zenon DEF HearFrame
<1> HIDE DEF outcomes
<1>7. PICK a \in outcomes :
        /\ reasm' = a.reasm
        /\ IF a.whole
             THEN \E o \in activate(TheLinks, m[1], lastFrame', seen', pinned) :
                    /\ Become(deliver(o, m))
                    /\ said' = Noted(m, i, m[1] \in o.active)
             ELSE said' = Noted(m, i, FALSE) /\ UNCHANGED links
  BY <1>6, Zenon
<1>8. total # 1 => total \in 2..MaxParts /\ a \in accept(reasm, m, i, total, parts[i])
  <2> SUFFICES ASSUME total # 1
               PROVE  total \in 2..MaxParts /\ a \in accept(reasm, m, i, total, parts[i])
    OBVIOUS
  <2>1. a \in accept(reasm, m, i, total, parts[i])
    BY Zenon DEF outcomes
  <2>2. total \in Nat /\ total # 1 /\ i \in 1..total /\ total <= MaxParts /\ MaxParts \in Nat
    BY <1>2, <1>3, ChunksAssumption
  <2>3. total \in 2..MaxParts
    <3> HIDE DEF total, i
    <3> QED BY <2>2
  <2> QED BY <2>1, <2>3
<1>9. a.whole \in BOOLEAN /\ (total = 1 => a.whole /\ a.reasm.partials = reasm.partials
                                            /\ a.reasm.done = reasm.done)
  <2>1. CASE total = 1
    <3>1. a = Outcome(reasm.partials, reasm.done, TRUE)
      BY <2>1 DEF outcomes
    <3>2. /\ a.whole = TRUE /\ a.reasm.partials = reasm.partials /\ a.reasm.done = reasm.done
      BY <3>1 DEF Outcome
    <3> QED BY <3>2
  <2>2. CASE total # 1
    <3>1. total \in 2..MaxParts /\ a \in accept(reasm, m, i, total, parts[i])
      BY <2>2, <1>8
    <3>2. a.whole \in BOOLEAN
      <4>1. /\ m \in DOMAIN said /\ m[1] \in Peer /\ said[m].parts \in Seq(Nat)
            /\ i \in DOMAIN said[m].parts /\ ReasmOK(reasm, said)
        BY <1>1, <1>2, <1>3 DEF TransportInv
      <4>2. Len(said[m].parts) \in 2..MaxParts
        BY <3>1
      <4>3. a \in accept(reasm, m, i, Len(said[m].parts), said[m].parts[i])
        BY <3>1
      <4> HIDE DEF m, i
      <4> QED BY <4>1, <4>2, <4>3, AcceptOK
    <3> QED BY <3>2, <2>2
  <2> QED BY <2>1, <2>2
<1>10. PICK w \in BOOLEAN : said' = Noted(m, i, w) /\ (MayConnect(m[1]) /\ a.whole => w)
  <2>1. CASE a.whole
    <3>1. PICK o \in activate(TheLinks, m[1], lastFrame', seen', pinned) :
            said' = Noted(m, i, m[1] \in o.active)
      BY <1>7, <2>1
    <3>2. lastFrame' \in [Peer -> Age] /\ seen' \in [Peer -> Age]
      BY DEF TransportInv, SignsOK
    <3> DEFINE w == m[1] \in o.active
    <3>3. MayConnect(m[1]) => w
      BY <3>1, <3>2, <1>3, <1>4, ActivateConnects
    <3>4. w \in BOOLEAN /\ said' = Noted(m, i, w)
      BY <3>1
    <3> HIDE DEF w
    <3> QED BY <3>3, <3>4
  <2>2. CASE ~a.whole
    BY <1>7, <2>2
  <2> QED BY <2>1, <2>2
<1>11. /\ DOMAIN said' = DOMAIN said /\ \A x \in DOMAIN said \ {m} : said'[x] = said[x]
       /\ said'[m].parts = parts /\ said'[m].arrived = said[m].arrived \cup {i}
       /\ said'[m].age = IF said[m].heard > 0 THEN said[m].age ELSE 0
       /\ ~said'[m].late => ~said[m].late /\ ~(said[m].age > ChunkTtl /\ said[m].arrived # {})
       /\ said'[m].heard = IF w /\ said[m].heard < 2 THEN said[m].heard + 1 ELSE said[m].heard
       /\ said'[m].arrived # {}
  BY <1>2, <1>3, <1>10, NotedOK
<1>12. \A n \in DOMAIN said : said'[n].parts = said[n].parts /\ said[n].parts \in Seq(Nat)
  BY <1>11, SaidParts
<1>13. IsFiniteSet(DOMAIN said) /\ IsFiniteSet(DOMAIN said')
  BY <1>11 DEF Gathering
<1> HIDE DEF i, parts, total
<1>14. ASSUME NEW x \in DOMAIN said, Room(said', x[1]), MayConnect(x[1])', ~said'[x].late,
              said'[x].heard = 0
       PROVE  Gathered(said', reasm', x)
  <2>1. Room(said, x[1])
    BY <1>11, <1>12, <1>13, <1>14, RoomForFewer
  <2>2. MayConnect(x[1])
    BY <1>5, <1>14 DEF MayConnect, pins
  <2>3. CASE x # m
    <3>1. said'[x] = said[x] /\ Gathered(said, reasm, x)
      BY <2>1, <2>2, <2>3, <1>4, <1>11, <1>14 DEF Gathering
    <3>2. /\ \/ said[x].age > ChunkTtl
             \/ \A o \in reasm.partials : o.msg = x /\ o.age = said[x].age => o \in a.reasm.partials
          /\ \A o \in a.reasm.partials : o.msg = x => o \in reasm.partials
          /\ \A d \in a.reasm.done : d.msg = x => d \in reasm.done
      <4>1. CASE total = 1
        BY <4>1, <1>9
      <4>2. CASE total # 1
        <5>1. /\ \A o \in reasm.partials :
                    o.msg # m /\ o.age <= ChunkTtl /\ Few(said, o.msg[1]) => o \in a.reasm.partials
              /\ \A o \in a.reasm.partials : o.msg # m => o \in reasm.partials
              /\ \A d \in a.reasm.done : d.msg # m => d \in reasm.done
          <6>1. Fits(said) /\ ReasmOK(reasm, said)
            BY <2>1 DEF Room, TransportInv
          <6>2. /\ said[m].parts \in Seq(Nat) /\ Len(said[m].parts) \in 2..MaxParts /\ i \in DOMAIN said[m].parts
                /\ a \in accept(reasm, m, i, Len(said[m].parts), said[m].parts[i])
            BY <4>2, <1>1, <1>3, <1>8 DEF total, parts, i
          <6>3. m \in DOMAIN said /\ m[1] \in Peer /\ \A n \in DOMAIN said : said[n].parts \in Seq(Nat)
            BY <1>2, <1>3, <1>12
          <6> HIDE DEF m
          <6> QED BY <6>1, <6>2, <6>3, <1>13, AcceptGathers
        <5>2. Few(said, x[1]) /\ said[x].age \in PartAge
          BY <2>1, SaidParts DEF Room, Message
        <5>3. said[x].age > ChunkTtl \/ said[x].age <= ChunkTtl
          BY <5>2, ChunksAssumption DEF PartAge
        <5> QED BY <5>1, <5>2, <5>3, <2>3
      <4> QED BY <4>1, <4>2
    <3> QED BY <3>1, <3>2, <1>7, OthersGathered
  <2>4. CASE x = m
    <3>1. /\ said[m].heard = 0 /\ ~w /\ said'[m].age = 0 /\ ~said[m].late
          /\ ~(said[m].age > ChunkTtl /\ said[m].arrived # {})
      BY <2>4, <1>2, <1>11, <1>14
    <3>2. ~a.whole
      BY <3>1, <2>2, <2>4, <1>10
    <3>3. total \in 2..MaxParts
      BY <3>2, <1>8, <1>9
    <3>4. total > 1
      BY <3>3, ChunksAssumption
    <3>5. InMaking(said[m], m, reasm)
      BY <3>1, <3>4, <2>1, <2>2, <2>4, <1>2, <1>4 DEF Gathering, Gathered, total, parts
    <3>6. Came(reasm, m, said[m].arrived)
      <4>1. sweep(reasm).partials = {o \in reasm.partials : o.age <= ChunkTtl}
        BY SweepOK DEF TransportInv
      <4>2. said[m].age > ChunkTtl \/ said[m].age <= ChunkTtl
        BY <1>2, ChunksAssumption DEF PartAge
      <4> QED BY <4>1, <4>2, <3>1, <3>5 DEF InMaking, Came
    <3>7. Added(a.reasm, said, m, said[m].arrived \cup {i})
      <4>1. Fits(said) /\ ReasmOK(reasm, said)
        BY <2>1 DEF Room, TransportInv
      <4>2. /\ said[m].parts \in Seq(Nat) /\ Len(said[m].parts) \in 2..MaxParts /\ i \in DOMAIN said[m].parts
            /\ a \in accept(reasm, m, i, Len(said[m].parts), said[m].parts[i])
        BY <3>2, <3>3, <1>1, <1>3, <1>8, <1>9 DEF total, parts, i
      <4>3. m \in DOMAIN said /\ m[1] \in Peer /\ \A n \in DOMAIN said : said[n].parts \in Seq(Nat)
        BY <1>2, <1>3, <1>12
      <4> HIDE DEF m
      <4> QED BY <4>1, <4>2, <4>3, <3>2, <3>6, <1>13, AcceptGathers
    <3>8. InMaking(said'[m], m, a.reasm)
      BY <3>1, <3>7, <1>11 DEF InMaking, Added, parts
    <3> QED BY <3>4, <3>8, <2>4, <1>7, <1>11 DEF Gathered, total
  <2> QED BY <2>3, <2>4
<1> QED BY <1>11, <1>13, <1>14 DEF Gathering

(* ... and every step keeps it so.                                         *)
LEMMA GatherStep ==
  ASSUME GatherInv, TransportInv', [Next]_vars
  PROVE  Gathering'
<1>0. TransportInv /\ Gathering
  BY DEF GatherInv
<1>1. CASE \E r \in Relay : ReArm(r)
  <2>1. UNCHANGED <<said, reasm, joined, pins>>
    BY <1>1, Zenon DEF ReArm
  <2> QED BY <2>1, <1>0, GatheringSame DEF pins, TransportInv, LinksOK
<1>2. CASE \E x \in live : OnClose(x[1], x[2], x[3])
  <2>1. UNCHANGED <<said, reasm, joined, pins>>
    BY <1>2, Zenon DEF OnClose
  <2> QED BY <2>1, <1>0, GatheringSame DEF pins, TransportInv, LinksOK
<1>3. CASE \E x \in air : HearPresence(x[1], x[2]) \/ HearFrame(x[1], x[2]) \/ Drop(x[1], x[2])
  <2>1. PICK x \in air : HearPresence(x[1], x[2]) \/ HearFrame(x[1], x[2]) \/ Drop(x[1], x[2])
    BY <1>3
  <2>2. <<x[1], x[2]>> \in air
    <3>1. x = <<x[1], x[2]>>
      BY <1>0 DEF TransportInv, AirOK
    <3> QED BY <3>1
  <2>3. CASE HearFrame(x[1], x[2])
    BY <1>0, <2>2, <2>3, HearFrameGathers
  <2>4. CASE HearPresence(x[1], x[2]) \/ Drop(x[1], x[2])
    <3>1. UNCHANGED <<said, reasm, joined, pins>>
      BY <2>4, Zenon DEF HearPresence, Drop
    <3> QED BY <3>1, <1>0, GatheringSame DEF pins, TransportInv, LinksOK
  <2> QED BY <2>1, <2>3, <2>4
<1>4. CASE \E p \in Peer : Dial(p) \/ Unpin(p) \/ Announce(p)
  <2>1. PICK p \in Peer : Dial(p) \/ Unpin(p) \/ Announce(p)
    BY <1>4
  <2>2. UNCHANGED <<said, reasm, joined>>
    BY <2>1, Zenon DEF Dial, Unpin, Announce
  <2>3. joined => pinned \subseteq pinned'
    <3>1. CASE Dial(p)
      <4>1. joined => pinned' = pinned \cup {p}
        BY <3>1, Zenon DEF Dial
      <4> QED BY <4>1
    <3>2. CASE Unpin(p) \/ Announce(p)
      <4>1. pinned' = pinned
        BY <3>2 DEF Unpin, Announce, pins
      <4> QED BY <4>1
    <3> QED BY <2>1, <3>1, <3>2
  <2>4. pinned' \subseteq Peer
    BY DEF TransportInv, LinksOK
  <2> QED BY <1>0, <2>2, <2>3, <2>4, GatheringSame
<1>5. CASE \E p \in Peer, size \in left.sizes, c \in Checkpoint : Say(p, size, c)
  BY <1>0, <1>5, SayGathers
<1>6. CASE Sweep
  <2>1. UNCHANGED <<said, reasm, joined, pins>>
    BY <1>6, Zenon DEF Sweep
  <2> QED BY <2>1, <1>0, GatheringSame DEF pins, TransportInv, LinksOK
<1>7. CASE Leave
  <2>1. UNCHANGED <<said, reasm>> /\ joined' = FALSE
    BY <1>7, Zenon DEF Leave
  <2> QED BY <2>1, <1>0, GatheringSame
<1>8. CASE Join
  BY <1>0, <1>8, JoinGathers
<1>9. CASE Tick
  BY <1>0, <1>9, TickGathers
<1>10. CASE UNCHANGED vars
  <2>1. UNCHANGED <<said, reasm, joined, pins>>
    BY <1>10 DEF vars, pins
  <2> QED BY <2>1, <1>0, GatheringSame DEF pins, TransportInv, LinksOK
<1> QED BY <1>1, <1>2, <1>3, <1>4, <1>5, <1>6, <1>7, <1>8, <1>9, <1>10 DEF Next

(* A message all of whose parts have come, each while those before it were *)
(* remembered, is delivered, however many relays echo it in whatever       *)
(* order, unless its sender has too many at once, all that is said is too  *)
(* much to be kept, or pins leave no room for the sender (chunk.ts, accept;*)
(* nostr.ts, onWire and activate).                                         *)
THEOREM AlwaysHeard == Spec => []WhatArrivedIsHeard
<1>1. Init => GatherInv
  <2> SUFFICES ASSUME Init PROVE GatherInv
    OBVIOUS
  <2>1. said = <<>>
    BY DEF Init
  <2>2. DOMAIN said = {} /\ IsFiniteSet({})
    BY <2>1, FS_EmptySet
  <2> QED BY <2>2, InitOK DEF GatherInv, Gathering
<1>2. GatherInv /\ [Next]_vars => GatherInv'
  BY StepOK, GatherStep DEF GatherInv
<1>3. GatherInv => WhatArrivedIsHeard
  <2> SUFFICES ASSUME GatherInv, NEW m \in DOMAIN said, joined, AllArrived(m), MayConnect(m[1]),
                      Cardinality({n \in {x \in DOMAIN said : InParts(x)} : n[1] = m[1]}) <= MaxPartial,
                      sumOf([n \in {x \in DOMAIN said : InParts(x)} |-> length(n)],
                            {x \in DOMAIN said : InParts(x)}) <= MaxBytes
               PROVE  said[m].heard > 0
    BY DEF WhatArrivedIsHeard
  <2>1. {x \in DOMAIN said : InParts(x)} = Bulk(said) /\ \A n \in DOMAIN said : length(n) = Whole(said, n)
    BY DEF Bulk, InParts, Whole, length
  <2>2. Few(said, m[1])
    BY <2>1 DEF Few
  <2>3. Fits(said)
    <3>1. [n \in Bulk(said) |-> length(n)] = [n \in Bulk(said) |-> Whole(said, n)]
      BY <2>1 DEF Bulk
    <3> QED BY <2>1, <3>1 DEF Fits
  <2>4. said[m] \in Message
    BY SaidParts DEF GatherInv
  <2> SUFFICES ASSUME said[m].heard = 0 PROVE FALSE
    BY <2>4 DEF Message
  <2>5. Gathered(said, reasm, m)
    BY <2>2, <2>3 DEF GatherInv, Gathering, Room, AllArrived
  <2>6. said[m].arrived = DOMAIN said[m].parts /\ said[m].arrived # {}
    <3>1. said[m].parts # <<>> /\ said[m].parts \in Seq(Nat)
      BY <2>4 DEF AllArrived, Message
    <3>2. 1 \in DOMAIN said[m].parts
      BY <3>1
    <3> QED BY <3>2 DEF AllArrived
  <2> QED BY <2>5, <2>6 DEF Gathered, InMaking
<1> QED BY <1>1, <1>2, <1>3, PTL DEF Spec

=============================================================================
