--------------------------- MODULE SwapTime_proofs --------------------------
(***************************************************************************)
(* The race of the claims and refunds of a swap: where the margins are     *)
(* wide enough for the faults there may be, a party that keeps up never    *)
(* pays for nothing and never forgets a lock of its own.  The explorers    *)
(* list at once what they were sent.                                       *)
(*                                                                         *)
(* Each fault costs a party two blocks at most: the one before its next    *)
(* pass, and one more if it struck in the midst of a pass.                 *)
(***************************************************************************)
EXTENDS SwapEngine_proofs

Peer(p) == IF p = taker THEN maker ELSE taker
MyOut(p) == outs[MyChain(p)][1]

MakerBlocks == RefundBlocks[MakerChain]
TakerBlocks == RefundBlocks[TakerChain]
MakerSeconds == BlockSeconds[MakerChain]
TakerSeconds == BlockSeconds[TakerChain]

Count(b) == IF b THEN 1 ELSE 0

(* The policy is wide enough for n faults.                                 *)
EnoughTime(p, n) ==
  IF p = maker
    THEN windowMarginSecs > 2 * MaxDrift + (2 * n + 2) * (MakerSeconds + TakerSeconds)
    ELSE claimSafetyBlocks >= 2 * n + 2

InTime(p) ==
  p \in setting.vigilant /\ ~setting.lag /\ EnoughTime(p, setting.faults)

(* The HTLC of p is back with it, or the other one is its own.             *)
Gone(p, how) == HasLock(p) /\ MyOut(p).mined /\ MyOut(p).spend = how
Resolved(p) == Gone(p, "refund") \/ Gone(Peer(p), "claim")

(* Blocks that come before p claims: of the pass it is in, and of the one  *)
(* it is yet to begin.                                                     *)
ClaimWaits(p) ==
  IF MyOut(Peer(p)).spend # "none" THEN 0
  ELSE Count(at[p] \notin {"idle", "claiming"}) + Count(p \notin due)

-----------------------------------------------------------------------------
(* The maker funds against an HTLC that is young; as the taker's ages, so  *)
(* does the maker's, which the maker refunds when it is old; what the      *)
(* taker claims, the maker claims next.                                    *)

(* The age of the taker's HTLC, in seconds, that the maker funds against.  *)
FundingAge ==
  (TakerBlocks + 1) * TakerSeconds - (MakerBlocks + 1) * MakerSeconds
    - windowMarginSecs + MaxDrift

(* The taker's HTLC has t confirmations and the maker's has m; l is the    *)
(* lead, k the faults, w the blocks the maker waits.                       *)
Funds(t, l, owes) == TakerSeconds * t - l <= FundingAge + MakerSeconds * Count(owes)
Early(t, m, l, k, w) ==
  TakerSeconds * t - MakerSeconds * m - l
    <= FundingAge + MakerSeconds
         + (IF m = MakerBlocks + 1 THEN MakerSeconds * (2 * k + 1 - w) ELSE 0)
Late(t, k, w) ==
  TakerSeconds * t
    <= FundingAge + MakerSeconds * (MakerBlocks + 1) + MaxDrift
         + MakerSeconds * (2 * k + 2) + TakerSeconds * (2 * k + 1 - w)

RefundWaits ==
  IF MyOut(maker).spend # "none" THEN 0
  ELSE Count(at[maker] = "claiming" /\ seen[maker].mine[1].spend # "none")
         + Count(maker \notin due)

MakerFunds ==
  at[maker] = "funding" =>
    /\ HasLock(taker) /\ MyOut(taker).spend # "refund"
    /\ Funds(MyOut(taker).confs, lead, maker \in due)

MakerHolds ==
  HasLock(maker) /\ ~Resolved(maker) =>
    /\ HasLock(taker) /\ MyOut(taker).spend # "refund"
    /\ IF MyOut(maker).mined
         THEN Late(MyOut(taker).confs, faults, ClaimWaits(maker))
         ELSE Early(MyOut(taker).confs, MyOut(maker).confs, lead, faults, RefundWaits)

(* What a pass has read is one block old at most.                          *)
MakerReads ==
  /\ at[maker] \in {"scanned", "funding", "funded"} =>
       1 \notin DOMAIN seen[maker].mine /\ 1 \notin DOMAIN seen[maker].theirs
  /\ at[maker] = "funded" => MyOut(maker).confs <= Count(maker \in due)
  /\ at[maker] = "claiming" =>
       /\ 1 \in DOMAIN seen[maker].mine
       /\ MyOut(maker).confs <= seen[maker].mine[1].confs + Count(maker \in due)
  /\ at[maker] \in {"claiming", "refunding"} /\ 1 \in DOMAIN seen[maker].theirs =>
       (seen[maker].theirs[1].spend = "refund" => Resolved(maker))

(* No record of the maker is over before its HTLC is.                      *)
MakerKnows(s) ==
  HasLock(maker) /\ ~Resolved(maker) => s # None /\ s.stage \notin Terminal

MakerInTime ==
  InTime(maker) =>
    MakerFunds /\ MakerHolds /\ MakerReads /\ MakerKnows(side[maker]) /\ MakerKnows(disk[maker])

-----------------------------------------------------------------------------
(* The taker claims the maker's HTLC while it is young; before it claims,  *)
(* nobody else has the secret.                                             *)

Claims(s) == s # None /\ s.claim

Told ==
  \/ HasLock(maker) /\ MyOut(maker).spend = "claim"
  \/ HasLock(taker) /\ MyOut(taker).spend = "claim"
  \/ Claims(side[maker]) \/ Claims(disk[maker])
  \/ 1 \in DOMAIN seen[maker].mine /\ seen[maker].mine[1].spend = "claim"

TakerTold ==
  Told => HasLock(taker) /\ \A s \in {side[taker], disk[taker]} : s # None => s.claim

(* The maker's HTLC has m confirmations, k and w are as above.             *)
Young(m, k, w) == m <= MakerBlocks - claimSafetyBlocks + 1 + 2 * k - w

TakerHolds ==
  (Claims(side[taker]) \/ Claims(disk[taker])) /\ ~Resolved(taker) =>
    /\ HasLock(maker) /\ MyOut(maker).spend # "refund"
    /\ Young(MyOut(maker).confs, faults, ClaimWaits(taker))

TakerInTime == InTime(taker) => TakerHolds

TimeInv == SwapInv /\ MakerInTime /\ TakerTold /\ TakerInTime

-----------------------------------------------------------------------------
(* Arithmetic of ages and waits.                                           *)

LEMMA Times ==
  ASSUME NEW b \in Nat, NEW m \in Int, NEW n \in Int, m <= n
  PROVE  b * m <= b * n
OBVIOUS

LEMMA TimeTypes ==
  /\ MakerSeconds \in Nat \ {0} /\ TakerSeconds \in Nat \ {0}
  /\ MakerBlocks \in Nat \ {0} /\ TakerBlocks \in Nat \ {0}
  /\ MaxDrift \in Nat /\ windowMarginSecs \in Nat /\ FundingAge \in Int
  /\ Deepest[MakerChain] = MakerBlocks + 1 /\ Deepest[TakerChain] = TakerBlocks + 1
<1>1. /\ MakerSeconds \in Nat \ {0} /\ TakerSeconds \in Nat \ {0}
      /\ MakerBlocks \in Nat \ {0} /\ TakerBlocks \in Nat \ {0}
      /\ MaxDrift \in Nat /\ windowMarginSecs \in Nat
  BY SwapAssumption DEF MakerSeconds, TakerSeconds, MakerBlocks, TakerBlocks
<1>2. FundingAge \in Int
  BY <1>1 DEF FundingAge
<1>3. Deepest[MakerChain] = MakerBlocks + 1 /\ Deepest[TakerChain] = TakerBlocks + 1
  BY DEF Deepest, MakerBlocks, TakerBlocks
<1> QED BY <1>1, <1>2, <1>3

(* The HTLC that the maker funds against is young.                         *)
LEMMA FundsYoung ==
  ASSUME NEW n \in Nat, EnoughTime(maker, n), NEW t \in Nat, NEW l \in -MaxDrift..MaxDrift,
         NEW o \in BOOLEAN, Funds(t, l, o)
  PROVE  t < TakerBlocks
<1> DEFINE a == TakerSeconds  b == MakerSeconds  R == TakerBlocks  Q == MakerBlocks
           D == MaxDrift  g == windowMarginSecs
<1>1. /\ a \in Nat \ {0} /\ b \in Nat \ {0} /\ R \in Nat \ {0} /\ Q \in Nat \ {0}
      /\ D \in Nat /\ g \in Nat
  BY TimeTypes
<1>2. g > 2 * D + (2 * n + 2) * (b + a)
  BY DEF EnoughTime
<1>3. a * t - l <= (R + 1) * a - (Q + 1) * b - g + D + b
  <2>1. a * t - l <= (R + 1) * a - (Q + 1) * b - g + D + b * Count(o)
    BY DEF Funds, FundingAge
  <2>2. b * Count(o) = b \/ b * Count(o) = 0
    BY <1>1 DEF Count
  <2> HIDE DEF a, b, R, Q, D, g
  <2> QED BY <1>1, <2>1, <2>2
<1>4. l \in Int /\ l <= D
  BY <1>1
<1> HIDE DEF a, b, R, Q, D, g
<1>5. (2 * n + 2) * (b + a) >= 2 * a /\ (Q + 1) * b >= b /\ (R + 1) * a = R * a + a
  <2>1. (2 * n + 2) * (b + a) = 2 * (n * b) + 2 * (n * a) + 2 * b + 2 * a
    BY <1>1
  <2>2. n * b >= 0 /\ n * a >= 0 /\ Q * b >= 0
    BY <1>1
  <2>3. (Q + 1) * b = Q * b + b
    BY <1>1
  <2> QED BY <1>1, <2>1, <2>2, <2>3
<1>6. a * t < a * R
  <2>1. PICK x \in Int : x = a * t
    BY <1>1
  <2>2. PICK y \in Int : y = a * R /\ y = R * a
    BY <1>1
  <2>3. PICK z \in Int, w \in Int : z = (2 * n + 2) * (b + a) /\ w = (Q + 1) * b
    BY <1>1
  <2>4. x - l <= y + a - w - g + D + b /\ g > 2 * D + z /\ z >= 2 * a /\ w >= b
    BY <1>1, <1>2, <1>3, <1>5, <2>1, <2>2, <2>3
  <2> QED BY <1>1, <1>4, <2>1, <2>2, <2>3, <2>4
<1>7. t >= R => a * R <= a * t
  BY <1>1, Times
<1>8. t < R
  BY <1>1, <1>6, <1>7
<1> QED BY <1>8 DEF R

(* What b blocks less two per fault may cost.                              *)
LEMMA FewWaits ==
  ASSUME NEW b \in Nat, NEW n \in Nat, NEW k \in 0..n, NEW w \in Nat
  PROVE  /\ b * (2 * k + 1 - w) <= 2 * (b * n) + b /\ b * (2 * k + 1 - w) \in Int
         /\ b * (2 * k + 2) <= 2 * (b * n) + 2 * b /\ b * (2 * k + 2) \in Int
         /\ b * n \in Nat
<1>1. k \in Nat /\ k <= n /\ 2 * k + 1 - w <= 2 * n + 1 /\ 2 * k + 2 <= 2 * n + 2
  OBVIOUS
<1>2. b * (2 * k + 1 - w) <= b * (2 * n + 1)
  BY <1>1, Times
<1>3. b * (2 * k + 2) <= b * (2 * n + 2)
  BY <1>1, Times
<1>4. b * (2 * n + 1) = 2 * (b * n) + b /\ b * (2 * n + 2) = 2 * (b * n) + 2 * b
  OBVIOUS
<1>5. b * (2 * k + 1 - w) \in Int /\ b * (2 * k + 2) \in Int /\ b * n \in Nat
  BY <1>1
<1> QED BY <1>2, <1>3, <1>4, <1>5

(* The taker's HTLC is young as long as the maker's is not resolved.       *)
LEMMA EarlyYoung ==
  ASSUME NEW n \in Nat, EnoughTime(maker, n), NEW t \in Nat, NEW l \in -MaxDrift..MaxDrift,
         NEW m \in 0..MakerBlocks + 1, NEW k \in 0..n, NEW w \in Nat, Early(t, m, l, k, w)
  PROVE  t < TakerBlocks
<1> DEFINE a == TakerSeconds  b == MakerSeconds  R == TakerBlocks  Q == MakerBlocks
           D == MaxDrift  g == windowMarginSecs
<1>1. /\ a \in Nat \ {0} /\ b \in Nat \ {0} /\ R \in Nat \ {0} /\ Q \in Nat \ {0}
      /\ D \in Nat /\ g \in Nat
  BY TimeTypes
<1>2. g > 2 * D + (2 * n + 2) * (b + a)
  BY DEF EnoughTime
<1>3. a * t - b * m - l
        <= ((R + 1) * a - (Q + 1) * b - g + D) + b
             + (IF m = Q + 1 THEN b * (2 * k + 1 - w) ELSE 0)
  BY DEF Early, FundingAge
<1>4. l \in Int /\ l <= D /\ m \in Int /\ m <= Q + 1
  BY <1>1
<1> HIDE DEF a, b, R, Q, D, g
<1>5. b * m <= b * (Q + 1)
  BY <1>1, <1>4, Times
<1>6. PICK e \in Int : e = (IF m = Q + 1 THEN b * (2 * k + 1 - w) ELSE 0) /\ e <= 2 * (b * n) + b
  <2>1. b * (2 * k + 1 - w) <= 2 * (b * n) + b /\ b * (2 * k + 1 - w) \in Int /\ b * n \in Nat
    BY <1>1, FewWaits
  <2> QED BY <1>1, <2>1
<1>7. PICK x \in Int, y \in Int, u \in Int, v \in Int, z \in Nat, c \in Nat :
        /\ x = a * t /\ y = a * R /\ u = b * m /\ v = b * (Q + 1) /\ z = b * n /\ c = a * n
  BY <1>1
<1>8. /\ (R + 1) * a = y + a /\ (Q + 1) * b = v
      /\ (2 * n + 2) * (b + a) = 2 * z + 2 * c + 2 * b + 2 * a
  BY <1>1, <1>7
<1>9. x < y
  BY <1>1, <1>2, <1>3, <1>4, <1>5, <1>6, <1>7, <1>8
<1>10. t >= R => a * R <= a * t
  BY <1>1, Times
<1>11. t < R
  BY <1>1, <1>7, <1>9, <1>10
<1> QED BY <1>11 DEF R

LEMMA LateYoung ==
  ASSUME NEW n \in Nat, EnoughTime(maker, n), NEW t \in Nat,
         NEW k \in 0..n, NEW w \in Nat, Late(t, k, w)
  PROVE  t < TakerBlocks
<1> DEFINE a == TakerSeconds  b == MakerSeconds  R == TakerBlocks  Q == MakerBlocks
           D == MaxDrift  g == windowMarginSecs
<1>1. /\ a \in Nat \ {0} /\ b \in Nat \ {0} /\ R \in Nat \ {0} /\ Q \in Nat \ {0}
      /\ D \in Nat /\ g \in Nat
  BY TimeTypes
<1>2. g > 2 * D + (2 * n + 2) * (b + a)
  BY DEF EnoughTime
<1>3. a * t
        <= ((R + 1) * a - (Q + 1) * b - g + D) + b * (Q + 1) + D
             + b * (2 * k + 2) + a * (2 * k + 1 - w)
  BY DEF Late, FundingAge
<1> HIDE DEF a, b, R, Q, D, g
<1>4. PICK d \in Int, e \in Int :
        /\ d = b * (2 * k + 2) /\ e = a * (2 * k + 1 - w)
        /\ d <= 2 * (b * n) + 2 * b /\ e <= 2 * (a * n) + a
  BY <1>1, FewWaits
<1>5. PICK x \in Int, y \in Int, v \in Int, z \in Nat, c \in Nat :
        /\ x = a * t /\ y = a * R /\ v = b * (Q + 1) /\ z = b * n /\ c = a * n
  BY <1>1
<1>6. /\ (R + 1) * a = y + a /\ (Q + 1) * b = v
      /\ (2 * n + 2) * (b + a) = 2 * z + 2 * c + 2 * b + 2 * a
  BY <1>1, <1>5
<1>7. x < y
  BY <1>1, <1>2, <1>3, <1>4, <1>5, <1>6
<1>8. t >= R => a * R <= a * t
  BY <1>1, Times
<1>9. t < R
  BY <1>1, <1>5, <1>7, <1>8
<1> QED BY <1>9 DEF R

(* Faults pay for waits.                                                   *)
LEMMA EarlyMore ==
  ASSUME NEW t \in Nat, NEW m \in Nat, NEW l \in Int, NEW k \in Nat, NEW w \in Nat,
         Early(t, m, l, k, w), NEW i \in Nat, NEW v \in Nat,
         m = MakerBlocks + 1 => 2 * k - w <= 2 * i - v
  PROVE  Early(t, m, l, i, v)
<1>1. CASE m = MakerBlocks + 1
  <2>1. 2 * k + 1 - w <= 2 * i + 1 - v
    BY <1>1
  <2>2. PICK x \in Int, y \in Int :
          x = MakerSeconds * (2 * k + 1 - w) /\ y = MakerSeconds * (2 * i + 1 - v) /\ x <= y
    BY <2>1, Times, TimeTypes
  <2>3. PICK z \in Int : z = TakerSeconds * t - MakerSeconds * m - l
    BY TimeTypes
  <2> QED BY <1>1, <2>2, <2>3, TimeTypes DEF Early
<1>2. CASE m # MakerBlocks + 1
  BY <1>2 DEF Early
<1> QED BY <1>1, <1>2

LEMMA LateMore ==
  ASSUME NEW t \in Nat, NEW k \in Nat, NEW w \in Nat, Late(t, k, w),
         NEW i \in Nat, NEW v \in Nat, k <= i, 2 * k - w <= 2 * i - v
  PROVE  Late(t, i, v)
<1>1. 2 * k + 1 - w <= 2 * i + 1 - v /\ 2 * k + 2 <= 2 * i + 2
  OBVIOUS
<1>2. PICK x \in Int, y \in Int :
        x = TakerSeconds * (2 * k + 1 - w) /\ y = TakerSeconds * (2 * i + 1 - v) /\ x <= y
  BY <1>1, Times, TimeTypes
<1>3. PICK d \in Int, e \in Int :
        d = MakerSeconds * (2 * k + 2) /\ e = MakerSeconds * (2 * i + 2) /\ d <= e
  BY <1>1, Times, TimeTypes
<1>4. PICK z \in Int, f \in Int : z = TakerSeconds * t /\ f = MakerSeconds * (MakerBlocks + 1)
  BY TimeTypes
<1> QED BY <1>2, <1>3, <1>4, TimeTypes DEF Late

(* The clocks at a block of either chain.                                  *)
LEMMA EarlyBlocks ==
  ASSUME NEW t \in Nat, NEW m \in Nat, NEW l \in Int, NEW k \in Nat, NEW w \in Nat,
         Early(t, m, l, k, w), m <= MakerBlocks + 1
  PROVE  /\ Early(t + 1, m, l + TakerSeconds, k, w)
         /\ m <= MakerBlocks =>
              \A v \in 0..1 : Early(t, m + 1, l - MakerSeconds, k, v)
         /\ m = MakerBlocks + 1 /\ w > 0 => Early(t, m, l - MakerSeconds, k, w - 1)
<1>1. PICK x \in Int, y \in Int, e \in Int :
        /\ x = TakerSeconds * t /\ y = MakerSeconds * m
        /\ e = IF m = MakerBlocks + 1 THEN MakerSeconds * (2 * k + 1 - w) ELSE 0
  BY TimeTypes
<1>2. x - y - l <= FundingAge + MakerSeconds + e
  BY <1>1 DEF Early
<1>3. TakerSeconds * (t + 1) = x + TakerSeconds /\ MakerSeconds * (m + 1) = y + MakerSeconds
  BY <1>1, TimeTypes
<1>4. Early(t + 1, m, l + TakerSeconds, k, w)
  BY <1>1, <1>2, <1>3, TimeTypes DEF Early
<1>5. ASSUME m <= MakerBlocks, NEW v \in 0..1
      PROVE  Early(t, m + 1, l - MakerSeconds, k, v)
  <2>1. 2 * k + 1 - v >= 0 /\ m # MakerBlocks + 1
    BY <1>5, TimeTypes
  <2>2. PICK f \in Int : f = MakerSeconds * (2 * k + 1 - v) /\ f >= 0
    <3>1. MakerSeconds * 0 <= MakerSeconds * (2 * k + 1 - v)
      BY <2>1, Times, TimeTypes
    <3> QED BY <3>1, TimeTypes
  <2>3. e = 0
    BY <1>1, <2>1
  <2>4. x - (y + MakerSeconds) - (l - MakerSeconds)
          <= FundingAge + MakerSeconds + (IF m + 1 = MakerBlocks + 1 THEN f ELSE 0)
    BY <1>1, <1>2, <2>2, <2>3, TimeTypes
  <2> QED BY <1>1, <1>3, <2>2, <2>4 DEF Early
<1>6. ASSUME m = MakerBlocks + 1, w > 0
      PROVE  Early(t, m, l - MakerSeconds, k, w - 1)
  <2>1. e = MakerSeconds * (2 * k + 1 - w)
    BY <1>1, <1>6
  <2>2. MakerSeconds * (2 * k + 1 - (w - 1)) = MakerSeconds * (2 * k + 1 - w) + MakerSeconds
    BY TimeTypes
  <2>3. x - y - (l - MakerSeconds) <= FundingAge + MakerSeconds + (e + MakerSeconds)
    BY <1>1, <1>2, TimeTypes
  <2> QED BY <1>1, <1>6, <2>1, <2>2, <2>3 DEF Early
<1> QED BY <1>4, <1>5, <1>6

LEMMA LateBlock ==
  ASSUME NEW t \in Nat, NEW k \in Nat, NEW w \in Nat, Late(t, k, w), w > 0
  PROVE  Late(t + 1, k, w - 1)
<1>1. PICK x \in Int, e \in Int, d \in Int, f \in Int :
        /\ x = TakerSeconds * t /\ e = TakerSeconds * (2 * k + 1 - w)
        /\ d = MakerSeconds * (2 * k + 2) /\ f = MakerSeconds * (MakerBlocks + 1)
  BY TimeTypes
<1>2. x <= FundingAge + f + MaxDrift + d + e
  BY <1>1 DEF Late
<1>3. /\ TakerSeconds * (t + 1) = x + TakerSeconds
      /\ TakerSeconds * (2 * k + 1 - (w - 1)) = e + TakerSeconds
  BY <1>1, TimeTypes
<1>4. x + TakerSeconds <= FundingAge + f + MaxDrift + d + (e + TakerSeconds)
  BY <1>1, <1>2, TimeTypes
<1> QED BY <1>1, <1>3, <1>4 DEF Late

(* The claim of the maker's HTLC is mined.                                 *)
LEMMA EarlyLate ==
  ASSUME NEW t \in Nat, NEW m \in 0..MakerBlocks + 1, NEW l \in -MaxDrift..MaxDrift,
         NEW k \in Nat, NEW w \in Nat, Early(t, m, l, k, w), NEW v \in 0..1
  PROVE  Late(t, k, v)
<1>1. m \in Nat /\ m <= MakerBlocks + 1 /\ l \in Int /\ l <= MaxDrift
  BY TimeTypes
<1>2. PICK x \in Int, y \in Int, f \in Int, c \in Nat :
        /\ x = TakerSeconds * t /\ y = MakerSeconds * m
        /\ f = MakerSeconds * (MakerBlocks + 1) /\ y <= f /\ c = MakerSeconds * k
  BY <1>1, Times, TimeTypes
<1>3. PICK e \in Int :
        /\ e = IF m = MakerBlocks + 1 THEN MakerSeconds * (2 * k + 1 - w) ELSE 0
        /\ e <= 2 * c + MakerSeconds
  <2>1. MakerSeconds * (2 * k + 1 - w) <= 2 * c + MakerSeconds
    BY <1>2, FewWaits, TimeTypes
  <2> QED BY <1>2, <2>1, TimeTypes
<1>4. x - y - l <= FundingAge + MakerSeconds + e
  BY <1>2, <1>3 DEF Early
<1>5. MakerSeconds * (2 * k + 2) = 2 * c + 2 * MakerSeconds
  BY <1>2, TimeTypes
<1>6. PICK h \in Int : h = TakerSeconds * (2 * k + 1 - v) /\ h >= 0
  <2>1. TakerSeconds * 0 <= TakerSeconds * (2 * k + 1 - v)
    BY Times, TimeTypes
  <2> QED BY <2>1, TimeTypes
<1>7. x <= FundingAge + f + MaxDrift + (2 * c + 2 * MakerSeconds) + h
  BY <1>1, <1>2, <1>3, <1>4, <1>6, TimeTypes
<1> QED BY <1>2, <1>5, <1>6, <1>7 DEF Late

(* From the decision to fund to the HTLC.                                  *)
LEMMA FundsEarly ==
  ASSUME NEW t \in Nat, NEW l \in Int, NEW o \in BOOLEAN, Funds(t, l, o),
         NEW k \in Nat, NEW w \in Nat
  PROVE  Early(t, 0, l, k, w)
<1>1. PICK x \in Int, e \in Int :
        x = TakerSeconds * t /\ e = MakerSeconds * Count(o) /\ e <= MakerSeconds
  BY TimeTypes DEF Count
<1>2. x - l <= FundingAge + e
  BY <1>1 DEF Funds
<1>3. MakerSeconds * 0 = 0 /\ 0 # MakerBlocks + 1
  BY TimeTypes
<1>4. x - 0 - l <= FundingAge + MakerSeconds + 0
  BY <1>1, <1>2, TimeTypes
<1> QED BY <1>1, <1>3, <1>4 DEF Early

LEMMA FundsBlocks ==
  ASSUME NEW t \in Nat, NEW l \in Int, Funds(t, l, FALSE)
  PROVE  Funds(t + 1, l + TakerSeconds, TRUE) /\ Funds(t, l - MakerSeconds, TRUE)
<1>1. PICK x \in Int : x = TakerSeconds * t
  BY TimeTypes
<1>2. /\ TakerSeconds * (t + 1) = x + TakerSeconds
      /\ MakerSeconds * 0 = 0 /\ MakerSeconds * 1 = MakerSeconds
  BY <1>1, TimeTypes
<1>3. x - l <= FundingAge
  <2>1. x - l <= FundingAge + MakerSeconds * 0
    BY <1>1 DEF Funds, Count
  <2> QED BY <1>1, <1>2, <2>1, TimeTypes
<1>4. x + TakerSeconds - (l + TakerSeconds) <= FundingAge + MakerSeconds
      /\ x - (l - MakerSeconds) <= FundingAge + MakerSeconds
  BY <1>1, <1>3, TimeTypes
<1>5. TakerSeconds * (t + 1) - (l + TakerSeconds) <= FundingAge + MakerSeconds * 1
      /\ TakerSeconds * t - (l - MakerSeconds) <= FundingAge + MakerSeconds * 1
  BY <1>1, <1>2, <1>4, TimeTypes
<1> QED BY <1>5 DEF Funds, Count

-----------------------------------------------------------------------------
(* The HTLCs, and what becomes of them in a step.                          *)

LEMMA Peers ==
  /\ taker \in Side /\ maker \in Side /\ taker # maker
  /\ Peer(taker) = maker /\ Peer(maker) = taker
  /\ MyChain(taker) = TakerChain /\ MyChain(maker) = MakerChain
  /\ TheirChain(taker) = MakerChain /\ TheirChain(maker) = TakerChain
  /\ \A p \in Side : p = taker \/ p = maker
BY SwapAssumption DEF Peer, Side, MyChain, TheirChain

LEMMA PeerChain ==
  ASSUME NEW p \in Side
  PROVE  /\ Peer(p) \in Side /\ Peer(p) # p
         /\ MyChain(Peer(p)) = TheirChain(p) /\ TheirChain(Peer(p)) = MyChain(p)
         /\ \A q \in Side : q # p => q = Peer(p)
BY SwapAssumption DEF Peer, Side, MyChain, TheirChain

LEMMA OutTypes ==
  ASSUME TypeOK, OutsOK, NEW p \in Side, HasLock(p)
  PROVE  /\ MyOut(p) \in Output(MyChain(p))
         /\ MyOut(p).confs \in Nat /\ MyOut(p).confs <= RefundBlocks[MyChain(p)] + 1
         /\ MyOut(p).mined \in BOOLEAN /\ MyOut(p).spend \in {"none", "claim", "refund"}
         /\ MyOut(p).mined => MyOut(p).spend # "none"
         /\ DOMAIN outs[MyChain(p)] = {1}
         /\ ~setting.lag => MyOut(p).listed
<1>1. /\ MyChain(p) \in Chains /\ DOMAIN outs[MyChain(p)] = {1}
      /\ MyOut(p) \in Output(MyChain(p))
  BY SideChains, OneOutput DEF HasLock, MyOut
<1>2. MyOut(p).mined => MyOut(p).spend # "none"
  BY <1>1 DEF TypeOK, Chains, MyOut
<1>3. Deepest[MyChain(p)] = RefundBlocks[MyChain(p)] + 1 /\ RefundBlocks[MyChain(p)] \in Nat
  BY <1>1, DeepestOK
<1>4. ~setting.lag => MyOut(p).listed
  BY <1>1 DEF OutsOK, HasLock, MyOut
<1> QED BY <1>1, <1>2, <1>3, <1>4 DEF Output

LEMMA GoneSettled ==
  ASSUME OutsOK, NEW p \in Side, NEW how
  PROVE  Settled(MyChain(p), how) <=> Gone(p, how)
<1>1. MyChain(p) \in Chains
  BY SideChains
<1>2. DOMAIN outs[MyChain(p)] = IF HasLock(p) THEN {1} ELSE {}
  BY <1>1, OneOutput DEF HasLock
<1> QED BY <1>2 DEF Settled, Gone, MyOut

(* What is gone stays so.                                                  *)
LEMMA GoneStays ==
  ASSUME Grows, NEW p \in Side, NEW how, Gone(p, how)
  PROVE  Gone(p, how)'
<1>1. MyChain(p) \in Chains
  BY SideChains
<1> QED BY <1>1 DEF Grows, Gone, HasLock, MyOut

LEMMA ResolvedStays ==
  ASSUME Grows, NEW p \in Side, Resolved(p)
  PROVE  Resolved(p)'
BY GoneStays, PeerChain DEF Resolved

LEMMA WaitTypes ==
  /\ RefundWaits \in 0..2 /\ RefundWaits' \in 0..2
  /\ \A p \in Side : ClaimWaits(p) \in 0..2 /\ ClaimWaits(p)' \in 0..2
<1>1. RefundWaits \in 0..2 /\ RefundWaits' \in 0..2
  BY DEF RefundWaits, Count
<1>2. \A p \in Side : ClaimWaits(p) \in 0..2 /\ ClaimWaits(p)' \in 0..2
  BY DEF ClaimWaits, Count
<1> QED BY <1>1, <1>2

LEMMA FaultsPay ==
  ASSUME NEW k \in Nat, NEW i \in Nat, k <= i, NEW w \in 0..2, NEW v \in 0..2, v <= w \/ k < i
  PROVE  2 * k - w <= 2 * i - v
<1>1. w \in Int /\ v \in Int /\ 0 <= w /\ v <= 2
  OBVIOUS
<1>2. CASE v <= w
  BY <1>1, <1>2
<1>3. CASE k < i
  BY <1>1, <1>3
<1> QED BY <1>2, <1>3

(* The taker cannot have its HTLC back before the maker's is resolved.     *)
LEMMA TakerYoung ==
  ASSUME SwapInv, InTime(maker), MakerHolds, HasLock(maker), ~Resolved(maker)
  PROVE  HasLock(taker) /\ MyOut(taker).spend # "refund" /\ MyOut(taker).confs < TakerBlocks
<1>1. TypeOK /\ OutsOK
  BY DEF SwapInv
<1>2. HasLock(taker) /\ MyOut(taker).spend # "refund"
  BY DEF MakerHolds
<1>3. PICK t \in Nat, m \in 0..MakerBlocks + 1, l \in -MaxDrift..MaxDrift, k \in 0..setting.faults :
        t = MyOut(taker).confs /\ m = MyOut(maker).confs /\ l = lead /\ k = faults
  <2>1. MyOut(maker).confs \in 0..MakerBlocks + 1
    BY <1>1, Peers, OutTypes, TimeTypes DEF MakerBlocks
  <2> QED BY <1>1, <1>2, <2>1, Peers, OutTypes DEF TypeOK
<1>4. setting.faults \in Nat /\ EnoughTime(maker, setting.faults)
  BY <1>1, SettingTypes DEF InTime
<1>5. CASE MyOut(maker).mined
  <2>1. PICK w \in Nat : w = ClaimWaits(maker)
    BY WaitTypes, Peers
  <2>2. Late(t, k, w)
    BY <1>3, <1>5, <2>1 DEF MakerHolds
  <2> QED BY <1>2, <1>3, <1>4, <2>2, LateYoung
<1>6. CASE ~MyOut(maker).mined
  <2>1. PICK w \in Nat : w = RefundWaits
    BY WaitTypes
  <2>2. Early(t, m, l, k, w)
    BY <1>3, <1>6, <2>1 DEF MakerHolds
  <2> QED BY <1>2, <1>3, <1>4, <2>2, EarlyYoung
<1> QED BY <1>5, <1>6

LEMMA TakerYoungToo ==
  ASSUME SwapInv, InTime(maker), MakerFunds, at[maker] = "funding"
  PROVE  HasLock(taker) /\ MyOut(taker).spend # "refund" /\ MyOut(taker).confs < TakerBlocks
<1>1. TypeOK /\ OutsOK
  BY DEF SwapInv
<1>2. HasLock(taker) /\ MyOut(taker).spend # "refund"
      /\ Funds(MyOut(taker).confs, lead, maker \in due)
  BY DEF MakerFunds
<1>3. PICK t \in Nat, l \in -MaxDrift..MaxDrift, o \in BOOLEAN :
        t = MyOut(taker).confs /\ l = lead /\ o = (maker \in due)
  <2>1. MyOut(taker).confs \in Nat /\ lead \in -MaxDrift..MaxDrift
    BY <1>1, <1>2, Peers, OutTypes DEF TypeOK
  <2>2. (maker \in due) \in BOOLEAN
    OBVIOUS
  <2> QED BY <2>1, <2>2
<1>4. setting.faults \in Nat /\ EnoughTime(maker, setting.faults)
  BY <1>1, SettingTypes DEF InTime
<1> QED BY <1>2, <1>3, <1>4, FundsYoung

(* What a step leaves of the ages of the HTLCs.                            *)
SameAges ==
  \A p \in Side : HasLock(p) =>
    /\ HasLock(p)'
    /\ MyOut(p)'.confs = MyOut(p).confs /\ MyOut(p)'.mined = MyOut(p).mined

(* No refund of the taker's HTLC that it is too young for.                 *)
OldRefund ==
  HasLock(taker) /\ MyOut(taker)'.spend = "refund" =>
    MyOut(taker).spend = "refund" \/ MyOut(taker).confs >= TakerBlocks

LEMMA HoldsKept ==
  ASSUME SwapInv, InTime(maker), MakerHolds, UNCHANGED <<lead, setting>>, Grows, SameAges,
         HasLock(maker)' => HasLock(maker), faults' \in Nat, faults <= faults', OldRefund,
         HasLock(maker) /\ ~Resolved(maker) =>
           IF MyOut(maker).mined
             THEN 2 * faults - ClaimWaits(maker) <= 2 * faults' - ClaimWaits(maker)'
             ELSE MyOut(maker).confs = MakerBlocks + 1 =>
                    2 * faults - RefundWaits <= 2 * faults' - RefundWaits'
  PROVE  MakerHolds'
<1> SUFFICES ASSUME HasLock(maker)', ~Resolved(maker)'
             PROVE  /\ HasLock(taker)' /\ MyOut(taker)'.spend # "refund"
                    /\ IF MyOut(maker)'.mined
                         THEN Late(MyOut(taker)'.confs, faults', ClaimWaits(maker)')
                         ELSE Early(MyOut(taker)'.confs, MyOut(maker)'.confs, lead', faults',
                                    RefundWaits')
  BY DEF MakerHolds, Early, Late, FundingAge, MakerSeconds, TakerSeconds, MakerBlocks, TakerBlocks
<1>1. TypeOK /\ OutsOK /\ HasLock(maker) /\ ~Resolved(maker)
  BY Peers, ResolvedStays DEF SwapInv
<1>2. HasLock(taker) /\ MyOut(taker).spend # "refund" /\ MyOut(taker).confs < TakerBlocks
  BY <1>1, TakerYoung
<1>3. HasLock(taker)' /\ MyOut(taker)'.confs = MyOut(taker).confs
      /\ MyOut(maker)'.confs = MyOut(maker).confs /\ MyOut(maker)'.mined = MyOut(maker).mined
  BY <1>1, <1>2, Peers DEF SameAges
<1>4. MyOut(taker)'.spend # "refund"
  <2>1. MyOut(taker).confs \in Nat
    BY <1>1, <1>2, Peers, OutTypes
  <2> QED BY <1>2, <2>1, TimeTypes DEF OldRefund
<1>5. PICK t \in Nat, m \in Nat, l \in Int, k \in Nat, i \in Nat :
        t = MyOut(taker).confs /\ m = MyOut(maker).confs /\ l = lead /\ k = faults /\ i = faults'
  BY <1>1, <1>2, Peers, OutTypes, TimeTypes, SettingTypes DEF TypeOK
<1>6. CASE MyOut(maker).mined
  <2>1. PICK w \in Nat, v \in Nat : w = ClaimWaits(maker) /\ v = ClaimWaits(maker)'
    BY WaitTypes, Peers
  <2>2. Late(t, k, w)
    BY <1>1, <1>5, <1>6, <2>1 DEF MakerHolds
  <2>3. 2 * k - w <= 2 * i - v /\ k <= i
    BY <1>1, <1>5, <1>6, <2>1
  <2>4. Late(t, i, v)
    BY <2>2, <2>3, LateMore
  <2> QED BY <1>3, <1>4, <1>5, <1>6, <2>1, <2>4
<1>7. CASE ~MyOut(maker).mined
  <2>1. PICK w \in Nat, v \in Nat : w = RefundWaits /\ v = RefundWaits'
    BY WaitTypes
  <2>2. Early(t, m, l, k, w)
    BY <1>1, <1>5, <1>7, <2>1 DEF MakerHolds
  <2>3. m = MakerBlocks + 1 => 2 * k - w <= 2 * i - v
    BY <1>1, <1>5, <1>7, <2>1
  <2>4. Early(t, m, l, i, v)
    BY <2>2, <2>3, EarlyMore
  <2> QED BY <1>3, <1>4, <1>5, <1>7, <2>1, <2>4
<1> QED BY <1>6, <1>7

(* A party in the midst of a pass with its HTLC.                           *)
LEMMA AtHas ==
  ASSUME SwapInv, NEW p \in Side, at[p] \in {"funded", "claiming", "refunding"}
  PROVE  HasLock(p)
<1>1. TypeOK /\ OutsOK /\ StepOK(p)
  BY DEF SwapInv
<1>2. CASE at[p] = "funded"
  BY <1>1, <1>2 DEF StepOK
<1>3. CASE at[p] \in {"claiming", "refunding"}
  <2>1. side[p] # None /\ side[p].myLock # 0 /\ side[p] \in SideRecord
    BY <1>1, <1>3 DEF StepOK, TypeOK
  <2> QED BY <1>1, <2>1, KnownHas, FitsSides
<1> QED BY <1>2, <1>3

-----------------------------------------------------------------------------
(* The maker, while others act.                                            *)

SameLocal(p) ==
  /\ side'[p] = side[p] /\ disk'[p] = disk[p] /\ at'[p] = at[p] /\ seen'[p] = seen[p]
  /\ p \in due' <=> p \in due

(* A spend that is lost is a fault.                                        *)
SpendsStay ==
  \A p \in Side : HasLock(p) /\ MyOut(p).spend # "none" =>
    (MyOut(p)'.spend # "none" \/ faults < faults')

LEMMA MakerAside ==
  ASSUME SwapInv, MakerInTime, UNCHANGED <<lead, setting>>, SameLocal(maker), Grows, SameAges,
         HasLock(maker)' => HasLock(maker), faults' \in Nat, faults <= faults',
         SpendsStay, OldRefund
  PROVE  MakerInTime'
<1> SUFFICES ASSUME InTime(maker)'
             PROVE  (MakerFunds /\ MakerHolds /\ MakerReads
                     /\ MakerKnows(side[maker]) /\ MakerKnows(disk[maker]))'
  BY DEF MakerInTime
<1>1. InTime(maker)
  BY DEF InTime, EnoughTime, MakerSeconds, TakerSeconds, claimSafetyBlocks
<1>2. /\ MakerFunds /\ MakerHolds /\ MakerReads
      /\ MakerKnows(side[maker]) /\ MakerKnows(disk[maker])
  BY <1>1 DEF MakerInTime
<1>3. TypeOK /\ OutsOK /\ faults \in Nat
  BY SettingTypes DEF SwapInv
<1>4. MakerFunds'
  <2> SUFFICES ASSUME at'[maker] = "funding"
               PROVE  /\ HasLock(taker)' /\ MyOut(taker)'.spend # "refund"
                      /\ Funds(MyOut(taker)'.confs, lead', maker \in due')
    BY DEF MakerFunds, Funds, FundingAge, MakerSeconds, TakerSeconds, MakerBlocks, TakerBlocks
  <2>1. at[maker] = "funding"
    BY DEF SameLocal
  <2>2. HasLock(taker) /\ MyOut(taker).spend # "refund" /\ MyOut(taker).confs < TakerBlocks
    BY <1>1, <1>2, <2>1, TakerYoungToo
  <2>3. HasLock(taker)' /\ MyOut(taker)'.confs = MyOut(taker).confs
    BY <2>2, Peers DEF SameAges
  <2>4. MyOut(taker)'.spend # "refund"
    <3>1. MyOut(taker).confs \in Nat
      BY <1>3, <2>2, Peers, OutTypes
    <3> QED BY <2>2, <3>1, TimeTypes DEF OldRefund
  <2>5. Funds(MyOut(taker).confs, lead, maker \in due)
    BY <1>2, <2>1 DEF MakerFunds
  <2>6. (maker \in due') = (maker \in due) /\ lead' = lead
    BY DEF SameLocal
  <2> QED BY <2>3, <2>4, <2>5, <2>6
<1>5. MakerHolds'
  <2>1. ASSUME HasLock(maker), ~Resolved(maker)
        PROVE  /\ 2 * faults - ClaimWaits(maker) <= 2 * faults' - ClaimWaits(maker)'
               /\ 2 * faults - RefundWaits <= 2 * faults' - RefundWaits'
    <3>1. HasLock(taker)
      BY <1>1, <1>2, <2>1, TakerYoung
    <3>2. PICK w \in 0..2, v \in 0..2 : w = ClaimWaits(maker) /\ v = ClaimWaits(maker)'
      BY WaitTypes, Peers
    <3>3. PICK x \in 0..2, y \in 0..2 : x = RefundWaits /\ y = RefundWaits'
      BY WaitTypes
    <3>4. v <= w \/ faults < faults'
      BY <3>1, <3>2, Peers DEF ClaimWaits, SpendsStay, SameLocal
    <3>5. y <= x \/ faults < faults'
      BY <2>1, <3>3, Peers DEF RefundWaits, SpendsStay, SameLocal
    <3>6. PICK k \in Nat, i \in Nat : k = faults /\ i = faults' /\ k <= i
      BY <1>3
    <3>7. (v <= w \/ k < i) /\ (y <= x \/ k < i)
      BY <3>4, <3>5, <3>6
    <3>8. 2 * k - w <= 2 * i - v /\ 2 * k - x <= 2 * i - y
      BY <3>6, <3>7, FaultsPay
    <3> QED BY <3>2, <3>3, <3>6, <3>8
  <2> QED BY <1>1, <1>2, <2>1, HoldsKept
<1>6. MakerReads'
  <2>1. at[maker] \in {"funded", "claiming"} => MyOut(maker)'.confs = MyOut(maker).confs
    BY AtHas, Peers DEF SameAges
  <2>2. Resolved(maker) => Resolved(maker)'
    BY ResolvedStays, Peers
  <2>3. (maker \in due') = (maker \in due)
    BY DEF SameLocal
  <2>4. at'[maker] = at[maker] /\ seen'[maker] = seen[maker]
    BY DEF SameLocal
  <2> QED BY <1>2, <2>1, <2>2, <2>3, <2>4 DEF MakerReads, Count
<1>7. MakerKnows(side[maker])' /\ MakerKnows(disk[maker])'
  <2>1. HasLock(maker)' /\ ~Resolved(maker)' => HasLock(maker) /\ ~Resolved(maker)
    BY ResolvedStays, Peers
  <2> QED BY <1>2, <2>1 DEF MakerKnows, SameLocal
<1> QED BY <1>4, <1>5, <1>6, <1>7

-----------------------------------------------------------------------------
(* The taker, while others act.                                            *)

(* The maker cannot have its HTLC back before the taker's claim is mined.  *)
LEMMA MakerYoung ==
  ASSUME SwapInv, InTime(taker), TakerHolds, Claims(side[taker]) \/ Claims(disk[taker]),
         ~Resolved(taker)
  PROVE  HasLock(maker) /\ MyOut(maker).spend # "refund" /\ MyOut(maker).confs < MakerBlocks
<1>1. TypeOK /\ OutsOK
  BY DEF SwapInv
<1>2. HasLock(maker) /\ MyOut(maker).spend # "refund"
      /\ Young(MyOut(maker).confs, faults, ClaimWaits(taker))
  BY DEF TakerHolds
<1>3. PICK m \in Nat, k \in Nat, n \in Nat, w \in 0..2 :
        /\ m = MyOut(maker).confs /\ k = faults /\ n = setting.faults /\ k <= n
        /\ w = ClaimWaits(taker)
  <2>1. MyOut(maker).confs \in Nat /\ ClaimWaits(taker) \in 0..2
    BY <1>1, <1>2, Peers, OutTypes, WaitTypes
  <2>2. faults \in Nat /\ setting.faults \in Nat /\ faults \in 0..setting.faults
    BY <1>1, SettingTypes DEF TypeOK
  <2>3. faults <= setting.faults
    BY <2>2
  <2> QED BY <2>1, <2>2, <2>3
<1>4. claimSafetyBlocks \in Int /\ claimSafetyBlocks >= 2 * n + 2
  <2>1. claimSafetyBlocks \in Int
    BY TimeTypes DEF claimSafetyBlocks, MakerBlocks
  <2> QED BY <1>3, <2>1, Peers DEF InTime, EnoughTime
<1>5. m <= MakerBlocks - claimSafetyBlocks + 1 + 2 * k - w
  BY <1>2, <1>3 DEF Young
<1>6. m < MakerBlocks
  <2>1. w \in Int /\ w >= 0
    BY <1>3
  <2> QED BY <1>3, <1>4, <1>5, <2>1, TimeTypes
<1> QED BY <1>2, <1>3, <1>6

(* No refund of the maker's HTLC that it is too young for.                 *)
OldMakerRefund ==
  HasLock(maker) /\ MyOut(maker)'.spend = "refund" =>
    MyOut(maker).spend = "refund" \/ MyOut(maker).confs >= MakerBlocks

LEMMA YoungMore ==
  ASSUME NEW m \in Nat, NEW k \in Nat, NEW i \in Nat, NEW w \in 0..2, NEW v \in 0..2,
         Young(m, k, w), 2 * k - w <= 2 * i - v
  PROVE  Young(m, i, v)
<1>1. claimSafetyBlocks \in Int
  BY TimeTypes DEF claimSafetyBlocks, MakerBlocks
<1>2. m <= MakerBlocks - claimSafetyBlocks + 1 + 2 * k - w
  BY DEF Young
<1>3. w \in Int /\ v \in Int
  OBVIOUS
<1> QED BY <1>1, <1>2, <1>3, TimeTypes DEF Young

LEMMA TakerHoldsKept ==
  ASSUME SwapInv, InTime(taker), TakerHolds, UNCHANGED setting, Grows, SameAges,
         faults' \in Nat, faults <= faults', OldMakerRefund,
         Claims(side[taker])' \/ Claims(disk[taker])' =>
           Claims(side[taker]) \/ Claims(disk[taker]),
         ~Resolved(taker) => 2 * faults - ClaimWaits(taker) <= 2 * faults' - ClaimWaits(taker)'
  PROVE  TakerHolds'
<1> SUFFICES ASSUME Claims(side[taker])' \/ Claims(disk[taker])', ~Resolved(taker)'
             PROVE  /\ HasLock(maker)' /\ MyOut(maker)'.spend # "refund"
                    /\ Young(MyOut(maker)'.confs, faults', ClaimWaits(taker)')
  BY DEF TakerHolds, Young, claimSafetyBlocks, MakerBlocks
<1>1. TypeOK /\ OutsOK /\ ~Resolved(taker) /\ (Claims(side[taker]) \/ Claims(disk[taker]))
  BY Peers, ResolvedStays DEF SwapInv
<1>2. HasLock(maker) /\ MyOut(maker).spend # "refund" /\ MyOut(maker).confs < MakerBlocks
      /\ Young(MyOut(maker).confs, faults, ClaimWaits(taker))
  BY <1>1, MakerYoung DEF TakerHolds
<1>3. HasLock(maker)' /\ MyOut(maker)'.confs = MyOut(maker).confs
  BY <1>2, Peers DEF SameAges
<1>4. PICK m \in Nat, k \in Nat, i \in Nat, w \in 0..2, v \in 0..2 :
        /\ m = MyOut(maker).confs /\ k = faults /\ i = faults'
        /\ w = ClaimWaits(taker) /\ v = ClaimWaits(taker)'
  BY <1>1, <1>2, Peers, OutTypes, WaitTypes, SettingTypes
<1>5. MyOut(maker)'.spend # "refund"
  BY <1>2, <1>4, TimeTypes DEF OldMakerRefund
<1>6. Young(m, i, v)
  <2>1. 2 * k - w <= 2 * i - v
    BY <1>1, <1>4
  <2> QED BY <1>2, <1>4, <2>1, YoungMore
<1> QED BY <1>3, <1>4, <1>5, <1>6

LEMMA TakerAside ==
  ASSUME SwapInv, TakerInTime, UNCHANGED setting, SameLocal(taker), Grows, SameAges,
         faults' \in Nat, faults <= faults', SpendsStay, OldMakerRefund
  PROVE  TakerInTime'
<1> SUFFICES ASSUME InTime(taker)' PROVE TakerHolds'
  BY DEF TakerInTime
<1>1. InTime(taker)
  BY DEF InTime, EnoughTime, MakerSeconds, TakerSeconds, claimSafetyBlocks
<1>2. TakerHolds /\ faults \in Nat
  BY <1>1, SettingTypes DEF TakerInTime, SwapInv
<1>3. CASE ~(Claims(side[taker])' \/ Claims(disk[taker])')
  BY <1>3 DEF TakerHolds
<1>4. CASE (Claims(side[taker])' \/ Claims(disk[taker])') /\ ~Resolved(taker)
  <2>1. Claims(side[taker]) \/ Claims(disk[taker])
    BY <1>4 DEF Claims, SameLocal
  <2>2. HasLock(maker)
    BY <1>1, <1>2, <1>4, <2>1, MakerYoung
  <2>3. PICK w \in 0..2, v \in 0..2, k \in Nat, i \in Nat :
          /\ w = ClaimWaits(taker) /\ v = ClaimWaits(taker)' /\ k = faults /\ i = faults' /\ k <= i
    BY <1>2, WaitTypes, Peers
  <2>4. v <= w \/ k < i
    BY <2>2, <2>3, Peers DEF ClaimWaits, SpendsStay, SameLocal
  <2>5. 2 * k - w <= 2 * i - v
    BY <2>3, <2>4, FaultsPay
  <2> QED BY <1>1, <1>2, <2>1, <2>3, <2>5, TakerHoldsKept
<1>5. CASE Resolved(taker)
  <2>1. Resolved(taker)'
    BY <1>5, Peers, ResolvedStays
  <2> QED BY <2>1 DEF TakerHolds
<1> QED BY <1>3, <1>4, <1>5

-----------------------------------------------------------------------------
(* Steps beside the passes.                                                *)

(* The secret stays with those that have it.                               *)
LEMMA ToldKept ==
  ASSUME TakerTold, Grows, SameLocal(taker), Told' => Told
  PROVE  TakerTold'
<1> SUFFICES ASSUME Told'
             PROVE  HasLock(taker)' /\ \A s \in {side'[taker], disk'[taker]} : s # None => s.claim
  BY DEF TakerTold
<1>1. HasLock(taker) /\ \A s \in {side[taker], disk[taker]} : s # None => s.claim
  BY DEF TakerTold
<1> QED BY <1>1, Peers, LockStays DEF SameLocal

(* Nobody's pass moves.                                                    *)
LEMMA BesideKeeps ==
  ASSUME TimeInv, SwapInv', UNCHANGED <<side, disk, at, seen, due, lead, setting>>,
         Grows, SameAges, \A p \in Side : HasLock(p)' => HasLock(p),
         Fault \/ UNCHANGED faults,
         \A p \in Side : HasLock(p) =>
           (MyOut(p)'.spend = MyOut(p).spend \/ (MyOut(p)'.spend = "none" /\ Fault))
  PROVE  TimeInv'
<1>1. SwapInv /\ MakerInTime /\ TakerTold /\ TakerInTime
  BY DEF TimeInv
<1>2. faults \in Nat /\ faults' \in Nat /\ faults <= faults' /\ (Fault => faults < faults')
  BY <1>1, SettingTypes DEF Fault, SwapInv
<1>3. \A p \in Side : SameLocal(p)
  BY DEF SameLocal
<1>4. SpendsStay /\ OldRefund /\ OldMakerRefund
  BY <1>2, Peers DEF SpendsStay, OldRefund, OldMakerRefund
<1>5. MakerInTime'
  BY <1>1, <1>2, <1>3, <1>4, Peers, MakerAside
<1>6. TakerInTime'
  BY <1>1, <1>2, <1>3, <1>4, Peers, TakerAside
<1>7. Told' => Told
  BY Peers DEF Told, Claims
<1>8. TakerTold'
  BY <1>1, <1>3, <1>7, Peers, ToldKept
<1> QED BY <1>5, <1>6, <1>8 DEF TimeInv

LEMMA StillKeeps ==
  ASSUME TimeInv, SwapInv', UNCHANGED <<side, disk, at, seen, due, lead, outs, setting>>,
         Fault \/ UNCHANGED faults
  PROVE  TimeInv'
<1>1. OutsOK
  BY DEF TimeInv, SwapInv
<1>2. Grows /\ \A p \in Side : HasLock(p)' <=> HasLock(p)
  BY <1>1, SameOuts
<1>3. \A p \in Side : MyOut(p)' = MyOut(p)
  BY DEF MyOut
<1>4. SameAges
  BY <1>2, <1>3 DEF SameAges
<1> QED BY <1>2, <1>3, <1>4, BesideKeeps

LEMMA BoardTimes ==
  ASSUME TimeInv, SwapInv',
         \/ Anchor \/ (\E op \in flight : Certify(op))
         \/ \E p \in Side : GraceOver(p) \/ \E kind : Submit(p, kind)
  PROVE  TimeInv'
<1>1. Fault \/ UNCHANGED faults
  BY DEF Anchor, Certify, GraceOver, Submit, Fault
<1>2. UNCHANGED <<side, disk, at, seen, due, lead, outs, setting>>
  BY DEF Anchor, Certify, GraceOver, Submit, engine, chains, board
<1> QED BY <1>1, <1>2, StillKeeps

LEMMA EvictListTimes ==
  ASSUME TimeInv, SwapInv', NEW c \in Chains, NEW i, Evict(c, i) \/ List(c, i)
  PROVE  TimeInv'
<1>1. SwapInv
  BY DEF TimeInv
<1>2. UNCHANGED <<side, disk, at, seen, due, lead, setting>> /\ (Fault \/ UNCHANGED faults)
  BY DEF Evict, List, engine
<1>3. /\ outs[c] # <<>> /\ Grows /\ \A p \in Side : HasLock(p)' => HasLock(p)
      /\ \A d \in Chains : d # c => outs'[d] = outs[d]
      /\ outs'[c][1].confs = outs[c][1].confs /\ outs'[c][1].mined = outs[c][1].mined
      /\ \/ outs'[c][1].spend = outs[c][1].spend
         \/ outs'[c][1].spend = "none" /\ Fault
  BY <1>1, EvictListOut
<1>4. ASSUME NEW p \in Side, HasLock(p)
      PROVE  /\ HasLock(p)' /\ MyOut(p)'.confs = MyOut(p).confs /\ MyOut(p)'.mined = MyOut(p).mined
             /\ MyOut(p)'.spend = MyOut(p).spend \/ (MyOut(p)'.spend = "none" /\ Fault)
  <2>1. MyChain(p) \in Chains
    BY SideChains
  <2>2. HasLock(p)'
    BY <1>3, <1>4, LockStays
  <2> QED BY <1>3, <2>1, <2>2 DEF MyOut
<1>5. SameAges
  BY <1>4 DEF SameAges
<1> QED BY <1>2, <1>3, <1>4, <1>5, BesideKeeps

-----------------------------------------------------------------------------
(* Blocks.                                                                 *)

LEMMA BlockFacts ==
  ASSUME SwapInv, NEW c \in Chains, Block(c)
  PROVE  /\ UNCHANGED <<side, disk, at, seen, faults, setting>> /\ due' = setting.vigilant
         /\ Grows /\ \A p \in Side : HasLock(p)' <=> HasLock(p)
         /\ \A p \in due : side[p] = None
         /\ c = TakerChain => lead' = lead + TakerSeconds /\ MyOut(maker)' = MyOut(maker)
         /\ c = MakerChain => lead' = lead - MakerSeconds /\ MyOut(taker)' = MyOut(taker)
         /\ \A p \in Side : MyChain(p) = c /\ HasLock(p) =>
              /\ MyOut(p)'.spend = MyOut(p).spend
              /\ MyOut(p)'.mined = (MyOut(p).spend # "none")
              /\ MyOut(p)'.confs = IF MyOut(p).confs < RefundBlocks[c] + 1
                                     THEN MyOut(p).confs + 1 ELSE MyOut(p).confs
<1>1. UNCHANGED <<side, disk, at, seen, faults, setting>> /\ due' = setting.vigilant
  BY DEF Block, engine
<1>2. /\ Grows /\ \A p \in Side : HasLock(p)' => HasLock(p)
      /\ \A d \in Chains : d # c => outs'[d] = outs[d]
      /\ outs[c] # <<>> =>
           /\ outs'[c][1].spend = outs[c][1].spend
           /\ outs'[c][1].mined = (outs[c][1].spend # "none")
           /\ outs'[c][1].confs = IF outs[c][1].confs < Deepest[c]
                                    THEN outs[c][1].confs + 1 ELSE outs[c][1].confs
  BY BlockOut
<1>3. \A p \in Side : HasLock(p)' <=> HasLock(p)
  BY <1>2, LockStays
<1>4. \A p \in due : side[p] = None
  BY DEF Block
<1>5. TakerChain \in Chains /\ MakerChain \in Chains /\ TakerChain # MakerChain
  BY SwapAssumption DEF Chains
<1>6. c = TakerChain => lead' = lead + TakerSeconds /\ MyOut(maker)' = MyOut(maker)
  BY <1>2, <1>5, Peers DEF Block, TakerSeconds, MyOut
<1>7. c = MakerChain => lead' = lead - MakerSeconds /\ MyOut(taker)' = MyOut(taker)
  BY <1>2, <1>5, Peers DEF Block, MakerSeconds, MyOut
<1>8. \A p \in Side : MyChain(p) = c /\ HasLock(p) =>
        /\ MyOut(p)'.spend = MyOut(p).spend
        /\ MyOut(p)'.mined = (MyOut(p).spend # "none")
        /\ MyOut(p)'.confs = IF MyOut(p).confs < RefundBlocks[c] + 1
                               THEN MyOut(p).confs + 1 ELSE MyOut(p).confs
  BY <1>2, DeepestOK DEF MyOut, HasLock
<1> QED BY <1>1, <1>2, <1>3, <1>4, <1>6, <1>7, <1>8

(* A maker with an HTLC that is not resolved has made a pass before.       *)
LEMMA BlockHolds ==
  ASSUME SwapInv, InTime(maker), MakerHolds, MakerKnows(side[maker]),
         NEW c \in Chains, Block(c)
  PROVE  MakerHolds'
<1> SUFFICES ASSUME HasLock(maker)', ~Resolved(maker)'
             PROVE  /\ HasLock(taker)' /\ MyOut(taker)'.spend # "refund"
                    /\ IF MyOut(maker)'.mined
                         THEN Late(MyOut(taker)'.confs, faults', ClaimWaits(maker)')
                         ELSE Early(MyOut(taker)'.confs, MyOut(maker)'.confs, lead', faults',
                                    RefundWaits')
  BY DEF MakerHolds, Early, Late, FundingAge, MakerSeconds, TakerSeconds, MakerBlocks, TakerBlocks
<1>1. /\ UNCHANGED <<side, disk, at, seen, faults, setting>> /\ due' = setting.vigilant
      /\ Grows /\ \A p \in Side : HasLock(p)' <=> HasLock(p)
      /\ \A p \in due : side[p] = None
      /\ c = TakerChain => lead' = lead + TakerSeconds /\ MyOut(maker)' = MyOut(maker)
      /\ c = MakerChain => lead' = lead - MakerSeconds /\ MyOut(taker)' = MyOut(taker)
      /\ \A p \in Side : MyChain(p) = c /\ HasLock(p) =>
           /\ MyOut(p)'.spend = MyOut(p).spend
           /\ MyOut(p)'.mined = (MyOut(p).spend # "none")
           /\ MyOut(p)'.confs = IF MyOut(p).confs < RefundBlocks[c] + 1
                                  THEN MyOut(p).confs + 1 ELSE MyOut(p).confs
  BY BlockFacts
<1>2. TypeOK /\ OutsOK /\ HasLock(maker) /\ ~Resolved(maker)
  BY <1>1, Peers, ResolvedStays DEF SwapInv
<1>3. HasLock(taker) /\ MyOut(taker).spend # "refund" /\ MyOut(taker).confs < TakerBlocks
  BY <1>2, TakerYoung
<1>4. maker \notin due /\ maker \in due'
  BY <1>1, <1>2 DEF MakerKnows, InTime
<1>5. PICK t \in Nat, m \in 0..MakerBlocks + 1, l \in -MaxDrift..MaxDrift, k \in Nat :
        t = MyOut(taker).confs /\ m = MyOut(maker).confs /\ l = lead /\ k = faults
  <2>1. MyOut(maker).confs \in 0..MakerBlocks + 1
    BY <1>2, Peers, OutTypes, TimeTypes DEF MakerBlocks
  <2> QED BY <1>2, <1>3, <2>1, Peers, OutTypes, SettingTypes DEF TypeOK
<1>6. PICK w \in 0..2, v \in 0..2, x \in 0..2, y \in 0..2 :
        /\ w = ClaimWaits(maker) /\ v = ClaimWaits(maker)'
        /\ x = RefundWaits /\ y = RefundWaits'
  BY WaitTypes, Peers
<1>7. m \in Nat /\ m <= MakerBlocks + 1 /\ l \in Int /\ k \in Nat /\ k <= k
      /\ w \in Nat /\ v \in Nat /\ x \in Nat /\ y \in Nat
  BY <1>5, <1>6, TimeTypes
<1>8. IF MyOut(maker).mined THEN Late(t, k, w) ELSE Early(t, m, l, k, x)
  BY <1>2, <1>5, <1>6 DEF MakerHolds
<1>9. CASE c = TakerChain
  <2>1. /\ MyOut(taker)'.spend = MyOut(taker).spend /\ MyOut(maker)' = MyOut(maker)
        /\ MyOut(taker)'.mined = (MyOut(taker).spend # "none")
        /\ MyOut(taker)'.confs = t + 1 /\ lead' = l + TakerSeconds
    <3>1. t < RefundBlocks[c] + 1
      BY <1>3, <1>5, <1>9, TimeTypes DEF TakerBlocks
    <3> QED BY <1>1, <1>3, <1>5, <1>9, <3>1, Peers
  <2>2. MyOut(taker).spend = "none"
    <3>1. MyOut(taker).spend # "claim"
      BY <1>1, <1>3, <2>1, Peers DEF Resolved, Gone
    <3> QED BY <1>2, <1>3, <3>1, Peers, OutTypes
  <2>3. CASE MyOut(maker).mined
    <3>1. w = v + 1
      BY <1>1, <1>4, <1>6, <2>1, <2>2, Peers DEF ClaimWaits, Count
    <3>2. w > 0 /\ w - 1 = v
      BY <1>6, <3>1
    <3>3. Late(t + 1, k, v)
      BY <1>7, <1>8, <2>3, <3>2, LateBlock
    <3> QED BY <1>1, <1>3, <1>5, <1>6, <2>1, <2>2, <2>3, <3>3, Peers
  <2>4. CASE ~MyOut(maker).mined
    <3>1. y <= x
      BY <1>1, <1>4, <1>6, <2>1, Peers DEF RefundWaits, Count
    <3>2. 2 * k - x <= 2 * k - y
      BY <1>6, <1>7, <3>1, FaultsPay
    <3>3. Early(t + 1, m, l + TakerSeconds, k, x)
      BY <1>7, <1>8, <2>4, EarlyBlocks
    <3>4. t + 1 \in Nat /\ l + TakerSeconds \in Int
      BY <1>7, TimeTypes
    <3>5. Early(t + 1, m, l + TakerSeconds, k, y)
      BY <1>7, <3>2, <3>3, <3>4, EarlyMore
    <3> QED BY <1>1, <1>3, <1>5, <1>6, <2>1, <2>2, <2>4, <3>5, Peers
  <2> QED BY <2>3, <2>4
<1>10. CASE c = MakerChain
  <2>1. /\ MyOut(maker)'.spend = MyOut(maker).spend /\ MyOut(taker)' = MyOut(taker)
        /\ MyOut(maker)'.mined = (MyOut(maker).spend # "none")
        /\ MyOut(maker)'.confs = (IF m < MakerBlocks + 1 THEN m + 1 ELSE m)
        /\ lead' = l - MakerSeconds
    BY <1>1, <1>2, <1>5, <1>10, Peers DEF MakerBlocks
  <2>2. CASE MyOut(maker).spend # "none"
    <3>1. MyOut(maker)'.mined
      BY <2>1, <2>2
    <3>2. CASE MyOut(maker).mined
      <4>1. v <= w
        BY <1>1, <1>4, <1>6, <2>1, Peers DEF ClaimWaits, Count
      <4>2. 2 * k - w <= 2 * k - v
        BY <1>6, <1>7, <4>1
      <4>3. Late(t, k, v)
        BY <1>7, <1>8, <3>2, <4>2, LateMore
      <4> QED BY <1>1, <1>3, <1>5, <1>6, <2>1, <3>1, <4>3, Peers
    <3>3. CASE ~MyOut(maker).mined
      <4>1. v \in 0..1
        BY <1>4, <1>6 DEF ClaimWaits, Count
      <4>2. Late(t, k, v)
        BY <1>7, <1>8, <3>3, <4>1, EarlyLate
      <4> QED BY <1>1, <1>3, <1>5, <1>6, <2>1, <3>1, <4>2, Peers
    <3> QED BY <3>2, <3>3
  <2>3. CASE MyOut(maker).spend = "none"
    <3>1. ~MyOut(maker).mined /\ ~MyOut(maker)'.mined
      BY <1>2, <2>1, <2>3, Peers, OutTypes
    <3>2. y \in 0..1 /\ x = y + 1
      BY <1>1, <1>4, <1>6, <2>1, <2>3 DEF RefundWaits, Count
    <3>3. Early(t, MyOut(maker)'.confs, l - MakerSeconds, k, y)
      <4>1. CASE m <= MakerBlocks
        <5>1. m < MakerBlocks + 1
          BY <1>7, <4>1, TimeTypes
        <5>2. Early(t, m + 1, l - MakerSeconds, k, y)
          BY <1>7, <1>8, <3>1, <3>2, <4>1, EarlyBlocks
        <5> QED BY <2>1, <5>1, <5>2
      <4>2. CASE m = MakerBlocks + 1
        <5>1. x > 0 /\ x - 1 = y /\ ~(m < MakerBlocks + 1)
          <6>1. x = y + 1 /\ y \in Nat
            BY <1>7, <3>2
          <6>2. m \in Nat /\ m = MakerBlocks + 1
            BY <1>7, <4>2
          <6> HIDE <3>2
          <6> QED BY ONLY <6>1, <6>2
        <5>2. Early(t, m, l - MakerSeconds, k, y)
          BY <1>7, <1>8, <3>1, <4>2, <5>1, EarlyBlocks
        <5> QED BY <2>1, <5>1, <5>2
      <4> QED BY <1>7, <4>1, <4>2, TimeTypes
    <3> QED BY <1>1, <1>3, <1>5, <1>6, <2>1, <3>1, <3>3, Peers
  <2> QED BY <2>2, <2>3
<1> QED BY <1>9, <1>10 DEF Chains

LEMMA BlockMaker ==
  ASSUME SwapInv, MakerInTime, NEW c \in Chains, Block(c)
  PROVE  MakerInTime'
<1> SUFFICES ASSUME InTime(maker)'
             PROVE  (MakerFunds /\ MakerHolds /\ MakerReads
                     /\ MakerKnows(side[maker]) /\ MakerKnows(disk[maker]))'
  BY DEF MakerInTime
<1>1. /\ UNCHANGED <<side, disk, at, seen, faults, setting>> /\ due' = setting.vigilant
      /\ Grows /\ \A p \in Side : HasLock(p)' <=> HasLock(p)
      /\ \A p \in due : side[p] = None
      /\ c = TakerChain => lead' = lead + TakerSeconds /\ MyOut(maker)' = MyOut(maker)
      /\ c = MakerChain => lead' = lead - MakerSeconds /\ MyOut(taker)' = MyOut(taker)
      /\ \A p \in Side : MyChain(p) = c /\ HasLock(p) =>
           /\ MyOut(p)'.spend = MyOut(p).spend
           /\ MyOut(p)'.mined = (MyOut(p).spend # "none")
           /\ MyOut(p)'.confs = IF MyOut(p).confs < RefundBlocks[c] + 1
                                  THEN MyOut(p).confs + 1 ELSE MyOut(p).confs
  BY BlockFacts
<1>2. InTime(maker)
  BY <1>1 DEF InTime, EnoughTime, MakerSeconds, TakerSeconds, claimSafetyBlocks
<1>3. /\ MakerFunds /\ MakerHolds /\ MakerReads
      /\ MakerKnows(side[maker]) /\ MakerKnows(disk[maker])
  BY <1>2 DEF MakerInTime
<1>4. TypeOK /\ OutsOK /\ StepOK(maker)
  BY Peers DEF SwapInv
<1>5. at[maker] # "idle" => maker \notin due /\ maker \in due'
  BY <1>1, <1>2, <1>4 DEF StepOK, InTime
<1>6. MakerFunds'
  <2> SUFFICES ASSUME at'[maker] = "funding"
               PROVE  /\ HasLock(taker)' /\ MyOut(taker)'.spend # "refund"
                      /\ Funds(MyOut(taker)'.confs, lead', maker \in due')
    BY DEF MakerFunds, Funds, FundingAge, MakerSeconds, TakerSeconds, MakerBlocks, TakerBlocks
  <2>1. at[maker] = "funding"
    BY <1>1
  <2>2. HasLock(taker) /\ MyOut(taker).spend # "refund" /\ MyOut(taker).confs < TakerBlocks
    BY <1>2, <1>3, <2>1, TakerYoungToo
  <2>3. PICK t \in Nat, l \in Int : t = MyOut(taker).confs /\ l = lead
    BY <1>4, <2>2, Peers, OutTypes, TimeTypes DEF TypeOK
  <2>4. Funds(t, l, maker \in due) /\ (maker \in due) = FALSE /\ (maker \in due') = TRUE
    BY <1>3, <1>5, <2>1, <2>3 DEF MakerFunds
  <2>5. Funds(t + 1, l + TakerSeconds, TRUE) /\ Funds(t, l - MakerSeconds, TRUE)
    BY <2>3, <2>4, FundsBlocks
  <2>6. CASE c = TakerChain
    <3>1. t < RefundBlocks[c] + 1
      BY <2>2, <2>3, <2>6, TimeTypes DEF TakerBlocks
    <3>2. MyOut(taker)'.spend = MyOut(taker).spend /\ MyOut(taker)'.confs = t + 1
          /\ lead' = l + TakerSeconds
      BY <1>1, <2>2, <2>3, <2>6, <3>1, Peers
    <3> QED BY <1>1, <2>2, <2>4, <2>5, <3>2, Peers
  <2>7. CASE c = MakerChain
    BY <1>1, <2>2, <2>3, <2>4, <2>5, <2>7, Peers
  <2> QED BY <2>6, <2>7 DEF Chains
<1>7. MakerHolds'
  BY <1>2, <1>3, BlockHolds
<1>8. MakerReads'
  <2>1. HasLock(maker) =>
          /\ MyOut(maker).confs \in Nat /\ MyOut(maker)'.confs \in Nat
          /\ MyOut(maker)'.confs <= MyOut(maker).confs + 1
    <3> SUFFICES ASSUME HasLock(maker)
                 PROVE  /\ MyOut(maker).confs \in Nat /\ MyOut(maker)'.confs \in Nat
                        /\ MyOut(maker)'.confs <= MyOut(maker).confs + 1
      OBVIOUS
    <3>1. MyOut(maker).confs \in Nat
      BY <1>4, Peers, OutTypes
    <3> QED BY <1>1, <3>1, Peers DEF Chains
  <2>2. at[maker] = "funded" => MyOut(maker)'.confs <= Count(maker \in due')
    <3> SUFFICES ASSUME at[maker] = "funded"
                 PROVE  MyOut(maker)'.confs <= Count(maker \in due')
      OBVIOUS
    <3>1. HasLock(maker) /\ MyOut(maker).confs <= Count(maker \in due)
      BY <1>3, AtHas, Peers DEF MakerReads
    <3>2. Count(maker \in due) = 0 /\ Count(maker \in due') = 1
      BY <1>5 DEF Count
    <3> QED BY <2>1, <3>1, <3>2
  <2>3. at[maker] = "claiming" =>
          /\ 1 \in DOMAIN seen[maker].mine
          /\ MyOut(maker)'.confs <= seen[maker].mine[1].confs + Count(maker \in due')
    <3> SUFFICES ASSUME at[maker] = "claiming"
                 PROVE  /\ 1 \in DOMAIN seen[maker].mine
                        /\ MyOut(maker)'.confs <= seen[maker].mine[1].confs + Count(maker \in due')
      OBVIOUS
    <3>1. /\ HasLock(maker) /\ 1 \in DOMAIN seen[maker].mine
          /\ MyOut(maker).confs <= seen[maker].mine[1].confs + Count(maker \in due)
      BY <1>3, AtHas, Peers DEF MakerReads
    <3>2. Count(maker \in due) = 0 /\ Count(maker \in due') = 1
      BY <1>5 DEF Count
    <3>3. seen[maker].mine[1].confs \in Nat
      <4>1. SeenOK(maker)
        BY Peers DEF SwapInv
      <4>2. seen[maker].mine[1] \in Output(MakerChain)
        BY <3>1, <4>1, Peers DEF SeenOK, ReadOK, FoundOK
      <4> QED BY <4>2, TimeTypes DEF Output
    <3> QED BY <2>1, <3>1, <3>2, <3>3
  <2>4. Resolved(maker) => Resolved(maker)'
    BY <1>1, ResolvedStays, Peers
  <2> QED BY <1>1, <1>3, <2>2, <2>3, <2>4 DEF MakerReads
<1>9. MakerKnows(side[maker])' /\ MakerKnows(disk[maker])'
  <2>1. HasLock(maker)' /\ ~Resolved(maker)' => HasLock(maker) /\ ~Resolved(maker)
    BY <1>1, ResolvedStays, Peers
  <2> QED BY <1>1, <1>3, <2>1 DEF MakerKnows
<1> QED BY <1>6, <1>7, <1>8, <1>9

LEMMA BlockTaker ==
  ASSUME SwapInv, TakerInTime, NEW c \in Chains, Block(c)
  PROVE  TakerInTime'
<1> SUFFICES ASSUME InTime(taker)', Claims(side[taker])' \/ Claims(disk[taker])',
                    ~Resolved(taker)'
             PROVE  /\ HasLock(maker)' /\ MyOut(maker)'.spend # "refund"
                    /\ Young(MyOut(maker)'.confs, faults', ClaimWaits(taker)')
  BY DEF TakerInTime, TakerHolds, Young, claimSafetyBlocks, MakerBlocks
<1>1. /\ UNCHANGED <<side, disk, at, seen, faults, setting>> /\ due' = setting.vigilant
      /\ Grows /\ \A p \in Side : HasLock(p)' <=> HasLock(p)
      /\ \A p \in due : side[p] = None
      /\ c = TakerChain => MyOut(maker)' = MyOut(maker)
      /\ \A p \in Side : MyChain(p) = c /\ HasLock(p) =>
           /\ MyOut(p)'.spend = MyOut(p).spend
           /\ MyOut(p)'.mined = (MyOut(p).spend # "none")
           /\ MyOut(p)'.confs = IF MyOut(p).confs < RefundBlocks[c] + 1
                                  THEN MyOut(p).confs + 1 ELSE MyOut(p).confs
  BY BlockFacts
<1>2. InTime(taker) /\ ~Resolved(taker) /\ (Claims(side[taker]) \/ Claims(disk[taker]))
  BY <1>1, Peers, ResolvedStays
     DEF InTime, EnoughTime, MakerSeconds, TakerSeconds, claimSafetyBlocks, Claims
<1>3. TypeOK /\ OutsOK /\ StepOK(taker) /\ TakerHolds
  BY <1>2, Peers DEF SwapInv, TakerInTime
<1>4. HasLock(maker) /\ MyOut(maker).spend # "refund" /\ MyOut(maker).confs < MakerBlocks
      /\ Young(MyOut(maker).confs, faults, ClaimWaits(taker))
  BY <1>2, <1>3, MakerYoung DEF TakerHolds
<1>5. taker \notin due /\ taker \in due'
  <2>1. side[taker] # None
    BY <1>2, <1>3 DEF StepOK, Claims
  <2> QED BY <1>1, <1>2, <2>1 DEF InTime
<1>6. PICK m \in Nat, k \in Nat, w \in 0..2, v \in 0..2 :
        /\ m = MyOut(maker).confs /\ k = faults
        /\ w = ClaimWaits(taker) /\ v = ClaimWaits(taker)'
  BY <1>3, <1>4, Peers, OutTypes, WaitTypes, SettingTypes
<1>7. Young(m, k, w) /\ m < MakerBlocks
  BY <1>4, <1>6
<1>8. CASE c = TakerChain
  <2>1. v <= w
    BY <1>1, <1>5, <1>6, <1>8, Peers DEF ClaimWaits, Count
  <2>2. 2 * k - w <= 2 * k - v
    BY <1>6, <2>1, FaultsPay
  <2>3. Young(m, k, v)
    BY <1>6, <1>7, <2>2, YoungMore
  <2> QED BY <1>1, <1>4, <1>6, <1>8, <2>3, Peers
<1>9. CASE c = MakerChain
  <2>1. MyOut(maker)'.spend = MyOut(maker).spend /\ MyOut(maker)'.mined = (MyOut(maker).spend # "none")
    BY <1>1, <1>4, <1>9, Peers
  <2>2. MyOut(maker).spend = "none"
    <3>1. MyOut(maker).spend # "claim"
      BY <1>1, <1>4, <2>1, Peers DEF Resolved, Gone
    <3> QED BY <1>3, <1>4, <3>1, Peers, OutTypes
  <2>3. MyOut(maker)'.confs = m + 1
    <3>1. m < RefundBlocks[c] + 1
      BY <1>6, <1>7, <1>9, TimeTypes DEF MakerBlocks
    <3> QED BY <1>1, <1>4, <1>6, <1>9, <3>1, Peers
  <2>4. w = v + 1
    BY <1>1, <1>5, <1>6, <2>1, <2>2, Peers DEF ClaimWaits, Count
  <2>5. Young(m + 1, k, v)
    <3>1. w \in Int /\ v \in Int /\ claimSafetyBlocks \in Int
      BY <1>6, TimeTypes DEF claimSafetyBlocks, MakerBlocks
    <3>2. m <= MakerBlocks - claimSafetyBlocks + 1 + 2 * k - w
      BY <1>7 DEF Young
    <3>3. m + 1 <= MakerBlocks - claimSafetyBlocks + 1 + 2 * k - v
      BY <1>6, <2>4, <3>1, <3>2, TimeTypes
    <3> QED BY <3>3 DEF Young
  <2> QED BY <1>1, <1>4, <1>6, <2>1, <2>2, <2>3, <2>5, Peers
<1> QED BY <1>8, <1>9 DEF Chains

LEMMA BlockTimes ==
  ASSUME TimeInv, SwapInv', NEW c \in Chains, Block(c)
  PROVE  TimeInv'
<1>1. SwapInv /\ MakerInTime /\ TakerTold /\ TakerInTime
  BY DEF TimeInv
<1>2. MakerInTime' /\ TakerInTime'
  BY <1>1, BlockMaker, BlockTaker
<1>3. /\ UNCHANGED <<side, disk, at, seen, faults, setting>> /\ due' = setting.vigilant
      /\ Grows /\ \A p \in Side : HasLock(p)' <=> HasLock(p)
      /\ c = TakerChain => MyOut(maker)' = MyOut(maker)
      /\ c = MakerChain => MyOut(taker)' = MyOut(taker)
      /\ \A p \in Side : MyChain(p) = c /\ HasLock(p) => MyOut(p)'.spend = MyOut(p).spend
  BY <1>1, BlockFacts
<1>4. \A p \in Side : HasLock(p) => MyOut(p)'.spend = MyOut(p).spend
  BY <1>3, Peers DEF Chains
<1>5. Told' => Told
  BY <1>3, <1>4, Peers DEF Told, Claims
<1>6. TakerTold'
  <2>1. Told' => HasLock(taker)
               /\ \A s \in {side[taker], disk[taker]} : s # None => s.claim
    BY <1>1, <1>5 DEF TakerTold
  <2> QED BY <1>3, <2>1, Peers DEF TakerTold
<1> QED BY <1>2, <1>6 DEF TimeInv

-----------------------------------------------------------------------------
(* What a step of a party leaves of the other one.                         *)

Moves(p) ==
  /\ UNCHANGED <<lead, setting>> /\ (Fault \/ UNCHANGED faults)
  /\ \A q \in Side \ {p} : SameLocal(q)

OutsMove(p) ==
  /\ Grows /\ SameAges /\ (HasLock(Peer(p))' => HasLock(Peer(p)))
  /\ SpendsStay /\ OldRefund /\ OldMakerRefund
  /\ HasLock(p)' /\ MyOut(p)'.spend = "claim" => HasLock(p) /\ MyOut(p).spend = "claim"
  /\ HasLock(Peer(p))' /\ MyOut(Peer(p))'.spend = "claim" =>
       MyOut(Peer(p)).spend = "claim" \/ at[p] = "claiming"

(* Only p and its record move.                                             *)
Alone(p) == \A q \in Side \ {p} : SameLocal(q)

LEMMA EndAlone ==
  ASSUME SwapInv, NEW p \in Side, NEW s, NEW r, End(p, s, r)
  PROVE  /\ Alone(p) /\ due' = due \ {p} /\ at'[p] = "idle" /\ seen'[p] = Nothing
         /\ side'[p] = disk'[p] /\ (side'[p] = s \/ (side'[p] = None /\ s.stage \in Terminal))
<1>1. TypeOK /\ SeenOK(p)
  BY DEF SwapInv
<1>2. PICK kept : /\ kept = s \/ (kept = None /\ s.stage \in Terminal)
                  /\ side' = [side EXCEPT ![p] = kept] /\ disk' = [disk EXCEPT ![p] = kept]
                  /\ at' = [at EXCEPT ![p] = "idle"] /\ seen' = [seen EXCEPT ![p] = Nothing]
                  /\ due' = due \ {p}
  BY DEF End, Save, Hold
<1>3. /\ side \in [Side -> SideRecord \cup {None}] /\ disk \in [Side -> SideRecord \cup {None}]
      /\ at \in [Side -> {"idle", "scanned", "funding", "funded", "claiming", "refunding"}]
      /\ seen = [q \in Side |-> seen[q]]
  BY <1>1 DEF TypeOK, SeenOK
<1>4. side'[p] = kept /\ disk'[p] = kept /\ at'[p] = "idle" /\ seen'[p] = Nothing
  BY <1>2, <1>3
<1>5. ASSUME NEW q \in Side \ {p} PROVE SameLocal(q)
  BY <1>2, <1>3 DEF SameLocal
<1> QED BY <1>2, <1>4, <1>5 DEF Alone

LEMMA SendAlone ==
  ASSUME SwapInv, NEW p \in Side, NEW s, NEW step, NEW r, Hold(p, s),
         UNCHANGED disk \/ disk' = [disk EXCEPT ![p] = s], Await(p, step, r)
  PROVE  /\ Alone(p) /\ due' = due /\ at'[p] = step /\ seen'[p] = r
         /\ side'[p] = s /\ disk'[p] \in {s, disk[p]}
<1>1. TypeOK /\ SeenOK(p)
  BY DEF SwapInv
<1>2. /\ side' = [side EXCEPT ![p] = s] /\ at' = [at EXCEPT ![p] = step]
      /\ seen' = [seen EXCEPT ![p] = r] /\ due' = due
  BY DEF Hold, Await
<1>3. /\ side \in [Side -> SideRecord \cup {None}] /\ disk \in [Side -> SideRecord \cup {None}]
      /\ at \in [Side -> {"idle", "scanned", "funding", "funded", "claiming", "refunding"}]
      /\ seen = [q \in Side |-> seen[q]]
  BY <1>1 DEF TypeOK, SeenOK
<1>4. side'[p] = s /\ disk'[p] \in {s, disk[p]} /\ at'[p] = step /\ seen'[p] = r
  BY <1>2, <1>3
<1>5. ASSUME NEW q \in Side \ {p} PROVE SameLocal(q)
  BY <1>2, <1>3 DEF SameLocal
<1> QED BY <1>2, <1>4, <1>5 DEF Alone

(* A record that differs in what the pass has learnt.                      *)
Same(s, t) ==
  /\ t # None /\ t.stage = s.stage /\ t.myLock = s.myLock /\ t.claim = s.claim

(* maybeRefund goes on to send the refund, or the pass is over.            *)
LEMMA RefundOrEndDoes ==
  ASSUME SwapInv, NEW p \in Side, NEW s \in SideRecord, NEW r, RefundOrEnd(p, s, r)
  PROVE  /\ Alone(p)
         /\ \/ /\ SpentBy(r.mine, s.myLock) = "none"
               /\ due' = due /\ at'[p] = "refunding" /\ seen'[p] = r
               /\ Same(s, side'[p]) /\ (disk'[p] = disk[p] \/ Same(s, disk'[p]))
            \/ /\ ~(/\ SpentBy(r.mine, s.myLock) = "none"
                    /\ r.mine[s.myLock].confs >= RefundBlocks[MyChain(p)])
               /\ due' = due \ {p} /\ at'[p] = "idle" /\ seen'[p] = Nothing
               /\ side'[p] = disk'[p] /\ (side'[p] # None => side'[p].claim = s.claim)
               /\ \/ StageOf(p, s, r.mine, r.theirs) \in Terminal
                  \/ side'[p] # None /\ side'[p].stage = "active"
<1>1. CASE /\ SpentBy(r.mine, s.myLock) = "none"
           /\ Hold(p, s) /\ UNCHANGED disk /\ Await(p, "refunding", r)
  <2>1. /\ Alone(p) /\ due' = due /\ at'[p] = "refunding" /\ seen'[p] = r /\ side'[p] = s
    BY <1>1, SendAlone
  <2>2. disk'[p] = disk[p] /\ Same(s, s)
    BY <1>1, NoneAssumption DEF Same
  <2> QED BY <1>1, <2>1, <2>2
<1>2. CASE /\ SpentBy(r.mine, s.myLock) = "none"
           /\ Save(p, [s EXCEPT !.refund = TRUE]) /\ Await(p, "refunding", r)
  <2>1. PICK t : t = [s EXCEPT !.refund = TRUE]
    OBVIOUS
  <2>2. t \in SideRecord /\ t.stage = s.stage /\ t.myLock = s.myLock /\ t.claim = s.claim
    BY <2>1 DEF SideRecord
  <2>3. Same(s, t)
    BY <2>2, NoneAssumption DEF Same
  <2>4. Hold(p, t) /\ disk' = [disk EXCEPT ![p] = t] /\ Await(p, "refunding", r)
    BY <1>2, <2>1 DEF Save
  <2>5. /\ Alone(p) /\ due' = due /\ at'[p] = "refunding" /\ seen'[p] = r
        /\ side'[p] = t /\ disk'[p] \in {t, disk[p]}
    BY <2>4, SendAlone
  <2> QED BY <1>2, <2>3, <2>5
<1>3. CASE /\ ~(/\ SpentBy(r.mine, s.myLock) = "none"
                /\ r.mine[s.myLock].confs >= RefundBlocks[MyChain(p)])
           /\ Finish(p, s, r, StageOf(p, s, r.mine, r.theirs))
  <2>1. PICK stage : stage = StageOf(p, s, r.mine, r.theirs)
    OBVIOUS
  <2>2. stage \in Terminal \/ stage = "active"
    BY <2>1 DEF StageOf, Terminal
  <2>3. PICK t : t = [s EXCEPT !.stage = stage]
    OBVIOUS
  <2>4. t \in SideRecord /\ t.stage = stage /\ t.claim = s.claim
    BY <2>2, <2>3 DEF SideRecord
  <2>5. End(p, t, r)
    BY <1>3, <2>1, <2>3 DEF Finish
  <2>6. /\ Alone(p) /\ due' = due \ {p} /\ at'[p] = "idle" /\ seen'[p] = Nothing
        /\ side'[p] = disk'[p] /\ (side'[p] = t \/ (side'[p] = None /\ t.stage \in Terminal))
    BY <2>5, EndAlone
  <2> QED BY <1>3, <2>1, <2>2, <2>4, <2>6, NoneAssumption
<1>4. \/ /\ SpentBy(r.mine, s.myLock) = "none"
         /\ Hold(p, s) /\ UNCHANGED disk /\ Await(p, "refunding", r)
      \/ /\ SpentBy(r.mine, s.myLock) = "none"
         /\ Save(p, [s EXCEPT !.refund = TRUE]) /\ Await(p, "refunding", r)
      \/ /\ ~(/\ SpentBy(r.mine, s.myLock) = "none"
              /\ r.mine[s.myLock].confs >= RefundBlocks[MyChain(p)])
         /\ Finish(p, s, r, StageOf(p, s, r.mine, r.theirs))
  <2>1. PICK n, e : /\ n = (SpentBy(r.mine, s.myLock) = "none")
                    /\ e = (n /\ r.mine[s.myLock].confs >= RefundBlocks[MyChain(p)])
    OBVIOUS
  <2>2. s.refund \in BOOLEAN /\ n \in BOOLEAN /\ e \in BOOLEAN
    BY <2>1 DEF SideRecord
  <2>3. CASE n /\ s.refund
    BY <2>1, <2>3 DEF RefundOrEnd
  <2>4. CASE e /\ ~s.refund
    BY <2>1, <2>4 DEF RefundOrEnd
  <2>5. CASE ~(n /\ s.refund) /\ ~(e /\ ~s.refund)
    <3>1. ~e
      BY <2>1, <2>2, <2>5
    <3>2. Finish(p, s, r, StageOf(p, s, r.mine, r.theirs))
      BY <2>1, <2>5 DEF RefundOrEnd
    <3> QED BY <2>1, <3>1, <3>2
  <2> QED BY <2>3, <2>4, <2>5
<1> QED BY <1>1, <1>2, <1>3, <1>4

(* The HTLC of q is there for all to see, and unspent.                     *)
Unspent(q) == HasLock(q) /\ MyOut(q).listed /\ MyOut(q).spend = "none"

(* A pass that goes on to claim the other HTLC.                            *)
Claiming(p, s, reading, r) ==
  /\ Unspent(Peer(p)) /\ Alone(p)
  /\ due' = due /\ at'[p] = "claiming" /\ seen'[p] = r
  /\ side'[p] # None /\ side'[p].stage = s.stage /\ side'[p].claim
  /\ \/ s.claim /\ disk'[p] = disk[p]
     \/ disk'[p] # None /\ disk'[p].stage = s.stage /\ disk'[p].claim
  /\ \/ s.claim
     \/ p = maker /\ SpentBy(reading.mine, 1) = "claim"
     \/ p = taker /\ MyOut(maker).confs <= MakerBlocks - claimSafetyBlocks

(* The other HTLC is claimed while it may be; otherwise see to the refund. *)
LEMMA WithLockDoes ==
  ASSUME SwapInv, NEW p \in Side, NEW s \in SideRecord, NEW reading, WithLock(p, s, reading),
         Fits(p, s), s.myLock = 1, s.claim => s.theirLock # 0, ReadOK(p, reading)
  PROVE  \E t, r :
           /\ t \in SideRecord /\ Same(s, t)
           /\ r.mine = reading.mine /\ r.theirs = scan(TheirChain(p)) /\ ReadOK(p, r)
           /\ \/ Claiming(p, s, reading, r)
              \/ /\ RefundOrEnd(p, t, r)
                 /\ Unspent(Peer(p)) =>
                      ~s.claim /\ ~(p = maker /\ SpentBy(reading.mine, 1) = "claim")
<1>1. TypeOK /\ OutsOK /\ TheirChain(p) \in Chains
      /\ MyChain(Peer(p)) = TheirChain(p)
  BY SideChains, PeerChain DEF SwapInv
<1>2. PICK theirs : theirs = scan(TheirChain(p))
  OBVIOUS
<1>3. /\ DOMAIN theirs = IF HasLock(Peer(p)) /\ MyOut(Peer(p)).listed THEN {1} ELSE {}
      /\ 1 \in DOMAIN theirs => theirs[1] = MyOut(Peer(p))
  BY <1>1, <1>2, ScanOK DEF HasLock, MyOut
<1>4. DOMAIN theirs \subseteq {1} /\ 0 \notin DOMAIN theirs
  BY <1>3
<1>5. PICK i : i = IF s.theirLock # 0 THEN s.theirLock ELSE pickExact(theirs, p = maker)
  OBVIOUS
<1>6. i \in {0, 1} /\ (1 \in DOMAIN theirs /\ theirs[1].spend = "none" => i = 1)
      /\ (s.theirLock # 0 => i = s.theirLock)
  <2>1. CASE s.theirLock # 0
    BY <1>1, <1>5, <2>1, KnownHas
  <2>2. CASE s.theirLock = 0
    <3>1. (p = maker) \in BOOLEAN
      OBVIOUS
    <3> QED BY <1>4, <1>5, <2>2, <3>1, PickOne
  <2> QED BY <2>1, <2>2
<1>7. SpentBy(theirs, i) = "none" <=> Unspent(Peer(p))
  BY <1>3, <1>4, <1>6 DEF SpentBy, Unspent
<1>8. PICK r : r = [reading EXCEPT !.theirs = theirs, !.hint = FALSE]
  OBVIOUS
<1>9. r.mine = reading.mine /\ r.theirs = theirs /\ ReadOK(p, r)
  <2>1. FoundOK(theirs, TheirChain(p))
    BY <1>1, <1>2, ScanOK
  <2> QED BY <1>8, <2>1 DEF ReadOK
<1>10. PICK t : t = IF p = maker THEN [s EXCEPT !.theirLock = i] ELSE s
  OBVIOUS
<1>11. i \in 0..MaxLocks
  <2>1. CASE s.theirLock # 0
    BY <1>6, <2>1 DEF SideRecord
  <2>2. CASE s.theirLock = 0
    <3>1. (p = maker) \in BOOLEAN
      OBVIOUS
    <3>2. i = 0 \/ 1 \in DOMAIN theirs
      BY <1>4, <1>5, <2>2, <3>1, PickOne
    <3>3. 1 \in DOMAIN theirs => MaxLocks >= 1
      BY <1>1, <1>3 DEF OutsOK, HasLock
    <3>4. MaxLocks \in Nat
      BY SwapAssumption
    <3> QED BY <1>6, <3>2, <3>3, <3>4
  <2> QED BY <2>1, <2>2
<1>12. t \in SideRecord /\ Same(s, t)
  BY <1>10, <1>11, NoneAssumption DEF SideRecord, Same
<1>13. \/ /\ SpentBy(theirs, i) = "none" /\ s.claim
          /\ Hold(p, t) /\ UNCHANGED disk /\ Await(p, "claiming", r)
       \/ /\ SpentBy(theirs, i) = "none" /\ Await(p, "claiming", r)
          /\ MayClaim(p, s, r, theirs[i])
          /\ Save(p, [t EXCEPT !.theirLock = i, !.claim = TRUE])
       \/ /\ SpentBy(theirs, i) = "none" =>
               ~s.claim /\ ~MayClaim(p, s, r, theirs[i])
          /\ RefundOrEnd(p, t, r)
  <2>1. PICK open, c, may : /\ open = (SpentBy(theirs, i) = "none") /\ c = s.claim
                            /\ may = MayClaim(p, s, r, theirs[i])
    OBVIOUS
  <2>2. open \in BOOLEAN /\ c \in BOOLEAN /\ may \in BOOLEAN
    BY <2>1 DEF SideRecord, MayClaim
  <2>3. CASE open /\ c
    BY <1>2, <1>5, <1>8, <1>10, <2>1, <2>3 DEF WithLock
  <2>4. CASE open /\ ~c /\ may
    BY <1>2, <1>5, <1>8, <1>10, <2>1, <2>4 DEF WithLock
  <2>5. CASE ~(open /\ c) /\ ~(open /\ ~c /\ may)
    <3>1. RefundOrEnd(p, t, r)
      BY <1>2, <1>5, <1>8, <1>10, <2>1, <2>5 DEF WithLock
    <3> QED BY <2>1, <2>2, <2>5, <3>1
  <2> QED BY <2>2, <2>3, <2>4, <2>5
<1>14. CASE /\ SpentBy(theirs, i) = "none" /\ s.claim
            /\ Hold(p, t) /\ UNCHANGED disk /\ Await(p, "claiming", r)
  <2>1. Alone(p) /\ due' = due /\ at'[p] = "claiming" /\ seen'[p] = r /\ side'[p] = t
    BY <1>14, SendAlone
  <2>2. Claiming(p, s, reading, r)
    BY <1>7, <1>12, <1>14, <2>1 DEF Same, Claiming
  <2> QED BY <1>2, <1>9, <1>12, <2>2
<1>15. CASE /\ SpentBy(theirs, i) = "none" /\ Await(p, "claiming", r)
            /\ MayClaim(p, s, r, theirs[i])
            /\ Save(p, [t EXCEPT !.theirLock = i, !.claim = TRUE])
  <2>1. PICK u : u = [t EXCEPT !.theirLock = i, !.claim = TRUE]
    OBVIOUS
  <2>2. u \in SideRecord /\ u.stage = s.stage /\ u.claim
    BY <1>11, <1>12, <2>1 DEF SideRecord, Same
  <2>3. /\ Alone(p) /\ due' = due /\ at'[p] = "claiming" /\ seen'[p] = r
        /\ side'[p] = u /\ disk'[p] = u
    <3>1. Hold(p, u) /\ disk' = [disk EXCEPT ![p] = u] /\ Await(p, "claiming", r)
      BY <1>15, <2>1 DEF Save
    <3>2. UNCHANGED disk \/ disk' = [disk EXCEPT ![p] = u]
      BY <3>1
    <3>3. /\ Alone(p) /\ due' = due /\ at'[p] = "claiming" /\ seen'[p] = r
          /\ side'[p] = u /\ disk'[p] \in {u, disk[p]}
      BY <3>1, <3>2, SendAlone, Zenon
    <3> QED BY <1>1, <3>1, <3>3 DEF TypeOK
  <2>4. i = 1 /\ theirs[i] = MyOut(Peer(p))
    BY <1>3, <1>4, <1>6, <1>15 DEF SpentBy
  <2>5. \/ p = maker /\ SpentBy(reading.mine, 1) = "claim"
        \/ p = taker /\ MyOut(maker).confs <= MakerBlocks - claimSafetyBlocks
    BY <1>9, <1>15, <2>4, Peers DEF MayClaim, MakerBlocks
  <2>6. Claiming(p, s, reading, r)
    BY <1>7, <1>15, <2>2, <2>3, <2>5, NoneAssumption DEF Claiming
  <2> QED BY <1>2, <1>9, <1>12, <2>6
<1>16. CASE /\ SpentBy(theirs, i) = "none" => ~s.claim /\ ~MayClaim(p, s, r, theirs[i])
            /\ RefundOrEnd(p, t, r)
  <2>1. p = maker /\ SpentBy(reading.mine, 1) = "claim" => MayClaim(p, s, r, theirs[i])
    BY <1>9, Peers DEF MayClaim
  <2>2. Unspent(Peer(p)) => ~s.claim /\ ~(p = maker /\ SpentBy(reading.mine, 1) = "claim")
    BY <1>7, <1>16, <2>1
  <2> QED BY <1>2, <1>9, <1>12, <1>16, <2>2
<1> QED BY <1>13, <1>14, <1>15, <1>16

LEMMA StillMove ==
  ASSUME OutsOK, NEW p \in Side, UNCHANGED <<outs, setting>>
  PROVE  OutsMove(p) /\ (HasLock(p)' <=> HasLock(p))
<1>1. Grows /\ \A q \in Side : HasLock(q)' <=> HasLock(q)
  BY SameOuts
<1>2. \A q \in Side : MyOut(q)' = MyOut(q)
  BY DEF MyOut
<1>3. SameAges
  BY <1>1, <1>2 DEF SameAges
<1>4. SpendsStay /\ OldRefund /\ OldMakerRefund
  BY <1>2, Peers DEF SpendsStay, OldRefund, OldMakerRefund
<1> QED BY <1>1, <1>2, <1>3, <1>4, PeerChain DEF OutsMove

LEMMA FundMove ==
  ASSUME SwapInv, NEW p \in Side, at[p] = "funding", outs' \in Fundings(MyChain(p)),
         UNCHANGED setting
  PROVE  OutsMove(p)
<1>1. /\ OutputsStep(p) /\ \A d \in Chains : d # MyChain(p) => outs'[d] = outs[d]
      /\ outs'[MyChain(p)][1].spend = "none"
  BY FundOut
<1>2. ~HasLock(p)
  BY DEF SwapInv, StepOK
<1>3. /\ Peer(p) \in Side /\ \A q \in Side : q = p \/ q = Peer(p)
      /\ MyChain(Peer(p)) \in Chains /\ MyChain(Peer(p)) # MyChain(p)
  BY PeerChain, SideChains
<1>4. outs'[MyChain(Peer(p))] = outs[MyChain(Peer(p))]
  BY <1>1, <1>3
<1>5. (HasLock(Peer(p))' <=> HasLock(Peer(p))) /\ MyOut(Peer(p))' = MyOut(Peer(p))
  BY <1>4 DEF HasLock, MyOut, MyChain, Peer
<1>6. Grows
  BY <1>1 DEF OutputsStep
<1>7. \A q \in Side : HasLock(q) => q = Peer(p)
  BY <1>2, <1>3
<1>8. SameAges /\ SpendsStay
  BY <1>5, <1>7 DEF SameAges, SpendsStay
<1>9. OldRefund /\ OldMakerRefund
  BY <1>5, <1>7, Peers DEF OldRefund, OldMakerRefund
<1>10. MyOut(p)'.spend = "none"
  BY <1>1 DEF MyOut, MyChain
<1> QED BY <1>5, <1>6, <1>8, <1>9, <1>10 DEF OutsMove

(* A claim of the other HTLC, or a refund of one's own.                    *)
LEMMA ClaimMove ==
  ASSUME SwapInv, NEW p \in Side, at[p] = "claiming",
         outs' = Spending(TheirChain(p), side[p].theirLock, "claim"), UNCHANGED setting
  PROVE  /\ OutsMove(p) /\ (HasLock(p)' <=> HasLock(p)) /\ MyOut(p)' = MyOut(p)
         /\ HasLock(Peer(p)) /\ HasLock(Peer(p))' /\ MyOut(Peer(p))'.spend # "none"
<1>1. TypeOK /\ OutsOK /\ StepOK(p)
  BY DEF SwapInv
<1>2. /\ Peer(p) \in Side /\ \A q \in Side : q = p \/ q = Peer(p)
      /\ MyChain(Peer(p)) = TheirChain(p) /\ MyChain(Peer(p)) \in Chains
      /\ MyChain(p) \in Chains /\ MyChain(Peer(p)) # MyChain(p)
  BY PeerChain, SideChains
<1>3. side[p].theirLock = 1 /\ outs[TheirChain(p)] # <<>>
  <2>1. side[p] \in SideRecord /\ side[p].theirLock # 0
    BY <1>1 DEF StepOK, TypeOK
  <2> QED BY <1>1, <2>1, FitsSides, KnownHas
<1>4. PICK c : c = TheirChain(p)
  OBVIOUS
<1>5. outs' = Spending(c, 1, "claim") /\ outs[c] # <<>> /\ c \in Chains
  BY <1>2, <1>3, <1>4
<1>6. /\ OutputsStep(p) /\ (HasLock(p)' <=> HasLock(p))
      /\ \A d \in Chains : d # c => outs'[d] = outs[d]
      /\ outs'[c][1].confs = outs[c][1].confs /\ outs'[c][1].mined = outs[c][1].mined
      /\ \/ outs'[c][1].spend = outs[c][1].spend
         \/ outs[c][1].spend = "none" /\ outs'[c][1].spend = "claim"
  BY <1>5, SpendOut
<1>7. HasLock(Peer(p)) /\ Grows
  BY <1>2, <1>3, <1>6 DEF HasLock, OutputsStep
<1>8. HasLock(Peer(p))'
  BY <1>2, <1>7, LockStays
<1>9. outs'[MyChain(p)] = outs[MyChain(p)]
  BY <1>2, <1>4, <1>6
<1>10. MyOut(p)' = MyOut(p)
  BY <1>9 DEF MyOut, MyChain
<1>11. outs[c][1].spend = MyOut(Peer(p)).spend /\ outs'[c][1].spend = MyOut(Peer(p))'.spend
       /\ MyOut(Peer(p))'.confs = MyOut(Peer(p)).confs /\ MyOut(Peer(p))'.mined = MyOut(Peer(p)).mined
  BY <1>2, <1>4, <1>6 DEF MyOut
<1>12. /\ MyOut(Peer(p))'.spend # "none"
       /\ \/ MyOut(Peer(p))'.spend = MyOut(Peer(p)).spend
          \/ MyOut(Peer(p)).spend = "none" /\ MyOut(Peer(p))'.spend = "claim"
  <2>1. CASE outs[c][1].spend = "none"
    <3>1. outs' = [outs EXCEPT ![c][1].spend = "claim"]
      BY <1>5, <2>1 DEF Spending
    <3>2. outs = [d \in Chains |-> outs[d]] /\ outs[c] \in Seq(Output(c)) /\ Len(outs[c]) <= 1
      BY <1>1, <1>5 DEF OutsOK
    <3>3. 1 \in DOMAIN outs[c] /\ outs[c][1] \in Output(c)
      BY <1>1, <1>5, OneOutput
    <3>4. outs'[c][1].spend = "claim"
      BY <1>5, <3>1, <3>2, <3>3 DEF Output
    <3> QED BY <1>11, <2>1, <3>4
  <2>2. CASE outs[c][1].spend # "none"
    BY <1>6, <1>11, <2>2
  <2> QED BY <2>1, <2>2
<1>13. SameAges /\ SpendsStay
  <2>1. \A q \in Side : HasLock(q) =>
          /\ HasLock(q)' /\ MyOut(q)'.confs = MyOut(q).confs /\ MyOut(q)'.mined = MyOut(q).mined
          /\ MyOut(q).spend # "none" => MyOut(q)'.spend # "none"
    BY <1>2, <1>6, <1>8, <1>10, <1>11, <1>12
  <2> QED BY <2>1 DEF SameAges, SpendsStay
<1>14. OldRefund /\ OldMakerRefund
  <2>1. \A q \in Side : MyOut(q)'.spend = "refund" => MyOut(q).spend = "refund"
    BY <1>2, <1>10, <1>12
  <2> QED BY <2>1, Peers DEF OldRefund, OldMakerRefund
<1> QED BY <1>6, <1>7, <1>8, <1>10, <1>12, <1>13, <1>14 DEF OutsMove

LEMMA RefundMove ==
  ASSUME SwapInv, NEW p \in Side, at[p] = "refunding",
         outs' = Spending(MyChain(p), side[p].myLock, "refund"), UNCHANGED setting
  PROVE  /\ OutsMove(p) /\ HasLock(p) /\ HasLock(p)' /\ MyOut(Peer(p))' = MyOut(Peer(p))
         /\ MyOut(p)'.spend = "none" => MyOut(p).confs < RefundBlocks[MyChain(p)]
<1>1. TypeOK /\ OutsOK /\ StepOK(p)
  BY DEF SwapInv
<1>2. /\ Peer(p) \in Side /\ \A q \in Side : q = p \/ q = Peer(p)
      /\ MyChain(Peer(p)) \in Chains
      /\ MyChain(p) \in Chains /\ MyChain(Peer(p)) # MyChain(p)
  BY PeerChain, SideChains
<1>3. side[p].myLock = 1 /\ HasLock(p)
  <2>1. side[p] \in SideRecord /\ side[p].myLock # 0
    BY <1>1 DEF StepOK, TypeOK
  <2> QED BY <1>1, <2>1, FitsSides, KnownHas
<1>4. PICK c : c = MyChain(p)
  OBVIOUS
<1>5. outs' = Spending(c, 1, "refund") /\ outs[c] # <<>> /\ c \in Chains
  BY <1>2, <1>3, <1>4 DEF HasLock
<1>6. /\ OutputsStep(p) /\ (HasLock(p)' <=> HasLock(p))
      /\ \A d \in Chains : d # c => outs'[d] = outs[d]
      /\ outs'[c][1].confs = outs[c][1].confs /\ outs'[c][1].mined = outs[c][1].mined
      /\ \/ outs'[c][1].spend = outs[c][1].spend
         \/ /\ outs[c][1].spend = "none" /\ outs'[c][1].spend = "refund"
            /\ outs[c][1].confs >= RefundBlocks[c]
  BY <1>5, SpendOut
<1>7. Grows
  BY <1>6 DEF OutputsStep
<1>8. outs'[MyChain(Peer(p))] = outs[MyChain(Peer(p))]
  BY <1>2, <1>4, <1>6
<1>9. MyOut(Peer(p))' = MyOut(Peer(p)) /\ (HasLock(Peer(p))' <=> HasLock(Peer(p)))
  BY <1>8 DEF MyOut, HasLock, MyChain, Peer
<1>10. outs[c][1].spend = MyOut(p).spend /\ outs'[c][1].spend = MyOut(p)'.spend
       /\ outs[c][1].confs = MyOut(p).confs
       /\ MyOut(p)'.confs = MyOut(p).confs /\ MyOut(p)'.mined = MyOut(p).mined
  BY <1>4, <1>6 DEF MyOut
<1>11. /\ \/ MyOut(p)'.spend = MyOut(p).spend
          \/ /\ MyOut(p).spend = "none" /\ MyOut(p)'.spend = "refund"
             /\ MyOut(p).confs >= RefundBlocks[MyChain(p)]
  BY <1>4, <1>6, <1>10
<1>12. MyOut(p)'.spend = "none" => MyOut(p).confs < RefundBlocks[MyChain(p)]
  <2> SUFFICES ASSUME MyOut(p)'.spend = "none", ~(MyOut(p).confs < RefundBlocks[MyChain(p)])
               PROVE  FALSE
    OBVIOUS
  <2>1. MyOut(p).confs >= RefundBlocks[c] /\ outs[c][1].confs >= RefundBlocks[c]
    <3>1. MyOut(p).confs \in Nat /\ RefundBlocks[c] \in Nat
      BY <1>1, <1>2, <1>3, <1>4, OutTypes, DeepestOK
    <3> QED BY <1>4, <1>10, <3>1
  <2>2. outs[c][1].spend = "none"
    BY <1>10, <1>11
  <2>3. outs' = [outs EXCEPT ![c][1].spend = "refund"]
    BY <1>5, <2>1, <2>2 DEF Spending
  <2>4. outs = [d \in Chains |-> outs[d]] /\ 1 \in DOMAIN outs[c] /\ outs[c][1] \in Output(c)
    BY <1>1, <1>5, OneOutput DEF OutsOK
  <2>5. outs'[c][1].spend = "refund"
    BY <1>5, <2>3, <2>4 DEF Output
  <2> QED BY <1>10, <2>5
<1>13. SameAges /\ SpendsStay
  <2>1. \A q \in Side : HasLock(q) =>
          /\ HasLock(q)' /\ MyOut(q)'.confs = MyOut(q).confs /\ MyOut(q)'.mined = MyOut(q).mined
          /\ MyOut(q).spend # "none" => MyOut(q)'.spend # "none"
    BY <1>2, <1>6, <1>9, <1>10, <1>11
  <2> QED BY <2>1 DEF SameAges, SpendsStay
<1>14. OldRefund /\ OldMakerRefund
  <2>1. \A q \in Side : MyOut(q)'.spend = "refund" =>
          MyOut(q).spend = "refund" \/ MyOut(q).confs >= RefundBlocks[MyChain(q)]
    BY <1>2, <1>9, <1>11
  <2> QED BY <2>1, Peers DEF OldRefund, OldMakerRefund, TakerBlocks, MakerBlocks
<1> QED BY <1>3, <1>6, <1>7, <1>9, <1>11, <1>12, <1>13, <1>14 DEF OutsMove

LEMMA FaultsGrow ==
  ASSUME SwapInv, Fault \/ UNCHANGED faults
  PROVE  faults \in Nat /\ faults' \in Nat /\ faults <= faults' /\ (Fault => faults < faults')
BY SettingTypes DEF Fault, SwapInv

LEMMA MakerApart ==
  ASSUME SwapInv, MakerInTime, Moves(taker), OutsMove(taker)
  PROVE  MakerInTime'
<1>1. faults' \in Nat /\ faults <= faults'
  BY FaultsGrow DEF Moves
<1>2. SameLocal(maker) /\ UNCHANGED <<lead, setting>>
  BY Peers DEF Moves
<1> QED BY <1>1, <1>2, Peers, MakerAside DEF OutsMove

LEMMA TakerApart ==
  ASSUME SwapInv, TakerInTime, Moves(maker), OutsMove(maker)
  PROVE  TakerInTime'
<1>1. faults' \in Nat /\ faults <= faults'
  BY FaultsGrow DEF Moves
<1>2. SameLocal(taker) /\ UNCHANGED setting
  BY Peers DEF Moves
<1> QED BY <1>1, <1>2, Peers, TakerAside DEF OutsMove

-----------------------------------------------------------------------------
(* Steps of the maker with its HTLC.                                       *)

(* The maker waits no longer than it did, or a fault pays for it.          *)
MakerPays ==
  IF MyOut(maker).mined
    THEN ClaimWaits(maker)' <= ClaimWaits(maker) \/ Fault
    ELSE MyOut(maker).confs = MakerBlocks + 1 => RefundWaits' <= RefundWaits \/ Fault

Lives(s) == s # None /\ s.stage \notin Terminal

LEMMA MakerOwn ==
  ASSUME SwapInv, MakerInTime, Moves(maker), OutsMove(maker), HasLock(maker),
         InTime(maker) => /\ at'[maker] # "funding" /\ MakerReads'
                          /\ ~Resolved(maker) =>
                               MakerPays /\ Lives(side'[maker]) /\ Lives(disk'[maker])
  PROVE  MakerInTime'
<1> SUFFICES ASSUME InTime(maker)'
             PROVE  (MakerFunds /\ MakerHolds /\ MakerReads
                     /\ MakerKnows(side[maker]) /\ MakerKnows(disk[maker]))'
  BY DEF MakerInTime
<1>1. InTime(maker)
  BY DEF Moves, InTime, EnoughTime, MakerSeconds, TakerSeconds, claimSafetyBlocks
<1>2. MakerHolds
  BY <1>1 DEF MakerInTime
<1>3. /\ at'[maker] # "funding" /\ MakerReads'
      /\ ~Resolved(maker) => MakerPays /\ Lives(side'[maker]) /\ Lives(disk'[maker])
  BY <1>1
<1>4. faults \in Nat /\ faults' \in Nat /\ faults <= faults' /\ (Fault => faults < faults')
  BY FaultsGrow DEF Moves
<1>5. MakerFunds'
  BY <1>3 DEF MakerFunds
<1>6. MakerHolds'
  <2>1. ASSUME ~Resolved(maker)
        PROVE  IF MyOut(maker).mined
                 THEN 2 * faults - ClaimWaits(maker) <= 2 * faults' - ClaimWaits(maker)'
                 ELSE MyOut(maker).confs = MakerBlocks + 1 =>
                        2 * faults - RefundWaits <= 2 * faults' - RefundWaits'
    <3>1. PICK w \in 0..2, v \in 0..2 : w = ClaimWaits(maker) /\ v = ClaimWaits(maker)'
      BY WaitTypes, Peers
    <3>2. PICK x \in 0..2, y \in 0..2 : x = RefundWaits /\ y = RefundWaits'
      BY WaitTypes
    <3>3. PICK k \in Nat, i \in Nat : k = faults /\ i = faults' /\ k <= i
      BY <1>4
    <3>4. IF MyOut(maker).mined
            THEN v <= w \/ k < i
            ELSE MyOut(maker).confs = MakerBlocks + 1 => y <= x \/ k < i
      BY <1>3, <1>4, <2>1, <3>1, <3>2, <3>3 DEF MakerPays
    <3>5. /\ v <= w \/ k < i => 2 * k - w <= 2 * i - v
          /\ y <= x \/ k < i => 2 * k - x <= 2 * i - y
      BY <3>1, <3>2, <3>3, FaultsPay
    <3> QED BY <3>1, <3>2, <3>3, <3>4, <3>5
  <2>2. UNCHANGED <<lead, setting>>
    BY DEF Moves
  <2> QED BY <1>1, <1>2, <1>4, <2>1, <2>2, HoldsKept DEF OutsMove
<1>7. MakerKnows(side[maker])' /\ MakerKnows(disk[maker])'
  <2>1. ~Resolved(maker)' => ~Resolved(maker)
    BY ResolvedStays, Peers DEF OutsMove
  <2> QED BY <1>3, <2>1 DEF MakerKnows, Lives
<1> QED BY <1>3, <1>5, <1>6, <1>7

(* Without an HTLC, nothing is at stake.                                   *)
LEMMA MakerNone ==
  ASSUME ~HasLock(maker)', at'[maker] = "idle"
  PROVE  MakerInTime'
<1>1. MakerFunds' /\ MakerReads'
  BY DEF MakerFunds, MakerReads
<1>2. MakerHolds' /\ MakerKnows(side[maker])' /\ MakerKnows(disk[maker])'
  BY DEF MakerHolds, MakerKnows
<1> QED BY <1>1, <1>2 DEF MakerInTime

LEMMA MakerIdle ==
  ASSUME at'[maker] = "idle"
  PROVE  MakerReads'
BY DEF MakerReads

(* A stage the maker ends in tells the truth.                              *)
LEMMA MakerOver ==
  ASSUME SwapInv, NEW s \in SideRecord, NEW r, ReadOK(maker, r),
         StageOf(maker, s, r.mine, r.theirs) \in Terminal,
         1 \in DOMAIN r.theirs => (r.theirs[1].spend = "refund" => Resolved(maker))
  PROVE  Resolved(maker)
<1>1. FoundOK(r.mine, MakerChain) /\ FoundOK(r.theirs, TakerChain)
  BY Peers DEF ReadOK
<1>2. \/ MinedBy(r.theirs, s.theirLock, "claim")
      \/ SpentBy(r.theirs, s.theirLock) = "refund"
      \/ MinedBy(r.mine, s.myLock, "refund")
  BY Peers DEF StageOf, Terminal
<1>3. CASE MinedBy(r.theirs, s.theirLock, "claim")
  <2>1. s.theirLock \in DOMAIN r.theirs /\ r.theirs[s.theirLock].mined
        /\ r.theirs[s.theirLock].spend = "claim"
    BY <1>3 DEF MinedBy, SpentBy
  <2>2. Gone(taker, "claim")
    BY <1>1, <2>1, Peers DEF FoundOK, Gone, HasLock, MyOut
  <2> QED BY <2>2, Peers DEF Resolved
<1>4. CASE SpentBy(r.theirs, s.theirLock) = "refund"
  <2>1. s.theirLock \in DOMAIN r.theirs /\ r.theirs[s.theirLock].spend = "refund"
    BY <1>4 DEF SpentBy
  <2>2. s.theirLock = 1
    BY <1>1, <2>1 DEF FoundOK
  <2> QED BY <2>1, <2>2
<1>5. CASE MinedBy(r.mine, s.myLock, "refund")
  <2>1. s.myLock \in DOMAIN r.mine /\ r.mine[s.myLock].mined
        /\ r.mine[s.myLock].spend = "refund"
    BY <1>5 DEF MinedBy, SpentBy
  <2>2. Gone(maker, "refund")
    BY <1>1, <2>1, Peers DEF FoundOK, Gone, HasLock, MyOut
  <2> QED BY <2>2 DEF Resolved
<1> QED BY <1>2, <1>3, <1>4, <1>5

(* The end of a pass of the maker that has its HTLC.                       *)
LEMMA MakerEnds ==
  ASSUME SwapInv, NEW s \in SideRecord, NEW r, RefundOrEnd(maker, s, r), s.myLock = 1,
         ReadOK(maker, r), OutsMove(maker),
         1 \in DOMAIN r.theirs => (r.theirs[1].spend = "refund" => Resolved(maker)),
         ~Resolved(maker) => Lives(s) /\ Lives(disk[maker])
  PROVE  /\ Alone(maker) /\ MakerReads' /\ at'[maker] # "funding"
         /\ ~Resolved(maker) => Lives(side'[maker]) /\ Lives(disk'[maker])
         /\ \/ at'[maker] = "refunding" /\ due' = due /\ SpentBy(r.mine, 1) = "none"
            \/ /\ at'[maker] = "idle" /\ due' = due \ {maker}
               /\ ~(SpentBy(r.mine, 1) = "none" /\ r.mine[1].confs >= MakerBlocks)
<1>1. CASE /\ SpentBy(r.mine, 1) = "none" /\ Alone(maker)
           /\ due' = due /\ at'[maker] = "refunding" /\ seen'[maker] = r
           /\ Same(s, side'[maker]) /\ (disk'[maker] = disk[maker] \/ Same(s, disk'[maker]))
  <2>1. Resolved(maker) => Resolved(maker)'
    BY Peers, ResolvedStays DEF OutsMove
  <2>2. MakerReads'
    BY <1>1, <2>1 DEF MakerReads
  <2>3. ~Resolved(maker) => Lives(side'[maker]) /\ Lives(disk'[maker])
    BY <1>1 DEF Lives, Same
  <2> QED BY <1>1, <2>2, <2>3
<1>2. CASE /\ ~(SpentBy(r.mine, 1) = "none" /\ r.mine[1].confs >= MakerBlocks)
           /\ Alone(maker) /\ due' = due \ {maker} /\ at'[maker] = "idle"
           /\ side'[maker] = disk'[maker]
           /\ \/ StageOf(maker, s, r.mine, r.theirs) \in Terminal
              \/ side'[maker] # None /\ side'[maker].stage = "active"
  <2>1. ~Resolved(maker) => StageOf(maker, s, r.mine, r.theirs) \notin Terminal
    BY MakerOver
  <2>2. ~Resolved(maker) => Lives(side'[maker]) /\ Lives(disk'[maker])
    BY <1>2, <2>1 DEF Lives, Terminal
  <2>3. MakerReads'
    BY <1>2, MakerIdle
  <2> QED BY <1>2, <2>2, <2>3
<1>3. maker \in Side /\ RefundBlocks[MyChain(maker)] = MakerBlocks
  BY Peers DEF MakerBlocks
<1> QED BY <1>1, <1>2, <1>3, RefundOrEndDoes

LEMMA MakerRefunds ==
  ASSUME SwapInv, MakerInTime, Refund(maker)
  PROVE  MakerInTime' /\ Moves(maker) /\ OutsMove(maker)
<1>1. /\ at[maker] = "refunding" /\ UNCHANGED <<board, lead, posts, stale, setting>>
      /\ \/ /\ outs' = Spending(MyChain(maker), side[maker].myLock, "refund")
            /\ UNCHANGED faults
         \/ UNCHANGED outs /\ Fault
  BY DEF Refund
<1>2. TypeOK /\ OutsOK /\ StepOK(maker) /\ SeenOK(maker)
  BY Peers DEF SwapInv
<1>3. PICK s : s = side[maker]
  OBVIOUS
<1>4. PICK r : r = seen[maker]
  OBVIOUS
<1>5. s \in SideRecord /\ s # None /\ ReadOK(maker, r)
  BY <1>1, <1>2, <1>3, <1>4, Peers DEF StepOK, SeenOK, TypeOK
<1>6. PICK stage : stage = StageOf(maker, s, r.mine, r.theirs)
  OBVIOUS
<1>7. PICK t : t = [s EXCEPT !.stage = stage]
  OBVIOUS
<1>8. (stage \in Terminal \/ stage = "active") /\ t.stage = stage /\ t # None
  <2>1. stage \in Terminal \/ stage = "active"
    BY <1>6 DEF StageOf, Terminal
  <2>2. t \in SideRecord /\ t.stage = stage
    BY <1>5, <1>7, <2>1 DEF SideRecord
  <2> QED BY <2>1, <2>2, NoneAssumption
<1>9. End(maker, t, r)
  BY <1>3, <1>4, <1>6, <1>7 DEF Refund, Finish
<1>10. /\ Alone(maker) /\ due' = due \ {maker} /\ at'[maker] = "idle"
       /\ side'[maker] = disk'[maker]
       /\ side'[maker] = t \/ (side'[maker] = None /\ t.stage \in Terminal)
  BY <1>9, Peers, EndAlone
<1>11. HasLock(maker)
  BY <1>1, AtHas, Peers
<1>12. OutsMove(maker) /\ (Fault \/ MyOut(maker)'.spend # "none" \/ MyOut(maker).confs < MakerBlocks)
       /\ MyOut(taker)' = MyOut(taker)
  <2>1. CASE outs' = Spending(MyChain(maker), side[maker].myLock, "refund")
    BY <1>1, <2>1, RefundMove, Peers DEF MakerBlocks
  <2>2. CASE UNCHANGED outs /\ Fault
    <3>1. MyOut(taker)' = MyOut(taker)
      BY <2>2 DEF MyOut, MyChain
    <3> QED BY <1>1, <1>2, <2>2, <3>1, StillMove, Peers
  <2> QED BY <1>1, <2>1, <2>2
<1>13. Moves(maker)
  BY <1>1, <1>10 DEF Moves, Alone
<1>14. ASSUME InTime(maker), ~Resolved(maker)
       PROVE  MakerPays /\ Lives(side'[maker]) /\ Lives(disk'[maker])
  <2>1. /\ MakerHolds /\ MakerReads
    BY <1>14 DEF MakerInTime
  <2>2. stage \notin Terminal
    BY <1>1, <1>4, <1>5, <1>6, <1>14, <2>1, MakerOver DEF MakerReads
  <2>3. Lives(side'[maker]) /\ Lives(disk'[maker])
    BY <1>8, <1>10, <2>2 DEF Lives
  <2>4. MyOut(maker).confs = MakerBlocks + 1 => Fault \/ RefundWaits' = 0
    <3>1. MyOut(maker).confs = MakerBlocks + 1 => ~(MyOut(maker).confs < MakerBlocks)
      BY TimeTypes
    <3> QED BY <1>12, <3>1 DEF RefundWaits
  <2>5. RefundWaits \in 0..2
    BY WaitTypes
  <2>6. ClaimWaits(maker)' <= ClaimWaits(maker)
    BY <1>1, <1>10, <1>12, Peers DEF ClaimWaits, Count
  <2> QED BY <2>3, <2>4, <2>5, <2>6 DEF MakerPays
<1>15. at'[maker] # "funding" /\ MakerReads'
  BY <1>10, MakerIdle
<1> QED BY <1>11, <1>12, <1>13, <1>14, <1>15, MakerOwn

LEMMA MakerClaims ==
  ASSUME SwapInv, MakerInTime, Claim(maker)
  PROVE  MakerInTime' /\ Moves(maker) /\ OutsMove(maker)
<1>1. /\ at[maker] = "claiming" /\ UNCHANGED <<board, lead, posts, stale, setting>>
      /\ \/ /\ outs' = Spending(TheirChain(maker), side[maker].theirLock, "claim")
            /\ UNCHANGED faults
         \/ UNCHANGED outs /\ Fault
      /\ RefundOrEnd(maker, side[maker], seen[maker])
  BY DEF Claim
<1>2. TypeOK /\ OutsOK /\ StepOK(maker) /\ SeenOK(maker)
  BY Peers DEF SwapInv
<1>3. PICK s : s = side[maker]
  OBVIOUS
<1>4. PICK r : r = seen[maker]
  OBVIOUS
<1>5. s \in SideRecord /\ s # None /\ ReadOK(maker, r) /\ s.myLock = 1
  <2>1. s \in SideRecord /\ s # None /\ ReadOK(maker, r) /\ s.myLock # 0
    BY <1>1, <1>2, <1>3, <1>4, Peers DEF StepOK, SeenOK, TypeOK
  <2> QED BY <1>2, <1>3, <2>1, Peers, FitsSides, KnownHas
<1>6. HasLock(maker)
  BY <1>1, AtHas, Peers
<1>7. OutsMove(maker) /\ MyOut(maker)' = MyOut(maker) /\ (Fault \/ MyOut(taker)'.spend # "none")
  <2>1. CASE outs' = Spending(TheirChain(maker), side[maker].theirLock, "claim")
    BY <1>1, <2>1, ClaimMove, Peers
  <2>2. CASE UNCHANGED outs /\ Fault
    <3>1. MyOut(maker)' = MyOut(maker)
      BY <2>2 DEF MyOut, MyChain
    <3> QED BY <1>1, <1>2, <2>2, <3>1, StillMove, Peers
  <2> QED BY <1>1, <2>1, <2>2
<1>8. Alone(maker) /\ Moves(maker)
  <2>1. Alone(maker)
    BY <1>1, <1>3, <1>5, Peers, RefundOrEndDoes
  <2> QED BY <1>1, <2>1 DEF Moves, Alone
<1>9. ASSUME InTime(maker)
      PROVE  /\ at'[maker] # "funding" /\ MakerReads'
             /\ ~Resolved(maker) => MakerPays /\ Lives(side'[maker]) /\ Lives(disk'[maker])
  <2>1. MakerReads /\ MakerKnows(side[maker]) /\ MakerKnows(disk[maker])
    BY <1>9 DEF MakerInTime
  <2>2. /\ 1 \in DOMAIN r.theirs => (r.theirs[1].spend = "refund" => Resolved(maker))
        /\ 1 \in DOMAIN r.mine
        /\ MyOut(maker).confs <= r.mine[1].confs + Count(maker \in due)
    BY <1>1, <1>4, <2>1 DEF MakerReads
  <2>3. ~Resolved(maker) => Lives(s) /\ Lives(disk[maker])
    BY <1>3, <1>6, <2>1 DEF MakerKnows, Lives
  <2>4. /\ MakerReads' /\ at'[maker] # "funding"
        /\ ~Resolved(maker) => Lives(side'[maker]) /\ Lives(disk'[maker])
        /\ \/ at'[maker] = "refunding" /\ due' = due /\ SpentBy(r.mine, 1) = "none"
           \/ /\ at'[maker] = "idle" /\ due' = due \ {maker}
              /\ ~(SpentBy(r.mine, 1) = "none" /\ r.mine[1].confs >= MakerBlocks)
    BY <1>1, <1>3, <1>4, <1>5, <1>7, <2>2, <2>3, MakerEnds
  <2>5. ClaimWaits(maker)' <= ClaimWaits(maker) \/ Fault
    <3>1. MyOut(taker)'.spend # "none" => ClaimWaits(maker)' = 0
      BY Peers DEF ClaimWaits
    <3>2. ClaimWaits(maker) \in 0..2
      BY WaitTypes, Peers
    <3> QED BY <1>7, <3>1, <3>2
  <2>6. MyOut(maker).confs = MakerBlocks + 1 => RefundWaits' <= RefundWaits
    <3>1. CASE MyOut(maker).spend # "none"
      BY <1>7, <3>1 DEF RefundWaits
    <3>2. CASE MyOut(maker).spend = "none" /\ at'[maker] = "refunding"
      <4>1. RefundWaits' = Count(maker \notin due)
        BY <1>7, <2>4, <3>2 DEF RefundWaits, Count
      <4>2. Count(maker \notin due) <= RefundWaits
        BY <3>2 DEF RefundWaits, Count
      <4> QED BY <4>1, <4>2
    <3>3. CASE MyOut(maker).spend = "none" /\ at'[maker] = "idle"
      <4>1. RefundWaits' = 1
        BY <1>7, <2>4, <3>3 DEF RefundWaits, Count
      <4>2. CASE r.mine[1].spend # "none"
        <5>1. RefundWaits >= 1
          BY <1>1, <1>4, <3>3, <4>2 DEF RefundWaits, Count
        <5> QED BY <4>1, <5>1
      <4>3. CASE r.mine[1].spend = "none"
        <5>1. ~(r.mine[1].confs >= MakerBlocks)
          BY <2>2, <2>4, <3>3, <4>3 DEF SpentBy
        <5>2. r.mine[1].confs \in Nat /\ Count(maker \in due) \in 0..1
          <6>1. r.mine[1] \in Output(MakerChain)
            BY <1>5, <2>2, Peers DEF ReadOK, FoundOK
          <6> QED BY <6>1, TimeTypes DEF Output, Count
        <5>3. ~(MyOut(maker).confs = MakerBlocks + 1)
          BY <2>2, <5>1, <5>2, TimeTypes
        <5> QED BY <5>3
      <4> QED BY <4>2, <4>3
    <3> QED BY <2>4, <3>1, <3>2, <3>3
  <2> QED BY <2>4, <2>5, <2>6 DEF MakerPays
<1> QED BY <1>6, <1>7, <1>8, <1>9, MakerOwn

(* The maker's HTLC is there: the pass follows it.                         *)
LEMMA MakerFunded ==
  ASSUME SwapInv, MakerInTime, Funded(maker)
  PROVE  MakerInTime' /\ Moves(maker) /\ OutsMove(maker)
<1>1. /\ at[maker] = "funded" /\ UNCHANGED <<board, chains, faults, setting>>
      /\ WithLock(maker, Knowing(side[maker], Len(outs[MyChain(maker)])), seen[maker])
  BY DEF Funded
<1>2. TypeOK /\ OutsOK /\ StepOK(maker) /\ SeenOK(maker) /\ RecordOK(maker, side[maker])
  BY Peers DEF SwapInv
<1>3. HasLock(maker)
  BY <1>1, AtHas, Peers
<1>4. Len(outs[MyChain(maker)]) = 1 /\ MaxLocks \in Nat /\ MaxLocks >= 1
  <2>1. MyChain(maker) \in Chains
    BY SideChains, Peers
  <2> QED BY <1>2, <1>3, <2>1, SwapAssumption, OneOutput DEF OutsOK, HasLock
<1>5. PICK s : s = Knowing(side[maker], 1)
  OBVIOUS
<1>6. /\ s \in SideRecord /\ s.stage = "active" /\ s.myLock = 1 /\ ~s.claim /\ Fits(maker, s)
      /\ disk[maker] = side[maker] /\ side[maker] # None /\ side[maker].stage = "active"
  <2>1. /\ side[maker] \in SideRecord /\ side[maker] # None /\ side[maker].stage = "active"
        /\ side[maker].myLock = 0 /\ disk[maker] = side[maker] /\ ~side[maker].claim
        /\ Fits(maker, side[maker])
    BY <1>1, <1>2, FitsSides, Peers DEF StepOK, RecordOK, TypeOK
  <2>2. 1 \in 0..MaxLocks
    BY <1>4
  <2>3. /\ s \in SideRecord /\ s.stage = "active" /\ s.myLock = 1 /\ ~s.claim
        /\ s.theirLock = side[maker].theirLock
    BY <1>5, <2>1, <2>2 DEF Knowing, SideRecord
  <2>4. Fits(maker, s)
    BY <1>4, <2>1, <2>3 DEF Fits
  <2> QED BY <2>1, <2>3, <2>4
<1>7. PICK read : read = seen[maker]
  OBVIOUS
<1>8. ReadOK(maker, read) /\ WithLock(maker, s, read)
  BY <1>1, <1>2, <1>4, <1>5, <1>7 DEF SeenOK
<1>9. PICK t, r :
        /\ t \in SideRecord /\ Same(s, t)
        /\ r.mine = read.mine /\ r.theirs = scan(TheirChain(maker)) /\ ReadOK(maker, r)
        /\ Claiming(maker, s, read, r) \/ RefundOrEnd(maker, t, r)
  BY <1>6, <1>8, Peers, WithLockDoes
<1>10. OutsMove(maker) /\ \A q \in Side : MyOut(q)' = MyOut(q)
  <2>1. \A q \in Side : MyOut(q)' = MyOut(q)
    BY <1>1 DEF MyOut, chains
  <2> QED BY <1>1, <1>2, <2>1, Peers, StillMove DEF chains
<1>11. Alone(maker) /\ Moves(maker)
  <2>1. Alone(maker)
    BY <1>9, Peers, RefundOrEndDoes DEF Claiming
  <2> QED BY <1>1, <2>1 DEF Moves, Alone, chains
<1>12. ASSUME InTime(maker)
       PROVE  /\ at'[maker] # "funding" /\ MakerReads'
              /\ ~Resolved(maker) => MakerPays /\ Lives(side'[maker]) /\ Lives(disk'[maker])
  <2>1. MakerReads /\ MakerHolds
    BY <1>12 DEF MakerInTime
  <2>2. /\ 1 \notin DOMAIN read.mine /\ MyOut(maker).confs <= Count(maker \in due)
    BY <1>1, <1>7, <2>1 DEF MakerReads
  <2>3. SpentBy(read.mine, 1) # "claim" /\ SpentBy(read.mine, 1) # "none"
    BY <2>2 DEF SpentBy
  <2>4. RefundOrEnd(maker, t, r) /\ t.myLock = 1 /\ Lives(t) /\ Lives(disk[maker])
    BY <1>6, <1>9, <2>3, Peers DEF Claiming, Same, Lives, Terminal
  <2>5. 1 \in DOMAIN r.theirs => (r.theirs[1].spend = "refund" => Resolved(maker))
    <3>1. 1 \in DOMAIN r.theirs => r.theirs[1] = MyOut(taker)
      BY <1>2, <1>9, Peers, ScanOK DEF Chains, MyOut
    <3> QED BY <1>3, <2>1, <3>1 DEF MakerHolds
  <2>6. /\ MakerReads' /\ at'[maker] # "funding"
        /\ ~Resolved(maker) => Lives(side'[maker]) /\ Lives(disk'[maker])
        /\ at'[maker] = "idle" /\ due' = due \ {maker}
    BY <1>9, <1>10, <2>3, <2>4, <2>5, MakerEnds
  <2>7. ClaimWaits(maker)' <= ClaimWaits(maker)
    <3>1. MyOut(taker)' = MyOut(taker)
      BY <1>10, Peers
    <3> QED BY <1>1, <2>6, <3>1, Peers DEF ClaimWaits, Count
  <2>8. ~(MyOut(maker).confs = MakerBlocks + 1)
    <3>1. MyOut(maker).confs \in Nat /\ Count(maker \in due) \in 0..1
      BY <1>2, <1>3, Peers, OutTypes DEF Count
    <3> QED BY <2>2, <3>1, TimeTypes
  <2> QED BY <2>6, <2>7, <2>8 DEF MakerPays
<1> QED BY <1>3, <1>10, <1>11, <1>12, MakerOwn

(* The record that a pass starts from.                                     *)
LEMMA AdoptedFrom ==
  ASSUME SwapInv, NEW p \in Side, NEW s, s = Adopted(p)
  PROVE  /\ side[p] # None => /\ s.stage = side[p].stage /\ s.claim = side[p].claim
                              /\ s.myLock = side[p].myLock
         /\ side[p] = None => s.stage = "active" /\ ~s.claim /\ s.myLock = 0
<1>1. side[p] \in SideRecord \cup {None}
  BY DEF SwapInv, TypeOK
<1> QED BY <1>1 DEF Adopted, NewSide, SideRecord

LEMMA LockedFacts ==
  ASSUME SwapInv, NEW p \in Side, LockedPass(p)
  PROVE  /\ at[p] = "idle" /\ HasLock(p) /\ disk[p] = side[p]
         /\ UNCHANGED <<board, chains, faults, setting>>
         /\ ReadOK(p, Read(p)) /\ Read(p).mine = scan(MyChain(p))
         /\ \E s \in SideRecord :
              /\ WithLock(p, s, Read(p)) /\ Fits(p, s) /\ s.myLock = 1
              /\ s.claim => s.theirLock # 0
              /\ side[p] # None => s.stage = side[p].stage /\ s.claim = side[p].claim
              /\ side[p] = None => s.stage = "active" /\ ~s.claim /\ boardMatch # None
<1>1. TypeOK /\ OutsOK
  BY DEF SwapInv
<1>2. PICK s : s = Adopted(p)
  OBVIOUS
<1>3. PICK i : i = KnownLock(s, Read(p))
  OBVIOUS
<1>4. /\ Starts(p) /\ ~Dormant(s) /\ i # 0 /\ WithLock(p, Knowing(s, i), Read(p))
      /\ UNCHANGED <<board, chains, faults, setting>>
  BY <1>2, <1>3 DEF LockedPass
<1>5. /\ s \in SideRecord /\ Fits(p, s) /\ RecordOK(p, s) /\ at[p] = "idle" /\ disk[p] = side[p]
  BY <1>2, <1>4, AdoptedOK
<1>6. i = 1 /\ HasLock(p)
  <2>1. CASE s.myLock # 0
    BY <1>1, <1>3, <1>5, <2>1, KnownHas DEF KnownLock
  <2>2. CASE s.myLock = 0
    <3>1. PICK found : found = scan(MyChain(p))
      OBVIOUS
    <3>2. /\ DOMAIN found \subseteq {1}
          /\ 1 \in DOMAIN found => outs[MyChain(p)] # <<>>
      BY <1>1, <3>1, ScanOK, SideChains
    <3>3. i = pickExact(found, FALSE)
      BY <1>3, <2>2, <3>1, ReadReads DEF KnownLock
    <3>4. FALSE \in BOOLEAN
      OBVIOUS
    <3>5. i = 1 /\ 1 \in DOMAIN found
      BY <1>4, <3>2, <3>3, <3>4, PickOne
    <3> QED BY <3>2, <3>5 DEF HasLock
  <2> QED BY <2>1, <2>2
<1>7. Len(outs[MyChain(p)]) = 1 /\ MaxLocks \in Nat /\ MaxLocks >= 1
  <2>1. MyChain(p) \in Chains
    BY SideChains
  <2> QED BY <1>1, <1>6, <2>1, SwapAssumption, OneOutput DEF OutsOK, HasLock
<1>8. PICK t : t = Knowing(s, 1)
  OBVIOUS
<1>9. /\ t \in SideRecord /\ t.stage = s.stage /\ t.myLock = 1 /\ t.theirLock = s.theirLock
      /\ t.claim = s.claim
  <2>1. 1 \in 0..MaxLocks
    BY <1>7
  <2> QED BY <1>5, <1>8, <2>1 DEF Knowing, SideRecord
<1>10. s # None /\ t # None
  BY <1>5, <1>9, NoneAssumption
<1>11. Fits(p, t) /\ (t.claim => t.theirLock # 0)
  BY <1>5, <1>7, <1>9, <1>10 DEF Fits, RecordOK
<1>12. /\ side[p] # None => t.stage = side[p].stage /\ t.claim = side[p].claim
       /\ side[p] = None => t.stage = "active" /\ ~t.claim /\ boardMatch # None
  BY <1>2, <1>4, <1>9, AdoptedFrom DEF Starts
<1>13. WithLock(p, t, Read(p))
  BY <1>4, <1>6, <1>8
<1> QED BY <1>4, <1>5, <1>6, <1>9, <1>11, <1>12, <1>13, ReadReads

(* A pass of the maker that knows its HTLC.                                *)
LEMMA MakerPasses ==
  ASSUME SwapInv, MakerInTime, LockedPass(maker)
  PROVE  MakerInTime' /\ Moves(maker) /\ OutsMove(maker)
<1>1. TypeOK /\ OutsOK
  BY DEF SwapInv
<1>2. PICK read : read = Read(maker)
  OBVIOUS
<1>3. /\ at[maker] = "idle" /\ HasLock(maker) /\ disk[maker] = side[maker]
      /\ UNCHANGED <<board, chains, faults, setting>>
      /\ ReadOK(maker, read) /\ read.mine = scan(MakerChain)
  BY <1>2, LockedFacts, Peers
<1>4. PICK s \in SideRecord :
        /\ WithLock(maker, s, read) /\ Fits(maker, s) /\ s.myLock = 1
        /\ s.claim => s.theirLock # 0
        /\ side[maker] # None => s.stage = side[maker].stage /\ s.claim = side[maker].claim
  BY <1>2, LockedFacts, Peers
<1>5. PICK t, r :
        /\ t \in SideRecord /\ Same(s, t)
        /\ r.mine = read.mine /\ r.theirs = scan(TakerChain) /\ ReadOK(maker, r)
        /\ \/ Claiming(maker, s, read, r)
           \/ /\ RefundOrEnd(maker, t, r)
              /\ Unspent(taker) => ~s.claim /\ SpentBy(read.mine, 1) # "claim"
  BY <1>3, <1>4, Peers, WithLockDoes
<1>6. OutsMove(maker) /\ \A q \in Side : MyOut(q)' = MyOut(q)
  <2>1. \A q \in Side : MyOut(q)' = MyOut(q)
    BY <1>3 DEF MyOut, chains
  <2> QED BY <1>1, <1>3, <2>1, Peers, StillMove DEF chains
<1>7. Alone(maker) /\ Moves(maker)
  <2>1. Alone(maker)
    BY <1>5, Peers, RefundOrEndDoes DEF Claiming
  <2> QED BY <1>3, <2>1 DEF Moves, Alone, chains
<1>8. ASSUME InTime(maker)
      PROVE  /\ at'[maker] # "funding" /\ MakerReads'
             /\ ~Resolved(maker) => MakerPays /\ Lives(side'[maker]) /\ Lives(disk'[maker])
  <2>1. MakerHolds /\ MakerKnows(side[maker]) /\ ~setting.lag
    BY <1>8 DEF MakerInTime, InTime
  <2>2. /\ 1 \in DOMAIN r.mine /\ r.mine[1] = MyOut(maker)
        /\ MyOut(maker).mined \in BOOLEAN /\ MyOut(maker).confs \in Nat
        /\ MyOut(maker).mined => MyOut(maker).spend # "none"
        /\ MyOut(maker).spend \in {"none", "claim", "refund"}
    <3>1. MyOut(maker).listed
      BY <1>1, <1>3, <2>1, Peers, OutTypes
    <3>2. 1 \in DOMAIN r.mine /\ r.mine[1] = MyOut(maker)
      BY <1>1, <1>3, <1>5, <3>1, Peers, ScanOK DEF Chains, MyOut, HasLock
    <3> QED BY <1>1, <1>3, <3>2, Peers, OutTypes
  <2>3. 1 \in DOMAIN r.theirs => r.theirs[1] = MyOut(taker)
    BY <1>1, <1>5, Peers, ScanOK DEF Chains, MyOut
  <2>4. ~Resolved(maker) => Lives(side[maker]) /\ Lives(s) /\ Lives(t) /\ Lives(disk[maker])
    BY <1>3, <1>4, <1>5, <2>1, NoneAssumption DEF MakerKnows, Lives, Same
  <2>5. CASE Claiming(maker, s, read, r)
    <3>1. /\ Unspent(taker) /\ due' = due /\ at'[maker] = "claiming" /\ seen'[maker] = r
          /\ ~Resolved(maker) => Lives(side'[maker]) /\ Lives(disk'[maker])
      BY <2>4, <2>5, Peers DEF Claiming, Lives
    <3>2. MakerReads'
      <4>1. MyOut(maker)'.confs <= seen'[maker].mine[1].confs + Count(maker \in due')
        <5>1. Count(maker \in due') \in 0..1
          BY DEF Count
        <5> QED BY <1>6, <2>2, <3>1, <5>1, Peers
      <4>2. 1 \in DOMAIN seen'[maker].theirs => seen'[maker].theirs[1].spend # "refund"
        BY <2>3, <3>1 DEF Unspent
      <4> QED BY <2>2, <3>1, <4>1, <4>2 DEF MakerReads
    <3>3. ClaimWaits(maker)' <= ClaimWaits(maker)
      BY <1>3, <1>6, <3>1, Peers DEF ClaimWaits, Count
    <3>4. RefundWaits' <= RefundWaits
      BY <1>3, <1>6, <2>2, <3>1, Peers DEF RefundWaits, Count
    <3> QED BY <3>1, <3>2, <3>3, <3>4 DEF MakerPays
  <2>6. CASE /\ RefundOrEnd(maker, t, r)
             /\ Unspent(taker) => ~s.claim /\ SpentBy(read.mine, 1) # "claim"
    <3>1. 1 \in DOMAIN r.theirs => (r.theirs[1].spend = "refund" => Resolved(maker))
      BY <1>3, <2>1, <2>3 DEF MakerHolds
    <3>2. /\ MakerReads' /\ at'[maker] # "funding"
          /\ ~Resolved(maker) => Lives(side'[maker]) /\ Lives(disk'[maker])
          /\ \/ at'[maker] = "refunding" /\ due' = due /\ SpentBy(r.mine, 1) = "none"
             \/ /\ at'[maker] = "idle" /\ due' = due \ {maker}
                /\ ~(SpentBy(r.mine, 1) = "none" /\ r.mine[1].confs >= MakerBlocks)
      BY <1>4, <1>5, <1>6, <2>4, <2>6, <3>1, MakerEnds DEF Same
    <3>3. SpentBy(r.mine, 1) = MyOut(maker).spend
      BY <2>2 DEF SpentBy
    <3>4. ASSUME ~Resolved(maker), MyOut(maker).mined
          PROVE  ClaimWaits(maker)' <= ClaimWaits(maker)
      <4>1. MyOut(maker).spend = "claim"
        BY <1>3, <2>2, <3>4 DEF Resolved, Gone
      <4>2. ~Unspent(taker) /\ HasLock(taker)
        BY <1>5, <2>1, <2>6, <3>3, <3>4, <4>1, <1>3 DEF MakerHolds
      <4>3. MyOut(taker).spend # "none"
        BY <1>1, <2>1, <4>2, Peers, OutTypes DEF Unspent
      <4> QED BY <1>6, <4>3, Peers DEF ClaimWaits
    <3>5. MyOut(maker).confs = MakerBlocks + 1 => RefundWaits' <= RefundWaits
      <4>1. CASE at'[maker] = "refunding" /\ due' = due
        BY <1>3, <1>6, <4>1, Peers DEF RefundWaits, Count
      <4>2. CASE ~(SpentBy(r.mine, 1) = "none" /\ r.mine[1].confs >= MakerBlocks)
        <5>1. MyOut(maker).spend # "none" \/ ~(MyOut(maker).confs = MakerBlocks + 1)
          BY <2>2, <3>3, <4>2, TimeTypes
        <5>2. MyOut(maker).spend # "none" => RefundWaits' = 0 /\ RefundWaits = 0
          BY <1>6, Peers DEF RefundWaits
        <5> QED BY <5>1, <5>2
      <4> QED BY <3>2, <4>1, <4>2
    <3> QED BY <3>2, <3>4, <3>5 DEF MakerPays
  <2> QED BY <1>5, <2>5, <2>6
<1> QED BY <1>3, <1>6, <1>7, <1>8, MakerOwn

-----------------------------------------------------------------------------
(* Passes without an HTLC.                                                 *)

LEMMA LockDoes ==
  ASSUME SwapInv, NEW p \in Side, NEW s \in SideRecord, NEW r, Lock(p, s, r)
  PROVE  \/ End(p, s, r)
         \/ /\ Alone(p) /\ due' = due /\ at'[p] = "funding" /\ seen'[p] = [r EXCEPT !.h = 0]
            /\ side'[p] = disk'[p] /\ side'[p] # None /\ side'[p].claim = s.claim
<1>1. CASE /\ Save(p, [s EXCEPT !.lockIntent = TRUE])
           /\ Await(p, "funding", [r EXCEPT !.h = 0])
  <2>1. PICK t : t = [s EXCEPT !.lockIntent = TRUE]
    OBVIOUS
  <2>2. t \in SideRecord /\ t.claim = s.claim /\ t # None
    <3>1. t \in SideRecord /\ t.claim = s.claim
      BY <2>1 DEF SideRecord
    <3> QED BY <3>1, NoneAssumption
  <2>3. /\ Hold(p, t) /\ disk' = [disk EXCEPT ![p] = t]
        /\ Await(p, "funding", [r EXCEPT !.h = 0])
    BY <1>1, <2>1 DEF Save
  <2>4. /\ Alone(p) /\ due' = due /\ at'[p] = "funding" /\ seen'[p] = [r EXCEPT !.h = 0]
        /\ side'[p] = t /\ disk'[p] \in {t, disk[p]}
    BY <2>3, SendAlone
  <2>5. disk'[p] = t
    BY <2>3 DEF SwapInv, TypeOK
  <2> QED BY <2>2, <2>4, <2>5
<1> QED BY <1>1 DEF Lock

(* A pass of a party that has no HTLC ends, or goes on to fund one.        *)
NoLockPass(p) ==
  /\ Moves(p) /\ UNCHANGED outs /\ (~setting.lag => ~HasLock(p))
  /\ \A s \in {side'[p], disk'[p]} : s # None => s.claim = Adopted(p).claim
  /\ at'[p] \in {"idle", "scanned", "funding"}
  /\ side[p] # None \/ Starts(p)
  /\ seen'[p].mine \in {<<>>, scan(MyChain(p)), seen[p].mine}

LEMMA EndDoes ==
  ASSUME SwapInv, NEW p \in Side, NEW s \in SideRecord, NEW r, End(p, s, r),
         s.claim = Adopted(p).claim, side[p] # None \/ Starts(p),
         UNCHANGED <<lead, outs, setting>>,
         Fault \/ UNCHANGED faults, ~setting.lag => ~HasLock(p)
  PROVE  NoLockPass(p) /\ at'[p] = "idle"
<1>1. /\ Alone(p) /\ due' = due \ {p} /\ at'[p] = "idle" /\ side'[p] = disk'[p]
      /\ side'[p] = s \/ side'[p] = None
      /\ seen'[p] = Nothing
  BY EndAlone
<1>2. Moves(p)
  BY <1>1 DEF Moves, Alone
<1>3. Nothing.mine = <<>>
  BY DEF Nothing
<1> QED BY <1>1, <1>2, <1>3 DEF NoLockPass

LEMMA QuietDoes ==
  ASSUME SwapInv, NEW p \in Side, DormantPass(p) \/ ProofsPass(p) \/ GiveUpPass(p)
  PROVE  NoLockPass(p) /\ at'[p] = "idle"
<1>1. PICK s : s = Adopted(p)
  OBVIOUS
<1>2. Starts(p) /\ UNCHANGED <<lead, outs, setting>>
  BY DEF DormantPass, ProofsPass, GiveUpPass, chains
<1>3. s \in SideRecord /\ RecordOK(p, s)
  BY <1>1, <1>2, AdoptedOK
<1>4. s # None
  BY <1>3, NoneAssumption
<1>5. CASE DormantPass(p)
  <2>1. End(p, s, Read(p)) /\ Dormant(s) /\ UNCHANGED faults
    BY <1>1, <1>5 DEF DormantPass
  <2>2. ~setting.lag => ~HasLock(p)
    BY <1>3, <1>4, <2>1 DEF RecordOK, LockKept, Dormant
  <2> QED BY <1>1, <1>2, <1>3, <2>1, <2>2, EndDoes
<1>6. CASE ProofsPass(p)
  <2>1. PICK verdict \in {"unverified", "ok", "bad"} :
          End(p, [s EXCEPT !.theirProof = verdict], Read(p)) /\ (Fault \/ UNCHANGED faults)
    BY <1>1, <1>6 DEF ProofsPass, Verified, NotVerified
  <2>2. PICK t : t = [s EXCEPT !.theirProof = verdict]
    OBVIOUS
  <2>3. t \in SideRecord /\ t.claim = s.claim
    BY <1>3, <2>2 DEF SideRecord
  <2>4. ~HasLock(p)
    <3>1. boardMatch # None /\ boardMatch.status = "awaitingProofs"
      BY <1>6 DEF ProofsPass, Status
    <3> QED BY <3>1, OnBoard DEF SaysOK
  <2> QED BY <1>1, <1>2, <2>1, <2>2, <2>3, <2>4, EndDoes
<1>7. CASE GiveUpPass(p)
  <2>1. /\ End(p, [s EXCEPT !.stage = "cancelled"], Read(p)) /\ UNCHANGED faults
        /\ KnownLock(s, Read(p)) = 0 \/ (p = taker /\ ~s.makerKey)
    BY <1>1, <1>7 DEF GiveUpPass, Finish
  <2>2. PICK t : t = [s EXCEPT !.stage = "cancelled"]
    OBVIOUS
  <2>3. t \in SideRecord /\ t.claim = s.claim
    BY <1>3, <2>2 DEF SideRecord, Terminal
  <2>4. ~setting.lag => ~HasLock(p)
    <3>1. KnownLock(s, Read(p)) = 0 => (HasLock(p) => setting.lag)
      BY UnknownLock
    <3>2. p = taker /\ ~s.makerKey => ~HasLock(p)
      BY <1>3, <1>4 DEF RecordOK, TakerEnds
    <3> QED BY <2>1, <3>1, <3>2
  <2> QED BY <1>1, <1>2, <2>1, <2>2, <2>3, <2>4, EndDoes
<1> QED BY <1>5, <1>6, <1>7

(* In escrow, a party without an HTLC reads its chain and goes on.         *)
LEMMA EscrowDoes ==
  ASSUME SwapInv, NEW p \in Side, EscrowPass(p)
  PROVE  /\ NoLockPass(p) /\ at'[p] = "scanned"
         /\ seen'[p].mine = scan(MyChain(p)) /\ seen'[p].theirs = <<>>
<1>1. PICK s : s = Adopted(p)
  OBVIOUS
<1>2. PICK r : r = [Read(p) EXCEPT !.h = height]
  OBVIOUS
<1>3. /\ Starts(p) /\ KnownLock(s, Read(p)) = 0 /\ Hold(p, s) /\ UNCHANGED disk
      /\ Await(p, "scanned", r) /\ UNCHANGED <<lead, outs, setting, faults>>
  BY <1>1, <1>2 DEF EscrowPass, chains
<1>4. /\ Alone(p) /\ at'[p] = "scanned" /\ seen'[p] = r /\ side'[p] = s
  BY <1>3, SendAlone
<1>5. disk'[p] = side[p]
  BY <1>3 DEF SwapInv, StepOK, Starts
<1>6. r.mine = scan(MyChain(p)) /\ r.theirs = <<>>
  BY <1>2 DEF Read
<1>7. ~setting.lag => ~HasLock(p)
  BY <1>1, <1>3, UnknownLock
<1>8. \A t \in {side'[p], disk'[p]} : t # None => t.claim = Adopted(p).claim
  BY <1>1, <1>4, <1>5, AdoptedFrom
<1>9. Moves(p)
  BY <1>3, <1>4 DEF Moves, Alone
<1> QED BY <1>3, <1>4, <1>6, <1>7, <1>8, <1>9 DEF NoLockPass

(* The maker goes on to fund against an unspent HTLC that is young enough. *)
LEMMA DecideDoes ==
  ASSUME SwapInv, NEW p \in Side, Decide(p)
  PROVE  /\ NoLockPass(p) /\ at'[p] # "scanned"
         /\ at'[p] = "funding" =>
              /\ due' = due /\ seen'[p] = [seen[p] EXCEPT !.h = 0]
              /\ p = maker => /\ 1 \in DOMAIN scan(TakerChain)
                              /\ scan(TakerChain)[1].spend = "none"
                              /\ ~WindowTooShort(scan(TakerChain)[1])
<1>1. TypeOK /\ OutsOK /\ StepOK(p) /\ SeenOK(p)
  BY DEF SwapInv
<1>2. PICK s : s = side[p]
  OBVIOUS
<1>3. PICK r : r = seen[p] /\ r = [r EXCEPT !.mine = seen[p].mine]
  BY <1>1 DEF SeenOK, ReadOK
<1>4. PICK theirs : theirs = scan(TheirChain(p))
  OBVIOUS
<1>5. /\ at[p] = "scanned" /\ side[p] # None /\ UNCHANGED <<lead, outs, setting>>
  BY <1>1 DEF Decide, StepOK, chains
<1>6. PICK verdict \in {"unverified", "ok", "bad"} :
        LET v == [s EXCEPT !.theirProof = verdict]
        IN  /\ Fault \/ UNCHANGED faults
            /\ IF p = taker THEN TakerDecides(v, r) /\ UNCHANGED posts
                            ELSE MakerDecides(v, r, theirs)
  BY <1>2, <1>3, <1>4 DEF Decide, Verified, NotVerified
<1>7. PICK v : v = [s EXCEPT !.theirProof = verdict]
  OBVIOUS
<1>8. s \in SideRecord /\ v \in SideRecord /\ v.claim = s.claim
  <2>1. s \in SideRecord
    BY <1>1, <1>2, <1>5 DEF TypeOK
  <2> QED BY <1>7, <2>1 DEF SideRecord
<1>9. /\ Fault \/ UNCHANGED faults
      /\ p = taker => TakerDecides(v, r)
      /\ p = maker => MakerDecides(v, r, theirs)
  BY <1>6, <1>7, SwapAssumption
<1>10. (~setting.lag => ~HasLock(p)) /\ s.claim = Adopted(p).claim
  BY <1>1, <1>2, <1>5, AdoptedFrom DEF StepOK
<1>11. ASSUME NEW t \in SideRecord, t.claim = s.claim, End(p, t, r)
       PROVE  NoLockPass(p) /\ at'[p] = "idle"
  BY <1>2, <1>3, <1>5, <1>9, <1>10, <1>11, EndDoes
<1>12. ASSUME NEW stage \in {"failed", "cancelled"}, NEW t \in SideRecord, t.claim = s.claim,
              Finish(p, t, r, stage)
       PROVE  NoLockPass(p) /\ at'[p] = "idle"
  <2>1. PICK u : u = [t EXCEPT !.stage = stage]
    OBVIOUS
  <2>2. u \in SideRecord /\ u.claim = s.claim
    BY <1>12, <2>1 DEF SideRecord, Terminal
  <2>3. End(p, u, r)
    BY <1>12, <2>1 DEF Finish
  <2> QED BY <1>11, <2>2, <2>3
<1>13. ASSUME NEW t \in SideRecord, t.claim = s.claim, Lock(p, t, r)
       PROVE  /\ NoLockPass(p)
              /\ at'[p] = "funding" => due' = due /\ seen'[p] = [r EXCEPT !.h = 0]
              /\ at'[p] # "scanned"
  <2>1. CASE End(p, t, r)
    BY <1>11, <1>13, <2>1
  <2>2. CASE /\ Alone(p) /\ due' = due /\ at'[p] = "funding" /\ seen'[p] = [r EXCEPT !.h = 0]
             /\ side'[p] = disk'[p] /\ side'[p] # None /\ side'[p].claim = t.claim
    <3>1. Moves(p)
      BY <1>5, <1>9, <2>2 DEF Moves, Alone
    <3>2. [r EXCEPT !.h = 0].mine = r.mine
      BY <1>1, <1>3 DEF SeenOK, ReadOK
    <3> QED BY <1>2, <1>3, <1>5, <1>10, <1>13, <2>2, <3>1, <3>2 DEF NoLockPass
  <2> QED BY <1>13, <2>1, <2>2, LockDoes
<1>14. CASE p = taker
  <2>1. \/ End(p, v, r) \/ Lock(p, v, r)
        \/ Finish(p, v, r, "failed") \/ Finish(p, v, r, "cancelled")
    BY <1>9, <1>14 DEF TakerDecides
  <2> QED BY <1>3, <1>8, <1>11, <1>12, <1>13, <1>14, <2>1, SwapAssumption
<1>15. CASE p = maker
  <2>1. PICK i : i = pickExact(theirs, TRUE)
    OBVIOUS
  <2>2. \/ Finish(p, [v EXCEPT !.abort = TRUE], r, "cancelled")
        \/ End(p, v, r)
        \/ /\ Lock(p, [v EXCEPT !.theirLock = i], r)
           /\ i # 0 /\ ~(theirs[i].confs < Confirmations[TakerChain])
           /\ ~MustAbort(v, r, theirs, i)
    BY <1>9, <1>15, <2>1 DEF MakerDecides
  <2>3. PICK a : a = [v EXCEPT !.abort = TRUE]
    OBVIOUS
  <2>4. a \in SideRecord /\ a.claim = s.claim
    BY <1>8, <2>3 DEF SideRecord
  <2>5. ASSUME Lock(p, [v EXCEPT !.theirLock = i], r),
               i # 0, ~(theirs[i].confs < Confirmations[TakerChain]), ~MustAbort(v, r, theirs, i)
        PROVE  /\ NoLockPass(p)
               /\ at'[p] = "funding" => due' = due /\ seen'[p] = [r EXCEPT !.h = 0]
               /\ at'[p] # "scanned"
               /\ 1 \in DOMAIN theirs /\ theirs[1].spend = "none" /\ ~WindowTooShort(theirs[1])
    <3>1. DOMAIN theirs \subseteq {1} /\ (1 \in DOMAIN theirs => outs[TheirChain(p)] # <<>>)
      BY <1>1, <1>4, ScanOK, SideChains
    <3>2. i = 1 /\ 1 \in DOMAIN theirs /\ theirs[1].spend = "none"
      <4>1. TRUE \in BOOLEAN
        OBVIOUS
      <4> QED BY <2>1, <2>5, <3>1, <4>1, PickOne
    <3>3. ~WindowTooShort(theirs[1])
      BY <2>5, <3>2 DEF MustAbort
    <3>4. PICK t : t = [v EXCEPT !.theirLock = i]
      OBVIOUS
    <3>5. t \in SideRecord /\ t.claim = s.claim
      <4>1. 1 \in 0..MaxLocks
        <5>1. TheirChain(p) \in Chains /\ MaxLocks \in Nat
          BY SideChains, SwapAssumption
        <5> QED BY <1>1, <3>1, <3>2, <5>1 DEF OutsOK
      <4> QED BY <1>8, <3>2, <3>4, <4>1 DEF SideRecord
    <3> QED BY <1>13, <2>5, <3>2, <3>3, <3>4, <3>5
  <2>6. CASE Finish(p, a, r, "cancelled") \/ End(p, v, r)
    BY <1>8, <1>11, <1>12, <2>4, <2>6
  <2> QED BY <1>3, <1>4, <1>15, <2>2, <2>3, <2>5, <2>6, Peers
<1> QED BY <1>14, <1>15 DEF Side

(* A window that is not too short is one to fund in.                       *)
LEMMA WindowFunds ==
  ASSUME NEW out, out.confs \in Nat, ~WindowTooShort(out),
         NEW l \in -MaxDrift..MaxDrift, NEW o \in BOOLEAN
  PROVE  Funds(out.confs, l, o)
<1>1. PICK t \in Nat : t = out.confs
  OBVIOUS
<1>2. PICK x \in Int, y \in Int, q \in Int :
        /\ x = TakerSeconds * t /\ y = (TakerBlocks + 1) * TakerSeconds
        /\ q = (MakerBlocks + 1) * MakerSeconds
  BY TimeTypes
<1>3. (TakerBlocks - t + 1) * TakerSeconds = y - x
  BY <1>2, TimeTypes
<1>4. y - x >= q + windowMarginSecs
  <2>1. ~((TakerBlocks - t + 1) * TakerSeconds < q + windowMarginSecs)
    BY <1>1, <1>2 DEF WindowTooShort, TakerBlocks, TakerSeconds, MakerBlocks, MakerSeconds
  <2> QED BY <1>2, <1>3, <2>1, TimeTypes
<1>5. PICK f \in Int : f = FundingAge /\ f = y - q - windowMarginSecs + MaxDrift
  BY <1>2, TimeTypes DEF FundingAge
<1>6. PICK e \in Nat : e = MakerSeconds * Count(o)
  BY TimeTypes DEF Count
<1>7. l \in Int /\ 0 - l <= MaxDrift
  BY TimeTypes
<1>8. x - l <= f + e
  BY <1>2, <1>4, <1>5, <1>6, <1>7, TimeTypes
<1> QED BY <1>1, <1>2, <1>5, <1>6, <1>8 DEF Funds

(* A maker without an HTLC has read of none.                               *)
LEMMA MakerBlind ==
  ASSUME SwapInv, ~HasLock(maker)
  PROVE  1 \notin DOMAIN scan(MakerChain) /\ 1 \notin DOMAIN seen[maker].mine
<1>1. TypeOK /\ OutsOK /\ SeenOK(maker)
  BY Peers DEF SwapInv
<1>2. MakerChain \in Chains /\ MyChain(maker) = MakerChain /\ outs[MakerChain] = <<>>
  BY Peers DEF Chains, HasLock
<1> QED BY <1>1, <1>2, ScanOK DEF SeenOK, ReadOK, FoundOK

(* A pass of the maker before its HTLC.                                    *)
LEMMA MakerQuiet ==
  ASSUME SwapInv, NoLockPass(maker),
         InTime(maker) /\ at'[maker] \in {"scanned", "funding"} =>
           1 \notin DOMAIN seen'[maker].mine /\ 1 \notin DOMAIN seen'[maker].theirs,
         at'[maker] = "funding" =>
           /\ due' = due
           /\ 1 \in DOMAIN scan(TakerChain) /\ scan(TakerChain)[1].spend = "none"
           /\ ~WindowTooShort(scan(TakerChain)[1])
  PROVE  MakerInTime' /\ Moves(maker) /\ OutsMove(maker)
<1>1. TypeOK /\ OutsOK
  BY DEF SwapInv
<1>2. /\ Moves(maker) /\ UNCHANGED <<outs, lead, setting>>
      /\ at'[maker] \in {"idle", "scanned", "funding"} /\ (~setting.lag => ~HasLock(maker))
  BY DEF NoLockPass, Moves
<1>3. /\ OutsMove(maker) /\ (HasLock(maker)' <=> HasLock(maker))
  BY <1>1, <1>2, Peers, StillMove
<1>4. InTime(maker)' => InTime(maker)
  BY <1>2 DEF InTime, EnoughTime, MakerSeconds, TakerSeconds, claimSafetyBlocks
<1>5. CASE setting.lag
  <2>1. ~InTime(maker)'
    BY <1>2, <1>5 DEF InTime
  <2> QED BY <1>2, <1>3, <2>1 DEF MakerInTime
<1>6. CASE ~setting.lag /\ at'[maker] \in {"idle", "scanned"}
  <2>1. ~HasLock(maker)'
    BY <1>2, <1>3, <1>6
  <2>2. MakerHolds' /\ MakerKnows(side[maker])' /\ MakerKnows(disk[maker])'
    BY <2>1 DEF MakerHolds, MakerKnows
  <2>3. MakerFunds'
    BY <1>6 DEF MakerFunds
  <2>4. InTime(maker)' => MakerReads'
    BY <1>6, <1>4 DEF MakerReads
  <2> QED BY <1>2, <1>3, <2>2, <2>3, <2>4 DEF MakerInTime
<1>7. CASE ~setting.lag /\ at'[maker] = "funding"
  <2>1. ~HasLock(maker)'
    BY <1>2, <1>3, <1>7
  <2>2. HasLock(taker) /\ MyOut(taker) = scan(TakerChain)[1] /\ MyOut(taker).confs \in Nat
    <3>1. TakerChain \in Chains /\ MyChain(taker) = TakerChain
      BY Peers DEF Chains
    <3>2. /\ DOMAIN scan(TakerChain) =
               IF outs[TakerChain] # <<>> /\ outs[TakerChain][1].listed THEN {1} ELSE {}
          /\ \A i \in DOMAIN scan(TakerChain) : scan(TakerChain)[i] = outs[TakerChain][1]
      BY <1>1, <3>1, ScanOK
    <3>3. HasLock(taker) /\ MyOut(taker) = scan(TakerChain)[1]
      BY <1>7, <3>1, <3>2 DEF HasLock, MyOut
    <3> QED BY <1>1, <3>3, Peers, OutTypes
  <2>3. MakerFunds'
    <3>1. HasLock(taker)' /\ MyOut(taker)' = MyOut(taker)
      BY <1>2, <2>2 DEF HasLock, MyOut, MyChain
    <3>2. lead \in -MaxDrift..MaxDrift /\ (maker \in due) \in BOOLEAN
      BY <1>1 DEF TypeOK
    <3>3. Funds(MyOut(taker).confs, lead, maker \in due)
      BY <1>7, <2>2, <3>2, WindowFunds
    <3>4. MyOut(taker)'.spend # "refund"
      BY <1>7, <2>2, <3>1
    <3>5. Funds(MyOut(taker)'.confs, lead', maker \in due')
      BY <1>2, <1>7, <3>1, <3>3
    <3> QED BY <3>1, <3>4, <3>5
         DEF MakerFunds, Funds, FundingAge, MakerSeconds, TakerSeconds, MakerBlocks, TakerBlocks
  <2>4. InTime(maker)' => MakerReads'
    BY <1>7, <1>4 DEF MakerReads
  <2>5. MakerHolds' /\ MakerKnows(side[maker])' /\ MakerKnows(disk[maker])'
    BY <2>1 DEF MakerHolds, MakerKnows
  <2> QED BY <1>2, <1>3, <2>3, <2>4, <2>5 DEF MakerInTime
<1> QED BY <1>2, <1>5, <1>6, <1>7

(* What the call that funds an HTLC leaves.                                *)
LEMMA FundDoes ==
  ASSUME SwapInv, NEW p \in Side, Fund(p)
  PROVE  /\ Moves(p) /\ OutsMove(p) /\ ~HasLock(p) /\ at[p] = "funding"
         /\ side'[p] = side[p] /\ disk'[p] = side[p] /\ side[p] # None
         /\ side[p].stage = "active" /\ seen'[p] \in {seen[p], Nothing}
         /\ \/ outs' = outs /\ at'[p] = "idle"
            \/ /\ HasLock(p)' /\ MyOut(p)'.confs = 0 /\ ~MyOut(p)'.mined
               /\ MyOut(p)'.spend = "none" /\ MyOut(Peer(p))' = MyOut(Peer(p))
               /\ at'[p] = "idle" \/ (at'[p] = "funded" /\ seen'[p] = seen[p])
<1>1. TypeOK /\ OutsOK /\ StepOK(p)
  BY DEF SwapInv
<1>2. /\ at[p] = "funding" /\ ~HasLock(p)
      /\ UNCHANGED <<board, lead, posts, stale, setting>>
      /\ \/ /\ outs' \in Fundings(MyChain(p)) /\ Await(p, "funded", seen[p])
            /\ UNCHANGED <<side, disk, faults>>
         \/ outs' \in {outs} \cup Fundings(MyChain(p)) /\ Fault /\ End(p, side[p], seen[p])
  BY <1>1 DEF Fund, StepOK, HasLock
<1>3. /\ ~HasLock(p) /\ disk[p] = side[p] /\ side[p] # None /\ side[p].stage = "active"
  BY <1>1, <1>2 DEF StepOK
<1>4. PICK s : s = side[p]
  OBVIOUS
<1>5. /\ Alone(p) /\ (Fault \/ UNCHANGED faults)
      /\ side'[p] = s /\ disk'[p] = s
      /\ seen'[p] \in {seen[p], Nothing}
      /\ at'[p] = "idle" \/ (at'[p] = "funded" /\ seen'[p] = seen[p] /\ outs' # outs)
  <2>1. CASE /\ outs' \in Fundings(MyChain(p)) /\ Await(p, "funded", seen[p])
             /\ UNCHANGED <<side, disk, faults>>
    <3>1. Hold(p, s)
      BY <1>1, <1>4, <2>1 DEF Hold, TypeOK
    <3>2. /\ Alone(p) /\ at'[p] = "funded" /\ seen'[p] = seen[p] /\ side'[p] = s
      BY <2>1, <3>1, SendAlone
    <3>3. outs' # outs
      BY <1>2, <1>3, <2>1, FundOut DEF HasLock
    <3> QED BY <1>3, <1>4, <2>1, <3>2, <3>3
  <2>2. CASE Fault /\ End(p, side[p], seen[p])
    <3>1. /\ Alone(p) /\ at'[p] = "idle" /\ seen'[p] = Nothing /\ side'[p] = disk'[p]
          /\ side'[p] = s \/ (side'[p] = None /\ s.stage \in Terminal)
      BY <1>4, <2>2, EndAlone
    <3> QED BY <1>3, <1>4, <2>2, <3>1 DEF Terminal
  <2> QED BY <1>2, <2>1, <2>2
<1>6. Moves(p)
  BY <1>2, <1>5 DEF Moves, Alone
<1>7. CASE outs' = outs
  BY <1>1, <1>2, <1>3, <1>4, <1>5, <1>6, <1>7, StillMove
<1>8. CASE outs' \in Fundings(MyChain(p))
  <2>1. OutsMove(p)
    BY <1>2, <1>8, FundMove
  <2>2. /\ HasLock(p)' /\ \A d \in Chains : d # MyChain(p) => outs'[d] = outs[d]
        /\ outs'[MyChain(p)][1].confs = 0 /\ outs'[MyChain(p)][1].spend = "none"
        /\ ~outs'[MyChain(p)][1].mined
    BY <1>2, <1>8, FundOut
  <2>3. MyOut(Peer(p))' = MyOut(Peer(p))
    <3>1. MyChain(Peer(p)) \in Chains /\ MyChain(Peer(p)) # MyChain(p)
      BY PeerChain, SideChains
    <3> QED BY <2>2, <3>1 DEF MyOut, MyChain, Peer
  <2>4. MyOut(p)'.confs = 0 /\ MyOut(p)'.spend = "none" /\ ~MyOut(p)'.mined
    BY <2>2 DEF MyOut, MyChain
  <2> QED BY <1>2, <1>3, <1>4, <1>5, <1>6, <2>1, <2>2, <2>3, <2>4
<1> QED BY <1>2, <1>7, <1>8

LEMMA MakerPutsUp ==
  ASSUME SwapInv, MakerInTime, Fund(maker)
  PROVE  MakerInTime' /\ Moves(maker) /\ OutsMove(maker)
<1>1. /\ Moves(maker) /\ OutsMove(maker) /\ ~HasLock(maker) /\ at[maker] = "funding"
      /\ side'[maker] = side[maker] /\ disk'[maker] = side[maker] /\ side[maker] # None
      /\ side[maker].stage = "active"
      /\ \/ outs' = outs /\ at'[maker] = "idle"
         \/ /\ HasLock(maker)' /\ MyOut(maker)'.confs = 0 /\ ~MyOut(maker)'.mined
            /\ MyOut(maker)'.spend = "none" /\ MyOut(taker)' = MyOut(taker)
            /\ at'[maker] = "idle" \/ (at'[maker] = "funded" /\ seen'[maker] = seen[maker])
  BY Peers, FundDoes
<1>2. CASE outs' = outs /\ at'[maker] = "idle"
  <2>1. ~HasLock(maker)'
    BY <1>1, <1>2 DEF HasLock, MyChain
  <2> QED BY <1>1, <1>2, <2>1, MakerNone
<1>3. CASE /\ HasLock(maker)' /\ MyOut(maker)'.confs = 0 /\ ~MyOut(maker)'.mined
           /\ MyOut(maker)'.spend = "none" /\ MyOut(taker)' = MyOut(taker)
           /\ at'[maker] = "idle" \/ (at'[maker] = "funded" /\ seen'[maker] = seen[maker])
  <2> SUFFICES ASSUME InTime(maker)'
               PROVE  (MakerFunds /\ MakerHolds /\ MakerReads
                       /\ MakerKnows(side[maker]) /\ MakerKnows(disk[maker]))'
    BY <1>1 DEF MakerInTime
  <2>1. InTime(maker)
    BY <1>1 DEF Moves, InTime, EnoughTime, MakerSeconds, TakerSeconds, claimSafetyBlocks
  <2>2. MakerFunds /\ MakerReads
    BY <2>1 DEF MakerInTime
  <2>3. MakerFunds'
    BY <1>3 DEF MakerFunds
  <2>4. MakerHolds'
    <3>1. /\ HasLock(taker) /\ MyOut(taker).spend # "refund"
          /\ Funds(MyOut(taker).confs, lead, maker \in due)
      BY <1>1, <2>2 DEF MakerFunds
    <3>2. HasLock(taker)'
      BY <1>1, <3>1, Peers DEF OutsMove, SameAges
    <3>3. PICK t \in Nat, l \in Int, o \in BOOLEAN, k \in Nat, w \in Nat :
            /\ t = MyOut(taker).confs /\ l = lead /\ o = (maker \in due)
            /\ k = faults' /\ w = RefundWaits'
      <4>1. MyOut(taker).confs \in Nat /\ lead \in Int
        BY <3>1, Peers, OutTypes, TimeTypes DEF SwapInv, TypeOK
      <4>2. faults' \in Nat /\ RefundWaits' \in Nat /\ (maker \in due) \in BOOLEAN
        BY <1>1, FaultsGrow, WaitTypes DEF Moves
      <4> QED BY <4>1, <4>2
    <3>4. Early(t, 0, l, k, w)
      BY <3>1, <3>3, FundsEarly
    <3>5. lead' = lead
      BY <1>1 DEF Moves
    <3>6. Early(MyOut(taker)'.confs, MyOut(maker)'.confs, lead', faults', RefundWaits')
      BY <1>3, <3>3, <3>4, <3>5
    <3> QED BY <1>3, <3>1, <3>2, <3>6
         DEF MakerHolds, Early, FundingAge, MakerSeconds, TakerSeconds, MakerBlocks, TakerBlocks
  <2>5. MakerReads'
    <3>1. at'[maker] = "funded" =>
            1 \notin DOMAIN seen'[maker].mine /\ 1 \notin DOMAIN seen'[maker].theirs
      BY <1>1, <1>3, <2>2 DEF MakerReads
    <3>2. 0 <= Count(maker \in due')
      BY DEF Count
    <3> QED BY <1>3, <3>1, <3>2 DEF MakerReads, Count
  <2>6. MakerKnows(side[maker])' /\ MakerKnows(disk[maker])'
    BY <1>1 DEF MakerKnows, Terminal
  <2> QED BY <2>3, <2>4, <2>5, <2>6
<1> QED BY <1>1, <1>2, <1>3

(* A pass that comes to nothing, and a restart.                            *)
LEMMA FailDoes ==
  ASSUME SwapInv, NEW p \in Side, PassFails(p) \/ Crash(p)
  PROVE  /\ Moves(p) /\ OutsMove(p) /\ UNCHANGED outs /\ Fault
         /\ at'[p] = "idle" /\ seen'[p] = Nothing /\ side'[p] = disk'[p]
         /\ Lives(disk[p]) => Lives(side'[p])
         /\ side'[p] # None =>
              \/ disk[p] # None /\ side'[p].claim = disk[p].claim
              \/ (side[p] # None \/ Starts(p)) /\ ~side'[p].claim /\ ~Claims(side[p])
<1>1. TypeOK /\ OutsOK /\ StepOK(p) /\ SeenOK(p) /\ RecordOK(p, side[p])
  BY DEF SwapInv
<1>2. Fault /\ UNCHANGED <<lead, outs, setting>>
  BY DEF PassFails, Crash, chains
<1>3. OutsMove(p)
  BY <1>1, <1>2, StillMove
<1>4. CASE Crash(p)
  <2>1. /\ side' = [side EXCEPT ![p] = disk[p]] /\ disk' = disk
        /\ at' = [at EXCEPT ![p] = "idle"] /\ seen' = [seen EXCEPT ![p] = Nothing]
        /\ due' = due
    BY <1>4 DEF Crash
  <2>2. /\ side \in [Side -> SideRecord \cup {None}] /\ seen = [q \in Side |-> seen[q]]
        /\ at \in [Side -> {"idle", "scanned", "funding", "funded", "claiming", "refunding"}]
    BY <1>1 DEF TypeOK, SeenOK
  <2>3. side'[p] = disk[p] /\ disk'[p] = disk[p] /\ at'[p] = "idle" /\ seen'[p] = Nothing
    BY <2>1, <2>2
  <2>4. ASSUME NEW q \in Side \ {p} PROVE SameLocal(q)
    BY <2>1, <2>2 DEF SameLocal
  <2> QED BY <1>2, <1>3, <2>3, <2>4 DEF Moves
<1>5. CASE at[p] = "scanned" /\ End(p, side[p], seen[p])
  <2>1. PICK s : s = side[p]
    OBVIOUS
  <2>2. s # None /\ s.stage = "active" /\ s.myLock = 0 /\ ~s.claim
    BY <1>1, <1>5, <2>1 DEF StepOK, RecordOK
  <2>3. /\ Alone(p) /\ at'[p] = "idle" /\ seen'[p] = Nothing /\ side'[p] = disk'[p]
        /\ side'[p] = s
    BY <1>5, <2>1, <2>2, EndAlone DEF Terminal
  <2>4. Moves(p)
    BY <1>2, <2>3 DEF Moves, Alone
  <2> QED BY <1>2, <1>3, <2>1, <2>2, <2>3, <2>4 DEF Lives, Claims, Terminal
<1>6. CASE Starts(p) /\ End(p, Adopted(p), Read(p))
  <2>1. PICK s : s = Adopted(p)
    OBVIOUS
  <2>2. Starts(p) /\ End(p, s, Read(p)) /\ at[p] = "idle" /\ disk[p] = side[p]
    BY <1>1, <1>6, <2>1 DEF Starts, StepOK
  <2>3. s \in SideRecord /\ s # None
    BY <2>1, <2>2, AdoptedOK, NoneAssumption
  <2>4. /\ Alone(p) /\ at'[p] = "idle" /\ seen'[p] = Nothing /\ side'[p] = disk'[p]
        /\ side'[p] = s \/ (side'[p] = None /\ s.stage \in Terminal)
    BY <2>2, EndAlone
  <2>5. /\ side[p] # None => s.stage = side[p].stage /\ s.claim = side[p].claim
        /\ side[p] = None => s.stage = "active" /\ ~s.claim
    BY <2>1, AdoptedFrom
  <2>6. Moves(p)
    BY <1>2, <2>4 DEF Moves, Alone
  <2> QED BY <1>2, <1>3, <2>2, <2>3, <2>4, <2>5, <2>6 DEF Lives, Claims
<1> QED BY <1>4, <1>5, <1>6 DEF PassFails

LEMMA MakerFails ==
  ASSUME SwapInv, MakerInTime, PassFails(maker) \/ Crash(maker)
  PROVE  MakerInTime' /\ Moves(maker) /\ OutsMove(maker)
<1>1. /\ Moves(maker) /\ OutsMove(maker) /\ UNCHANGED outs /\ Fault
      /\ at'[maker] = "idle" /\ side'[maker] = disk'[maker]
      /\ Lives(disk[maker]) => Lives(side'[maker])
  BY Peers, FailDoes
<1>2. CASE ~HasLock(maker)
  <2>1. ~HasLock(maker)'
    BY <1>1, <1>2 DEF HasLock, MyChain
  <2> QED BY <1>1, <2>1, MakerNone
<1>3. CASE HasLock(maker)
  <2>1. ASSUME InTime(maker), ~Resolved(maker)
        PROVE  MakerPays /\ Lives(side'[maker]) /\ Lives(disk'[maker])
    <3>1. Lives(disk[maker])
      BY <1>3, <2>1 DEF MakerInTime, MakerKnows, Lives
    <3> QED BY <1>1, <3>1 DEF MakerPays
  <2>2. MakerReads' /\ at'[maker] # "funding"
    BY <1>1, MakerIdle
  <2> QED BY <1>1, <1>3, <2>1, <2>2, MakerOwn
<1> QED BY <1>2, <1>3

-----------------------------------------------------------------------------
(* The secret.                                                             *)

LEMMA FundedFacts ==
  ASSUME SwapInv, NEW p \in Side, Funded(p)
  PROVE  /\ at[p] = "funded" /\ HasLock(p) /\ disk[p] = side[p]
         /\ UNCHANGED <<board, chains, faults, setting>>
         /\ ReadOK(p, seen[p])
         /\ \E s \in SideRecord :
              /\ WithLock(p, s, seen[p]) /\ Fits(p, s) /\ s.myLock = 1 /\ ~s.claim
              /\ side[p] # None /\ ~side[p].claim
<1>1. /\ at[p] = "funded" /\ UNCHANGED <<board, chains, faults, setting>>
      /\ WithLock(p, Knowing(side[p], Len(outs[MyChain(p)])), seen[p])
  BY DEF Funded
<1>2. TypeOK /\ OutsOK /\ StepOK(p) /\ SeenOK(p) /\ RecordOK(p, side[p])
  BY DEF SwapInv
<1>3. HasLock(p)
  BY <1>1, AtHas
<1>4. Len(outs[MyChain(p)]) = 1 /\ MaxLocks \in Nat /\ MaxLocks >= 1
  <2>1. MyChain(p) \in Chains
    BY SideChains
  <2> QED BY <1>2, <1>3, <2>1, SwapAssumption, OneOutput DEF OutsOK, HasLock
<1>5. PICK s : s = Knowing(side[p], 1)
  OBVIOUS
<1>6. /\ side[p] \in SideRecord /\ side[p] # None /\ side[p].myLock = 0
      /\ disk[p] = side[p] /\ ~side[p].claim /\ Fits(p, side[p])
  BY <1>1, <1>2, FitsSides DEF StepOK, RecordOK, TypeOK
<1>7. /\ s \in SideRecord /\ s.myLock = 1 /\ ~s.claim /\ s.theirLock = side[p].theirLock
  <2>1. 1 \in 0..MaxLocks
    BY <1>4
  <2> QED BY <1>5, <1>6, <2>1 DEF Knowing, SideRecord
<1>8. Fits(p, s)
  BY <1>4, <1>6, <1>7 DEF Fits
<1> QED BY <1>1, <1>2, <1>3, <1>4, <1>5, <1>6, <1>7, <1>8 DEF SeenOK

(* A pass with an HTLC claims again what it claims, and begins to claim    *)
(* when the maker sees the secret, or the taker a lock that is young.      *)
LEMMA FollowDoes ==
  ASSUME SwapInv, NEW p \in Side, LockedPass(p) \/ Funded(p)
  PROVE  /\ Moves(p) /\ OutsMove(p) /\ UNCHANGED outs /\ HasLock(p)
         /\ at[p] \in {"idle", "funded"} /\ disk[p] = side[p]
         /\ side[p] = None => Starts(p)
         /\ 1 \in DOMAIN seen'[p].mine =>
              \/ seen'[p].mine[1] = MyOut(p)
              \/ 1 \in DOMAIN seen[p].mine /\ seen'[p].mine[1] = seen[p].mine[1]
         /\ Claims(side[p]) =>
              /\ at[p] = "idle" /\ \A s \in {side'[p], disk'[p]} : s # None => s.claim
              /\ Unspent(Peer(p)) => due' = due /\ at'[p] = "claiming"
         /\ ~Claims(side[p]) =>
              \/ \A s \in {side'[p], disk'[p]} : ~Claims(s)
              \/ /\ Unspent(Peer(p)) /\ due' = due /\ at'[p] = "claiming"
                 /\ p = maker => Told
                 /\ p = taker => MyOut(maker).confs <= MakerBlocks - claimSafetyBlocks
<1>1. TypeOK /\ OutsOK
  BY DEF SwapInv
<1>2. PICK s, reading :
        /\ s \in SideRecord
        /\ at[p] \in {"idle", "funded"} /\ HasLock(p) /\ disk[p] = side[p]
        /\ side[p] = None => Starts(p)
        /\ UNCHANGED <<board, chains, faults, setting>>
        /\ ReadOK(p, reading)
        /\ reading.mine = scan(MyChain(p)) \/ reading.mine = seen[p].mine
        /\ WithLock(p, s, reading) /\ Fits(p, s) /\ s.myLock = 1
        /\ s.claim => s.theirLock # 0 /\ at[p] = "idle"
        /\ s.claim <=> Claims(side[p])
  <2>1. CASE LockedPass(p)
    <3>1. /\ at[p] = "idle" /\ HasLock(p) /\ disk[p] = side[p] /\ Starts(p)
          /\ UNCHANGED <<board, chains, faults, setting>>
          /\ ReadOK(p, Read(p)) /\ Read(p).mine = scan(MyChain(p))
      BY <2>1, LockedFacts DEF LockedPass
    <3>2. PICK s \in SideRecord :
            /\ WithLock(p, s, Read(p)) /\ Fits(p, s) /\ s.myLock = 1
            /\ s.claim => s.theirLock # 0
            /\ side[p] # None => s.claim = side[p].claim
            /\ side[p] = None => ~s.claim
      BY <2>1, LockedFacts
    <3>3. s.claim <=> Claims(side[p])
      BY <3>2 DEF Claims
    <3> QED BY <3>1, <3>2, <3>3
  <2>2. CASE Funded(p)
    <3>1. /\ at[p] = "funded" /\ HasLock(p) /\ disk[p] = side[p]
          /\ UNCHANGED <<board, chains, faults, setting>>
          /\ ReadOK(p, seen[p])
      BY <2>2, FundedFacts
    <3>2. PICK s \in SideRecord :
            /\ WithLock(p, s, seen[p]) /\ Fits(p, s) /\ s.myLock = 1 /\ ~s.claim
            /\ side[p] # None /\ ~side[p].claim
      BY <2>2, FundedFacts
    <3> QED BY <3>1, <3>2 DEF Claims
  <2> QED BY <2>1, <2>2
<1>3. PICK t, r :
        /\ t \in SideRecord /\ Same(s, t)
        /\ r.mine = reading.mine /\ r.theirs = scan(TheirChain(p)) /\ ReadOK(p, r)
        /\ \/ Claiming(p, s, reading, r)
           \/ /\ RefundOrEnd(p, t, r)
              /\ Unspent(Peer(p)) => ~s.claim /\ ~(p = maker /\ SpentBy(reading.mine, 1) = "claim")
  BY <1>2, WithLockDoes
<1>4. OutsMove(p) /\ UNCHANGED outs
  BY <1>1, <1>2, StillMove DEF chains
<1>5. 1 \in DOMAIN r.mine =>
        \/ r.mine[1] = MyOut(p)
        \/ 1 \in DOMAIN seen[p].mine /\ r.mine[1] = seen[p].mine[1]
  BY <1>1, <1>2, <1>3, ScanOK, SideChains DEF MyOut
<1>6. CASE Claiming(p, s, reading, r)
  <2>1. /\ Unspent(Peer(p)) /\ Alone(p) /\ due' = due /\ at'[p] = "claiming" /\ seen'[p] = r
        /\ side'[p].claim
        /\ (s.claim /\ disk'[p] = disk[p]) \/ disk'[p].claim
        /\ \/ s.claim
           \/ p = maker /\ SpentBy(reading.mine, 1) = "claim"
           \/ p = taker /\ MyOut(maker).confs <= MakerBlocks - claimSafetyBlocks
    BY <1>6 DEF Claiming
  <2>2. Moves(p)
    BY <1>2, <2>1 DEF Moves, Alone, chains
  <2>3. p = maker /\ SpentBy(reading.mine, 1) = "claim" => Told
    <3> SUFFICES ASSUME p = maker, SpentBy(reading.mine, 1) = "claim" PROVE Told
      OBVIOUS
    <3>1. 1 \in DOMAIN reading.mine /\ reading.mine[1].spend = "claim"
      BY DEF SpentBy
    <3> QED BY <1>2, <1>3, <1>5, <3>1 DEF Told
  <2>4. s.claim /\ disk'[p] # None => disk'[p].claim
    BY <1>2, <2>1 DEF Claims
  <2> QED BY <1>2, <1>4, <1>5, <2>1, <2>2, <2>3, <2>4, Peers
<1>7. CASE /\ RefundOrEnd(p, t, r)
           /\ Unspent(Peer(p)) => ~s.claim
  <2>1. /\ Alone(p) /\ seen'[p] \in {r, Nothing}
        /\ side'[p] # None => side'[p].claim = t.claim
        /\ disk'[p] \in {disk[p], side'[p]} \/ Same(t, disk'[p])
    BY <1>3, <1>7, RefundOrEndDoes DEF Same
  <2>2. Moves(p)
    BY <1>2, <2>1 DEF Moves, Alone, chains
  <2>3. t.claim = s.claim
    BY <1>3 DEF Same
  <2>4. disk'[p] # None => (disk'[p].claim <=> s.claim)
    <3>1. CASE disk'[p] = disk[p]
      BY <1>2, <3>1 DEF Claims
    <3>2. CASE disk'[p] = side'[p]
      BY <2>1, <2>3, <3>2
    <3>3. CASE Same(t, disk'[p])
      BY <2>3, <3>3 DEF Same
    <3> QED BY <2>1, <3>1, <3>2, <3>3
  <2>5. 1 \in DOMAIN seen'[p].mine => seen'[p] = r
    BY <2>1 DEF Nothing
  <2>6. s.claim => \A u \in {side'[p], disk'[p]} : u # None => u.claim
    BY <2>1, <2>3, <2>4
  <2>7. ~s.claim => \A u \in {side'[p], disk'[p]} : ~Claims(u)
    BY <2>1, <2>3, <2>4 DEF Claims
  <2> QED BY <1>2, <1>4, <1>5, <1>7, <2>2, <2>5, <2>6, <2>7
<1> QED BY <1>3, <1>6, <1>7

LEMMA RefundDoes ==
  ASSUME SwapInv, NEW p \in Side, Refund(p)
  PROVE  /\ Moves(p) /\ OutsMove(p) /\ MyOut(Peer(p))' = MyOut(Peer(p))
         /\ at[p] = "refunding" /\ at'[p] = "idle" /\ seen'[p] = Nothing /\ due' = due \ {p}
         /\ side[p] # None
         /\ \A s \in {side'[p], disk'[p]} : s # None => s.claim = side[p].claim
<1>1. /\ at[p] = "refunding" /\ UNCHANGED <<board, lead, posts, stale, setting>>
      /\ \/ /\ outs' = Spending(MyChain(p), side[p].myLock, "refund")
            /\ UNCHANGED faults
         \/ UNCHANGED outs /\ Fault
  BY DEF Refund
<1>2. TypeOK /\ OutsOK /\ StepOK(p)
  BY DEF SwapInv
<1>3. PICK s : s = side[p]
  OBVIOUS
<1>4. PICK r : r = seen[p]
  OBVIOUS
<1>5. s \in SideRecord /\ s # None
  BY <1>1, <1>2, <1>3 DEF StepOK, TypeOK
<1>6. PICK stage : stage = StageOf(p, s, r.mine, r.theirs)
  OBVIOUS
<1>7. PICK t : t = [s EXCEPT !.stage = stage]
  OBVIOUS
<1>8. t.claim = s.claim
  BY <1>5, <1>7 DEF SideRecord
<1>9. End(p, t, r)
  BY <1>3, <1>4, <1>6, <1>7 DEF Refund, Finish
<1>10. /\ Alone(p) /\ due' = due \ {p} /\ at'[p] = "idle" /\ seen'[p] = Nothing
       /\ side'[p] = disk'[p] /\ side'[p] \in {t, None}
  BY <1>9, EndAlone
<1>11. OutsMove(p) /\ MyOut(Peer(p))' = MyOut(Peer(p))
  <2>1. CASE outs' = Spending(MyChain(p), side[p].myLock, "refund")
    BY <1>1, <2>1, RefundMove
  <2>2. CASE UNCHANGED outs
    BY <1>1, <1>2, <2>2, StillMove DEF MyOut, MyChain, Peer
  <2> QED BY <1>1, <2>1, <2>2
<1>12. Moves(p)
  BY <1>1, <1>10 DEF Moves, Alone
<1> QED BY <1>1, <1>3, <1>5, <1>8, <1>10, <1>11, <1>12

LEMMA ClaimDoes ==
  ASSUME SwapInv, NEW p \in Side, Claim(p)
  PROVE  /\ Moves(p) /\ OutsMove(p) /\ at[p] = "claiming"
         /\ Fault \/ MyOut(Peer(p))'.spend # "none"
         /\ Claims(side[p]) /\ Claims(disk[p]) /\ HasLock(p)
         /\ \A s \in {side'[p], disk'[p]} : s # None => s.claim
<1>1. /\ at[p] = "claiming" /\ UNCHANGED <<board, lead, posts, stale, setting>>
      /\ \/ /\ outs' = Spending(TheirChain(p), side[p].theirLock, "claim")
            /\ UNCHANGED faults
         \/ UNCHANGED outs /\ Fault
      /\ RefundOrEnd(p, side[p], seen[p])
  BY DEF Claim
<1>2. TypeOK /\ OutsOK /\ StepOK(p)
  BY DEF SwapInv
<1>3. PICK s : s = side[p]
  OBVIOUS
<1>4. /\ s \in SideRecord /\ s # None /\ s.claim /\ disk[p] # None /\ disk[p].claim
  BY <1>1, <1>2, <1>3 DEF StepOK, TypeOK
<1>5. HasLock(p)
  BY <1>1, AtHas
<1>6. OutsMove(p) /\ (Fault \/ MyOut(Peer(p))'.spend # "none")
  <2>1. CASE outs' = Spending(TheirChain(p), side[p].theirLock, "claim")
    BY <1>1, <2>1, ClaimMove
  <2>2. CASE UNCHANGED outs /\ Fault
    BY <1>1, <1>2, <2>2, StillMove
  <2> QED BY <1>1, <2>1, <2>2
<1>7. PICK r : r = seen[p]
  OBVIOUS
<1>8. RefundOrEnd(p, s, r)
  BY <1>1, <1>3, <1>7
<1>9. /\ Alone(p) /\ (side'[p] # None => side'[p].claim)
      /\ disk'[p] # None => disk'[p].claim
  BY <1>4, <1>8, RefundOrEndDoes DEF Same
<1>10. Moves(p)
  BY <1>1, <1>9 DEF Moves, Alone
<1> QED BY <1>1, <1>3, <1>4, <1>5, <1>6, <1>9, <1>10 DEF Claims

(* The maker learns the secret from the chain only.                        *)
LEMMA MakerTells ==
  ASSUME SwapInv, TakerTold, Moves(maker), OutsMove(maker),
         Claims(side'[maker]) \/ Claims(disk'[maker]) => Told,
         1 \in DOMAIN seen'[maker].mine => (seen'[maker].mine[1].spend = "claim" => Told)
  PROVE  TakerTold'
<1>1. at[maker] = "claiming" => Told
  BY Peers DEF SwapInv, StepOK, Told, Claims
<1>2. HasLock(maker)' /\ MyOut(maker)'.spend = "claim" => Told
  BY DEF OutsMove, Told
<1>3. HasLock(taker)' /\ MyOut(taker)'.spend = "claim" => Told
  BY <1>1, Peers DEF OutsMove, Told
<1>4. Told' => Told
  BY <1>2, <1>3 DEF Told, Claims
<1>5. SameLocal(taker) /\ Grows
  BY Peers DEF Moves, OutsMove
<1> QED BY <1>4, <1>5, ToldKept

LEMMA MakerStep ==
  ASSUME SwapInv, MakerInTime, TakerTold, Pass(maker) \/ PassFails(maker) \/ Crash(maker)
  PROVE  MakerInTime' /\ Moves(maker) /\ OutsMove(maker) /\ TakerTold'
<1>1. TypeOK /\ OutsOK
  BY DEF SwapInv
<1>2. MakerInTime' /\ Moves(maker) /\ OutsMove(maker)
  <2>1. CASE DormantPass(maker) \/ ProofsPass(maker) \/ GiveUpPass(maker)
    BY <2>1, Peers, QuietDoes, MakerQuiet
  <2>2. CASE EscrowPass(maker)
    <3>1. /\ NoLockPass(maker) /\ at'[maker] = "scanned"
          /\ seen'[maker].mine = scan(MakerChain) /\ seen'[maker].theirs = <<>>
      BY <2>2, Peers, EscrowDoes
    <3>2. InTime(maker) => 1 \notin DOMAIN scan(MakerChain)
      BY <3>1, MakerBlind DEF InTime, NoLockPass
    <3> QED BY <3>1, <3>2, MakerQuiet
  <2>3. CASE Decide(maker)
    <3>1. NoLockPass(maker) /\ at'[maker] # "scanned"
      BY <2>3, Peers, DecideDoes
    <3>2. at'[maker] = "funding" =>
            /\ due' = due /\ seen'[maker] = [seen[maker] EXCEPT !.h = 0]
            /\ 1 \in DOMAIN scan(TakerChain) /\ scan(TakerChain)[1].spend = "none"
            /\ ~WindowTooShort(scan(TakerChain)[1])
      BY <2>3, Peers, DecideDoes
    <3>3. InTime(maker) =>
            1 \notin DOMAIN seen[maker].mine /\ 1 \notin DOMAIN seen[maker].theirs
      BY <2>3, <3>1, MakerBlind DEF InTime, NoLockPass, MakerInTime, MakerReads, Decide
    <3>4. SeenOK(maker)
      BY Peers DEF SwapInv
    <3>5. seen'[maker] = [seen[maker] EXCEPT !.h = 0] =>
            seen'[maker].mine = seen[maker].mine /\ seen'[maker].theirs = seen[maker].theirs
      BY <3>4 DEF SeenOK, ReadOK
    <3> QED BY <3>1, <3>2, <3>3, <3>5, MakerQuiet
  <2> QED BY <2>1, <2>2, <2>3, MakerPasses, MakerPutsUp, MakerFunded, MakerClaims, MakerRefunds,
             MakerFails DEF Pass
<1>3. CASE NoLockPass(maker)
  <2>1. Adopted(maker).claim => Claims(side[maker])
    BY Peers, AdoptedFrom DEF Claims
  <2>2. Claims(side'[maker]) \/ Claims(disk'[maker]) => Told
    BY <1>3, <2>1 DEF NoLockPass, Claims, Told
  <2>3. 1 \in DOMAIN seen'[maker].mine => (seen'[maker].mine[1].spend = "claim" => Told)
    <3> SUFFICES ASSUME 1 \in DOMAIN seen'[maker].mine, seen'[maker].mine[1].spend = "claim"
                 PROVE  Told
      OBVIOUS
    <3>1. seen'[maker].mine = seen[maker].mine \/ seen'[maker].mine = scan(MakerChain)
      BY <1>3, Peers DEF NoLockPass
    <3>2. MakerChain \in Chains
      BY DEF Chains
    <3>3. seen'[maker].mine = scan(MakerChain) =>
            scan(MakerChain)[1] = MyOut(maker) /\ HasLock(maker)
      BY <1>1, <3>2, ScanOK, Peers DEF HasLock, MyOut
    <3> QED BY <3>1, <3>3 DEF Told
  <2> QED BY <1>2, <2>2, <2>3, MakerTells
<1>4. CASE Fund(maker)
  <2>1. /\ side'[maker] = side[maker] /\ disk'[maker] = side[maker]
        /\ seen'[maker] \in {seen[maker], Nothing}
    BY <1>4, Peers, FundDoes
  <2> QED BY <1>2, <2>1, MakerTells DEF Told, Nothing
<1>5. CASE LockedPass(maker) \/ Funded(maker)
  <2>1. /\ HasLock(maker)
        /\ 1 \in DOMAIN seen'[maker].mine =>
             \/ seen'[maker].mine[1] = MyOut(maker)
             \/ 1 \in DOMAIN seen[maker].mine /\ seen'[maker].mine[1] = seen[maker].mine[1]
        /\ ~Claims(side[maker]) => Told \/ \A s \in {side'[maker], disk'[maker]} : ~Claims(s)
    BY <1>5, Peers, FollowDoes
  <2>2. 1 \in DOMAIN seen'[maker].mine => (seen'[maker].mine[1].spend = "claim" => Told)
    BY <2>1 DEF Told
  <2>3. Claims(side'[maker]) \/ Claims(disk'[maker]) => Told
    BY <2>1 DEF Told
  <2> QED BY <1>2, <2>2, <2>3, MakerTells
<1>6. CASE Claim(maker)
  <2>1. Told
    BY <1>6, Peers, ClaimDoes DEF Told
  <2> QED BY <1>2, <2>1, MakerTells
<1>7. CASE Refund(maker)
  <2>1. /\ side[maker] # None /\ seen'[maker] = Nothing
        /\ \A s \in {side'[maker], disk'[maker]} : s # None => s.claim = side[maker].claim
    BY <1>7, Peers, RefundDoes
  <2>2. Claims(side'[maker]) \/ Claims(disk'[maker]) => Told
    BY <2>1 DEF Told, Claims
  <2>3. 1 \notin DOMAIN seen'[maker].mine
    BY <2>1 DEF Nothing
  <2> QED BY <1>2, <2>2, <2>3, MakerTells
<1>8. CASE PassFails(maker) \/ Crash(maker)
  <2>1. /\ seen'[maker] = Nothing /\ side'[maker] = disk'[maker]
        /\ side'[maker] # None =>
             \/ disk[maker] # None /\ side'[maker].claim = disk[maker].claim
             \/ ~side'[maker].claim
    BY <1>8, Peers, FailDoes
  <2>2. Claims(side'[maker]) \/ Claims(disk'[maker]) => Told
    BY <2>1 DEF Told, Claims
  <2>3. 1 \notin DOMAIN seen'[maker].mine
    BY <2>1 DEF Nothing
  <2> QED BY <1>2, <2>2, <2>3, MakerTells
<1>9. NoLockPass(maker) \/ ~(DormantPass(maker) \/ ProofsPass(maker) \/ GiveUpPass(maker)
                             \/ EscrowPass(maker) \/ Decide(maker))
  BY Peers, QuietDoes, EscrowDoes, DecideDoes
<1> QED BY <1>3, <1>4, <1>5, <1>6, <1>7, <1>8, <1>9 DEF Pass

-----------------------------------------------------------------------------
(* Steps of the taker.                                                     *)

(* Whatever the taker has written of the match, it claims.                 *)
Sworn == HasLock(taker) /\ \A s \in {side[taker], disk[taker]} : s # None => s.claim

LEMMA TakerSwears ==
  ASSUME SwapInv, TakerTold, Moves(taker), OutsMove(taker),
         Sworn => \A s \in {side'[taker], disk'[taker]} : s # None => s.claim
  PROVE  TakerTold'
<1>1. at[taker] = "claiming" => Sworn
  <2>1. at[taker] = "claiming" => HasLock(taker)
    BY AtHas, Peers
  <2> QED BY <2>1, Peers DEF SwapInv, StepOK, Sworn
<1>2. Told => Sworn
  BY DEF TakerTold, Sworn
<1>3. HasLock(maker)' /\ MyOut(maker)'.spend = "claim" => Sworn
  BY <1>1, <1>2, Peers DEF OutsMove, Told
<1>4. HasLock(taker)' /\ MyOut(taker)'.spend = "claim" => Sworn
  BY <1>2, Peers DEF OutsMove, Told
<1>5. SameLocal(maker) /\ Grows
  BY Peers DEF Moves, OutsMove
<1>6. Told' => Sworn
  BY <1>2, <1>3, <1>4, <1>5 DEF Told, Claims, SameLocal
<1>7. Sworn => HasLock(taker)'
  BY <1>5, Peers, LockStays DEF Sworn
<1>8. Sworn => \A s \in {side'[taker], disk'[taker]} : s # None => s.claim
  OBVIOUS
<1> QED BY <1>6, <1>7, <1>8 DEF TakerTold

(* The taker that locked still has its record when it begins a pass.       *)
LEMMA RecordThere ==
  ASSUME SwapInv, NEW p \in Side, side[p] # None \/ Starts(p), HasLock(p)
  PROVE  side[p] # None
<1> SUFFICES ASSUME side[p] = None PROVE FALSE
  OBVIOUS
<1>1. pruned(height)
  BY DEF SwapInv, RecordOK, LockKnown
<1>2. boardMatch # None
  BY DEF Starts
<1> QED BY <1>1, <1>2, OnBoard

(* The taker goes on to claim in time, or begins to claim a young HTLC.    *)
LEMMA TakerOwn ==
  ASSUME SwapInv, TakerInTime, Moves(taker), OutsMove(taker),
         InTime(taker) /\ (Claims(side'[taker]) \/ Claims(disk'[taker])) /\ ~Resolved(taker) =>
           \/ /\ Claims(side[taker]) \/ Claims(disk[taker])
              /\ ClaimWaits(taker)' <= ClaimWaits(taker) \/ Fault
           \/ /\ Unspent(maker) /\ UNCHANGED outs /\ due' = due /\ at'[taker] = "claiming"
              /\ MyOut(maker).confs <= MakerBlocks - claimSafetyBlocks
  PROVE  TakerInTime'
<1> SUFFICES ASSUME InTime(taker)',
                    Claims(side'[taker]) \/ Claims(disk'[taker]), ~Resolved(taker)'
             PROVE  TakerHolds'
  BY DEF TakerInTime, TakerHolds, Claims
<1>1. InTime(taker)
  BY DEF Moves, InTime, EnoughTime, MakerSeconds, TakerSeconds, claimSafetyBlocks
<1>2. TakerHolds /\ TypeOK /\ OutsOK
  BY <1>1 DEF TakerInTime, SwapInv
<1>3. faults \in Nat /\ faults' \in Nat /\ faults <= faults' /\ (Fault => faults < faults')
  BY FaultsGrow DEF Moves
<1>4. ~Resolved(taker)
  BY Peers, ResolvedStays DEF OutsMove
<1>5. CASE /\ Claims(side[taker]) \/ Claims(disk[taker])
           /\ ClaimWaits(taker)' <= ClaimWaits(taker) \/ Fault
  <2>1. PICK w \in 0..2, v \in 0..2, k \in Nat, i \in Nat :
          /\ w = ClaimWaits(taker) /\ v = ClaimWaits(taker)' /\ k = faults /\ i = faults' /\ k <= i
          /\ v <= w \/ k < i
    <3>1. ClaimWaits(taker) \in 0..2 /\ ClaimWaits(taker)' \in 0..2
      BY WaitTypes, Peers
    <3> QED BY <1>3, <1>5, <3>1
  <2>2. 2 * k - w <= 2 * i - v
    BY <2>1, FaultsPay
  <2>3. 2 * faults - ClaimWaits(taker) <= 2 * faults' - ClaimWaits(taker)'
    BY <2>1, <2>2
  <2> QED BY <1>1, <1>2, <1>3, <1>5, <2>3, TakerHoldsKept DEF Moves, OutsMove
<1>6. CASE /\ Unspent(maker) /\ UNCHANGED outs /\ due' = due /\ at'[taker] = "claiming"
           /\ MyOut(maker).confs <= MakerBlocks - claimSafetyBlocks
  <2>1. HasLock(maker) /\ MyOut(maker).spend = "none"
    BY <1>6 DEF Unspent
  <2>2. HasLock(maker)' /\ MyOut(maker)' = MyOut(maker)
    BY <1>6, <2>1 DEF HasLock, MyOut, MyChain
  <2>3. PICK m \in Nat, w \in 0..1, k \in Nat :
          m = MyOut(maker)'.confs /\ w = ClaimWaits(taker)' /\ k = faults'
    <3>1. MyOut(maker).confs \in Nat
      BY <1>2, <2>1, Peers, OutTypes
    <3>2. ClaimWaits(taker)' \in 0..1
      BY <1>6 DEF ClaimWaits, Count
    <3> QED BY <1>3, <2>2, <3>1, <3>2
  <2>4. Young(m, k, w)
    <3>1. m <= MakerBlocks - claimSafetyBlocks /\ claimSafetyBlocks \in Int
      BY <1>6, <2>2, <2>3, TimeTypes DEF claimSafetyBlocks, MakerBlocks
    <3>2. w \in Int /\ w <= 1
      BY <2>3
    <3> QED BY <2>3, <3>1, <3>2, TimeTypes DEF Young
  <2> QED BY <2>1, <2>2, <2>3, <2>4 DEF TakerHolds, Young, claimSafetyBlocks, MakerBlocks
<1> QED BY <1>1, <1>4, <1>5, <1>6

LEMMA TakerStep ==
  ASSUME SwapInv, TakerInTime, TakerTold, Pass(taker) \/ PassFails(taker) \/ Crash(taker)
  PROVE  TakerInTime' /\ Moves(taker) /\ OutsMove(taker) /\ TakerTold'
<1>1. TypeOK /\ OutsOK /\ StepOK(taker) /\ RecordOK(taker, side[taker])
  BY Peers DEF SwapInv
<1>2. Claims(side[taker]) => HasLock(taker)
  <2>1. Claims(side[taker]) => side[taker].myLock # 0 /\ side[taker] \in SideRecord
    BY <1>1, Peers DEF Claims, RecordOK, TypeOK
  <2> QED BY <1>1, <2>1, Peers, FitsSides, KnownHas DEF Claims
<1>3. ASSUME NoLockPass(taker)
      PROVE  TakerInTime' /\ Moves(taker) /\ OutsMove(taker) /\ TakerTold'
  <2>1. /\ Moves(taker) /\ UNCHANGED <<outs, setting>> /\ (~setting.lag => ~HasLock(taker))
        /\ \A s \in {side'[taker], disk'[taker]} : s # None => s.claim = Adopted(taker).claim
        /\ side[taker] # None \/ Starts(taker)
    BY <1>3 DEF NoLockPass, Moves
  <2>2. OutsMove(taker)
    BY <1>1, <2>1, Peers, StillMove
  <2>3. /\ side[taker] # None => Adopted(taker).claim = side[taker].claim
        /\ side[taker] = None => ~Adopted(taker).claim
    BY Peers, AdoptedFrom
  <2>4. Sworn => \A s \in {side'[taker], disk'[taker]} : s # None => s.claim
    BY <2>1, <2>3, Peers, RecordThere DEF Sworn
  <2>5. Claims(side'[taker]) \/ Claims(disk'[taker]) => Claims(side[taker])
    BY <2>1, <2>3 DEF Claims
  <2>6. TakerInTime'
    BY <1>2, <2>1, <2>2, <2>5, TakerOwn DEF InTime
  <2> QED BY <2>1, <2>2, <2>4, <2>6, TakerSwears
<1>4. CASE Fund(taker)
  <2>1. /\ Moves(taker) /\ OutsMove(taker) /\ at[taker] = "funding" /\ side[taker] # None
        /\ side'[taker] = side[taker] /\ disk'[taker] = side[taker]
    BY <1>4, Peers, FundDoes
  <2>2. ~side[taker].claim
    BY <1>1, <2>1 DEF StepOK, RecordOK
  <2>3. TakerInTime'
    BY <2>1, <2>2, TakerOwn DEF Claims
  <2> QED BY <2>1, <2>3, TakerSwears DEF Sworn
<1>5. CASE LockedPass(taker) \/ Funded(taker)
  <2>1. /\ Moves(taker) /\ OutsMove(taker) /\ UNCHANGED outs /\ HasLock(taker)
        /\ side[taker] = None => Starts(taker)
        /\ Claims(side[taker]) =>
             /\ at[taker] = "idle"
             /\ \A s \in {side'[taker], disk'[taker]} : s # None => s.claim
             /\ Unspent(maker) => due' = due /\ at'[taker] = "claiming"
        /\ ~Claims(side[taker]) =>
             \/ \A s \in {side'[taker], disk'[taker]} : ~Claims(s)
             \/ /\ Unspent(maker) /\ due' = due /\ at'[taker] = "claiming"
                /\ MyOut(maker).confs <= MakerBlocks - claimSafetyBlocks
    BY <1>5, Peers, FollowDoes
  <2>2. side[taker] # None
    BY <2>1, Peers, RecordThere
  <2>3. Sworn => Claims(side[taker])
    BY <2>2 DEF Sworn, Claims
  <2>4. ASSUME InTime(taker), Claims(side[taker]), ~Resolved(taker)
        PROVE  ClaimWaits(taker)' <= ClaimWaits(taker)
    <3>1. HasLock(maker) /\ MyOut(maker).listed
      <4>1. HasLock(maker)
        BY <2>4 DEF TakerInTime, TakerHolds
      <4> QED BY <1>1, <2>4, <4>1, Peers, OutTypes DEF InTime
    <3>2. MyOut(maker)' = MyOut(maker)
      BY <2>1 DEF MyOut, MyChain
    <3>3. CASE MyOut(maker).spend = "none"
      <4>1. due' = due /\ at'[taker] = "claiming" /\ at[taker] = "idle"
        BY <2>1, <2>4, <3>1, <3>3 DEF Unspent
      <4> QED BY <3>2, <4>1, Peers DEF ClaimWaits, Count
    <3>4. CASE MyOut(maker).spend # "none"
      BY <3>2, <3>4, Peers DEF ClaimWaits
    <3> QED BY <3>3, <3>4
  <2>5. TakerInTime'
    BY <2>1, <2>4, TakerOwn
  <2> QED BY <2>1, <2>3, <2>5, TakerSwears
<1>6. CASE Claim(taker)
  <2>1. /\ Moves(taker) /\ OutsMove(taker) /\ (Fault \/ MyOut(maker)'.spend # "none")
        /\ Claims(side[taker])
        /\ \A s \in {side'[taker], disk'[taker]} : s # None => s.claim
    BY <1>6, Peers, ClaimDoes
  <2>2. ClaimWaits(taker)' <= ClaimWaits(taker) \/ Fault
    <3>1. MyOut(maker)'.spend # "none" => ClaimWaits(taker)' = 0
      BY Peers DEF ClaimWaits
    <3>2. ClaimWaits(taker) \in 0..2
      BY WaitTypes, Peers
    <3> QED BY <2>1, <3>1, <3>2
  <2>3. TakerInTime'
    BY <2>1, <2>2, TakerOwn
  <2> QED BY <2>1, <2>3, TakerSwears
<1>7. CASE Refund(taker)
  <2>1. /\ Moves(taker) /\ OutsMove(taker) /\ MyOut(maker)' = MyOut(maker)
        /\ at[taker] = "refunding" /\ at'[taker] = "idle" /\ due' = due \ {taker}
        /\ side[taker] # None
        /\ \A s \in {side'[taker], disk'[taker]} : s # None => s.claim = side[taker].claim
    BY <1>7, Peers, RefundDoes
  <2>2. ClaimWaits(taker)' <= ClaimWaits(taker)
    BY <2>1, Peers DEF ClaimWaits, Count
  <2>3. Claims(side'[taker]) \/ Claims(disk'[taker]) => Claims(side[taker])
    BY <2>1 DEF Claims
  <2>4. TakerInTime'
    BY <2>1, <2>2, <2>3, TakerOwn
  <2>5. Sworn => \A s \in {side'[taker], disk'[taker]} : s # None => s.claim
    BY <2>1 DEF Sworn
  <2> QED BY <2>1, <2>4, <2>5, TakerSwears
<1>8. CASE PassFails(taker) \/ Crash(taker)
  <2>1. /\ Moves(taker) /\ OutsMove(taker) /\ Fault /\ side'[taker] = disk'[taker]
        /\ side'[taker] # None =>
             \/ disk[taker] # None /\ side'[taker].claim = disk[taker].claim
             \/ (side[taker] # None \/ Starts(taker)) /\ ~side'[taker].claim
                /\ ~Claims(side[taker])
    BY <1>8, Peers, FailDoes
  <2>2. Claims(side'[taker]) \/ Claims(disk'[taker]) => Claims(disk[taker])
    BY <2>1 DEF Claims
  <2>3. TakerInTime'
    BY <2>1, <2>2, TakerOwn
  <2>4. Sworn => \A s \in {side'[taker], disk'[taker]} : s # None => s.claim
    BY <2>1, Peers, RecordThere DEF Sworn, Claims
  <2> QED BY <2>1, <2>3, <2>4, TakerSwears
<1>9. NoLockPass(taker) \/ ~(DormantPass(taker) \/ ProofsPass(taker) \/ GiveUpPass(taker)
                             \/ EscrowPass(taker) \/ Decide(taker))
  BY Peers, QuietDoes, EscrowDoes, DecideDoes
<1> QED BY <1>3, <1>4, <1>5, <1>6, <1>7, <1>8, <1>9 DEF Pass

-----------------------------------------------------------------------------
(* The invariant.                                                          *)

LEMMA TimeInit ==
  ASSUME Init, Timely
  PROVE  TimeInv
<1>1. SwapInv
  BY SwapInit
<1>2. /\ side = [p \in Side |-> None] /\ disk = side /\ at = [p \in Side |-> "idle"]
      /\ seen = [p \in Side |-> Nothing] /\ outs = [c \in Chains |-> <<>>]
  BY DEF Init, Chains
<1>3. \A p \in Side : ~HasLock(p)
  BY <1>2, SideChains DEF HasLock
<1>4. MakerInTime
  BY <1>2, <1>3, Peers DEF MakerInTime, MakerFunds, MakerHolds, MakerReads, MakerKnows
<1>5. \A s \in {side[taker], disk[taker], side[maker], disk[maker]} : ~Claims(s)
  BY <1>2, Peers DEF Claims
<1>6. TakerInTime
  BY <1>5 DEF TakerInTime, TakerHolds
<1>7. 1 \notin DOMAIN seen[maker].mine
  BY <1>2, Peers DEF Nothing
<1>8. TakerTold
  BY <1>3, <1>5, <1>7, Peers DEF TakerTold, Told
<1> QED BY <1>1, <1>4, <1>6, <1>8 DEF TimeInv

LEMMA TimeNext ==
  ASSUME TimeInv, [Next]_vars
  PROVE  TimeInv'
<1>1. SwapInv /\ SwapInv' /\ MakerInTime /\ TakerTold /\ TakerInTime
  BY SwapNext DEF TimeInv
<1>2. CASE Anchor \/ \E op \in flight : Certify(op)
  BY <1>1, <1>2, BoardTimes
<1>3. ASSUME NEW c \in {TakerChain, MakerChain},
             Block(c) \/ \E i \in 1..MaxLocks : Evict(c, i) \/ List(c, i)
      PROVE  TimeInv'
  BY <1>1, <1>3, BlockTimes, EvictListTimes DEF Chains
<1>4. ASSUME NEW p \in Side,
             \/ Pass(p) \/ PassFails(p) \/ GraceOver(p) \/ Crash(p)
             \/ \E kind \in {"proof", "locked", "abort"} : Submit(p, kind)
      PROVE  TimeInv'
  <2>1. CASE GraceOver(p) \/ \E kind \in {"proof", "locked", "abort"} : Submit(p, kind)
    BY <1>1, <2>1, BoardTimes
  <2>2. CASE Pass(p) \/ PassFails(p) \/ Crash(p)
    <3>1. CASE p = maker
      <4>1. MakerInTime' /\ Moves(maker) /\ OutsMove(maker) /\ TakerTold'
        BY <1>1, <2>2, <3>1, MakerStep
      <4> QED BY <1>1, <4>1, TakerApart DEF TimeInv
    <3>2. CASE p = taker
      <4>1. TakerInTime' /\ Moves(taker) /\ OutsMove(taker) /\ TakerTold'
        BY <1>1, <2>2, <3>2, TakerStep
      <4> QED BY <1>1, <4>1, MakerApart DEF TimeInv
    <3> QED BY <3>1, <3>2, Peers
  <2> QED BY <1>4, <2>1, <2>2
<1>5. CASE UNCHANGED vars
  <2>1. UNCHANGED <<side, disk, at, seen, due, lead, outs, setting, faults>>
    BY <1>5 DEF vars, engine, chains
  <2> QED BY <1>1, <2>1, StillKeeps
<1> QED BY <1>2, <1>3, <1>4, <1>5 DEF Next

(* The race, as it stands at any moment: against which age of the other    *)
(* HTLC the maker funds and waits, that the taker claims a young one, and  *)
(* that the secret is out only when the taker has locked and claims        *)
(* (stepMaker, stepTaker, maybeRefund).                                    *)
THEOREM SwapTime == Spec => [](Timely => TimeInv)
<1>1. Init => (Timely => TimeInv)
  BY TimeInit
<1>2. (Timely => TimeInv) /\ [Next]_vars => (Timely => TimeInv)'
  <2> SUFFICES ASSUME Timely => TimeInv, [Next]_vars, Timely' PROVE TimeInv'
    OBVIOUS
  <2>1. Timely
    BY SettingKept DEF Timely
  <2> QED BY <2>1, TimeNext
<1> QED BY <1>1, <1>2, PTL DEF Spec

(* The margins of those that keep up are wide enough for the faults that   *)
(* there may be.                                                           *)
WideEnough == \A p \in setting.vigilant : EnoughTime(p, setting.faults)

(* With the margins the engine has (config.ts, networks.ts, htlc.ts),      *)
(* clocks half an hour apart and either chain the maker's, this is so for  *)
(* six faults.                                                             *)
LEMMA PolicyWide ==
  ASSUME windowMarginSecs = 4 * 3600, MaxDrift <= 1800,
         \/ MakerSeconds = 600 /\ TakerSeconds = 150
         \/ MakerSeconds = 150 /\ TakerSeconds = 600,
         MakerSeconds * MakerBlocks >= 12 * 3600, NEW n \in 0..6, NEW p \in Side
  PROVE  EnoughTime(p, n)
<1>1. MakerSeconds + TakerSeconds = 750 /\ MakerSeconds \in {600, 150}
  OBVIOUS
<1>2. MakerBlocks >= 72 /\ MakerBlocks = RefundBlocks[MakerChain]
  <2>1. MakerSeconds * MakerBlocks <= 600 * MakerBlocks
    <3>1. PICK x \in Nat : x = MakerBlocks
      BY TimeTypes
    <3>2. 600 * x <= 600 * x /\ 150 * x <= 600 * x
      BY <3>1
    <3> QED BY <1>1, <3>1, <3>2
  <2>2. MakerBlocks \in Nat
    BY TimeTypes
  <2> QED BY <2>1, <2>2 DEF MakerBlocks
<1>3. CASE p = maker
  <2>1. (2 * n + 2) * (MakerSeconds + TakerSeconds) <= 14 * 750
    BY <1>1
  <2> QED BY <1>1, <1>3, <2>1, TimeTypes DEF EnoughTime
<1>4. CASE p = taker
  <2>1. claimSafetyBlocks >= 18
    BY <1>2, TimeTypes DEF claimSafetyBlocks
  <2>2. claimSafetyBlocks \in Int
    BY TimeTypes DEF claimSafetyBlocks, MakerBlocks
  <2> QED BY <1>4, <2>1, <2>2, Peers DEF EnoughTime
<1> QED BY <1>3, <1>4, Peers

(* A party that keeps up never pays for nothing: its HTLC is not claimed   *)
(* when the other one went back to the counterparty, whatever the order of *)
(* passes and blocks, however the counterparty stalls, and through as many *)
(* crashes, failed calls and evictions as the margins are made for         *)
(* (stepTaker, stepMaker, maybeRefund).                                    *)
THEOREM NobodyPaysForNothing == Spec => [](WideEnough => NobodyLoses)
<1>1. ASSUME Timely => TimeInv, WideEnough PROVE NobodyLoses
  <2> SUFFICES ASSUME NEW p \in setting.vigilant, ~setting.lag,
                      Settled(MyChain(p), "claim"), Settled(TheirChain(p), "refund")
               PROVE  FALSE
    BY DEF NobodyLoses
  <2>1. SwapInv /\ MakerInTime /\ TakerTold /\ TakerInTime /\ TypeOK /\ OutsOK
    BY <1>1 DEF TimeInv, SwapInv, Timely
  <2>2. p \in Side /\ Peer(p) \in Side /\ MyChain(Peer(p)) = TheirChain(p) /\ InTime(p)
    BY <1>1, <2>1, SettingTypes, PeerChain DEF WideEnough, InTime
  <2>3. Gone(p, "claim") /\ Gone(Peer(p), "refund")
    BY <2>1, <2>2, GoneSettled
  <2>4. ~Resolved(p)
    BY <2>3 DEF Resolved, Gone
  <2>5. CASE p = maker
    BY <2>1, <2>2, <2>3, <2>4, <2>5, Peers DEF MakerInTime, MakerHolds, Gone
  <2>6. CASE p = taker
    <3>1. Told
      BY <2>3, <2>6 DEF Told, Gone
    <3>2. side[taker] # None
      <4>1. RecordOK(taker, side[taker]) /\ HasLock(taker)
        BY <2>1, <2>3, <2>6 DEF SwapInv, Gone, Side
      <4>2. ~Gone(maker, "claim") /\ ~Gone(taker, "refund")
        BY <2>3, <2>6, Peers DEF Gone
      <4>3. TakerResolved(side[taker]) /\ ~Settled(MakerChain, "claim")
        BY <2>1, <4>1, <4>2, GoneSettled, Peers DEF RecordOK
      <4> QED BY <4>1, <4>2, <4>3, Peers DEF TakerResolved, Gone, MyOut
    <3>3. Claims(side[taker])
      BY <2>1, <3>1, <3>2 DEF TakerTold, Claims
    <3> QED BY <2>1, <2>2, <2>3, <2>4, <2>6, <3>3, Peers DEF TakerInTime, TakerHolds, Gone
  <2> QED BY <2>2, <2>5, <2>6, Peers
<1> QED BY <1>1, SwapTime, PTL

(* While an HTLC that explorers list is unspent and its owner has not been *)
(* paid, the owner's engine has a record of it that is not over: no money  *)
(* is left that no pass will refund.  The maker needs its margin for this, *)
(* whose side ends when the taker's HTLC goes back.                        *)
THEOREM NoLockLeft == Spec => [](WideEnough => NoListedLockForgotten)
<1>1. ASSUME Timely => TimeInv, WideEnough PROVE NoListedLockForgotten
  <2> SUFFICES ASSUME ~setting.lag, NEW p \in setting.vigilant,
                      NEW i \in DOMAIN outs[MyChain(p)], outs[MyChain(p)][i].spend = "none",
                      ~Settled(TheirChain(p), "claim")
               PROVE  Lives(side[p])
    BY DEF NoListedLockForgotten, NoLockForgotten, Lives
  <2>1. SwapInv /\ MakerInTime /\ TypeOK /\ OutsOK
    BY <1>1 DEF TimeInv, SwapInv, Timely
  <2>2. p \in Side /\ Peer(p) \in Side /\ MyChain(Peer(p)) = TheirChain(p) /\ InTime(p)
    BY <1>1, <2>1, SettingTypes, PeerChain DEF WideEnough, InTime
  <2>3. HasLock(p) /\ MyOut(p).spend = "none"
    <3>1. MyChain(p) \in Chains
      BY <2>2, SideChains
    <3>2. DOMAIN outs[MyChain(p)] = IF HasLock(p) THEN {1} ELSE {}
      BY <2>1, <3>1, OneOutput DEF HasLock
    <3> QED BY <3>2 DEF MyOut
  <2>4. ~Gone(p, "refund") /\ ~Gone(Peer(p), "claim")
    BY <2>1, <2>2, <2>3, GoneSettled DEF Gone
  <2>5. CASE p = maker
    BY <2>1, <2>2, <2>3, <2>4, <2>5 DEF MakerInTime, MakerKnows, Resolved, Lives
  <2>6. CASE p = taker
    <3>1. TakerResolved(side[taker])
      BY <2>1, <2>2, <2>6 DEF SwapInv, RecordOK
    <3> QED BY <2>3, <2>6, <3>1, Peers DEF TakerResolved, MyOut, Lives
  <2> QED BY <2>2, <2>5, <2>6, Peers
<1> QED BY <1>1, SwapTime, PTL

=============================================================================
