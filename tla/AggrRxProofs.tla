---------------------------- MODULE AggrRxProofs ----------------------------
(***************************************************************************)
(* Theorems about receive reordering, for every window size, sequence      *)
(* space and run of frames.                                                *)
(***************************************************************************)
EXTENDS AggrRx, SubsequenceProofs, TLAPS

-----------------------------------------------------------------------------
(* Arithmetic modulo m *)

LEMMA ModRange ==
  ASSUME NEW m \in Nat \ {0}, NEW a \in Int
  PROVE  /\ a % m \in 0 .. m - 1 /\ a \div m \in Int
         /\ a = m * (a \div m) + (a % m)
<1>1. a % m \in 0 .. m - 1
  OBVIOUS
<1>2. a \div m \in Int
  OBVIOUS
<1>3. a = m * (a \div m) + (a % m)
  OBVIOUS
<1> QED BY <1>1, <1>2, <1>3

\* A multiple of m between -m and m is zero.
LEMMA SmallMultiple ==
  ASSUME NEW m \in Nat \ {0}, NEW k \in Int, m * k < m, -m < m * k
  PROVE  k = 0
<1>1. CASE k >= 1
  <2>1. m * k >= m * 1
    BY <1>1
  <2> QED BY <2>1
<1>2. CASE k <= -1
  <2>1. m * k <= m * (-1)
    BY <1>2
  <2> QED BY <2>1
<1> QED BY <1>1, <1>2

\* Congruent numbers have the same remainder.
LEMMA ModUnique ==
  ASSUME NEW m \in Nat \ {0}, NEW a \in Int, NEW b \in Int, NEW k \in Int, NEW p \in Int,
         p = m * k, a = b + p
  PROVE  a % m = b % m
<1>1. PICK qa \in Int, ra \in 0 .. m - 1 : ra = a % m /\ a = m * qa + ra
  BY ModRange
<1>2. PICK qb \in Int, rb \in 0 .. m - 1 : rb = b % m /\ b = m * qb + rb
  BY ModRange, ZenonT(30)
<1>3. PICK j \in Int : j = qb + k - qa
  OBVIOUS
<1>4. m * j = m * qb + m * k - m * qa
  BY <1>3
<1>5. ra - rb = m * j
  BY <1>1, <1>2, <1>4
<1>6. j = 0
  BY <1>1, <1>2, <1>5, SmallMultiple
<1>7. ra = rb
  BY <1>5, <1>6
<1> QED BY <1>1, <1>2, <1>7

LEMMA ModSmall ==
  ASSUME NEW m \in Nat \ {0}, NEW a \in Int
  PROVE  /\ a \in 0 .. m - 1 => a % m = a
         /\ a \in -m .. -1 => a % m = a + m
<1>1. ASSUME a \in 0 .. m - 1 PROVE a % m = a
  BY <1>1
<1>2. ASSUME a \in -m .. -1 PROVE a % m = a + m
  <2>0. PICK k \in Int : k = -1
    OBVIOUS
  <2>1. PICK b \in 0 .. m - 1, p \in Int : b = a + m /\ p = m * k /\ a = b + p
    BY <1>2, <2>0
  <2>2. a % m = b % m
    <3>1. b \in Int
      OBVIOUS
    <3> QED BY <2>1, <3>1, ModUnique
  <2>3. b % m = b
    BY <2>1
  <2> QED BY <2>1, <2>2, <2>3
<1> QED BY <1>1, <1>2

LEMMA ModAdd ==
  ASSUME NEW m \in Nat \ {0}, NEW a \in Int, NEW b \in Int
  PROVE  /\ ((a % m) + b) % m = (a + b) % m
         /\ (b + (a % m)) % m = (a + b) % m
         /\ (b - (a % m)) % m = (b - a) % m
<1>1. PICK q \in Int, r \in 0 .. m - 1 : r = a % m /\ a = m * q + r
  BY ModRange
<1>2. PICK p \in Int : p = m * q
  OBVIOUS
<1>3. (a + b) % m = (r + b) % m
  <2>1. a + b = (r + b) + p /\ a + b \in Int /\ r + b \in Int
    BY <1>1, <1>2
  <2> QED BY <1>2, <2>1, ModUnique
<1>4. (b - r) % m = (b - a) % m
  <2>1. b - r = (b - a) + p /\ b - r \in Int /\ b - a \in Int
    BY <1>1, <1>2
  <2> QED BY <1>2, <2>1, ModUnique
<1> QED BY <1>1, <1>3, <1>4

\* Numbers less than m apart with the same remainder are equal.
LEMMA ModEqual ==
  ASSUME NEW m \in Nat \ {0}, NEW a \in Int, NEW b \in Int, a % m = b % m,
         a - b < m, b - a < m
  PROVE  a = b
<1>1. PICK qa \in Int, r \in 0 .. m - 1 : r = a % m /\ a = m * qa + r
  BY ModRange
<1>2. PICK qb \in Int, rb \in 0 .. m - 1 : rb = b % m /\ b = m * qb + rb
  BY ModRange
<1>3. PICK j \in Int : j = qa - qb
  OBVIOUS
<1>4. m * j = m * qa - m * qb
  BY <1>3
<1>5. j = 0
  BY <1>1, <1>2, <1>4, SmallMultiple
<1> QED BY <1>1, <1>2, <1>4, <1>5, SMTT(30)

\* A remainder modulo m keeps the remainder modulo a divisor of m.
LEMMA ModMod ==
  ASSUME NEW m \in Nat \ {0}, NEW h \in Nat \ {0}, m % h = 0, NEW a \in Int
  PROVE  (a % m) % h = a % h
<1>1. PICK q \in Int, r \in 0 .. m - 1 : r = a % m /\ a = m * q + r
  <2>1. a % m \in 0 .. m - 1 /\ a \div m \in Int /\ a = m * (a \div m) + (a % m)
    BY ModRange
  <2> QED BY <2>1
<1>2. PICK d \in Int : m = h * d
  <2>1. m \div h \in Int /\ m = h * (m \div h) + (m % h)
    BY ModRange
  <2>2. PICK d \in Int : d = m \div h
    BY <2>1
  <2>3. m = h * d
    BY <2>1, <2>2
  <2> QED BY <2>2, <2>3
<1>3. PICK e \in Int : e = d * q
  BY <1>2
<1>4. m * q = h * e
  BY <1>2, <1>3
<1>5. PICK p \in Int : p = h * e /\ a = r + p
  BY <1>1, <1>3, <1>4
<1>6. a % h = r % h
  <2>1. r \in Int
    OBVIOUS
  <2> QED BY <1>5, <2>1, ModUnique
<1> QED BY <1>1, <1>6

-----------------------------------------------------------------------------
(* The circle of sequence numbers *)

LEMMA ConstFacts ==
  /\ SeqMod \in Nat \ {0} /\ HoldQSz \in Nat \ {0} /\ HoldQSz >= 2 /\ SeqMod % HoldQSz = 0
  /\ 4 * HoldQSz <= SeqMod /\ WinSz \in Nat \ {0} /\ HoldQSz = 2 * WinSz
  /\ Frames \subseteq Nat /\ NoFrame \notin Frames
  /\ FirstFrame \in Nat /\ LastFrame \in Nat /\ FirstFrame <= LastFrame
  /\ MaxWait \in Nat \ {0} /\ MaxLoss \in Nat
BY AggrConstants DEF AggrConstants, HoldQSz, Frames

LEMMA SeqNoType ==
  ASSUME NEW n \in Int
  PROVE  SeqNo(n) \in Seqs /\ WinIdx(n) \in Slots /\ SeqNo(n) \in Int /\ WinIdx(SeqNo(n)) = WinIdx(n)
<1>1. n % SeqMod \in 0 .. SeqMod - 1 /\ n % HoldQSz \in 0 .. HoldQSz - 1
  BY ConstFacts, ModRange
<1>2. (n % SeqMod) % HoldQSz = n % HoldQSz
  BY ConstFacts, ModMod
<1> QED BY <1>1, <1>2 DEF SeqNo, WinIdx, Seqs, Slots

LEMMA SeqDiff ==
  ASSUME NEW a \in Int, NEW b \in Int
  PROVE  /\ (SeqNo(a) - SeqNo(b)) % SeqMod = (a - b) % SeqMod
         /\ (SeqNo(a) + b) % SeqMod = SeqNo(a + b)
         /\ (SeqNo(a) - b) % SeqMod = SeqNo(a - b)
<1>1. PICK r \in Int : r = a % SeqMod
  BY ConstFacts, ModRange
<1>2. (r - (b % SeqMod)) % SeqMod = (r - b) % SeqMod
  BY <1>1, ConstFacts, ModAdd
<1>3. PICK nb \in Int : nb = -b
  OBVIOUS
<1>4. (r + nb) % SeqMod = (a + nb) % SeqMod /\ (r + b) % SeqMod = (a + b) % SeqMod
  BY <1>1, ConstFacts, ModAdd, ZenonT(30)
<1>5. r + nb = r - b /\ a + nb = a - b
  BY <1>3
<1> QED BY <1>1, <1>2, <1>4, <1>5 DEF SeqNo

LEMMA OutsideIs ==
  ASSUME NEW lo \in Seqs, NEW hi \in Seqs, NEW cur \in Seqs, lo # hi
  PROVE  Outside(lo, hi, cur) <=> (cur - lo) % SeqMod > (hi - lo) % SeqMod
<1>1. PICK M \in Nat \ {0} : M = SeqMod
  BY ConstFacts
<1>2. lo \in 0 .. M - 1 /\ hi \in 0 .. M - 1 /\ cur \in 0 .. M - 1
  BY <1>1 DEF Seqs
<1>3. \A d \in Int : (d \in 0 .. M - 1 => d % M = d) /\ (d \in -M .. -1 => d % M = d + M)
  BY <1>1, ModSmall
<1>4. (cur - lo) % M = IF cur >= lo THEN cur - lo ELSE cur - lo + M
  BY <1>2, <1>3
<1>5. (hi - lo) % M = IF hi >= lo THEN hi - lo ELSE hi - lo + M
  BY <1>2, <1>3
<1> QED BY <1>1, <1>2, <1>4, <1>5 DEF Outside

\* What aggr_process_recv_frm's comparisons say of frame n and a window that
\* starts at frame S.
LEMMA WhereIs ==
  ASSUME NEW S \in Int, NEW n \in Int, NEW x, x = (n - S) % SeqMod
  PROVE  /\ x \in 0 .. SeqMod - 1
         /\ InWindow(SeqNo(S), SeqNo(n)) <=> x < HoldQSz
         /\ JustBeyond(SeqNo(S), SeqNo(n)) <=> HoldQSz <= x /\ x < 2 * HoldQSz
         /\ FarAhead(SeqNo(S), SeqNo(n)) <=> 2 * HoldQSz <= x /\ x <= SeqMod - 2 * HoldQSz
<1>1. PICK M \in Nat \ {0}, H \in Nat \ {0} : M = SeqMod /\ H = HoldQSz /\ H >= 2 /\ 4 * H <= M
  BY ConstFacts
<1>2. x \in 0 .. M - 1
  BY <1>1, ModRange
<1>3. PICK E \in Int, G \in Int : E = S + H - 1 /\ G = S + 2 * H - 1
  BY <1>1
<1>4. WindowEnd(SeqNo(S)) = SeqNo(E)
  <2>1. PICK b \in Int : b = H - 1
    OBVIOUS
  <2>2. (SeqNo(S) + b) % SeqMod = SeqNo(S + b)
    BY SeqDiff
  <2>3. SeqNo(S) + HoldQSz - 1 = SeqNo(S) + b /\ S + b = E
    BY <1>1, <1>3, <2>1, SeqNoType
  <2> QED BY <2>2, <2>3 DEF WindowEnd
<1>5. ExtendedEnd(SeqNo(S)) = SeqNo(G)
  <2>1. (SeqNo(E) + H) % SeqMod = SeqNo(E + H)
    BY SeqDiff
  <2>2. E + H = G
    BY <1>3
  <2> QED BY <1>1, <1>4, <2>1, <2>2 DEF ExtendedEnd
<1>6. (SeqNo(E) - SeqNo(S)) % SeqMod = H - 1 /\ (SeqNo(G) - SeqNo(E)) % SeqMod = H
  <2>1. (SeqNo(E) - SeqNo(S)) % SeqMod = (E - S) % SeqMod
        /\ (SeqNo(G) - SeqNo(E)) % SeqMod = (G - E) % SeqMod
    BY SeqDiff
  <2>2. E - S = H - 1 /\ G - E = H
    BY <1>3
  <2>3. (H - 1) % M = H - 1 /\ H % M = H
    BY <1>1, ModSmall
  <2> QED BY <1>1, <2>1, <2>2, <2>3
<1>7. (SeqNo(n) - SeqNo(S)) % SeqMod = x
  BY SeqDiff
<1>8. x >= H => (SeqNo(n) - SeqNo(E)) % SeqMod = x - H + 1
  <2>1. (SeqNo(n) - SeqNo(E)) % SeqMod = (n - E) % SeqMod
    BY SeqDiff
  <2>2. PICK d \in Int, b \in Int : d = n - S /\ b = 1 - H
    BY <1>1
  <2>3. ((d % M) + b) % M = (d + b) % M
    BY ModAdd
  <2>4. d + b = n - E /\ d % M = x
    BY <1>1, <1>3, <2>2
  <2>5. ASSUME x >= H PROVE (x + b) % M = x + b
    <3>1. PICK y \in 0 .. M - 1 : y = x + b
      BY <1>1, <1>2, <2>2, <2>5
    <3>2. y % M = y
      BY <3>1, ModSmall
    <3> QED BY <3>1, <3>2
  <2> QED BY <1>1, <1>2, <2>1, <2>2, <2>3, <2>4, <2>5
<1>9. /\ SeqNo(n) \in Seqs /\ SeqNo(S) \in Seqs /\ SeqNo(E) \in Seqs /\ SeqNo(G) \in Seqs
  BY SeqNoType
<1>10. SeqNo(S) # SeqNo(E) /\ SeqNo(E) # SeqNo(G)
  <2>1. ASSUME NEW y \in Seqs PROVE (y - y) % SeqMod = 0
    <3>1. y - y = 0
      BY DEF Seqs
    <3> QED BY <1>1, <3>1, ModSmall
  <2> QED BY <1>1, <1>6, <1>9, <2>1
<1>11. InWindow(SeqNo(S), SeqNo(n)) <=> x < H
  <2>1. Outside(SeqNo(S), SeqNo(E), SeqNo(n)) <=> x > H - 1
    BY <1>6, <1>7, <1>9, <1>10, OutsideIs
  <2> QED BY <1>2, <1>4, <2>1 DEF InWindow
<1>12. JustBeyond(SeqNo(S), SeqNo(n)) <=> H <= x /\ x < 2 * H
  <2>1. x >= H => (Outside(SeqNo(E), SeqNo(G), SeqNo(n)) <=> x - H + 1 > H)
    BY <1>6, <1>8, <1>9, <1>10, OutsideIs
  <2> QED BY <1>2, <1>4, <1>5, <1>11, <2>1 DEF JustBeyond
<1>13. FarAhead(SeqNo(S), SeqNo(n)) <=> 2 * H <= x /\ x <= M - 2 * H
  BY <1>1, <1>2, <1>7, <1>11, <1>12 DEF FarAhead
<1> QED BY <1>1, <1>2, <1>11, <1>12, <1>13
-----------------------------------------------------------------------------
(* The least element of a set, and the loop of aggr_deque_frms *)

LEMMA LeastOf ==
  ASSUME NEW L \in Nat, NEW T \in SUBSET (0 .. L), T # {}
  PROVE  \E m \in T : \A j \in T : m <= j
<1> DEFINE I == {i \in 1 .. L + 1 : i - 1 \in T}
           s == [i \in 1 .. L + 1 |-> i]
<1>1. s \in Seq(Nat) /\ I \in SUBSET DOMAIN s
  OBVIOUS
<1>2. PICK t \in T : TRUE
  OBVIOUS
<1>3. t + 1 \in I
  OBVIOUS
<1>4. Cardinality(I) \in Nat
  <2>1. Len(s) = L + 1
    OBVIOUS
  <2>2. Cardinality(I) \in 0 .. Len(s)
    BY <1>1, PositionsFinite
  <2> QED BY <2>1, <2>2
<1>5. 1 \in 1 .. Cardinality(I)
  <2>1. Rank(I, t + 1) \in 1 .. Cardinality(I)
    BY <1>1, <1>3, RankGrows
  <2> QED BY <1>4, <2>1
<1>6. PICK i \in I : Rank(I, i) = 1
  BY <1>1, <1>5, RankOnto
<1>7. ASSUME NEW j \in T PROVE i - 1 <= j
  <2>1. j + 1 \in I
    OBVIOUS
  <2>2. Rank(I, j + 1) \in 1 .. Cardinality(I) /\ (j + 1 < i => Rank(I, j + 1) < Rank(I, i))
    BY <1>1, <2>1, RankGrows
  <2>3. ~(j + 1 < i)
    BY <1>6, <1>4, <2>2
  <2> QED BY <2>3
<1> QED BY <1>7

\* The loops over hold_q find a slot in use when there is one.
LEMMA LowestHeldIs ==
  ASSUME HeldSlots # {}
  PROVE  LowestHeld \in HeldSlots
<1>1. HoldQSz - 1 \in Nat /\ HeldSlots \in SUBSET (0 .. HoldQSz - 1)
  BY ConstFacts DEF HeldSlots, Slots
<1>2. \E m \in HeldSlots : \A j \in HeldSlots : m <= j
  <2>1. PICK L \in Nat : L = HoldQSz - 1
    BY <1>1
  <2> QED BY <1>1, <2>1, LeastOf
<1> QED BY <1>2 DEF LowestHeld

\* The loop's exit test in iteration i.
Stops(c, i) == \/ i > 0 /\ SlotAt(c, i) = idx_end[c]
               \/ Ordered(site[c]) /\ ~FrameAt(c, i)

\* Iteration i looks at the slot of sequence number seq_next + i.
LEMMA SlotAtIs ==
  ASSUME NEW S \in Int, seq_next = SeqNo(S), NEW c, idx[c] = WinIdx(seq_next), NEW i \in Nat
  PROVE  SlotAt(c, i) = WinIdx(S + i)
<1>1. (SeqNo(S) + i) % SeqMod = SeqNo(S + i)
  BY SeqDiff
<1>2. WinIdx(SeqNo(S + i)) = WinIdx(S + i) /\ WinIdx(SeqNo(S)) = WinIdx(S)
  BY SeqNoType
<1>3. i = 0 => S + i = S
  OBVIOUS
<1> QED BY <1>1, <1>2, <1>3 DEF SlotAt

LEMMA SlotAtType ==
  ASSUME NEW c, seq_next \in Seqs, idx[c] \in Slots, NEW i \in Nat
  PROVE  SlotAt(c, i) \in Slots
<1>1. seq_next + i \in Int
  BY ConstFacts DEF Seqs
<1>2. SeqNo(seq_next + i) \in Int /\ WinIdx(SeqNo(seq_next + i)) \in Slots
  BY <1>1, SeqNoType
<1> QED BY <1>2 DEF SlotAt, SeqNo

\* Every slot is met within one turn of the ring.
LEMMA SlotReached ==
  ASSUME NEW c, seq_next \in Seqs, NEW e \in Slots
  PROVE  \E i \in 1 .. HoldQSz : SlotAt(c, i) = e
<1>1. PICK H \in Nat \ {0} : H = HoldQSz
  BY ConstFacts
<1>2. PICK d \in Int : d = e - seq_next
  BY ConstFacts DEF Slots, Seqs
<1>3. PICK r \in 0 .. H - 1 : r = d % H
  BY <1>1, ModRange
<1>4. PICK i \in 1 .. H : i = IF r = 0 THEN H ELSE r
  OBVIOUS
<1>5. seq_next \in Int /\ e \in 0 .. H - 1
  BY <1>1 DEF Seqs, Slots
<1>6. i % H = d % H
  <2>1. H % H = 0
    <3>1. PICK k \in Int, p \in Int, z \in Int : k = 1 /\ p = H * k /\ z = 0 /\ H = z + p
      OBVIOUS
    <3>2. H % H = z % H
      BY <3>1, ModUnique
    <3>3. z % H = 0
      BY <3>1, ModSmall
    <3> QED BY <3>2, <3>3
  <2>2. r % H = r
    BY ModSmall
  <2> QED BY <1>3, <1>4, <2>1, <2>2
<1>7. ((i % H) + seq_next) % H = (i + seq_next) % H /\ ((d % H) + seq_next) % H = (d + seq_next) % H
  <2>1. i \in Int
    OBVIOUS
  <2> QED BY <1>5, <2>1, ModAdd
<1>8. d + seq_next = e /\ i + seq_next = seq_next + i
  BY <1>2, <1>5
<1>9. (seq_next + i) % H = e
  BY <1>5, <1>6, <1>7, <1>8, ModSmall
<1>10. SlotAt(c, i) = WinIdx(seq_next + i)
  <2>1. seq_next + i \in Int /\ i # 0
    BY <1>5
  <2> QED BY <2>1, SeqNoType DEF SlotAt, SeqNo
<1> QED BY <1>1, <1>9, <1>10 DEF WinIdx

\* The loop ends: at the first iteration, at most hold_q_sz, where it may.
LEMMA IterationsIs ==
  ASSUME NEW c, seq_next \in Seqs, idx_end[c] \in Slots
  PROVE  /\ Iterations(c) \in 0 .. HoldQSz
         /\ Stops(c, Iterations(c))
         /\ \A i \in 0 .. (Iterations(c) - 1) : ~Stops(c, i)
<1> DEFINE T == {i \in 0 .. HoldQSz : Stops(c, i)}
<1>1. PICK j \in 1 .. HoldQSz : SlotAt(c, j) = idx_end[c]
  BY SlotReached
<1>2. HoldQSz \in Nat
  BY ConstFacts
<1>3. j \in T
  BY <1>1, <1>2 DEF Stops
<1>4. PICK k \in T : \A i \in T : k <= i
  <2>1. T \in SUBSET (0 .. HoldQSz) /\ T # {}
    BY <1>3
  <2> QED BY <1>2, <2>1, LeastOf
<1>5. \E m \in 0 .. HoldQSz : Stops(c, m) /\ \A i \in 0 .. (m - 1) : ~Stops(c, i)
  BY <1>2, <1>4
<1> QED BY <1>5 DEF Iterations, Stops
-----------------------------------------------------------------------------
(* Types *)

RxSites == {"chase", "shift", "inorder", "flush", "reflush"}
TimerSites == {"skip", "after_skip", "jump", "after_jump"}
SitesOf(c) == IF c = "rx" THEN RxSites ELSE TimerSites

RxPCs == RxSites \cup {"idle", "walk", "chased", "shifted", "settle", "addba",
                        "delete", "redelete"}
TimerPCs == TimerSites \cup {"idle", "walk", "timeout", "judge", "jumped", "rearm"}

\* Context c calls aggr_deque_frms from s, or is in its loop for s.
AtSite(c, s) == pc[c] = s \/ (pc[c] = "walk" /\ site[c] = s)

\* The worker is where it uses frame.
HasFrame == \/ AtSite("rx", "shift") \/ AtSite("rx", "chase")
            \/ pc["rx"] \in {"shifted", "chased"}

\* Each context stays in its own part of the code, and the worker has a frame
\* wherever it uses one.
ContextsApart ==
  /\ pc["rx"] \in RxPCs /\ pc["timer"] \in TimerPCs
  /\ \A c \in Contexts : pc[c] = "walk" => site[c] \in SitesOf(c)
  /\ HasFrame => frame \in Frames

\* No timer counts more than MaxWait before it is started.
CountLow == ~tid_timer_scheduled => continuous_count <= MaxWait

TypeInv == TypeOK /\ ContextsApart /\ CountLow

\* TypeOK without sets of values.
LEMMA TypeFacts ==
  TypeOK <=>
    /\ aggr \in BOOLEAN /\ sync_next_seq \in BOOLEAN /\ tid_timer \in BOOLEAN
    /\ tid_timer_scheduled \in BOOLEAN /\ oops \in BOOLEAN
    /\ upset \in BOOLEAN /\ stale \in BOOLEAN
    /\ seq_next \in Seqs /\ timerwait_seq_num \in Seqs /\ issue_timer_seq \in Seqs
    /\ hold_q \in [Slots -> Frames \cup {NoFrame}]
    /\ continuous_count \in 0..(MaxWait + 1)
    /\ pc \in [Contexts -> PCs]
    /\ site \in [Contexts -> Sites \cup {"none"}]
    /\ idx \in [Contexts -> Slots] /\ idx_end \in [Contexts -> Slots]
    /\ frame \in Frames \cup {NoFrame}
    /\ base \in Frames
    /\ delivered \in Seq(Frames)
    /\ stored \subseteq Frames
BY DEF TypeOK

\* What is recorded has its type.
LEMMA RecordType ==
  ASSUME NEW d \in Seq(Frames), NEW s \in SUBSET Frames, Record(d, s)
  PROVE  delivered' \in Seq(Frames) /\ stored' \subseteq Frames
<1>1. <<>> \in Seq(Frames)
  OBVIOUS
<1> QED BY <1>1 DEF Record

LEMMA SeqArgType ==
  ASSUME TypeInv, NEW c \in Contexts, pc[c] \in Sites
  PROVE  SeqArg(pc[c]) \in Seqs
<1>1. ASSUME pc[c] = "shift" PROVE frame \in Int
  <2>1. pc["timer"] # "shift"
    BY DEF TypeInv, ContextsApart, TimerPCs, TimerSites
  <2>2. pc["rx"] = "shift"
    BY <1>1, <2>1 DEF Contexts
  <2>3. frame \in Frames
    BY <2>2 DEF TypeInv, ContextsApart, HasFrame, AtSite
  <2> QED BY <2>3, ConstFacts
<1>2. timerwait_seq_num + 1 \in Int /\ issue_timer_seq + 1 \in Int
  BY TypeFacts, ConstFacts DEF TypeInv, Seqs
<1>3. 0 \in Seqs
  BY ConstFacts DEF Seqs
<1>4. ASSUME frame \in Int PROVE (SeqNo(frame) - (HoldQSz - 1)) % SeqMod \in Seqs
  <2>1. SeqNo(frame) - (HoldQSz - 1) \in Int
    BY <1>4, ConstFacts, SeqNoType
  <2> QED BY <2>1, SeqNoType DEF SeqNo
<1>5. NextSeq(timerwait_seq_num) \in Seqs /\ NextSeq(issue_timer_seq) \in Seqs
  BY <1>2, SeqNoType DEF NextSeq, SeqNo
<1> QED BY <1>1, <1>3, <1>4, <1>5 DEF SeqArg

\* What the loop leaves and collects has the right type.
LEMMA WalkType ==
  ASSUME TypeOK, NEW c \in Contexts
  PROVE  /\ Iterations(c) \in Nat
         /\ Taken(c) \in [Slots -> Frames \cup {NoFrame}]
         /\ Collected(c) \in Seq(Frames)
         /\ (seq_next + Iterations(c)) % SeqMod \in Seqs
<1>1. PICK k \in Nat : k = Iterations(c)
  <2>1. Iterations(c) \in 0 .. HoldQSz
    BY TypeFacts, IterationsIs
  <2> QED BY <2>1, ConstFacts
<1>2. Taken(c) \in [Slots -> Frames \cup {NoFrame}]
  BY TypeFacts DEF Taken
<1> DEFINE s == [i \in 1..k |-> hold_q[SlotAt(c, i - 1)]]
           I == {i \in 1..k : FrameAt(c, i - 1)}
<1>3. \A i \in 1..k : SlotAt(c, i - 1) \in Slots
  BY TypeFacts, SlotAtType
<1>4. s \in Seq(Frames \cup {NoFrame}) /\ I \in SUBSET DOMAIN s
  BY <1>3, TypeFacts
<1>5. \A i \in I : s[i] \in Frames
  <2>1. \A i \in I : s[i] # NoFrame
    BY DEF FrameAt
  <2> QED BY <1>3, <2>1, TypeFacts
<1>6. Collected(c) = Keep(s, I)
  BY <1>1 DEF Collected
<1> HIDE DEF s, I
<1>7. Keep(s, I) \in Seq(Frames)
  <2> DEFINE r == Keep(s, I)
  <2>1. r \in Seq(Frames \cup {NoFrame}) /\ \A g \in DOMAIN r : \E i \in I : r[g] = s[i]
    BY <1>4, KeepElements
  <2> HIDE DEF r
  <2>2. \A g \in DOMAIN r : r[g] \in Frames
    BY <1>5, <2>1
  <2>3. DOMAIN r = 1 .. Len(r) /\ Len(r) \in Nat /\ r = [g \in 1 .. Len(r) |-> r[g]]
    BY <2>1
  <2>4. r \in [1 .. Len(r) -> Frames]
    BY <2>2, <2>3
  <2>5. r \in Seq(Frames)
    BY <2>3, <2>4
  <2> QED BY <2>5 DEF r
<1>8. (seq_next + k) % SeqMod \in Seqs
  <2>1. seq_next + k \in Int
    BY TypeFacts DEF Seqs
  <2> QED BY <2>1, SeqNoType DEF SeqNo
<1> QED BY <1>1, <1>2, <1>6, <1>7, <1>8

LEMMA TypeInit == Init => TypeInv
<1> SUFFICES ASSUME Init PROVE TypeInv
  OBVIOUS
<1>1. 0 \in Seqs /\ 0 \in Slots /\ FirstFrame \in Frames /\ <<>> \in Seq(Frames) /\ 0 <= MaxWait
  BY ConstFacts DEF Seqs, Slots, Frames
<1>2. TypeOK
  <2>1. hold_q \in [Slots -> Frames \cup {NoFrame}]
    BY DEF Init, Empty
  <2>2. /\ pc \in [Contexts -> PCs] /\ site \in [Contexts -> Sites \cup {"none"}]
        /\ idx \in [Contexts -> Slots] /\ idx_end \in [Contexts -> Slots]
    BY <1>1 DEF Init, PCs
  <2>3. continuous_count \in 0 .. (MaxWait + 1)
    BY ConstFacts DEF Init
  <2> QED BY <1>1, <2>1, <2>2, <2>3, TypeFacts DEF Init
<1>3. ContextsApart /\ CountLow
  BY <1>1 DEF Init, ContextsApart, HasFrame, CountLow, AtSite, Contexts, RxPCs, TimerPCs, RxSites, TimerSites
<1> QED BY <1>2, <1>3 DEF TypeInv

\* Where a step may send a context.
LEMMA GotoType ==
  ASSUME TypeInv, NEW c \in Contexts, NEW l \in IF c = "rx" THEN RxPCs ELSE TimerPCs,
         Goto(c, l), l # "walk", UNCHANGED site
  PROVE  /\ pc' \in [Contexts -> PCs]
         /\ pc'["rx"] \in RxPCs /\ pc'["timer"] \in TimerPCs
         /\ \A d \in Contexts : pc'[d] = "walk" => site'[d] \in SitesOf(d)
         /\ pc'[c] = l /\ \A d \in Contexts \ {c} : pc'[d] = pc[d]
<1>1. pc \in [Contexts -> PCs] /\ pc' = [pc EXCEPT ![c] = l]
  BY TypeFacts DEF TypeInv, Goto
<1>2. l \in PCs
  BY DEF PCs, RxPCs, TimerPCs, RxSites, TimerSites, Sites
<1>3. pc'[c] = l /\ \A d \in Contexts \ {c} : pc'[d] = pc[d]
  BY <1>1
<1>4. pc'["rx"] \in RxPCs /\ pc'["timer"] \in TimerPCs
  BY <1>3 DEF Contexts, TypeInv, ContextsApart
<1>5. ASSUME NEW d \in Contexts, pc'[d] = "walk" PROVE site'[d] \in SitesOf(d)
  BY <1>3, <1>5 DEF TypeInv, ContextsApart
<1> QED BY <1>1, <1>2, <1>3, <1>4, <1>5

LEMMA StoreType ==
  ASSUME TypeOK, NEW n \in Frames, Store(n)
  PROVE  /\ hold_q' \in [Slots -> Frames \cup {NoFrame}] /\ stored' \subseteq Frames
         /\ delivered' \in Seq(Frames) /\ upset' \in BOOLEAN
<1>1. WinIdx(SeqNo(n)) \in Slots
  BY ConstFacts, SeqNoType
<1>2. delivered' \in Seq(Frames) /\ stored' \subseteq Frames
  <2>1. delivered \in Seq(Frames) /\ stored \cup {n} \in SUBSET Frames /\ Record(delivered, stored \cup {n})
    BY TypeFacts DEF Store
  <2> QED BY <2>1, RecordType
<1>3. upset' \in BOOLEAN
  BY DEF Store
<1> QED BY <1>1, <1>2, <1>3, TypeFacts DEF Store

LEMMA StoreNotType ==
  ASSUME TypeOK, StoreNot
  PROVE  /\ hold_q' \in [Slots -> Frames \cup {NoFrame}] /\ stored' \subseteq Frames
         /\ delivered' \in Seq(Frames) /\ upset' \in BOOLEAN
<1>1. delivered' \in Seq(Frames) /\ stored' \subseteq Frames
  <2>1. delivered \in Seq(Frames) /\ stored \in SUBSET Frames /\ Record(delivered, stored)
    BY TypeFacts DEF StoreNot
  <2> QED BY <2>1, RecordType
<1> QED BY <1>1, TypeFacts DEF StoreNot

LEMMA TypeReceive ==
  ASSUME TypeInv, NEW n \in Frames, Receive(n)
  PROVE  TypeInv'
<1> DEFINE cur == SeqNo(n)
           st == IF sync_next_seq THEN cur ELSE seq_next
<1>1. n \in Int /\ base \in Int /\ n >= base
  <2>1. base \in Frames /\ n >= base
    BY TypeFacts DEF TypeInv, Receive
  <2> QED BY <2>1, ConstFacts
<1>2. cur \in Seqs /\ st \in Seqs /\ WinIdx(cur) \in Slots
  BY <1>1, TypeFacts, SeqNoType DEF TypeInv
<1>3. PeerBase(n) \in Frames
  BY <1>1, TypeFacts, ConstFacts DEF TypeInv, PeerBase, Frames
<1>4. [hold_q EXCEPT ![WinIdx(cur)] = n] \in [Slots -> Frames \cup {NoFrame}]
  BY <1>2, TypeFacts DEF TypeInv
<1>5. /\ hold_q' \in [Slots -> Frames \cup {NoFrame}] /\ stored' \subseteq Frames
      /\ delivered' \in Seq(Frames) /\ upset' \in BOOLEAN
  <2>1. CASE StoreNot
    BY <2>1, StoreNotType DEF TypeInv
  <2>2. CASE Store(n)
    BY <2>2, StoreType DEF TypeInv
  <2> QED BY <2>1, <2>2 DEF Receive
<1>6. UNCHANGED <<aggr, timerVars, dequeVars, oops, stale>> /\ seq_next' = st
      /\ sync_next_seq' = FALSE /\ base' = PeerBase(n)
  BY DEF Receive
<1>7. frame' \in Frames \cup {NoFrame}
  BY TypeFacts DEF TypeInv, Receive
<1>8. /\ pc["rx"] = "idle"
      /\ \/ frame' = n /\ \E l \in {"chase", "shift"} : Goto("rx", l)
         \/ UNCHANGED <<frame, pc>>
         \/ UNCHANGED frame /\ Goto("rx", "inorder")
  BY DEF Receive, MayStart
<1>9. /\ pc' \in [Contexts -> PCs] /\ ContextsApart'
  <2>1. CASE UNCHANGED <<frame, pc>>
    BY <1>6, <2>1, TypeFacts DEF TypeInv, ContextsApart, HasFrame, AtSite, dequeVars
  <2>2. CASE UNCHANGED frame /\ Goto("rx", "inorder")
    <3>1. "inorder" \in RxPCs /\ "rx" \in Contexts /\ UNCHANGED site
      BY <1>6 DEF RxPCs, RxSites, Contexts, dequeVars
    <3> QED BY <2>2, <3>1, GotoType DEF ContextsApart, HasFrame, AtSite
  <2>3. ASSUME frame' = n, NEW l \in {"chase", "shift"}, Goto("rx", l)
        PROVE pc' \in [Contexts -> PCs] /\ ContextsApart'
    <3>1. l \in RxPCs /\ "rx" \in Contexts /\ UNCHANGED site /\ l # "walk"
      BY <1>6 DEF RxPCs, RxSites, Contexts, dequeVars
    <3>2. /\ pc' \in [Contexts -> PCs]
          /\ pc'["rx"] \in RxPCs /\ pc'["timer"] \in TimerPCs
          /\ \A d \in Contexts : pc'[d] = "walk" => site'[d] \in SitesOf(d)
      BY <2>3, <3>1, GotoType
    <3> QED BY <2>3, <3>2 DEF ContextsApart
  <2> QED BY <1>8, <2>1, <2>2, <2>3
<1>10. TypeOK'
  BY <1>2, <1>3, <1>5, <1>6, <1>7, <1>9, TypeFacts DEF TypeInv, timerVars, dequeVars, TypeOK
<1>11. CountLow'
  BY <1>6 DEF TypeInv, CountLow, timerVars
<1> QED BY <1>9, <1>10, <1>11 DEF TypeInv

LEMMA TypeDequeRead ==
  ASSUME TypeInv, NEW c \in Contexts, DequeRead(c)
  PROVE  TypeInv'
<1>0. UNCHANGED <<aggr, seq_next, sync_next_seq, hold_q, timerVars, frame, base,
                  histVars>> /\ pc[c] \in Sites
  BY DEF DequeRead
<1>1. CASE UNCHANGED <<idx, idx_end, site, pc>> /\ oops' = TRUE
  <2>1. TypeOK'
    BY <1>0, <1>1, TypeFacts DEF TypeInv, timerVars, histVars, TypeOK
  <2>2. ContextsApart' /\ CountLow'
    BY <1>0, <1>1 DEF TypeInv, timerVars, ContextsApart, HasFrame, AtSite, CountLow
  <2> QED BY <2>1, <2>2 DEF TypeInv
<1>2. CASE /\ idx' = [idx EXCEPT ![c] = WinIdx(seq_next)]
           /\ idx_end' = [idx_end EXCEPT ![c] =
                            WinIdx(IF SeqArg(pc[c]) # 0 THEN SeqArg(pc[c]) ELSE seq_next)]
           /\ site' = [site EXCEPT ![c] = pc[c]]
           /\ Goto(c, "walk")
           /\ UNCHANGED oops
  <2>1. \A x \in Seqs : WinIdx(x) \in Slots
    BY ConstFacts, SeqNoType DEF Seqs
  <2>2. idx' \in [Contexts -> Slots] /\ idx_end' \in [Contexts -> Slots]
    <3>1. SeqArg(pc[c]) \in Seqs /\ seq_next \in Seqs
      BY <1>0, SeqArgType, TypeFacts DEF TypeInv
    <3> QED BY <1>2, <2>1, <3>1, TypeFacts DEF TypeInv
  <2>3. /\ pc' \in [Contexts -> PCs] /\ site' \in [Contexts -> Sites \cup {"none"}]
        /\ pc'[c] = "walk" /\ site'[c] = pc[c]
        /\ \A d \in Contexts \ {c} : pc'[d] = pc[d] /\ site'[d] = site[d]
    BY <1>0, <1>2, TypeFacts DEF TypeInv, Goto, PCs
  <2>4. pc[c] \in SitesOf(c)
    BY <1>0 DEF TypeInv, ContextsApart, SitesOf, Contexts, RxPCs, TimerPCs, Sites
  <2>5. TypeOK'
    BY <1>0, <1>2, <2>2, <2>3, TypeFacts DEF TypeInv, timerVars, histVars, TypeOK
  <2>6. pc'["rx"] \in RxPCs /\ pc'["timer"] \in TimerPCs
    BY <2>3 DEF TypeInv, ContextsApart, Contexts, RxPCs, TimerPCs
  <2>7. ASSUME NEW d \in Contexts, pc'[d] = "walk" PROVE site'[d] \in SitesOf(d)
    BY <2>3, <2>4, <2>7 DEF TypeInv, ContextsApart
  <2>8. HasFrame' => frame' \in Frames
    BY <1>0, <2>3 DEF TypeInv, ContextsApart, HasFrame, AtSite, Contexts
  <2>9. ContextsApart' /\ CountLow'
    BY <1>0, <2>6, <2>7, <2>8 DEF TypeInv, ContextsApart, CountLow, timerVars
  <2> QED BY <2>5, <2>9 DEF TypeInv
<1> QED BY <1>1, <1>2 DEF DequeRead

LEMMA TypeDequeWalk ==
  ASSUME TypeInv, NEW c \in Contexts, DequeWalk(c)
  PROVE  TypeInv'
<1>0. UNCHANGED <<aggr, sync_next_seq, timerVars, frame, base, stale>> /\ pc[c] = "walk"
  BY DEF DequeWalk
<1>1. CASE UNCHANGED <<hold_q, delivered, stored, upset, seq_next, pc, dequeVars>> /\ oops' = TRUE
  <2>1. TypeOK'
    BY <1>0, <1>1, TypeFacts DEF TypeInv, timerVars, dequeVars, TypeOK
  <2>2. ContextsApart' /\ CountLow'
    BY <1>0, <1>1 DEF TypeInv, timerVars, dequeVars, ContextsApart, HasFrame, AtSite, CountLow
  <2> QED BY <2>1, <2>2 DEF TypeInv
<1>2. CASE /\ hold_q' = Taken(c)
           /\ upset' = (upset \/ Crosses(c))
           /\ Record(delivered \o Collected(c), stored)
           /\ seq_next' = (seq_next + Iterations(c)) % SeqMod
           /\ Goto(c, ReturnTo(site[c]))
           /\ idx' = [idx EXCEPT ![c] = 0]
           /\ idx_end' = [idx_end EXCEPT ![c] = 0]
           /\ site' = [site EXCEPT ![c] = "none"]
           /\ UNCHANGED oops
  <2>1. TypeOK
    BY DEF TypeInv
  <2>2. 0 \in Slots
    BY ConstFacts DEF Slots
  <2>3. idx' \in [Contexts -> Slots] /\ idx_end' \in [Contexts -> Slots]
    BY <1>2, <2>1, <2>2, TypeFacts
  <2>4. hold_q' \in [Slots -> Frames \cup {NoFrame}] /\ seq_next' \in Seqs
    BY <1>2, <2>1, WalkType
  <2>5. delivered' \in Seq(Frames) /\ stored' \subseteq Frames /\ upset' \in BOOLEAN
    <3>1. Collected(c) \in Seq(Frames) /\ delivered \in Seq(Frames) /\ stored \in SUBSET Frames
      BY <2>1, WalkType, TypeFacts
    <3>2. delivered \o Collected(c) \in Seq(Frames)
      BY <3>1
    <3> QED BY <1>2, <3>1, <3>2, RecordType
  <2>6. site[c] \in SitesOf(c)
    BY <1>0 DEF TypeInv, ContextsApart
  <2>7. /\ ReturnTo(site[c]) \in IF c = "rx" THEN RxPCs ELSE TimerPCs
        /\ ReturnTo(site[c]) # "walk" /\ ReturnTo(site[c]) \in PCs
    <3>1. CASE c = "rx"
      <4>1. site[c] \in RxSites
        BY <2>6, <3>1 DEF SitesOf
      <4> QED BY <3>1, <4>1 DEF ReturnTo, RxPCs, PCs, Sites, RxSites
    <3>2. CASE c = "timer"
      <4>1. site[c] \in TimerSites
        BY <2>6, <3>2 DEF SitesOf
      <4> QED BY <3>2, <4>1 DEF ReturnTo, TimerPCs, PCs, Sites, TimerSites
    <3> QED BY <3>1, <3>2 DEF Contexts
  <2>8. /\ pc' \in [Contexts -> PCs] /\ site' \in [Contexts -> Sites \cup {"none"}]
        /\ pc'[c] = ReturnTo(site[c])
        /\ \A d \in Contexts \ {c} : pc'[d] = pc[d] /\ site'[d] = site[d]
    BY <1>2, <2>1, <2>7, TypeFacts DEF Goto
  <2>9. TypeOK'
    BY <1>0, <1>2, <2>1, <2>3, <2>4, <2>5, <2>8, TypeFacts DEF timerVars, TypeOK
  <2>10. pc'["rx"] \in RxPCs /\ pc'["timer"] \in TimerPCs
    BY <2>7, <2>8 DEF TypeInv, ContextsApart, Contexts
  <2>11. ASSUME NEW d \in Contexts, pc'[d] = "walk" PROVE site'[d] \in SitesOf(d)
    BY <2>7, <2>8, <2>11 DEF TypeInv, ContextsApart
  <2>12. ASSUME HasFrame' PROVE frame' \in Frames
    <3>1. CASE c = "rx"
      <4>1. site["rx"] \in RxSites /\ pc["rx"] = "walk"
        BY <1>0, <2>6, <3>1 DEF SitesOf
      <4>2. site["rx"] \in {"shift", "chase"}
        BY <2>8, <2>12, <3>1, <4>1 DEF HasFrame, AtSite, ReturnTo, RxSites
      <4> QED BY <1>0, <4>1, <4>2 DEF TypeInv, ContextsApart, HasFrame, AtSite
    <3>2. CASE c # "rx"
      BY <1>0, <2>8, <2>12, <3>2 DEF AtSite, TypeInv, ContextsApart, HasFrame, Contexts
    <3> QED BY <3>1, <3>2
  <2>13. ContextsApart' /\ CountLow'
    BY <1>0, <2>10, <2>11, <2>12 DEF TypeInv, ContextsApart, CountLow, timerVars
  <2> QED BY <2>9, <2>13 DEF TypeInv
<1> QED BY <1>1, <1>2 DEF DequeWalk

\* A step outside of aggr_deque_frms that leaves the frame's places.
LEMMA ContextsGoto ==
  ASSUME TypeInv, NEW c \in Contexts, NEW l \in IF c = "rx" THEN RxPCs ELSE TimerPCs,
         Goto(c, l), UNCHANGED dequeVars,
         l \notin {"walk", "shift", "chase", "shifted", "chased"},
         frame' = frame \/ c = "rx"
  PROVE  /\ pc' \in [Contexts -> PCs] /\ ContextsApart'
         /\ pc'[c] = l /\ \A d \in Contexts \ {c} : pc'[d] = pc[d]
<1>1. /\ pc' \in [Contexts -> PCs]
      /\ pc'["rx"] \in RxPCs /\ pc'["timer"] \in TimerPCs
      /\ \A d \in Contexts : pc'[d] = "walk" => site'[d] \in SitesOf(d)
      /\ pc'[c] = l /\ \A d \in Contexts \ {c} : pc'[d] = pc[d]
  BY GotoType DEF dequeVars
<1>2. ASSUME HasFrame' PROVE frame' \in Frames
  <2>1. CASE c = "rx"
    BY <1>1, <1>2, <2>1 DEF AtSite, HasFrame
  <2>2. CASE c # "rx"
    BY <1>1, <1>2, <2>2 DEF AtSite, dequeVars, TypeInv, ContextsApart, HasFrame, Contexts
  <2> QED BY <2>1, <2>2
<1> QED BY <1>1, <1>2 DEF ContextsApart

LEMMA TypeShiftedChased ==
  ASSUME TypeInv, Shifted \/ Chased
  PROVE  TypeInv'
<1>1. /\ UNCHANGED <<aggr, sync_next_seq, timerVars, dequeVars, base, oops, stale>>
      /\ frame' = NoFrame /\ pc["rx"] \in {"shifted", "chased"}
      /\ Store(frame) \/ StoreNot
  BY DEF Shifted, Chased
<1>2. frame \in Frames
  BY <1>1 DEF TypeInv, ContextsApart, HasFrame
<1>3. /\ hold_q' \in [Slots -> Frames \cup {NoFrame}] /\ stored' \subseteq Frames
      /\ delivered' \in Seq(Frames) /\ upset' \in BOOLEAN
  BY <1>1, <1>2, StoreType, StoreNotType DEF TypeInv
<1>4. seq_next' \in Seqs
  <2>1. SeqNo(frame) - HoldQSz \in Int
    BY <1>2, ConstFacts, SeqNoType
  <2>2. (SeqNo(frame) - HoldQSz) % SeqMod \in Seqs
    BY <2>1, SeqNoType DEF SeqNo
  <2> QED BY <2>2, TypeFacts DEF TypeInv, Shifted, Chased
<1>5. PICK l \in {"idle", "inorder"} : Goto("rx", l)
  BY DEF Shifted, Chased
<1>6. l \in RxPCs /\ "rx" \in Contexts
  BY <1>5 DEF RxPCs, RxSites, Contexts
<1>7. pc' \in [Contexts -> PCs] /\ ContextsApart'
  BY <1>1, <1>5, <1>6, ContextsGoto
<1>8. TypeOK' /\ CountLow'
  BY <1>1, <1>3, <1>4, <1>7, TypeFacts DEF TypeInv, timerVars, dequeVars, TypeOK, CountLow
<1> QED BY <1>7, <1>8 DEF TypeInv

\* The number of the frame the timer is started for.
LEMMA LowestType ==
  ASSUME TypeOK, HeldSlots # {}
  PROVE  SeqNo(hold_q[LowestHeld]) \in Seqs
<1>1. LowestHeld \in HeldSlots
  BY LowestHeldIs
<1>2. hold_q[LowestHeld] \in Frames
  BY <1>1, TypeFacts DEF HeldSlots
<1>3. PICK n \in Frames : n = hold_q[LowestHeld]
  BY <1>2
<1>4. n \in Int
  BY ConstFacts
<1> QED BY <1>3, <1>4, SeqNoType

LEMMA TypeSettle ==
  ASSUME TypeInv, Settle
  PROVE  TypeInv'
<1>1. /\ UNCHANGED <<aggr, seq_next, sync_next_seq, hold_q, dequeVars, frame,
                     base, oops, delivered, stored, upset>>
      /\ Goto("rx", "idle")
  BY DEF Settle
<1>2. "idle" \in RxPCs /\ "rx" \in Contexts
  BY DEF RxPCs, Contexts
<1>3. pc' \in [Contexts -> PCs] /\ ContextsApart'
  BY <1>1, <1>2, ContextsGoto
<1>4. /\ tid_timer \in BOOLEAN /\ tid_timer_scheduled \in BOOLEAN
      /\ continuous_count \in 0 .. (MaxWait + 1) /\ MaxWait \in Nat
      /\ ~tid_timer_scheduled => continuous_count <= MaxWait
  BY TypeFacts, ConstFacts DEF TypeInv, CountLow
<1>5. /\ tid_timer' \in BOOLEAN /\ tid_timer_scheduled' \in BOOLEAN
      /\ stale' \in BOOLEAN
      /\ issue_timer_seq' \in Seqs /\ timerwait_seq_num' \in Seqs
  BY LowestType, TypeFacts DEF Settle, TypeInv, Restarts
<1>6. continuous_count' \in 0 .. (MaxWait + 1) /\ (~tid_timer_scheduled' => continuous_count' <= MaxWait)
  <2>1. CASE Restarts
    <3>1. continuous_count' \in {0, 1} /\ (~tid_timer_scheduled' => continuous_count' = 0)
      BY <2>1 DEF Settle
    <3> QED BY <1>4, <3>1
  <2>2. CASE ~Restarts /\ tid_timer_scheduled
    <3>1. continuous_count' = continuous_count /\ tid_timer_scheduled'
      BY <2>2 DEF Settle
    <3> QED BY <1>4, <3>1
  <2>3. CASE ~tid_timer_scheduled
    <3>1. /\ continuous_count' \in {continuous_count, continuous_count + 1}
          /\ ~tid_timer_scheduled' => continuous_count' = continuous_count
      BY <2>3 DEF Settle, Restarts
    <3> QED BY <1>4, <2>3, <3>1
  <2> QED BY <1>4, <2>1, <2>2, <2>3
<1>7. TypeOK'
  BY <1>1, <1>3, <1>5, <1>6, TypeFacts DEF TypeInv, dequeVars, TypeOK
<1> QED BY <1>3, <1>6, <1>7 DEF TypeInv, CountLow

LEMMA TypeRearm ==
  ASSUME TypeInv, Rearm
  PROVE  TypeInv'
<1>1. /\ UNCHANGED <<aggr, seq_next, sync_next_seq, hold_q, dequeVars, frame,
                     base, oops, delivered, stored, upset>>
      /\ Goto("timer", "idle")
  BY DEF Rearm
<1>2. "idle" \in TimerPCs /\ "timer" \in Contexts
  BY DEF TimerPCs, Contexts
<1>3. pc' \in [Contexts -> PCs] /\ ContextsApart'
  BY <1>1, <1>2, ContextsGoto
<1>4. tid_timer \in BOOLEAN /\ continuous_count \in 0 .. (MaxWait + 1) /\ MaxWait \in Nat \ {0}
      /\ aggr \in BOOLEAN
  BY TypeFacts, ConstFacts DEF TypeInv
<1>5. /\ tid_timer' \in BOOLEAN /\ tid_timer_scheduled' \in BOOLEAN
      /\ stale' \in BOOLEAN
      /\ issue_timer_seq' \in Seqs /\ timerwait_seq_num' \in Seqs
  BY <1>4, LowestType, TypeFacts DEF Rearm, TypeInv, StillWaiting
<1>6. continuous_count' \in 0 .. MaxWait
  <2>1. PICK count \in {continuous_count, continuous_count + 1} : continuous_count' = Limited(count)
    <3>1. continuous_count + 0 = continuous_count
      BY <1>4
    <3> QED BY <3>1 DEF Rearm
  <2> QED BY <1>4, <2>1 DEF Limited
<1>7. continuous_count' \in 0 .. (MaxWait + 1) /\ continuous_count' <= MaxWait
  BY <1>4, <1>6
<1>8. TypeOK'
  BY <1>1, <1>3, <1>5, <1>7, TypeFacts DEF TypeInv, dequeVars, TypeOK
<1> QED BY <1>3, <1>7, <1>8 DEF TypeInv, CountLow

LEMMA TypeTimer ==
  ASSUME TypeInv, Expire \/ Timeout \/ Judge \/ Jumped
  PROVE  TypeInv'
<1>1. /\ UNCHANGED <<aggr, seq_next, sync_next_seq, hold_q, tid_timer_scheduled, timerwait_seq_num,
                     issue_timer_seq, dequeVars, frame, worldVars>>
      /\ tid_timer' \in {tid_timer, FALSE} /\ continuous_count' \in {continuous_count, 0}
  BY DEF Expire, Timeout, Judge, Jumped, timerVars
<1>2. PICK l \in {"timeout", "idle", "skip", "rearm", "jump"} : Goto("timer", l)
  BY DEF Expire, Timeout, Judge, Jumped
<1>3. l \in TimerPCs /\ "timer" \in Contexts
  BY <1>2 DEF TimerPCs, TimerSites, Contexts
<1>4. pc' \in [Contexts -> PCs] /\ ContextsApart'
  BY <1>1, <1>2, <1>3, ContextsGoto
<1>5. continuous_count' \in 0 .. (MaxWait + 1) /\ CountLow'
  <2>1. continuous_count \in 0 .. (MaxWait + 1) /\ MaxWait \in Nat
    BY TypeFacts, ConstFacts DEF TypeInv
  <2> QED BY <1>1, <2>1 DEF TypeInv, CountLow
<1>6. TypeOK'
  BY <1>1, <1>4, <1>5, TypeFacts DEF TypeInv, dequeVars, worldVars, histVars, TypeOK
<1> QED BY <1>4, <1>5, <1>6 DEF TypeInv

LEMMA TypeSession ==
  ASSUME TypeInv, AddBa \/ StartSession \/ EndSession \/ DeleteTidState
  PROVE  TypeInv'
<1>1. /\ UNCHANGED <<timerVars, dequeVars, frame, base, oops>>
      /\ aggr' \in {aggr, TRUE, FALSE} /\ sync_next_seq' \in {sync_next_seq, TRUE}
      /\ hold_q' \in {hold_q, Empty} /\ delivered' \in {delivered, <<>>} /\ stored' \in {stored, {}}
      /\ seq_next' \in {seq_next, 0, SeqNo(base)}
  BY DEF AddBa, StartSession, EndSession, DeleteTidState, worldVars, histVars
<1>2. PICK l \in {"idle", "flush", "reflush", "delete", "addba"} : Goto("rx", l)
  BY DEF AddBa, StartSession, EndSession, DeleteTidState
<1>3. l \in RxPCs /\ "rx" \in Contexts
  BY <1>2 DEF RxPCs, RxSites, Contexts
<1>4. pc' \in [Contexts -> PCs] /\ ContextsApart'
  BY <1>1, <1>2, <1>3, ContextsGoto
<1>5. seq_next' \in Seqs
  <2>1. base \in Frames /\ seq_next \in Seqs
    BY TypeFacts DEF TypeInv
  <2>2. base \in Int /\ 0 \in Seqs
    BY <2>1, ConstFacts DEF Seqs
  <2> QED BY <1>1, <2>1, <2>2, SeqNoType
<1>6. hold_q' \in [Slots -> Frames \cup {NoFrame}]
  BY <1>1, TypeFacts DEF TypeInv, Empty
<1>7. delivered' \in Seq(Frames)
  <2>1. delivered \in Seq(Frames) /\ <<>> \in Seq(Frames)
    BY TypeFacts DEF TypeInv
  <2> QED BY <1>1, <2>1
<1>8. upset' \in BOOLEAN /\ stale' \in BOOLEAN
  <2>1. upset \in BOOLEAN /\ stale \in BOOLEAN /\ tid_timer_scheduled \in BOOLEAN
    BY TypeFacts DEF TypeInv
  <2>2. \/ UNCHANGED <<upset, stale>>
        \/ upset' = (upset \/ Crosses("rx")) /\ UNCHANGED stale
        \/ upset' = Committed("timer") /\ stale' = tid_timer_scheduled
    BY DEF AddBa, StartSession, EndSession, DeleteTidState, worldVars, histVars
  <2>3. CASE UNCHANGED <<upset, stale>>
    BY <2>1, <2>3
  <2>4. CASE upset' = (upset \/ Crosses("rx")) /\ UNCHANGED stale
    <3>1. upset' \in BOOLEAN
      BY <2>4
    <3> QED BY <2>1, <2>4, <3>1
  <2>5. CASE upset' = Committed("timer") /\ stale' = tid_timer_scheduled
    <3>1. upset' \in BOOLEAN
      BY <2>5 DEF Committed
    <3> QED BY <2>1, <2>5, <3>1
  <2> QED BY <2>2, <2>3, <2>4, <2>5
<1>9. CountLow'
  BY <1>1 DEF TypeInv, timerVars, CountLow
<1>10. /\ {aggr', sync_next_seq', tid_timer', tid_timer_scheduled', oops'} \subseteq BOOLEAN
       /\ stored' \subseteq Frames
  BY <1>1, TypeFacts DEF TypeInv, timerVars
<1>11. TypeOK'
  BY <1>1, <1>4, <1>5, <1>6, <1>7, <1>8, <1>10, TypeFacts DEF TypeInv, dequeVars, timerVars, TypeOK
<1> QED BY <1>4, <1>9, <1>11 DEF TypeInv

LEMMA TypeStep ==
  TypeInv /\ [Next]_vars => TypeInv'
<1> SUFFICES ASSUME TypeInv, [Next]_vars PROVE TypeInv'
  OBVIOUS
<1>1. ASSUME NEW n \in Frames, Receive(n) PROVE TypeInv'
  BY <1>1, TypeReceive
<1>2. CASE AddBa \/ StartSession \/ EndSession \/ DeleteTidState
  BY <1>2, TypeSession
<1>3. CASE Expire \/ Timeout \/ Judge \/ Jumped
  BY <1>3, TypeTimer
<1>4. ASSUME NEW c \in Contexts, DequeRead(c) \/ DequeWalk(c) PROVE TypeInv'
  BY <1>4, TypeDequeRead, TypeDequeWalk
<1>5. CASE Shifted \/ Chased \/ Settle \/ Rearm
  BY <1>5, TypeShiftedChased, TypeSettle, TypeRearm
<1>6. CASE UNCHANGED vars
  BY <1>6 DEF vars, dequeVars, timerVars, worldVars, histVars, TypeInv, TypeOK, ContextsApart, HasFrame, CountLow, AtSite
<1> QED BY <1>1, <1>2, <1>3, <1>4, <1>5, <1>6 DEF Next, Step

LEMMA TypeInvHolds == Spec => []TypeInv
BY TypeInit, TypeStep, PTL DEF Spec

\* Every variable of receive reordering has its type in every reachable state,
\* races of timer and worker included; the divisor continuous_count of the next
\* timeout never exceeds ATH6KL_MAX_WAIT_CONTINUOUS_PKT + 1.
THEOREM TypeCorrect == Spec => []TypeOK
<1>1. TypeInv => TypeOK
  BY DEF TypeInv
<1> QED BY <1>1, TypeInvHolds, PTL

-----------------------------------------------------------------------------
(* A held frame has a timer *)

\* Only the worker ends a session, and it does not while it is in its own part
\* of this code.
InSession ==
  pc["rx"] \in {"walk", "shift", "shifted", "chase", "chased", "inorder", "settle"} => aggr

\* A timer marked as scheduled is pending or running, or the mark is left from
\* an earlier session.
ScheduledRuns == tid_timer_scheduled => stale \/ tid_timer \/ pc["timer"] # "idle"

\* The worker still has to settle the timer.
Settling == AtSite("rx", "inorder") \/ pc["rx"] = "settle"

\* A held frame has a timer, or one of the contexts will see to it.
HeldWatched ==
  HeldSlots # {} => Settling \/ tid_timer_scheduled \/ pc["timer"] # "idle"

\* Outside of a session nothing is held, and a timer marked as scheduled is left
\* from one.
NoSessionQuiet == ~aggr => HeldSlots = {} /\ (tid_timer_scheduled => stale)

WatchInv == TypeInv /\ InSession /\ ScheduledRuns /\ HeldWatched /\ NoSessionQuiet

LEMMA WatchInit == Init => WatchInv
<1> SUFFICES ASSUME Init PROVE WatchInv
  OBVIOUS
<1>1. TypeInv
  BY TypeInit
<1>2. HeldSlots = {}
  BY DEF Init, HeldSlots, Empty
<1>3. InSession /\ ScheduledRuns /\ HeldWatched /\ NoSessionQuiet
  BY <1>2 DEF Init, InSession, ScheduledRuns, HeldWatched, NoSessionQuiet, Contexts
<1> QED BY <1>1, <1>3 DEF WatchInv

LEMMA WatchStep ==
  ASSUME WatchInv, [Next]_vars
  PROVE  WatchInv'
<1>0. TypeInv' /\ TypeInv
  BY TypeStep DEF WatchInv
<1> DEFINE Rest == InSession /\ ScheduledRuns /\ HeldWatched /\ NoSessionQuiet
<1>t. /\ pc \in [Contexts -> PCs] /\ site \in [Contexts -> Sites \cup {"none"}]
      /\ "rx" \in Contexts /\ "timer" \in Contexts /\ Contexts = {"rx", "timer"} /\ "rx" # "timer"
  BY <1>0, TypeFacts DEF TypeInv, Contexts
<1>g. \A c \in Contexts : \A l : Goto(c, l) => pc'[c] = l /\ \A d \in Contexts \ {c} : pc'[d] = pc[d]
  BY <1>t DEF Goto
<1>b. /\ stale \in BOOLEAN /\ stale' \in BOOLEAN
      /\ aggr \in BOOLEAN /\ tid_timer \in BOOLEAN /\ tid_timer_scheduled \in BOOLEAN
      /\ aggr' \in BOOLEAN /\ tid_timer' \in BOOLEAN /\ tid_timer_scheduled' \in BOOLEAN
  BY <1>0, TypeFacts DEF TypeInv, TypeOK
<1>h. UNCHANGED hold_q => HeldSlots' = HeldSlots
  BY DEF HeldSlots
<1>1. ASSUME NEW n \in Frames, Receive(n) PROVE Rest'
  <2>1. /\ pc["rx"] = "idle" /\ aggr /\ UNCHANGED <<aggr, timerVars, dequeVars, stale>>
        /\ \/ \E l \in {"chase", "shift"} : Goto("rx", l) /\ UNCHANGED hold_q
           \/ UNCHANGED <<pc, hold_q>>
           \/ Goto("rx", "inorder")
    BY <1>1 DEF Receive, MayStart, StoreNot
  <2>2. CASE UNCHANGED <<pc, hold_q>>
    BY <1>b, <1>h, <2>1, <2>2 DEF WatchInv, InSession, ScheduledRuns, HeldWatched, NoSessionQuiet, Settling,
       AtSite, timerVars, dequeVars
  <2>3. CASE Goto("rx", "inorder")
    <3>1. pc'["rx"] = "inorder" /\ pc'["timer"] = pc["timer"]
      BY <1>t, <1>g, <2>3
    <3> QED BY <1>b, <1>h, <2>1, <3>1 DEF WatchInv, InSession, ScheduledRuns, HeldWatched, NoSessionQuiet, Settling,
         AtSite, timerVars, dequeVars
  <2>4. ASSUME NEW l \in {"chase", "shift"}, Goto("rx", l), UNCHANGED hold_q PROVE Rest'
    <3>1. pc'["rx"] = l /\ pc'["timer"] = pc["timer"]
      BY <1>t, <1>g, <2>4
    <3> QED BY <1>b, <1>h, <2>1, <2>4, <3>1 DEF WatchInv, InSession, ScheduledRuns, HeldWatched, NoSessionQuiet, Settling,
         AtSite, timerVars, dequeVars
  <2> QED BY <2>1, <2>2, <2>3, <2>4
<1>2. ASSUME AddBa \/ StartSession \/ EndSession PROVE Rest'
  <2>1. /\ UNCHANGED <<hold_q, timerVars, dequeVars, stale>> /\ (aggr => aggr')
        /\ pc["rx"] \in {"idle", "addba"}
    BY <1>2 DEF AddBa, StartSession, EndSession, MayStart, worldVars, histVars
  <2>2. PICK l \in {"addba", "idle", "flush", "reflush", "delete"} : Goto("rx", l)
    BY <1>2 DEF AddBa, StartSession, EndSession
  <2>3. pc'["rx"] = l /\ pc'["timer"] = pc["timer"]
    BY <1>t, <1>g, <2>2
  <2>4. ~Settling
    BY <2>1 DEF Settling, AtSite
  <2>5. HeldSlots' = HeldSlots /\ UNCHANGED <<tid_timer, tid_timer_scheduled>> /\ (aggr => aggr')
    BY <1>b, <1>h, <2>1 DEF timerVars
  <2>6. InSession'
    BY <2>3, <2>5 DEF InSession
  <2> QED BY <1>b, <2>1, <2>3, <2>4, <2>5, <2>6 DEF WatchInv, ScheduledRuns, HeldWatched, NoSessionQuiet
<1>3. ASSUME DeleteTidState PROVE Rest'
  <2>1. /\ ~aggr' /\ hold_q' = Empty /\ stale' = tid_timer_scheduled /\ UNCHANGED <<timerVars, dequeVars>>
    BY <1>3 DEF DeleteTidState
  <2>2. PICK l \in {"idle", "addba"} : Goto("rx", l)
    BY <1>3 DEF DeleteTidState
  <2>3. pc'["rx"] = l /\ pc'["timer"] = pc["timer"]
    BY <1>t, <1>g, <2>2
  <2>4. HeldSlots' = {}
    BY <2>1 DEF HeldSlots, Empty
  <2> QED BY <1>b, <2>1, <2>3, <2>4 DEF WatchInv, InSession, ScheduledRuns, HeldWatched, NoSessionQuiet, timerVars
<1>4. ASSUME Expire \/ Timeout \/ Judge \/ Jumped PROVE Rest'
  <2>1. /\ UNCHANGED <<aggr, hold_q, tid_timer_scheduled, dequeVars, stale>>
        /\ tid_timer' \in {tid_timer, FALSE}
    BY <1>4 DEF Expire, Timeout, Judge, Jumped, timerVars, worldVars, histVars
  <2>2. PICK l \in {"timeout", "skip", "rearm", "jump", "idle"} :
          Goto("timer", l) /\ (l = "idle" => ~(aggr /\ tid_timer_scheduled) /\ pc["timer"] = "idle")
    BY <1>4 DEF Expire, Timeout, Judge, Jumped, MayStart
  <2>3. pc'["timer"] = l /\ pc'["rx"] = pc["rx"]
    BY <1>t, <1>g, <2>2
  <2> QED BY <1>b, <1>h, <2>1, <2>2, <2>3 DEF WatchInv, InSession, ScheduledRuns, HeldWatched, NoSessionQuiet, Settling,
       AtSite, dequeVars
<1>5. ASSUME Rearm PROVE Rest'
  <2>1. /\ UNCHANGED <<aggr, hold_q, dequeVars>> /\ tid_timer_scheduled' = StillWaiting
        /\ tid_timer' = (tid_timer \/ StillWaiting) /\ Goto("timer", "idle")
    BY <1>5 DEF Rearm
  <2>2. pc'["timer"] = "idle" /\ pc'["rx"] = pc["rx"]
    BY <1>t, <1>g, <2>1
  <2> QED BY <1>b, <1>h, <2>1, <2>2 DEF StillWaiting, WatchInv, InSession, ScheduledRuns, HeldWatched, NoSessionQuiet,
       Settling, AtSite, dequeVars
<1>6. ASSUME Shifted \/ Chased PROVE Rest'
  <2>1. /\ UNCHANGED <<aggr, timerVars, dequeVars, stale>> /\ pc["rx"] \in {"shifted", "chased"}
        /\ \/ Goto("rx", "inorder") /\ Store(frame)
           \/ Goto("rx", "idle") /\ UNCHANGED hold_q
    BY <1>6 DEF Shifted, Chased, StoreNot
  <2>2. CASE Goto("rx", "idle") /\ UNCHANGED hold_q
    <3>1. pc'["rx"] = "idle" /\ pc'["timer"] = pc["timer"]
      BY <1>t, <1>g, <2>2
    <3> QED BY <1>b, <1>h, <2>1, <2>2, <3>1 DEF WatchInv, InSession, ScheduledRuns, HeldWatched, NoSessionQuiet, Settling,
         AtSite, timerVars, dequeVars
  <2>3. CASE Goto("rx", "inorder") /\ Store(frame)
    <3>1. pc'["rx"] = "inorder" /\ pc'["timer"] = pc["timer"]
      BY <1>t, <1>g, <2>3
    <3> QED BY <1>b, <1>h, <2>1, <3>1 DEF WatchInv, InSession, ScheduledRuns, HeldWatched, NoSessionQuiet, Settling,
         AtSite, timerVars, dequeVars
  <2> QED BY <2>1, <2>2, <2>3
<1>7. ASSUME Settle PROVE Rest'
  <2>1. /\ UNCHANGED <<aggr, hold_q, dequeVars>> /\ Goto("rx", "idle") /\ pc["rx"] = "settle"
        /\ \/ tid_timer_scheduled' = TRUE /\ tid_timer' = TRUE
           \/ /\ tid_timer_scheduled /\ ~Restarts
              /\ tid_timer_scheduled' = TRUE /\ tid_timer' = tid_timer /\ stale' = stale
           \/ tid_timer_scheduled' = FALSE /\ HeldSlots = {}
    <3>1. tid_timer \in BOOLEAN /\ tid_timer_scheduled \in BOOLEAN /\ stale \in BOOLEAN
      BY <1>0, TypeFacts DEF TypeInv
    <3> QED BY <1>7, <3>1 DEF Settle
  <2>2. pc'["rx"] = "idle" /\ pc'["timer"] = pc["timer"]
    BY <1>t, <1>g, <2>1
  <2> QED BY <1>b, <1>h, <2>1, <2>2 DEF WatchInv, InSession, ScheduledRuns, HeldWatched, NoSessionQuiet,
       Settling, AtSite, dequeVars
<1>8. ASSUME NEW c \in Contexts, DequeRead(c) PROVE Rest'
  <2>1. UNCHANGED <<aggr, hold_q, timerVars, stale>> /\ pc[c] \in Sites
    BY <1>8 DEF DequeRead, histVars
  <2>2. CASE UNCHANGED <<site, pc>>
    BY <1>b, <1>h, <2>1, <2>2 DEF WatchInv, InSession, ScheduledRuns, HeldWatched, NoSessionQuiet,
       Settling, AtSite, timerVars
  <2>3. CASE aggr /\ site' = [site EXCEPT ![c] = pc[c]] /\ Goto(c, "walk")
    <3>1. pc'[c] = "walk" /\ site'[c] = pc[c] /\ \A d \in Contexts \ {c} : pc'[d] = pc[d] /\ site'[d] = site[d]
      BY <1>t, <1>g, <2>3
    <3>2. CASE c = "rx"
      <4>1. Settling => Settling'
        BY <2>1, <3>1, <3>2 DEF Settling, AtSite, Sites
      <4> QED BY <1>b, <1>h, <1>t, <2>1, <2>3, <3>1, <3>2, <4>1 DEF WatchInv, InSession, ScheduledRuns, HeldWatched, NoSessionQuiet,
           Settling, AtSite, timerVars
    <3>3. CASE c = "timer"
      <4>1. pc["timer"] # "idle"
        BY <2>1, <3>3 DEF Sites
      <4> QED BY <1>b, <1>h, <1>t, <2>1, <3>1, <3>3, <4>1 DEF WatchInv, InSession, ScheduledRuns, HeldWatched, NoSessionQuiet,
           Settling, AtSite, timerVars
    <3> QED BY <1>t, <3>2, <3>3
  <2> QED BY <1>8, <2>2, <2>3 DEF DequeRead
<1>9. ASSUME NEW c \in Contexts, DequeWalk(c) PROVE Rest'
  <2>1. UNCHANGED <<aggr, timerVars, stale>> /\ pc[c] = "walk"
    BY <1>9 DEF DequeWalk
  <2>2. CASE UNCHANGED <<pc, dequeVars, hold_q>>
    BY <1>b, <1>h, <2>1, <2>2 DEF WatchInv, InSession, ScheduledRuns, HeldWatched, NoSessionQuiet,
       Settling, AtSite, timerVars, dequeVars
  <2>3. CASE /\ site' = [site EXCEPT ![c] = "none"] /\ Goto(c, ReturnTo(site[c])) /\ hold_q' = Taken(c)
    <3>1. /\ pc'[c] = ReturnTo(site[c])
          /\ \A d \in Contexts \ {c} : pc'[d] = pc[d] /\ site'[d] = site[d]
      BY <1>t, <1>g, <2>3
    <3>2. HeldSlots' \subseteq HeldSlots
      BY <2>3 DEF HeldSlots, Taken
    <3>3. CASE c = "rx"
      <4>1. site["rx"] \in RxSites /\ aggr
        BY <1>0, <2>1, <3>3 DEF TypeInv, ContextsApart, SitesOf, WatchInv, InSession
      <4>2. \/ site["rx"] = "inorder" /\ pc'["rx"] = "settle"
            \/ site["rx"] # "inorder"
        BY <3>1, <3>3, <4>1 DEF ReturnTo
      <4>3. Settling => Settling'
        BY <2>1, <3>3, <4>2 DEF Settling, AtSite
      <4>4. InSession'
        BY <2>1, <4>1 DEF InSession
      <4> QED BY <1>b, <1>h, <1>t, <2>1, <3>1, <3>2, <3>3, <4>3, <4>4 DEF WatchInv, ScheduledRuns, HeldWatched,
           NoSessionQuiet, timerVars
    <3>4. CASE c = "timer"
      <4>1. site["timer"] \in TimerSites
        BY <1>0, <2>1, <3>4 DEF TypeInv, ContextsApart, SitesOf, Contexts
      <4>2. pc'["timer"] # "idle"
        BY <3>1, <3>4, <4>1 DEF TimerSites, ReturnTo
      <4> QED BY <1>b, <1>h, <1>t, <2>1, <3>1, <3>2, <3>4, <4>2 DEF WatchInv, InSession, ScheduledRuns, HeldWatched, NoSessionQuiet,
           timerVars
    <3> QED BY <1>t, <3>3, <3>4
  <2> QED BY <1>9, <2>2, <2>3 DEF DequeWalk
<1>10. ASSUME UNCHANGED vars PROVE Rest'
  BY <1>b, <1>h, <1>10 DEF vars, dequeVars, timerVars, worldVars, histVars, WatchInv, InSession, ScheduledRuns, HeldWatched, NoSessionQuiet,
     Settling, AtSite
<1>11. Rest'
  BY <1>1, <1>2, <1>3, <1>4, <1>5, <1>6, <1>7, <1>8, <1>9, <1>10 DEF Next, Step
<1> QED BY <1>0, <1>11 DEF WatchInv

\* In a session that found tid_timer_scheduled in order a held frame always has a
\* timer, or a context inside aggr_process_recv_frm or aggr_timeout that is about
\* to start one: with old frames dropped or kept, however the two contexts
\* interleave between their lock sections, and whenever sessions end and start.
THEOREM HeldTimedHolds == Spec => []HeldTimed
<1>1. WatchInv /\ [Next]_vars => WatchInv'
  BY WatchStep
<1>2. WatchInv => HeldTimed
  BY DEF WatchInv, HeldTimed, HeldHasTimer, HeldWatched, ScheduledRuns, Settling, AtSite, Contexts
<1> QED BY <1>1, <1>2, WatchInit, PTL DEF Spec

-----------------------------------------------------------------------------
(* The window as frames *)

\* S is the frame whose number seq_next is: the window holds S .. S + hold_q_sz - 1,
\* each in the slot of its number, and everything delivered came before.
Placed(S) ==
  \A i \in HeldSlots : WinIdx(hold_q[i]) = i /\ S <= hold_q[i] /\ hold_q[i] < S + HoldQSz

\* The peer has sent what is held.
HeldSent == \A i \in HeldSlots : hold_q[i] < base + WinSz

Before(S) == \A j \in 1..Len(delivered) : delivered[j] < S

Window(S) == SeqNo(S) = seq_next /\ Placed(S) /\ HeldSent /\ Before(S)

LEMMA HeldType ==
  ASSUME TypeOK, NEW i \in HeldSlots
  PROVE  i \in Slots /\ hold_q[i] \in Frames /\ hold_q[i] \in Int /\ hold_q[i] # NoFrame
<1>1. PICK n : n = hold_q[i] /\ n \in Frames /\ i \in Slots /\ n # NoFrame
  BY TypeFacts DEF HeldSlots
<1>2. n \in Int
  BY <1>1, ConstFacts
<1> QED BY <1>1, <1>2

\* Two frames of one window with one slot are the same.
LEMMA SameSlot ==
  ASSUME NEW S \in Int, NEW a \in Int, NEW b \in Int, S <= a, a < S + HoldQSz,
         S <= b, b < S + HoldQSz, WinIdx(a) = WinIdx(b)
  PROVE  a = b
<1>1. a - b < HoldQSz /\ b - a < HoldQSz
  BY ConstFacts
<1> QED BY <1>1, ConstFacts, ModEqual DEF WinIdx

\* Iteration i of the loop finds frame S + i or nothing.
LEMMA FrameAtIs ==
  ASSUME TypeOK, NEW c \in Contexts, NEW S \in Int, seq_next = SeqNo(S), idx[c] = WinIdx(seq_next),
         Placed(S), NEW i \in 0 .. (HoldQSz - 1)
  PROVE  /\ SlotAt(c, i) = WinIdx(S + i) /\ SlotAt(c, i) \in Slots
         /\ FrameAt(c, i) <=> SlotAt(c, i) \in HeldSlots
         /\ FrameAt(c, i) => hold_q[SlotAt(c, i)] = S + i
<1>0. HoldQSz \in Nat /\ i \in Nat /\ S + i \in Int
  BY ConstFacts
<1>1. \A j \in Nat : SlotAt(c, j) = WinIdx(S + j)
  BY SlotAtIs
<1>2. SlotAt(c, i) = WinIdx(S + i) /\ WinIdx(S + i) \in Slots
  BY <1>0, <1>1, SeqNoType
<1>3. ASSUME NEW j \in 0 .. (i - 1) PROVE SlotAt(c, j) # SlotAt(c, i)
  <2>1. j \in Nat /\ S + j \in Int /\ S + j # S + i /\ S <= S + j /\ S + j < S + HoldQSz
        /\ S <= S + i /\ S + i < S + HoldQSz
    BY <1>0
  <2>2. WinIdx(S + j) # WinIdx(S + i)
    BY <1>0, <2>1, SameSlot
  <2> QED BY <1>1, <1>2, <2>1, <2>2
<1>4. FrameAt(c, i) <=> SlotAt(c, i) \in HeldSlots
  BY <1>2, <1>3 DEF FrameAt, HeldSlots
<1>5. ASSUME SlotAt(c, i) \in HeldSlots PROVE hold_q[SlotAt(c, i)] = S + i
  <2>1. PICK n \in Int : n = hold_q[SlotAt(c, i)]
    BY <1>5, HeldType
  <2>2. WinIdx(n) = WinIdx(S + i) /\ S <= n /\ n < S + HoldQSz
    BY <1>2, <1>5, <2>1 DEF Placed
  <2>3. S <= S + i /\ S + i < S + HoldQSz
    BY <1>0
  <2> QED BY <1>0, <2>1, <2>2, <2>3, SameSlot
<1> QED BY <1>2, <1>4, <1>5

\* What the loop does to a window that starts at S: it moves it by k, takes out
\* exactly the frames before S + k and collects them in order.
LEMMA WalkIs ==
  ASSUME TypeOK, NEW c \in Contexts, NEW S \in Int, seq_next = SeqNo(S), idx[c] = WinIdx(seq_next),
         Placed(S), NEW k, k = Iterations(c)
  PROVE  /\ k \in 0 .. HoldQSz /\ k \in Nat
         /\ (seq_next + k) % SeqMod = SeqNo(S + k)
         /\ \A i \in Slots : Taken(c)[i] = IF i \in HeldSlots /\ hold_q[i] < S + k THEN NoFrame ELSE hold_q[i]
         /\ \A g \in DOMAIN Collected(c) :
              /\ S <= Collected(c)[g] /\ Collected(c)[g] < S + k
              /\ \E i \in HeldSlots : Collected(c)[g] = hold_q[i]
         /\ \A g, h \in DOMAIN Collected(c) : g < h => Collected(c)[g] < Collected(c)[h]
         /\ \A i \in HeldSlots : hold_q[i] < S + k => \E g \in DOMAIN Collected(c) : Collected(c)[g] = hold_q[i]
         /\ ~Ordered(site[c]) => k >= 1 /\ WinIdx(S + k) = idx_end[c]
         /\ Ordered(site[c]) /\ k >= 1 => \E i \in HeldSlots : hold_q[i] = S + (k - 1)
<1>1. PICK H \in Nat \ {0} : H = HoldQSz
  BY ConstFacts
<1>2. k \in 0 .. H /\ Stops(c, k) /\ \A i \in 0 .. (k - 1) : ~Stops(c, i)
  BY <1>1, TypeFacts, IterationsIs
<1>3. k \in Nat /\ S + k \in Int
  BY <1>2
<1>4. (seq_next + k) % SeqMod = SeqNo(S + k)
  BY <1>3, SeqDiff
<1>5. \A i \in 0 .. (H - 1) :
        /\ SlotAt(c, i) = WinIdx(S + i) /\ SlotAt(c, i) \in Slots
        /\ FrameAt(c, i) <=> SlotAt(c, i) \in HeldSlots
        /\ FrameAt(c, i) => hold_q[SlotAt(c, i)] = S + i
  BY <1>1, FrameAtIs
<1>6. ASSUME NEW i \in HeldSlots
      PROVE  hold_q[i] - S \in 0 .. (H - 1) /\ SlotAt(c, hold_q[i] - S) = i /\ hold_q[i] \in Int
  <2>1. PICK n \in Int : n = hold_q[i]
    BY HeldType
  <2>2. WinIdx(n) = i /\ S <= n /\ n < S + H
    BY <1>1, <2>1 DEF Placed
  <2>3. PICK d \in 0 .. (H - 1) : d = n - S /\ S + d = n
    BY <2>2
  <2> QED BY <1>5, <2>1, <2>2, <2>3
<1>7. ASSUME NEW i \in Slots
      PROVE  Taken(c)[i] = IF i \in HeldSlots /\ hold_q[i] < S + k THEN NoFrame ELSE hold_q[i]
  <2>1. Taken(c)[i] = IF \E j \in 0 .. (k - 1) : SlotAt(c, j) = i THEN NoFrame ELSE hold_q[i]
    BY DEF Taken
  <2>2. CASE i \notin HeldSlots
    BY <2>1, <2>2 DEF HeldSlots
  <2>3. CASE i \in HeldSlots
    <3>1. PICK n \in Int : n = hold_q[i] /\ n - S \in 0 .. (H - 1) /\ SlotAt(c, n - S) = i
      BY <1>6, <2>3
    <3>2. ASSUME n < S + k PROVE \E j \in 0 .. (k - 1) : SlotAt(c, j) = i
      <4>1. n - S \in 0 .. (k - 1)
        BY <1>3, <3>1, <3>2
      <4> QED BY <3>1, <4>1
    <3>3. ASSUME NEW j \in 0 .. (k - 1), SlotAt(c, j) = i PROVE n < S + k
      <4>1. j \in 0 .. (H - 1) /\ j < k
        BY <1>2, <1>3
      <4>2. FrameAt(c, j) /\ hold_q[i] = S + j
        BY <1>5, <2>3, <3>3, <4>1
      <4> QED BY <1>3, <3>1, <4>1, <4>2
    <3> QED BY <2>1, <2>3, <3>1, <3>2, <3>3
  <2> QED BY <2>2, <2>3
<1> DEFINE s == [i \in 1..k |-> hold_q[SlotAt(c, i - 1)]]
           I == {i \in 1..k : FrameAt(c, i - 1)}
           r == Collected(c)
<1>8. s \in Seq(Frames \cup {NoFrame}) /\ I \in SUBSET DOMAIN s /\ I \subseteq 1..k
  <2>1. \A i \in 1..k : SlotAt(c, i - 1) \in Slots
    BY <1>2, <1>3, <1>5
  <2> QED BY <1>3, <2>1, TypeFacts, SMTT(30)
<1>9. \A i \in I : s[i] = S + (i - 1) /\ SlotAt(c, i - 1) \in HeldSlots /\ s[i] = hold_q[SlotAt(c, i - 1)]
  BY <1>2, <1>3, <1>5
<1>10. r = Keep(s, I)
  BY DEF Collected
<1>11. ASSUME NEW i \in 1..k, SlotAt(c, i - 1) \in HeldSlots PROVE i \in I
  BY <1>2, <1>3, <1>5, <1>11
<1> HIDE DEF s, I, r
<1>12. PICK p \in [1 .. Cardinality(I) -> I] :
         /\ r = [g \in 1 .. Cardinality(I) |-> s[p[g]]]
         /\ \A g \in 1 .. Cardinality(I) : Rank(I, p[g]) = g
         /\ \A i \in I : p[Rank(I, i)] = i
         /\ \A g, h \in 1 .. Cardinality(I) : g < h => p[g] < p[h]
  BY <1>8, <1>10, KeepPositions
<1>13. \A i \in I : Rank(I, i) \in 1 .. Cardinality(I)
  BY <1>8, RankGrows
<1>14. \A g \in DOMAIN r : p[g] \in I /\ r[g] = S + (p[g] - 1) /\ r[g] = hold_q[SlotAt(c, p[g] - 1)]
                          /\ SlotAt(c, p[g] - 1) \in HeldSlots
  BY <1>9, <1>12
<1>15. \A g \in DOMAIN r : S <= r[g] /\ r[g] < S + k
  <2>1. \A i \in I : i \in 1..k
    BY <1>8
  <2>2. \A i \in 1..k : S <= S + (i - 1) /\ S + (i - 1) < S + k
    BY <1>3
  <2> QED BY <1>14, <2>1, <2>2
<1>16. \A g, h \in DOMAIN r : g < h => r[g] < r[h]
  <2>1. \A i, j \in 1..k : i < j => S + (i - 1) < S + (j - 1)
    BY <1>3
  <2>2. \A g, h \in DOMAIN r : g < h => p[g] < p[h]
    BY <1>12
  <2> QED BY <1>8, <1>14, <2>1, <2>2
<1>17. ASSUME NEW i \in HeldSlots, hold_q[i] < S + k PROVE \E g \in DOMAIN r : r[g] = hold_q[i]
  <2>1. PICK n \in Int : n = hold_q[i] /\ n - S \in 0 .. (H - 1) /\ SlotAt(c, n - S) = i
    BY <1>6
  <2>2. PICK j \in 1..k : j = n - S + 1 /\ j - 1 = n - S
    BY <1>3, <1>17, <2>1
  <2>3. j \in I
    BY <1>11, <2>1, <2>2
  <2>4. PICK g \in 1 .. Cardinality(I) : g = Rank(I, j) /\ p[g] = j
    BY <1>12, <1>13, <2>3
  <2>5. r[g] = s[j] /\ g \in DOMAIN r
    BY <1>12, <2>4
  <2>6. s[j] = hold_q[i]
    BY <1>9, <2>1, <2>2, <2>3
  <2> QED BY <2>5, <2>6
<1>18. ~Ordered(site[c]) => k >= 1 /\ WinIdx(S + k) = idx_end[c]
  BY <1>2, <1>3, SlotAtIs DEF Stops
<1>19. ASSUME Ordered(site[c]), k >= 1 PROVE \E i \in HeldSlots : hold_q[i] = S + (k - 1)
  <2>1. PICK j \in 0 .. (k - 1) : j = k - 1 /\ j \in 0 .. (H - 1)
    BY <1>2, <1>3, <1>19
  <2>2. FrameAt(c, j)
    BY <1>2, <1>19, <2>1 DEF Stops
  <2> QED BY <1>5, <2>1, <2>2
<1> QED BY <1>1, <1>2, <1>3, <1>4, <1>7, <1>14, <1>15, <1>16, <1>17, <1>18, <1>19 DEF r

\* Every accepted frame is held or delivered.
Accounted == stored \subseteq Held \cup {delivered[i] : i \in 1..Len(delivered)}

\* What was delivered came in order.
Increasing == \A i, j \in 1..Len(delivered) : i < j => delivered[i] < delivered[j]

LEMMA RecordIs ==
  ASSUME ~upset', NEW d, NEW s, Record(d, s)
  PROVE  /\ delivered' = (IF History THEN d ELSE <<>>)
         /\ stored' = (IF History THEN s ELSE {})
BY DEF Record

\* A frame of the window takes its slot from nobody but itself.
LEMMA StoreWindow ==
  ASSUME TypeOK, NEW S \in Int, Placed(S), NEW n \in Frames, S <= n, n < S + HoldQSz, Store(n), ~upset'
  PROVE  /\ Placed(S)'
         /\ \A i \in HeldSlots' : hold_q'[i] = n \/ (i \in HeldSlots /\ hold_q'[i] = hold_q[i])
         /\ Held' = Held \cup {n} /\ stored' \subseteq stored \cup {n}
         /\ delivered' = (IF History THEN delivered ELSE <<>>)
         /\ stored' = (IF History THEN stored \cup {n} ELSE {})
<1>1. n \in Int /\ n # NoFrame
  BY ConstFacts
<1>2. PICK w \in Slots : w = WinIdx(SeqNo(n)) /\ w = WinIdx(n)
  BY <1>1, SeqNoType
<1>3. hold_q' = [hold_q EXCEPT ![w] = n] /\ hold_q \in [Slots -> Frames \cup {NoFrame}]
  BY <1>2, TypeFacts DEF Store
<1>4. hold_q'[w] = n /\ \A i \in Slots \ {w} : hold_q'[i] = hold_q[i]
  BY <1>3
<1>5. HeldSlots' = HeldSlots \cup {w}
  BY <1>1, <1>4 DEF HeldSlots
<1>6. HeldSlots \subseteq Slots
  BY DEF HeldSlots
<1>7. ASSUME NEW i \in HeldSlots' PROVE hold_q'[i] = n \/ (i \in HeldSlots /\ hold_q'[i] = hold_q[i])
  BY <1>4, <1>5, <1>6
<1>8. Placed(S)'
  <2> SUFFICES ASSUME NEW i \in HeldSlots'
               PROVE  WinIdx(hold_q'[i]) = i /\ S <= hold_q'[i] /\ hold_q'[i] < S + HoldQSz
    BY DEF Placed
  <2>1. CASE i = w
    BY <1>2, <1>4, <2>1
  <2>2. CASE i # w
    BY <1>4, <1>5, <1>6, <2>2 DEF Placed
  <2> QED BY <2>1, <2>2
<1>9. w \in HeldSlots => hold_q[w] = n
  <2> SUFFICES ASSUME w \in HeldSlots PROVE hold_q[w] = n
    OBVIOUS
  <2>1. PICK m \in Int : m = hold_q[w]
    BY HeldType
  <2>2. WinIdx(m) = w /\ S <= m /\ m < S + HoldQSz
    BY <2>1 DEF Placed
  <2> QED BY <1>1, <1>2, <2>1, <2>2, SameSlot
<1>10. Held' = Held \cup {n}
  <2>1. ASSUME NEW x \in Held' PROVE x \in Held \cup {n}
    BY <1>7, <2>1 DEF Held
  <2>2. ASSUME NEW x \in Held PROVE x \in Held'
    <3>1. PICK i \in HeldSlots : x = hold_q[i]
      BY <2>2 DEF Held
    <3>2. hold_q'[i] = x /\ i \in HeldSlots'
      BY <1>4, <1>5, <1>6, <1>9, <3>1
    <3> QED BY <3>2 DEF Held
  <2>3. n \in Held'
    BY <1>4, <1>5 DEF Held
  <2> QED BY <2>1, <2>2, <2>3
<1>11. stored' \subseteq stored \cup {n}
  BY RecordIs DEF Store
<1>12. /\ delivered' = (IF History THEN delivered ELSE <<>>)
       /\ stored' = (IF History THEN stored \cup {n} ELSE {})
  BY RecordIs DEF Store
<1> QED BY <1>7, <1>8, <1>10, <1>11, <1>12

\* Nothing about the window changes when the state it is made of does not.
LEMMA WindowSame ==
  ASSUME UNCHANGED <<seq_next, hold_q, base, delivered, stored>>, NEW S
  PROVE  /\ Window(S)' <=> Window(S)
         /\ Increasing' <=> Increasing
         /\ Accounted' <=> Accounted
         /\ HeldSlots' = HeldSlots
BY DEF Window, Placed, HeldSent, Before, Increasing, Accounted, HeldSlots, Held

\* a increasing frames before S, then b increasing frames from S on, before T.
LEMMA JoinOrder ==
  ASSUME NEW S \in Int, NEW T \in Int, S <= T, NEW a \in Nat, NEW b \in Nat, NEW e,
         \A i \in 1..(a + b) : e[i] \in Int,
         \A i \in 1..(a + b) : i <= a => e[i] < S,
         \A i \in 1..(a + b) : i > a => S <= e[i] /\ e[i] < T,
         \A i, j \in 1..(a + b) : i < j /\ j <= a => e[i] < e[j],
         \A i, j \in 1..(a + b) : i < j /\ i > a => e[i] < e[j]
  PROVE  /\ \A i, j \in 1..(a + b) : i < j => e[i] < e[j]
         /\ \A j \in 1..(a + b) : e[j] < T
<1>1. ASSUME NEW i \in 1..(a + b), NEW j \in 1..(a + b), i < j PROVE e[i] < e[j]
  <2>1. CASE j <= a
    BY <1>1, <2>1
  <2>2. CASE i <= a /\ j > a
    BY <2>2
  <2>3. CASE i > a
    BY <1>1, <2>3
  <2> QED BY <2>1, <2>2, <2>3
<1>2. ASSUME NEW j \in 1..(a + b) PROVE e[j] < T
  <2>1. CASE j <= a
    BY <2>1
  <2>2. CASE j > a
    BY <2>2
  <2> QED BY <2>1, <2>2
<1> QED BY <1>1, <1>2

Rises(s) == \A i, j \in 1..Len(s) : i < j => s[i] < s[j]
Below(s, T) == \A i \in 1..Len(s) : s[i] < T
From(s, S) == \A i \in 1..Len(s) : S <= s[i]
Includes(s, t) == \A j \in 1..Len(t) : \E i \in 1..Len(s) : s[i] = t[j]

\* Appending increasing frames that come later keeps the order.
LEMMA AppendOrder ==
  ASSUME NEW S \in Int, NEW T \in Int, S <= T, NEW d \in Seq(Int), NEW r \in Seq(Int),
         Rises(d), Below(d, S), Rises(r), Below(r, T), From(r, S)
  PROVE  /\ Rises(d \o r) /\ Below(d \o r, T)
         /\ Includes(d \o r, d) /\ Includes(d \o r, r)
<1>0. /\ \A i, j \in 1..Len(d) : i < j => d[i] < d[j]
      /\ \A j \in 1..Len(d) : d[j] < S
      /\ \A g \in 1..Len(r) : S <= r[g] /\ r[g] < T
      /\ \A g, h \in 1..Len(r) : g < h => r[g] < r[h]
  BY DEF Rises, Below, From
<1>1. PICK a \in Nat, b \in Nat : a = Len(d) /\ b = Len(r)
  OBVIOUS
<1>2. PICK e : e = d \o r
  OBVIOUS
<1>3. /\ Len(e) = a + b /\ DOMAIN r = 1..b
      /\ \A i \in 1..a : e[i] = d[i] /\ d[i] \in Int
      /\ \A i \in 1..b : e[i + a] = r[i] /\ r[i] \in Int
  BY <1>1, <1>2
<1>4. \A i \in 1..(a + b) : i > a => \E h \in 1..b : i = h + a
  <2>1. ASSUME NEW i \in 1..(a + b), i > a PROVE \E h \in 1..b : i = h + a
    <3>1. i - a \in 1..b /\ i = (i - a) + a
      BY <2>1
    <3> QED BY <3>1
  <2> QED BY <2>1
<1>5. \A i \in 1..(a + b) : i <= a => i \in 1..a
  OBVIOUS
<1>6. \A i \in 1..(a + b) : (i <= a => e[i] \in Int /\ e[i] < S) /\ (i > a => e[i] \in Int /\ S <= e[i] /\ e[i] < T)
  <2>1. ASSUME NEW i \in 1..a PROVE e[i] \in Int /\ e[i] < S
    BY <1>0, <1>1, <1>3
  <2>2. ASSUME NEW h \in 1..b PROVE e[h + a] \in Int /\ S <= e[h + a] /\ e[h + a] < T
    BY <1>0, <1>1, <1>3
  <2> QED BY <1>4, <1>5, <2>1, <2>2
<1>7. \A i \in 1..(a + b) : i <= a \/ i > a
  OBVIOUS
<1>8. \A i \in 1..(a + b) : e[i] \in Int
  BY <1>6, <1>7
<1>9. ASSUME NEW i \in 1..(a + b), NEW j \in 1..(a + b), i < j, j <= a PROVE e[i] < e[j]
  <2>1. i \in 1..a /\ j \in 1..a
    BY <1>9
  <2> QED BY <1>0, <1>1, <1>3, <1>9, <2>1
<1>10. ASSUME NEW i \in 1..(a + b), NEW j \in 1..(a + b), i < j, i > a PROVE e[i] < e[j]
  <2>1. j > a
    BY <1>10
  <2>2. PICK g \in 1..b, h \in 1..b : i = g + a /\ j = h + a
    BY <1>4, <1>10, <2>1
  <2>3. g < h
    BY <1>10, <2>2
  <2> QED BY <1>0, <1>1, <1>3, <2>2, <2>3
<1>11. /\ \A i, j \in 1..(a + b) : i < j => e[i] < e[j]
       /\ \A j \in 1..(a + b) : e[j] < T
  BY <1>6, <1>8, <1>9, <1>10, JoinOrder
<1>12. ASSUME NEW j \in 1..a PROVE \E i \in 1..(a + b) : e[i] = d[j]
  <2>1. j \in 1..(a + b)
    OBVIOUS
  <2> QED BY <1>3, <2>1
<1>13. ASSUME NEW g \in 1..b PROVE \E i \in 1..(a + b) : e[i] = r[g]
  <2>1. g + a \in 1..(a + b)
    OBVIOUS
  <2> QED BY <1>3, <2>1
<1>14. Len(r) = b /\ Len(d) = a /\ Len(e) = a + b
  BY <1>1, <1>3
<1>15. Rises(e) /\ Below(e, T)
  BY <1>11, <1>14 DEF Rises, Below
<1>16. Includes(e, d) /\ Includes(e, r)
  BY <1>12, <1>13, <1>14 DEF Includes
<1> QED BY <1>2, <1>15, <1>16

\* The loop keeps order and loses nothing: it moves the window from S to S + k.
LEMMA WalkWindow ==
  ASSUME TypeOK, NEW c \in Contexts, NEW S \in Int, Window(S), idx[c] = WinIdx(seq_next),
         Increasing, Accounted, NEW k, k = Iterations(c),
         hold_q' = Taken(c), delivered' = (IF History THEN delivered \o Collected(c) ELSE <<>>),
         seq_next' = (seq_next + k) % SeqMod, UNCHANGED base,
         stored' = (IF History THEN stored ELSE {}), ~History => delivered = <<>> /\ stored = {}
  PROVE  /\ Window(S + k)' /\ Increasing' /\ Accounted'
         /\ \A i \in HeldSlots' : i \in HeldSlots /\ S + k <= hold_q[i]
         /\ HeldSlots = {} /\ delivered = <<>> => delivered' = <<>>
<1>1. seq_next = SeqNo(S) /\ Placed(S) /\ HeldSent /\ Before(S)
  BY DEF Window
<1>2. /\ k \in 0 .. HoldQSz /\ k \in Nat /\ (seq_next + k) % SeqMod = SeqNo(S + k)
      /\ \A i \in Slots : Taken(c)[i] = IF i \in HeldSlots /\ hold_q[i] < S + k THEN NoFrame ELSE hold_q[i]
      /\ \A g \in DOMAIN Collected(c) :
              /\ S <= Collected(c)[g] /\ Collected(c)[g] < S + k
              /\ \E i \in HeldSlots : Collected(c)[g] = hold_q[i]
      /\ \A g, h \in DOMAIN Collected(c) : g < h => Collected(c)[g] < Collected(c)[h]
      /\ \A i \in HeldSlots : hold_q[i] < S + k => \E g \in DOMAIN Collected(c) : Collected(c)[g] = hold_q[i]
  BY <1>1, WalkIs
<1>3. \A i \in HeldSlots' : i \in HeldSlots /\ hold_q'[i] = hold_q[i] /\ ~(hold_q[i] < S + k)
  <2>1. ASSUME NEW i \in HeldSlots' PROVE i \in HeldSlots /\ hold_q'[i] = hold_q[i] /\ ~(hold_q[i] < S + k)
    <3>1. i \in Slots /\ hold_q'[i] # NoFrame
      BY DEF HeldSlots
    <3>2. hold_q'[i] = IF i \in HeldSlots /\ hold_q[i] < S + k THEN NoFrame ELSE hold_q[i]
      BY <1>2, <3>1
    <3> QED BY <3>1, <3>2 DEF HeldSlots
  <2> QED BY <2>1
<1>4. ASSUME NEW i \in HeldSlots' PROVE S + k <= hold_q[i] /\ hold_q[i] < S + k + HoldQSz
  <2>1. PICK n \in Int : n = hold_q[i]
    BY <1>3, HeldType
  <2>2. n < S + HoldQSz /\ ~(n < S + k)
    BY <1>1, <1>3, <2>1 DEF Placed
  <2> QED BY <1>2, <2>1, <2>2, ConstFacts
<1>5. Placed(S + k)' /\ HeldSent'
  BY <1>1, <1>3, <1>4 DEF Placed, HeldSent
<1>6. ASSUME NEW i \in HeldSlots, ~(hold_q[i] < S + k) PROVE i \in HeldSlots' /\ hold_q'[i] = hold_q[i]
  BY <1>2, <1>6 DEF HeldSlots
<1> DEFINE r == Collected(c)
<1>7. delivered \in Seq(Int) /\ r \in Seq(Int)
  <2>1. delivered \in Seq(Frames) /\ Collected(c) \in Seq(Frames) /\ Frames \subseteq Int
    BY TypeFacts, WalkType, ConstFacts
  <2>2. ASSUME NEW q \in Seq(Frames) PROVE q \in Seq(Int)
    <3>1. q \in [1..Len(q) -> Frames] /\ Len(q) \in Nat
      OBVIOUS
    <3>2. q \in [1..Len(q) -> Int]
      BY <2>1, <3>1
    <3> QED BY <3>1, <3>2
  <2> QED BY <2>1, <2>2
<1>8. S + k \in Int /\ S <= S + k
  BY <1>2
<1>9. CASE History
  <2>1. delivered' = delivered \o r
    BY <1>9
  <2>2. /\ \A i, j \in 1..Len(delivered') : i < j => delivered'[i] < delivered'[j]
        /\ \A j \in 1..Len(delivered') : delivered'[j] < S + k
        /\ \A j \in 1..Len(delivered) : \E i \in 1..Len(delivered') : delivered'[i] = delivered[j]
        /\ \A g \in DOMAIN r : \E i \in 1..Len(delivered') : delivered'[i] = r[g]
    <3>1. \A g \in DOMAIN r : S <= r[g] /\ r[g] < S + k
      BY <1>2
    <3>2. \A g, h \in DOMAIN r : g < h => r[g] < r[h]
      BY <1>2
    <3>3. \A j \in 1..Len(delivered) : delivered[j] < S
      BY <1>1 DEF Before
    <3>4. \A i, j \in 1..Len(delivered) : i < j => delivered[i] < delivered[j]
      BY DEF Increasing
    <3>5. DOMAIN r = 1..Len(r)
      BY <1>7
    <3>6. Rises(r) /\ Below(r, S + k) /\ From(r, S)
      BY <3>1, <3>2, <3>5 DEF Rises, Below, From
    <3>7. Rises(delivered) /\ Below(delivered, S)
      BY <3>3, <3>4 DEF Rises, Below
    <3> HIDE DEF r
    <3>8. /\ Rises(delivered \o r) /\ Below(delivered \o r, S + k)
          /\ Includes(delivered \o r, delivered) /\ Includes(delivered \o r, r)
      BY <1>7, <1>8, <3>6, <3>7, AppendOrder
    <3>9. Rises(delivered') /\ Below(delivered', S + k) /\ Includes(delivered', delivered) /\ Includes(delivered', r)
      BY <2>1, <3>8
    <3> QED BY <3>5, <3>9 DEF Rises, Below, Includes
  <2>3. Before(S + k)' /\ Increasing'
    BY <2>2 DEF Before, Increasing
  <2>4. Accounted'
    <3> SUFFICES ASSUME NEW x \in stored
                 PROVE  x \in Held' \/ \E j \in 1..Len(delivered') : delivered'[j] = x
      BY DEF Accounted
    <3>1. CASE x \in Held
      <4>1. PICK i \in HeldSlots : x = hold_q[i]
        BY <3>1 DEF Held
      <4>2. CASE hold_q[i] < S + k
        <5>1. PICK g \in DOMAIN r : r[g] = hold_q[i]
          BY <1>2, <4>2
        <5>2. \E j \in 1..Len(delivered') : delivered'[j] = r[g]
          BY <2>2
        <5> QED BY <4>1, <5>1, <5>2
      <4>3. CASE ~(hold_q[i] < S + k)
        BY <1>6, <4>1, <4>3 DEF Held
      <4> QED BY <4>2, <4>3
    <3>2. CASE x \notin Held
      <4>1. \E j \in 1..Len(delivered) : delivered[j] = x
        BY <3>2 DEF Accounted
      <4> QED BY <2>2, <4>1
    <3> QED BY <3>1, <3>2
  <2>5. ASSUME HeldSlots = {}, delivered = <<>> PROVE delivered' = <<>>
    <3>1. DOMAIN r = {}
      BY <1>2, <2>5
    <3>2. r = <<>>
      BY <1>7, <3>1
    <3> QED BY <2>1, <2>5, <3>2
  <2> QED BY <1>2, <1>3, <1>4, <1>5, <2>3, <2>4, <2>5 DEF Window
<1>10. CASE ~History
  <2>1. delivered' = delivered /\ stored' = {}
    BY <1>10
  <2>2. Before(S + k)'
    <3>1. \A j \in 1..Len(delivered) : delivered[j] \in Int /\ delivered[j] < S
      BY <1>1, <1>7 DEF Before
    <3>2. \A j \in 1..Len(delivered) : delivered[j] < S + k
      BY <1>2, <3>1
    <3> QED BY <2>1, <3>2 DEF Before
  <2>3. Increasing' /\ Accounted'
    BY <2>1 DEF Increasing, Accounted
  <2> QED BY <1>2, <1>3, <1>4, <1>5, <2>1, <2>2, <2>3 DEF Window
<1> QED BY <1>9, <1>10

-----------------------------------------------------------------------------
(* The invariant behind order and accounting, while nothing upset the session *)

\* The window is at least AGGR_WIN_SZ_MIN, and the air loses fewer frames in a
\* row than make a new frame look like an old one.
Regular == WinSz >= 2 /\ MaxLoss <= SeqMod - 3 * HoldQSz

\* No frame of the session has been received yet.
Fresh == ~aggr \/ sync_next_seq

Receiving == \/ pc["rx"] \in {"shifted", "chased", "settle"}
             \/ AtSite("rx", "shift") \/ AtSite("rx", "chase") \/ AtSite("rx", "inorder")

Deleting == pc["rx"] \in {"delete", "redelete"}

\* The worker is moving the window forward to frame.
Moving == AtSite("rx", "shift") \/ AtSite("rx", "chase") \/ pc["rx"] = "chased"

\* The timer may still find the frame it was started for missing.
Waiting == tid_timer \/ pc["timer"] = "timeout"

\* Where the worker's frame lies, relative to a window that starts at S.
RxRanges(S) ==
  /\ AtSite("rx", "shift") =>
       S + HoldQSz <= frame /\ frame < S + 2 * HoldQSz /\ base <= frame /\ frame < base + WinSz
  /\ AtSite("rx", "chase") =>
       S + 2 * HoldQSz <= frame /\ base <= frame /\ frame < base + WinSz
  /\ pc["rx"] = "shifted" => S <= frame /\ frame < S + HoldQSz /\ frame < base + WinSz
  /\ pc["rx"] = "chased" =>
       S + HoldQSz <= frame /\ base <= frame /\ frame < base + WinSz /\ HeldSlots = {}
  /\ ~Moving => S >= base - HoldQSz

\* How far the timer may have moved the window beyond what the peer sends.
TimerRanges(S) ==
  ~Deleting =>
    /\ S <= base + WinSz + HoldQSz + 1
    /\ Waiting /\ timerwait_seq_num = seq_next => S <= base + WinSz
    /\ AtSite("timer", "skip") => S <= base + WinSz
    /\ (AtSite("timer", "after_skip") \/ pc["timer"] = "judge")
          /\ seq_next = NextSeq(timerwait_seq_num) => S <= base + WinSz + 1
    /\ AtSite("timer", "jump") => S <= base + WinSz + 1

Ranges(S) == RxRanges(S) /\ TimerRanges(S)

\* The timer moves the window from where it decided to.
TimerAims ==
  /\ AtSite("timer", "skip") => timerwait_seq_num = seq_next
  /\ AtSite("timer", "jump") =>
       timerwait_seq_num = seq_next \/ seq_next = NextSeq(timerwait_seq_num)

\* The bounds of a walk in progress.
WalkOf(c) ==
  pc[c] = "walk" =>
    /\ idx[c] = WinIdx(seq_next)
    /\ site[c] \notin {"shift", "skip", "jump"} => idx_end[c] = idx[c]
    /\ site[c] = "shift" => idx_end[c] \in {idx[c], WinIdx(frame - (HoldQSz - 1))}

Walking == WalkOf("rx") /\ WalkOf("timer")

\* Nothing before the first frame, and nothing recorded without History.
Quiet ==
  /\ pc["rx"] = "addba" => ~aggr
  /\ ~History => delivered = <<>> /\ stored = {}
  /\ Fresh => HeldSlots = {} /\ delivered = <<>> /\ stored = {} /\ ~Receiving

DeletesEmpty == Deleting => HeldSlots = {}

OrderRest ==
  /\ Quiet /\ Walking /\ TimerAims /\ Accounted /\ Increasing /\ DeletesEmpty
  /\ \E S \in Int : Window(S) /\ (~Fresh => Ranges(S))

OrderInv == TypeInv /\ (upset \/ OrderRest)

LEMMA OrderTypes ==
  ASSUME TypeInv
  PROVE  /\ base \in Int /\ base \in Frames /\ TypeOK
         /\ aggr \in BOOLEAN /\ sync_next_seq \in BOOLEAN /\ tid_timer \in BOOLEAN
         /\ tid_timer_scheduled \in BOOLEAN
         /\ HasFrame => frame \in Int /\ frame \in Frames
         /\ pc \in [Contexts -> PCs] /\ site \in [Contexts -> Sites \cup {"none"}]
         /\ idx \in [Contexts -> Slots] /\ idx_end \in [Contexts -> Slots]
         /\ Contexts = {"rx", "timer"} /\ "rx" \in Contexts /\ "timer" \in Contexts
<1>1. TypeOK /\ base \in Frames
  BY TypeFacts DEF TypeInv
<1>2. base \in Int
  BY <1>1, ConstFacts
<1>3. ASSUME HasFrame PROVE frame \in Int /\ frame \in Frames
  <2>1. frame \in Frames
    BY <1>3 DEF TypeInv, ContextsApart, HasFrame
  <2> QED BY <2>1, ConstFacts
<1> QED BY <1>1, <1>2, <1>3, TypeFacts DEF Contexts

\* Context c does not move.
Still(c) == pc'[c] = pc[c] /\ site'[c] = site[c] /\ idx'[c] = idx[c] /\ idx_end'[c] = idx_end[c]

LEMMA GotoStill ==
  ASSUME TypeInv, NEW c \in Contexts, NEW l, Goto(c, l), UNCHANGED dequeVars, NEW d \in Contexts \ {c}
  PROVE  pc'[c] = l /\ Still(d)
BY OrderTypes DEF Goto, Still, dequeVars

LEMMA StillSites ==
  ASSUME NEW c, Still(c), NEW x
  PROVE  AtSite(c, x)' <=> AtSite(c, x)
BY DEF Still, AtSite

\* What the worker leaves of the timer's plans.
LEMMA TimerStays ==
  ASSUME TypeInv, Still("timer"), WalkOf("timer"), TimerAims,
         seq_next' = seq_next \/ ~Committed("timer"),
         timerwait_seq_num' = timerwait_seq_num \/ timerwait_seq_num' = seq_next'
  PROVE  WalkOf("timer")' /\ TimerAims'
<1>1. CASE ~Committed("timer")
  <2>1. pc["timer"] \notin {"walk", "skip", "jump"}
    BY <1>1 DEF Committed
  <2> QED BY <2>1 DEF Still, WalkOf, TimerAims, AtSite
<1>2. CASE seq_next' = seq_next
  <2>1. pc["timer"] = "walk" => site["timer"] # "shift"
    BY DEF TypeInv, ContextsApart, SitesOf, TimerSites, Contexts
  <2>2. WalkOf("timer")'
    BY <1>2, <2>1 DEF Still, WalkOf
  <2>3. TimerAims'
    BY <1>2 DEF Still, TimerAims, AtSite, NextSeq
  <2> QED BY <2>2, <2>3
<1> QED BY <1>1, <1>2

\* What the timer leaves of the worker's.
LEMMA RxStays ==
  ASSUME Still("rx"), WalkOf("rx"), UNCHANGED frame, seq_next' = seq_next \/ ~Committed("rx")
  PROVE  WalkOf("rx")'
<1>1. CASE ~Committed("rx")
  BY <1>1 DEF Committed, Still, WalkOf
<1>2. CASE seq_next' = seq_next
  BY <1>2 DEF Still, WalkOf
<1> QED BY <1>1, <1>2

LEMMA RxRangesStay ==
  ASSUME TypeInv, Still("rx"), UNCHANGED <<frame, base>>, NEW S \in Int, NEW T \in Int, S <= T,
         T = S \/ ~Committed("rx"), RxRanges(S), HeldSlots = {} => HeldSlots' = {}
  PROVE  RxRanges(T)'
<1>1. CASE T = S
  BY <1>1 DEF RxRanges, Moving, Still, AtSite
<1>2. CASE ~Committed("rx")
  <2>1. pc["rx"] \notin {"walk", "shift", "shifted", "chase", "chased"}
    BY <1>2 DEF Committed
  <2>2. ~Moving
    BY <2>1 DEF Moving, AtSite
  <2>3. S >= base - HoldQSz /\ base - HoldQSz \in Int
    BY <2>2, OrderTypes, ConstFacts DEF RxRanges
  <2>4. T >= base' - HoldQSz
    BY <2>3
  <2> QED BY <2>1, <2>4 DEF RxRanges, Still, AtSite
<1> QED BY <1>1, <1>2

LEMMA Slack ==
  ASSUME NEW T \in Int, NEW b \in Int, NEW B \in Int, b <= B, NEW W \in Nat, NEW H \in Nat
  PROVE  /\ T <= b + W => T <= b + W + 1 /\ T <= b + W + H + 1
         /\ T <= b + W => T <= B + W
         /\ T <= b + W + 1 => T <= B + W + 1
         /\ T <= b + W + H + 1 => T <= B + W + H + 1
OBVIOUS

\* A window that starts within what the peer sends is low enough for any timer.
LEMMA TimerLow ==
  ASSUME base' \in Int, NEW T \in Int, T <= base' + WinSz
  PROVE  TimerRanges(T)'
<1>1. PICK b \in Int : b = base' /\ b <= b
  OBVIOUS
<1>2. PICK W \in Nat, H \in Nat : W = WinSz /\ H = HoldQSz
  BY ConstFacts
<1>3. T <= b + W
  BY <1>1, <1>2, Zenon
<1>4. T <= b + W /\ T <= b + W + 1 /\ T <= b + W + H + 1
  BY <1>1, <1>3, Slack
<1> QED BY <1>1, <1>2, <1>4 DEF TimerRanges

\* A held frame was sent by the peer, so the window starts before what it sends.
LEMMA HeldBounds ==
  ASSUME TypeInv, NEW S \in Int, Window(S), HeldSlots # {}
  PROVE  S <= base + WinSz
<1>1. PICK i \in HeldSlots : TRUE
  OBVIOUS
<1>2. PICK n \in Int : n = hold_q[i]
  BY HeldType DEF TypeInv
<1>3. S <= n /\ n < base + WinSz
  BY <1>1, <1>2 DEF Window, Placed, HeldSent
<1> QED BY <1>3, OrderTypes, ConstFacts

\* The timer's ranges when neither the window nor the timer moved.
LEMMA TimerRangesStay ==
  ASSUME TypeInv, TypeInv', Still("timer"), UNCHANGED <<seq_next, base>>, NEW S \in Int, TimerRanges(S),
         Deleting => Deleting',
         S <= base + WinSz \/ (UNCHANGED timerwait_seq_num /\ (tid_timer' => tid_timer))
  PROVE  TimerRanges(S)'
<1>1. CASE S <= base + WinSz
  <2>1. S <= base' + WinSz /\ base' \in Int
    BY <1>1, OrderTypes
  <2> QED BY <2>1, TimerLow
<1>2. CASE UNCHANGED timerwait_seq_num /\ (tid_timer' => tid_timer)
  <2>1. Waiting' => Waiting
    BY <1>2 DEF Waiting, Still
  <2> QED BY <1>2, <2>1, StillSites DEF TimerRanges, Still, NextSeq
<1> QED BY <1>1, <1>2

LEMMA OrderInit == Init => OrderInv
<1> SUFFICES ASSUME Init PROVE OrderInv
  OBVIOUS
<1>1. TypeInv
  BY TypeInit
<1>2. HeldSlots = {} /\ delivered = <<>> /\ stored = {}
  BY DEF Init, HeldSlots, Empty
<1>3. Quiet /\ Walking /\ TimerAims /\ DeletesEmpty /\ Fresh
  BY <1>2 DEF Init, Quiet, Walking, WalkOf, TimerAims, DeletesEmpty, Fresh, Receiving, AtSite, Contexts
<1>4. Accounted /\ Increasing
  BY <1>2 DEF Accounted, Increasing
<1>5. Window(0)
  <2>1. SeqNo(0) = 0
    BY ConstFacts, ModSmall DEF SeqNo
  <2> QED BY <1>2, <2>1 DEF Init, Window, Placed, HeldSent, Before
<1>6. \E S \in Int : Window(S) /\ (~Fresh => Ranges(S))
  BY <1>3, <1>5
<1> QED BY <1>1, <1>3, <1>4, <1>6 DEF OrderInv, OrderRest

\* Steps that leave the hold queue and the window alone.
LEMMA OrderSame ==
  ASSUME OrderRest, UNCHANGED <<seq_next, hold_q, base, delivered, stored>>,
         Quiet', Walking', TimerAims', DeletesEmpty', Fresh => Fresh',
         \A S \in Int : Window(S) /\ Ranges(S) /\ ~Fresh' => Ranges(S)'
  PROVE  OrderRest'
<1>1. PICK S \in Int : Window(S) /\ (~Fresh => Ranges(S))
  BY DEF OrderRest
<1>2. Window(S)' /\ Increasing' /\ Accounted'
  BY <1>1, WindowSame DEF OrderRest
<1>3. ~Fresh' => Ranges(S)'
  BY <1>1
<1> QED BY <1>2, <1>3 DEF OrderRest

LEMMA OrderSession ==
  ASSUME TypeInv, TypeInv', OrderRest, AddBa \/ EndSession
  PROVE  OrderRest'
<1>1. /\ UNCHANGED <<aggr, seq_next, sync_next_seq, hold_q, timerVars, dequeVars, frame, worldVars>>
      /\ pc["rx"] = "idle"
  BY DEF AddBa, EndSession, MayStart
<1>2. PICK l \in {"reflush", "addba", "flush", "delete"} :
        Goto("rx", l) /\ (l \in {"addba", "delete"} => ~aggr)
  BY DEF AddBa, EndSession
<1>3. pc'["rx"] = l /\ Still("timer")
  BY <1>1, <1>2, OrderTypes, GotoStill
<1>4. Quiet /\ UNCHANGED <<aggr, sync_next_seq, seq_next, tid_timer, timerwait_seq_num, base, frame, delivered, stored>>
      /\ HeldSlots' = HeldSlots
  BY <1>1 DEF OrderRest, timerVars, worldVars, histVars, HeldSlots
<1>5. Fresh' <=> Fresh
  BY <1>4 DEF Fresh
<1>6. ~Receiving'
  BY <1>2, <1>3 DEF Receiving, AtSite
<1>7. Quiet'
  BY <1>2, <1>3, <1>4, <1>5, <1>6 DEF Quiet
<1>8. WalkOf("timer")' /\ TimerAims' /\ WalkOf("rx")'
  BY <1>2, <1>3, <1>4, TimerStays DEF OrderRest, Walking, WalkOf
<1>9. DeletesEmpty'
  BY <1>2, <1>3, <1>4 DEF DeletesEmpty, Deleting, Quiet, Fresh
<1>10. ASSUME NEW S \in Int, Ranges(S) PROVE Ranges(S)'
  <2>1. RxRanges(S)'
    BY <1>1, <1>2, <1>3, <1>4, <1>10 DEF Ranges, RxRanges, Moving, AtSite
  <2>2. ~Deleting
    BY <1>1 DEF Deleting
  <2>3. TimerRanges(S)'
    BY <1>3, <1>4, <1>10, <2>2, TimerRangesStay DEF Ranges
  <2> QED BY <2>1, <2>3 DEF Ranges
<1> QED BY <1>1, <1>4, <1>5, <1>7, <1>8, <1>9, <1>10, OrderSame DEF Walking

LEMMA OrderTimer ==
  ASSUME TypeInv, TypeInv', OrderRest, Expire \/ Timeout \/ Judge \/ Jumped
  PROVE  OrderRest'
<1>0. /\ UNCHANGED <<aggr, seq_next, sync_next_seq, hold_q, timerwait_seq_num, dequeVars, frame,
                     base, delivered, stored>>
      /\ HeldSlots' = HeldSlots
  BY DEF Expire, Timeout, Judge, Jumped, timerVars, worldVars, histVars, HeldSlots
<1>t. pc \in [Contexts -> PCs] /\ Contexts = {"rx", "timer"} /\ tid_timer \in BOOLEAN
  BY OrderTypes
<1>a. Quiet /\ Walking /\ DeletesEmpty
  BY DEF OrderRest
<1>2. PICK l \in {"timeout", "idle", "skip", "rearm", "jump"} : Goto("timer", l)
  BY DEF Expire, Timeout, Judge, Jumped
<1>3. pc'["timer"] = l /\ Still("rx")
  BY <1>0, <1>2, OrderTypes, GotoStill
<1>4. Fresh' <=> Fresh
  BY <1>0 DEF Fresh
<1>5. (Receiving' <=> Receiving) /\ (Deleting' <=> Deleting) /\ pc'["rx"] = pc["rx"]
  BY <1>3 DEF Receiving, Deleting, AtSite, Still
<1>6. Quiet'
  BY <1>0, <1>a, <1>4, <1>5 DEF Quiet
<1>7. WalkOf("rx")' /\ WalkOf("timer")'
  BY <1>0, <1>a, <1>2, <1>3, RxStays DEF Walking, WalkOf
<1>8. DeletesEmpty'
  BY <1>0, <1>a, <1>5 DEF DeletesEmpty
<1>9. /\ l = "skip" => pc["timer"] = "timeout" /\ timerwait_seq_num = seq_next
      /\ l = "jump" => pc["timer"] = "judge" /\ seq_next = NextSeq(timerwait_seq_num)
      /\ l = "timeout" => Waiting
      /\ tid_timer' => tid_timer
  BY <1>2, <1>3, <1>t DEF Expire, Timeout, Judge, Jumped, Goto, Waiting, timerVars
<1>10. TimerAims'
  BY <1>0, <1>2, <1>3, <1>9 DEF TimerAims, AtSite, NextSeq
<1>11. ASSUME NEW S \in Int, Ranges(S) PROVE Ranges(S)'
  <2>1. RxRanges(S)'
    BY <1>0, <1>3, <1>11, RxRangesStay DEF Ranges
  <2>2. Waiting' => Waiting
    BY <1>2, <1>3, <1>9 DEF Waiting
  <2>3. TimerRanges(S)'
    BY <1>0, <1>2, <1>3, <1>5, <1>9, <1>11, <2>2 DEF Ranges, TimerRanges, AtSite, Waiting, NextSeq
  <2> QED BY <2>1, <2>3 DEF Ranges
<1> QED BY <1>0, <1>4, <1>6, <1>7, <1>8, <1>10, <1>11, OrderSame DEF Walking

LEMMA OrderSettle ==
  ASSUME TypeInv, TypeInv', OrderRest, Settle
  PROVE  OrderRest'
<1>0. /\ UNCHANGED <<aggr, seq_next, sync_next_seq, hold_q, dequeVars, frame, base, delivered, stored>>
      /\ HeldSlots' = HeldSlots /\ pc["rx"] = "settle" /\ Goto("rx", "idle")
  BY DEF Settle, HeldSlots
<1>1. pc'["rx"] = "idle" /\ Still("timer")
  BY <1>0, OrderTypes, GotoStill
<1>2. \/ HeldSlots # {} /\ timerwait_seq_num' = seq_next
      \/ UNCHANGED timerwait_seq_num /\ (tid_timer' => tid_timer)
  <2>1. tid_timer \in BOOLEAN
    BY OrderTypes
  <2> QED BY <2>1 DEF Settle
<1>3. Fresh' <=> Fresh
  BY <1>0 DEF Fresh
<1>4. Quiet' /\ DeletesEmpty' /\ ~Deleting
  BY <1>0, <1>1, <1>3 DEF OrderRest, Quiet, Receiving, AtSite, DeletesEmpty, Deleting
<1>5. WalkOf("timer")' /\ TimerAims' /\ WalkOf("rx")'
  BY <1>0, <1>1, <1>2, TimerStays DEF OrderRest, Walking, WalkOf
<1>6. ASSUME NEW S \in Int, Window(S), Ranges(S) PROVE Ranges(S)'
  <2>1. ~Moving
    BY <1>0 DEF Moving, AtSite
  <2>2. RxRanges(S)'
    BY <1>0, <1>1, <1>6, <2>1 DEF Ranges, RxRanges, Moving, AtSite
  <2>3. HeldSlots # {} => S <= base + WinSz
    BY <1>6, HeldBounds
  <2>4. TimerRanges(S)'
    BY <1>0, <1>1, <1>2, <1>4, <1>6, <2>3, TimerRangesStay DEF Ranges
  <2> QED BY <2>2, <2>4 DEF Ranges
<1> QED BY <1>0, <1>3, <1>4, <1>5, <1>6, OrderSame DEF Walking

LEMMA OrderRearm ==
  ASSUME TypeInv, TypeInv', OrderRest, Rearm
  PROVE  OrderRest'
<1>0. /\ UNCHANGED <<aggr, seq_next, sync_next_seq, hold_q, dequeVars, frame, base, delivered, stored>>
      /\ HeldSlots' = HeldSlots /\ pc["timer"] = "rearm" /\ Goto("timer", "idle")
  BY DEF Rearm, HeldSlots
<1>1. pc'["timer"] = "idle" /\ Still("rx")
  BY <1>0, OrderTypes, GotoStill
<1>2. \/ HeldSlots # {}
      \/ UNCHANGED timerwait_seq_num /\ (tid_timer' => tid_timer)
  <2>1. tid_timer \in BOOLEAN /\ aggr \in BOOLEAN
    BY OrderTypes
  <2> QED BY <2>1 DEF Rearm, StillWaiting
<1>3. Fresh' <=> Fresh
  BY <1>0 DEF Fresh
<1>4. (Receiving' <=> Receiving) /\ (Deleting' <=> Deleting) /\ pc'["rx"] = pc["rx"]
  BY <1>1 DEF Receiving, Deleting, AtSite, Still
<1>5. Quiet' /\ DeletesEmpty'
  BY <1>0, <1>3, <1>4 DEF OrderRest, Quiet, DeletesEmpty
<1>6. WalkOf("rx")' /\ WalkOf("timer")' /\ TimerAims'
  BY <1>0, <1>1, RxStays DEF OrderRest, Walking, WalkOf, TimerAims, AtSite
<1>7. ASSUME NEW S \in Int, Window(S), Ranges(S) PROVE Ranges(S)'
  <2>1. RxRanges(S)'
    BY <1>0, <1>1, <1>7, RxRangesStay DEF Ranges
  <2>2. TimerRanges(S)'
    <3>1. CASE HeldSlots # {}
      <4>1. S <= base' + WinSz /\ base' \in Int
        BY <1>0, <1>7, <3>1, HeldBounds, OrderTypes
      <4> QED BY <4>1, TimerLow
    <3>2. CASE UNCHANGED timerwait_seq_num /\ (tid_timer' => tid_timer)
      BY <1>0, <1>1, <1>4, <1>7, <3>2 DEF Ranges, TimerRanges, AtSite, Waiting
    <3> QED BY <1>2, <3>1, <3>2
  <2> QED BY <2>1, <2>2 DEF Ranges
<1> QED BY <1>0, <1>3, <1>5, <1>6, <1>7, OrderSame DEF Walking

LEMMA OrderRead ==
  ASSUME TypeInv, TypeInv', OrderRest, NEW c \in Contexts, DequeRead(c), aggr
  PROVE  OrderRest'
<1>0. /\ UNCHANGED <<aggr, seq_next, sync_next_seq, hold_q, tid_timer, timerwait_seq_num, frame, base, delivered,
                     stored>>
      /\ HeldSlots' = HeldSlots /\ pc[c] \in Sites
  BY DEF DequeRead, timerVars, histVars, HeldSlots
<1>t. pc \in [Contexts -> PCs] /\ site \in [Contexts -> Sites \cup {"none"}] /\ Contexts = {"rx", "timer"}
      /\ idx \in [Contexts -> Slots] /\ idx_end \in [Contexts -> Slots]
  BY OrderTypes
<1>a. Quiet /\ Walking /\ DeletesEmpty /\ TimerAims
  BY DEF OrderRest
<1>4. Fresh' <=> Fresh
  BY <1>0 DEF Fresh
<1>s. "walk" \notin Sites /\ "idle" \notin Sites
  BY DEF Sites
<1>1. /\ pc'[c] = "walk" /\ site'[c] = pc[c]
      /\ idx'[c] = WinIdx(seq_next)
      /\ idx_end'[c] = WinIdx(IF SeqArg(pc[c]) # 0 THEN SeqArg(pc[c]) ELSE seq_next)
      /\ \A d \in Contexts \ {c} : Still(d)
  BY <1>t DEF DequeRead, Goto, Still
<1>2. \A d \in Contexts : \A x \in Sites : AtSite(d, x)' <=> AtSite(d, x)
  BY <1>0, <1>t, <1>s, <1>1 DEF AtSite, Still
<1>3. ASSUME NEW x \in {"shifted", "chased", "settle", "delete", "redelete", "timeout", "judge", "addba", "idle"},
             NEW d \in Contexts
      PROVE  pc'[d] = x <=> pc[d] = x
  BY <1>0, <1>t, <1>1, <1>3 DEF Sites, Still
<1>5. {"shift", "chase", "inorder", "skip", "after_skip", "jump"} \subseteq Sites
  BY DEF Sites
<1>6. /\ Receiving' <=> Receiving
      /\ Deleting' <=> Deleting
      /\ Moving' <=> Moving
      /\ Waiting' <=> Waiting
  BY <1>0, <1>t, <1>2, <1>3, <1>5 DEF Receiving, Deleting, Moving, Waiting
<1>7. Quiet'
  BY <1>0, <1>a, <1>4, <1>t, <1>3, <1>6 DEF Quiet
<1>8. DeletesEmpty'
  BY <1>0, <1>a, <1>6 DEF DeletesEmpty
<1>9. TimerAims'
  BY <1>0, <1>a, <1>t, <1>2, <1>5 DEF TimerAims, NextSeq
<1>10. WalkOf(c)'
  <2> SUFFICES /\ idx'[c] = WinIdx(seq_next')
               /\ site'[c] \notin {"shift", "skip", "jump"} => idx_end'[c] = idx'[c]
               /\ site'[c] = "shift" => idx_end'[c] \in {idx'[c], WinIdx(frame' - (HoldQSz - 1))}
    BY DEF WalkOf
  <2>1. pc[c] \notin {"shift", "skip", "jump"} => SeqArg(pc[c]) = 0
    BY DEF SeqArg
  <2>2. ASSUME pc[c] = "shift" PROVE WinIdx(SeqArg(pc[c])) = WinIdx(frame - (HoldQSz - 1))
    <3>1. c = "rx"
      BY <1>t, <2>2 DEF TypeInv, ContextsApart, TimerPCs, TimerSites
    <3>2. PICK f \in Int : f = frame
      BY <2>2, <3>1, OrderTypes DEF HasFrame, AtSite
    <3>3. PICK b \in Int : b = HoldQSz - 1
      BY ConstFacts
    <3>4. (SeqNo(f) - b) % SeqMod = SeqNo(f - b) /\ f - b \in Int
      BY SeqDiff
    <3>6. WinIdx(SeqNo(f - b)) = WinIdx(f - b)
      BY <3>4, SeqNoType
    <3>5. SeqArg(pc[c]) = (SeqNo(frame) - (HoldQSz - 1)) % SeqMod
      BY <2>2 DEF SeqArg
    <3> QED BY <3>2, <3>3, <3>4, <3>5, <3>6
  <2> QED BY <1>0, <1>1, <2>1, <2>2
<1>11. \A d \in Contexts \ {c} : WalkOf(d)'
  BY <1>0, <1>a, <1>t, <1>1 DEF Walking, WalkOf, Still
<1>12. Walking'
  BY <1>t, <1>10, <1>11 DEF Walking
<1>13. ASSUME NEW S \in Int, Ranges(S) PROVE Ranges(S)'
  <2>1. RxRanges(S)'
    BY <1>0, <1>t, <1>2, <1>3, <1>5, <1>6, <1>13 DEF Ranges, RxRanges
  <2>2. TimerRanges(S)'
    BY <1>0, <1>t, <1>2, <1>3, <1>5, <1>6, <1>13 DEF Ranges, TimerRanges, NextSeq
  <2> QED BY <2>1, <2>2 DEF Ranges
<1> QED BY <1>0, <1>4, <1>7, <1>8, <1>9, <1>12, <1>13, OrderSame

LEMMA OrderStart ==
  ASSUME TypeInv, TypeInv', OrderRest, StartSession, ~upset'
  PROVE  OrderRest'
<1>0. /\ pc["rx"] = "addba" /\ Goto("rx", "idle")
      /\ UNCHANGED <<hold_q, dequeVars, tid_timer, timerwait_seq_num, frame, base, delivered, stored>>
      /\ seq_next' = SeqNo(base) /\ ~Crosses("rx")
  BY DEF StartSession, timerVars
<1>1. pc'["rx"] = "idle" /\ Still("timer")
  BY <1>0, OrderTypes, GotoStill
<1>2. Quiet /\ ~aggr /\ Fresh
  BY <1>0 DEF OrderRest, Quiet, Fresh
<1>3. Fresh'
  BY <1>2, OrderTypes DEF StartSession, Fresh
<1>4. HeldSlots' = {} /\ delivered' = <<>> /\ stored' = {}
  BY <1>0, <1>2 DEF Quiet, HeldSlots
<1>5. Quiet' /\ DeletesEmpty' /\ WalkOf("rx")'
  BY <1>1, <1>4 DEF Quiet, DeletesEmpty, WalkOf, Receiving, Deleting, AtSite
<1>6. WalkOf("timer")' /\ TimerAims'
  <2>1. seq_next' = seq_next \/ ~Committed("timer")
    BY <1>0, OrderTypes DEF Crosses
  <2> QED BY <1>0, <1>1, <2>1, TimerStays DEF OrderRest, Walking
<1>7. Accounted' /\ Increasing'
  BY <1>4 DEF Accounted, Increasing
<1>8. PICK S \in Int : S = base
  BY OrderTypes
<1>9. Window(S)'
  BY <1>0, <1>4, <1>8 DEF Window, Placed, HeldSent, Before
<1> QED BY <1>3, <1>5, <1>6, <1>7, <1>9, OrderTypes DEF OrderRest, Walking

\* Deleting a session puts everything in order again, unless the timer is
\* about to move the window.
LEMMA OrderDelete ==
  ASSUME TypeInv, DeleteTidState, ~upset'
  PROVE  OrderRest'
<1>0. /\ ~Committed("timer") /\ aggr' = FALSE /\ seq_next' = 0 /\ hold_q' = Empty
      /\ delivered' = <<>> /\ stored' = {} /\ UNCHANGED dequeVars
  BY DEF DeleteTidState
<1>1. PICK l \in {"idle", "addba"} : Goto("rx", l)
  BY DEF DeleteTidState
<1>2. pc'["rx"] = l /\ Still("timer")
  BY <1>0, <1>1, OrderTypes, GotoStill
<1>3. HeldSlots' = {}
  BY <1>0 DEF HeldSlots, Empty
<1>4. Fresh' /\ Quiet' /\ DeletesEmpty' /\ WalkOf("rx")'
  BY <1>0, <1>2, <1>3 DEF Fresh, Quiet, DeletesEmpty, WalkOf, Receiving, Deleting, AtSite
<1>5. WalkOf("timer")' /\ TimerAims'
  BY <1>0, <1>2 DEF Committed, Still, WalkOf, TimerAims, AtSite
<1>6. Accounted' /\ Increasing'
  BY <1>0 DEF Accounted, Increasing
<1>7. Window(0)'
  <2>1. SeqNo(0) = 0
    BY ConstFacts, ModSmall DEF SeqNo
  <2> QED BY <1>0, <1>3, <2>1 DEF Window, Placed, HeldSent, Before
<1>8. \E S \in Int : Window(S)' /\ (~Fresh' => Ranges(S)')
  BY <1>4, <1>7
<1> QED BY <1>4, <1>5, <1>6, <1>8 DEF OrderRest, Walking


\* Storing a frame of the window: the state the worker leaves behind.
LEMMA OrderStore ==
  ASSUME TypeInv, Quiet, Accounted, Increasing, NEW S \in Int, NEW n \in Frames,
         Placed(S), Before(S), seq_next' = SeqNo(S),
         HeldSent', S <= n, n < S + HoldQSz, Store(n), ~upset',
         aggr', sync_next_seq' = FALSE, pc'["rx"] = "inorder", WalkOf("timer")', TimerAims',
         S >= base' - HoldQSz, TimerRanges(S)'
  PROVE  OrderRest'
<1>1. /\ Placed(S)'
      /\ Held' = Held \cup {n} /\ stored' \subseteq stored \cup {n}
      /\ delivered' = (IF History THEN delivered ELSE <<>>)
      /\ stored' = (IF History THEN stored \cup {n} ELSE {})
  BY StoreWindow DEF TypeInv
<1>2. delivered' = delivered
  BY <1>1 DEF Quiet
<1>3. Window(S)' /\ Accounted' /\ Increasing'
  BY <1>1, <1>2 DEF Window, Before, Accounted, Increasing
<1>4. ~Fresh' /\ ~Deleting'
  BY DEF Fresh, Deleting
<1>5. Quiet'
  BY <1>1, <1>4 DEF Quiet
<1>6. WalkOf("rx")' /\ DeletesEmpty'
  BY <1>4 DEF WalkOf, DeletesEmpty
<1>7. Ranges(S)'
  BY DEF Ranges, RxRanges, Moving, AtSite
<1> QED BY <1>3, <1>5, <1>6, <1>7, OrderTypes DEF OrderRest, Walking

LEMMA OrderShifted ==
  ASSUME TypeInv, TypeInv', OrderRest, Shifted, ~upset'
  PROVE  OrderRest'
<1>a. Quiet /\ Accounted /\ Increasing /\ Walking /\ TimerAims
  BY DEF OrderRest
<1>t. base \in Int /\ sync_next_seq \in BOOLEAN /\ aggr \in BOOLEAN
  BY OrderTypes
<1>1. /\ pc["rx"] = "shifted" /\ Goto("rx", "inorder") /\ Store(frame)
      /\ UNCHANGED <<aggr, seq_next, sync_next_seq, tid_timer, timerwait_seq_num, base, dequeVars>>
  BY DEF Shifted, timerVars
<1>2. pc'["rx"] = "inorder" /\ Still("timer")
  BY <1>1, OrderTypes, GotoStill
<1>3. ~Fresh /\ ~Deleting /\ ~Moving
  BY <1>a, <1>1 DEF Quiet, Receiving, Deleting, Moving, AtSite
<1>4. PICK S \in Int : Window(S) /\ Ranges(S)
  BY <1>3 DEF OrderRest
<1>5. PICK n \in Frames : n = frame
  BY <1>1, OrderTypes DEF HasFrame
<1>6. /\ Placed(S) /\ Before(S) /\ seq_next = SeqNo(S) /\ HeldSent
      /\ S <= n /\ n < S + HoldQSz /\ n < base + WinSz
      /\ S >= base - HoldQSz /\ TimerRanges(S)
  BY <1>1, <1>3, <1>4, <1>5 DEF Window, Ranges, RxRanges
<1>7. HeldSent'
  <2>1. \A i \in HeldSlots' : hold_q'[i] = n \/ (i \in HeldSlots /\ hold_q'[i] = hold_q[i])
    BY <1>1, <1>5, <1>6, StoreWindow DEF TypeInv
  <2> QED BY <1>1, <1>6, <2>1 DEF HeldSent
<1>8. aggr' /\ sync_next_seq' = FALSE
  BY <1>1, <1>3, <1>t DEF Fresh
<1>9. WalkOf("timer")' /\ TimerAims'
  BY <1>a, <1>1, <1>2, TimerStays DEF Walking
<1>10. TimerRanges(S)'
  BY <1>1, <1>2, <1>3, <1>6, TimerRangesStay
<1>11. Store(n) /\ seq_next' = SeqNo(S) /\ S >= base' - HoldQSz
  BY <1>1, <1>5, <1>6
<1> QED BY <1>a, <1>2, <1>6, <1>7, <1>8, <1>9, <1>10, <1>11, OrderStore

\* What was delivered before S came before any later frame.
LEMMA BeforeLater ==
  ASSUME TypeInv, NEW S \in Int, NEW T \in Int, S <= T, Before(S)
  PROVE  Before(T)
<1>1. \A j \in 1..Len(delivered) : delivered[j] \in Int
  <2>1. delivered \in Seq(Frames)
    BY TypeFacts DEF TypeInv
  <2>2. \A j \in 1..Len(delivered) : delivered[j] \in Frames
    BY <2>1
  <2>3. \A f \in Frames : f \in Int
    BY ConstFacts
  <2> QED BY <2>2, <2>3
<1>2. \A j \in 1..Len(delivered) : delivered[j] < T
  BY <1>1 DEF Before
<1> QED BY <1>2 DEF Before

\* A frame stored in front of the window would be a whole window ahead of it.
LEMMA ChasedMisfit ==
  ASSUME NEW n \in Int
  PROVE  ~Fits((SeqNo(n) - HoldQSz) % SeqMod, n)
<1>1. PICK H \in Nat \ {0}, m \in Int : H = HoldQSz /\ m = n - H
  BY ConstFacts
<1>2. (SeqNo(n) - H) % SeqMod = SeqNo(m)
  BY <1>1, SeqDiff
<1>3. (SeqNo(n) - SeqNo(m)) % SeqMod = (n - m) % SeqMod
  BY SeqDiff
<1>4. n - m = H /\ H \in 0 .. SeqMod - 1
  BY <1>1, ConstFacts
<1>5. H % SeqMod = H
  BY <1>4, ConstFacts, ModSmall
<1> QED BY <1>1, <1>2, <1>3, <1>4, <1>5 DEF Fits

LEMMA OrderChased ==
  ASSUME TypeInv, TypeInv', OrderRest, Chased, ~upset'
  PROVE  OrderRest'
<1>a. Quiet /\ Accounted /\ Increasing /\ Walking /\ TimerAims
  BY DEF OrderRest
<1>t. base \in Int
  BY OrderTypes
<1>0. /\ pc["rx"] = "chased" /\ seq_next' = (SeqNo(frame) - HoldQSz) % SeqMod
      /\ UNCHANGED <<aggr, sync_next_seq, tid_timer, timerwait_seq_num, base, dequeVars>>
  BY DEF Chased, timerVars
<1>5. PICK n \in Int : n = frame
  BY <1>0, OrderTypes DEF HasFrame
<1>1. Goto("rx", "idle") /\ StoreNot
  <2>1. CASE RxAggrDrop
    BY <2>1 DEF Chased
  <2>2. CASE ~RxAggrDrop
    <3>1. Store(frame)
      BY <2>2 DEF Chased
    <3>2. ~Fits(seq_next', frame)
      BY <1>0, <1>5, ChasedMisfit
    <3> QED BY <3>1, <3>2 DEF Store
  <2> QED BY <2>1, <2>2
<1>2. pc'["rx"] = "idle" /\ Still("timer")
  BY <1>0, <1>1, OrderTypes, GotoStill
<1>3. ~Fresh /\ ~Deleting
  BY <1>a, <1>0 DEF Quiet, Receiving, Deleting
<1>4. PICK S \in Int : Window(S) /\ Ranges(S)
  BY <1>3 DEF OrderRest
<1>6. Before(S) /\ S + HoldQSz <= n /\ base <= n /\ n < base + WinSz /\ HeldSlots = {}
  BY <1>0, <1>4, <1>5 DEF Window, Ranges, RxRanges
<1>7. PICK T \in Int : T = n - HoldQSz /\ S <= T /\ T >= base - HoldQSz /\ T <= base + WinSz
  BY <1>t, <1>6, ConstFacts
<1>8. seq_next' = SeqNo(T)
  <2>1. HoldQSz \in Int
    BY ConstFacts
  <2> QED BY <1>0, <1>5, <1>7, <2>1, SeqDiff
<1>9. HeldSlots' = {} /\ UNCHANGED <<hold_q, delivered, stored>>
  <2>1. delivered' = delivered /\ stored' = stored /\ hold_q' = hold_q
    BY <1>a, <1>1, RecordIs DEF StoreNot, Quiet
  <2> QED BY <1>6, <2>1 DEF HeldSlots
<1>10. Before(T)'
  <2>1. Before(T)
    BY <1>6, <1>7, BeforeLater
  <2> QED BY <1>9, <2>1 DEF Before
<1>11. Window(T)'
  BY <1>8, <1>9, <1>10 DEF Window, Placed, HeldSent
<1>12. Accounted' /\ Increasing'
  BY <1>a, <1>9 DEF Accounted, Increasing, Held, HeldSlots
<1>13. ~Fresh' /\ ~Deleting'
  BY <1>0, <1>2, <1>3 DEF Fresh, Deleting
<1>14. Quiet' /\ WalkOf("rx")' /\ DeletesEmpty'
  BY <1>a, <1>9, <1>2, <1>13 DEF Quiet, WalkOf, DeletesEmpty
<1>15. WalkOf("timer")' /\ TimerAims'
  <2>1. seq_next' = seq_next \/ ~Committed("timer")
    BY <1>1, OrderTypes DEF StoreNot, Crosses
  <2> QED BY <1>a, <1>0, <1>2, <2>1, TimerStays DEF Walking
<1>16. Ranges(T)'
  <2>1. base' = base /\ base' \in Int /\ T <= base' + WinSz
    BY <1>t, <1>0, <1>7
  <2>2. TimerRanges(T)'
    BY <2>1, TimerLow
  <2>3. RxRanges(T)'
    BY <1>2, <1>7, <2>1 DEF RxRanges, Moving, AtSite
  <2> QED BY <2>2, <2>3 DEF Ranges
<1> QED BY <1>11, <1>12, <1>14, <1>15, <1>16, OrderTypes DEF OrderRest, Walking

\* The first frame of a session defines the window.
LEMMA OrderFirst ==
  ASSUME TypeInv, TypeInv', OrderRest, NEW n \in Frames, Receive(n), Fresh, ~upset'
  PROVE  OrderRest'
<1>a. Quiet /\ Accounted /\ Increasing /\ Walking /\ TimerAims
  BY DEF OrderRest
<1>t. base \in Int /\ n \in Int
      /\ HoldQSz \in Nat \ {0} /\ WinSz \in Nat \ {0} /\ HoldQSz = 2 * WinSz
  BY OrderTypes, ConstFacts
<1>1. /\ pc["rx"] = "idle" /\ aggr /\ sync_next_seq /\ UNCHANGED dequeVars
      /\ base' = PeerBase(n) /\ seq_next' = SeqNo(n) /\ sync_next_seq' = FALSE /\ n >= base
      /\ UNCHANGED <<aggr, tid_timer, timerwait_seq_num>>
  BY DEF Receive, MayStart, Fresh, timerVars
<1>2. InWindow(SeqNo(n), SeqNo(n)) /\ ~JustBeyond(SeqNo(n), SeqNo(n)) /\ ~FarAhead(SeqNo(n), SeqNo(n))
  <2>1. PICK x : x = (n - n) % SeqMod
    OBVIOUS
  <2>2. n - n = 0
    BY <1>t
  <2>3. x = 0
    BY <2>1, <2>2, ConstFacts, ModSmall
  <2>4. /\ InWindow(SeqNo(n), SeqNo(n)) <=> x < HoldQSz
        /\ JustBeyond(SeqNo(n), SeqNo(n)) <=> HoldQSz <= x /\ x < 2 * HoldQSz
        /\ FarAhead(SeqNo(n), SeqNo(n)) <=> 2 * HoldQSz <= x /\ x <= SeqMod - 2 * HoldQSz
    BY <1>t, <2>1, WhereIs
  <2> QED BY <1>t, <2>3, <2>4
<1>3. Store(n) /\ Goto("rx", "inorder")
  BY <1>1, <1>2 DEF Receive, Drops
<1>4. pc'["rx"] = "inorder" /\ Still("timer")
  BY <1>1, <1>3, OrderTypes, GotoStill
<1>5. HeldSlots = {} /\ delivered = <<>>
  BY <1>a DEF Quiet
<1>6. Placed(n) /\ Before(n)
  BY <1>5 DEF Placed, Before
<1>7. /\ base' \in Int /\ n < base' + WinSz /\ n <= base' + WinSz /\ n >= base' - HoldQSz
      /\ n <= n /\ n < n + HoldQSz
  BY <1>t, <1>1 DEF PeerBase
<1>8. HeldSent'
  <2>1. \A i \in HeldSlots' : hold_q'[i] = n \/ (i \in HeldSlots /\ hold_q'[i] = hold_q[i])
    BY <1>t, <1>3, <1>6, <1>7, StoreWindow DEF TypeInv
  <2> QED BY <1>5, <1>7, <2>1 DEF HeldSent
<1>9. WalkOf("timer")' /\ TimerAims'
  <2>1. seq_next' = seq_next \/ ~Committed("timer")
    BY <1>3, OrderTypes DEF Store, Crosses
  <2> QED BY <1>a, <1>1, <1>4, <2>1, TimerStays DEF Walking
<1>10. TimerRanges(n)'
  <2>1. PICK m \in Int : m = n
    BY <1>t
  <2>2. TimerRanges(m)'
    BY <1>7, <2>1, TimerLow
  <2> QED BY <2>1, <2>2
<1> QED BY <1>a, <1>t, <1>1, <1>3, <1>4, <1>6, <1>7, <1>8, <1>9, <1>10, OrderStore

\* Frame n moves the peer's window from b to B.
LEMMA PeerMoves ==
  ASSUME NEW n \in Int, NEW b \in Int, NEW W \in Nat \ {0}, NEW H \in Nat, H = 2 * W, NEW S \in Int,
         n >= b, NEW B \in Int, B = IF n - W + 1 > b THEN n - W + 1 ELSE b
  PROVE  /\ B >= b /\ n < B + W /\ n >= B
         /\ S <= b + W + H + 1 => S <= B + W + H + 1
         /\ S <= b + W => S <= B + W
         /\ S >= b - H /\ n < S + H => S >= B - H
OBVIOUS

\* The timer's ranges when the peer's window moves.
LEMMA TimerRangesRise ==
  ASSUME TypeInv, Still("timer"), UNCHANGED <<seq_next, tid_timer, timerwait_seq_num>>, base' \in Int,
         base <= base', NEW S \in Int, ~Deleting, TimerRanges(S)
  PROVE  TimerRanges(S)'
<1>1. PICK b \in Int, B \in Int, W \in Nat, H \in Nat :
        b = base /\ B = base' /\ W = WinSz /\ H = HoldQSz /\ b <= B
  BY OrderTypes, ConstFacts
<1>2. /\ S <= b + W + H + 1 => S <= B + W + H + 1
      /\ S <= b + W => S <= B + W
      /\ S <= b + W + 1 => S <= B + W + 1
  BY <1>1, Slack
<1>3. Waiting' => Waiting
  BY DEF Waiting, Still
<1> QED BY <1>1, <1>2, <1>3, StillSites DEF TimerRanges, Still, NextSeq

LEMMA OrderReceive ==
  ASSUME Regular, TypeInv, TypeInv', OrderRest, NEW n \in Frames, Receive(n), ~Fresh, ~upset'
  PROVE  OrderRest'
<1>a. Quiet /\ Accounted /\ Increasing /\ Walking /\ TimerAims
  BY DEF OrderRest
<1>t. base \in Int /\ n \in Int /\ sync_next_seq \in BOOLEAN
  BY OrderTypes, ConstFacts
<1>c. PICK M \in Nat \ {0}, H \in Nat \ {0}, W \in Nat \ {0} :
        /\ M = SeqMod /\ H = HoldQSz /\ W = WinSz /\ H = 2 * W /\ 4 * H <= M /\ W >= 2
        /\ MaxLoss \in Nat /\ MaxLoss <= M - 3 * H
  BY ConstFacts DEF Regular
<1>1. /\ pc["rx"] = "idle" /\ aggr /\ ~sync_next_seq
      /\ base' = PeerBase(n) /\ seq_next' = seq_next /\ sync_next_seq' = FALSE
      /\ n >= base /\ n <= base + MaxLoss
      /\ UNCHANGED <<aggr, tid_timer, timerwait_seq_num, dequeVars>>
  BY DEF Receive, MayStart, Fresh, timerVars
<1>2. PICK S \in Int : Window(S) /\ Ranges(S)
  BY DEF OrderRest
<1>3. ~Moving /\ ~Deleting
  BY <1>1 DEF Moving, Deleting, AtSite
<1>4. /\ seq_next = SeqNo(S) /\ Placed(S) /\ Before(S) /\ HeldSent
      /\ S >= base - H /\ S <= base + W + H + 1 /\ TimerRanges(S)
  BY <1>2, <1>3, <1>c DEF Window, Ranges, RxRanges, TimerRanges
<1>r. PICK b \in Int : /\ b = base /\ n >= b /\ n <= b + MaxLoss
                       /\ S >= b - H /\ S <= b + W + H + 1
  BY <1>t, <1>1, <1>4
<1>5. PICK B \in Int : B = base' /\ B = IF n - W + 1 > b THEN n - W + 1 ELSE b
  <2>1. n - W + 1 \in Int /\ b \in Int
    BY <1>t, <1>c, <1>r
  <2> QED BY <1>c, <1>r, <1>1, <2>1 DEF PeerBase
<1>b. /\ B >= b /\ n < B + W /\ n >= B
      /\ S >= b - H /\ n < S + H => S >= B - H
  <2>1. n \in Int /\ b \in Int /\ W \in Nat \ {0} /\ H \in Nat /\ H = 2 * W /\ n >= b
    BY <1>t, <1>c, <1>r
  <2> QED BY <1>5, <2>1, PeerMoves
<1>6. PICK x \in Int : x = (n - S) % SeqMod
  <2>1. n - S \in Int
    BY <1>t
  <2> QED BY <2>1, SeqNoType DEF SeqNo
<1>7. /\ InWindow(seq_next, SeqNo(n)) <=> x < H
      /\ JustBeyond(seq_next, SeqNo(n)) <=> H <= x /\ x < 2 * H
      /\ FarAhead(seq_next, SeqNo(n)) <=> 2 * H <= x /\ x <= M - 2 * H
      /\ Fits(seq_next, n) <=> x < H
  <2>1. (SeqNo(n) - SeqNo(S)) % SeqMod = x
    BY <1>t, <1>6, SeqDiff
  <2> QED BY <1>t, <1>c, <1>4, <1>6, <2>1, WhereIs DEF Fits
<1>8. (n >= S => x = n - S) /\ (n < S => x = n - S + M)
  <2>1. PICK d \in Int : d = n - S
    BY <1>t
  <2>2. d <= M - 2 * H /\ d >= -(W + H + 1)
    BY <1>t, <1>c, <1>r, <2>1
  <2>3. (d >= 0 => d \in 0 .. M - 1) /\ (d < 0 => d \in -M .. -1)
    BY <1>c, <2>1, <2>2
  <2>4. (d >= 0 => d % M = d) /\ (d < 0 => d % M = d + M)
    BY <2>3, ModSmall
  <2> QED BY <1>t, <1>c, <1>6, <2>1, <2>4
<1>9. Still("timer") => TimerRanges(S)' /\ WalkOf("timer")' /\ TimerAims'
  <2>1. base <= base' /\ base' \in Int
    BY <1>r, <1>5, <1>b
  <2>2. Still("timer") => TimerRanges(S)'
    BY <1>1, <1>3, <1>4, <2>1, TimerRangesRise
  <2> QED BY <1>a, <1>1, <2>2, TimerStays DEF Walking
<1>10. ASSUME StoreNot PROVE Window(S)' /\ Accounted' /\ Increasing' /\ HeldSlots' = HeldSlots
                             /\ delivered' = delivered /\ stored' = stored
  <2>0. delivered' = delivered /\ stored' = stored /\ hold_q' = hold_q
    BY <1>a, <1>10, RecordIs DEF StoreNot, Quiet
  <2>1. HeldSlots' = HeldSlots /\ Held' = Held
    BY <2>0 DEF HeldSlots, Held
  <2>2. \A i \in HeldSlots : hold_q[i] \in Int
    BY HeldType DEF TypeInv
  <2>3. \A i \in HeldSlots : hold_q[i] < B + W
    BY <1>c, <1>r, <1>4, <1>b, <2>2 DEF HeldSent
  <2>4. HeldSent'
    BY <2>0, <1>5, <1>c, <2>1, <2>3 DEF HeldSent
  <2> QED BY <1>a, <1>1, <1>4, <2>0, <2>1, <2>4 DEF Window, Placed, Before, Accounted, Increasing
<1>11. ~Fresh'
  BY <1>1 DEF Fresh
<1>12. CASE n < S
  <2>1. ~InWindow(seq_next, SeqNo(n)) /\ ~JustBeyond(seq_next, SeqNo(n)) /\ ~FarAhead(seq_next, SeqNo(n))
        /\ ~Fits(seq_next, n)
    BY <1>t, <1>c, <1>r, <1>7, <1>8, <1>12
  <2>2. UNCHANGED <<frame, pc>> /\ StoreNot
    <3>1. ~Store(n)
      BY <1>1, <2>1 DEF Store
    <3> QED BY <1>1, <2>1, <3>1 DEF Receive
  <2>3. S >= B - H
    <3>1. n < S + H
      BY <1>t, <1>c, <1>12
    <3> QED BY <1>r, <1>b, <3>1
  <2>4. Still("timer") /\ pc'["rx"] = "idle"
    BY <1>1, <2>2 DEF Still, dequeVars
  <2>5. Quiet' /\ WalkOf("rx")' /\ DeletesEmpty'
    BY <1>a, <1>1, <1>10, <1>11, <2>2, <2>4 DEF Quiet, WalkOf, DeletesEmpty, Deleting
  <2>6. RxRanges(S)'
    BY <1>c, <1>5, <2>3, <2>4 DEF RxRanges, Moving, AtSite
  <2> QED BY <1>9, <1>10, <2>2, <2>4, <2>5, <2>6, OrderTypes DEF OrderRest, Ranges, Walking
<1>13. CASE S <= n /\ n < S + H
  <2>1. InWindow(seq_next, SeqNo(n)) /\ ~JustBeyond(seq_next, SeqNo(n)) /\ ~FarAhead(seq_next, SeqNo(n))
    BY <1>t, <1>c, <1>7, <1>8, <1>13
  <2>2. Store(n) /\ Goto("rx", "inorder")
    BY <1>1, <2>1 DEF Receive, Drops
  <2>3. pc'["rx"] = "inorder" /\ Still("timer")
    BY <1>1, <2>2, OrderTypes, GotoStill
  <2>4. S >= B - H
    <3>1. n < S + H
      BY <1>t, <1>c, <1>13
    <3> QED BY <1>r, <1>b, <3>1
  <2>5. HeldSent'
    <3>1. \A i \in HeldSlots' : hold_q'[i] = n \/ (i \in HeldSlots /\ hold_q'[i] = hold_q[i])
      BY <1>c, <1>4, <1>13, <2>2, StoreWindow DEF TypeInv
    <3>2. \A i \in HeldSlots : hold_q[i] \in Int
      BY HeldType DEF TypeInv
    <3>3. \A i \in HeldSlots : hold_q[i] < B + W
      BY <1>c, <1>r, <1>4, <1>b, <3>2 DEF HeldSent
    <3> QED BY <1>c, <1>5, <1>b, <3>1, <3>3 DEF HeldSent
  <2>6. S <= n /\ n < S + HoldQSz /\ S >= base' - HoldQSz /\ seq_next' = SeqNo(S) /\ aggr'
    BY <1>c, <1>1, <1>4, <1>5, <1>13, <2>4
  <2> QED BY <1>a, <1>1, <1>4, <1>9, <2>2, <2>3, <2>5, <2>6, OrderStore
<1>14. CASE n >= S + H
  <2>1. JustBeyond(seq_next, SeqNo(n)) \/ FarAhead(seq_next, SeqNo(n))
    BY <1>t, <1>c, <1>r, <1>7, <1>8, <1>14
  <2>2. FarAhead(seq_next, SeqNo(n)) <=> n >= S + 2 * H
    BY <1>t, <1>c, <1>r, <1>7, <1>8, <1>14
  <2>3. PICK l \in {"chase", "shift"} : Goto("rx", l) /\ (l = "chase" <=> n >= S + 2 * H)
    BY <1>1, <2>1, <2>2 DEF Receive
  <2>4. StoreNot /\ frame' = n
    BY <1>1, <2>1 DEF Receive
  <2>5. pc'["rx"] = l /\ Still("timer")
    BY <1>1, <2>3, OrderTypes, GotoStill
  <2>6. Quiet' /\ WalkOf("rx")' /\ DeletesEmpty'
    BY <1>a, <1>1, <1>10, <1>11, <2>3, <2>4, <2>5 DEF Quiet, WalkOf, DeletesEmpty, Deleting
  <2>7. RxRanges(S)'
    <3>1. Moving'
      BY <2>3, <2>5 DEF Moving, AtSite
    <3>2. l = "shift" => n < S + 2 * H
      BY <1>t, <1>c, <2>3
    <3> QED BY <1>c, <1>5, <1>b, <1>14, <2>3, <2>4, <2>5, <3>1, <3>2 DEF RxRanges, AtSite
  <2> QED BY <1>9, <1>10, <2>4, <2>5, <2>6, <2>7, OrderTypes DEF OrderRest, Ranges, Walking
<1>15. n < S \/ (S <= n /\ n < S + H) \/ n >= S + H
  BY <1>t, <1>c
<1> QED BY <1>12, <1>13, <1>14, <1>15

\* A walk that ends where it started goes all the way round.
LEMMA FullTurn ==
  ASSUME NEW S \in Int, NEW k \in 1 .. HoldQSz, WinIdx(S + k) = WinIdx(S)
  PROVE  k = HoldQSz
<1>1. PICK H \in Nat \ {0} : H = HoldQSz
  BY ConstFacts
<1>2. PICK T \in Int : T = S + k /\ T - S = k /\ S - T < H
  BY <1>1
<1>3. ASSUME k < H PROVE FALSE
  <2>1. T - S < H /\ S - T < H /\ T % H = S % H
    BY <1>1, <1>2, <1>3 DEF WinIdx
  <2>2. T = S
    BY <2>1, ModEqual
  <2> QED BY <1>2, <2>2
<1> QED BY <1>1, <1>3

\* A walk to the slot of frame m, a turn ahead at most, ends at m.
LEMMA WalkTo ==
  ASSUME NEW S \in Int, NEW k \in 1 .. HoldQSz, NEW m \in Int, S < m, m <= S + HoldQSz,
         WinIdx(S + k) = WinIdx(m)
  PROVE  S + k = m
<1>1. PICK H \in Nat \ {0} : H = HoldQSz
  BY ConstFacts
<1>2. PICK T \in Int : T = S + k /\ T - m < H /\ m - T < H
  BY <1>1
<1>3. T % H = m % H
  BY <1>1, <1>2 DEF WinIdx
<1>4. T = m
  BY <1>2, <1>3, ModEqual
<1> QED BY <1>2, <1>4

\* What a walk of context c from S to T does to the rest of the invariant.
LEMMA WalkFacts ==
  ASSUME TypeInv, OrderRest, NEW c \in Contexts, DequeWalk(c), aggr, ~upset', NEW S \in Int, Window(S)
  PROVE  \E k \in 0 .. HoldQSz :
           /\ Window(S + k)' /\ Increasing' /\ Accounted'
           /\ HeldSlots = {} => HeldSlots' = {}
           /\ HeldSlots = {} /\ delivered = <<>> => delivered' = <<>>
           /\ stored' = stored /\ (~History => delivered' = <<>>)
           /\ k = HoldQSz => HeldSlots' = {}
           /\ ~Ordered(site[c]) => k >= 1 /\ WinIdx(S + k) = idx_end[c]
           /\ ~Ordered(site[c]) /\ idx_end[c] = idx[c] => k = HoldQSz
           /\ Ordered(site[c]) => k = 0 \/ S + k <= base + WinSz
           /\ seq_next' = SeqNo(S + k)
<1>a. Quiet /\ TypeOK /\ Accounted /\ Increasing /\ Walking
  BY DEF OrderRest, TypeInv
<1>1. PICK k : k = Iterations(c)
  OBVIOUS
<1>2. /\ hold_q' = Taken(c)
      /\ delivered' = (IF History THEN delivered \o Collected(c) ELSE <<>>)
      /\ stored' = (IF History THEN stored ELSE {})
      /\ seq_next' = (seq_next + k) % SeqMod /\ UNCHANGED base /\ pc[c] = "walk"
      /\ (~History => delivered = <<>> /\ stored = {})
  BY <1>a, <1>1, RecordIs DEF DequeWalk, Quiet
<1>3. idx[c] = WinIdx(seq_next) /\ seq_next = SeqNo(S) /\ Placed(S)
  BY <1>a, <1>2 DEF Walking, WalkOf, Window, Contexts
<1>4. /\ k \in 0 .. HoldQSz /\ k \in Nat /\ (seq_next + k) % SeqMod = SeqNo(S + k)
      /\ ~Ordered(site[c]) => k >= 1 /\ WinIdx(S + k) = idx_end[c]
      /\ Ordered(site[c]) /\ k >= 1 => \E i \in HeldSlots : hold_q[i] = S + (k - 1)
  BY <1>a, <1>1, <1>3, WalkIs
<1>5. /\ Window(S + k)' /\ Increasing' /\ Accounted'
      /\ \A i \in HeldSlots' : i \in HeldSlots /\ S + k <= hold_q[i]
      /\ HeldSlots = {} /\ delivered = <<>> => delivered' = <<>>
  BY <1>a, <1>1, <1>2, <1>3, WalkWindow
<1>6. ASSUME k = HoldQSz PROVE HeldSlots' = {}
  <2>1. ASSUME NEW i \in HeldSlots' PROVE FALSE
    <3>1. PICK m \in Int : m = hold_q[i]
      BY <1>a, <1>5, HeldType
    <3>2. S + k <= m /\ m < S + k
      BY <1>3, <1>5, <1>6, <3>1 DEF Placed
    <3> QED BY <1>4, <3>1, <3>2
  <2> QED BY <2>1
<1>7. ASSUME ~Ordered(site[c]), idx_end[c] = idx[c] PROVE k = HoldQSz
  <2>1. WinIdx(S + k) = WinIdx(S)
    BY <1>3, <1>4, <1>7, SeqNoType
  <2>2. k \in 1 .. HoldQSz
    BY <1>4, <1>7, ConstFacts
  <2> QED BY <2>1, <2>2, FullTurn
<1>8. ASSUME Ordered(site[c]), k # 0 PROVE S + k <= base + WinSz
  <2>1. PICK i \in HeldSlots : hold_q[i] = S + (k - 1)
    BY <1>4, <1>8
  <2>2. S + (k - 1) < base + WinSz
    BY <2>1 DEF Window, HeldSent
  <2>3. base \in Int /\ WinSz \in Int /\ k \in Int
    BY <1>4, OrderTypes, ConstFacts
  <2> QED BY <2>2, <2>3
<1> QED BY <1>2, <1>4, <1>5, <1>6, <1>7, <1>8

LEMMA OrderWalkRx ==
  ASSUME TypeInv, TypeInv', OrderRest, DequeWalk("rx"), aggr, ~upset'
  PROVE  OrderRest'
<1>a. Quiet /\ Walking /\ TimerAims /\ DeletesEmpty
  BY DEF OrderRest
<1>t. /\ pc \in [Contexts -> PCs] /\ Contexts = {"rx", "timer"} /\ "rx" \in Contexts
      /\ site \in [Contexts -> Sites \cup {"none"}] /\ base \in Int
      /\ idx \in [Contexts -> Slots] /\ idx_end \in [Contexts -> Slots]
  BY OrderTypes
<1>0. /\ UNCHANGED <<aggr, sync_next_seq, tid_timer, timerwait_seq_num, frame, base>>
      /\ pc["rx"] = "walk" /\ Goto("rx", ReturnTo(site["rx"])) /\ site["rx"] \in RxSites
      /\ ~Crosses("rx")
  BY <1>t DEF DequeWalk, timerVars, TypeInv, ContextsApart, SitesOf
<1>1. PICK S \in Int : Window(S) /\ (~Fresh => Ranges(S))
  BY DEF OrderRest
<1>2. PICK k \in 0 .. HoldQSz :
           /\ Window(S + k)' /\ Increasing' /\ Accounted'
           /\ HeldSlots = {} => HeldSlots' = {}
           /\ HeldSlots = {} /\ delivered = <<>> => delivered' = <<>>
           /\ stored' = stored /\ (~History => delivered' = <<>>)
           /\ k = HoldQSz => HeldSlots' = {}
           /\ ~Ordered(site["rx"]) => k >= 1 /\ WinIdx(S + k) = idx_end["rx"]
           /\ ~Ordered(site["rx"]) /\ idx_end["rx"] = idx["rx"] => k = HoldQSz
           /\ Ordered(site["rx"]) => k = 0 \/ S + k <= base + WinSz
           /\ seq_next' = SeqNo(S + k)
  BY <1>t, <1>1, WalkFacts
<1>3. /\ pc'["rx"] = ReturnTo(site["rx"]) /\ Still("timer")
      /\ pc'["rx"] \in {"chased", "shifted", "settle", "delete", "redelete"}
      /\ site["rx"] = "chase" <=> pc'["rx"] = "chased"
      /\ site["rx"] = "shift" <=> pc'["rx"] = "shifted"
      /\ site["rx"] = "inorder" <=> pc'["rx"] = "settle"
      /\ site["rx"] \in {"flush", "reflush"} <=> Deleting'
  <2>1. pc'["rx"] = ReturnTo(site["rx"]) /\ Still("timer")
    BY <1>t, <1>0 DEF DequeWalk, Goto, Still
  <2> QED BY <1>0, <2>1 DEF ReturnTo, RxSites, Deleting
<1>4. site["rx"] = "inorder" <=> Ordered(site["rx"])
  BY <1>0 DEF Ordered, RxSites
<1>5. site["rx"] # "shift" /\ site["rx"] # "inorder" => k = HoldQSz
  <2>1. site["rx"] # "shift" => idx_end["rx"] = idx["rx"]
    BY <1>a, <1>t, <1>0 DEF Walking, WalkOf, RxSites
  <2> QED BY <1>2, <1>4, <2>1
<1>6. Fresh' <=> Fresh
  BY <1>0 DEF Fresh
<1>7. Receiving' <=> Receiving
  BY <1>0, <1>3 DEF Receiving, AtSite, RxSites, Deleting
<1>8. Quiet'
  BY <1>a, <1>0, <1>2, <1>3, <1>6, <1>7 DEF Quiet
<1>9. WalkOf("rx")' /\ DeletesEmpty'
  BY <1>2, <1>3, <1>5 DEF WalkOf, DeletesEmpty
<1>w. WalkOf("timer")' /\ TimerAims'
  <2>1. seq_next' = seq_next \/ ~Committed("timer")
    BY <1>0, <1>t DEF Crosses
  <2> QED BY <1>a, <1>0, <1>3, <2>1, TimerStays DEF Walking
<1>10. ASSUME ~Fresh PROVE Ranges(S + k)'
  <2>c. PICK H \in Nat \ {0}, W \in Nat \ {0} : H = HoldQSz /\ W = WinSz /\ H = 2 * W
    BY ConstFacts
  <2>b. PICK b \in Int, T \in Int : b = base /\ b = base' /\ T = S + k /\ k \in 0 .. H
    BY <1>t, <1>0, <2>c
  <2>1. Ranges(S) /\ ~Deleting
    BY <1>0, <1>1, <1>10 DEF Deleting
  <2>f. site["rx"] \in {"chase", "shift"} => frame \in Int
    BY <1>0, OrderTypes DEF HasFrame, AtSite
  <2>m. ~Moving'  <=> pc'["rx"] # "chased"
    BY <1>3 DEF Moving, AtSite
  <2>u. ~AtSite("rx", "shift")' /\ ~AtSite("rx", "chase")'
    BY <1>3 DEF AtSite
  <2>l. ASSUME T <= b + W PROVE TimerRanges(T)'
    <3>1. base' \in Int /\ T <= base' + WinSz
      BY <2>b, <2>c, <2>l
    <3> QED BY <3>1, TimerLow
  <2>3. CASE site["rx"] = "chase"
    <3>1. PICK f \in Int : f = frame /\ f = frame'
      BY <1>0, <2>3, <2>f
    <3>2. S + 2 * H <= f /\ b <= f /\ f < b + W
      BY <1>0, <2>1, <2>3, <2>b, <2>c, <3>1 DEF Ranges, RxRanges, AtSite
    <3>3. T = S + H /\ HeldSlots' = {}
      BY <1>2, <1>5, <2>3, <2>b, <2>c
    <3>4. T + H <= f /\ T <= b + W
      BY <2>c, <3>2, <3>3
    <3>5. RxRanges(T)'
      BY <1>3, <2>3, <2>b, <2>c, <2>m, <2>u, <3>1, <3>2, <3>3, <3>4 DEF RxRanges
    <3> QED BY <2>b, <2>l, <3>4, <3>5 DEF Ranges
  <2>4. CASE site["rx"] = "shift"
    <3>1. PICK f \in Int : f = frame /\ f = frame'
      BY <1>0, <2>4, <2>f
    <3>2. S + H <= f /\ f < S + 2 * H /\ b <= f /\ f < b + W
      BY <1>0, <2>1, <2>4, <2>b, <2>c, <3>1 DEF Ranges, RxRanges, AtSite
    <3>3. T = S + H \/ T = f - (H - 1)
      <4>1. idx_end["rx"] \in {idx["rx"], WinIdx(f - (H - 1))}
        BY <1>a, <1>t, <1>0, <2>4, <2>c, <3>1 DEF Walking, WalkOf
      <4>2. CASE idx_end["rx"] = idx["rx"]
        BY <1>2, <1>4, <2>4, <2>b, <2>c, <4>2
      <4>3. CASE idx_end["rx"] = WinIdx(f - (H - 1))
        <5>1. PICK m \in Int : m = f - (H - 1) /\ S < m /\ m <= S + H
          BY <2>c, <3>2
        <5>2. k >= 1 /\ WinIdx(S + k) = WinIdx(m)
          BY <1>2, <1>4, <2>4, <4>3, <5>1
        <5>3. k \in 1 .. HoldQSz
          BY <2>b, <2>c, <5>2
        <5>4. S + k = m
          BY <2>c, <5>1, <5>2, <5>3, WalkTo
        <5> QED BY <2>b, <5>1, <5>4
      <4> QED BY <4>1, <4>2, <4>3
    <3>4. T <= f /\ f < T + H /\ T >= b - H /\ T <= b + W
      BY <2>c, <3>2, <3>3
    <3>5. RxRanges(T)'
      BY <1>3, <2>4, <2>b, <2>c, <2>u, <3>1, <3>2, <3>4 DEF RxRanges
    <3> QED BY <2>b, <2>l, <3>4, <3>5 DEF Ranges
  <2>5. CASE site["rx"] \in {"inorder", "flush", "reflush"}
    <3>1. ~Moving
      BY <1>0, <2>5 DEF Moving, AtSite
    <3>2. S >= b - H
      BY <2>1, <2>b, <2>c, <3>1 DEF Ranges, RxRanges
    <3>a. S <= T /\ (k = 0 => T = S)
      BY <2>b
    <3>3. T >= b - H
      BY <3>2, <3>a
    <3>5. RxRanges(T)'
      BY <1>3, <2>5, <2>b, <2>c, <2>u, <3>3 DEF RxRanges
    <3>6. TimerRanges(T)'
      <4>1. CASE Deleting'
        BY <4>1 DEF TimerRanges
      <4>2. CASE site["rx"] = "inorder" /\ k # 0
        <5>1. T <= b + W
          BY <1>2, <1>4, <2>b, <2>c, <4>2
        <5> QED BY <2>l, <5>1
      <4>3. CASE site["rx"] = "inorder" /\ k = 0
        <5>1. T = S /\ seq_next' = seq_next
          BY <1>1, <1>2, <2>b, <3>a, <4>3 DEF Window
        <5> QED BY <1>0, <1>3, <2>1, <5>1, TimerRangesStay DEF Ranges
      <4> QED BY <1>3, <2>5, <4>1, <4>2, <4>3
    <3> QED BY <2>b, <3>5, <3>6 DEF Ranges
  <2> QED BY <1>0, <2>3, <2>4, <2>5 DEF RxSites
<1>11. S + k \in Int
  BY ConstFacts
<1> QED BY <1>2, <1>6, <1>8, <1>9, <1>w, <1>t, <1>10, <1>11 DEF OrderRest, Walking

LEMMA OrderWalkTimer ==
  ASSUME TypeInv, TypeInv', OrderRest, DequeWalk("timer"), aggr, ~upset'
  PROVE  OrderRest'
<1>a. Quiet /\ Walking /\ TimerAims /\ DeletesEmpty
  BY DEF OrderRest
<1>t. /\ pc \in [Contexts -> PCs] /\ Contexts = {"rx", "timer"} /\ "timer" \in Contexts
      /\ site \in [Contexts -> Sites \cup {"none"}] /\ base \in Int
      /\ idx \in [Contexts -> Slots] /\ idx_end \in [Contexts -> Slots]
  BY OrderTypes
<1>0. /\ UNCHANGED <<aggr, sync_next_seq, tid_timer, timerwait_seq_num, frame, base>>
      /\ pc["timer"] = "walk" /\ Goto("timer", ReturnTo(site["timer"])) /\ site["timer"] \in TimerSites
      /\ ~Crosses("timer")
  BY <1>t DEF DequeWalk, timerVars, TypeInv, ContextsApart, SitesOf
<1>1. PICK S \in Int : Window(S) /\ (~Fresh => Ranges(S))
  BY DEF OrderRest
<1>2. PICK k \in 0 .. HoldQSz :
           /\ Window(S + k)' /\ Increasing' /\ Accounted'
           /\ HeldSlots = {} => HeldSlots' = {}
           /\ HeldSlots = {} /\ delivered = <<>> => delivered' = <<>>
           /\ stored' = stored /\ (~History => delivered' = <<>>)
           /\ ~Ordered(site["timer"]) => k >= 1
           /\ Ordered(site["timer"]) => k = 0 \/ S + k <= base + WinSz
           /\ seq_next' = SeqNo(S + k)
  BY <1>t, <1>1, WalkFacts
<1>3. /\ pc'["timer"] = ReturnTo(site["timer"]) /\ Still("rx")
      /\ pc'["timer"] \in {"after_skip", "judge", "after_jump", "jumped"}
      /\ site["timer"] = "skip" <=> pc'["timer"] = "after_skip"
      /\ site["timer"] = "after_skip" <=> pc'["timer"] = "judge"
  <2>1. pc'["timer"] = ReturnTo(site["timer"]) /\ Still("rx")
    BY <1>t, <1>0 DEF DequeWalk, Goto, Still
  <2> QED BY <1>0, <2>1 DEF ReturnTo, TimerSites
<1>4. site["timer"] \in {"after_skip", "after_jump"} <=> Ordered(site["timer"])
  BY <1>0 DEF Ordered, TimerSites
<1>6. Fresh' <=> Fresh
  BY <1>0 DEF Fresh
<1>7. (Receiving' <=> Receiving) /\ (Deleting' <=> Deleting) /\ pc'["rx"] = pc["rx"]
  BY <1>3 DEF Receiving, AtSite, Deleting, Still
<1>8. Quiet'
  BY <1>a, <1>0, <1>2, <1>3, <1>6, <1>7 DEF Quiet
<1>9. WalkOf("timer")' /\ TimerAims' /\ DeletesEmpty'
  BY <1>a, <1>2, <1>3, <1>7 DEF WalkOf, TimerAims, AtSite, DeletesEmpty
<1>m. seq_next' = seq_next \/ ~Committed("rx")
  BY <1>0, <1>t DEF Crosses
<1>w. WalkOf("rx")'
  BY <1>a, <1>0, <1>3, <1>m, RxStays DEF Walking
<1>10. ASSUME ~Fresh PROVE Ranges(S + k)'
  <2>c. PICK H \in Nat \ {0}, W \in Nat \ {0} : H = HoldQSz /\ W = WinSz /\ H = 2 * W
    BY ConstFacts
  <2>b. PICK b \in Int, T \in Int : b = base /\ b = base' /\ T = S + k /\ k \in 0 .. H
    BY <1>t, <1>0, <2>c
  <2>s. S <= T /\ T <= S + H /\ (k = 0 => T = S) /\ (k >= 1 => S < T)
    BY <2>b, <2>c
  <2>n. ASSUME NEW x \in Int, x - T < 2 * H, T - x < 2 * H, seq_next' = SeqNo(x)
        PROVE  x = T
    <3>1. SeqNo(T) = SeqNo(x) /\ T - x < SeqMod /\ x - T < SeqMod
      BY <1>2, <2>b, <2>c, <2>n, ConstFacts
    <3> QED BY <3>1, ConstFacts, ModEqual DEF SeqNo
  <2>q. seq_next = SeqNo(S) /\ seq_next' = SeqNo(T)
    BY <1>1, <1>2, <2>b DEF Window
  <2>1. Ranges(S)
    BY <1>1, <1>10
  <2>3. RxRanges(T)'
    <3>1. T = S \/ ~Committed("rx")
      <4>1. ASSUME seq_next' = seq_next PROVE S = T
        <5>1. S - T < 2 * H /\ T - S < 2 * H /\ seq_next' = SeqNo(S)
          BY <2>c, <2>s, <2>q, <4>1
        <5> QED BY <2>n, <5>1
      <4> QED BY <1>m, <4>1
    <3> QED BY <1>0, <1>2, <1>3, <2>1, <2>s, <3>1, RxRangesStay DEF Ranges
  <2>l. ASSUME T <= b + W PROVE TimerRanges(T)'
    <3>1. base' \in Int /\ T <= base' + WinSz
      BY <2>b, <2>c, <2>l
    <3> QED BY <3>1, TimerLow
  <2>d. CASE Deleting
    <3>1. TimerRanges(T)'
      BY <1>7, <2>d DEF TimerRanges
    <3> QED BY <2>b, <2>3, <3>1 DEF Ranges
  <2>e. CASE ~Deleting
    <3>a. \A x \in {"skip", "jump"} : ~AtSite("timer", x)'
      BY <1>3 DEF AtSite
    <3>1. CASE site["timer"] = "skip"
      <4>1. S <= b + W /\ timerwait_seq_num = seq_next /\ k >= 1
        BY <1>a, <1>0, <1>2, <1>4, <2>1, <2>e, <2>b, <2>c, <3>1 DEF Ranges, TimerRanges, TimerAims, AtSite, Ordered
      <4>2. T <= b + W + H + 1
        BY <2>s, <4>1
      <4>3. timerwait_seq_num # seq_next'
        <5>1. ASSUME seq_next' = SeqNo(S) PROVE FALSE
          <6>1. S - T < 2 * H /\ T - S < 2 * H
            BY <2>c, <2>s
          <6>2. S = T
            BY <2>n, <5>1, <6>1
          <6> QED BY <2>s, <4>1, <6>2
        <5> QED BY <2>q, <4>1, <5>1
      <4>4. ASSUME seq_next' = NextSeq(timerwait_seq_num) PROVE T <= b + W + 1
        <5>1. PICK u \in Int : u = S + 1 /\ T - u < 2 * H /\ u - T < 2 * H
          BY <2>c, <2>s
        <5>2. NextSeq(timerwait_seq_num) = SeqNo(u)
          BY <2>q, <4>1, <5>1, SeqDiff DEF NextSeq
        <5>3. T = u
          BY <2>n, <4>4, <5>1, <5>2
        <5> QED BY <4>1, <5>1, <5>3
      <4>5. TimerRanges(T)'
        BY <1>0, <2>b, <2>c, <3>a, <4>2, <4>3, <4>4 DEF TimerRanges, NextSeq
      <4> QED BY <2>3, <2>b, <4>5 DEF Ranges
    <3>2. CASE Ordered(site["timer"]) /\ k # 0
      <4>1. TimerRanges(T)'
        BY <1>2, <2>b, <2>c, <2>l, <3>2
      <4> QED BY <2>3, <2>b, <4>1 DEF Ranges
    <3>3. CASE Ordered(site["timer"]) /\ k = 0
      <4>1. T = S /\ seq_next' = seq_next
        BY <2>s, <2>q, <3>3
      <4>2. Waiting' => Waiting
        BY <1>0, <1>3 DEF Waiting
      <4>3. ASSUME pc'["timer"] = "judge" PROVE AtSite("timer", "after_skip")
        BY <1>0, <1>3, <4>3 DEF AtSite
      <4>4. ~AtSite("timer", "after_skip")'
        BY <1>0, <1>3, <1>4, <3>3 DEF AtSite, Ordered
      <4>5. TimerRanges(T)'
        BY <1>0, <2>1, <2>e, <3>a, <4>1, <4>2, <4>3, <4>4 DEF Ranges, TimerRanges, NextSeq
      <4> QED BY <2>3, <2>b, <4>5 DEF Ranges
    <3>4. CASE site["timer"] = "jump"
      <4>1. /\ S <= b + W + 1 /\ k >= 1
            /\ timerwait_seq_num = seq_next \/ seq_next = NextSeq(timerwait_seq_num)
        BY <1>a, <1>0, <1>2, <1>4, <2>1, <2>e, <2>b, <2>c, <3>4 DEF Ranges, TimerRanges, TimerAims, AtSite, Ordered
      <4>2. T <= b + W + H + 1
        BY <2>s, <4>1
      <4>3. timerwait_seq_num # seq_next'
        <5>1. ASSUME SeqNo(T) = SeqNo(S) PROVE FALSE
          <6>1. S - T < 2 * H /\ T - S < 2 * H /\ seq_next' = SeqNo(S)
            BY <2>c, <2>s, <2>q, <5>1
          <6>2. S = T
            BY <2>n, <6>1
          <6> QED BY <2>s, <4>1, <6>2
        <5>2. ASSUME NextSeq(SeqNo(T)) = SeqNo(S) PROVE FALSE
          <6>1. PICK u \in Int : u = T + 1 /\ S - u < 2 * H + 2 /\ u - S < 2 * H + 2 /\ u # S
            BY <2>c, <2>s
          <6>2. SeqNo(u) = SeqNo(S)
            BY <5>2, <6>1, SeqDiff DEF NextSeq
          <6>3. S - u < SeqMod /\ u - S < SeqMod
            BY <2>c, <6>1, ConstFacts
          <6> QED BY <6>1, <6>2, <6>3, ConstFacts, ModEqual DEF SeqNo
        <5> QED BY <2>q, <4>1, <5>1, <5>2
      <4>4. pc'["timer"] = "after_jump"
        BY <1>3, <3>4 DEF ReturnTo
      <4>5. TimerRanges(T)'
        BY <1>0, <2>b, <2>c, <3>a, <4>2, <4>3, <4>4 DEF TimerRanges, AtSite
      <4> QED BY <2>3, <2>b, <4>5 DEF Ranges
    <3> QED BY <1>0, <1>4, <3>1, <3>2, <3>3, <3>4 DEF TimerSites
  <2> QED BY <2>d, <2>e
<1>11. S + k \in Int
  BY ConstFacts
<1> QED BY <1>2, <1>6, <1>8, <1>9, <1>w, <1>t, <1>10, <1>11 DEF OrderRest, Walking

LEMMA OrderIdle ==
  ASSUME OrderRest, Contexts = {"rx", "timer"},
         UNCHANGED <<aggr, seq_next, sync_next_seq, hold_q, tid_timer, timerwait_seq_num, pc, dequeVars, frame,
                     base, delivered, stored>>
  PROVE  OrderRest'
<1>1. HeldSlots' = HeldSlots /\ UNCHANGED <<site, idx, idx_end>>
  BY DEF HeldSlots, dequeVars
<1>2. Quiet /\ Walking /\ TimerAims /\ DeletesEmpty /\ (Fresh' <=> Fresh)
  BY DEF OrderRest, Fresh
<1>3. Quiet' /\ DeletesEmpty' /\ TimerAims'
  BY <1>1, <1>2 DEF Quiet, DeletesEmpty, Deleting, Receiving, AtSite, TimerAims, NextSeq
<1>4. Walking'
  BY <1>1, <1>2 DEF Walking, WalkOf
<1>5. ASSUME NEW S \in Int, Ranges(S) PROVE Ranges(S)'
  BY <1>1, <1>5 DEF Ranges, RxRanges, TimerRanges, Moving, AtSite, Deleting, Waiting, NextSeq
<1> QED BY <1>2, <1>3, <1>4, <1>5, OrderSame

\* What upset a session stays, until it is deleted.
LEMMA UpsetStays ==
  ASSUME [Next]_vars, ~DeleteTidState, ~upset', upset \in BOOLEAN
  PROVE  ~upset
<1>1. ASSUME NEW n \in Frames, Receive(n) PROVE ~upset
  BY <1>1 DEF Receive, Store, StoreNot
<1>2. ASSUME AddBa \/ EndSession \/ Expire PROVE ~upset
  BY <1>2 DEF AddBa, EndSession, Expire, worldVars, histVars
<1>3. ASSUME NEW c \in Contexts, Step(c) PROVE ~upset
  BY <1>3 DEF Step, DequeRead, DequeWalk, Shifted, Chased, Settle, StartSession, Timeout, Judge, Jumped,
              Rearm, Store, StoreNot, worldVars, histVars
<1>4. ASSUME UNCHANGED vars PROVE ~upset
  BY <1>4 DEF vars, worldVars, histVars
<1> QED BY <1>1, <1>2, <1>3, <1>4 DEF Next

LEMMA OrderStep ==
  ASSUME Regular, OrderInv, [Next]_vars
  PROVE  OrderInv'
<1>0. TypeInv /\ TypeInv'
  BY TypeStep DEF OrderInv
<1> SUFFICES ASSUME ~upset' PROVE OrderRest'
  BY <1>0 DEF OrderInv
<1>d. ASSUME DeleteTidState PROVE OrderRest'
  BY <1>0, <1>d, OrderDelete
<1>n. ASSUME ~DeleteTidState PROVE OrderRest'
  <2>0. OrderRest /\ Contexts = {"rx", "timer"}
    BY <1>0, <1>n, UpsetStays, OrderTypes, TypeFacts DEF OrderInv, TypeInv
  <2>1. ASSUME NEW n \in Frames, Receive(n) PROVE OrderRest'
    BY <1>0, <2>0, <2>1, OrderFirst, OrderReceive
  <2>2. ASSUME AddBa \/ EndSession \/ StartSession PROVE OrderRest'
    BY <1>0, <2>0, <2>2, OrderSession, OrderStart
  <2>3. ASSUME Expire \/ Timeout \/ Judge \/ Jumped PROVE OrderRest'
    BY <1>0, <2>0, <2>3, OrderTimer
  <2>4. ASSUME Settle \/ Rearm PROVE OrderRest'
    BY <1>0, <2>0, <2>4, OrderSettle, OrderRearm
  <2>5. ASSUME Shifted \/ Chased PROVE OrderRest'
    BY <1>0, <2>0, <2>5, OrderShifted, OrderChased
  <2>6. ASSUME NEW c \in Contexts, DequeRead(c) PROVE OrderRest'
    <3>1. CASE aggr
      BY <1>0, <2>0, <2>6, <3>1, OrderRead
    <3>2. CASE ~aggr
      BY <2>0, <2>6, <3>2, OrderIdle DEF DequeRead, timerVars, histVars, dequeVars
    <3> QED BY <3>1, <3>2
  <2>7. ASSUME NEW c \in Contexts, DequeWalk(c) PROVE OrderRest'
    <3>1. CASE aggr
      BY <1>0, <2>0, <2>7, <3>1, OrderWalkRx, OrderWalkTimer
    <3>2. CASE ~aggr
      BY <2>0, <2>7, <3>2, OrderIdle DEF DequeWalk, timerVars
    <3> QED BY <3>1, <3>2
  <2>8. ASSUME UNCHANGED vars PROVE OrderRest'
    BY <2>0, <2>8, OrderIdle DEF vars, timerVars, worldVars, histVars
  <2> QED BY <1>n, <2>1, <2>2, <2>3, <2>4, <2>5, <2>6, <2>7, <2>8 DEF Next, Step
<1> QED BY <1>d, <1>n

LEMMA OrderInvHolds ==
  ASSUME Regular
  PROVE  Spec => []OrderInv
<1>1. OrderInv /\ [Next]_vars => OrderInv'
  BY OrderStep
<1> QED BY <1>1, OrderInit, PTL DEF Spec

\* Within a session frames reach the stack in the order the peer sent them, each
\* once: for every window size from AGGR_WIN_SZ_MIN, sequence space, run of
\* frames, loss, duplication, reordering, timeout and interleaving of the timer
\* with the worker, with the drop of old frames or without it, until the session
\* is upset.
THEOREM InOrderHolds ==
  ASSUME Regular
  PROVE  Spec => []InOrder
<1>1. OrderInv => InOrder
  BY DEF OrderInv, OrderRest, Increasing, InOrder
<1> QED BY <1>1, OrderInvHolds, PTL

\* Until then every held frame lies in seq_next .. seq_next + hold_q_sz - 1 on the
\* circle of sequence numbers, in its own slot: what the comment "this is taken
\* care of above" needs, and what the first old frame that is stored ends.
THEOREM WindowKeptHolds ==
  ASSUME Regular
  PROVE  Spec => []WindowKept
<1>1. OrderInv => WindowKept
  <2> SUFFICES ASSUME OrderInv, ~upset, NEW i \in HeldSlots
               PROVE  WinIdx(SeqNo(hold_q[i])) = i /\ Fits(seq_next, hold_q[i])
    BY DEF WindowKept, HeldInWindow
  <2>1. PICK S \in Int : Window(S)
    BY DEF OrderInv, OrderRest
  <2>2. PICK n \in Int : n = hold_q[i]
    BY HeldType DEF OrderInv, TypeInv
  <2>3. WinIdx(n) = i /\ S <= n /\ n < S + HoldQSz /\ seq_next = SeqNo(S)
    BY <2>1, <2>2 DEF Window, Placed
  <2>4. PICK d \in 0 .. SeqMod - 1 : d = n - S /\ d < HoldQSz
    BY <2>3, ConstFacts
  <2>5. (SeqNo(n) - SeqNo(S)) % SeqMod = d % SeqMod
    BY <2>4, SeqDiff
  <2>6. d % SeqMod = d
    BY <2>4, ConstFacts, ModSmall
  <2>7. WinIdx(SeqNo(n)) = WinIdx(n)
    BY SeqNoType
  <2> QED BY <2>2, <2>3, <2>4, <2>5, <2>6, <2>7 DEF Fits
<1> QED BY <1>1, OrderInvHolds, PTL

\* Until then a frame accepted into the hold queue is delivered: never
\* overwritten, passed over by the window, or freed with the array.
THEOREM NoFrameLostHolds ==
  ASSUME Regular
  PROVE  Spec => []NoFrameLost
<1>1. OrderInv => NoFrameLost
  BY DEF OrderInv, OrderRest, Accounted, DeletesEmpty, Deleting, NoFrameLost
<1> QED BY <1>1, OrderInvHolds, PTL
=============================================================================
