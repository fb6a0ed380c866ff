----------------------------- MODULE Gpt_proofs -----------------------------
(***************************************************************************)
(* Theorems about the raw image drive and the partition table on it, for   *)
(* images, sectors, transfers and tables of every size.                    *)
(***************************************************************************)
EXTENDS Gpt, SequenceTheorems, WellFoundedInduction, TLAPS

-----------------------------------------------------------------------------
\* Numbers.

Less == {p \in Nat \X Nat : p[1] < p[2]}

\* A set of numbers has a smallest one.
LEMMA LeastNumber ==
  ASSUME NEW T \in SUBSET Nat, T # {}
  PROVE  \E x \in T : \A y \in T : x <= y
<1>1. OpToRel(<, Nat) = Less
  BY DEF OpToRel, Less
<1>2. IsWellFoundedOn(Less, Nat)
  BY <1>1, NatLessThanWellFounded
<1>3. PICK x \in T : \A y \in T : ~ (<<y, x>> \in Less)
  BY <1>2, WFMin
<1>4. \A y \in T : ~(y < x)
  BY <1>3 DEF Less
<1> QED BY <1>3, <1>4

\* Induction up to n, over a set instead of a predicate.
LEMMA BoundedInduction ==
  ASSUME NEW n \in Nat, NEW T, 0 \in T,
         \A k \in 0 .. n - 1 : k \in T => k + 1 \in T
  PROVE  \A k \in 0 .. n : k \in T
<1> DEFINE F == {k \in 0 .. n : k \notin T}
<1> SUFFICES ASSUME F # {} PROVE FALSE
  OBVIOUS
<1>1. F \in SUBSET Nat
  OBVIOUS
<1>2. PICK x \in F : \A y \in F : x <= y
  BY <1>1, LeastNumber
<1>3. x # 0 /\ x - 1 \in 0 .. n - 1 /\ x - 1 \notin F
  BY <1>2
<1>4. x - 1 \in T /\ (x - 1) + 1 = x
  BY <1>3
<1> QED BY <1>2, <1>3, <1>4

\* The first of n numbers that is not in a set, n if all are.
LEMMA FirstOutside ==
  ASSUME NEW n \in Nat, NEW T
  PROVE  \E m \in 0 .. n : (\A k \in 0 .. m - 1 : k \in T) /\ (m < n => m \notin T)
<1> DEFINE F == {k \in 0 .. n : k = n \/ k \notin T}
<1>1. F \in SUBSET Nat /\ n \in F
  OBVIOUS
<1>2. PICK m \in F : \A k \in F : m <= k
  BY <1>1, LeastNumber
<1>3. \A k \in 0 .. m - 1 : k \in T
  BY <1>2
<1> QED BY <1>2, <1>3

\* Sectors are apart by their distance.
LEMMA Apart ==
  ASSUME NEW d \in Nat, NEW a \in Nat, NEW b \in Nat, a < b
  PROVE  a * d + d <= b * d /\ a * d \in Nat /\ b * d \in Nat
<1>1. a * d \in Nat /\ b * d \in Nat
  BY SMT
<1>2. (a + 1) * d = a * d + d
  BY SMT
<1>3. (a + 1) * d <= b * d
  <2>1. b - (a + 1) \in Nat
    BY SMT
  <2>2. (b - (a + 1)) * d \in Nat
    BY <2>1, SMT
  <2>3. (b - (a + 1)) * d = b * d - (a + 1) * d
    BY SMT
  <2> QED BY <1>1, <1>2, <2>2, <2>3, SMT
<1> QED BY <1>1, <1>2, <1>3, SMT
-----------------------------------------------------------------------------
\* The operators of the drive.

\* A function on 1 .. n is a sequence.
LEMMA FunctionIsSeq ==
  ASSUME NEW S, NEW n \in Nat, NEW g \in [1 .. n -> S]
  PROVE  g \in Seq(S) /\ Len(g) = n
<1>1. g \in Seq(S)
  BY SeqDef
<1>2. Len(g) \in Nat /\ DOMAIN g = 1 .. Len(g) /\ DOMAIN g = 1 .. n
  BY <1>1, LenProperties
<1>3. Len(g) = n
  BY <1>2, SMT
<1> QED BY <1>1, <1>3

\* A write into the file: it grows to hold the data, and nothing else changes.
LEMMA PatchedProperties ==
  ASSUME NEW f \in Seq(Unit), NEW at \in Nat, NEW data \in Seq(Unit)
  PROVE  /\ Patched(f, at, data) \in Seq(Unit)
         /\ Len(Patched(f, at, data)) = Larger(Len(f), at + Len(data))
         /\ Len(Patched(f, at, data)) \in Nat /\ Len(Patched(f, at, data)) >= Len(f)
         /\ DOMAIN Patched(f, at, data) = 1 .. Len(Patched(f, at, data))
         /\ \A p \in 1 .. Len(Patched(f, at, data)) :
              Patched(f, at, data)[p] = IF p \in at + 1 .. at + Len(data) THEN data[p - at]
                                        ELSE IF p <= Len(f) THEN f[p] ELSE Zero
<1> DEFINE g == Patched(f, at, data)
           n == Larger(Len(f), at + Len(data))
<1>1. Len(f) \in Nat /\ Len(data) \in Nat /\ n \in Nat /\ n >= Len(f)
  BY LenProperties DEF Larger
<1>2. ASSUME NEW p \in 1 .. n
      PROVE (IF p \in at + 1 .. at + Len(data) THEN data[p - at]
             ELSE IF p <= Len(f) THEN f[p] ELSE Zero) \in Unit
  <2>1. CASE p \in at + 1 .. at + Len(data)
    <3>1. p - at \in 1 .. Len(data)
      BY <1>1, <2>1
    <3> QED BY <2>1, <3>1, ElementOfSeq
  <2>2. CASE p \notin at + 1 .. at + Len(data) /\ p <= Len(f)
    <3>1. p \in 1 .. Len(f)
      BY <1>1, <2>2
    <3> QED BY <2>2, <3>1, ElementOfSeq
  <2>3. CASE p \notin at + 1 .. at + Len(data) /\ ~(p <= Len(f))
    BY <2>3, RawImageAssumption
  <2> QED BY <2>1, <2>2, <2>3
<1>3. g \in [1 .. n -> Unit]
  BY <1>2 DEF Patched
<1>4. g \in Seq(Unit) /\ Len(g) = n
  BY <1>1, <1>3, FunctionIsSeq
<1>5. \A p \in 1 .. n : g[p] = IF p \in at + 1 .. at + Len(data) THEN data[p - at]
                               ELSE IF p <= Len(f) THEN f[p] ELSE Zero
  BY DEF Patched
<1> HIDE DEF g, n
<1> QED BY <1>1, <1>3, <1>4, <1>5 DEF g, n

\* One sector's part of a caller's buffer.
LEMMA PartProperties ==
  ASSUME NEW buf \in Buffers, NEW size \in SectorSizes, NEW k \in 0 .. MaxCount - 1
  PROVE  /\ Part(buf, size, k) \in Seq(Unit) /\ Len(Part(buf, size, k)) = size
         /\ size \in Nat \ {0} /\ k * size \in Nat
         /\ \A o \in 0 .. size - 1 : Part(buf, size, k)[o + 1] = buf[k * size + o + 1]
<1>1. size \in Nat \ {0} /\ MaxCount \in Nat /\ buf \in Seq(Unit) /\ k \in Nat
  BY RawImageAssumption
<1>2. Len(buf) >= MaxCount * size /\ Len(buf) \in Nat
  BY <1>1, RawImageAssumption, LenProperties
<1>3. k * size + size <= MaxCount * size /\ k * size \in Nat /\ MaxCount * size \in Nat
  BY <1>1, Apart
<1>4. (k + 1) * size = k * size + size
  BY <1>1, SMT
<1> DEFINE m == k * size + 1
           n == (k + 1) * size
<1>5. m \in Int /\ n \in Int /\ m <= n /\ n - m + 1 = size
  BY <1>1, <1>3, <1>4
<1>6. \A i \in m .. n : buf[i] \in Unit
  <2> TAKE i \in m .. n
  <2>1. i \in 1 .. Len(buf)
    <3>1. m >= 1 /\ n <= Len(buf)
      BY <1>1, <1>2, <1>3, <1>4, SMT
    <3> HIDE DEF m, n
    <3> QED BY <1>2, <1>5, <3>1
  <2> QED BY <1>1, <2>1, ElementOfSeq
<1>7. /\ SubSeq(buf, m, n) \in Seq(Unit) /\ Len(SubSeq(buf, m, n)) = size
      /\ \A i \in 1 .. size : SubSeq(buf, m, n)[i] = buf[m + i - 1]
  <2> HIDE DEF m, n
  <2> QED BY <1>5, <1>6, SubSeqProperties
<1>8. ASSUME NEW o \in 0 .. size - 1
      PROVE SubSeq(buf, m, n)[o + 1] = buf[k * size + o + 1]
  <2>1. o + 1 \in 1 .. size /\ m + (o + 1) - 1 = k * size + o + 1
    BY <1>1, <1>3
  <2> QED BY <1>7, <2>1
<1> QED BY <1>1, <1>3, <1>7, <1>8 DEF Part
-----------------------------------------------------------------------------
\* The loop of write_sector.

IsStep(step, n, S) == \A k \in 1 .. n, t \in S : step[<<k, t>>] \in S

\* A step repeated n times from a: the values it goes through.
LEMMA Repeated ==
  ASSUME NEW S, NEW a \in S, NEW n \in Nat, NEW step, IsStep(step, n, S)
  PROVE  \E g \in [0 .. n -> S] : /\ g[0] = a
                                  /\ \A k \in 1 .. n : g[k] = step[<<k, g[k - 1]>>]
<1> DEFINE Goes(m, g) == g[0] = a /\ \A k \in 1 .. m : g[k] = step[<<k, g[k - 1]>>]
           T == {m \in 0 .. n : \E g \in [0 .. m -> S] : Goes(m, g)}
<1>1. 0 \in T
  <2> DEFINE g == [k \in 0 .. 0 |-> a]
  <2>1. g \in [0 .. 0 -> S] /\ g[0] = a
    OBVIOUS
  <2>2. Goes(0, g)
    BY <2>1
  <2> HIDE DEF g
  <2>3. 0 \in 0 .. n
    OBVIOUS
  <2> QED BY <2>1, <2>2, <2>3
<1>2. ASSUME NEW m \in 0 .. n - 1, m \in T PROVE m + 1 \in T
  <2>1. PICK g \in [0 .. m -> S] : Goes(m, g)
    BY <1>2
  <2> DEFINE h == [k \in 0 .. m + 1 |-> IF k <= m THEN g[k] ELSE step[<<m + 1, g[m]>>]]
  <2>2. step[<<m + 1, g[m]>>] \in S
    <3>1. m + 1 \in 1 .. n /\ g[m] \in S
      OBVIOUS
    <3> QED BY <3>1 DEF IsStep
  <2>3. h \in [0 .. m + 1 -> S]
    <3>1. ASSUME NEW k \in 0 .. m + 1 PROVE (IF k <= m THEN g[k] ELSE step[<<m + 1, g[m]>>]) \in S
      BY <2>2
    <3> QED BY <3>1
  <2>4. h[0] = a
    BY <2>1
  <2>5. ASSUME NEW k \in 1 .. m + 1 PROVE h[k] = step[<<k, h[k - 1]>>]
    <3>1. CASE k <= m
      <4>1. k \in 1 .. m /\ k - 1 \in 0 .. m + 1 /\ k - 1 <= m
        BY <3>1
      <4>2. h[k] = g[k] /\ h[k - 1] = g[k - 1]
        BY <4>1
      <4> QED BY <2>1, <4>1, <4>2
    <3>2. CASE k = m + 1
      <4>1. h[k] = step[<<m + 1, g[m]>>] /\ h[k - 1] = g[m]
        BY <3>2
      <4> QED BY <3>2, <4>1
    <3> QED BY <3>1, <3>2
  <2> HIDE DEF h
  <2>6. m + 1 \in 0 .. n
    OBVIOUS
  <2>7. Goes(m + 1, h)
    BY <2>4, <2>5
  <2> QED BY <2>3, <2>6, <2>7
<1> HIDE DEF T
<1>3. \A m \in 0 .. n : m \in T
  BY <1>1, <1>2, BoundedInduction
<1>4. n \in T
  BY <1>3
<1> QED BY <1>4 DEF T

\* A stream is always at an offset: where a seek put it, or where the sector it
\* lost was to go.
LEMMA LandingType ==
  ASSUME NEW F, 0 \in F => unwritten \in Chunk, NEW lba \in Nat, NEW k \in Nat, drv \in DriveInfo
  PROVE  Landing(F, lba, k) \in Nat
<1> DEFINE sought == (0 .. k) \ F
           last == CHOOSE j \in sought : \A i \in sought : i <= j
<1>1. CASE sought = {}
  <2>1. 0 \in F
    BY <1>1
  <2>2. unwritten.at \in Nat
    BY <2>1 DEF Chunk
  <2> QED BY <1>1, <2>2 DEF Landing
<1>2. CASE sought # {}
  <2> DEFINE back == {m \in 0 .. k : k - m \in sought}
  <2>1. back \in SUBSET Nat /\ back # {}
    <3>1. PICK j \in sought : TRUE
      BY <1>2
    <3>2. k - j \in 0 .. k /\ k - (k - j) = j
      BY <3>1
    <3> QED BY <3>1, <3>2
  <2>2. PICK m \in back : \A y \in back : m <= y
    BY <2>1, LeastNumber
  <2>3. k - m \in sought /\ \A i \in sought : i <= k - m
    <3>1. ASSUME NEW i \in sought PROVE i <= k - m
      <4>1. k - i \in 0 .. k /\ k - (k - i) = i
        OBVIOUS
      <4>2. m <= k - i
        BY <2>2, <4>1
      <4> QED BY <2>2, <4>2
    <3> QED BY <2>2, <3>1
  <2>4. last \in sought
    <3> HIDE DEF sought
    <3>1. \E j \in sought : \A i \in sought : i <= j
      BY <2>3
    <3> QED BY <3>1, Zenon
  <2>5. last \in Nat
    BY <2>4
  <2>6. Landing(F, lba, k) = Offset(lba + last)
    BY <1>2 DEF Landing
  <2> HIDE DEF last
  <2>7. lba + last \in Nat /\ drv.sector_size \in Nat
    BY <2>5 DEF DriveInfo
  <2>8. Offset(lba + last) \in Nat
    BY <2>7, SMT DEF Offset
  <2> QED BY <2>6, <2>8
<1> QED BY <1>1, <1>2

\* When the seek of a turn works the stream is at the sector of the turn.
LEMMA LandingSought ==
  ASSUME NEW F, NEW lba, NEW k \in Nat, k \notin F
  PROVE  Landing(F, lba, k) = Offset(lba + k)
<1> DEFINE sought == (0 .. k) \ F
           last == CHOOSE j \in sought : \A i \in sought : i <= j
<1>1. k \in sought /\ \A i \in sought : i <= k
  OBVIOUS
<1>2. last \in sought /\ \A i \in sought : i <= last
  <2> HIDE DEF sought
  <2> QED BY <1>1, Zenon
<1>3. last = k
  <2>1. last \in Nat /\ last <= k /\ k <= last
    BY <1>1, <1>2
  <2> HIDE DEF last
  <2> QED BY <2>1
<1>4. Landing(F, lba, k) = Offset(lba + last)
  BY <1>1 DEF Landing
<1> QED BY <1>3, <1>4

\* The file t after turn k: fseek, which may lose the sector of the turn before,
\* or write it.
Turned(t, F, lba, size, k, buf) ==
  IF k \in F THEN t ELSE Patched(t, Landing(F, lba, k - 1), Part(buf, size, k - 1))

\* The turns of the loop: g is the file after each of them.
AreTurns(g, f, F, lba, size, n, buf) ==
  /\ g \in [0 .. n -> Seq(Unit)]
  /\ g[0] = f /\ Scattered(f, F, lba, size, n, buf) = g[n]
  /\ \A k \in 1 .. n : g[k] = Turned(g[k - 1], F, lba, size, k, buf)

\* Every write has a sequence of files, one to a turn.
LEMMA ScatteredTurns ==
  ASSUME NEW f \in Seq(Unit), NEW F, 0 \in F => unwritten \in Chunk,
         NEW lba \in Nat, NEW size \in SectorSizes, drv \in DriveInfo,
         NEW n \in 0 .. MaxCount, NEW buf \in Buffers
  PROVE  \E g : AreTurns(g, f, F, lba, size, n, buf)
<1> DEFINE Turn(t, k) == Turned(t, F, lba, size, k, buf)
<1>0. n \in Nat /\ MaxCount \in Nat
  BY RawImageAssumption
<1>1. ASSUME NEW k \in 1 .. n, NEW t \in Seq(Unit) PROVE Turn(t, k) \in Seq(Unit)
  <2>1. k - 1 \in 0 .. MaxCount - 1 /\ k - 1 \in Nat
    BY <1>0
  <2>2. Landing(F, lba, k - 1) \in Nat
    BY <2>1, LandingType
  <2>3. Part(buf, size, k - 1) \in Seq(Unit)
    BY <2>1, PartProperties
  <2> QED BY <2>2, <2>3, PatchedProperties DEF Turned
<1>2. \E step : \A k \in 1 .. n : \A t \in Seq(Unit) : step[<<k, t>>] = Turn(t, k)
  <2> DEFINE step == [p \in (1 .. n) \X Seq(Unit) |-> Turn(p[2], p[1])]
  <2>1. \A k \in 1 .. n : \A t \in Seq(Unit) : step[<<k, t>>] = Turn(t, k)
    OBVIOUS
  <2> QED BY <2>1
<1>3. PICK step : \A k \in 1 .. n : \A t \in Seq(Unit) : step[<<k, t>>] = Turn(t, k)
  BY <1>2
<1>4. PICK g \in [0 .. n -> Seq(Unit)] :
        g[0] = f /\ \A k \in 1 .. n : g[k] = step[<<k, g[k - 1]>>]
  <2> DEFINE S == Seq(Unit)
  <2>1. f \in S /\ IsStep(step, n, S)
    BY <1>1, <1>3 DEF IsStep
  <2> HIDE DEF Turn, S
  <2>2. \E g \in [0 .. n -> S] : g[0] = f /\ \A k \in 1 .. n : g[k] = step[<<k, g[k - 1]>>]
    BY <1>0, <2>1, Repeated
  <2> QED BY <2>2 DEF S
<1>5. \A k \in 1 .. n : g[k] = Turn(g[k - 1], k)
  <2> TAKE k \in 1 .. n
  <2>1. g[k - 1] \in Seq(Unit)
    BY <1>0
  <2> QED BY <1>3, <1>4, <2>1
<1> DEFINE Solves(t) == t = [k \in 0 .. n |-> IF k = 0 THEN f ELSE Turn(t[k - 1], k)]
           turn == CHOOSE t : Solves(t)
<1> HIDE DEF Turn
<1>6. Solves(g)
  <2>1. \A k \in 0 .. n : g[k] = IF k = 0 THEN f ELSE Turn(g[k - 1], k)
    BY <1>0, <1>4, <1>5
  <2> QED BY <2>1
<1>7. Solves(turn)
  BY <1>6, Zenon
<1>8. turn[0] = g[0]
  <2>1. 0 \in 0 .. n
    BY <1>0
  <2> QED BY <1>4, <1>7, <2>1
<1> HIDE DEF turn
<1> DEFINE T == {k \in 0 .. n : turn[k] = g[k]}
<1>9. ASSUME NEW k \in 0 .. n - 1, k \in T PROVE k + 1 \in T
  <2>1. k + 1 \in 0 .. n /\ k + 1 \in 1 .. n /\ k + 1 # 0 /\ (k + 1) - 1 = k
    BY <1>0
  <2>2. turn[k + 1] = Turn(turn[k], k + 1)
    BY <1>7, <2>1
  <2>3. g[k + 1] = Turn(g[k], k + 1)
    BY <1>5, <2>1
  <2>4. turn[k] = g[k]
    BY <1>9
  <2>5. turn[k + 1] = g[k + 1]
    BY <2>2, <2>3, <2>4
  <2> QED BY <2>1, <2>5
<1>10. \A k \in 0 .. n : turn[k] = g[k]
  <2>1. 0 \in T
    BY <1>0, <1>8
  <2> HIDE DEF T
  <2>2. \A k \in 0 .. n : k \in T
    BY <1>0, <1>9, <2>1, BoundedInduction
  <2> QED BY <2>2 DEF T
<1>11. Scattered(f, F, lba, size, n, buf) = turn[n]
  BY DEF Scattered, turn, Turn, Turned
<1>12. n \in 0 .. n
  BY <1>0
<1> QED BY <1>4, <1>5, <1>10, <1>11, <1>12 DEF Turn, AreTurns
\* The loop without its last turn, when every seek works.
LEMMA ScatteredLast ==
  ASSUME NEW f \in Seq(Unit), NEW lba \in Nat, NEW size \in SectorSizes, drv \in DriveInfo,
         NEW n \in 1 .. MaxCount, NEW buf \in Buffers
  PROVE  Scattered(f, {}, lba, size, n, buf) =
           Patched(Scattered(f, {}, lba, size, n - 1, buf),
                   Offset(lba + n - 1), Part(buf, size, n - 1))
<1>0. n \in Nat /\ MaxCount \in Nat /\ n \in 0 .. MaxCount /\ n - 1 \in 0 .. MaxCount
  BY RawImageAssumption
<1> DEFINE Turn(t, k) == Turned(t, {}, lba, size, k, buf)
<1>1. PICK g : AreTurns(g, f, {}, lba, size, n, buf)
  BY <1>0, ScatteredTurns
<1>2. PICK h : AreTurns(h, f, {}, lba, size, n - 1, buf)
  BY <1>0, ScatteredTurns
<1> DEFINE T == {k \in 0 .. n - 1 : g[k] = h[k]}
<1>3. 0 \in T
  BY <1>0, <1>1, <1>2 DEF AreTurns
<1>4. ASSUME NEW k \in 0 .. (n - 1) - 1, k \in T PROVE k + 1 \in T
  <2>1. k + 1 \in 1 .. n - 1 /\ k + 1 \in 1 .. n /\ k + 1 \in 0 .. n - 1 /\ (k + 1) - 1 = k
    BY <1>0
  <2>2. g[k + 1] = Turn(g[k], k + 1) /\ h[k + 1] = Turn(h[k], k + 1)
    BY <1>1, <1>2, <2>1 DEF AreTurns
  <2>3. g[k] = h[k]
    BY <1>4
  <2> HIDE DEF Turn
  <2>4. g[k + 1] = h[k + 1]
    BY <2>2, <2>3
  <2> QED BY <2>1, <2>4
<1> HIDE DEF T
<1>5. n - 1 \in T
  <2>1. n - 1 \in Nat /\ n - 1 \in 0 .. n - 1
    BY <1>0
  <2> QED BY <1>3, <1>4, <2>1, BoundedInduction
<1>6. g[n - 1] = h[n - 1]
  BY <1>5 DEF T
<1>7. n \in 1 .. n
  BY <1>0
<1>8. g[n] = Turned(h[n - 1], {}, lba, size, n, buf)
  BY <1>1, <1>6, <1>7 DEF AreTurns
<1>9. Landing({}, lba, n - 1) = Offset(lba + n - 1)
  <2>1. n - 1 \in Nat /\ lba + (n - 1) = lba + n - 1
    BY <1>0
  <2> QED BY <2>1, LandingSought
<1>10. g[n] = Patched(h[n - 1], Offset(lba + n - 1), Part(buf, size, n - 1))
  BY <1>8, <1>9 DEF Turned
<1> QED BY <1>1, <1>2, <1>10 DEF AreTurns

\* The file stays a sequence of units.
LEMMA ScatteredSeq ==
  ASSUME NEW f \in Seq(Unit), NEW lba \in Nat, NEW size \in SectorSizes, drv \in DriveInfo,
         NEW n \in 0 .. MaxCount, NEW buf \in Buffers
  PROVE  /\ Scattered(f, {}, lba, size, n, buf) \in Seq(Unit)
         /\ n = 0 => Scattered(f, {}, lba, size, n, buf) = f
<1>1. PICK g : AreTurns(g, f, {}, lba, size, n, buf)
  BY ScatteredTurns
<1>2. n \in 0 .. n
  BY RawImageAssumption
<1> QED BY <1>1, <1>2 DEF AreTurns

\* A file made of the old one, of what was kept and of the caller's buffer.
Made(f, buf) == f \in Seq(Unit) /\ Device!Patchwork(f, buf)

\* One more part of the buffer, wherever it goes.
LEMMA PatchedMade ==
  ASSUME NEW buf \in Buffers, NEW size \in SectorSizes, NEW k \in 0 .. MaxCount - 1,
         NEW f, Made(f, buf), NEW at \in Nat, file \in Seq(Unit)
  PROVE  Made(Patched(f, at, Part(buf, size, k)), buf)
<1> DEFINE data == Part(buf, size, k)
           g == Patched(f, at, data)
<1>1. /\ data \in Seq(Unit) /\ Len(data) = size /\ size \in Nat \ {0} /\ k * size \in Nat
      /\ \A o \in 0 .. size - 1 : data[o + 1] = buf[k * size + o + 1]
  BY PartProperties
<1>2. f \in Seq(Unit)
  BY DEF Made
<1> HIDE DEF data
<1>3. /\ g \in Seq(Unit) /\ Len(g) \in Nat /\ Len(g) >= Len(f) /\ DOMAIN g = 1 .. Len(g)
      /\ \A p \in 1 .. Len(g) : g[p] = IF p \in at + 1 .. at + Len(data) THEN data[p - at]
                                       ELSE IF p <= Len(f) THEN f[p] ELSE Zero
  <2>1. data \in Seq(Unit) /\ f \in Seq(Unit)
    BY <1>1, <1>2
  <2>2. /\ Patched(f, at, data) \in Seq(Unit)
        /\ Len(Patched(f, at, data)) = Larger(Len(f), at + Len(data))
        /\ Len(Patched(f, at, data)) \in Nat /\ Len(Patched(f, at, data)) >= Len(f)
        /\ DOMAIN Patched(f, at, data) = 1 .. Len(Patched(f, at, data))
        /\ \A p \in 1 .. Len(Patched(f, at, data)) :
             Patched(f, at, data)[p] = IF p \in at + 1 .. at + Len(data) THEN data[p - at]
                                       ELSE IF p <= Len(f) THEN f[p] ELSE Zero
    BY <2>1, PatchedProperties
  <2> QED BY <2>2
<1>4. /\ Len(f) \in Nat /\ DOMAIN f = 1 .. Len(f)
      /\ Len(file) \in Nat /\ DOMAIN file = 1 .. Len(file) /\ Len(f) >= Len(file)
  BY <1>2, LenProperties DEF Made, Device!Patchwork
<1>5. \A o \in 0 .. size - 1 : k * size + o + 1 \in DOMAIN buf
  <2>1. /\ MaxCount \in Nat /\ buf \in Seq(Unit) /\ Len(buf) >= MaxCount * size
        /\ Len(buf) \in Nat /\ DOMAIN buf = 1 .. Len(buf)
    BY RawImageAssumption, LenProperties
  <2>2. k * size + size <= MaxCount * size /\ MaxCount * size \in Nat
    BY <1>1, <2>1, Apart
  <2> QED BY <1>1, <2>1, <2>2
<1> HIDE DEF g
<1>6. ASSUME NEW p \in DOMAIN g
      PROVE  \/ p \in DOMAIN Contents /\ g[p] = Contents[p]
             \/ p \in DOMAIN file /\ g[p] = file[p]
             \/ p \notin DOMAIN file /\ g[p] = Zero
             \/ \E i \in DOMAIN buf : g[p] = buf[i]
  <2>1. p \in 1 .. Len(g)
    BY <1>3
  <2>2. CASE p \in at + 1 .. at + Len(data)
    <3> DEFINE o == p - at - 1
    <3>1. o \in 0 .. size - 1 /\ o + 1 = p - at
      BY <1>1, <2>2
    <3>2. g[p] = data[p - at]
      BY <1>3, <2>1, <2>2
    <3> HIDE DEF o
    <3>3. g[p] = buf[k * size + o + 1] /\ k * size + o + 1 \in DOMAIN buf
      BY <1>1, <1>5, <3>1, <3>2
    <3> QED BY <3>3
  <2>3. CASE p \notin at + 1 .. at + Len(data) /\ p <= Len(f)
    <3>1. p \in DOMAIN f /\ g[p] = f[p]
      BY <1>3, <1>4, <2>1, <2>3
    <3> QED BY <3>1 DEF Made, Device!Patchwork
  <2>4. CASE p \notin at + 1 .. at + Len(data) /\ ~(p <= Len(f))
    <3>1. g[p] = Zero /\ p \notin DOMAIN file
      BY <1>3, <1>4, <2>1, <2>4
    <3> QED BY <3>1
  <2> QED BY <2>2, <2>3, <2>4
<1>7. Len(g) >= Len(file)
  BY <1>3, <1>4
<1> QED BY <1>3, <1>6, <1>7 DEF Made, Device!Patchwork, g, data

\* So is the file after any number of turns, whichever seeks fail.
LEMMA ScatteredMade ==
  ASSUME NEW buf \in Buffers, NEW size \in SectorSizes, NEW F, 0 \in F => unwritten \in Chunk,
         NEW f, Made(f, buf), NEW lba \in Nat, drv \in DriveInfo, file \in Seq(Unit),
         NEW n \in 0 .. MaxCount
  PROVE  Made(Scattered(f, F, lba, size, n, buf), buf)
<1>0. n \in Nat /\ MaxCount \in Nat /\ f \in Seq(Unit)
  BY RawImageAssumption DEF Made
<1>1. PICK g : AreTurns(g, f, F, lba, size, n, buf)
  BY <1>0, ScatteredTurns
<1> DEFINE T == {k \in 0 .. n : Made(g[k], buf)}
<1>2. 0 \in T
  BY <1>0, <1>1 DEF AreTurns
<1>3. ASSUME NEW k \in 0 .. n - 1, k \in T PROVE k + 1 \in T
  <2>1. k + 1 \in 1 .. n /\ k + 1 \in 0 .. n /\ (k + 1) - 1 = k /\ k \in 0 .. MaxCount - 1
        /\ k \in Nat
    BY <1>0
  <2>2. g[k + 1] = Turned(g[k], F, lba, size, k + 1, buf)
    BY <1>1, <2>1 DEF AreTurns
  <2>3. Landing(F, lba, k) \in Nat
    BY <2>1, LandingType
  <2>4. Made(g[k], buf)
    BY <1>3
  <2>5. Made(Patched(g[k], Landing(F, lba, k), Part(buf, size, k)), buf)
    BY <2>1, <2>3, <2>4, PatchedMade
  <2>6. g[k + 1] = g[k] \/ g[k + 1] = Patched(g[k], Landing(F, lba, k), Part(buf, size, k))
    BY <2>1, <2>2 DEF Turned
  <2>7. Made(g[k + 1], buf)
    BY <2>4, <2>5, <2>6
  <2> QED BY <2>1, <2>7
<1> HIDE DEF T
<1>4. n \in T
  <2>1. n \in 0 .. n
    BY <1>0
  <2> QED BY <1>0, <1>2, <1>3, <2>1, BoundedInduction
<1>5. Made(g[n], buf)
  BY <1>4 DEF T
<1> QED BY <1>1, <1>5 DEF AreTurns

\* One more sector of the buffer in its place: SectorDevice's Written, step by step.
LEMMA WrittenFurther ==
  ASSUME NEW f \in Seq(Unit), NEW g \in Seq(Unit), NEW lba \in Nat, NEW size \in SectorSizes,
         drv \in DriveInfo, drv # NoDrive, size <= drv.sector_size,
         NEW n \in 0 .. MaxCount - 1, NEW buf \in Buffers,
         Device!Written(f, g, lba, size, n, buf)
  PROVE  Device!Written(f, Patched(g, Offset(lba + n), Part(buf, size, n)), lba, size, n + 1, buf)
<1> DEFINE d == drv.sector_size
           at == Offset(lba + n)
           data == Part(buf, size, n)
           h == Patched(g, at, data)
           Place(k, o) == Offset(lba + k) + o + 1
<1>1. size \in Nat \ {0} /\ n \in Nat /\ d \in Nat /\ MaxCount \in Nat /\ size <= d
  BY RawImageAssumption DEF DriveInfo
<1>2. \A k, o : Device!Place(lba, k, o) = Place(k, o)
  BY DEF Device!Place, Offset
<1>3. \A k \in 0 .. n : Offset(lba + k) \in Nat
  <2> TAKE k \in 0 .. n
  <2>1. lba + k \in Nat
    BY <1>1
  <2> QED BY <1>1, <2>1, SMT DEF Offset
<1>4. \A k \in 0 .. n - 1 : Offset(lba + k) + d <= at
  <2> TAKE k \in 0 .. n - 1
  <2>1. lba + k \in Nat /\ lba + n \in Nat /\ lba + k < lba + n
    BY <1>1
  <2>2. (lba + k) * d + d <= (lba + n) * d
    BY <1>1, <2>1, Apart
  <2> QED BY <2>2 DEF Offset
<1>5. n \in 0 .. MaxCount - 1 /\ n \in 0 .. n /\ at \in Nat
  BY <1>1, <1>3
<1>6. /\ data \in Seq(Unit) /\ Len(data) = size
      /\ \A o \in 0 .. size - 1 : data[o + 1] = buf[n * size + o + 1]
  BY PartProperties
<1>7. /\ Len(h) = Larger(Len(g), at + size) /\ Len(g) \in Nat /\ Len(f) \in Nat
      /\ DOMAIN h = 1 .. Len(h) /\ DOMAIN g = 1 .. Len(g)
      /\ \A p \in 1 .. Len(h) : h[p] = IF p \in at + 1 .. at + size THEN data[p - at]
                                       ELSE IF p <= Len(g) THEN g[p] ELSE Zero
  <2> HIDE DEF at, data
  <2>1. /\ Len(h) = Larger(Len(g), at + Len(data)) /\ DOMAIN h = 1 .. Len(h)
        /\ \A p \in 1 .. Len(h) : h[p] = IF p \in at + 1 .. at + Len(data) THEN data[p - at]
                                         ELSE IF p <= Len(g) THEN g[p] ELSE Zero
    <3>1. at \in Nat /\ data \in Seq(Unit)
      BY <1>5, <1>6
    <3> HIDE DEF at, data
    <3>2. Len(Patched(g, at, data)) = Larger(Len(g), at + Len(data))
      BY <3>1, PatchedProperties
    <3>3. DOMAIN Patched(g, at, data) = 1 .. Len(Patched(g, at, data))
      BY <3>1, PatchedProperties
    <3>4. \A p \in 1 .. Len(Patched(g, at, data)) :
            Patched(g, at, data)[p] = IF p \in at + 1 .. at + Len(data) THEN data[p - at]
                                      ELSE IF p <= Len(g) THEN g[p] ELSE Zero
      BY <3>1, PatchedProperties
    <3> QED BY <3>2, <3>3, <3>4 DEF h
  <2>2. Len(g) \in Nat /\ Len(f) \in Nat /\ DOMAIN g = 1 .. Len(g)
    BY LenProperties
  <2>3. Len(data) = size
    BY <1>6
  <2> HIDE DEF h
  <2> QED BY <2>1, <2>2, <2>3
<1> HIDE DEF h, data, at, d, Place
<1> DEFINE G == {Place(k, o) : k \in 0 .. n - 1, o \in 0 .. size - 1}
           H == {Place(k, o) : k \in 0 .. n, o \in 0 .. size - 1}
<1>8. /\ Len(g) = IF n > 0 /\ Place(n - 1, size - 1) > Len(f) THEN Place(n - 1, size - 1)
                  ELSE Len(f)
      /\ \A k \in 0 .. n - 1, o \in 0 .. size - 1 : g[Place(k, o)] = buf[k * size + o + 1]
      /\ \A p \in DOMAIN g \ G : g[p] = IF p <= Len(f) THEN f[p] ELSE Zero
  BY <1>2 DEF Device!Written
<1>9. \A o \in 0 .. size - 1 : Place(n, o) = at + o + 1
  BY DEF Place, at
<1>10. \A k \in 0 .. n - 1, o \in 0 .. size - 1 :
         Place(k, o) \in Nat /\ Place(k, o) >= 1 /\ Place(k, o) <= at
  <2> TAKE k \in 0 .. n - 1, o \in 0 .. size - 1
  <2>1. k \in 0 .. n
    BY <1>1
  <2>2. Offset(lba + k) \in Nat /\ Offset(lba + k) + d <= at
    BY <1>3, <1>4, <2>1
  <2> QED BY <1>1, <2>2, <1>5 DEF Place
<1>11. Len(g) >= Len(f) /\ \A k \in 0 .. n - 1, o \in 0 .. size - 1 : Place(k, o) <= Len(g)
  <2>1. Len(g) >= Len(f)
    <3>1. CASE n > 0
      <4>1. n - 1 \in 0 .. n - 1 /\ size - 1 \in 0 .. size - 1
        BY <1>1, <3>1
      <4>2. Place(n - 1, size - 1) \in Nat
        BY <1>10, <4>1
      <4> QED BY <1>7, <1>8, <4>2
    <3>2. CASE ~(n > 0)
      BY <1>7, <1>8, <3>2
    <3> QED BY <3>1, <3>2
  <2> SUFFICES ASSUME NEW k \in 0 .. n - 1, NEW o \in 0 .. size - 1
               PROVE  Place(k, o) <= Len(g)
    BY <2>1
  <2>2. n - 1 \in 0 .. n - 1 /\ size - 1 \in 0 .. size - 1 /\ n > 0
    BY <1>1
  <2>3. Place(n - 1, size - 1) \in Nat /\ Place(n - 1, size - 1) <= Len(g)
    BY <1>7, <1>8, <1>10, <2>2, SMTT(30)
  <2>4. Offset(lba + k) + size <= Offset(lba + (n - 1)) + size
    <3>1. CASE k = n - 1
      <4>1. Offset(lba + k) \in Nat
        BY <1>1, <1>3
      <4> QED BY <1>1, <3>1, <4>1
    <3>2. CASE k < n - 1
      <4>1. lba + k \in Nat /\ lba + (n - 1) \in Nat /\ lba + k < lba + (n - 1)
        BY <1>1, <3>2
      <4>2. (lba + k) * d + d <= (lba + (n - 1)) * d /\ (lba + k) * d \in Nat /\ (lba + (n - 1)) * d \in Nat
        BY <1>1, <4>1, Apart
      <4> QED BY <1>1, <4>2, SMTT(30) DEF Offset, d
    <3> QED BY <1>1, <3>1, <3>2
  <2>5. Offset(lba + k) \in Nat /\ Offset(lba + (n - 1)) \in Nat
    <3>1. k \in 0 .. n /\ n - 1 \in 0 .. n
      BY <1>1
    <3> QED BY <1>3, <3>1
  <2>6. Place(k, o) <= Place(n - 1, size - 1)
    BY <1>1, <2>4, <2>5 DEF Place
  <2> QED BY <1>10, <2>3, <2>6, <1>7
<1>12. Len(h) = IF n + 1 > 0 /\ Place(n, size - 1) > Len(f) THEN Place(n, size - 1) ELSE Len(f)
  <2>1. Place(n, size - 1) = at + size
    BY <1>1, <1>9, <1>5
  <2>2. CASE n = 0
    BY <1>1, <1>5, <1>7, <1>8, <2>1, <2>2, SMTT(30) DEF Larger
  <2>3. CASE n > 0
    <3>1. n - 1 \in 0 .. n - 1 /\ size - 1 \in 0 .. size - 1
      BY <1>1, <2>3
    <3>2. Place(n - 1, size - 1) <= at /\ Place(n - 1, size - 1) \in Nat
      BY <1>10, <3>1
    <3>3. Len(g) = IF Place(n - 1, size - 1) > Len(f) THEN Place(n - 1, size - 1) ELSE Len(f)
      BY <1>8, <2>3
    <3>4. Len(h) = IF Len(g) > at + size THEN Len(g) ELSE at + size
      BY <1>7 DEF Larger
    <3>5. size >= 1 /\ Len(f) \in Nat
      BY <1>1, <1>7
    <3>6. CASE Place(n - 1, size - 1) > Len(f)
      BY <1>1, <1>5, <2>1, <2>3, <3>2, <3>3, <3>4, <3>5, <3>6
    <3>7. CASE ~(Place(n - 1, size - 1) > Len(f))
      BY <1>1, <1>5, <2>1, <2>3, <3>2, <3>3, <3>4, <3>5, <3>7
    <3> QED BY <3>6, <3>7
  <2> QED BY <1>1, <2>2, <2>3
<1>13. Len(h) \in Nat /\ Len(h) >= Len(g) /\ Len(h) >= at + size
  BY <1>1, <1>5, <1>7 DEF Larger
<1>14. ASSUME NEW k \in 0 .. n, NEW o \in 0 .. size - 1
       PROVE  h[Place(k, o)] = buf[k * size + o + 1]
  <2>1. CASE k = n
    <3>1. Place(n, o) = at + o + 1 /\ at + o + 1 \in at + 1 .. at + size /\ at + o + 1 \in 1 .. Len(h)
      BY <1>1, <1>5, <1>9, <1>13
    <3>2. h[at + o + 1] = data[(at + o + 1) - at]
      BY <1>7, <3>1
    <3>3. (at + o + 1) - at = o + 1
      BY <1>1, <1>5
    <3> QED BY <1>6, <2>1, <3>1, <3>2, <3>3
  <2>2. CASE k # n
    <3>1. k \in 0 .. n - 1
      BY <1>1, <2>2
    <3>2. Place(k, o) \in 1 .. Len(g) /\ Place(k, o) <= at
      BY <1>7, <1>10, <1>11, <3>1
    <3>3. Place(k, o) \in 1 .. Len(h) /\ Place(k, o) \notin at + 1 .. at + size
      BY <1>5, <1>7, <1>13, <3>2
    <3>4. h[Place(k, o)] = g[Place(k, o)]
      BY <1>7, <3>2, <3>3
    <3> QED BY <1>8, <3>1, <3>4
  <2> QED BY <2>1, <2>2
<1>15. ASSUME NEW p \in DOMAIN h \ H
       PROVE  h[p] = IF p <= Len(f) THEN f[p] ELSE Zero
  <2>1. p \in 1 .. Len(h)
    BY <1>7
  <2>2. p \notin at + 1 .. at + size
    <3> SUFFICES ASSUME p \in at + 1 .. at + size PROVE FALSE
      OBVIOUS
    <3> DEFINE o == p - (at + 1)
    <3>1. o \in 0 .. size - 1 /\ p = at + o + 1 /\ n \in 0 .. n
      BY <1>1, <1>5
    <3>2. p = Place(n, o)
      BY <1>9, <3>1
    <3> HIDE DEF o
    <3> QED BY <3>1, <3>2
  <2>3. h[p] = IF p <= Len(g) THEN g[p] ELSE Zero
    BY <1>7, <2>1, <2>2
  <2>4. p \notin G
    <3> SUFFICES ASSUME NEW k \in 0 .. n - 1, NEW o \in 0 .. size - 1, p = Place(k, o) PROVE FALSE
      OBVIOUS
    <3>1. k \in 0 .. n
      BY <1>1
    <3> QED BY <3>1
  <2>5. CASE p <= Len(g)
    <3>1. p \in DOMAIN g \ G
      BY <1>7, <2>1, <2>4, <2>5
    <3> QED BY <1>8, <2>3, <2>5, <3>1
  <2>6. CASE ~(p <= Len(g))
    <3>1. ~(p <= Len(f))
      BY <1>7, <1>11, <2>1, <2>6
    <3> QED BY <2>3, <2>6, <3>1
  <2> QED BY <2>5, <2>6
<1>16. (n + 1) - 1 = n
  BY <1>1
<1>17. Device!Written(f, h, lba, size, n + 1, buf)
  <2> HIDE DEF G, H
  <2>1. {Device!Place(lba, k, o) : k \in 0 .. n, o \in 0 .. size - 1} = H
    BY <1>2 DEF H
  <2>2. Device!Place(lba, (n + 1) - 1, size - 1) = Place(n, size - 1)
    BY <1>2, <1>16
  <2>3. \A k \in 0 .. (n + 1) - 1, o \in 0 .. size - 1 :
          h[Device!Place(lba, k, o)] = buf[k * size + o + 1]
    BY <1>2, <1>14, <1>16
  <2>4. {Device!Place(lba, k, o) : k \in 0 .. (n + 1) - 1, o \in 0 .. size - 1} = H
    BY <1>16, <2>1
  <2>5. \A p \in DOMAIN h \ H : h[p] = IF p <= Len(f) THEN f[p] ELSE Zero
    BY <1>15
  <2>6. Len(h) = IF n + 1 > 0 /\ Device!Place(lba, (n + 1) - 1, size - 1) > Len(f)
                 THEN Device!Place(lba, (n + 1) - 1, size - 1) ELSE Len(f)
    BY <1>12, <2>2
  <2> HIDE DEF h
  <2> QED BY <2>3, <2>4, <2>5, <2>6 DEF Device!Written
<1> QED BY <1>17 DEF h, at, data
\* write_sector's loop writes whole sectors and nothing else.
LEMMA WrittenScattered ==
  ASSUME NEW f \in Seq(Unit), NEW lba \in Nat, NEW size \in SectorSizes,
         drv \in DriveInfo, drv # NoDrive, size <= drv.sector_size,
         NEW n \in 0 .. MaxCount, NEW buf \in Buffers
  PROVE  Device!Written(f, Scattered(f, {}, lba, size, n, buf), lba, size, n, buf)
<1> DEFINE S(k) == Scattered(f, {}, lba, size, k, buf)
           T == {k \in 0 .. MaxCount : Device!Written(f, S(k), lba, size, k, buf)}
<1>0. MaxCount \in Nat /\ 0 \in 0 .. MaxCount
  BY RawImageAssumption
<1>1. 0 \in T
  <2>1. S(0) = f
    BY <1>0, ScatteredSeq
  <2>2. Len(f) \in Nat /\ DOMAIN f = 1 .. Len(f)
    BY LenProperties
  <2>3. \A p \in DOMAIN f : f[p] = IF p <= Len(f) THEN f[p] ELSE Zero
    BY <2>2
  <2>4. 0 .. 0 - 1 = {}
    OBVIOUS
  <2>5. Device!Written(f, f, lba, size, 0, buf)
    BY <2>3, <2>4 DEF Device!Written
  <2> QED BY <1>0, <2>1, <2>5
<1>2. ASSUME NEW k \in 0 .. MaxCount - 1, k \in T PROVE k + 1 \in T
  <2>1. k \in 0 .. MaxCount /\ k + 1 \in 1 .. MaxCount /\ k + 1 \in 0 .. MaxCount
    BY <1>0
  <2>2. (k + 1) - 1 = k /\ lba + (k + 1) - 1 = lba + k
    BY <1>0
  <2>3. S(k) \in Seq(Unit)
    BY <2>1, ScatteredSeq
  <2>4. Scattered(f, {}, lba, size, k + 1, buf) =
          Patched(Scattered(f, {}, lba, size, (k + 1) - 1, buf), Offset(lba + (k + 1) - 1),
                  Part(buf, size, (k + 1) - 1))
    BY <2>1, ScatteredLast
  <2>5. S(k + 1) = Patched(S(k), Offset(lba + k), Part(buf, size, k))
    BY <2>2, <2>4
  <2>6. Device!Written(f, S(k), lba, size, k, buf)
    BY <1>2
  <2> HIDE DEF S
  <2>7. Device!Written(f, Patched(S(k), Offset(lba + k), Part(buf, size, k)), lba, size, k + 1, buf)
    BY <2>3, <2>6, WrittenFurther
  <2> QED BY <2>1, <2>5, <2>7
<1> HIDE DEF T
<1>3. n \in T
  BY <1>0, <1>1, <1>2, BoundedInduction
<1> QED BY <1>3 DEF T

-----------------------------------------------------------------------------
\* The loop of read_sector.

\* It reads the sectors that lie in the file, and stops at the first that does not.
LEMMA TurnsProperties ==
  ASSUME NEW f, NEW F, NEW lba, NEW size, NEW cnt \in Nat
  PROVE  /\ Turns(f, F, lba, size, cnt) \in 0 .. cnt
         /\ \A k \in 0 .. Turns(f, F, lba, size, cnt) - 1 : InFile(f, Landing(F, lba, k), size)
<1> DEFINE In(k) == InFile(f, Landing(F, lba, k), size)
           T == {k \in 0 .. cnt : In(k)}
<1> HIDE DEF In
<1>1. PICK m \in 0 .. cnt : (\A k \in 0 .. m - 1 : k \in T) /\ (m < cnt => m \notin T)
  BY FirstOutside
<1>2. (\A k \in 0 .. m - 1 : In(k)) /\ (m < cnt => ~In(m))
  BY <1>1
<1>3. \E n \in 0 .. cnt : (\A k \in 0 .. n - 1 : In(k)) /\ (n < cnt => ~In(n))
  BY <1>2
<1> QED BY <1>3, Zenon DEF Turns, In

\* The place in a buffer of sectors that a unit has.
LEMMA InSectors ==
  ASSUME NEW size \in Nat \ {0}, NEW n \in Nat, NEW i \in 1 .. n * size
  PROVE  /\ (i - 1) \div size \in 0 .. n - 1
         /\ (i - 1) % size \in 0 .. size - 1
<1>1. i - 1 \in Nat /\ n * size \in Nat
  BY SMT
<1> DEFINE q == (i - 1) \div size
           r == (i - 1) % size
<1>2. q \in Nat /\ r \in 0 .. size - 1 /\ i - 1 = q * size + r
  BY <1>1, SMT
<1> HIDE DEF q, r
<1>3. q < n
  <2> SUFFICES ASSUME ~(q < n) PROVE FALSE
    OBVIOUS
  <2>1. n * size <= q * size
    <3>1. CASE n = q
      BY <1>1, <3>1
    <3>2. CASE n # q
      <4>1. n * size + size <= q * size /\ n * size \in Nat /\ q * size \in Nat
        BY <1>2, <3>2, Apart
      <4> QED BY <4>1
    <3> QED BY <3>1, <3>2
  <2>2. q * size \in Nat
    BY <1>2, SMT
  <2> QED BY <1>1, <1>2, <2>1, <2>2
<1> QED BY <1>2, <1>3 DEF q, r
\* n sectors of the device from lba on, one behind the other.
SectorUnits(f, lba, size, n) ==
  [i \in 1 .. n * size |-> f[Device!Place(lba, (i - 1) \div size, (i - 1) % size)]]

\* What read_sector hands out are units of the image; those of a turn whose seek
\* worked are from where the device has them.
LEMMA GatheredProperties ==
  ASSUME NEW f \in Seq(Unit), NEW F, NEW lba \in Nat, NEW size \in SectorSizes, drv \in DriveInfo,
         0 \in F => unwritten \in Chunk,
         NEW n \in Nat, \A k \in 0 .. n - 1 : InFile(f, Landing(F, lba, k), size)
  PROVE  /\ Gathered(f, F, lba, size, n) \in Seq(Unit) /\ Len(Gathered(f, F, lba, size, n)) = n * size
         /\ drv # NoDrive => \A i \in 1 .. n * size : (i - 1) \div size \notin F =>
              Gathered(f, F, lba, size, n)[i] = f[Device!Place(lba, (i - 1) \div size, (i - 1) % size)]
         /\ drv # NoDrive /\ F = {} => Gathered(f, F, lba, size, n) = SectorUnits(f, lba, size, n)
<1>1. size \in Nat \ {0} /\ drv.sector_size \in Nat /\ n * size \in Nat /\ Len(f) \in Nat
  <2>1. size \in Nat \ {0} /\ drv.sector_size \in Nat
    BY RawImageAssumption DEF DriveInfo
  <2>2. n * size \in Nat
    BY <2>1, SMT
  <2> QED BY <2>1, <2>2, LenProperties
<1> DEFINE q(i) == (i - 1) \div size
           r(i) == (i - 1) % size
           at(i) == Landing(F, lba, q(i))
           g == Gathered(f, F, lba, size, n)
<1>2. ASSUME NEW i \in 1 .. n * size
      PROVE  /\ g[i] = f[at(i) + (1 + r(i))]
             /\ at(i) + (1 + r(i)) \in 1 .. Len(f)
             /\ at(i) \in Nat /\ r(i) \in Nat /\ q(i) \in Nat
  <2>1. q(i) \in 0 .. n - 1 /\ r(i) \in 0 .. size - 1
    BY <1>1, InSectors
  <2>2. InFile(f, at(i), size)
    BY <2>1
  <2>3. at(i) \in Nat
    <3>1. q(i) \in Nat
      BY <2>1
    <3> HIDE DEF q
    <3> QED BY <3>1, LandingType
  <2>4. g[i] = Sector(f, at(i), size)[1 + r(i)]
    BY DEF Gathered
  <2> HIDE DEF q, r, g, at
  <2>5. 1 + r(i) \in 1 .. size
    BY <1>1, <2>1
  <2>6. Sector(f, at(i), size)[1 + r(i)] = f[at(i) + (1 + r(i))]
    BY <2>5 DEF Sector
  <2>7. at(i) + (1 + r(i)) \in 1 .. Len(f)
    BY <1>1, <2>1, <2>2, <2>3 DEF InFile
  <2> QED BY <2>1, <2>3, <2>4, <2>6, <2>7
<1>3. \A i \in 1 .. n * size : g[i] \in Unit
  <2> TAKE i \in 1 .. n * size
  <2>1. g[i] = f[at(i) + (1 + r(i))] /\ at(i) + (1 + r(i)) \in 1 .. Len(f)
    BY <1>2
  <2> HIDE DEF g, q, r, at
  <2> QED BY <2>1, ElementOfSeq
<1>4. g = [i \in 1 .. n * size |-> g[i]]
  BY DEF Gathered
<1>5. g \in [1 .. n * size -> Unit]
  <2> HIDE DEF g
  <2> QED BY <1>3, <1>4
<1>6. g \in Seq(Unit) /\ Len(g) = n * size
  <2> HIDE DEF g
  <2> QED BY <1>1, <1>5, FunctionIsSeq
<1>7. ASSUME drv # NoDrive, NEW i \in 1 .. n * size, q(i) \notin F
      PROVE  g[i] = f[Device!Place(lba, q(i), r(i))]
  <2>1. g[i] = f[at(i) + (1 + r(i))] /\ at(i) \in Nat /\ r(i) \in Nat /\ q(i) \in Nat
    BY <1>2
  <2>2. at(i) = Offset(lba + q(i))
    <3> HIDE DEF q
    <3> QED BY <1>7, <2>1, LandingSought
  <2> HIDE DEF g, q, r, at
  <2>3. Device!Place(lba, q(i), r(i)) = Offset(lba + q(i)) + r(i) + 1
    BY <1>7 DEF Device!Place, Offset
  <2>4. at(i) + r(i) + 1 = at(i) + (1 + r(i))
    BY <2>1
  <2> QED BY <2>1, <2>2, <2>3, <2>4
<1>8. ASSUME drv # NoDrive, F = {}
      PROVE  g = [i \in 1 .. n * size |-> f[Device!Place(lba, q(i), r(i))]]
  <2>1. ASSUME NEW i \in 1 .. n * size PROVE g[i] = f[Device!Place(lba, q(i), r(i))]
    BY <1>7, <1>8
  <2> HIDE DEF g, q, r
  <2> QED BY <1>4, <2>1
<1>9. drv # NoDrive => \A i \in 1 .. n * size : q(i) \notin F =>
        g[i] = f[Device!Place(lba, q(i), r(i))]
  BY <1>7
<1> QED BY <1>6, <1>8, <1>9 DEF SectorUnits

\* The last sector read lies in the image, if its seek worked.
LEMMA LastRead ==
  ASSUME NEW f \in Seq(Unit), NEW F, NEW lba \in Nat, NEW size \in SectorSizes,
         drv \in DriveInfo, drv # NoDrive,
         NEW n \in Nat, n > 0, n - 1 \notin F, InFile(f, Landing(F, lba, n - 1), size)
  PROVE  Device!Place(lba, n - 1, size - 1) <= Len(f)
<1>1. n - 1 \in Nat /\ lba + (n - 1) \in Nat
  OBVIOUS
<1>2. size \in Nat /\ drv.sector_size \in Nat
  BY RawImageAssumption DEF DriveInfo
<1>3. Landing(F, lba, n - 1) = Offset(lba + (n - 1))
  BY <1>1, LandingSought
<1>4. Offset(lba + (n - 1)) + size <= Len(f)
  BY <1>3 DEF InFile
<1>5. Offset(lba + (n - 1)) \in Nat
  BY <1>1, <1>2, SMT DEF Offset
<1>6. Device!Place(lba, n - 1, size - 1) = Offset(lba + (n - 1)) + (size - 1) + 1
  BY DEF Device!Place, Offset
<1> QED BY <1>2, <1>4, <1>5, <1>6

\* A sector_buf of the partition code always holds units.
LEMMA SectorBufType ==
  ASSUME NEW old \in [1 .. BufSize -> Unit], NEW f \in Seq(Unit), NEW at \in Nat
  PROVE  SectorBuf(old, f, at) \in [1 .. BufSize -> Unit]
<1>1. CASE BufSize <= drv.sector_size /\ InFile(f, at, BufSize)
  <2>1. ASSUME NEW o \in 1 .. BufSize PROVE f[at + o] \in Unit
    <3>1. Len(f) \in Nat
      BY LenProperties
    <3>2. at + o \in 1 .. Len(f)
      BY <1>1, <3>1 DEF InFile, BufSize
    <3> QED BY <3>2, ElementOfSeq
  <2>2. Sector(f, at, BufSize) \in [1 .. BufSize -> Unit]
    BY <2>1 DEF Sector
  <2> QED BY <1>1, <2>2 DEF SectorBuf
<1>2. CASE ~(BufSize <= drv.sector_size /\ InFile(f, at, BufSize))
  BY <1>2 DEF SectorBuf
<1> QED BY <1>1, <1>2
-----------------------------------------------------------------------------
\* The type invariant of the drive with a table on it.

\* What points to a drive or to a table keeps it from being deleted.
Held == /\ table # NoTable => drv # NoDrive
        /\ \A i \in Iter : part[i] # NoIter => table # NoTable

IInv == TypeOK /\ Held

\* The contents of the image are units, whether or not the library keeps some.
LEMMA ContentsType ==
  ASSUME DriveTypeOK
  PROVE  /\ Contents \in Seq(Unit) /\ Len(Contents) >= Len(file)
         /\ file \in Seq(Unit) /\ Len(file) \in Nat /\ Len(Contents) \in Nat
<1>1. file \in Seq(Unit) /\ Len(file) \in Nat
  BY LenProperties DEF DriveTypeOK
<1>2. CASE unwritten = NoData
  BY <1>1, <1>2 DEF Contents
<1>3. CASE unwritten # NoData
  <2>1. unwritten.at \in Nat /\ unwritten.data \in Seq(Unit)
    BY <1>3 DEF DriveTypeOK, Chunk
  <2> QED BY <1>1, <1>3, <2>1, PatchedProperties DEF Contents
<1> QED BY <1>2, <1>3

\* The file after the first fseek of a call: a seek fails only if a sector is kept.
LEMMA StartProperties ==
  ASSUME DriveTypeOK, NEW n \in Nat, NEW F \in FailedSeeks(n)
  PROVE  /\ 0 \in F => unwritten \in Chunk
         /\ Start(F) \in Seq(Unit) /\ Len(Start(F)) >= Len(file)
         /\ Start(F) = IF 0 \in F THEN file ELSE Contents
         /\ n = 0 => F = {} \/ F = {0}
<1>1. /\ Contents \in Seq(Unit) /\ Len(Contents) >= Len(file)
      /\ file \in Seq(Unit) /\ Len(file) \in Nat
  BY ContentsType
<1>2. 0 \in F => unwritten # NoData
  BY DEF FailedSeeks
<1>3. n = 0 => F = {} \/ F = {0}
  <2>1. n = 0 => F \in SUBSET {0}
    BY DEF FailedSeeks
  <2> QED BY <2>1
<1> HIDE DEF Contents
<1> QED BY <1>1, <1>2, <1>3 DEF Start, DriveTypeOK

\* What a call leaves of the file that only seeks: nothing is kept any longer, or
\* all is as it was.
Settled == \/ \E F \in FailedSeeks(0) : Sought(F)
           \/ UNCHANGED <<file, unwritten, faults>>

\* The contents stay as they are, or what was kept is lost.
LEMMA SoughtProperties ==
  ASSUME DriveTypeOK, Settled
  PROVE  /\ file' \in Seq(Unit) /\ unwritten' \in Chunk \cup {NoData} /\ faults' \in Nat
         /\ Len(file') >= Len(file)
         /\ \/ faults' = faults /\ Contents' = Contents /\ file' \in {file, Contents}
            \/ faults' = faults + 1 /\ Contents' = file /\ file' = file
<1>1. /\ Contents \in Seq(Unit) /\ Len(Contents) >= Len(file)
      /\ file \in Seq(Unit) /\ Len(file) \in Nat /\ faults \in Nat
  BY ContentsType DEF DriveTypeOK
<1>2. ASSUME NEW F \in FailedSeeks(0), Sought(F)
      PROVE  /\ file' \in Seq(Unit) /\ unwritten' \in Chunk \cup {NoData} /\ faults' \in Nat
             /\ Len(file') >= Len(file)
             /\ \/ faults' = faults /\ Contents' = Contents /\ file' \in {file, Contents}
                \/ faults' = faults + 1 /\ Contents' = file /\ file' = file
  <2>1. file' = Start(F) /\ unwritten' = NoData
    BY <1>2 DEF Sought
  <2>2. Contents' = file'
    BY <2>1 DEF Contents
  <2>3. F = {} \/ F = {0}
    BY StartProperties
  <2>4. faults' = (IF F = {} THEN faults ELSE faults + 1)
    BY <1>2 DEF Sought, Counted
  <2> HIDE DEF Contents
  <2>5. CASE F = {}
    BY <1>1, <2>1, <2>2, <2>4, <2>5 DEF Start
  <2>6. CASE F = {0}
    BY <1>1, <2>1, <2>2, <2>4, <2>6 DEF Start
  <2> QED BY <2>3, <2>5, <2>6
<1>3. CASE UNCHANGED <<file, unwritten, faults>>
  <2>1. Contents' = Contents
    BY <1>3 DEF Contents
  <2> QED BY <1>1, <1>3, <2>1 DEF DriveTypeOK
<1> QED BY <1>2, <1>3 DEF Settled

\* Every seek of a read of sector_buf is one of those.
LEMMA BufSettled ==
  ASSUME NEW F \in BufSeeks, SoughtBySector(F)
  PROVE  Settled
BY DEF BufSeeks, SoughtBySector, Settled

\* Where a read of sector_buf finds its units.
LEMMA BufStart ==
  ASSUME DriveTypeOK, drv \in DriveInfo, NEW F \in BufSeeks, NEW lba \in Nat
  PROVE  /\ Start(F) \in Seq(Unit) /\ Landing(F, lba, 0) \in Nat
<1>1. F \in FailedSeeks(0)
  BY DEF BufSeeks, FailedSeeks
<1>2. Start(F) \in Seq(Unit) /\ (0 \in F => unwritten \in Chunk)
  BY <1>1, StartProperties
<1> QED BY <1>2, LandingType

\* The entries' first sector and their count come from a header.
LEMMA TableOfType ==
  ASSUME NEW mbr, NEW header \in [1 .. BufSize -> Unit]
  PROVE  TableOf(mbr, header) \in Table \cup {NoTable}
<1>1. header[1] \in Unit
  BY DEF BufSize
<1>2. header[1].kind = "header" => header[1].entries \in Nat /\ header[1].count \in Nat
  BY <1>1, GptAssumption
<1> QED BY <1>2 DEF TableOf, Table

\* What a sector of entries has at the place of one of them.
LEMMA EntryType ==
  ASSUME NEW stack \in Stack, DriveTypeOK, drv \in DriveInfo, table \in Table, NEW idx \in Nat,
         NEW F \in BufSeeks
  PROVE  EntryFound(F, stack, idx) \in Unit
<1>1. EntrySector(idx) \in Nat
  <2>1. idx \div 4 \in Nat /\ table.lba_part_entry_start \in Nat
    BY DEF Table
  <2> QED BY <2>1 DEF EntrySector
<1>2. EntryPlace(idx) \in 1 .. BufSize
  BY DEF EntryPlace, BufSize
<1>3. stack \in [1 .. BufSize -> Unit]
  BY GptAssumption
<1>4. Start(F) \in Seq(Unit) /\ Landing(F, EntrySector(idx), 0) \in Nat
  BY <1>1, BufStart
<1>5. SectorBuf(stack, Start(F), Landing(F, EntrySector(idx), 0)) \in [1 .. BufSize -> Unit]
  BY <1>3, <1>4, SectorBufType
<1> QED BY <1>2, <1>5 DEF EntryFound

\* Drives are opened with the fields of drvinfo in range.
LEMMA CreateType ==
  ASSUME DriveTypeOK, NEW size \in SectorSizes, NEW readonly \in BOOLEAN, Create(size, readonly)
  PROVE  DriveTypeOK'
<1>1. /\ size \in Nat \ {0} /\ SectorWord \in Nat \ {0} /\ LbaWord \in Nat \ {0}
      /\ Len(file) \in Nat
  BY RawImageAssumption, ContentsType
<1>2. size % SectorWord \in Nat
  BY <1>1, SMT
<1>3. ((Len(file) \div size) - 1) % LbaWord \in 0 .. LbaWord - 1
  <2>1. Len(file) \div size \in Nat
    BY <1>1, SMT
  <2> QED BY <1>1, <2>1, SMT
<1>4. drv' \in DriveInfo \cup {NoDrive}
  <2> DEFINE d == [sector_size |-> size % SectorWord,
                   lba_max |-> ((Len(file) \div size) - 1) % LbaWord,
                   readonly |-> readonly]
  <2>1. d \in DriveInfo
    BY <1>2, <1>3 DEF DriveInfo
  <2>2. drv' = IF Len(file) % size # 0 THEN NoDrive ELSE d
    BY DEF Create
  <2> HIDE DEF d
  <2> QED BY <2>1, <2>2
<1> QED BY <1>4 DEF DriveTypeOK, Create

\* What reading leaves of the drive.
LEMMA ReadType ==
  ASSUME DriveTypeOK, NEW lba \in Lbas, NEW size \in SectorSizes, NEW cnt \in 1 .. MaxCount,
         Read(lba, size, cnt)
  PROVE  DriveTypeOK'
<1>1. drv \in DriveInfo /\ drv' = drv
  BY DEF Read, DriveTypeOK
<1>2. Settled
  BY DEF Read, Settled
<1>3. reply' \in Reply
  <2>1. MaxCount \in Nat /\ cnt \in Nat /\ lba \in Nat
    BY RawImageAssumption
  <2>2. CASE size > drv.sector_size
    <3>1. <<>> \in Seq(Unit) /\ 0 \in 0 .. MaxCount
      BY <2>1
    <3>2. reply' = [count |-> 0, data |-> <<>>]
      BY <2>2 DEF Read
    <3> QED BY <3>1, <3>2 DEF Reply
  <2>3. CASE ~(size > drv.sector_size)
    <3>1. PICK F \in FailedSeeks(0) :
            reply' = [count |-> Turns(Start(F), F, lba, size, cnt),
                      data |-> Gathered(Start(F), F, lba, size, Turns(Start(F), F, lba, size, cnt))]
      BY <2>3 DEF Read
    <3> DEFINE n == Turns(Start(F), F, lba, size, cnt)
    <3>2. n \in 0 .. cnt /\ \A k \in 0 .. n - 1 : InFile(Start(F), Landing(F, lba, k), size)
      BY <2>1, TurnsProperties
    <3>3. reply' = [count |-> n, data |-> Gathered(Start(F), F, lba, size, n)]
      BY <3>1
    <3>4. Start(F) \in Seq(Unit) /\ (0 \in F => unwritten \in Chunk)
      BY StartProperties
    <3> HIDE DEF n
    <3>5. n \in Nat /\ n \in 0 .. MaxCount
      BY <2>1, <3>2
    <3>6. Gathered(Start(F), F, lba, size, n) \in Seq(Unit)
      BY <1>1, <2>1, <3>2, <3>4, <3>5, GatheredProperties
    <3> QED BY <3>3, <3>5, <3>6 DEF Reply
  <2> QED BY <2>2, <2>3
<1> QED BY <1>1, <1>2, <1>3, SoughtProperties DEF DriveTypeOK

\* The loop starts with the image as it was, or without what was kept.
LEMMA StartMade ==
  ASSUME DriveTypeOK, NEW n \in Nat, NEW F \in FailedSeeks(n), NEW buf
  PROVE  Made(Start(F), buf)
<1>1. Start(F) \in Seq(Unit) /\ Start(F) = (IF 0 \in F THEN file ELSE Contents)
  BY StartProperties
<1>2. file \in Seq(Unit) /\ Len(Contents) >= Len(file) /\ Len(file) \in Nat
  BY ContentsType
<1>3. Device!Patchwork(file, buf) /\ Device!Patchwork(Contents, buf)
  BY <1>2 DEF Device!Patchwork
<1> HIDE DEF Contents
<1> QED BY <1>1, <1>3 DEF Made

\* What a write of n turns leaves: a file, and perhaps a sector not in it, which
\* are made of the old ones and the caller's buffer.
LEMMA WriteMade ==
  ASSUME DriveTypeOK, drv # NoDrive, NEW lba \in Lbas, NEW size \in SectorSizes,
         NEW cnt \in 1 .. MaxCount, NEW buf \in Buffers,
         NEW n \in 0 .. cnt, NEW F \in LoopSeeks(cnt, n), WriteLoop(F, lba, size, cnt, n, buf)
  PROVE  /\ unwritten' \in Chunk \cup {NoData}
         /\ Made(file', buf) /\ Made(Contents', buf)
<1>1. drv \in DriveInfo /\ file \in Seq(Unit)
  BY DEF DriveTypeOK
<1>2. MaxCount \in Nat /\ cnt \in Nat /\ lba \in Nat /\ n \in 0 .. MaxCount
  BY RawImageAssumption
<1>3. Made(Start(F), buf) /\ (0 \in F => unwritten \in Chunk)
  <2> DEFINE m == IF n < cnt THEN n ELSE cnt - 1
  <2>1. m \in Nat
    BY <1>2
  <2>2. F \in FailedSeeks(m)
    BY DEF LoopSeeks
  <2> HIDE DEF m
  <2> QED BY <2>1, <2>2, StartMade, StartProperties
<1> DEFINE S(k) == Scattered(Start(F), F, lba, size, k, buf)
<1>4. \A k \in 0 .. MaxCount : Made(S(k), buf)
  BY <1>1, <1>2, <1>3, ScatteredMade
<1>5. CASE file' = S(n) /\ unwritten' = NoData
  <2>1. Contents' = file'
    BY <1>5 DEF Contents
  <2> HIDE DEF S
  <2>2. Made(file', buf)
    BY <1>2, <1>4, <1>5
  <2> QED BY <1>5, <2>1, <2>2
<1>6. CASE /\ n = cnt /\ file' = S(n - 1)
           /\ unwritten' = [at |-> Landing(F, lba, n - 1), data |-> Part(buf, size, n - 1)]
  <2>1. n - 1 \in 0 .. MaxCount /\ n - 1 \in 0 .. MaxCount - 1 /\ n - 1 \in Nat
    BY <1>2, <1>6
  <2>2. Landing(F, lba, n - 1) \in Nat
    BY <1>1, <1>2, <1>3, <2>1, LandingType
  <2>3. Part(buf, size, n - 1) \in Seq(Unit)
    BY <2>1, PartProperties
  <2>4. unwritten' \in Chunk
    BY <1>6, <2>2, <2>3 DEF Chunk
  <2>5. unwritten' # NoData
    BY <2>4, RawImageAssumption DEF Chunk
  <2>6. Contents' = Patched(file', Landing(F, lba, n - 1), Part(buf, size, n - 1))
    BY <1>6, <2>5 DEF Contents
  <2> HIDE DEF S
  <2>7. Made(file', buf)
    BY <1>4, <1>6, <2>1
  <2>8. Made(Patched(file', Landing(F, lba, n - 1), Part(buf, size, n - 1)), buf)
    BY <1>1, <2>1, <2>2, <2>7, PatchedMade
  <2> QED BY <2>4, <2>6, <2>7, <2>8
<1> HIDE DEF S
<1>7. \/ file' = S(n) /\ unwritten' = NoData
      \/ /\ n = cnt /\ file' = S(n - 1)
         /\ unwritten' = [at |-> Landing(F, lba, n - 1), data |-> Part(buf, size, n - 1)]
  BY DEF WriteLoop, S
<1> QED BY <1>5, <1>6, <1>7

\* What writing leaves of the drive: the file grows, and the library may keep a sector.
LEMMA WriteType ==
  ASSUME DriveTypeOK, NEW lba \in Lbas, NEW size \in SectorSizes, NEW cnt \in 1 .. MaxCount,
         NEW buf \in Buffers, Write(lba, size, cnt, buf)
  PROVE  DriveTypeOK' /\ Len(file') >= Len(file)
<1>1. drv \in DriveInfo /\ drv # NoDrive /\ drv' = drv /\ faults \in Nat
  BY DEF Write, DriveTypeOK
<1>2. MaxCount \in Nat /\ cnt \in Nat /\ <<>> \in Seq(Unit) /\ 0 \in 0 .. MaxCount
  BY RawImageAssumption
<1>3. file \in Seq(Unit) /\ Len(file) \in Nat
  BY ContentsType
<1>4. CASE reply' = [count |-> 0, data |-> <<>>] /\ UNCHANGED <<file, unwritten, faults>>
  <2>1. reply' \in Reply
    BY <1>2, <1>4 DEF Reply
  <2> QED BY <1>1, <1>3, <1>4, <2>1 DEF DriveTypeOK
<1>5. ASSUME NEW n \in WriteTurns(cnt), NEW F \in LoopSeeks(cnt, n),
             WriteLoop(F, lba, size, cnt, n, buf), Counted(F),
             reply' = [count |-> n, data |-> <<>>]
      PROVE  DriveTypeOK' /\ Len(file') >= Len(file)
  <2>1. n \in 0 .. cnt /\ n \in 0 .. MaxCount
    BY <1>2 DEF WriteTurns
  <2>2. reply' \in Reply
    BY <1>2, <1>5, <2>1 DEF Reply
  <2>3. faults' \in Nat
    BY <1>1, <1>5 DEF Counted
  <2>4. unwritten' \in Chunk \cup {NoData} /\ Made(file', buf)
    BY <1>1, <1>5, <2>1, WriteMade
  <2>5. file' \in Seq(Unit) /\ Len(file') >= Len(file)
    BY <2>4 DEF Made, Device!Patchwork
  <2> QED BY <1>1, <2>2, <2>3, <2>4, <2>5 DEF DriveTypeOK
<1>6. \/ reply' = [count |-> 0, data |-> <<>>] /\ UNCHANGED <<file, unwritten, faults>>
      \/ \E n \in WriteTurns(cnt) : \E F \in LoopSeeks(cnt, n) :
           /\ WriteLoop(F, lba, size, cnt, n, buf) /\ Counted(F)
           /\ reply' = [count |-> n, data |-> <<>>]
  BY DEF Write
<1> QED BY <1>4, <1>5, <1>6

-----------------------------------------------------------------------------
\* Each action keeps the inductive invariant.

\* Initially the drive is closed and no table open.
LEMMA InitIInv == GptInit => IInv
<1> SUFFICES ASSUME GptInit PROVE IInv
  OBVIOUS
<1>1. file \in Seq(Unit)
  BY RawImageAssumption DEF GptInit, Init
<1>2. DriveTypeOK
  BY <1>1 DEF GptInit, Init, DriveTypeOK
<1> QED BY <1>2 DEF GptInit, IInv, TypeOK, Held

\* The steps of the iterators and of the table.
LEMMA TableStep ==
  ASSUME IInv, \/ CreateTable
               \/ DeleteTable
               \/ \E i \in Iter : ListStart(i) \/ ListNextNone(i) \/ ListNextPart(i) \/ ListEnd(i)
  PROVE  IInv' /\ reply' = NoReply /\ drv' = drv /\ Settled
<1>1. /\ DriveTypeOK /\ table \in Table \cup {NoTable} /\ part \in [Iter -> PartInfo \cup {NoIter}]
      /\ Held
  BY DEF IInv, TypeOK
<1>2. reply' = NoReply /\ drv' = drv /\ Settled
  <2>1. reply' = NoReply /\ drv' = drv
    BY DEF CreateTable, DeleteTable, ListStart, ListNextNone, ListNextPart, ListEnd
  <2>2. \/ UNCHANGED <<file, unwritten, faults>>
        \/ \E F \in BufSeeks : SoughtBySector(F)
    BY Zenon DEF CreateTable, DeleteTable, ListStart, ListNextNone, ListNextPart, ListEnd
  <2>3. Settled
    BY <2>2, BufSettled DEF Settled
  <2> QED BY <2>1, <2>3
<1>3. DriveTypeOK'
  BY <1>1, <1>2, SoughtProperties DEF DriveTypeOK
<1>4. CASE CreateTable
  <2>1. drv # NoDrive /\ drv \in DriveInfo /\ part' = part /\ table = NoTable
    BY <1>1, <1>4 DEF CreateTable, DriveTypeOK
  <2>2. PICK F \in BufSeeks, stack \in Stack :
          table' = IF SectorBuf(stack, Start(F), Landing(F, 0, 0))[4].kind = "mbr"
                   THEN TableOf(SectorBuf(stack, Start(F), Landing(F, 0, 0)),
                                SectorBuf(SectorBuf(stack, Start(F), Landing(F, 0, 0)), Start(F),
                                          Offset(SectorBuf(stack, Start(F), Landing(F, 0, 0))[4].lba)))
                   ELSE NoTable
    BY <1>4 DEF CreateTable
  <2> DEFINE mbr == SectorBuf(stack, Start(F), Landing(F, 0, 0))
             header == SectorBuf(mbr, Start(F), Offset(mbr[4].lba))
  <2>3. Start(F) \in Seq(Unit) /\ mbr \in [1 .. BufSize -> Unit]
    <3>1. stack \in [1 .. BufSize -> Unit]
      BY GptAssumption
    <3>2. \E lba \in Nat : lba = 0
      OBVIOUS
    <3>3. PICK lba \in Nat : lba = 0
      BY <3>2
    <3>4. Start(F) \in Seq(Unit) /\ Landing(F, lba, 0) \in Nat
      BY <1>1, <2>1, BufStart
    <3>5. SectorBuf(stack, Start(F), Landing(F, lba, 0)) \in [1 .. BufSize -> Unit]
      BY <3>1, <3>4, SectorBufType
    <3> QED BY <3>3, <3>4, <3>5
  <2>4. table' = IF mbr[4].kind = "mbr" THEN TableOf(mbr, header) ELSE NoTable
    BY <2>2
  <2> HIDE DEF mbr
  <2>5. CASE mbr[4].kind = "mbr"
    <3>1. mbr[4].lba \in Nat
      <4>1. mbr[4] \in Unit
        BY <2>3 DEF BufSize
      <4>2. mbr[4].kind = "mbr" => mbr[4].lba \in Nat
        BY <4>1, GptAssumption
      <4> QED BY <2>5, <4>2
    <3>2. Offset(mbr[4].lba) \in Nat
      <4>1. drv.sector_size \in Nat
        BY <2>1 DEF DriveInfo
      <4> QED BY <3>1, <4>1, SMT DEF Offset
    <3>3. header \in [1 .. BufSize -> Unit]
      BY <2>3, <3>2, SectorBufType
    <3> HIDE DEF header
    <3>4. table' \in Table \cup {NoTable}
      BY <2>4, <2>5, <3>3, TableOfType
    <3> QED BY <1>1, <1>2, <1>3, <2>1, <3>4 DEF IInv, TypeOK, Held
  <2>6. CASE ~(mbr[4].kind = "mbr")
    <3>1. table' = NoTable
      BY <2>4, <2>6
    <3> QED BY <1>1, <1>2, <1>3, <2>1, <3>1 DEF IInv, TypeOK, Held
  <2> QED BY <1>2, <2>5, <2>6
<1>5. CASE DeleteTable
  BY <1>1, <1>2, <1>3, <1>5 DEF DeleteTable, Started, IInv, TypeOK, Held
<1>6. ASSUME NEW i \in Iter, ListStart(i) PROVE IInv'
  <2>1. [idx |-> 0, valid |-> FALSE, entry |-> NoEntry] \in PartInfo
    BY DEF PartInfo
  <2>2. part' \in [Iter -> PartInfo \cup {NoIter}]
    BY <1>1, <1>6, <2>1 DEF ListStart
  <2> QED BY <1>1, <1>2, <1>3, <1>6, <2>2 DEF ListStart, IInv, TypeOK, Held
<1>7. ASSUME NEW i \in Iter, ListNextNone(i) PROVE IInv'
  <2>1. part[i] \in PartInfo /\ table # NoTable
    BY <1>1, <1>7 DEF ListNextNone, Held
  <2> DEFINE idx == IF part[i].valid THEN part[i].idx ELSE 0
  <2>2. idx \in Nat
    BY <2>1 DEF PartInfo
  <2>3. part' = [part EXCEPT ![i].idx = idx] /\ table' = table
    BY <1>7 DEF ListNextNone
  <2> HIDE DEF idx
  <2>4. [part[i] EXCEPT !.idx = idx] \in PartInfo
    BY <2>1, <2>2 DEF PartInfo
  <2>5. part' \in [Iter -> PartInfo \cup {NoIter}]
    BY <1>1, <2>3, <2>4
  <2> QED BY <1>1, <1>2, <1>3, <2>1, <2>3, <2>5 DEF IInv, TypeOK, Held
<1>8. ASSUME NEW i \in Iter, ListNextPart(i) PROVE IInv'
  <2>1. part[i] \in PartInfo /\ table # NoTable /\ drv # NoDrive
    BY <1>1, <1>8 DEF ListNextPart, Held
  <2> DEFINE idx == IF part[i].valid THEN part[i].idx ELSE 0
  <2>2. idx \in Nat
    BY <2>1 DEF PartInfo
  <2>3. PICK F \in BufSeeks, stack \in Stack : part' = Passed(i, idx, EntryFound(F, stack, idx))
    BY <1>8 DEF ListNextPart
  <2>4. table' = table
    BY <1>8 DEF ListNextPart
  <2> DEFINE entry == EntryFound(F, stack, idx)
  <2> HIDE DEF idx
  <2>5. entry \in Unit
    <3>1. drv \in DriveInfo /\ table \in Table
      BY <1>1, <2>1 DEF DriveTypeOK
    <3> QED BY <1>1, <2>2, <3>1, EntryType
  <2> HIDE DEF entry
  <2>6. [idx |-> idx + 1, valid |-> TRUE, entry |-> entry] \in PartInfo
    BY <2>2, <2>5 DEF PartInfo
  <2>7. part' = [part EXCEPT ![i] = [idx |-> idx + 1, valid |-> TRUE, entry |-> entry]]
    BY <2>3 DEF Passed, entry
  <2>8. part' \in [Iter -> PartInfo \cup {NoIter}]
    BY <1>1, <2>6, <2>7
  <2> QED BY <1>1, <1>2, <1>3, <2>1, <2>4, <2>8 DEF IInv, TypeOK, Held
<1>9. ASSUME NEW i \in Iter, ListEnd(i) PROVE IInv'
  BY <1>1, <1>2, <1>3, <1>9 DEF ListEnd, IInv, TypeOK, Held
<1> QED BY <1>2, <1>4, <1>5, <1>6, <1>7, <1>8, <1>9

\* Every action keeps the invariant.
LEMMA NextIInv ==
  ASSUME IInv, [Next]_vars
  PROVE  IInv'
<1>1. DriveTypeOK /\ TypeOK /\ Held
  BY DEF IInv, TypeOK
<1>2. ASSUME NEW size \in SectorSizes, NEW readonly \in BOOLEAN,
             Create(size, readonly), UNCHANGED <<table, part>>
      PROVE  IInv'
  <2>1. DriveTypeOK'
    BY <1>1, <1>2, CreateType
  <2>2. table = NoTable
    BY <1>1, <1>2 DEF Create, Held
  <2> QED BY <1>1, <1>2, <2>1, <2>2 DEF IInv, TypeOK, Held
<1>3. ASSUME DeleteDrive, UNCHANGED <<table, part>> PROVE IInv'
  <2>1. Settled /\ drv' = NoDrive /\ reply' = NoReply /\ table = NoTable
    BY <1>3 DEF DeleteDrive, Delete, Settled
  <2>2. DriveTypeOK'
    BY <1>1, <2>1, SoughtProperties DEF DriveTypeOK
  <2> QED BY <1>1, <1>3, <2>1, <2>2 DEF IInv, TypeOK, Held
<1>4. ASSUME NEW lba \in Lbas, NEW size \in SectorSizes, NEW cnt \in 1 .. MaxCount,
             Read(lba, size, cnt), UNCHANGED <<table, part>>
      PROVE  IInv'
  <2>1. DriveTypeOK'
    BY <1>1, <1>4, ReadType
  <2> QED BY <1>1, <1>4, <2>1 DEF Read, IInv, TypeOK, Held
<1>5. ASSUME NEW lba \in Lbas, NEW size \in SectorSizes, NEW cnt \in 1 .. MaxCount,
             NEW buf \in Buffers, Write(lba, size, cnt, buf), UNCHANGED <<table, part>>
      PROVE  IInv'
  <2>1. DriveTypeOK'
    BY <1>1, <1>5, WriteType
  <2> QED BY <1>1, <1>5, <2>1 DEF Write, IInv, TypeOK, Held
<1>6. CASE ProcessEnds
  BY <1>1, <1>6 DEF ProcessEnds, Crash, IInv, TypeOK, Held, DriveTypeOK
<1>7. CASE \/ CreateTable
           \/ DeleteTable
           \/ \E i \in Iter : ListStart(i) \/ ListNextNone(i) \/ ListNextPart(i) \/ ListEnd(i)
  BY <1>7, TableStep
<1>8. CASE UNCHANGED vars
  BY <1>1, <1>8 DEF vars, IInv, TypeOK, Held, DriveTypeOK
<1> QED BY <1>2, <1>3, <1>4, <1>5, <1>6, <1>7, <1>8 DEF Next

\* The invariant holds throughout.
LEMMA SpecIInv == Spec => []IInv
<1>1. GptInit => IInv
  BY InitIInv
<1>2. IInv /\ [Next]_vars => IInv'
  BY NextIInv
<1> QED BY <1>1, <1>2, PTL DEF Spec

\* The drive, its image, the table and the iterators always have the values the
\* code's types allow (rawimage.c:80-98, gpt.c:26-117).
THEOREM GptTyped == Spec => []TypeOK
<1>1. IInv => TypeOK
  BY DEF IInv
<1> QED BY <1>1, SpecIInv, PTL
-----------------------------------------------------------------------------
\* The partition that spans the drive.

\* A drive just opened: its last sector ends where the file ends, or before.
LEMMA CreateSpans ==
  ASSUME DriveTypeOK, NEW size \in SectorSizes, NEW readonly \in BOOLEAN, Create(size, readonly)
  PROVE  SpansImage'
<1>1. /\ size \in Nat \ {0} /\ SectorWord \in Nat \ {0} /\ LbaWord \in Nat \ {0}
      /\ Len(file) \in Nat
  BY RawImageAssumption, ContentsType
<1>2. CASE drv' = NoDrive
  BY <1>2 DEF SpansImage
<1>3. CASE /\ Len(file) % size = 0 /\ file' = file
           /\ drv' = [sector_size |-> size % SectorWord,
                      lba_max |-> ((Len(file) \div size) - 1) % LbaWord,
                      readonly |-> readonly]
  <2> DEFINE q == Len(file) \div size
             s == size % SectorWord
             m == (q - 1) % LbaWord
  <2>1. q \in Nat /\ Len(file) = q * size
    BY <1>1, <1>3, SMT
  <2>2. s \in Nat /\ s <= size
    BY <1>1, SMT
  <2>3. drv'.sector_size = s /\ drv'.lba_max = m
    BY <1>3
  <2> HIDE DEF q, s, m
  <2>4. ASSUME m # LbaWord - 1, NEW lba \in 0 .. m
        PROVE  (lba * s) + s <= Len(file)
    <3>1. q # 0
      <4> SUFFICES ASSUME q = 0 PROVE FALSE
        OBVIOUS
      <4>1. (0 - 1) % LbaWord = LbaWord - 1
        BY <1>1, SMT
      <4> QED BY <2>4, <4>1 DEF m
    <3>2. m \in Nat /\ m <= q - 1
      <4>1. q - 1 \in Nat
        BY <2>1, <3>1
      <4> QED BY <1>1, <4>1, SMT DEF m
    <3>3. lba \in Nat /\ lba < q
      BY <2>1, <3>2
    <3>4. (lba * size) + size <= Len(file) /\ lba * size \in Nat
      BY <1>1, <2>1, <3>3, Apart
    <3>5. lba * s \in Nat /\ lba * s <= lba * size
      <4>1. lba * s \in Nat /\ lba * (size - s) \in Nat
        BY <1>1, <2>2, <3>3, SMT
      <4>2. lba * (size - s) = lba * size - lba * s
        BY <1>1, <2>2, <3>3, SMT
      <4> QED BY <3>4, <4>1, <4>2
    <3> QED BY <1>1, <2>2, <3>4, <3>5
  <2> SUFFICES ASSUME m # LbaWord - 1, NEW lba \in 0 .. m
               PROVE  (lba * s) + s <= Len(file')
    BY <2>3 DEF SpansImage, PartitionFromDrive, InFile, Offset
  <2> QED BY <1>3, <2>4
<1> QED BY <1>2, <1>3 DEF Create

\* The file never gets shorter, so a partition that fitted still does.
LEMMA StillSpans ==
  ASSUME SpansImage, drv' = drv, DriveTypeOK, Len(file') >= Len(file), Len(file') \in Nat
  PROVE  SpansImage'
<1> SUFFICES ASSUME drv # NoDrive, drv.sector_size # 0, drv.lba_max # LbaWord - 1,
                    NEW lba \in 0 .. drv.lba_max
             PROVE  (lba * drv.sector_size) + drv.sector_size <= Len(file')
  BY DEF SpansImage, PartitionFromDrive, InFile, Offset
<1>1. (lba * drv.sector_size) + drv.sector_size <= Len(file)
  BY DEF SpansImage, PartitionFromDrive, InFile, Offset
<1>2. drv.sector_size \in Nat /\ lba \in Nat /\ Len(file) \in Nat
  BY ContentsType DEF DriveTypeOK, DriveInfo
<1>3. lba * drv.sector_size \in Nat
  BY <1>2, SMT
<1> QED BY <1>1, <1>2, <1>3

\* A step keeps the partition inside the image.
LEMMA NextSpans ==
  ASSUME IInv, SpansImage, [Next]_vars
  PROVE  SpansImage'
<1>1. DriveTypeOK /\ DriveTypeOK'
  BY NextIInv DEF IInv, TypeOK
<1>2. Len(file') \in Nat /\ Len(file) \in Nat
  BY <1>1, LenProperties DEF DriveTypeOK
<1>3. ASSUME NEW size \in SectorSizes, NEW readonly \in BOOLEAN, Create(size, readonly)
      PROVE  SpansImage'
  BY <1>1, <1>3, CreateSpans
<1>4. CASE DeleteDrive \/ ProcessEnds
  BY <1>4 DEF DeleteDrive, Delete, ProcessEnds, Crash, SpansImage
<1>5. ASSUME NEW lba \in Lbas, NEW size \in SectorSizes, NEW cnt \in 1 .. MaxCount,
             Read(lba, size, cnt)
      PROVE  SpansImage'
  <2>1. drv' = drv /\ Settled
    BY <1>5 DEF Read, Settled
  <2> QED BY <1>1, <1>2, <2>1, SoughtProperties, StillSpans
<1>6. ASSUME NEW lba \in Lbas, NEW size \in SectorSizes, NEW cnt \in 1 .. MaxCount,
             NEW buf \in Buffers, Write(lba, size, cnt, buf)
      PROVE  SpansImage'
  <2>1. drv' = drv /\ Len(file') >= Len(file)
    BY <1>1, <1>6, WriteType DEF Write
  <2> QED BY <1>1, <1>2, <2>1, StillSpans
<1>7. CASE \/ CreateTable
           \/ DeleteTable
           \/ \E i \in Iter : ListStart(i) \/ ListNextNone(i) \/ ListNextPart(i) \/ ListEnd(i)
  BY <1>1, <1>2, <1>7, TableStep, SoughtProperties, StillSpans
<1>8. CASE UNCHANGED vars
  BY <1>1, <1>2, <1>8, StillSpans DEF vars
<1> QED BY <1>3, <1>4, <1>5, <1>6, <1>7, <1>8 DEF Next

\* The partition of a whole drive lies in its image: lba_max is taken from the
\* file once, and no read, write, deletion or crash makes the file shorter
\* (partition.c:28, rawimage.c:92).
THEOREM WholeDrivePartition == Spec => []SpansImage
<1>1. GptInit => SpansImage
  BY DEF GptInit, Init, SpansImage
<1>2. IInv /\ SpansImage /\ [Next]_vars => SpansImage'
  BY NextSpans
<1> QED BY <1>1, <1>2, SpecIInv, PTL DEF Spec-----------------------------------------------------------------------------
\* The drive implements SectorDevice.

\* A read that transferred nothing, or a write, leaves the image as it was.
LEMMA NothingWritten ==
  ASSUME NEW f \in Seq(Unit), NEW lba, NEW size, NEW buf
  PROVE  Device!Written(f, f, lba, size, 0, buf)
<1>1. Len(f) \in Nat /\ DOMAIN f = 1 .. Len(f)
  BY LenProperties
<1>2. \A p \in DOMAIN f : f[p] = IF p <= Len(f) THEN f[p] ELSE Zero
  BY <1>1
<1>3. 0 .. 0 - 1 = {}
  OBVIOUS
<1> QED BY <1>2, <1>3 DEF Device!Written

\* Steps that answer no caller keep the image and may bring the medium up to it,
\* or lose what was kept.
LEMMA SettleStep ==
  ASSUME DriveTypeOK, reply' = NoReply, Settled
  PROVE  Device!Settle \/ Device!SettleFaulty
BY SoughtProperties, Zenon DEF Device!Settle, Device!SettleFaulty, Device!SetBack

\* A read of the drive is a read of the device.
LEMMA ReadStep ==
  ASSUME DriveTypeOK, NEW lba \in Lbas, NEW size \in SectorSizes, NEW cnt \in 1 .. MaxCount,
         Read(lba, size, cnt)
  PROVE  \E n \in 0 .. MaxCount : Device!Read(lba, size, n) \/ Device!ReadFaulty(lba, size, n)
<1>1. drv \in DriveInfo /\ drv # NoDrive /\ drv' = drv
  BY DEF Read, DriveTypeOK
<1>2. MaxCount \in Nat /\ cnt \in Nat /\ lba \in Nat /\ size \in Nat \ {0}
  BY RawImageAssumption
<1>3. CASE size > drv.sector_size
  <2>1. reply' = [count |-> 0, data |-> <<>>] /\ UNCHANGED <<file, unwritten, faults>>
    BY <1>3 DEF Read
  <2>2. Contents' = Contents
    BY <2>1 DEF Contents
  <2> DEFINE data == SectorUnits(Contents, lba, size, 0)
  <2>3. data = <<>>
    <3>1. 1 .. 0 * size = {}
      BY <1>2, SMT
    <3>2. data \in [1 .. 0 -> Unit]
      BY <3>1 DEF SectorUnits
    <3> HIDE DEF data
    <3>3. data \in Seq(Unit) /\ Len(data) = 0
      BY <3>2, FunctionIsSeq
    <3> QED BY <3>3, EmptySeq
  <2> HIDE DEF data
  <2>4. reply' = [count |-> 0, data |-> data]
    BY <2>1, <2>3
  <2>5. Device!Read(lba, size, 0)
    BY <1>1, <2>1, <2>2, <2>4 DEF Device!Read, data, SectorUnits
  <2>6. 0 \in 0 .. MaxCount
    BY <1>2
  <2> QED BY <2>5, <2>6
<1>4. CASE ~(size > drv.sector_size)
  <2>1. PICK F \in FailedSeeks(0) :
          /\ reply' = [count |-> Turns(Start(F), F, lba, size, cnt),
                       data |-> Gathered(Start(F), F, lba, size, Turns(Start(F), F, lba, size, cnt))]
          /\ Sought(F)
    BY <1>4 DEF Read
  <2> DEFINE f == Start(F)
             n == Turns(f, F, lba, size, cnt)
             data == Gathered(f, F, lba, size, n)
  <2>2. n \in 0 .. cnt /\ \A k \in 0 .. n - 1 : InFile(f, Landing(F, lba, k), size)
    BY <1>2, TurnsProperties
  <2>3. reply' = [count |-> n, data |-> data]
    BY <2>1
  <2>4. /\ f \in Seq(Unit) /\ (0 \in F => unwritten \in Chunk)
        /\ F = {} \/ F = {0}
    BY StartProperties
  <2>5. file' = f /\ unwritten' = NoData /\ faults' = (IF F = {} THEN faults ELSE faults + 1)
    BY <2>1 DEF Sought, Counted
  <2>6. Contents' = f
    BY <2>5 DEF Contents
  <2>7. f = (IF 0 \in F THEN file ELSE Contents)
    BY DEF Start
  <2> HIDE DEF f, n
  <2>8. n \in Nat /\ n \in 0 .. MaxCount
    BY <1>2, <2>2
  <2>9. /\ data \in Seq(Unit) /\ Len(data) = n * size
        /\ \A i \in 1 .. n * size : (i - 1) \div size \notin F =>
             data[i] = f[Device!Place(lba, (i - 1) \div size, (i - 1) % size)]
        /\ F = {} => data = SectorUnits(f, lba, size, n)
    <3>1. /\ f \in Seq(Unit) /\ n \in Nat /\ (0 \in F => unwritten \in Chunk)
          /\ \A k \in 0 .. n - 1 : InFile(f, Landing(F, lba, k), size)
      BY <2>2, <2>4, <2>8
    <3>2. /\ Gathered(f, F, lba, size, n) \in Seq(Unit)
          /\ Len(Gathered(f, F, lba, size, n)) = n * size
          /\ drv # NoDrive => \A i \in 1 .. n * size : (i - 1) \div size \notin F =>
               Gathered(f, F, lba, size, n)[i]
                 = f[Device!Place(lba, (i - 1) \div size, (i - 1) % size)]
          /\ drv # NoDrive /\ F = {} =>
               Gathered(f, F, lba, size, n) = SectorUnits(f, lba, size, n)
      BY <1>1, <1>2, <3>1, GatheredProperties
    <3> QED BY <1>1, <3>2
  <2> HIDE DEF data
  <2>10. ASSUME n > 0, n - 1 \notin F PROVE Device!Place(lba, n - 1, size - 1) <= Len(f)
    <3>1. n - 1 \in 0 .. n - 1
      BY <2>8, <2>10
    <3>2. InFile(f, Landing(F, lba, n - 1), size)
      BY <2>2, <3>1
    <3> QED BY <1>1, <1>2, <2>4, <2>8, <2>10, <3>2, LastRead
  <2>11. CASE F = {}
    <3>1. faults' = faults /\ Contents' = Contents /\ file' = Contents /\ f = Contents
      BY <2>5, <2>6, <2>7, <2>11
    <3>2. n > 0 => Device!Place(lba, n - 1, size - 1) <= Len(f)
      BY <2>10, <2>11
    <3>3. data = SectorUnits(f, lba, size, n)
      BY <2>9, <2>11
    <3>4. Device!Read(lba, size, n)
      BY <1>1, <2>3, <3>1, <3>2, <3>3, Zenon DEF Device!Read, SectorUnits
    <3> QED BY <2>8, <3>4
  <2>12. CASE F = {0}
    <3>1. faults' = faults + 1 /\ Contents' = file /\ file' = file /\ f = file
      BY <2>5, <2>6, <2>7, <2>12
    <3>2. n > 1 => Device!Place(lba, n - 1, size - 1) <= Len(f)
      <4>1. n > 1 => n > 0 /\ n - 1 \notin F
        BY <2>8, <2>12
      <4> QED BY <2>10, <4>1
    <3>3. reply' \notin {NoReply, Crashed}
      BY <2>3, <2>8, <2>9, RawImageAssumption
    <3>4. reply'.count = n /\ reply'.data = data
      BY <2>3
    <3>5. ASSUME NEW i \in size + 1 .. n * size
          PROVE  data[i] = f[Device!Place(lba, (i - 1) \div size, (i - 1) % size)]
      <4>1. n * size \in Nat
        BY <1>2, <2>8, SMT
      <4>2. i \in 1 .. n * size
        BY <1>2, <4>1
      <4>3. (i - 1) \div size # 0
        BY <1>2, <4>1, SMT
      <4>4. (i - 1) \div size \notin F
        BY <2>12, <4>3
      <4> QED BY <2>9, <4>2, <4>4
    <3>6. Device!SetBack
      BY <3>1 DEF Device!SetBack
    <3>7. Device!ReadFaulty(lba, size, n)
      BY <1>1, <2>6, <2>9, <3>2, <3>3, <3>4, <3>5, <3>6, Zenon DEF Device!ReadFaulty
    <3> QED BY <2>8, <3>7
  <2> QED BY <2>4, <2>11, <2>12
<1> QED BY <1>3, <1>4

\* A write of the drive is a write of the device.
LEMMA WriteStep ==
  ASSUME DriveTypeOK, NEW lba \in Lbas, NEW size \in SectorSizes, NEW cnt \in 1 .. MaxCount,
         NEW buf \in Buffers, Write(lba, size, cnt, buf)
  PROVE  \E n \in 0 .. MaxCount : Device!Write(lba, size, n, buf) \/ Device!WriteFaulty(n, buf)
<1>1. drv \in DriveInfo /\ drv # NoDrive /\ drv' = drv
  BY DEF Write, DriveTypeOK
<1>2. MaxCount \in Nat /\ cnt \in Nat /\ lba \in Nat /\ 0 \in 0 .. MaxCount
  BY RawImageAssumption
<1>3. Contents \in Seq(Unit)
  BY ContentsType
<1>4. CASE reply' = [count |-> 0, data |-> <<>>] /\ UNCHANGED <<file, unwritten, faults>>
  <2>1. Contents' = Contents
    BY <1>4 DEF Contents
  <2>2. Device!Written(Contents, Contents', lba, size, 0, buf)
    BY <1>3, <2>1, NothingWritten
  <2>3. Device!Write(lba, size, 0, buf)
    BY <1>1, <1>4, <2>2 DEF Device!Write
  <2> QED BY <1>2, <2>3
<1>5. ASSUME size <= drv.sector_size, NEW n \in WriteTurns(cnt),
             WriteLoop({}, lba, size, cnt, n, buf), faults' = faults,
             reply' = [count |-> n, data |-> <<>>]
      PROVE  \E m \in 0 .. MaxCount : Device!Write(lba, size, m, buf)
  <2>0. Start({}) = Contents
    BY DEF Start
  <2>1. n \in 0 .. cnt /\ n \in 0 .. MaxCount
    BY <1>2, <1>5 DEF WriteTurns
  <2>2. CASE /\ file' = Scattered(Contents, {}, lba, size, n, buf)
             /\ unwritten' = NoData
    <3>1. Contents' = file'
      BY <2>2 DEF Contents
    <3>2. Device!Written(Contents, Scattered(Contents, {}, lba, size, n, buf), lba, size, n, buf)
      BY <1>1, <1>2, <1>3, <1>5, <2>1, WrittenScattered
    <3>3. Device!Write(lba, size, n, buf)
      BY <1>1, <1>5, <2>2, <3>1, <3>2 DEF Device!Write
    <3> QED BY <2>1, <3>3
  <2>3. CASE /\ n = cnt
             /\ file' = Scattered(Contents, {}, lba, size, n - 1, buf)
             /\ unwritten' = [at |-> Landing({}, lba, n - 1), data |-> Part(buf, size, n - 1)]
    <3>1. n \in 1 .. MaxCount /\ n - 1 \in 0 .. MaxCount /\ n - 1 \in 0 .. MaxCount - 1
          /\ lba + n - 1 \in Nat /\ n - 1 \in Nat /\ lba + (n - 1) = lba + n - 1
      BY <1>2, <2>1, <2>3
    <3>2. Landing({}, lba, n - 1) = Offset(lba + n - 1)
      BY <3>1, LandingSought
    <3>3. unwritten' # NoData
      <4>1. Offset(lba + n - 1) \in Nat
        <5>1. drv.sector_size \in Nat
          BY <1>1 DEF DriveInfo
        <5> QED BY <3>1, <5>1, SMT DEF Offset
      <4>2. Part(buf, size, n - 1) \in Seq(Unit)
        BY <3>1, PartProperties
      <4>3. unwritten' \in [at : Nat, data : Seq(Unit)]
        BY <2>3, <3>2, <4>1, <4>2
      <4> QED BY <4>3, RawImageAssumption
    <3>4. Contents' = Patched(file', Offset(lba + n - 1), Part(buf, size, n - 1))
      BY <2>3, <3>2, <3>3 DEF Contents
    <3>5. Contents' = Scattered(Contents, {}, lba, size, n, buf)
      BY <1>1, <1>2, <1>3, <2>3, <3>1, <3>4, ScatteredLast
    <3>6. Device!Written(Contents, Contents', lba, size, n, buf)
      BY <1>1, <1>2, <1>3, <1>5, <2>1, <3>5, WrittenScattered
    <3>7. Device!Written(Contents, file', lba, size, n - 1, buf)
      BY <1>1, <1>2, <1>3, <1>5, <2>3, <3>1, WrittenScattered
    <3>8. n > 0
      BY <1>2, <3>1
    <3>9. Device!Write(lba, size, n, buf)
      BY <1>1, <1>5, <3>6, <3>7, <3>8 DEF Device!Write
    <3> QED BY <2>1, <3>9
  <2> QED BY <1>5, <2>0, <2>2, <2>3 DEF WriteLoop
<1>6. ASSUME NEW n \in WriteTurns(cnt), NEW F \in LoopSeeks(cnt, n),
             WriteLoop(F, lba, size, cnt, n, buf), faults' = faults + 1,
             reply' = [count |-> n, data |-> <<>>]
      PROVE  \E m \in 0 .. MaxCount : Device!WriteFaulty(m, buf)
  <2>1. n \in 0 .. cnt /\ n \in 0 .. MaxCount
    BY <1>2, <1>6 DEF WriteTurns
  <2>2. Made(file', buf) /\ Made(Contents', buf)
    BY <1>1, <1>6, <2>1, WriteMade
  <2>3. Device!WriteFaulty(n, buf)
    BY <1>1, <1>6, <2>2 DEF Device!WriteFaulty, Made
  <2> QED BY <2>1, <2>3
<1>7. \/ reply' = [count |-> 0, data |-> <<>>] /\ UNCHANGED <<file, unwritten, faults>>
      \/ \E n \in WriteTurns(cnt) : \E F \in LoopSeeks(cnt, n) :
           /\ size <= drv.sector_size
           /\ WriteLoop(F, lba, size, cnt, n, buf)
           /\ faults' = IF F = {} THEN faults ELSE faults + 1
           /\ reply' = [count |-> n, data |-> <<>>]
  BY DEF Write, Counted
<1> QED BY <1>4, <1>5, <1>6, <1>7

\* Every step is a step of the device, or none.
LEMMA DeviceStep ==
  ASSUME IInv, [Next]_vars
  PROVE  [Device!Next]_(Device!vars)
<1>1. DriveTypeOK
  BY DEF IInv, TypeOK
<1>2. ASSUME NEW size \in SectorSizes, NEW readonly \in BOOLEAN, Create(size, readonly)
      PROVE  Device!Next
  BY <1>1, <1>2, SettleStep DEF Create, Settled, Device!Next
<1>3. CASE DeleteDrive
  <2>1. Settled /\ reply' = NoReply
    BY <1>3 DEF DeleteDrive, Delete, Settled
  <2> QED BY <1>1, <2>1, SettleStep DEF Device!Next
<1>4. ASSUME NEW lba \in Lbas, NEW size \in SectorSizes, NEW cnt \in 1 .. MaxCount,
             Read(lba, size, cnt)
      PROVE  Device!Next
  BY <1>1, <1>4, ReadStep DEF Device!Next
<1>5. ASSUME NEW lba \in Lbas, NEW size \in SectorSizes, NEW cnt \in 1 .. MaxCount,
             NEW buf \in Buffers, Write(lba, size, cnt, buf)
      PROVE  Device!Next
  BY <1>1, <1>5, WriteStep DEF Device!Next
<1>6. CASE ProcessEnds
  <2>1. /\ drv' = NoDrive /\ unwritten' = NoData /\ reply' = Crashed
        /\ file' = file /\ faults' = faults
    BY <1>6 DEF ProcessEnds, Crash
  <2>2. Contents' = file
    BY <2>1 DEF Contents
  <2>3. Device!Crash
    BY <2>1, <2>2 DEF Device!Crash, Device!NoSector
  <2> QED BY <2>3 DEF Device!Next
<1>7. CASE \/ CreateTable
           \/ DeleteTable
           \/ \E i \in Iter : ListStart(i) \/ ListNextNone(i) \/ ListNextPart(i) \/ ListEnd(i)
  BY <1>1, <1>7, TableStep, SettleStep DEF Device!Next
<1>8. CASE UNCHANGED vars
  BY <1>8 DEF vars, Contents, Device!vars
<1> QED BY <1>2, <1>3, <1>4, <1>5, <1>6, <1>7, <1>8 DEF Next

\* A raw image drive is a device of sectors, whatever the loops of read_sector
\* and write_sector, the gaps of the file and the library's buffer do: a read
\* answers with whole sectors of it, a write replaces whole sectors and nothing
\* else, and a crash undoes at most the last sector written (rawimage.c:18-71).
\* That is so of every call in which the library wrote out what it kept.  One in
\* which it could not, which fseek and fclose return and nothing looks at, loses
\* the last sector written; a read may then answer its first sector with
\* another, and a write puts units of its own buffer anywhere, and no others.
THEOREM DriveImplementsDevice == Spec => ImplementsDevice
<1>1. GptInit => Device!Init
  BY DEF GptInit, Init, Contents, Device!Init, Device!NoSector
<1>2. IInv /\ [Next]_vars => [Device!Next]_(Device!vars)
  BY DeviceStep
<1> QED BY <1>1, <1>2, SpecIInv, PTL DEF Spec, ImplementsDevice, Device!Spec-----------------------------------------------------------------------------
\* The listing of a table.

\* On a drive of 512-byte sectors list_next finds entry idx where the format has it.
LEMMA EntryRead ==
  ASSUME DriveTypeOK, drv \in DriveInfo, table \in Table, TableReadable,
         NEW idx \in Nat, HasEntry(idx), NEW stack
  PROVE  EntryFound({}, stack, idx) = TableEntry(idx)
<1> DEFINE q == idx \div 4
           r == idx % 4
           start == table.lba_part_entry_start
           count == table.part_entry_count
           len == Len(Contents)
<1>1. idx = 4 * q + r /\ q \in Nat /\ r \in 0 .. 3
  OBVIOUS
<1>2. start \in Nat /\ count \in Nat /\ len \in Nat /\ idx < count
  BY ContentsType DEF Table, HasEntry
<1>3. drv.sector_size = 4 /\ start * 4 + count <= len /\ len % 4 = 0
  BY DEF TableReadable, BufSize
<1> HIDE DEF q, r, start, count, len
<1>4. EntrySector(idx) = start + q /\ EntryPlace(idx) = r + 1
  BY DEF EntrySector, EntryPlace, q, r, start
<1>5. (start + q) * 4 + 4 <= len
  <2> DEFINE l == len \div 4
  <2>1. l \in Nat /\ len = 4 * l
    BY <1>2, <1>3
  <2> HIDE DEF l
  <2> QED BY <1>1, <1>2, <1>3, <2>1
<1>6. /\ Start({}) = Contents /\ (start + q) * 4 \in Nat
      /\ Landing({}, EntrySector(idx), 0) = (start + q) * 4
  <2>1. Landing({}, EntrySector(idx), 0) = Offset(EntrySector(idx) + 0)
    BY LandingSought
  <2>2. EntrySector(idx) + 0 = start + q /\ (start + q) * 4 \in Nat
    BY <1>1, <1>2, <1>4
  <2> QED BY <1>3, <2>1, <2>2 DEF Start, Offset
<1>7. EntryFound({}, stack, idx) = Contents[(start + q) * 4 + (r + 1)]
  <2>1. SectorBuf(stack, Contents, (start + q) * 4) = Sector(Contents, (start + q) * 4, BufSize)
    BY <1>3, <1>5 DEF SectorBuf, InFile, BufSize, len
  <2>2. r + 1 \in 1 .. BufSize
    BY <1>1 DEF BufSize
  <2> HIDE DEF Contents
  <2>3. Sector(Contents, (start + q) * 4, BufSize)[r + 1] = Contents[(start + q) * 4 + (r + 1)]
    BY <2>2 DEF Sector
  <2> QED BY <1>4, <1>6, <2>1, <2>3 DEF EntryFound
<1>8. (start + q) * 4 + (r + 1) = start * BufSize + idx + 1
  BY <1>1, <1>2 DEF BufSize
<1> QED BY <1>7, <1>8 DEF TableEntry, start

\* The entries before the first unused one.
LEMMA LeadingEntriesProperties ==
  ASSUME table \in Table
  PROVE  /\ LeadingEntries \in 0 .. table.part_entry_count
         /\ \A k \in 0 .. LeadingEntries - 1 : IsUsed(TableEntry(k))
         /\ LeadingEntries < table.part_entry_count => ~IsUsed(TableEntry(LeadingEntries))
<1> DEFINE count == table.part_entry_count
           T == {k \in 0 .. count : IsUsed(TableEntry(k))}
<1>1. count \in Nat
  BY DEF Table
<1> HIDE DEF count
<1>2. PICK m \in 0 .. count : (\A k \in 0 .. m - 1 : k \in T) /\ (m < count => m \notin T)
  BY <1>1, FirstOutside
<1>3. /\ \A k \in 0 .. m - 1 : IsUsed(TableEntry(k))
      /\ m < count => ~IsUsed(TableEntry(m))
  BY <1>2
<1>4. \E n \in 0 .. count : /\ \A k \in 0 .. n - 1 : IsUsed(TableEntry(k))
                            /\ n < count => ~IsUsed(TableEntry(n))
  BY <1>3
<1> QED BY <1>4, Zenon DEF LeadingEntries, count

\* What users of the drive leave alone while a table is open: they do not bring
\* the sectors of a table into the image that ended before them, and they do
\* not clear its used entries.
KeepsTable ==
  table # NoTable /\ table' = table /\ TableReadable' =>
    /\ TableReadable
    /\ \A k \in 0 .. table.part_entry_count - 1 :
         IsUsed(TableEntry(k)) => IsUsed(TableEntry(k)')

\* The entries before k are used.
UsedBefore(k) == /\ k <= table.part_entry_count
                 /\ \A j \in 0 .. k - 1 : IsUsed(TableEntry(j))

\* What an iterator has listed are the used entries at the head of the table, as
\* long as nothing that was kept got lost.
ListedUsed ==
  faults = 0 /\ TableReadable => \A i \in Iter : part[i] # NoIter => UsedBefore(Listed(i))

\* Below an iterator that is held there is an open table.
LEMMA ListedType ==
  ASSUME IInv, NEW i \in Iter, part[i] # NoIter
  PROVE  /\ Listed(i) \in Nat /\ part[i] \in PartInfo
         /\ table # NoTable /\ table \in Table /\ drv # NoDrive /\ drv \in DriveInfo
<1>1. part[i] \in PartInfo
  BY DEF IInv, TypeOK
<1>2. Listed(i) \in Nat
  BY <1>1 DEF PartInfo, Listed
<1> QED BY <1>1, <1>2 DEF IInv, TypeOK, Held, DriveTypeOK

\* The seek of a read of sector_buf works in a step that counts no fault.
LEMMA BufSought ==
  ASSUME DriveTypeOK, NEW F \in BufSeeks, SoughtBySector(F), faults' = faults
  PROVE  F = {}
<1>1. faults \in Nat
  BY DEF DriveTypeOK
<1>2. CASE BufSize <= drv.sector_size
  <2>1. faults' = IF F = {} THEN faults ELSE faults + 1
    BY <1>2 DEF SoughtBySector, Sought, Counted
  <2> QED BY <1>1, <2>1
<1>3. CASE ~(BufSize <= drv.sector_size)
  BY <1>3 DEF BufSeeks
<1> QED BY <1>2, <1>3

\* Faults are never forgotten.
LEMMA FaultsStay ==
  ASSUME IInv, Next, faults' = 0
  PROVE  faults = 0
<1>1. DriveTypeOK /\ faults \in Nat
  BY DEF IInv, TypeOK, DriveTypeOK
<1>2. CASE Settled
  BY <1>1, <1>2, SoughtProperties
<1>3. ASSUME NEW size \in SectorSizes, NEW readonly \in BOOLEAN, Create(size, readonly) PROVE Settled
  BY <1>3 DEF Create, Settled
<1>4. CASE DeleteDrive
  BY <1>2, <1>4 DEF DeleteDrive, Delete, Settled
<1>5. ASSUME NEW lba \in Lbas, NEW size \in SectorSizes, NEW cnt \in 1 .. MaxCount,
             Read(lba, size, cnt)
      PROVE  Settled
  BY <1>5 DEF Read, Settled
<1>6. ASSUME NEW lba \in Lbas, NEW size \in SectorSizes, NEW cnt \in 1 .. MaxCount,
             NEW buf \in Buffers, Write(lba, size, cnt, buf)
      PROVE  faults = 0
  <2>1. faults' = faults \/ faults' = faults + 1
    BY <1>6 DEF Write, Counted
  <2> QED BY <1>1, <2>1
<1>7. CASE ProcessEnds
  BY <1>7 DEF ProcessEnds, Crash
<1>8. CASE \/ CreateTable
           \/ DeleteTable
           \/ \E i \in Iter : ListStart(i) \/ ListNextNone(i) \/ ListNextPart(i) \/ ListEnd(i)
  BY <1>2, <1>8, TableStep
<1> QED BY <1>2, <1>3, <1>4, <1>5, <1>6, <1>7, <1>8 DEF Next

\* One step of a listing: list_next returns 0 with the entry behind those it has
\* listed, which is used, and 1 behind the last entry or at an unused one.
LEMMA NextEntry ==
  ASSUME IInv, TableReadable, NEW i \in Iter, faults' = faults
  PROVE  /\ ListNextPart(i) =>
              /\ Listed(i) < table.part_entry_count
              /\ part'[i].entry = TableEntry(Listed(i)) /\ IsUsed(TableEntry(Listed(i)))
              /\ Listed(i)' = Listed(i) + 1
              /\ \A j \in Iter \ {i} : part'[j] = part[j]
         /\ ListNextNone(i) =>
              /\ \/ Listed(i) >= table.part_entry_count
                 \/ ~IsUsed(TableEntry(Listed(i)))
              /\ Listed(i)' = Listed(i)
              /\ \A j \in Iter \ {i} : part'[j] = part[j]
<1>1. ASSUME part[i] # NoIter, NEW stack, HasEntry(Listed(i))
      PROVE EntryFound({}, stack, Listed(i)) = TableEntry(Listed(i))
  BY <1>1, ListedType, EntryRead DEF IInv, TypeOK
<1>2. part \in [Iter -> PartInfo \cup {NoIter}]
  BY DEF IInv, TypeOK
<1>3. ASSUME ListNextPart(i)
      PROVE  /\ Listed(i) < table.part_entry_count
             /\ part'[i].entry = TableEntry(Listed(i)) /\ IsUsed(TableEntry(Listed(i)))
             /\ Listed(i)' = Listed(i) + 1
             /\ \A j \in Iter \ {i} : part'[j] = part[j]
  <2>1. part[i] # NoIter /\ HasEntry(Listed(i))
    BY <1>3 DEF ListNextPart, Listed
  <2>2. PICK stack \in Stack : /\ IsUsed(EntryFound({}, stack, Listed(i)))
                               /\ part' = Passed(i, Listed(i), EntryFound({}, stack, Listed(i)))
    <3>1. PICK F \in BufSeeks, stack \in Stack :
            /\ IsUsed(EntryFound(F, stack, Listed(i)))
            /\ part' = Passed(i, Listed(i), EntryFound(F, stack, Listed(i)))
            /\ SoughtBySector(F)
      BY <1>3 DEF ListNextPart, Listed
    <3>2. F = {}
      BY <3>1, BufSought DEF IInv, TypeOK
    <3> QED BY <3>1, <3>2
  <2>3. IsUsed(TableEntry(Listed(i))) /\ part' = Passed(i, Listed(i), TableEntry(Listed(i)))
    BY <1>1, <2>1, <2>2
  <2>4. part' = [part EXCEPT ![i] = [idx |-> Listed(i) + 1, valid |-> TRUE,
                                     entry |-> TableEntry(Listed(i))]]
    BY <2>3 DEF Passed
  <2>5. part'[i] = [idx |-> Listed(i) + 1, valid |-> TRUE, entry |-> TableEntry(Listed(i))]
    BY <1>2, <2>4
  <2>6. part'[i].entry = TableEntry(Listed(i)) /\ Listed(i)' = Listed(i) + 1
    BY <2>5 DEF Listed
  <2>7. \A j \in Iter \ {i} : part'[j] = part[j]
    BY <1>2, <2>4
  <2>8. Listed(i) < table.part_entry_count
    BY <2>1 DEF HasEntry
  <2> QED BY <2>3, <2>6, <2>7, <2>8
<1>4. ASSUME ListNextNone(i)
      PROVE  /\ \/ Listed(i) >= table.part_entry_count
                \/ ~IsUsed(TableEntry(Listed(i)))
             /\ Listed(i)' = Listed(i)
             /\ \A j \in Iter \ {i} : part'[j] = part[j]
  <2>1. part[i] # NoIter /\ part' = [part EXCEPT ![i].idx = Listed(i)]
    BY <1>4 DEF ListNextNone, Listed
  <2>2. Listed(i) \in Nat /\ table.part_entry_count \in Nat /\ part[i] \in PartInfo
    BY <2>1, ListedType DEF Table
  <2>3. part'[i] = [part[i] EXCEPT !.idx = Listed(i)]
    BY <1>2, <2>1
  <2>4. part'[i].valid = part[i].valid /\ part'[i].idx = Listed(i)
    BY <2>2, <2>3 DEF PartInfo
  <2>5. Listed(i)' = Listed(i)
    BY <2>4 DEF Listed
  <2>6. \A j \in Iter \ {i} : part'[j] = part[j]
    BY <1>2, <2>1
  <2>7. CASE ~HasEntry(Listed(i))
    BY <2>2, <2>5, <2>6, <2>7 DEF HasEntry
  <2>8. CASE HasEntry(Listed(i))
    <3>1. PICK stack \in Stack : ~IsUsed(EntryFound({}, stack, Listed(i)))
      <4>1. PICK F \in BufSeeks, stack \in Stack :
              ~IsUsed(EntryFound(F, stack, Listed(i))) /\ SoughtBySector(F)
        BY <1>4, <2>8 DEF ListNextNone, Listed
      <4>2. F = {}
        BY <4>1, BufSought DEF IInv, TypeOK
      <4> QED BY <4>1, <4>2
    <3>2. ~IsUsed(TableEntry(Listed(i)))
      BY <1>1, <2>1, <2>8, <3>1
    <3> QED BY <2>5, <2>6, <3>2
  <2> QED BY <2>7, <2>8
<1> QED BY <1>3, <1>4

\* Used entries stay used while the table is kept.
LEMMA StaysUsed ==
  ASSUME table \in Table, table # NoTable, table' = table, TableReadable', KeepsTable,
         NEW k \in Nat, UsedBefore(k)
  PROVE  UsedBefore(k)'
<1>1. table.part_entry_count \in Nat
  BY DEF Table
<1>2. \A j \in 0 .. table.part_entry_count - 1 : IsUsed(TableEntry(j)) => IsUsed(TableEntry(j)')
  BY DEF KeepsTable
<1>3. ASSUME NEW j \in 0 .. k - 1 PROVE IsUsed(TableEntry(j)')
  <2>1. j \in 0 .. table.part_entry_count - 1 /\ IsUsed(TableEntry(j))
    BY <1>1 DEF UsedBefore
  <2> QED BY <1>2, <2>1
<1>4. k <= table'.part_entry_count
  BY DEF UsedBefore
<1> QED BY <1>3, <1>4 DEF UsedBefore, IsUsed

\* The entries an iterator has passed stay used.
LEMMA ListedKept ==
  ASSUME table \in Table, table # NoTable, table' = table, TableReadable', KeepsTable,
         NEW i \in Iter, NEW k \in Nat, UsedBefore(k), Listed(i)' = k
  PROVE  UsedBefore(Listed(i))'
<1>1. UsedBefore(k)'
  BY StaysUsed
<1> QED BY <1>1 DEF UsedBefore

\* A step keeps what the iterators have listed in order.
LEMMA ListedUsedStep ==
  ASSUME IInv, ListedUsed, Next, KeepsTable
  PROVE  ListedUsed'
<1> SUFFICES ASSUME faults' = 0, TableReadable', NEW i \in Iter, part'[i] # NoIter
             PROVE  UsedBefore(Listed(i))'
  BY DEF ListedUsed
<1>0. faults = 0 /\ faults' = faults
  BY FaultsStay
<1>1. part \in [Iter -> PartInfo \cup {NoIter}]
  BY DEF IInv, TypeOK
<1>2. CASE part[i] # NoIter /\ table' = table /\ Listed(i)' = Listed(i)
  <2>1. Listed(i) \in Nat /\ table # NoTable /\ table \in Table
    BY <1>2, ListedType
  <2>2. TableReadable
    BY <1>2, <2>1 DEF KeepsTable
  <2>3. UsedBefore(Listed(i))
    BY <1>0, <1>2, <2>2 DEF ListedUsed
  <2>4. PICK k \in Nat : k = Listed(i)
    BY <2>1
  <2>5. UsedBefore(k) /\ Listed(i)' = k
    BY <1>2, <2>3, <2>4
  <2> QED BY <1>2, <2>1, <2>5, ListedKept
<1>3. CASE ListStart(i)
  <2>1. part'[i] = [idx |-> 0, valid |-> FALSE, entry |-> NoEntry]
    BY <1>1, <1>3 DEF ListStart
  <2>2. Listed(i)' = 0
    BY <2>1 DEF Listed
  <2>3. table' = table /\ table \in Table
    BY <1>3 DEF ListStart, IInv, TypeOK
  <2>4. 0 <= table'.part_entry_count
    BY <2>3 DEF Table
  <2> QED BY <2>2, <2>4 DEF UsedBefore
<1>4. CASE ListNextPart(i)
  <2>1. part[i] # NoIter /\ table' = table
    BY <1>4 DEF ListNextPart
  <2>2. Listed(i) \in Nat /\ table # NoTable /\ table \in Table
    BY <2>1, ListedType
  <2>3. TableReadable
    BY <2>1, <2>2 DEF KeepsTable
  <2>4. UsedBefore(Listed(i))
    BY <1>0, <2>1, <2>3 DEF ListedUsed
  <2>5. /\ Listed(i) < table.part_entry_count /\ IsUsed(TableEntry(Listed(i)))
        /\ Listed(i)' = Listed(i) + 1
    BY <1>0, <1>4, <2>3, NextEntry
  <2>6. PICK k \in Nat : k = Listed(i) + 1
    BY <2>2
  <2>7. UsedBefore(k)
    <3>1. table.part_entry_count \in Nat
      BY <2>2 DEF Table
    <3>2. k <= table.part_entry_count
      BY <2>2, <2>5, <2>6, <3>1
    <3>3. ASSUME NEW j \in 0 .. k - 1 PROVE IsUsed(TableEntry(j))
      <4>1. j = Listed(i) \/ j \in 0 .. Listed(i) - 1
        BY <2>2, <2>6
      <4> QED BY <2>4, <2>5, <4>1 DEF UsedBefore
    <3> QED BY <3>2, <3>3 DEF UsedBefore
  <2>8. Listed(i)' = k
    BY <2>5, <2>6
  <2> QED BY <2>1, <2>2, <2>7, <2>8, ListedKept
<1>5. ASSUME part' = part, table' = table PROVE UsedBefore(Listed(i))'
  <2>1. part[i] # NoIter /\ Listed(i)' = Listed(i)
    BY <1>5 DEF Listed
  <2> QED BY <1>2, <1>5, <2>1
<1>6. ASSUME NEW j \in Iter, ListNextNone(j) PROVE UsedBefore(Listed(i))'
  <2>1. part[j] # NoIter /\ table' = table
    BY <1>6 DEF ListNextNone
  <2>2. table # NoTable
    BY <2>1, ListedType
  <2>3. TableReadable
    BY <2>1, <2>2 DEF KeepsTable
  <2>4. CASE i = j
    BY <1>0, <1>2, <1>6, <2>1, <2>3, <2>4, NextEntry
  <2>5. CASE i # j
    <3>1. part'[i] = part[i]
      BY <1>0, <1>6, <2>3, <2>5, NextEntry
    <3> QED BY <1>2, <2>1, <3>1 DEF Listed
  <2> QED BY <2>4, <2>5
<1>7. ASSUME NEW j \in Iter \ {i}, ListStart(j) \/ ListEnd(j) \/ ListNextPart(j)
      PROVE UsedBefore(Listed(i))'
  <2>1. table' = table /\ part'[i] = part[i]
    BY <1>1, <1>7 DEF ListStart, ListEnd, ListNextPart, Passed
  <2> QED BY <1>2, <2>1 DEF Listed
<1>8. CASE ListEnd(i)
  BY <1>1, <1>8 DEF ListEnd
<1>9. CASE CreateTable \/ DeleteTable \/ ProcessEnds
  <2>1. part'[i] = NoIter
    <3>1. CASE CreateTable
      BY <3>1 DEF CreateTable, IInv, Held
    <3>2. CASE DeleteTable
      BY <3>2 DEF DeleteTable, Started
    <3>3. CASE ProcessEnds
      BY <3>3 DEF ProcessEnds
    <3> QED BY <1>9, <3>1, <3>2, <3>3
  <2> QED BY <2>1
<1> QED BY <1>3, <1>4, <1>5, <1>6, <1>7, <1>8, <1>9 DEF Next

\* So does a step that changes nothing.
LEMMA ListedUsedStutter ==
  ASSUME ListedUsed, UNCHANGED vars
  PROVE  ListedUsed'
<1>1. /\ Contents' = Contents /\ drv' = drv /\ table' = table /\ part' = part
      /\ faults' = faults
  BY DEF vars, Contents
<1> QED BY <1>1 DEF ListedUsed, TableReadable, UsedBefore, TableEntry, Listed

InOrder(i) ==
  /\ ListNextPart(i) =>
       /\ Listed(i) < LeadingEntries
       /\ part'[i].entry = TableEntry(Listed(i))
       /\ Listed(i)' = Listed(i) + 1
  /\ ListNextNone(i) => Listed(i) >= LeadingEntries

\* With what was listed used, the steps are in the order of the table.
LEMMA OrderedStep ==
  ASSUME IInv, ListedUsed, Next, TableReadable, faults' = 0, NEW i \in Iter
  PROVE  InOrder(i)
<1>0. faults = 0 /\ faults' = faults
  BY FaultsStay
<1>1. CASE part[i] = NoIter
  BY <1>1 DEF InOrder, ListNextPart, ListNextNone
<1>2. CASE part[i] # NoIter
  <2>1. Listed(i) \in Nat /\ table \in Table
    BY <1>2, ListedType
  <2>2. table.part_entry_count \in Nat
    BY <2>1 DEF Table
  <2>3. /\ LeadingEntries \in 0 .. table.part_entry_count
        /\ \A k \in 0 .. LeadingEntries - 1 : IsUsed(TableEntry(k))
        /\ LeadingEntries < table.part_entry_count => ~IsUsed(TableEntry(LeadingEntries))
    BY <2>1, LeadingEntriesProperties
  <2>4. UsedBefore(Listed(i))
    BY <1>0, <1>2 DEF ListedUsed
  <2>5. ASSUME ListNextPart(i) PROVE Listed(i) < LeadingEntries
    <3>1. Listed(i) < table.part_entry_count /\ IsUsed(TableEntry(Listed(i)))
      BY <1>0, <2>5, NextEntry
    <3> SUFFICES ASSUME LeadingEntries <= Listed(i) PROVE FALSE
      BY <2>1, <2>3
    <3>2. ~IsUsed(TableEntry(LeadingEntries))
      BY <2>1, <2>2, <2>3, <3>1
    <3>3. LeadingEntries = Listed(i) \/ LeadingEntries \in 0 .. Listed(i) - 1
      BY <2>1, <2>3
    <3> QED BY <2>4, <3>1, <3>2, <3>3 DEF UsedBefore
  <2>6. ASSUME ListNextNone(i) PROVE Listed(i) >= LeadingEntries
    <3>1. Listed(i) >= table.part_entry_count \/ ~IsUsed(TableEntry(Listed(i)))
      BY <1>0, <2>6, NextEntry
    <3> SUFFICES ASSUME Listed(i) < LeadingEntries PROVE FALSE
      BY <2>1, <2>3
    <3>2. Listed(i) \in 0 .. LeadingEntries - 1
      BY <2>1, <2>3
    <3> QED BY <2>1, <2>2, <2>3, <3>1, <3>2
  <2>7. ListNextPart(i) =>
          part'[i].entry = TableEntry(Listed(i)) /\ Listed(i)' = Listed(i) + 1
    BY <1>0, NextEntry
  <2> QED BY <2>5, <2>6, <2>7 DEF InOrder
<1> QED BY <1>1, <1>2

\* Listings give the used entries at the head of the table, each once and in
\* order, and end behind the last of them, with any number of iterators and
\* users of the drive between two steps, as long as those users leave the
\* table's used entries used and bring no table into the image, and the library
\* can write out what it keeps (gpt.c:75-120).
THEOREM ListingsInOrder == Spec /\ [][KeepsTable]_vars => ListsInOrder
<1>1. GptInit => ListedUsed
  BY DEF GptInit, ListedUsed
<1>2. IInv /\ ListedUsed /\ [Next]_vars /\ [KeepsTable]_vars => ListedUsed'
  BY ListedUsedStep, ListedUsedStutter
<1>3. IInv /\ ListedUsed /\ [Next]_vars =>
        [\A i \in Iter : drv # NoDrive /\ table # NoTable /\ TableReadable /\ faults' = 0 =>
           /\ ListNextPart(i) =>
                /\ Listed(i) < LeadingEntries
                /\ part'[i].entry = TableEntry(Listed(i))
                /\ Listed(i)' = Listed(i) + 1
           /\ ListNextNone(i) => Listed(i) >= LeadingEntries]_vars
  BY OrderedStep DEF InOrder
<1> QED BY <1>1, <1>2, <1>3, SpecIInv, PTL DEF Spec, ListsInOrder
=============================================================================
