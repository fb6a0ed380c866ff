--------------------------- MODULE FatDir_proofs ---------------------------
(***************************************************************************)
(* Theorems about the scans of a directory: what is listed, found and      *)
(* taken for the label, in blocks of any size and in any directory whose   *)
(* end mark stands in its first block.  A listing, a search and the search *)
(* for the label keep the same invariant of the position they have reached. *)
(***************************************************************************)
EXTENDS FatDir, FatChain_proofs, FiniteSetTheorems

-----------------------------------------------------------------------------
\* The directories the theorems are about.

\* The end mark is in the first block, and no farther than the position of an
\* iterator counts; a second block is never fetched (fat.c:1175).
EndsInBlock(d) == \E k \in 1 .. BlockEntries : k <= IndexWord /\ d[k].kind = "end"

\* The entries of a long name stand right before the entry they belong to.
LongNamesAttached(d) ==
  \A k \in DOMAIN d : (d[k].kind = "lfn" /\ \A e \in Ends(d) : k < e) =>
    d[k + 1].kind \in {"lfn", "entry"} /\ d[k + 1].owner = d[k].owner

\* get_volume_string goes on after the end mark; there is no volume id there.
NoIdAfterEnd(d) ==
  \A k \in DOMAIN d : d[k].kind = "volid" => \A e \in Ends(d) : k < e

Scannable ==
  /\ BlockEntries < BlockWord
  /\ \A d \in Dirs : EndsInBlock(d) /\ LongNamesAttached(d) /\ NoIdAfterEnd(d)

-----------------------------------------------------------------------------
\* Directories.

\* The first end mark.
End(d) == CHOOSE k \in Ends(d) : \A j \in Ends(d) : k <= j

\* A directory has at least one block.
LEMMA OneBlock ==
  ASSUME NEW d \in Dirs
  PROVE  /\ d \in Seq([kind : Kind, owner : Owners])
         /\ \A k \in 1 .. Len(d) : d[k] \in [kind : Kind, owner : Owners]
         /\ DOMAIN d = 1 .. Len(d)
         /\ Len(d) \in Nat /\ BlockEntries <= Len(d)
         /\ Len(d) \div BlockEntries \in Nat /\ 0 < Len(d) \div BlockEntries
<1> DEFINE R == [kind : Kind, owner : Owners]
<1> HIDE DEF R
<1>1. d \in Seq(R) /\ Len(d) \in Nat
  <2>1. d \in Seq(R)
    BY DirAssumption DEF R
  <2> QED BY <2>1
<1>2. BlockEntries \in Nat \ {0} /\ Len(d) % BlockEntries = 0 /\ Len(d) > 0
  BY DirAssumption
<1> DEFINE n == Len(d)
           q == Len(d) \div BlockEntries
<1>3. n \in Nat /\ n > 0 /\ q \in Int /\ n = BlockEntries * q
  BY <1>1, <1>2, SMT
<1> HIDE DEF n, q
<1>4. q > 0
  BY <1>2, <1>3, SMT
<1>5. BlockEntries <= BlockEntries * q
  BY <1>2, <1>3, <1>4, SMT
<1>6. DOMAIN d = 1 .. Len(d) /\ \A k \in 1 .. Len(d) : d[k] \in R
  BY <1>1
<1> QED BY <1>1, <1>3, <1>4, <1>5, <1>6 DEF n, q, R

\* A directory has an end mark, and nothing behind it is listed.
LEMMA EndFacts ==
  ASSUME Scannable, NEW d \in Dirs
  PROVE  /\ End(d) \in 1 .. BlockEntries /\ End(d) <= IndexWord
         /\ End(d) \in 1 .. Len(d) /\ End(d) \in Ends(d)
         /\ \A j \in Ends(d) : End(d) <= j
<1>1. d \in Seq([kind : Kind, owner : Owners]) /\ Len(d) \in Nat /\ BlockEntries <= Len(d)
  BY OneBlock
<1>2. DOMAIN d = 1 .. Len(d) /\ Ends(d) \in SUBSET Nat
  BY OneBlock DEF Ends
<1>3. PICK k \in 1 .. BlockEntries : k <= IndexWord /\ d[k].kind = "end"
  BY DEF Scannable, EndsInBlock
<1>4. BlockEntries \in Nat /\ k \in 1 .. Len(d) /\ k \in Ends(d)
  BY <1>1, <1>2, <1>3, DirAssumption DEF Ends
<1>5. \E e \in Ends(d) : \A j \in Ends(d) : e <= j
  BY <1>2, <1>4, LeastNumber
<1>6. End(d) \in Ends(d) /\ \A j \in Ends(d) : End(d) <= j
  BY <1>5 DEF End
<1>7. End(d) \in 1 .. Len(d) /\ End(d) <= k
  BY <1>2, <1>4, <1>6 DEF Ends
<1> QED BY <1>1, <1>3, <1>4, <1>6, <1>7, DirAssumption

\* Before the end mark: an entry is live exactly if it names a file.
LEMMA BeforeEnd ==
  ASSUME Scannable, NEW d \in Dirs, NEW k \in Nat \ {0}
  PROVE  /\ k < End(d) => k \in DOMAIN d /\ d[k] \in [kind : Kind, owner : Owners]
                          /\ d[k].kind # "end" /\ \A e \in Ends(d) : k < e
         /\ k \in Live(d) <=> k < End(d) /\ d[k].kind = "entry"
         /\ k \in VolumeIds(d) <=> k < End(d) /\ d[k].kind = "volid"
<1>1. Len(d) \in Nat /\ \A i \in 1 .. Len(d) : d[i] \in [kind : Kind, owner : Owners]
  BY OneBlock
<1>2. DOMAIN d = 1 .. Len(d)
  BY OneBlock
<1>3. End(d) \in 1 .. Len(d) /\ End(d) \in Ends(d) /\ \A j \in Ends(d) : End(d) <= j
  BY EndFacts
<1>4. \A e \in Ends(d) : e \in Nat
  BY <1>2 DEF Ends
<1>5. (k < End(d)) <=> (\A e \in Ends(d) : k < e)
  BY <1>3, <1>4
<1>6. k < End(d) => k \in DOMAIN d /\ d[k] \in [kind : Kind, owner : Owners]
  <2>1. k < End(d) => k \in DOMAIN d
    BY <1>1, <1>2, <1>3
  <2> QED BY <1>1, <2>1
<1>7. k < End(d) => d[k].kind # "end"
  <2> SUFFICES ASSUME k < End(d), d[k].kind = "end" PROVE FALSE
    OBVIOUS
  <2>1. k \in Ends(d)
    BY <1>6 DEF Ends
  <2> QED BY <2>1, <1>3, <1>4
<1> QED BY <1>5, <1>6, <1>7 DEF Live, VolumeIds
-----------------------------------------------------------------------------
\* Ranks: the place of an entry in the listing is the number of live entries up
\* to it.

UpTo(d, k) == {j \in Live(d) : j <= k}

\* Only finitely many entries are listed, all before the end mark.
LEMMA LiveFinite ==
  ASSUME NEW d \in Dirs
  PROVE  /\ Live(d) \in SUBSET Nat /\ 0 \notin Live(d)
         /\ IsFiniteSet(Live(d)) /\ Cardinality(Live(d)) \in Nat
         /\ Cardinality(Live(d)) <= Len(d)
<1>1. Len(d) \in Nat /\ DOMAIN d = 1 .. Len(d)
  BY OneBlock
<1>2. IsFiniteSet(1 .. Len(d)) /\ Cardinality(1 .. Len(d)) = Len(d)
  <2>1. /\ IsFiniteSet(1 .. Len(d))
        /\ Cardinality(1 .. Len(d)) = IF 1 > Len(d) THEN 0 ELSE Len(d) - 1 + 1
    BY <1>1, FS_Interval
  <2> QED BY <1>1, <2>1
<1>3. Live(d) \subseteq 1 .. Len(d)
  BY <1>1 DEF Live
<1>4. IsFiniteSet(Live(d)) /\ Cardinality(Live(d)) <= Len(d)
  BY <1>2, <1>3, FS_Subset
<1>5. Cardinality(Live(d)) \in Nat
  BY <1>4, FS_CardinalityType
<1> QED BY <1>1, <1>3, <1>4, <1>5

\* The number of listed entries up to a position.
LEMMA RankType ==
  ASSUME NEW d \in Dirs, NEW k \in Nat
  PROVE  /\ UpTo(d, k) \subseteq Live(d) /\ IsFiniteSet(UpTo(d, k))
         /\ Rank(d, k) = Cardinality(UpTo(d, k))
         /\ Rank(d, k) \in Nat /\ Rank(d, k) <= Cardinality(Live(d))
<1>1. UpTo(d, k) \subseteq Live(d) /\ Rank(d, k) = Cardinality(UpTo(d, k))
  BY DEF UpTo, Rank
<1>2. IsFiniteSet(UpTo(d, k)) /\ Cardinality(UpTo(d, k)) <= Cardinality(Live(d))
  BY <1>1, LiveFinite, FS_Subset
<1>3. Cardinality(UpTo(d, k)) \in Nat
  BY <1>2, FS_CardinalityType
<1> QED BY <1>1, <1>2, <1>3

\* A live entry adds one to the rank, any other entry nothing.
LEMMA RankStep ==
  ASSUME NEW d \in Dirs, NEW k \in Nat
  PROVE  /\ k + 1 \in Live(d) => Rank(d, k + 1) = Rank(d, k) + 1
         /\ k + 1 \notin Live(d) => Rank(d, k + 1) = Rank(d, k)
<1>1. Live(d) \in SUBSET Nat
  BY LiveFinite
<1>2. ASSUME k + 1 \in Live(d) PROVE Rank(d, k + 1) = Rank(d, k) + 1
  <2>1. UpTo(d, k + 1) = UpTo(d, k) \cup {k + 1}
    BY <1>1, <1>2 DEF UpTo
  <2>2. (k + 1) \notin UpTo(d, k)
    BY DEF UpTo
  <2>3. Cardinality(UpTo(d, k) \cup {k + 1}) = Cardinality(UpTo(d, k)) + 1
    BY <2>2, RankType, FS_AddElement
  <2>4. k + 1 \in Nat
    OBVIOUS
  <2>5. Rank(d, k + 1) = Cardinality(UpTo(d, k + 1)) /\ Rank(d, k) = Cardinality(UpTo(d, k))
    BY <2>4, RankType
  <2> QED BY <2>1, <2>3, <2>5
<1>3. ASSUME (k + 1) \notin Live(d) PROVE Rank(d, k + 1) = Rank(d, k)
  <2>1. UpTo(d, k + 1) = UpTo(d, k)
    BY <1>1, <1>3 DEF UpTo
  <2> QED BY <2>1, RankType
<1> QED BY <1>2, <1>3

\* No two live entries have the same rank, and ranks grow with the entries.
LEMMA RankOrder ==
  ASSUME NEW d \in Dirs, NEW j \in Live(d), NEW k \in Live(d), j < k
  PROVE  Rank(d, j) < Rank(d, k)
<1>1. Live(d) \in SUBSET Nat
  BY LiveFinite
<1>2. UpTo(d, j) \subseteq UpTo(d, k) /\ UpTo(d, j) # UpTo(d, k)
  <2>1. k \in UpTo(d, k) /\ k \notin UpTo(d, j)
    BY <1>1 DEF UpTo
  <2>2. UpTo(d, j) \subseteq UpTo(d, k)
    BY <1>1 DEF UpTo
  <2> QED BY <2>1, <2>2
<1>3. IsFiniteSet(UpTo(d, k)) /\ j \in Nat /\ k \in Nat
  BY <1>1, RankType
<1>4. Cardinality(UpTo(d, j)) < Cardinality(UpTo(d, k))
  <2>1. /\ Cardinality(UpTo(d, j)) <= Cardinality(UpTo(d, k))
        /\ Cardinality(UpTo(d, j)) # Cardinality(UpTo(d, k))
    BY <1>2, <1>3, FS_Subset
  <2>2. Cardinality(UpTo(d, j)) \in Nat /\ Cardinality(UpTo(d, k)) \in Nat
    BY <1>3, RankType
  <2> QED BY <2>1, <2>2
<1> QED BY <1>3, <1>4, RankType

\* The entry of rank n is what the listing shows in place n.
LEMMA ListingAt ==
  ASSUME NEW d \in Dirs, NEW k \in Live(d)
  PROVE  /\ Rank(d, k) \in 1 .. Cardinality(Live(d))
         /\ Listing(d)[Rank(d, k)] = NameAt(d, k)
<1>1. Live(d) \in SUBSET Nat /\ 0 \notin Live(d) /\ Cardinality(Live(d)) \in Nat
  BY LiveFinite
<1>2. k \in Nat /\ k - 1 \in Nat /\ (k - 1) + 1 = k
  BY <1>1
<1>3. Rank(d, k) = Rank(d, k - 1) + 1
  BY <1>2, RankStep
<1>4. Rank(d, k - 1) \in Nat /\ Rank(d, k) \in Nat /\ Rank(d, k) <= Cardinality(Live(d))
  BY <1>2, RankType
<1>5. Rank(d, k) \in 1 .. Cardinality(Live(d))
  BY <1>1, <1>3, <1>4
<1>6. \A j \in Live(d) : Rank(d, j) = Rank(d, k) => j = k
  <2> SUFFICES ASSUME NEW j \in Live(d), Rank(d, j) = Rank(d, k), j # k PROVE FALSE
    OBVIOUS
  <2>1. j < k \/ k < j
    BY <1>1
  <2>2. Rank(d, j) \in Nat
    BY <1>1, RankType
  <2> QED BY <1>4, <2>1, <2>2, RankOrder
<1>7. (CHOOSE j \in Live(d) : Rank(d, j) = Rank(d, k)) = k
  BY <1>6
<1> QED BY <1>5, <1>7 DEF Listing

\* At the start no entry has been passed, at the end mark all live ones have.
LEMMA RankEnds ==
  ASSUME Scannable, NEW d \in Dirs
  PROVE  /\ Rank(d, 0) = 0
         /\ Rank(d, End(d) - 1) = Cardinality(Live(d))
<1>1. Live(d) \in SUBSET Nat /\ 0 \notin Live(d)
  BY LiveFinite
<1>2. UpTo(d, 0) = {}
  BY <1>1 DEF UpTo
<1>3. Rank(d, 0) = 0
  BY <1>2, RankType, FS_EmptySet
<1>4. End(d) \in Nat /\ End(d) - 1 \in Nat
  BY EndFacts
<1>5. \A k \in Live(d) : k \in Nat /\ k < End(d)
  BY <1>1, BeforeEnd
<1>6. UpTo(d, End(d) - 1) = Live(d)
  BY <1>4, <1>5 DEF UpTo
<1> QED BY <1>3, <1>4, <1>6, RankType

-----------------------------------------------------------------------------
\* What has been listed when the entries up to k have been passed.

ListedTo(d, k) == [n \in 1 .. Rank(d, k) |-> Listing(d)[n]]

\* What was listed up to a position begins the listing.
LEMMA ListedType ==
  ASSUME NEW d \in Dirs, NEW k \in Nat
  PROVE  /\ Len(ListedTo(d, k)) = Rank(d, k) /\ Len(ListedTo(d, k)) <= Len(d)
         /\ IsPrefix(ListedTo(d, k), Listing(d))
         /\ Rank(d, k) = Cardinality(Live(d)) => ListedTo(d, k) = Listing(d)
<1> DEFINE r == Rank(d, k)
           c == Cardinality(Live(d))
           s == ListedTo(d, k)
           t == Listing(d)
<1>1. r \in Nat /\ c \in Nat /\ r <= c /\ c <= Len(d) /\ Len(d) \in Nat
  BY RankType, LiveFinite, OneBlock
<1>2. s = [n \in 1 .. r |-> t[n]]
  BY DEF ListedTo
<1>3. \E X : t \in [1 .. c -> X]
  <2>1. t = [n \in 1 .. c |-> t[n]]
    BY DEF Listing
  <2>2. t \in [1 .. c -> {t[n] : n \in 1 .. c}]
    BY <2>1
  <2> QED BY <2>2
<1> HIDE DEF r, c, s, t
<1>4. PICK X : t \in [1 .. c -> X]
  BY <1>3
<1>5. t \in Seq(X) /\ Len(t) = c
  BY <1>1, <1>4
<1>6. s \in Seq(X) /\ Len(s) = r
  BY <1>1, <1>2, <1>4
<1>7. SubSeq(s, 1, r) = SubSeq(t, 1, r)
  <2>1. SubSeq(s, 1, r) = [n \in 1 .. r |-> s[n]]
    BY <1>1, <1>6
  <2>2. SubSeq(t, 1, r) = [n \in 1 .. r |-> t[n]]
    BY <1>1, <1>5
  <2> QED BY <1>2, <2>1, <2>2
<1>8. IsPrefix(s, t)
  BY <1>1, <1>5, <1>6, <1>7 DEF IsPrefix
<1>9. r = c => s = t
  BY <1>1, <1>2, <1>4
<1> QED BY <1>1, <1>6, <1>8, <1>9 DEF r, c, s, t

\* Stepping over a live entry appends its name.
LEMMA ListedAppend ==
  ASSUME NEW d \in Dirs, NEW k \in Nat, k + 1 \in Live(d)
  PROVE  Append(ListedTo(d, k), NameAt(d, k + 1)) = ListedTo(d, k + 1)
<1> DEFINE r == Rank(d, k)
           t == Listing(d)
           s == ListedTo(d, k)
           u == ListedTo(d, k + 1)
           x == NameAt(d, k + 1)
<1>1. r \in Nat /\ Rank(d, k + 1) = r + 1
  BY RankType, RankStep
<1>2. t[r + 1] = x
  BY <1>1, ListingAt
<1>3. s = [n \in 1 .. r |-> t[n]]
  BY DEF ListedTo
<1>4. u = [n \in 1 .. r + 1 |-> t[n]]
  BY <1>1 DEF ListedTo
<1> HIDE DEF r, t, s, u, x
<1> DEFINE X == {t[n] : n \in 1 .. r + 1}
<1>5. s \in Seq(X) /\ Len(s) = r
  BY <1>1, <1>3
<1>6. u \in Seq(X) /\ Len(u) = r + 1
  BY <1>1, <1>4
<1>7. x \in X
  BY <1>1, <1>2
<1> HIDE DEF X
<1>8. Append(s, x) \in Seq(X) /\ Len(Append(s, x)) = r + 1
  BY <1>1, <1>5, <1>7
<1>9. \A n \in 1 .. r + 1 : Append(s, x)[n] = u[n]
  BY <1>1, <1>2, <1>3, <1>4, <1>5, <1>7
<1>10. Append(s, x) = u
  BY <1>1, <1>6, <1>8, <1>9
<1> QED BY <1>10 DEF s, u, x
-----------------------------------------------------------------------------
\* Long names: what a scan that has passed the entries up to k keeps of them.

LfnAt(d, k) == IF LfnEnabled /\ k > 0 /\ d[k].kind = "lfn" THEN d[k].owner ELSE Nobody

\* The long name in hand after one more entry.
LEMMA LfnStep ==
  ASSUME Scannable, NEW d \in Dirs, NEW k \in Nat, k + 1 < End(d)
  PROVE  /\ d[k + 1].kind # "lfn" => LfnAt(d, k + 1) = Nobody
         /\ d[k + 1].kind = "lfn" =>
              LfnAt(d, k + 1) = IF LfnEnabled THEN d[k + 1].owner ELSE LfnAt(d, k)
         /\ d[k + 1].kind \in {"deleted", "volid"} => LfnAt(d, k) = Nobody
         /\ d[k + 1].kind = "entry" =>
              NameOf(d[k + 1].owner, LfnAt(d, k)) = NameAt(d, k + 1)
<1>1. End(d) \in Nat /\ k + 1 \in Nat \ {0} /\ k + 1 > 0 /\ (k + 1) - 1 = k
  BY EndFacts
<1>2. ASSUME k > 0, d[k].kind = "lfn"
      PROVE  /\ d[k + 1].kind \in {"lfn", "entry"} /\ d[k + 1].owner = d[k].owner
             /\ d[k].owner # Nobody
  <2>1. k \in Nat \ {0} /\ k < End(d)
    BY <1>1, <1>2
  <2>2. k \in DOMAIN d /\ d[k] \in [kind : Kind, owner : Owners] /\ \A e \in Ends(d) : k < e
    BY <2>1, BeforeEnd
  <2>3. d[k].owner # Nobody
    BY <2>2, DirAssumption
  <2> QED BY <1>2, <2>2, <2>3 DEF Scannable, LongNamesAttached
<1>3. d[k + 1].kind # "lfn" => LfnAt(d, k + 1) = Nobody
  BY DEF LfnAt
<1>4. d[k + 1].kind = "lfn" =>
        LfnAt(d, k + 1) = IF LfnEnabled THEN d[k + 1].owner ELSE LfnAt(d, k)
  BY <1>1 DEF LfnAt
<1>5. d[k + 1].kind \in {"deleted", "volid"} => LfnAt(d, k) = Nobody
  BY <1>2 DEF LfnAt
<1>6. d[k + 1].kind = "entry" => NameOf(d[k + 1].owner, LfnAt(d, k)) = NameAt(d, k + 1)
  <2>1. (k + 1 > 1) <=> (k > 0)
    BY <1>1
  <2>2. CASE LfnEnabled /\ k > 0 /\ d[k].kind = "lfn"
    <3>1. LfnAt(d, k) = d[k].owner /\ d[k].owner # Nobody /\ d[k + 1].owner = d[k].owner
      BY <1>2, <2>2 DEF LfnAt
    <3>2. NameAt(d, k + 1) = Long(d[k + 1].owner)
      BY <1>1, <2>1, <2>2 DEF NameAt
    <3> QED BY <3>1, <3>2 DEF NameOf
  <2>3. CASE ~(LfnEnabled /\ k > 0 /\ d[k].kind = "lfn")
    <3>1. LfnAt(d, k) = Nobody
      BY <2>3 DEF LfnAt
    <3>2. NameAt(d, k + 1) = Short(d[k + 1].owner)
      BY <1>1, <2>1, <2>3 DEF NameAt
    <3> QED BY <3>1, <3>2 DEF NameOf
  <2> QED BY <2>2, <2>3
<1> QED BY <1>3, <1>4, <1>5, <1>6

-----------------------------------------------------------------------------
\* The answers.

\* Nothing in the listing matches: no hit.
LEMMA NoHit ==
  ASSUME NEW d \in Dirs, NEW name,
         \A n \in 1 .. Cardinality(Live(d)) : ~Matches(name, Listing(d)[n])
  PROVE  Hits(d, name) = {}
<1>1. DOMAIN Listing(d) = 1 .. Cardinality(Live(d))
  BY DEF Listing
<1> QED BY <1>1 DEF Hits

\* The first match in the listing is the first hit.
LEMMA HitFound ==
  ASSUME NEW d \in Dirs, NEW name, NEW r \in Nat, r + 1 <= Cardinality(Live(d)),
         \A n \in 1 .. r : ~Matches(name, Listing(d)[n]),
         Matches(name, Listing(d)[r + 1])
  PROVE  Hits(d, name) # {} /\ FirstHit(d, name) = r + 1
<1>1. DOMAIN Listing(d) = 1 .. Cardinality(Live(d)) /\ Cardinality(Live(d)) \in Nat
  BY LiveFinite DEF Listing
<1>2. r + 1 \in Hits(d, name)
  BY <1>1 DEF Hits
<1>3. \A n \in Hits(d, name) : n \in Nat /\ r + 1 <= n
  <2> SUFFICES ASSUME NEW n \in Hits(d, name) PROVE n \in Nat /\ r + 1 <= n
    OBVIOUS
  <2>1. n \in 1 .. Cardinality(Live(d)) /\ Matches(name, Listing(d)[n])
    BY <1>1 DEF Hits
  <2>2. n \notin 1 .. r
    BY <2>1
  <2> QED BY <1>1, <2>1, <2>2
<1>4. \A n \in Hits(d, name) : (\A m \in Hits(d, name) : n <= m) => n = r + 1
  BY <1>2, <1>3
<1> QED BY <1>2, <1>3, <1>4 DEF FirstHit

\* The first volume id is the label.
LEMMA IdFound ==
  ASSUME Scannable, NEW d \in Dirs, NEW k \in Nat, k + 1 < End(d), d[k + 1].kind = "volid",
         \A j \in 1 .. k : d[j].kind # "volid"
  PROVE  Label(d) = Short(d[k + 1].owner)
<1>1. End(d) \in Nat /\ k + 1 \in Nat \ {0} /\ DOMAIN d \subseteq Nat \ {0}
  BY EndFacts, OneBlock
<1>2. k + 1 \in VolumeIds(d)
  BY <1>1, BeforeEnd
<1>3. \A j \in VolumeIds(d) : j \in Nat \ {0} /\ k + 1 <= j
  <2> SUFFICES ASSUME NEW j \in VolumeIds(d) PROVE j \in Nat \ {0} /\ k + 1 <= j
    OBVIOUS
  <2>1. j \in Nat \ {0} /\ d[j].kind = "volid"
    BY <1>1 DEF VolumeIds
  <2>2. j \notin 1 .. k
    BY <2>1
  <2> QED BY <2>1, <2>2
<1>4. (CHOOSE j \in VolumeIds(d) : \A i \in VolumeIds(d) : j <= i) = k + 1
  <2>1. \A j \in VolumeIds(d) : (\A i \in VolumeIds(d) : j <= i) => j = k + 1
    BY <1>2, <1>3
  <2> QED BY <1>2, <1>3, <2>1
<1> QED BY <1>2, <1>4 DEF Label

\* None before the end mark: the label of the boot sector.
LEMMA NoId ==
  ASSUME Scannable, NEW d \in Dirs, \A j \in 1 .. End(d) - 1 : d[j].kind # "volid"
  PROVE  VolumeIds(d) = {}
<1> SUFFICES ASSUME NEW k \in VolumeIds(d) PROVE FALSE
  OBVIOUS
<1>1. k \in Nat \ {0}
  BY OneBlock DEF VolumeIds
<1>2. k < End(d) /\ d[k].kind = "volid" /\ End(d) \in Nat
  BY <1>1, BeforeEnd, EndFacts
<1> QED BY <1>1, <1>2
-----------------------------------------------------------------------------
\* The inductive invariant.

CallType ==
  [op : {"none", "next", "lookup", "label"}, want : Wanted \cup {<<>>},
   at : {"idle", "fetch", "scan"}, block : Nat, idx : 0 .. BlockEntries,
   lfn : Owners \cup {Nobody}, ended : BOOLEAN]
PosType == [block : Nat, idx : 0 .. IndexWord - 1]

\* Where a listing may stop and go on: in the first block, not beyond the end
\* mark and not between a long name and its entry.
PosOK(d, pos) ==
  /\ pos.block = 0 /\ pos.idx \in Nat /\ pos.idx < End(d)
  /\ pos.idx > 0 => d[pos.idx].kind # "lfn"

\* A call that has passed idx entries holds the long name the last of them
\* ends, if any; a search has found no match among them, and a search for the
\* label no volume id.  Only that one passes the end mark.
ScanOK(d, c) ==
  /\ c.at # "idle" /\ c.op \in {"next", "lookup", "label"} /\ c.block = 0
  /\ IF c.ended THEN c.op = "label" /\ c.idx >= End(d) /\ VolumeIds(d) = {}
     ELSE c.idx < End(d) /\ c.lfn = LfnAt(d, c.idx)
  /\ c.op = "lookup" => \A n \in 1 .. Rank(d, c.idx) : ~Matches(c.want, Listing(d)[n])
  /\ c.op = "label" /\ ~c.ended => \A j \in 1 .. c.idx : d[j].kind # "volid"

\* What is listed is what the iterator has passed; a dir_iter_next in progress
\* has passed nothing else that belongs in the listing.
ListOK ==
  /\ listed = ListedTo(dir, it.idx)
  /\ call.op = "next" => Rank(dir, call.idx) = Rank(dir, it.idx)

AnswerOK ==
  /\ LabelExact
  /\ answer.op = "next" /\ answer.ret = 1 => listed = Listing(dir)

IInv ==
  /\ TypeOK
  /\ PosOK(dir, it)
  /\ IF Idle THEN call = NoCall ELSE ScanOK(dir, call)
  /\ ListOK
  /\ AnswerOK

\* The state between two calls.
LEMMA NoCallType ==
  NoCall \in CallType /\ NoCall.at = "idle" /\ NoCall.op = "none"
<1> DEFINE c == Start("none", <<>>, First)
<1>1. 0 \in 0 .. BlockEntries
  BY DirAssumption
<1>2. c \in CallType /\ c.op = "none"
  BY <1>1 DEF Start, First, CallType
<1>3. NoCall = [c EXCEPT !.at = "idle"]
  BY DEF NoCall
<1> HIDE DEF c
<1> QED BY <1>2, <1>3 DEF CallType

\* A call that starts where a listing may go on.
LEMMA StartOK ==
  ASSUME Scannable, NEW d \in Dirs, NEW op \in {"next", "lookup", "label"},
         NEW want \in Wanted \cup {<<>>}, NEW pos \in PosType, PosOK(d, pos),
         op \in {"lookup", "label"} => pos.idx = 0
  PROVE  Start(op, want, pos) \in CallType /\ ScanOK(d, Start(op, want, pos))
<1> DEFINE c == Start(op, want, pos)
<1>1. /\ c.op = op /\ c.at = "fetch" /\ c.block = 0 /\ c.idx = pos.idx
      /\ c.lfn = Nobody /\ ~c.ended /\ c.want = want
  BY DEF Start, PosOK
<1>2. pos.idx \in 0 .. BlockEntries /\ pos.block \in Nat /\ pos.idx < End(d)
  BY EndFacts, DirAssumption DEF PosOK, PosType
<1>3. c \in CallType
  BY <1>2 DEF Start, CallType
<1>4. LfnAt(d, pos.idx) = Nobody
  BY DEF PosOK, LfnAt
<1>5. Rank(d, 0) = 0
  BY RankEnds
<1> HIDE DEF c
<1> QED BY <1>1, <1>2, <1>3, <1>4, <1>5 DEF ScanOK, c

\* A step that only moves the call on.
LEMMA ContinueKeeps ==
  ASSUME IInv, NEW c \in CallType, ScanOK(dir, c), Continue(c),
         c.op = "next" => Rank(dir, c.idx) = Rank(dir, it.idx)
  PROVE  IInv'
<1>1. /\ call' = c /\ type' = type /\ fixed' = fixed /\ dir' = dir
      /\ it' = it /\ answer' = answer /\ listed' = listed
  BY DEF Continue, content
<1>2. TypeOK'
  BY <1>1 DEF IInv, TypeOK, CallType
<1>3. PosOK(dir', it')
  BY <1>1 DEF IInv
<1>4. ~Idle' /\ ScanOK(dir', call')
  BY <1>1 DEF Idle, ScanOK
<1>5. ListOK'
  BY <1>1 DEF IInv, ListOK
<1>6. AnswerOK'
  BY <1>1 DEF IInv, AnswerOK, LabelExact
<1> QED BY <1>2, <1>3, <1>4, <1>5, <1>6 DEF IInv

\* A step that returns: a listing leaves its iterator where it may go on, and
\* either adds the next name or is over.
LEMMA ReturnKeeps ==
  ASSUME IInv, NEW ret \in {0, 1}, NEW name, NEW pos, Return(ret, name, pos),
         call.op = "next" => pos \in PosType /\ PosOK(dir, pos), call.op \in {"next", "lookup", "label"},
         call.op = "label" => name = Label(dir),
         call.op = "next" =>
           IF ret = 0 THEN Append(ListedTo(dir, call.idx), name) = ListedTo(dir, pos.idx)
           ELSE /\ Rank(dir, pos.idx) = Rank(dir, it.idx)
                /\ Rank(dir, pos.idx) = Cardinality(Live(dir))
  PROVE  IInv'
<1>1. /\ type' = type /\ fixed' = fixed /\ dir' = dir /\ call' = NoCall
      /\ answer' = [op |-> call.op, ret |-> ret, name |-> name]
      /\ it' = IF call.op = "next" THEN pos ELSE it
      /\ listed' = IF call.op = "next" /\ ret = 0 THEN Append(listed, name) ELSE listed
  BY DEF Return, content
<1>2. dir \in Dirs /\ it \in PosType /\ PosOK(dir, it) /\ listed = ListedTo(dir, it.idx)
  BY DEF IInv, TypeOK, ListOK, PosType
<1>3. it' \in PosType /\ PosOK(dir, it') /\ it'.idx \in Nat
  BY <1>1, <1>2 DEF PosOK
<1>4. Idle' /\ call'.op = "none" /\ call' \in CallType
  <2>1. /\ NoCall \in CallType
        /\ NoCall.at = "idle" /\ NoCall.op = "none"
    BY NoCallType
  <2> QED BY <1>1, <2>1 DEF Idle
<1>5. listed' = ListedTo(dir, it'.idx)
  <2>1. CASE call.op = "next" /\ ret = 0
    <3>1. Rank(dir, call.idx) = Rank(dir, it.idx)
      BY <2>1 DEF IInv, ListOK
    <3>2. ListedTo(dir, call.idx) = listed
      BY <1>2, <3>1 DEF ListedTo
    <3> QED BY <1>1, <2>1, <3>2
  <2>2. CASE call.op = "next" /\ ret = 1
    <3>1. ListedTo(dir, pos.idx) = ListedTo(dir, it.idx)
      BY <2>2 DEF ListedTo
    <3> QED BY <1>1, <1>2, <2>2, <3>1
  <2>3. CASE call.op # "next"
    BY <1>1, <1>2, <2>3
  <2> QED BY <2>1, <2>2, <2>3
<1>6. Len(listed') <= Len(dir)
  BY <1>2, <1>3, <1>5, ListedType
<1>7. TypeOK'
  BY <1>1, <1>3, <1>4, <1>6 DEF IInv, TypeOK, CallType, PosType
<1>8. ListOK'
  BY <1>1, <1>4, <1>5 DEF ListOK
<1>9. AnswerOK'
  <2>1. ASSUME call.op = "next", ret = 1 PROVE listed' = Listing(dir)
    <3>1. Rank(dir, it'.idx) = Cardinality(Live(dir))
      BY <1>1, <2>1
    <3> QED BY <1>2, <1>3, <1>5, <3>1, ListedType
  <2>2. answer'.op = call.op /\ answer'.ret = ret /\ answer'.name = name
    BY <1>1
  <2> QED BY <1>1, <2>1, <2>2 DEF AnswerOK, LabelExact
<1> QED BY <1>1, <1>3, <1>4, <1>7, <1>8, <1>9 DEF IInv
-----------------------------------------------------------------------------
\* The first block is there, whatever the directory is: its own sectors or a chain.

\* Every directory has its first block.
LEMMA FirstBlock ==
  ASSUME TypeOK
  PROVE  BlockExists(0)
<1>1. dir \in Dirs /\ type \in FatType
  BY DirAssumption DEF TypeOK
<1>2. CASE fixed
  BY <1>1, <1>2, OneBlock DEF BlockExists, Blocks
<1>3. CASE ~fixed
  <2> DEFINE table == Table
  <2>1. MaxCluster(type) \in Nat /\ MaxEntry(type) \in Nat
    BY <1>1 DEF FatType, MaxCluster, MaxEntry
  <2> HIDE DEF table
  <2>2. <<2>> \in Seq(Nat) /\ 0 < Len(<<2>>) /\ 0 \in Nat /\ <<2>>[1] = 2 /\ <<2>>[0 + 1] = 2
    OBVIOUS
  <2>3. \A k \in 1 .. 0 : FALSE
    OBVIOUS
  <2>4. GetNextCluster(type, table, <<2>>[1], 0) = [ret |-> 0, cluster |-> <<2>>[0 + 1]]
    BY <2>1, <2>2, <2>3, WalkFollows
  <2>5. GetNextCluster(type, table, 2, 0).ret = 0
    BY <2>2, <2>4
  <2> QED BY <1>3, <2>5 DEF BlockExists, table
<1> QED BY <1>2, <1>3

\* The block a scan looks at is the first one.
LEMMA LookedAt ==
  ASSUME Scannable, TypeOK, call.block = 0
  PROVE  /\ EntriesPerBlock = BlockEntries
         /\ NextPosition = [block |-> 0, idx |-> call.idx]
         /\ \A kind : Scanning(kind) <=> /\ call.at = "scan" /\ call.idx < BlockEntries
                                         /\ dir[call.idx + 1].kind = kind
         /\ Owner = dir[call.idx + 1].owner
         /\ call.idx < BlockEntries => Owner \in Owners
<1>1. dir \in Dirs /\ call.idx \in 0 .. BlockEntries /\ BlockEntries \in Nat \ {0}
  BY DirAssumption DEF TypeOK
<1>2. EntriesPerBlock = BlockEntries
  <2>1. BlockEntries < BlockWord /\ BlockWord \in Nat \ {0}
    BY DirAssumption DEF Scannable
  <2>2. BlockEntries % BlockWord = BlockEntries
    BY <1>1, <2>1, SMT
  <2> QED BY <2>2 DEF EntriesPerBlock
<1>3. EntryAt(call.block, call.idx) = dir[call.idx + 1]
  <2>1. call.block * BlockEntries + call.idx + 1 = call.idx + 1
    BY <1>1
  <2> QED BY <2>1 DEF EntryAt
<1>4. NextPosition = [block |-> 0, idx |-> call.idx]
  BY <1>1, <1>2 DEF NextPosition
<1>5. call.idx < BlockEntries => Owner \in Owners
  <2>1. call.idx < BlockEntries => call.idx + 1 \in 1 .. Len(dir)
    BY <1>1, OneBlock, SMTT(30)
  <2>2. \A k \in 1 .. Len(dir) : dir[k] \in [kind : Kind, owner : Owners]
    BY <1>1, OneBlock
  <2> QED BY <1>3, <2>1, <2>2 DEF Owner
<1> QED BY <1>2, <1>3, <1>4, <1>5 DEF Scanning, Owner

\* Before the end mark an index counts on without wrapping.
LEMMA NoWrap ==
  ASSUME Scannable, TypeOK, call.idx + 1 < End(dir) \/ call.op = "label"
  PROVE  Bumped = call.idx + 1
<1>1. dir \in Dirs /\ call.idx \in Nat
  BY DEF TypeOK
<1>2. End(dir) \in Nat /\ End(dir) <= IndexWord /\ IndexWord \in Nat \ {0}
  BY <1>1, EndFacts, DirAssumption
<1>3. call.idx + 1 < End(dir) => (call.idx + 1) % IndexWord = call.idx + 1
  BY <1>1, <1>2, SMT
<1> QED BY <1>3 DEF Bumped
-----------------------------------------------------------------------------
\* The steps.

\* The facts a step of a call starts from.
LEMMA CallFacts ==
  ASSUME Scannable, IInv, ~Idle
  PROVE  /\ TypeOK /\ dir \in Dirs /\ call \in CallType /\ it \in PosType
         /\ ScanOK(dir, call) /\ PosOK(dir, it) /\ call.block = 0
         /\ call.idx \in Nat /\ call.idx <= BlockEntries /\ BlockEntries \in Nat
         /\ End(dir) \in Nat /\ End(dir) <= IndexWord /\ IndexWord \in Nat
         /\ End(dir) <= BlockEntries
<1>1. TypeOK /\ dir \in Dirs /\ call \in CallType /\ it \in PosType
  BY DEF IInv, TypeOK, CallType, PosType
<1>2. ScanOK(dir, call) /\ PosOK(dir, it) /\ call.block = 0
  BY DEF IInv, ScanOK
<1>3. call.idx \in 0 .. BlockEntries /\ BlockEntries \in Nat /\ IndexWord \in Nat
  BY <1>1, DirAssumption DEF CallType
<1>4. End(dir) \in 1 .. BlockEntries /\ End(dir) <= IndexWord
  BY <1>1, EndFacts
<1> QED BY <1>1, <1>2, <1>3, <1>4

\* An entry is at the end mark of its directory, before it or beyond it.
LEMMA Beyond ==
  ASSUME Scannable, IInv, ~Idle, call.idx < BlockEntries
  PROVE  /\ ~call.ended /\ dir[call.idx + 1].kind = "end" => call.idx + 1 = End(dir)
         /\ ~call.ended /\ dir[call.idx + 1].kind # "end" => call.idx + 1 < End(dir)
         /\ dir[call.idx + 1].kind = "volid" => ~call.ended
<1> DEFINE k == call.idx + 1
<1>1. k \in Nat \ {0} /\ k <= BlockEntries
  BY CallFacts
<1>2. /\ ~call.ended => k <= End(dir)
      /\ call.ended => VolumeIds(dir) = {}
  BY CallFacts DEF ScanOK
<1>3. k < End(dir) => dir[k].kind # "end"
  BY <1>1, CallFacts, BeforeEnd
<1>4. dir[End(dir)].kind = "end"
  BY CallFacts, EndFacts DEF Ends
<1>5. dir[k].kind = "volid" => k \in VolumeIds(dir)
  <2>1. dir \in Dirs /\ k \in 1 .. Len(dir) /\ DOMAIN dir = 1 .. Len(dir)
    BY <1>1, CallFacts, OneBlock
  <2> QED BY <2>1 DEF Scannable, NoIdAfterEnd, VolumeIds
<1>6. End(dir) \in Nat
  BY CallFacts
<1> HIDE DEF k
<1>7. ~call.ended /\ dir[k].kind = "end" => k = End(dir)
  BY <1>1, <1>2, <1>3, <1>6
<1>8. ~call.ended /\ dir[k].kind # "end" => k < End(dir)
  BY <1>1, <1>2, <1>4, <1>6
<1> QED BY <1>2, <1>5, <1>7, <1>8 DEF k

\* Stepping over an entry the call does not return.
LEMMA PassKeeps ==
  ASSUME Scannable, IInv, ~Idle, call.idx < BlockEntries, dir[call.idx + 1].kind # "end",
         NEW c \in CallType, Continue(c), c.at # "idle", c.op = call.op, c.want = call.want,
         c.block = 0, c.idx = call.idx + 1, c.ended = call.ended,
         ~call.ended => c.lfn = LfnAt(dir, call.idx + 1),
         call.op = "label" => dir[call.idx + 1].kind # "volid",
         dir[call.idx + 1].kind = "entry" =>
           call.op = "lookup" /\ ~Matches(call.want, NameAt(dir, call.idx + 1))
  PROVE  IInv'
<1> DEFINE k == call.idx + 1
<1>1. /\ dir \in Dirs /\ call.idx \in Nat /\ k \in Nat \ {0} /\ End(dir) \in Nat
      /\ ScanOK(dir, call)
  BY CallFacts
<1>2. ~call.ended => k < End(dir)
  BY Beyond
<1>3. call.ended => call.op = "label" /\ call.idx >= End(dir) /\ VolumeIds(dir) = {}
  BY <1>1 DEF ScanOK
<1>4. k \notin Live(dir) => Rank(dir, k) = Rank(dir, call.idx)
  BY <1>1, RankStep
<1>5. ASSUME call.op = "lookup", NEW n \in 1 .. Rank(dir, k)
      PROVE  ~Matches(call.want, Listing(dir)[n])
  <2>1. \A m \in 1 .. Rank(dir, call.idx) : ~Matches(call.want, Listing(dir)[m])
    BY <1>1, <1>5 DEF ScanOK
  <2>2. CASE k \notin Live(dir)
    BY <1>4, <2>1, <2>2
  <2>3. CASE k \in Live(dir)
    <3>1. Rank(dir, k) = Rank(dir, call.idx) + 1 /\ Rank(dir, call.idx) \in Nat
      BY <1>1, <2>3, RankStep, RankType
    <3>2. Listing(dir)[Rank(dir, k)] = NameAt(dir, k)
      BY <1>1, <2>3, ListingAt
    <3>3. dir[k].kind = "entry"
      BY <2>3 DEF Live
    <3>4. n = Rank(dir, k) \/ n \in 1 .. Rank(dir, call.idx)
      BY <3>1
    <3> QED BY <2>1, <3>2, <3>3, <3>4
  <2> QED BY <2>2, <2>3
<1>6. c.op = "next" => Rank(dir, c.idx) = Rank(dir, it.idx)
  <2> SUFFICES ASSUME c.op = "next" PROVE Rank(dir, k) = Rank(dir, it.idx)
    OBVIOUS
  <2>1. k \notin Live(dir)
    BY DEF Live
  <2>2. Rank(dir, call.idx) = Rank(dir, it.idx)
    BY DEF IInv, ListOK
  <2> QED BY <1>4, <2>1, <2>2
<1>7. ASSUME call.op = "label", ~call.ended, NEW j \in 1 .. k PROVE dir[j].kind # "volid"
  <2>1. \A i \in 1 .. call.idx : dir[i].kind # "volid"
    BY <1>1, <1>7 DEF ScanOK
  <2>2. j = k \/ j \in 1 .. call.idx
    BY <1>1
  <2> QED BY <1>7, <2>1, <2>2
<1>8. call.op \in {"next", "lookup", "label"}
  BY <1>1 DEF ScanOK
<1> HIDE DEF k
<1>9. c.idx = k /\ (~call.ended => c.lfn = LfnAt(dir, k))
  BY DEF k
<1>10. call.ended => k >= End(dir)
  BY <1>1, <1>3 DEF k
<1>11. ScanOK(dir, c)
  BY <1>2, <1>3, <1>5, <1>7, <1>8, <1>9, <1>10 DEF ScanOK
<1> QED BY <1>6, <1>11, ContinueKeeps

\* What a step that looks at an entry knows of it.
LEMMA ScanFacts ==
  ASSUME Scannable, IInv, NEW kind, Scanning(kind)
  PROVE  /\ ~Idle /\ call.at = "scan" /\ ScanOK(dir, call)
         /\ call \in CallType /\ dir \in Dirs /\ call.block = 0 /\ call.idx \in Nat
         /\ call.idx < BlockEntries /\ dir[call.idx + 1].kind = kind
         /\ Owner = dir[call.idx + 1].owner /\ Owner \in Owners
         /\ ~call.ended /\ kind # "end" => call.idx + 1 < End(dir)
         /\ kind # "end" \/ call.op = "label" =>
              Bumped = call.idx + 1 /\ Bumped \in 0 .. BlockEntries
<1>1. ~Idle
  BY DEF Scanning, Idle
<1>2. /\ TypeOK /\ call \in CallType /\ call.block = 0 /\ dir \in Dirs /\ call.idx \in Nat
      /\ ScanOK(dir, call)
  BY <1>1, CallFacts
<1>3. /\ call.at = "scan" /\ call.idx < BlockEntries /\ dir[call.idx + 1].kind = kind
      /\ Owner = dir[call.idx + 1].owner /\ Owner \in Owners
  BY <1>2, LookedAt
<1>4. ~call.ended /\ kind # "end" => call.idx + 1 < End(dir)
  BY <1>1, <1>3, Beyond
<1>5. kind # "end" \/ call.op = "label" => Bumped = call.idx + 1
  BY <1>2, <1>4, NoWrap DEF ScanOK
<1>6. call.idx + 1 \in 0 .. BlockEntries
  BY <1>1, <1>2, <1>3, CallFacts
<1> QED BY <1>1, <1>2, <1>3, <1>4, <1>5, <1>6

\* A deleted entry is passed: it is not listed.
LEMMA SkipDeletedKeeps ==
  ASSUME Scannable, IInv, SkipDeleted
  PROVE  IInv'
<1>1. Scanning("deleted")
  BY DEF SkipDeleted
<1> DEFINE c == [call EXCEPT !.idx = Bumped]
<1>2. Continue(c)
  BY DEF SkipDeleted
<1>3. /\ c \in CallType /\ c.at = call.at /\ c.op = call.op /\ c.want = call.want
      /\ c.block = call.block /\ c.idx = Bumped /\ c.ended = call.ended /\ c.lfn = call.lfn
  BY <1>1, ScanFacts DEF CallType
<1>4. ASSUME ~call.ended PROVE call.lfn = LfnAt(dir, call.idx + 1)
  <2>1. call.lfn = LfnAt(dir, call.idx)
    BY <1>1, <1>4, ScanFacts DEF ScanOK
  <2>2. LfnAt(dir, call.idx) = Nobody /\ LfnAt(dir, call.idx + 1) = Nobody
    BY <1>1, <1>4, ScanFacts, LfnStep
  <2> QED BY <2>1, <2>2
<1> HIDE DEF c
<1>5. /\ ~Idle /\ call.idx < BlockEntries /\ c.at # "idle" /\ c.block = 0
      /\ c.idx = call.idx + 1 /\ dir[call.idx + 1].kind = "deleted"
  BY <1>1, <1>3, ScanFacts
<1> QED BY <1>2, <1>3, <1>4, <1>5, PassKeeps

\* A long-name entry is passed, and its name kept for the next.
LEMMA SeeLfnKeeps ==
  ASSUME Scannable, IInv, SeeLfn
  PROVE  IInv'
<1>1. Scanning("lfn")
  BY DEF SeeLfn
<1> DEFINE lfn == IF LfnEnabled THEN Owner ELSE call.lfn
           c == [call EXCEPT !.idx = Bumped, !.lfn = lfn]
<1>2. Continue(c)
  BY DEF SeeLfn
<1>3. lfn \in Owners \cup {Nobody}
  BY <1>1, ScanFacts DEF CallType
<1>4. ASSUME ~call.ended PROVE lfn = LfnAt(dir, call.idx + 1)
  <2>1. call.lfn = LfnAt(dir, call.idx)
    BY <1>1, <1>4, ScanFacts DEF ScanOK
  <2>2. LfnAt(dir, call.idx + 1) =
          IF LfnEnabled THEN dir[call.idx + 1].owner ELSE LfnAt(dir, call.idx)
    BY <1>1, <1>4, ScanFacts, LfnStep
  <2>3. Owner = dir[call.idx + 1].owner
    BY <1>1, ScanFacts
  <2> QED BY <2>1, <2>2, <2>3
<1> HIDE DEF lfn
<1>5. /\ c \in CallType /\ c.at = call.at /\ c.op = call.op /\ c.want = call.want
      /\ c.block = call.block /\ c.idx = Bumped /\ c.ended = call.ended /\ c.lfn = lfn
  BY <1>1, <1>3, ScanFacts DEF CallType
<1> HIDE DEF c
<1>6. /\ ~Idle /\ call.idx < BlockEntries /\ c.at # "idle" /\ c.block = 0
      /\ c.idx = call.idx + 1 /\ dir[call.idx + 1].kind = "lfn"
  BY <1>1, <1>5, ScanFacts
<1> QED BY <1>2, <1>4, <1>5, <1>6, PassKeeps

\* Stepping over an entry and forgetting the long name before it.
LEMMA ForgetKeeps ==
  ASSUME Scannable, IInv, NEW kind \in {"volid", "entry"}, Scanning(kind),
         NEW at \in {"fetch", "scan"},
         Continue([call EXCEPT !.at = at, !.idx = Bumped, !.lfn = Nobody]),
         call.op # "label",
         kind = "entry" =>
           call.op = "lookup" /\ ~Matches(call.want, NameAt(dir, call.idx + 1))
  PROVE  IInv'
<1> DEFINE c == [call EXCEPT !.at = at, !.idx = Bumped, !.lfn = Nobody]
<1>1. /\ c \in CallType /\ c.at = at /\ c.op = call.op /\ c.want = call.want
      /\ c.block = call.block /\ c.idx = Bumped /\ c.ended = call.ended /\ c.lfn = Nobody
  BY ScanFacts DEF CallType
<1>2. ASSUME ~call.ended PROVE Nobody = LfnAt(dir, call.idx + 1)
  BY <1>2, ScanFacts, LfnStep
<1>3. Continue(c)
  OBVIOUS
<1> HIDE DEF c
<1>4. /\ ~Idle /\ call.idx < BlockEntries /\ c.at # "idle" /\ c.block = 0
      /\ c.idx = call.idx + 1 /\ dir[call.idx + 1].kind = kind
  BY <1>1, ScanFacts
<1> QED BY <1>1, <1>2, <1>3, <1>4, PassKeeps

\* The name of the entry looked at.
LEMMA EntryName ==
  ASSUME Scannable, IInv, Scanning("entry"), call.op # "label"
  PROVE  /\ ~call.ended /\ call.idx + 1 < End(dir)
         /\ NameOf(Owner, call.lfn) = NameAt(dir, call.idx + 1)
         /\ call.idx + 1 \in Live(dir)
<1>1. ~call.ended
  BY ScanFacts DEF ScanOK
<1>2. /\ dir \in Dirs /\ call.idx \in Nat /\ call.idx + 1 < End(dir)
      /\ dir[call.idx + 1].kind = "entry" /\ Owner = dir[call.idx + 1].owner
  BY <1>1, ScanFacts
<1>3. call.lfn = LfnAt(dir, call.idx)
  BY <1>1, ScanFacts DEF ScanOK
<1>4. NameOf(Owner, call.lfn) = NameAt(dir, call.idx + 1)
  BY <1>2, <1>3, LfnStep
<1>5. call.idx + 1 \in Nat \ {0}
  BY <1>2
<1>6. call.idx + 1 \in Live(dir)
  BY <1>2, <1>5, BeforeEnd
<1> QED BY <1>1, <1>2, <1>4, <1>6

\* A volume id ends a label scan and is passed by the others.
LEMMA SeeVolumeIdKeeps ==
  ASSUME Scannable, IInv, SeeVolumeId
  PROVE  IInv'
<1>1. Scanning("volid")
  BY DEF SeeVolumeId
<1>2. CASE call.op # "label"
  <2>1. [call EXCEPT !.idx = Bumped, !.lfn = Nobody]
          = [call EXCEPT !.at = "scan", !.idx = Bumped, !.lfn = Nobody]
    BY <1>1, ScanFacts DEF CallType
  <2>2. Continue([call EXCEPT !.at = "scan", !.idx = Bumped, !.lfn = Nobody])
    BY <1>2, <2>1 DEF SeeVolumeId
  <2> QED BY <1>1, <1>2, <2>2, ForgetKeeps
<1>3. CASE call.op = "label"
  <2>1. Return(0, NameOf(Owner, call.lfn), Here)
    BY <1>3 DEF SeeVolumeId
  <2>2. /\ ~Idle /\ dir \in Dirs /\ call.idx \in Nat /\ call.idx < BlockEntries
        /\ dir[call.idx + 1].kind = "volid" /\ Owner = dir[call.idx + 1].owner
    BY <1>1, ScanFacts
  <2>3. ~call.ended
    BY <2>2, Beyond
  <2>4. call.idx + 1 < End(dir)
    BY <1>1, <2>3, ScanFacts
  <2>5. call.lfn = Nobody
    BY <1>1, <2>2, <2>3, <2>4, ScanFacts, LfnStep DEF ScanOK
  <2>6. \A j \in 1 .. call.idx : dir[j].kind # "volid"
    BY <1>1, <1>3, <2>3, ScanFacts DEF ScanOK
  <2>7. Label(dir) = Short(Owner)
    BY <2>2, <2>4, <2>6, IdFound
  <2>8. NameOf(Owner, call.lfn) = Label(dir)
    BY <2>5, <2>7 DEF NameOf
  <2> QED BY <1>3, <2>1, <2>8, ReturnKeeps
<1> QED BY <1>2, <1>3

\* A file is appended to the listing under its own name.
LEMMA ListEntryKeeps ==
  ASSUME Scannable, IInv, ListEntry
  PROVE  IInv'
<1> DEFINE pos == [Here EXCEPT !.idx = Bumped]
<1>1. Scanning("entry") /\ call.op = "next" /\ Return(0, NameOf(Owner, call.lfn), pos)
  BY DEF ListEntry
<1>2. /\ dir \in Dirs /\ call.idx \in Nat /\ call.block = 0 /\ Bumped = call.idx + 1
      /\ dir[call.idx + 1].kind = "entry"
  BY <1>1, ScanFacts
<1>3. /\ call.idx + 1 < End(dir) /\ call.idx + 1 \in Live(dir)
      /\ NameOf(Owner, call.lfn) = NameAt(dir, call.idx + 1)
  BY <1>1, EntryName
<1>4. pos.block = 0 /\ pos.idx = call.idx + 1 /\ pos = [block |-> 0, idx |-> call.idx + 1]
  BY <1>2 DEF Here
<1> HIDE DEF pos
<1>5. call.idx + 1 \in 0 .. IndexWord - 1
  BY <1>2, <1>3, EndFacts, DirAssumption
<1>6. pos \in PosType
  BY <1>4, <1>5 DEF PosType
<1>7. PosOK(dir, pos)
  BY <1>2, <1>3, <1>4 DEF PosOK
<1>8. Append(ListedTo(dir, call.idx), NameOf(Owner, call.lfn)) = ListedTo(dir, pos.idx)
  BY <1>2, <1>3, <1>4, ListedAppend
<1> QED BY <1>1, <1>6, <1>7, <1>8, ReturnKeeps

\* A file that does not match is passed; one that does is found.
LEMMA CompareEntryKeeps ==
  ASSUME Scannable, IInv, CompareEntry
  PROVE  IInv'
<1>1. Scanning("entry") /\ call.op = "lookup"
  BY DEF CompareEntry
<1>2. NameOf(Owner, call.lfn) = NameAt(dir, call.idx + 1)
  BY <1>1, EntryName
<1>3. CASE Matches(call.want, NameOf(Owner, call.lfn))
  BY <1>1, <1>3, ReturnKeeps DEF CompareEntry
<1>4. CASE ~Matches(call.want, NameOf(Owner, call.lfn))
  <2>1. Continue([call EXCEPT !.at = "fetch", !.idx = Bumped, !.lfn = Nobody])
    BY <1>4 DEF CompareEntry
  <2> QED BY <1>1, <1>2, <1>4, <2>1, ForgetKeeps
<1> QED BY <1>3, <1>4

\* At the end mark a listing is over: everything before it has been passed.
LEMMA ListOver ==
  ASSUME Scannable, IInv, Scanning("end"), call.op # "label"
  PROVE  /\ Here \in PosType /\ PosOK(dir, Here) /\ Here.idx = call.idx
         /\ Rank(dir, call.idx) = Cardinality(Live(dir))
<1>1. ~Idle /\ ~call.ended
  BY ScanFacts DEF ScanOK
<1>2. /\ dir \in Dirs /\ call.idx \in Nat /\ call.block = 0 /\ call.idx < BlockEntries
      /\ dir[call.idx + 1].kind = "end"
  BY ScanFacts
<1>3. call.idx + 1 = End(dir)
  BY <1>1, <1>2, Beyond
<1>4. End(dir) \in Nat /\ End(dir) <= IndexWord /\ IndexWord \in Nat
  BY <1>1, CallFacts
<1>5. Rank(dir, call.idx) = Cardinality(Live(dir))
  <2>1. call.idx = End(dir) - 1
    BY <1>2, <1>3, <1>4
  <2> QED BY <1>2, <2>1, RankEnds
<1>6. call.idx > 0 => dir[call.idx].kind # "lfn"
  <2> SUFFICES ASSUME call.idx > 0, dir[call.idx].kind = "lfn" PROVE FALSE
    OBVIOUS
  <2>1. call.idx \in Nat \ {0} /\ call.idx < End(dir)
    BY <1>2, <1>3, <1>4
  <2>2. call.idx \in DOMAIN dir /\ \A e \in Ends(dir) : call.idx < e
    BY <1>2, <2>1, BeforeEnd
  <2> QED BY <1>2, <2>2 DEF Scannable, LongNamesAttached
<1>7. Here = [block |-> 0, idx |-> call.idx]
  BY <1>2 DEF Here
<1>8. call.idx \in 0 .. IndexWord - 1
  BY <1>2, <1>3, <1>4
<1> QED BY <1>2, <1>3, <1>4, <1>5, <1>6, <1>7, <1>8 DEF PosType, PosOK

\* At the end mark every file is passed.
LEMMA SeeEndKeeps ==
  ASSUME Scannable, IInv, SeeEnd
  PROVE  IInv'
<1>1. Scanning("end")
  BY DEF SeeEnd
<1>2. /\ ~Idle /\ dir \in Dirs /\ call.idx \in Nat /\ call.idx < BlockEntries
      /\ dir[call.idx + 1].kind = "end" /\ call.op \in {"next", "lookup", "label"}
  BY <1>1, ScanFacts DEF ScanOK
<1>3. CASE call.op # "label"
  <2>1. Return(1, <<>>, Here)
    BY <1>3 DEF SeeEnd, ReturnEnd
  <2>2. call.op = "next" => Rank(dir, call.idx) = Rank(dir, it.idx)
    BY DEF IInv, ListOK
  <2> QED BY <1>1, <1>2, <1>3, <2>1, <2>2, ListOver, ReturnKeeps
<1>4. CASE call.op = "label"
  <2> DEFINE c == [call EXCEPT !.ended = TRUE, !.idx = Bumped]
  <2>1. Continue(c)
    BY <1>4 DEF SeeEnd
  <2>2. Bumped = call.idx + 1 /\ Bumped \in 0 .. BlockEntries
    BY <1>1, <1>4, ScanFacts
  <2>3. /\ c \in CallType /\ c.at = call.at /\ c.op = "label" /\ c.block = call.block
        /\ c.idx = Bumped /\ c.ended
    BY <1>1, <1>4, <2>2, ScanFacts DEF CallType
  <2>4. End(dir) \in Nat
    BY <1>2, CallFacts
  <2>5. VolumeIds(dir) = {} /\ call.idx + 1 >= End(dir)
    <3>1. CASE call.ended
      BY <1>1, <1>2, <2>4, <3>1, ScanFacts DEF ScanOK
    <3>2. CASE ~call.ended
      <4>1. call.idx + 1 = End(dir)
        BY <1>2, <3>2, Beyond
      <4>2. call.idx = End(dir) - 1
        BY <1>2, <2>4, <4>1
      <4>3. \A j \in 1 .. End(dir) - 1 : dir[j].kind # "volid"
        BY <1>1, <1>4, <3>2, <4>2, ScanFacts DEF ScanOK
      <4> QED BY <1>2, <2>4, <4>1, <4>3, NoId
    <3> QED BY <3>1, <3>2
  <2> HIDE DEF c
  <2>6. ScanOK(dir, c)
    BY <1>1, <2>2, <2>3, <2>5, ScanFacts DEF ScanOK
  <2> QED BY <2>1, <2>3, <2>6, ContinueKeeps
<1> QED BY <1>3, <1>4
\* A search for the label that has seen the end mark found none.
LEMMA LabelOver ==
  ASSUME Scannable, IInv, ~Idle, call.ended, ReturnEnd(Here)
  PROVE  IInv'
<1>1. call.op = "label" /\ VolumeIds(dir) = {}
  BY CallFacts DEF ScanOK
<1>2. Return(0, VolumeLabel, Here)
  BY <1>1 DEF ReturnEnd
<1>3. Label(dir) = VolumeLabel
  BY <1>1 DEF Label
<1> QED BY <1>1, <1>2, <1>3, ReturnKeeps

\* Going back to the outer loop.
LEMMA RefetchKeeps ==
  ASSUME Scannable, IInv, ~Idle, NEW at \in {"fetch", "scan"},
         Continue([call EXCEPT !.at = at])
  PROVE  IInv'
<1> DEFINE c == [call EXCEPT !.at = at]
<1>1. Continue(c)
  OBVIOUS
<1>2. /\ c \in CallType /\ c.at = at /\ c.op = call.op /\ c.want = call.want
      /\ c.block = call.block /\ c.idx = call.idx /\ c.ended = call.ended /\ c.lfn = call.lfn
  BY CallFacts DEF CallType
<1> HIDE DEF c
<1>3. ScanOK(dir, call)
  BY CallFacts
<1>4. ScanOK(dir, c)
  BY <1>2, <1>3 DEF ScanOK
<1>5. c.op = "next" => Rank(dir, c.idx) = Rank(dir, it.idx)
  BY <1>2 DEF IInv, ListOK
<1> QED BY <1>1, <1>2, <1>4, <1>5, ContinueKeeps

\* A fetch is one of the first block.
LEMMA FetchKeeps ==
  ASSUME Scannable, IInv, Fetch
  PROVE  IInv'
<1>1. ~Idle
  BY DEF Fetch, Idle
<1>2. NextPosition = [block |-> 0, idx |-> call.idx] /\ call.block = 0 /\ call \in CallType
  BY <1>1, CallFacts, LookedAt
<1>3. BlockExists(NextPosition.block)
  BY <1>1, <1>2, CallFacts, FirstBlock
<1>4. [call EXCEPT !.at = "scan", !.block = NextPosition.block, !.idx = NextPosition.idx]
        = [call EXCEPT !.at = "scan"]
  BY <1>2 DEF CallType
<1>5. Continue([call EXCEPT !.at = "scan"])
  BY <1>3, <1>4 DEF Fetch
<1> QED BY <1>1, <1>5, RefetchKeeps

\* Only a label scan behind the end mark comes to the end of the first block.
LEMMA BlockDoneKeeps ==
  ASSUME Scannable, IInv, BlockDone
  PROVE  IInv'
<1>1. ~Idle
  BY DEF BlockDone, Idle
<1>2. CASE call.ended
  BY <1>1, <1>2, LabelOver DEF BlockDone
<1>3. CASE ~call.ended
  BY <1>1, <1>3, RefetchKeeps DEF BlockDone
<1> QED BY <1>2, <1>3

\* A label scan that ends without a volume id.
LEMMA LabelStopsKeeps ==
  ASSUME Scannable, IInv, LabelStops
  PROVE  IInv'
<1>1. ~Idle
  BY ScanFacts DEF LabelStops
<1>2. CASE call.ended
  BY <1>1, <1>2, LabelOver DEF LabelStops
<1>3. CASE ~call.ended
  BY <1>1, <1>3, RefetchKeeps DEF LabelStops
<1> QED BY <1>2, <1>3

\* The position a new iterator has.
LEMMA FirstOK ==
  ASSUME Scannable, NEW d \in Dirs
  PROVE  First \in PosType /\ PosOK(d, First) /\ First.idx = 0 /\ ListedTo(d, 0) = <<>>
<1>1. First \in PosType /\ First.block = 0 /\ First.idx = 0
  BY DirAssumption DEF First, PosType
<1>2. PosOK(d, First)
  BY <1>1, EndFacts DEF PosOK
<1>3. ListedTo(d, 0) = <<>>
  <2>1. Rank(d, 0) = 0
    BY RankEnds
  <2> QED BY <2>1 DEF ListedTo
<1> QED BY <1>1, <1>2, <1>3

\* A call starts: dir_iter_next where the iterator is, the others at the front.
LEMMA CallKeeps ==
  ASSUME Scannable, IInv, Idle, NEW op \in {"next", "lookup", "label"},
         NEW want \in Wanted \cup {<<>>}, NEW pos, Continue(Start(op, want, pos)),
         pos = IF op = "next" THEN it ELSE First
  PROVE  IInv'
<1>1. dir \in Dirs /\ it \in PosType /\ PosOK(dir, it)
  BY DEF IInv, TypeOK, PosType
<1>2. pos \in PosType /\ PosOK(dir, pos) /\ (op \in {"lookup", "label"} => pos.idx = 0)
  BY <1>1, FirstOK
<1>3. Start(op, want, pos) \in CallType /\ ScanOK(dir, Start(op, want, pos))
  BY <1>1, <1>2, StartOK
<1>4. Start(op, want, pos).op = op /\ Start(op, want, pos).idx = pos.idx
  BY DEF Start
<1> QED BY <1>3, <1>4, ContinueKeeps

\* A new iterator has listed nothing.
LEMMA IterStartKeeps ==
  ASSUME Scannable, IInv, IterStart
  PROVE  IInv'
<1>1. /\ type' = type /\ fixed' = fixed /\ dir' = dir /\ call' = call /\ Idle /\ Idle'
      /\ it' = First /\ listed' = <<>> /\ answer'.op = "start"
  BY DEF IterStart, content, Idle
<1>2. dir \in Dirs /\ call = NoCall
  BY <1>1 DEF IInv, TypeOK
<1>3. listed' = ListedTo(dir, it'.idx) /\ it' \in PosType /\ PosOK(dir, it')
  BY <1>1, <1>2, FirstOK
<1>4. Len(listed') <= Len(dir)
  BY <1>1, <1>2, OneBlock
<1>5. TypeOK'
  BY <1>1, <1>3, <1>4 DEF IInv, TypeOK, PosType
<1>6. ListOK'
  BY <1>1, <1>2, <1>3, NoCallType DEF ListOK
<1>7. AnswerOK'
  BY <1>1 DEF AnswerOK, LabelExact
<1> QED BY <1>1, <1>2, <1>3, <1>5, <1>6, <1>7 DEF IInv

\* Initially no call runs and nothing is listed.
LEMMA InitIInv ==
  ASSUME Scannable, Init
  PROVE  IInv
<1>1. /\ type \in Types /\ fixed \in BOOLEAN /\ dir \in Dirs /\ it = First
      /\ call = NoCall /\ listed = <<>> /\ answer.op = "none"
  BY DEF Init
<1>2. Idle /\ call \in CallType /\ call.op = "none"
  BY <1>1, NoCallType DEF Idle
<1>3. listed = ListedTo(dir, it.idx) /\ it \in PosType /\ PosOK(dir, it)
  BY <1>1, FirstOK
<1>4. Len(listed) <= Len(dir)
  BY <1>1, OneBlock
<1>5. TypeOK
  BY <1>1, <1>2, <1>3, <1>4 DEF TypeOK, PosType, CallType
<1> QED BY <1>1, <1>2, <1>3, <1>5 DEF IInv, ListOK, AnswerOK, LabelExact

\* Every action keeps the invariant.
LEMMA NextIInv ==
  ASSUME Scannable, IInv, [Next]_vars
  PROVE  IInv'
<1>1. CASE IterStart
  BY <1>1, IterStartKeeps
<1>2. CASE IterNext
  <2>1. Idle /\ Continue(Start("next", <<>>, it))
    BY <1>2 DEF IterNext, Continue
  <2> QED BY <2>1, CallKeeps
<1>3. CASE GetVolumeLabel
  <2>1. Idle /\ Continue(Start("label", <<>>, First))
    BY <1>3 DEF GetVolumeLabel, Continue
  <2> QED BY <2>1, CallKeeps
<1>4. CASE \E name \in Wanted : Lookup(name)
  <2>1. PICK name \in Wanted : Lookup(name)
    BY <1>4
  <2>2. Idle /\ Continue(Start("lookup", name, First))
    BY <2>1 DEF Lookup, Continue
  <2> QED BY <2>2, CallKeeps
<1>5. CASE ScanStep
  BY <1>5, FetchKeeps, BlockDoneKeeps, SeeEndKeeps, SkipDeletedKeeps, SeeLfnKeeps,
     SeeVolumeIdKeeps, ListEntryKeeps, CompareEntryKeeps, LabelStopsKeeps DEF ScanStep
<1>6. CASE UNCHANGED vars
  <2>1. /\ type' = type /\ fixed' = fixed /\ dir' = dir /\ it' = it /\ call' = call
        /\ answer' = answer /\ listed' = listed
    BY <1>6 DEF vars
  <2>2. TypeOK'
    BY <2>1 DEF IInv, TypeOK
  <2>3. ListOK' /\ AnswerOK'
    BY <2>1 DEF IInv, ListOK, AnswerOK, LabelExact
  <2>4. PosOK(dir', it')
    BY <2>1 DEF IInv
  <2>5. IF Idle' THEN call' = NoCall ELSE ScanOK(dir', call')
    BY <2>1 DEF IInv, Idle
  <2> QED BY <2>2, <2>3, <2>4, <2>5 DEF IInv
<1> QED BY <1>1, <1>2, <1>3, <1>4, <1>5, <1>6 DEF Next

\* The invariant holds throughout.
LEMMA SpecIInv ==
  ASSUME Scannable
  PROVE  Spec => []IInv
<1>1. Init => IInv
  BY InitIInv
<1>2. IInv /\ [Next]_vars => IInv'
  BY NextIInv
<1> QED BY <1>1, <1>2, PTL DEF Spec

-----------------------------------------------------------------------------
\* Calls keep to their states and positions, and no listing is longer than its
\* directory.
THEOREM DirTyped ==
  ASSUME Scannable
  PROVE  Spec => []TypeOK
<1>1. IInv => TypeOK
  BY DEF IInv
<1> QED BY <1>1, SpecIInv, PTL

\* dir_iter_next returns every file once, in order and under its own name, with
\* any searches between two calls, and ends only after the last (fat.c:1154).
THEOREM ListingComplete ==
  ASSUME Scannable
  PROVE  Spec => []ListsAll
<1>1. IInv => ListsAll
  <2> SUFFICES ASSUME IInv PROVE ListsAll
    OBVIOUS
  <2>1. dir \in Dirs /\ it.idx \in Nat /\ listed = ListedTo(dir, it.idx)
    BY DEF IInv, TypeOK, PosOK, ListOK
  <2>2. IsPrefix(listed, Listing(dir))
    BY <2>1, ListedType
  <2> QED BY <2>2 DEF IInv, AnswerOK, ListsAll
<1> QED BY <1>1, SpecIInv, PTL

\* get_volume_string answers with the volume id of the directory, or with the
\* label of the boot sector when there is none (fat.c:921).
THEOREM LabelFound ==
  ASSUME Scannable
  PROVE  Spec => []LabelExact
<1>1. IInv => LabelExact
  BY DEF IInv, AnswerOK
<1> QED BY <1>1, SpecIInv, PTL

\* The step in which a search returns.
LEMMA LookupStep ==
  ASSUME Scannable, IInv, Next, ~Idle, Idle', call.op = "lookup"
  PROVE  IF Hits(dir, call.want) = {} THEN answer'.ret = 1
         ELSE /\ answer'.ret = 0
              /\ answer'.name = Listing(dir)[FirstHit(dir, call.want)]
<1>1. ~call.ended /\ dir \in Dirs /\ call.idx \in Nat /\ call \in CallType /\ ScanOK(dir, call)
  BY CallFacts DEF ScanOK
<1>2. \A n \in 1 .. Rank(dir, call.idx) : ~Matches(call.want, Listing(dir)[n])
  BY <1>1 DEF ScanOK
<1>3. ASSUME NEW at \in {"fetch", "scan"}, NEW idx \in 0 .. BlockEntries,
             NEW lfn \in Owners \cup {Nobody},
             call' = [call EXCEPT !.at = at, !.idx = idx, !.lfn = lfn]
      PROVE  FALSE
  BY <1>1, <1>3 DEF CallType, Idle
<1>4. CASE CompareEntry
  <2>1. Scanning("entry")
    BY <1>4 DEF CompareEntry
  <2>2. /\ NameOf(Owner, call.lfn) = NameAt(dir, call.idx + 1)
        /\ call.idx + 1 \in Live(dir)
    BY <2>1, EntryName
  <2>3. CASE ~Matches(call.want, NameOf(Owner, call.lfn))
    <3>1. call' = [call EXCEPT !.at = "fetch", !.idx = Bumped, !.lfn = Nobody]
      BY <1>4, <2>3 DEF CompareEntry, Continue
    <3>2. Bumped \in 0 .. BlockEntries
      BY <2>1, ScanFacts
    <3> QED BY <1>3, <3>1, <3>2
  <2>4. CASE Matches(call.want, NameOf(Owner, call.lfn))
    <3> DEFINE r == Rank(dir, call.idx)
    <3>1. answer' = [op |-> call.op, ret |-> 0, name |-> NameAt(dir, call.idx + 1)]
      BY <1>4, <2>2, <2>4 DEF CompareEntry, Return
    <3>2. /\ r \in Nat /\ Rank(dir, call.idx + 1) = r + 1
          /\ r + 1 <= Cardinality(Live(dir))
          /\ Listing(dir)[r + 1] = NameAt(dir, call.idx + 1)
      <4>1. r \in Nat /\ Rank(dir, call.idx + 1) = r + 1
        BY <1>1, <2>2, RankType, RankStep
      <4>2. /\ Rank(dir, call.idx + 1) \in 1 .. Cardinality(Live(dir))
            /\ Listing(dir)[Rank(dir, call.idx + 1)] = NameAt(dir, call.idx + 1)
        BY <1>1, <2>2, ListingAt
      <4> QED BY <4>1, <4>2
    <3>3. Hits(dir, call.want) # {} /\ FirstHit(dir, call.want) = r + 1
      BY <1>1, <1>2, <2>2, <2>4, <3>2, HitFound
    <3> QED BY <3>1, <3>2, <3>3
  <2> QED BY <2>3, <2>4
<1>5. CASE SeeEnd
  <2>1. Scanning("end") /\ Return(1, <<>>, Here)
    BY <1>5 DEF SeeEnd, ReturnEnd
  <2>2. Rank(dir, call.idx) = Cardinality(Live(dir))
    BY <2>1, ListOver
  <2>3. Hits(dir, call.want) = {}
    BY <1>1, <1>2, <2>2, NoHit
  <2>4. answer'.ret = 1
    BY <2>1 DEF Return
  <2> QED BY <2>3, <2>4
<1>6. ~Fetch
  <2> SUFFICES ASSUME Fetch PROVE FALSE
    OBVIOUS
  <2>1. NextPosition = [block |-> 0, idx |-> call.idx] /\ BlockExists(0)
    BY CallFacts, LookedAt, FirstBlock
  <2>2. call' = [call EXCEPT !.at = "scan", !.block = 0, !.idx = call.idx]
    BY <2>1 DEF Fetch, Continue
  <2> QED BY <1>1, <2>2 DEF CallType, Idle
<1>7. ~BlockDone
  <2> SUFFICES ASSUME BlockDone PROVE FALSE
    OBVIOUS
  <2>1. call' = [call EXCEPT !.at = "fetch"]
    BY <1>1 DEF BlockDone, Continue
  <2> QED BY <1>1, <2>1 DEF CallType, Idle
<1>8. ~SkipDeleted
  <2> SUFFICES ASSUME SkipDeleted PROVE FALSE
    OBVIOUS
  <2>1. call' = [call EXCEPT !.idx = Bumped]
    BY DEF SkipDeleted, Continue
  <2> QED BY <1>1, <2>1 DEF CallType, SkipDeleted, Scanning, Idle
<1>9. ~SeeLfn
  <2> SUFFICES ASSUME SeeLfn PROVE FALSE
    OBVIOUS
  <2>1. call' = [call EXCEPT !.idx = Bumped, !.lfn = IF LfnEnabled THEN Owner ELSE call.lfn]
    BY DEF SeeLfn, Continue
  <2> QED BY <1>1, <2>1 DEF CallType, SeeLfn, Scanning, Idle
<1>10. ~SeeVolumeId
  <2> SUFFICES ASSUME SeeVolumeId PROVE FALSE
    OBVIOUS
  <2>1. call' = [call EXCEPT !.idx = Bumped, !.lfn = Nobody]
    BY DEF SeeVolumeId, Continue
  <2> QED BY <1>1, <2>1 DEF CallType, SeeVolumeId, Scanning, Idle
<1>11. ~ListEntry /\ ~LabelStops
  BY DEF ListEntry, LabelStops
<1>12. ~IterStart /\ ~IterNext /\ ~GetVolumeLabel /\ (\A name \in Wanted : ~Lookup(name))
  BY DEF IterStart, IterNext, GetVolumeLabel, Lookup
<1> QED BY <1>4, <1>5, <1>6, <1>7, <1>8, <1>9, <1>10, <1>11, <1>12 DEF Next, ScanStep

\* A search finds a name exactly if a listing shows it, and of two entries that
\* match the first (match_name, fat.c:1352).
THEOREM SearchMatchesListing ==
  ASSUME Scannable
  PROVE  Spec => LookupExact
<1> DEFINE Found(name) ==
      IF Hits(dir, name) = {} THEN answer'.ret = 1
      ELSE answer'.ret = 0 /\ answer'.name = Listing(dir)[FirstHit(dir, name)]
<1> DEFINE Exact == \A name \in Wanted :
      (call.op = "lookup" /\ call.want = name /\ ~Idle /\ Idle') => Found(name)
<1>1. ASSUME IInv, [Next]_vars PROVE [Exact]_vars
  <2> SUFFICES ASSUME Next, NEW name \in Wanted, call.op = "lookup", call.want = name,
                      ~Idle, Idle'
               PROVE  Found(name)
    BY <1>1
  <2> QED BY <1>1, LookupStep
<1>2. LookupExact <=> [][Exact]_vars
  BY DEF LookupExact
<1> HIDE DEF Exact
<1> QED BY <1>1, <1>2, SpecIInv, PTL DEF Spec

=============================================================================
