---------------------------- MODULE MatchProofs -----------------------------
(***************************************************************************)
(* match() with collapse() and match_cidr(): they stay within their        *)
(* strings and say what the mask stands for, whatever mask, name and       *)
(* address they are given and however often match() goes back.             *)
(***************************************************************************)
EXTENDS MaskMatch, FiniteSetTheorems, TLAPS

\* How a leaf that names no prover is tried.
USE SMT, Zenon, SMTT(20)

\* The place of a rank, and a list without what is not at some places, as collapse leaves it.
Nth(places, k) == CHOOSE i \in places : Cardinality({j \in places : j <= i}) = k
KeepOnly(list, places) == [k \in 1 .. Cardinality(places) |-> list[Nth(places, k)]]

\* The places up to one.
Before(places, i) == {j \in places : j <= i}

\* A list of the elements of another at some places, all of them, in their order.
KeptAs(new, list, places, u, at) ==
  /\ new = [k \in 1 .. u |-> list[at[k]]]
  /\ at \in [1 .. u -> places]
  /\ \A j, k \in 1 .. u : j < k => at[j] < at[k]
  /\ \A i \in places : \E k \in 1 .. u : at[k] = i

\* The number of the places up to one tells which it is.
LEMMA Ranks ==
  ASSUME NEW w \in Nat, NEW places \in SUBSET (1 .. w)
  PROVE  /\ IsFiniteSet(places) /\ Cardinality(places) \in Nat
         /\ \A i \in places : Cardinality(Before(places, i)) \in 1 .. Cardinality(places)
         /\ \A i, j \in places : i < j => Cardinality(Before(places, i)) < Cardinality(Before(places, j))
<1>1. IsFiniteSet(places) /\ Cardinality(places) \in Nat
  <2>1. IsFiniteSet(1 .. w)
    BY FS_Interval
  <2> QED
    BY <2>1, FS_Subset, FS_CardinalityType, Zenon
<1>2. ASSUME NEW i \in places
      PROVE  /\ IsFiniteSet(Before(places, i))
             /\ Cardinality(Before(places, i)) \in 1 .. Cardinality(places)
  <2>1. Before(places, i) \in SUBSET places /\ i \in Before(places, i)
    BY DEF Before
  <2>2. /\ IsFiniteSet(Before(places, i)) /\ Cardinality(Before(places, i)) \in Nat
        /\ Cardinality(Before(places, i)) <= Cardinality(places)
    BY <1>1, <2>1, FS_Subset, FS_CardinalityType
  <2>3. Cardinality(Before(places, i)) # 0
    BY <2>1, <2>2, FS_EmptySet
  <2> QED
    BY <1>1, <2>2, <2>3
<1>3. ASSUME NEW i \in places, NEW j \in places, i < j
      PROVE  Cardinality(Before(places, i)) < Cardinality(Before(places, j))
  <2>1. Before(places, i) \in SUBSET Before(places, j) /\ j \in Before(places, j) /\ j \notin Before(places, i)
    <3>1. \A k \in places : k \in Nat
      OBVIOUS
    <3>2. i \in Nat /\ j \in Nat /\ j <= j /\ ~ (j <= i)
      BY <1>3, <3>1
    <3>3. \A k \in places : k <= i => k <= j
      BY <1>3, <3>1, <3>2
    <3> QED
      BY <3>2, <3>3, Zenon DEF Before
  <2>2. Cardinality(Before(places, i)) \in Nat /\ Cardinality(Before(places, j)) \in Nat
    BY <1>2, FS_CardinalityType
  <2>3. Cardinality(Before(places, i)) <= Cardinality(Before(places, j)) /\ Cardinality(Before(places, i)) # Cardinality(Before(places, j))
    BY <1>2, <2>1, FS_Subset
  <2> QED
    BY <2>2, <2>3
<1> QED
  BY <1>1, <1>2, <1>3

\* There is a place of every rank.
LEMMA EveryRank ==
  ASSUME NEW w \in Nat, NEW places \in SUBSET (1 .. w), NEW k \in 1 .. Cardinality(places)
  PROVE  \E i \in places : Cardinality(Before(places, i)) = k
<1>1. PICK u : u = Cardinality(places)
  OBVIOUS
<1>2. /\ IsFiniteSet(places) /\ u \in Nat
      /\ \A i \in places : Cardinality(Before(places, i)) \in 1 .. u
      /\ \A i, j \in places : i < j => Cardinality(Before(places, i)) < Cardinality(Before(places, j))
  BY <1>1, Ranks, Zenon
<1>3. PICK rank : rank = [i \in places |-> Cardinality(Before(places, i))]
  BY Zenon
<1>4. rank \in [places -> 1 .. u] /\ \A i \in places : rank[i] = Cardinality(Before(places, i))
  BY <1>2, <1>3
<1>5. ASSUME NEW i \in places, NEW j \in places, rank[i] = rank[j]
      PROVE  i = j
  <2>1. i \in Nat /\ j \in Nat /\ rank[i] \in Nat /\ rank[j] \in Nat
    BY <1>4
  <2>2. ~ (i < j) /\ ~ (j < i)
    BY <1>2, <1>4, <1>5, <2>1
  <2> QED
    BY <2>1, <2>2
<1>6. rank \in Injection(places, 1 .. u)
  BY <1>4, <1>5 DEF Injection, IsInjective
<1>7. IsFiniteSet(1 .. u) /\ Cardinality(1 .. u) = u
  BY <1>2, FS_Interval
<1>8. rank \in Surjection(places, 1 .. u)
  BY <1>1, <1>6, <1>7, FS_Injection
<1> QED
  BY <1>1, <1>4, <1>8 DEF Surjection

\* What KeepOnly leaves of a list.
LEMMA Kept ==
  ASSUME NEW w \in Nat, NEW places \in SUBSET (1 .. w), NEW list
  PROVE  \E u \in Nat : \E at : KeptAs(KeepOnly(list, places), list, places, u, at)
<1>1. PICK u : u = Cardinality(places)
  OBVIOUS
<1>2. /\ u \in Nat
      /\ \A i \in places : Cardinality(Before(places, i)) \in 1 .. u
      /\ \A i, j \in places : i < j => Cardinality(Before(places, i)) < Cardinality(Before(places, j))
  BY <1>1, Ranks, Zenon
<1>0. \A i \in places : i \in Nat
  OBVIOUS
<1>3. PICK at : at = [k \in 1 .. u |-> Nth(places, k)]
  BY Zenon
<1>4. ASSUME NEW k \in 1 .. u
      PROVE  at[k] \in places /\ at[k] \in Nat /\ Cardinality(Before(places, at[k])) = k
  <2>1. \E i \in places : Cardinality({j \in places : j <= i}) = k
    BY <1>1, EveryRank, Zenon DEF Before
  <2>2. Nth(places, k) \in places /\ Cardinality(Before(places, Nth(places, k))) = k
    BY <2>1 DEF Nth, Before
  <2>3. at[k] = Nth(places, k)
    BY <1>3
  <2>4. at[k] \in places
    BY <2>2, <2>3
  <2>5. at[k] \in Nat
    BY <1>0, <2>4, Zenon
  <2> QED
    BY <2>2, <2>3, <2>4, <2>5
<1>5. \A k \in 1 .. u : at[k] = Nth(places, k)
  BY <1>3
<1>6. KeepOnly(list, places) = [k \in 1 .. u |-> list[at[k]]]
  BY <1>1, <1>5 DEF KeepOnly
<1>7. at \in [1 .. u -> places]
  BY <1>3, <1>4
<1>8. ASSUME NEW j \in 1 .. u, NEW k \in 1 .. u, j < k
      PROVE  at[j] < at[k]
  <2>1. at[j] # at[k]
    BY <1>4, <1>8
  <2>2. ~ (at[k] < at[j])
    <3> SUFFICES ASSUME at[k] < at[j] PROVE FALSE
      OBVIOUS
    <3>1. Cardinality(Before(places, at[k])) < Cardinality(Before(places, at[j]))
      BY <1>2, <1>4
    <3> QED
      BY <1>4, <1>8, <3>1
  <2> QED
    BY <1>4, <2>1, <2>2
<1>9. ASSUME NEW i \in places
      PROVE  \E k \in 1 .. u : at[k] = i
  <2>1. PICK k \in 1 .. u : k = Cardinality(Before(places, i))
    BY <1>2
  <2>2. at[k] \in places /\ at[k] \in Nat /\ i \in Nat
        /\ Cardinality(Before(places, at[k])) = Cardinality(Before(places, i))
    BY <1>4, <2>1
  <2>3. ~ (at[k] < i) /\ ~ (i < at[k])
    <3>1. Cardinality(Before(places, i)) \in Nat
      BY <2>1
    <3> QED
      BY <1>2, <2>2, <3>1
  <2> QED
    BY <2>2, <2>3
<1> QED
  BY <1>2, <1>6, <1>7, <1>8, <1>9 DEF KeptAs

\* A nonempty set of numbers has a least one.
LEMMA LeastNat ==
  ASSUME NEW S \in SUBSET Nat, S # {}
  PROVE  \E u \in S : \A k \in S : u <= k
<1>1. PICK w \in S : \A u \in S : ~ (<<u, w>> \in OpToRel(<, Nat))
  BY NatLessThanWellFounded, WFMin, Zenon
<1>2. \A u \in S : ~ (u < w)
  BY <1>1, Zenon DEF OpToRel
<1> QED
  BY <1>2

\* Induction up to w: a set with 0, and with i whenever it has i - 1.
LEMMA UpTo ==
  ASSUME NEW w \in Nat, NEW S, 0 \in S, \A i \in 1 .. w : i - 1 \in S => i \in S
  PROVE  \A i \in 0 .. w : i \in S
<1> DEFINE Out == {i \in 0 .. w : i \notin S}
<1> SUFFICES ASSUME Out # {} PROVE FALSE
  OBVIOUS
<1>0. Out \in SUBSET Nat
  OBVIOUS
<1>1. PICK i \in Out : \A j \in Out : i <= j
  BY <1>0, LeastNat, Zenon
<1>2. i \in 1 .. w /\ i - 1 \in 0 .. w
  BY <1>1
<1>3. i - 1 \in S
  BY <1>1, <1>2
<1> QED
  BY <1>2, <1>3

\* A sequence, of whatever is in it.
IsSeq(s) == s \in Seq({s[k] : k \in DOMAIN s})

\* Nothing was passed before match is entered.  Since the last *, as much was passed of the
\* mask as of the name.
InBoundsInv ==
  /\ in \in Inputs \cup {NoInput} /\ IsSeq(mask)
  /\ fn # "match" => m = 1 /\ ma = 1 /\ n = 1 /\ na = 1
  /\ MatchInBounds
  /\ na <= n
  /\ wild \in BOOLEAN
  /\ wild => m - ma = n - na

\* The characters of a sequence are those before its end, and its end is a zero.
LEMMA AtFacts ==
  ASSUME NEW s, IsSeq(s), NEW i \in 1 .. Len(s) + 1
  PROVE  /\ Len(s) \in Nat
         /\ At(s, i) # Zero => i \in 1 .. Len(s)
         /\ i = Len(s) + 1 => At(s, i) = Zero
<1>1. Len(s) \in Nat /\ DOMAIN s = 1 .. Len(s)
  BY DEF IsSeq
<1> QED
  BY <1>1 DEF At

\* Where a run of *s ends.
LEMMA SkipFacts ==
  ASSUME IsSeq(mask), NEW i \in 1 .. Len(mask) + 1
  PROVE  /\ SkipStars(i) \in i .. Len(mask) + 1
         /\ At(mask, SkipStars(i)) # "*"
         /\ \A k \in i .. SkipStars(i) - 1 : mask[k] = "*"
<1> DEFINE T == {j \in i .. Len(mask) + 1 : At(mask, j) # "*"}
<1>1. Len(mask) \in Nat /\ DOMAIN mask = 1 .. Len(mask)
  BY DEF IsSeq
<1>2. Len(mask) + 1 \in T
  BY <1>1 DEF At, Zero
<1>3. T \subseteq Nat /\ T # {}
  BY <1>1, <1>2
<1> HIDE DEF T
<1>4. PICK j \in T : \A k \in T : ~ (<<k, j>> \in OpToRel(<, Nat))
  BY <1>3, NatLessThanWellFounded, WFMin, Zenon
<1>5. \A k \in T : ~ (k < j)
  BY <1>3, <1>4, Zenon DEF OpToRel
<1>6. j \in i .. Len(mask) + 1 /\ At(mask, j) # "*"
  BY DEF T
<1>7. ASSUME NEW k \in i .. j - 1
      PROVE  mask[k] = "*"
  <2>1. k \in i .. Len(mask) + 1 /\ k < j
    BY <1>1, <1>6
  <2>2. At(mask, k) = "*"
    BY <1>5, <2>1 DEF T
  <2> QED
    BY <2>2 DEF At, Zero
<1> QED
  BY <1>6, <1>7 DEF SkipStars

\* The strings of an input, and those of none, are strings.
LEMMA InputStrings ==
  ASSUME NEW i \in Inputs \cup {NoInput}
  PROVE  i.mask \in String /\ i.name \in String
<1>1. NoInput.mask \in String /\ NoInput.name \in String
  BY DEF NoInput, String
<1> QED
  BY <1>1, MatchAssumption DEF Input

\* Only the end of a name is compared as zero.
LEMMA LowerFacts ==
  ASSUME in \in Inputs \cup {NoInput}, NEW j \in 1 .. Len(name) + 1
  PROVE  /\ IsSeq(name)
         /\ At(name, j) # Zero => Lower(At(name, j)) # Zero
         /\ Lower(Zero) = Zero
<1>1. name \in String
  BY InputStrings DEF name
<1>2. IsSeq(name)
  BY <1>1 DEF IsSeq, String
<1>3. ASSUME At(name, j) # Zero
      PROVE  Lower(At(name, j)) # Zero
  <2>1. j \in 1 .. Len(name) /\ At(name, j) = name[j]
    BY <1>2, <1>3, AtFacts DEF At
  <2>2. name[j] \in Chars \cup {"*", "?"}
    BY <1>1, <2>1 DEF String
  <2> QED
    BY <2>1, <2>2, MatchAssumption DEF Lower, Zero
<1>4. Lower(Zero) = Zero
  BY MatchAssumption DEF Lower
<1> QED
  BY <1>2, <1>3, <1>4

\* One comparison: it is at i and j, as far behind back and go, and the name goes on wherever
\* the mask does and wherever the search would start again.
LEMMA CompareFacts ==
  ASSUME InBoundsInv, fn = "match", UNCHANGED <<in, fn, mask>>,
         NEW i \in 1 .. Len(mask) + 1, NEW j \in 1 .. Len(name) + 1,
         NEW back \in 1 .. Len(mask) + 1, NEW go \in 1 .. Len(name) + 1, NEW w \in BOOLEAN,
         go <= j,
         w => i - back = j - go,
         At(mask, i) # Zero => At(name, j) # Zero,
         Lower(At(mask, i)) # Lower(At(name, j)) => go <= Len(name),
         Compare(i, j, back, go, w)
  PROVE  InBoundsInv'
<1>1. Len(mask) \in Nat /\ (At(mask, i) # Zero => i \in 1 .. Len(mask))
  BY AtFacts DEF InBoundsInv
<1>2. /\ Len(name) \in Nat
      /\ At(name, j) # Zero => j \in 1 .. Len(name) /\ Lower(At(name, j)) # Zero
      /\ Lower(Zero) = Zero
  BY LowerFacts, AtFacts DEF InBoundsInv
<1>3. name' = name /\ fn' = "match" /\ in' = in /\ mask' = mask
  BY DEF name
<1>4. ma' = back /\ wild' = w
  BY DEF Compare
<1> SUFFICES /\ m' \in 1 .. Len(mask) + 1
             /\ n' \in 1 .. Len(name) + 1 /\ na' \in 1 .. Len(name) + 1
             /\ na' <= n'
             /\ w => m' - back = n' - na'
  BY <1>3, <1>4 DEF InBoundsInv, MatchInBounds, IsSeq
<1>5. CASE Lower(At(mask, i)) # Lower(At(name, j)) /\ At(mask, i) # "?"
  <2>1. CASE w
    BY <1>1, <1>2, <1>5, <2>1 DEF Compare
  <2>2. CASE ~ w
    BY <1>1, <1>2, <1>5, <2>2 DEF Compare
  <2> QED
    BY <2>1, <2>2
<1>6. CASE ~ (Lower(At(mask, i)) # Lower(At(name, j)) /\ At(mask, i) # "?")
  <2>1. At(mask, i) # Zero <=> At(name, j) # Zero
    BY <1>2, <1>6 DEF Zero
  <2>2. /\ m' = IF At(mask, i) # Zero THEN i + 1 ELSE i
        /\ n' = IF At(mask, i) # Zero THEN j + 1 ELSE j
        /\ na' = go
    BY <1>6, <2>1, Zenon DEF Compare
  <2> QED
    BY <1>1, <1>2, <2>1, <2>2
<1> QED
  BY <1>5, <1>6

\* A turn that returns changes nothing that the invariant is about.
LEMMA ReturnsFacts ==
  ASSUME InBoundsInv, UNCHANGED <<in, fn, mask>>, UNCHANGED <<m, n, ma, na, wild>>
  PROVE  InBoundsInv'
BY DEF InBoundsInv, MatchInBounds, IsSeq, name

\* A turn of the loop.  If the mask is used up and the search starts at the end of the name, it
\* has only just passed the *, so that both are at their end and no further step back follows.
LEMMA TurnFacts ==
  ASSUME InBoundsInv, fn = "match", UNCHANGED <<in, fn, mask>>, Turn
  PROVE  InBoundsInv'
<1> DEFINE star == At(mask, m) = "*"
           i == IF star THEN SkipStars(m) ELSE m
           back == IF star THEN i ELSE ma
           go == IF star THEN n ELSE na
           w == wild \/ star
<1>1. /\ IsSeq(mask) /\ IsSeq(name) /\ Len(mask) \in Nat /\ Len(name) \in Nat
      /\ m \in 1 .. Len(mask) + 1 /\ ma \in 1 .. Len(mask) + 1
      /\ n \in 1 .. Len(name) + 1 /\ na \in 1 .. Len(name) + 1
      /\ na <= n /\ wild \in BOOLEAN /\ (wild => m - ma = n - na)
  BY LowerFacts, AtFacts DEF InBoundsInv, MatchInBounds
<1>2. SkipStars(m) \in m .. Len(mask) + 1
  BY <1>1, SkipFacts
<1>3. /\ i \in 1 .. Len(mask) + 1 /\ back \in 1 .. Len(mask) + 1
      /\ go \in 1 .. Len(name) + 1 /\ go <= n
      /\ w \in BOOLEAN /\ (w => i - back = n - go)
  <2>1. CASE star
    BY <1>1, <1>2, <2>1
  <2>2. CASE ~ star
    BY <1>1, <2>2
  <2> QED
    BY <2>1, <2>2
<1>4. IF At(mask, i) = Zero
      THEN IF At(name, n) = Zero \/ EndsInStar THEN Returns(TRUE)
           ELSE IF ~ w THEN Returns(FALSE)
           ELSE Compare(back, go + 1, back, go + 1, w)
      ELSE IF At(name, n) = Zero THEN Returns(FALSE)
      ELSE Compare(i, n, back, go, w)
  BY Zenon DEF Turn
<1> HIDE DEF i, back, go, w
<1>5. CASE Returns(TRUE) \/ Returns(FALSE)
  BY <1>5, ReturnsFacts, Zenon DEF Returns
<1>6. CASE /\ At(mask, i) = Zero /\ At(name, n) # Zero /\ w
           /\ Compare(back, go + 1, back, go + 1, w)
  <2>1. /\ n \in 1 .. Len(name) /\ go + 1 \in 1 .. Len(name) + 1
        /\ go + 1 <= go + 1 /\ back - back = (go + 1) - (go + 1)
    BY <1>1, <1>3, <1>6, AtFacts
  <2>2. CASE go + 1 <= Len(name)
    <3>1. At(name, go + 1) # Zero
      <4>1. name \in String
        BY InputStrings DEF name, InBoundsInv
      <4>2. DOMAIN name = 1 .. Len(name) /\ name[go + 1] \in Chars \cup {"*", "?"}
        BY <1>1, <1>3, <2>2, <4>1 DEF String
      <4> QED
        BY <1>3, <2>2, <4>2, MatchAssumption DEF At, Zero
    <3> QED
      BY <1>3, <1>6, <2>1, <2>2, <3>1, CompareFacts, Zenon
  <2>3. CASE go + 1 = Len(name) + 1
    <3>1. back = i
      BY <1>1, <1>3, <1>6, <2>1, <2>3
    <3>2. At(mask, back) = Zero /\ At(name, go + 1) = Zero
      BY <1>1, <1>6, <2>1, <2>3, <3>1, AtFacts
    <3> QED
      BY <1>3, <1>6, <2>1, <3>2, CompareFacts, Zenon
  <2> QED
    BY <1>1, <1>3, <2>1, <2>2, <2>3
<1>7. CASE At(name, n) # Zero /\ Compare(i, n, back, go, w)
  <2>1. n \in 1 .. Len(name)
    BY <1>1, <1>7, AtFacts
  <2> QED
    BY <1>1, <1>3, <1>7, <2>1, CompareFacts
<1> QED
  BY <1>4, <1>5, <1>6, <1>7, Zenon

\* collapse gives a string, which is looked at from its start.
LEMMA CollapseFacts ==
  ASSUME InBoundsInv, collapse
  PROVE  InBoundsInv'
<1> DEFINE keep == {i \in DOMAIN mask : ~ (mask[i] = "*" /\ At(mask, i - 1) = "*")}
           elt(k) == mask[CHOOSE i \in keep : Cardinality({j \in keep : j <= i}) = k]
<1>1. DOMAIN mask = 1 .. Len(mask) /\ Len(mask) \in Nat
  BY DEF InBoundsInv, IsSeq
<1>2. IsFiniteSet(1 .. Len(mask))
  BY <1>1, FS_Interval
<1>3. Cardinality(keep) \in Nat
  BY <1>1, <1>2, FS_Subset, FS_CardinalityType
<1>4. mask' = [k \in 1 .. Cardinality(keep) |-> elt(k)]
  BY Zenon DEF collapse
<1>5. /\ fn = "collapse" /\ fn' = "match" /\ in' = in
      /\ m' = m /\ n' = n /\ ma' = ma /\ na' = na /\ wild' = wild
  BY DEF collapse
<1> HIDE DEF keep, elt
<1>6. DOMAIN mask' = 1 .. Cardinality(keep)
  BY <1>4
<1>7. mask' \in Seq({(mask')[k] : k \in DOMAIN mask'})
  <2> DEFINE c == Cardinality(keep)
             S == {(mask')[k] : k \in DOMAIN mask'}
  <2>1. c \in Nat
    BY <1>3
  <2>2. mask' \in [1 .. c -> S]
    BY <1>4, <1>6
  <2> QED
    BY <2>1, <2>2, SMTT(60)
<1>8. Len(mask') = Cardinality(keep)
  BY <1>3, <1>6, <1>7
<1> QED
  BY <1>3, <1>5, <1>7, <1>8 DEF InBoundsInv, MatchInBounds, IsSeq, name

\* Before the call nothing was passed.
LEMMA InBoundsFirst == MatchInit => InBoundsInv
<1> SUFFICES ASSUME MatchInit PROVE InBoundsInv
  OBVIOUS
<1>1. in \in Inputs \cup {NoInput} /\ mask \in String /\ name \in String
  BY InputStrings DEF MatchInit, name
<1>2. IsSeq(mask) /\ Len(mask) \in Nat /\ Len(name) \in Nat
  BY <1>1 DEF String, IsSeq
<1>3. m = 1 /\ n = 1 /\ ma = 1 /\ na = 1 /\ wild = FALSE
  BY DEF MatchInit
<1>4. MatchInBounds /\ na <= n
  BY <1>2, <1>3 DEF MatchInBounds
<1>5. wild \in BOOLEAN /\ ~ wild
  BY <1>3, Zenon
<1> QED
  BY <1>1, <1>2, <1>3, <1>4, <1>5 DEF InBoundsInv

\* Each step stays within the strings.
LEMMA InBoundsKept == InBoundsInv /\ [MatchNext]_matchVars => InBoundsInv'
<1> SUFFICES ASSUME InBoundsInv, [MatchNext]_matchVars PROVE InBoundsInv'
  OBVIOUS
<1>1. CASE match
  <2>1. fn = "match" /\ UNCHANGED <<in, fn, mask>>
    BY <1>1 DEF match
  <2>2. Returns(FALSE) \/ Turn
    BY <1>1, Zenon DEF match
  <2>3. CASE Returns(FALSE)
    BY <2>1, <2>3, ReturnsFacts DEF Returns
  <2>4. CASE Turn
    BY <2>1, <2>4, TurnFacts
  <2> QED
    BY <2>2, <2>3, <2>4, Zenon
<1>2. CASE collapse
  BY <1>2, CollapseFacts
<1>3. CASE match_cidr
  BY <1>3 DEF match_cidr, InBoundsInv, MatchInBounds, IsSeq, name
<1>4. CASE Call
  <2>1. PICK i \in Inputs : in' = i /\ mask' = i.mask
    BY <1>4 DEF Call
  <2>2. /\ m' = 1 /\ n' = 1 /\ ma' = 1 /\ na' = 1 /\ wild' = wild
    BY <1>4 DEF Call, InBoundsInv
  <2>3. mask' \in String /\ name' \in String
    BY <2>1, InputStrings DEF name
  <2>4. IsSeq(mask') /\ Len(mask') \in Nat /\ Len(name') \in Nat
    BY <2>3 DEF String, IsSeq
  <2>5. MatchInBounds' /\ na' <= n' /\ m' - ma' = n' - na'
    BY <2>2, <2>4 DEF MatchInBounds
  <2> QED
    BY <2>1, <2>2, <2>4, <2>5 DEF InBoundsInv, IsSeq
<1>5. CASE UNCHANGED matchVars
  BY <1>5 DEF matchVars, InBoundsInv, MatchInBounds, IsSeq, name
<1> QED
  BY <1>1, <1>2, <1>3, <1>4, <1>5 DEF MatchNext

\* match() (match.c) never reads behind the zero that ends its mask or its name, for all masks
\* and names, whether or not the mask was collapsed or belongs to a CIDR range, and however
\* many turns its loop is allowed.
THEOREM InBounds == MatchSpec => []MatchInBounds
<1>1. InBoundsInv => MatchInBounds
  BY DEF InBoundsInv
<1> QED
  BY <1>1, InBoundsFirst, InBoundsKept, PTL DEF MatchSpec

\* The starts that Glob runs through, for the last w characters of s.
GlobStages(g, s, t, w) ==
  g = [r \in 0 .. w |-> IF r = 0 THEN {Len(t) + 1} ELSE Starts(s[Len(s) + 1 - r], t, g[r - 1])]

\* Glob is decided by the last of the stages.
LEMMA GlobHasStages ==
  ASSUME NEW s, NEW t, Len(s) \in Nat
  PROVE  \E g : GlobStages(g, s, t, Len(s)) /\ (Glob(s, t) <=> 1 \in g[Len(s)])
<1> DEFINE T == {w \in Nat : \E g : GlobStages(g, s, t, w)}
<1>1. 0 \in T
  <2> DEFINE g == [r \in 0 .. 0 |-> {Len(t) + 1}]
  <2>1. GlobStages(g, s, t, 0)
    BY DEF GlobStages
  <2> QED
    BY <2>1
<1>2. ASSUME NEW w \in 1 .. Len(s), w - 1 \in T PROVE w \in T
  <2>1. w - 1 \in Nat /\ w # 0 /\ w \in Nat
    OBVIOUS
  <2>2. PICK g : GlobStages(g, s, t, w - 1)
    BY <1>2
  <2> DEFINE last == Starts(s[Len(s) + 1 - w], t, g[w - 1])
             h == [i \in 0 .. w |-> IF i = w THEN last ELSE g[i]]
  <2>3. \A i \in 0 .. w : h[i] = IF i = 0 THEN {Len(t) + 1} ELSE Starts(s[Len(s) + 1 - i], t, h[i - 1])
    <3> TAKE i \in 0 .. w
    <3>1. CASE i = w
      BY <2>1, <3>1
    <3>2. CASE i # w
      <4>1. i \in 0 .. w - 1 /\ h[i] = g[i] /\ (i # 0 => h[i - 1] = g[i - 1])
        BY <2>1, <3>2
      <4> HIDE DEF h, last
      <4> QED
        BY <2>2, <4>1, Zenon DEF GlobStages
    <3> QED
      BY <3>1, <3>2
  <2>4. h = [i \in 0 .. w |-> h[i]]
    OBVIOUS
  <2> HIDE DEF h, last
  <2>5. GlobStages(h, s, t, w)
    BY <2>3, <2>4, Zenon DEF GlobStages
  <2> QED
    BY <2>1, <2>5
<1> HIDE DEF T
<1>3. \A i \in 0 .. Len(s) : i \in T
  BY <1>1, <1>2, UpTo, Zenon
<1>4. \E g : GlobStages(g, s, t, Len(s))
  BY <1>3 DEF T
<1> DEFINE g == CHOOSE f : GlobStages(f, s, t, Len(s))
<1>5. GlobStages(g, s, t, Len(s))
  BY <1>4
<1>6. Glob(s, t) <=> 1 \in g[Len(s)]
  BY DEF Glob, GlobStages
<1> QED
  BY <1>5, <1>6, Zenon

\* Of each place in a mask and behind it, the places of a name from which on the rest of the
\* mask stands for the rest of the name.
Table(h, s, t) ==
  /\ h[Len(s) + 1] = {Len(t) + 1}
  /\ \A i \in 1 .. Len(s) : h[i] = Starts(s[i], t, h[i + 1])
  /\ \A i \in 1 .. Len(s) + 1 : h[i] \subseteq 1 .. Len(t) + 1

\* A mask stands for a name if it does from the first place of both.
LEMMA GlobTable ==
  ASSUME NEW s, NEW t, Len(s) \in Nat, Len(t) \in Nat
  PROVE  \E h : Table(h, s, t) /\ (Glob(s, t) <=> 1 \in h[1])
<1>1. PICK g : GlobStages(g, s, t, Len(s)) /\ (Glob(s, t) <=> 1 \in g[Len(s)])
  BY GlobHasStages, Zenon
<1>2. \A r \in 0 .. Len(s) : g[r] = IF r = 0 THEN {Len(t) + 1} ELSE Starts(s[Len(s) + 1 - r], t, g[r - 1])
  BY <1>1, Zenon DEF GlobStages
<1>3. PICK h : h = [i \in 1 .. Len(s) + 1 |-> g[Len(s) + 1 - i]]
  BY Zenon
<1>4. h[Len(s) + 1] = {Len(t) + 1} /\ h[1] = g[Len(s)]
  BY <1>2, <1>3
<1>5. ASSUME NEW i \in 1 .. Len(s)
      PROVE  h[i] = Starts(s[i], t, h[i + 1])
  <2>1. PICK r \in 1 .. Len(s) : r = Len(s) + 1 - i
    OBVIOUS
  <2>2. Len(s) + 1 - r = i /\ Len(s) + 1 - (i + 1) = r - 1 /\ r # 0 /\ r \in 0 .. Len(s)
    BY <2>1
  <2>3. h[i] = g[r] /\ h[i + 1] = g[r - 1]
    BY <1>3, <2>1, <2>2
  <2>4. g[r] = Starts(s[i], t, g[r - 1])
    BY <1>2, <2>2
  <2> QED
    BY <2>3, <2>4
<1>6. ASSUME NEW c, NEW after PROVE Starts(c, t, after) \subseteq 1 .. Len(t) + 1
  BY DEF Starts
<1>7. ASSUME NEW i \in 1 .. Len(s) + 1 PROVE h[i] \subseteq 1 .. Len(t) + 1
  <2>1. CASE i = Len(s) + 1
    BY <1>4, <2>1
  <2>2. CASE i # Len(s) + 1
    BY <1>5, <1>6, <2>2
  <2> QED
    BY <2>1, <2>2
<1> QED
  BY <1>1, <1>4, <1>5, <1>7 DEF Table

\* The places up to one of X.
Up(t, X) == {p \in 1 .. Len(t) + 1 : \E k \in X : p <= k}

\* Whoever matches what follows *s matches them from every place before.
LEMMA StarRun ==
  ASSUME NEW s, NEW t, Len(s) \in Nat, Len(t) \in Nat, NEW h, Table(h, s, t),
         NEW i \in 1 .. Len(s), NEW j \in i + 1 .. Len(s) + 1, \A k \in i .. j - 1 : s[k] = "*"
  PROVE  h[i] = Up(t, h[j])
<1> DEFINE S == {r \in 0 .. j - i : r = 0 \/ h[j - r] = Up(t, h[j])}
<1>1. h[j] \subseteq 1 .. Len(t) + 1
  BY DEF Table
<1>2. PICK X : X = h[j]
  OBVIOUS
<1>3. Up(t, Up(t, X)) = Up(t, X)
  BY <1>1, <1>2 DEF Up
<1>4. 0 \in S
  OBVIOUS
<1>5. ASSUME NEW r \in 1 .. j - i, r - 1 \in S
      PROVE  r \in S
  <2>1. j - r \in i .. j - 1 /\ j - r \in 1 .. Len(s) /\ (j - r) + 1 = j - (r - 1)
    OBVIOUS
  <2>2. h[j - r] = Starts("*", t, h[j - (r - 1)])
    BY <2>1, Zenon DEF Table
  <2>3. h[j - r] = Up(t, h[j - (r - 1)])
    BY <2>2 DEF Starts, Up
  <2>4. CASE r - 1 = 0
    <3>1. j - (r - 1) = j
      BY <2>4
    <3> QED
      BY <2>3, <3>1
  <2>5. CASE h[j - (r - 1)] = Up(t, h[j])
    BY <1>2, <1>3, <2>3, <2>5
  <2> QED
    BY <1>5, <2>4, <2>5
<1> HIDE DEF S
<1>6. j - i \in Nat /\ j - i # 0 /\ j - (j - i) = i /\ j - i \in 0 .. j - i
  OBVIOUS
<1>7. \A r \in 0 .. j - i : r \in S
  BY <1>4, <1>5, <1>6, UpTo, Zenon
<1> QED
  BY <1>6, <1>7, Zenon DEF S

\* The characters of a string, and its end.
LEMMA AtString ==
  ASSUME NEW s \in String, NEW i \in 1 .. Len(s) + 1
  PROVE  /\ Len(s) \in Nat /\ IsSeq(s)
         /\ i \in 1 .. Len(s) => At(s, i) = s[i] /\ At(s, i) # Zero /\ Lower(At(s, i)) # Zero
         /\ i \notin 1 .. Len(s) => i = Len(s) + 1 /\ At(s, i) = Zero
         /\ Lower(Zero) = Zero
<1>1. Len(s) \in Nat /\ DOMAIN s = 1 .. Len(s) /\ IsSeq(s)
  BY DEF String, IsSeq
<1>2. Lower(Zero) = Zero
  BY MatchAssumption DEF Lower
<1>3. ASSUME i \in 1 .. Len(s)
      PROVE  At(s, i) = s[i] /\ s[i] # Zero /\ Lower(s[i]) # Zero
  <2>1. s[i] \in Chars \cup {"*", "?"}
    BY <1>3 DEF String
  <2>2. At(s, i) = s[i]
    BY <1>1, <1>3 DEF At
  <2> QED
    BY <2>1, <2>2, MatchAssumption DEF Lower, Zero
<1>4. ASSUME i \notin 1 .. Len(s)
      PROVE  i = Len(s) + 1 /\ At(s, i) = Zero
  BY <1>1, <1>4 DEF At
<1> QED
  BY <1>1, <1>2, <1>3, <1>4

\* How far the loop is.  Without a * what was passed of mask and name belongs together.  With
\* one, at back - 1, the rest of the mask is to match from some place at or behind go; what
\* was passed of it since is the same for each of these places.
Progress(h, i, j, back, go, w) ==
  IF w
  THEN /\ back - 1 \in 1 .. Len(mask) /\ back <= i /\ i - back = j - go
       /\ mask[back - 1] = "*" /\ \A k \in back .. i - 1 : mask[k] # "*"
       /\ 1 \in h[1] <=> \E k \in h[back] : go <= k
       /\ \A k \in h[back] : go <= k => k + (i - back) \in h[i]
       /\ j \in h[i] => go \in h[back]
  ELSE /\ 1 \in h[1] <=> j \in h[i]
       /\ \A k \in 1 .. i - 1 : mask[k] # "*"

\* Where mask and name differ the mask does not match from; else it does where its rest does.
LEMMA Differs ==
  ASSUME mask \in String, name \in String, NEW h, Table(h, mask, name),
         NEW i \in 1 .. Len(mask) + 1, NEW j \in 1 .. Len(name) + 1, At(mask, i) # "*"
  PROVE  /\ Lower(At(mask, i)) # Lower(At(name, j)) /\ At(mask, i) # "?" => j \notin h[i]
         /\ At(mask, i) # Zero => \A k \in h[i] : k + 1 \in h[i + 1]
         /\ At(mask, i) # Zero /\ At(name, j) # Zero
              /\ ~ (Lower(At(mask, i)) # Lower(At(name, j)) /\ At(mask, i) # "?")
              /\ j + 1 \in h[i + 1] => j \in h[i]
         /\ At(mask, i) # Zero => h[i] \subseteq 1 .. Len(name)
<1>1. /\ Len(mask) \in Nat /\ Len(name) \in Nat
      /\ i \in 1 .. Len(mask) => At(mask, i) = mask[i]
      /\ i \notin 1 .. Len(mask) => i = Len(mask) + 1 /\ At(mask, i) = Zero
      /\ j \in 1 .. Len(name) => At(name, j) = name[j] /\ Lower(At(name, j)) # Zero
      /\ j \notin 1 .. Len(name) => j = Len(name) + 1 /\ At(name, j) = Zero
      /\ Lower(Zero) = Zero
  BY AtString
<1>2. CASE i \in 1 .. Len(mask)
  <2>1. h[i] = {k \in 1 .. Len(name) :
                  (mask[i] = "?" \/ Lower(mask[i]) = Lower(name[k])) /\ k + 1 \in h[i + 1]}
    BY <1>1, <1>2, Zenon DEF Table, Starts
  <2> QED
    BY <1>1, <1>2, <2>1
<1>3. CASE i \notin 1 .. Len(mask)
  <2>1. h[i] = {Len(name) + 1} /\ At(mask, i) = Zero
    BY <1>1, <1>3 DEF Table
  <2> QED
    BY <1>1, <2>1
<1> QED
  BY <1>2, <1>3

\* What a turn of the loop does to the answer.
Decides(h) ==
  /\ ret' = "none" => Progress(h, m', n', ma', na', wild')
  /\ ret' = "yes" => 1 \in h[1]
  /\ ret' = "no" => 1 \notin h[1]

\* After a place that the mask does not match from the search goes on at the next one.
LEMMA NextPlace ==
  ASSUME Len(name) \in Nat, Len(mask) \in Nat, NEW h, Table(h, mask, name),
         NEW i \in 1 .. Len(mask) + 1, NEW j \in 1 .. Len(name) + 1,
         NEW back \in 1 .. Len(mask) + 1, NEW go \in 1 .. Len(name) + 1,
         Progress(h, i, j, back, go, TRUE), j \notin h[i]
  PROVE  Progress(h, back, go + 1, back, go + 1, TRUE)
<1>1. /\ back - 1 \in 1 .. Len(mask) /\ i - back = j - go
      /\ mask[back - 1] = "*"
      /\ 1 \in h[1] <=> \E k \in h[back] : go <= k
      /\ \A k \in h[back] : go <= k => k + (i - back) \in h[i]
  BY DEF Progress
<1>2. h[back] \subseteq 1 .. Len(name) + 1
  BY DEF Table
<1>3. go \notin h[back]
  <2>1. go + (i - back) = j /\ go <= go
    BY <1>1
  <2> QED
    BY <1>1, <2>1
<1>4. \A k \in h[back] : go <= k <=> go + 1 <= k
  BY <1>2, <1>3
<1>5. \A k \in h[back] : k + (back - back) = k
  BY <1>2
<1>6. back - back = (go + 1) - (go + 1) /\ back <= back /\ back .. back - 1 = {}
  OBVIOUS
<1>7. 1 \in h[1] <=> \E k \in h[back] : go + 1 <= k
  BY <1>1, <1>4
<1> QED
  BY <1>1, <1>5, <1>6, <1>7 DEF Progress

\* A comparison.
LEMMA CompareDecides ==
  ASSUME mask \in String, name \in String, NEW h, Table(h, mask, name), ret = "none",
         NEW i \in 1 .. Len(mask) + 1, NEW j \in 1 .. Len(name) + 1,
         NEW back \in 1 .. Len(mask) + 1, NEW go \in 1 .. Len(name) + 1, NEW w \in BOOLEAN,
         Progress(h, i, j, back, go, w), At(mask, i) # "*",
         At(mask, i) # Zero => At(name, j) # Zero,
         Compare(i, j, back, go, w)
  PROVE  Decides(h)
<1> DEFINE differ == Lower(At(mask, i)) # Lower(At(name, j)) /\ At(mask, i) # "?"
<1>1. /\ Len(mask) \in Nat /\ Len(name) \in Nat
      /\ At(mask, i) # Zero => i \in 1 .. Len(mask) /\ At(mask, i) = mask[i]
      /\ At(name, j) # Zero => Lower(At(name, j)) # Zero
      /\ Lower(Zero) = Zero
  BY AtString
<1>2. /\ differ => j \notin h[i]
      /\ At(mask, i) # Zero => \A k \in h[i] : k + 1 \in h[i + 1]
      /\ At(mask, i) # Zero /\ At(name, j) # Zero /\ ~ differ /\ j + 1 \in h[i + 1] => j \in h[i]
  BY Differs
<1>3. ma' = back /\ wild' = w
  BY DEF Compare
<1>4. CASE differ /\ w
  <2>1. m' = back /\ n' = go + 1 /\ na' = go + 1 /\ ret' = "none"
    BY <1>4, Zenon DEF Compare
  <2>2. Progress(h, back, go + 1, back, go + 1, TRUE)
    BY <1>1, <1>2, <1>4, NextPlace, Zenon
  <2>3. wild' = TRUE
    BY <1>3, <1>4
  <2> QED
    BY <1>3, <2>1, <2>2, <2>3, Zenon DEF Decides
<1>5. CASE differ /\ ~ w
  <2>1. ret' = "no"
    BY <1>5, Zenon DEF Compare, Answer
  <2>2. 1 \notin h[1]
    BY <1>2, <1>5 DEF Progress
  <2> QED
    BY <2>1, <2>2 DEF Decides
<1>6. CASE ~ differ /\ At(mask, i) = Zero
  <2>1. At(name, j) = Zero
    BY <1>1, <1>6 DEF Zero
  <2>2. m' = i /\ n' = j /\ na' = go /\ ret' = "none"
    BY <1>6, <2>1, Zenon DEF Compare
  <2> QED
    BY <1>3, <2>2 DEF Decides
<1>7. CASE ~ differ /\ At(mask, i) # Zero
  <2>1. At(name, j) # Zero
    BY <1>7
  <2>2. m' = i + 1 /\ n' = j + 1 /\ na' = go /\ ret' = "none"
    BY <1>7, <2>1, Zenon DEF Compare
  <2>3. mask[i] # "*" /\ i \in 1 .. Len(mask)
    BY <1>1, <1>7
  <2>4. CASE w
    <3>1. /\ back - 1 \in 1 .. Len(mask) /\ back <= i /\ i - back = j - go
          /\ mask[back - 1] = "*" /\ \A k \in back .. i - 1 : mask[k] # "*"
          /\ 1 \in h[1] <=> \E k \in h[back] : go <= k
          /\ \A k \in h[back] : go <= k => k + (i - back) \in h[i]
          /\ j \in h[i] => go \in h[back]
      BY <2>4 DEF Progress
    <3>2. back <= i + 1 /\ (i + 1) - back = (j + 1) - go
      BY <3>1
    <3>3. \A k \in back .. (i + 1) - 1 : mask[k] # "*"
      BY <2>3, <3>1
    <3>4. h[back] \subseteq 1 .. Len(name) + 1
      BY DEF Table
    <3>5. ASSUME NEW k \in h[back], go <= k PROVE k + ((i + 1) - back) \in h[i + 1]
      <4>1. k + (i - back) \in h[i] /\ k \in Nat
        BY <3>1, <3>4, <3>5
      <4>2. (k + (i - back)) + 1 = k + ((i + 1) - back)
        BY <4>1
      <4> QED
        BY <1>2, <1>7, <4>1, <4>2
    <3>6. j + 1 \in h[i + 1] => go \in h[back]
      BY <1>2, <1>7, <2>1, <3>1
    <3>7. Progress(h, i + 1, j + 1, back, go, TRUE)
      BY <3>1, <3>2, <3>3, <3>5, <3>6 DEF Progress
    <3> QED
      BY <1>3, <2>2, <2>4, <3>7, Zenon DEF Decides
  <2>5. CASE ~ w
    <3>1. (1 \in h[1] <=> j \in h[i]) /\ \A k \in 1 .. i - 1 : mask[k] # "*"
      BY <2>5 DEF Progress
    <3>2. 1 \in h[1] <=> j + 1 \in h[i + 1]
      BY <1>2, <1>7, <2>1, <3>1
    <3>3. \A k \in 1 .. (i + 1) - 1 : mask[k] # "*"
      BY <2>3, <3>1
    <3>4. Progress(h, i + 1, j + 1, back, go, FALSE)
      BY <3>2, <3>3 DEF Progress
    <3>5. wild' = FALSE
      BY <1>3, <2>5
    <3> QED
      BY <1>3, <2>2, <3>4, <3>5, Zenon DEF Decides
  <2> QED
    BY <2>4, <2>5
<1> QED
  BY <1>4, <1>5, <1>6, <1>7, Zenon

\* A bounded set of numbers has a greatest one.
LEMMA MaxFacts ==
  ASSUME NEW b \in Nat, NEW S \in SUBSET (1 .. b), S # {}
  PROVE  Max(S) \in S /\ \A k \in S : k <= Max(S)
<1> DEFINE T == {b - k : k \in S}
<1>0. \A k \in S : k \in 1 .. b /\ b - k \in Nat
  OBVIOUS
<1>2. \A k \in S : b - k \in T
  OBVIOUS
<1>1. T \in SUBSET Nat /\ T # {}
  BY <1>0, <1>2, Zenon
<1>3. \A x \in T : \E k \in S : x = b - k
  OBVIOUS
<1> HIDE DEF T
<1>4. PICK x \in T : \A y \in T : x <= y
  BY <1>1, LeastNat, Zenon
<1>5. PICK k \in S : x = b - k
  BY <1>3
<1>6. \A l \in S : k >= l /\ l \in Nat
  BY <1>2, <1>4, <1>5
<1>7. PICK u : u = CHOOSE y \in S : \A l \in S : y >= l
  OBVIOUS
<1>8. u \in S /\ \A l \in S : u >= l
  BY <1>6, <1>7, Zenon
<1>9. Max(S) = u
  BY <1>7 DEF Max
<1> QED
  BY <1>6, <1>8, <1>9

\* A mask that ends in ?s matches as many characters at the end of the name.
LEMMA QuestionsMatch ==
  ASSUME mask \in String, name \in String, NEW h, Table(h, mask, name),
         NEW back \in 1 .. Len(mask) + 1, \A k \in back .. Len(mask) : mask[k] = "?",
         Len(mask) + 1 - back <= Len(name)
  PROVE  Len(name) + 1 - (Len(mask) + 1 - back) \in h[back]
<1>1. Len(mask) \in Nat /\ Len(name) \in Nat
  BY DEF String
<1>2. PICK q \in Nat : q = Len(mask) + 1 - back
  BY <1>1
<1> DEFINE S == {r \in 0 .. q : Len(name) + 1 - r \in h[Len(mask) + 1 - r]}
<1>3. 0 \in S
  BY <1>1 DEF Table
<1>4. ASSUME NEW r \in 1 .. q, r - 1 \in S
      PROVE  r \in S
  <2>0. Len(mask) + 1 - r \in 1 .. Len(mask) /\ Len(name) + 1 - r \in 1 .. Len(name)
    BY <1>1, <1>2
  <2>1. PICK i \in 1 .. Len(mask) : i = Len(mask) + 1 - r
    BY <2>0, Zenon
  <2>2. PICK j \in 1 .. Len(name) : j = Len(name) + 1 - r
    BY <2>0, Zenon
  <2>3. i + 1 = Len(mask) + 1 - (r - 1) /\ j + 1 = Len(name) + 1 - (r - 1) /\ i \in back .. Len(mask)
    BY <1>1, <1>2, <2>1, <2>2
  <2>4. j + 1 \in h[i + 1] /\ mask[i] = "?"
    BY <1>4, <2>3
  <2>5. h[i] = Starts("?", name, h[i + 1])
    BY <2>1, <2>4 DEF Table
  <2>6. j \in h[i]
    BY <2>2, <2>4, <2>5 DEF Starts
  <2> QED
    BY <2>1, <2>2, <2>6
<1> HIDE DEF S
<1>5. \A r \in 0 .. q : r \in S
  BY <1>3, <1>4, UpTo, Zenon
<1>6. q \in 0 .. q /\ Len(mask) + 1 - q = back
  BY <1>1, <1>2
<1> QED
  BY <1>2, <1>5, <1>6, Zenon DEF S

\* A mask that is used up and ends in a *, or in a * and ?s, matches.
LEMMA StarMatches ==
  ASSUME mask \in String, name \in String, NEW h, Table(h, mask, name), EndsInStar,
         NEW j \in 1 .. Len(name) + 1,
         NEW back \in 1 .. Len(mask) + 1, NEW go \in 1 .. Len(name) + 1, NEW w \in BOOLEAN,
         Progress(h, Len(mask) + 1, j, back, go, w)
  PROVE  1 \in h[1]
<1> DEFINE chars == {1} \cup {k \in DOMAIN mask : mask[k] # "?"}
<1>1. Len(mask) \in Nat /\ Len(name) \in Nat /\ DOMAIN mask = 1 .. Len(mask)
  BY DEF String
<1>2. PICK last : last = Max(chars)
  BY Zenon
<1>3. last > 1 /\ mask[last] = "*"
  BY <1>2 DEF EndsInStar
<1>4. last \in chars /\ \A k \in chars : k <= last
  <2>1. chars \in SUBSET (1 .. Len(mask) + 1) /\ chars # {} /\ Len(mask) + 1 \in Nat
    BY <1>1
  <2> HIDE DEF chars
  <2> QED
    BY <1>2, <2>1, MaxFacts, Zenon
<1>5. last \in 1 .. Len(mask)
  BY <1>1, <1>3, <1>4
<1>6. w
  <2> SUFFICES ASSUME ~ w PROVE FALSE
    OBVIOUS
  <2>1. \A k \in 1 .. (Len(mask) + 1) - 1 : mask[k] # "*"
    BY DEF Progress
  <2> QED
    BY <1>1, <1>3, <1>5, <2>1
<1>7. /\ back - 1 \in 1 .. Len(mask) /\ (Len(mask) + 1) - back = j - go
      /\ mask[back - 1] = "*" /\ \A k \in back .. (Len(mask) + 1) - 1 : mask[k] # "*"
      /\ 1 \in h[1] <=> \E k \in h[back] : go <= k
  BY <1>6 DEF Progress
<1>8. last = back - 1
  <2>1. back - 1 \in chars
    BY <1>1, <1>7
  <2>2. last \notin back .. (Len(mask) + 1) - 1
    BY <1>3, <1>7
  <2> QED
    BY <1>1, <1>4, <1>5, <2>1, <2>2
<1>9. ASSUME NEW k \in back .. Len(mask) PROVE mask[k] = "?"
  BY <1>1, <1>4, <1>7, <1>8
<1>10. Len(mask) + 1 - back <= Len(name)
  BY <1>1, <1>7
<1>11. Len(name) + 1 - (Len(mask) + 1 - back) \in h[back]
  BY <1>9, <1>10, QuestionsMatch
<1>12. go <= Len(name) + 1 - (Len(mask) + 1 - back)
  BY <1>1, <1>7
<1> QED
  BY <1>7, <1>11, <1>12

\* Behind the *s the search starts again, from where the name is: what came before is settled.
LEMMA SkipProgress ==
  ASSUME mask \in String, name \in String, NEW h, Table(h, mask, name),
         m \in 1 .. Len(mask) + 1, n \in 1 .. Len(name) + 1,
         ma \in 1 .. Len(mask) + 1, na \in 1 .. Len(name) + 1, wild \in BOOLEAN,
         Progress(h, m, n, ma, na, wild), At(mask, m) = "*"
  PROVE  Progress(h, SkipStars(m), n, SkipStars(m), n, TRUE)
<1>1. /\ Len(mask) \in Nat /\ Len(name) \in Nat /\ IsSeq(mask)
      /\ m \in 1 .. Len(mask) /\ mask[m] = "*"
  BY AtString DEF Zero
<1>2. PICK i : i = SkipStars(m)
  OBVIOUS
<1>3. i \in m .. Len(mask) + 1 /\ At(mask, i) # "*" /\ \A k \in m .. i - 1 : mask[k] = "*"
  BY <1>1, <1>2, SkipFacts
<1>4. i \in m + 1 .. Len(mask) + 1
  BY <1>1, <1>3
<1>5. h[m] = Up(name, h[i])
  BY <1>1, <1>3, <1>4, StarRun
<1>6. h[i] \subseteq 1 .. Len(name) + 1 /\ h[ma] \subseteq 1 .. Len(name) + 1
  BY <1>3, <1>4 DEF Table
<1>7. n \in h[m] <=> \E k \in h[i] : n <= k
  BY <1>5 DEF Up
<1>8. 1 \in h[1] <=> n \in h[m]
  <2>1. CASE ~ wild
    BY <2>1 DEF Progress
  <2>2. CASE wild
    <3>1. /\ m - ma = n - na
          /\ 1 \in h[1] <=> \E k \in h[ma] : na <= k
          /\ \A k \in h[ma] : na <= k => k + (m - ma) \in h[m]
          /\ n \in h[m] => na \in h[ma]
      BY <2>2 DEF Progress
    <3>2. n \in h[m] => 1 \in h[1]
      BY <3>1
    <3>3. ASSUME NEW k \in h[ma], na <= k PROVE n \in h[m]
      <4>1. k \in Nat /\ k + (m - ma) \in h[m] /\ n <= k + (m - ma)
        BY <1>6, <3>1, <3>3
      <4>2. PICK l \in h[i] : k + (m - ma) <= l
        BY <1>5, <4>1 DEF Up
      <4>3. n <= l
        BY <1>6, <4>1, <4>2
      <4> QED
        BY <1>7, <4>3
    <3> QED
      BY <3>1, <3>2, <3>3
  <2> QED
    BY <2>1, <2>2
<1>9. i - 1 \in 1 .. Len(mask) /\ mask[i - 1] = "*" /\ i - i = n - n /\ i .. i - 1 = {} /\ i <= i
  BY <1>1, <1>3, <1>4
<1>10. \A k \in h[i] : k + (i - i) = k
  BY <1>4, <1>6
<1>11. 1 \in h[1] <=> \E k \in h[i] : n <= k
  BY <1>7, <1>8
<1>12. Progress(h, i, n, i, n, TRUE)
  BY <1>9, <1>10, <1>11 DEF Progress
<1> QED
  BY <1>2, <1>12, Zenon

\* A turn of the loop keeps its progress, and what it returns is right.
LEMMA TurnDecides ==
  ASSUME mask \in String, name \in String, NEW h, Table(h, mask, name), ret = "none",
         m \in 1 .. Len(mask) + 1, n \in 1 .. Len(name) + 1,
         ma \in 1 .. Len(mask) + 1, na \in 1 .. Len(name) + 1, wild \in BOOLEAN, na <= n,
         Progress(h, m, n, ma, na, wild), Turn
  PROVE  Decides(h)
<1> DEFINE star == At(mask, m) = "*"
           i == IF star THEN SkipStars(m) ELSE m
           back == IF star THEN i ELSE ma
           go == IF star THEN n ELSE na
           w == wild \/ star
<1>1. /\ IsSeq(mask) /\ Len(mask) \in Nat /\ Len(name) \in Nat
      /\ n \in 1 .. Len(name) <=> At(name, n) # Zero
  BY AtString
<1>2. /\ i \in 1 .. Len(mask) + 1 /\ back \in 1 .. Len(mask) + 1
      /\ go \in 1 .. Len(name) + 1 /\ go <= n /\ w \in BOOLEAN
      /\ At(mask, i) # "*" /\ Progress(h, i, n, back, go, w)
  <2>1. CASE star
    <3>1. SkipStars(m) \in m .. Len(mask) + 1 /\ At(mask, SkipStars(m)) # "*"
      BY <1>1, SkipFacts
    <3>2. Progress(h, SkipStars(m), n, SkipStars(m), n, TRUE)
      BY <2>1, SkipProgress, Zenon
    <3>3. i = SkipStars(m) /\ back = SkipStars(m) /\ go = n
      BY <2>1, Zenon
    <3>4. w = TRUE
      BY <2>1, Zenon
    <3> HIDE DEF i, back, go, w
    <3>5. Progress(h, i, n, back, go, w) /\ w \in BOOLEAN
      BY <3>2, <3>3, <3>4, Zenon
    <3> QED
      BY <1>1, <3>1, <3>3, <3>5
  <2>2. CASE ~ star
    BY <2>2
  <2> QED
    BY <2>1, <2>2
<1>3. IF At(mask, i) = Zero
      THEN IF At(name, n) = Zero \/ EndsInStar THEN Returns(TRUE)
           ELSE IF ~ w THEN Returns(FALSE)
           ELSE Compare(back, go + 1, back, go + 1, w)
      ELSE IF At(name, n) = Zero THEN Returns(FALSE)
      ELSE Compare(i, n, back, go, w)
  BY Zenon DEF Turn
<1> HIDE DEF i, back, go, w
<1>4. At(mask, i) = Zero <=> i = Len(mask) + 1
  BY <1>1, <1>2, AtString
<1>5. CASE At(mask, i) = Zero
  <2>1. i = Len(mask) + 1 /\ h[i] = {Len(name) + 1}
    BY <1>4, <1>5 DEF Table
  <2>2. CASE At(name, n) = Zero
    <3>1. n \in h[i]
      BY <1>1, <2>1, <2>2
    <3>2. 1 \in h[1]
      BY <1>2, <3>1 DEF Progress
    <3>3. ret' = "yes"
      BY <1>3, <1>5, <2>2, Zenon DEF Returns, Answer
    <3> QED
      BY <3>2, <3>3 DEF Decides
  <2>3. CASE EndsInStar
    <3>1. 1 \in h[1]
      BY <1>2, <2>1, <2>3, StarMatches
    <3>2. ret' = "yes"
      BY <1>3, <1>5, <2>3, Zenon DEF Returns, Answer
    <3> QED
      BY <3>1, <3>2 DEF Decides
  <2>4. CASE At(name, n) # Zero /\ ~ EndsInStar
    <3>1. n \notin h[i] /\ n \in 1 .. Len(name)
      BY <1>1, <2>1, <2>4
    <3>2. CASE ~ w
      <4>1. 1 \notin h[1]
        BY <1>2, <3>1, <3>2 DEF Progress
      <4>2. ret' = "no"
        BY <1>3, <1>5, <2>4, <3>2, Zenon DEF Returns, Answer
      <4> QED
        BY <4>1, <4>2 DEF Decides
    <3>3. CASE w
      <4>1. Compare(back, go + 1, back, go + 1, w)
        BY <1>3, <1>5, <2>4, <3>3, Zenon
      <4>2. Progress(h, back, go + 1, back, go + 1, w)
        BY <1>1, <1>2, <3>1, <3>3, NextPlace, Zenon
      <4>3. /\ back <= i /\ i - back = n - go
            /\ \A k \in back .. i - 1 : mask[k] # "*"
        BY <1>2, <3>3 DEF Progress
      <4>4. go + 1 \in 1 .. Len(name) + 1
        BY <1>1, <1>2, <3>1
      <4>5. CASE back \in 1 .. Len(mask)
        <5>1. At(mask, back) = mask[back] /\ back \in back .. i - 1
          BY <1>1, <2>1, <4>5, AtString
        <5>2. go + 1 \in 1 .. Len(name)
          BY <1>1, <1>2, <2>1, <3>1, <4>3, <4>5
        <5>3. At(name, go + 1) # Zero
          BY <4>4, <5>2, AtString
        <5> QED
          BY <1>2, <4>1, <4>2, <4>3, <4>4, <5>1, <5>3, CompareDecides
      <4>6. CASE back \notin 1 .. Len(mask)
        <5>1. At(mask, back) = Zero
          BY <1>2, <4>6, AtString
        <5> QED
          BY <1>2, <4>1, <4>2, <4>4, <5>1, CompareDecides DEF Zero
      <4> QED
        BY <4>5, <4>6
    <3> QED
      BY <3>2, <3>3
  <2> QED
    BY <2>2, <2>3, <2>4
<1>6. CASE At(mask, i) # Zero /\ At(name, n) = Zero
  <2>1. h[i] \subseteq 1 .. Len(name) /\ n = Len(name) + 1
    BY <1>1, <1>2, <1>6, Differs
  <2>2. 1 \notin h[1]
    <3>1. CASE ~ w
      BY <1>1, <1>2, <2>1, <3>1 DEF Progress
    <3>2. CASE w
      <4>1. /\ i - back = n - go
            /\ 1 \in h[1] <=> \E k \in h[back] : go <= k
            /\ \A k \in h[back] : go <= k => k + (i - back) \in h[i]
        BY <1>2, <3>2 DEF Progress
      <4>2. h[back] \subseteq 1 .. Len(name) + 1
        BY <1>2 DEF Table
      <4>3. ASSUME NEW k \in h[back], go <= k PROVE FALSE
        <5>1. k + (i - back) \in 1 .. Len(name) /\ k \in Nat
          BY <2>1, <4>1, <4>2, <4>3
        <5> QED
          BY <1>1, <1>2, <2>1, <4>1, <4>3, <5>1
      <4> QED
        BY <4>1, <4>3
    <3> QED
      BY <3>1, <3>2
  <2>3. ret' = "no"
    BY <1>3, <1>6, Zenon DEF Returns, Answer
  <2> QED
    BY <2>2, <2>3 DEF Decides
<1>7. CASE At(mask, i) # Zero /\ At(name, n) # Zero
  <2>1. Compare(i, n, back, go, w)
    BY <1>3, <1>7, Zenon
  <2> QED
    BY <1>2, <1>7, <2>1, CompareDecides
<1> QED
  BY <1>5, <1>6, <1>7, Zenon

\* The places of a string that collapse keeps.
Keeps(s) == {i \in DOMAIN s : ~ (s[i] = "*" /\ At(s, i - 1) = "*")}

\* Where collapse keeps the k-th character, and where the string ends.  What lies between two
\* of these places are *s, behind a *.
LEMMA KeepPlaces ==
  ASSUME NEW s \in String
  PROVE  \E u \in Nat : \E A \in [1 .. u + 1 -> 1 .. Len(s) + 1] :
           /\ KeepOnly(s, Keeps(s)) = [k \in 1 .. u |-> s[A[k]]]
           /\ A[1] = 1 /\ A[u + 1] = Len(s) + 1
           /\ \A k \in 1 .. u : A[k] \in 1 .. Len(s) /\ A[k] < A[k + 1]
           /\ \A k \in 1 .. u : A[k + 1] # A[k] + 1 => \A i \in A[k] .. A[k + 1] - 1 : s[i] = "*"
<1>1. Len(s) \in Nat /\ DOMAIN s = 1 .. Len(s)
  BY DEF String
<1>2. Keeps(s) \in SUBSET (1 .. Len(s))
  BY <1>1 DEF Keeps
<1>3. PICK u \in Nat : \E at : KeptAs(KeepOnly(s, Keeps(s)), s, Keeps(s), u, at)
  BY <1>1, <1>2, Kept, Zenon
<1>4. PICK at : KeptAs(KeepOnly(s, Keeps(s)), s, Keeps(s), u, at)
  BY <1>3
<1>5. /\ at \in [1 .. u -> Keeps(s)]
      /\ \A j, k \in 1 .. u : j < k => at[j] < at[k]
      /\ \A i \in Keeps(s) : \E k \in 1 .. u : at[k] = i
      /\ KeepOnly(s, Keeps(s)) = [k \in 1 .. u |-> s[at[k]]]
  BY <1>4 DEF KeptAs
<1>6. \A k \in 1 .. u : at[k] \in Keeps(s) /\ at[k] \in 1 .. Len(s)
  BY <1>2, <1>5
<1>0. ASSUME NEW j \in 1 .. u, NEW k \in 1 .. u, j <= k PROVE at[j] <= at[k]
  <2>1. at[j] \in 1 .. Len(s) /\ at[k] \in 1 .. Len(s)
    BY <1>6
  <2>2. j < k => at[j] < at[k]
    BY <1>5
  <2> QED
    BY <1>0, <2>1, <2>2
<1>7. PICK A : A = [k \in 1 .. u + 1 |-> IF k = u + 1 THEN Len(s) + 1 ELSE at[k]]
  BY Zenon
<1>8. /\ A[u + 1] = Len(s) + 1
      /\ \A k \in 1 .. u : A[k] = at[k]
  BY <1>7
<1>9. A \in [1 .. u + 1 -> 1 .. Len(s) + 1]
  BY <1>1, <1>6, <1>7
<1>10. KeepOnly(s, Keeps(s)) = [k \in 1 .. u |-> s[A[k]]]
  BY <1>5, <1>8
<1>11. ASSUME NEW k \in 1 .. u PROVE A[k] \in 1 .. Len(s) /\ A[k] < A[k + 1]
  <2>1. A[k] \in 1 .. Len(s)
    BY <1>6, <1>8
  <2>2. CASE k = u
    BY <1>1, <1>8, <2>1, <2>2
  <2>3. CASE k # u
    <3>1. k + 1 \in 1 .. u /\ k < k + 1
      BY <2>3
    <3> QED
      BY <1>5, <1>8, <2>1, <3>1
  <2> QED
    BY <2>1, <2>2, <2>3
<1>12. A[1] = 1
  <2>1. CASE Len(s) = 0
    <3>1. u = 0
      BY <1>6, <2>1
    <3> QED
      BY <1>8, <2>1, <3>1
  <2>2. CASE Len(s) # 0
    <3>1. 1 \in 1 .. Len(s) /\ 1 - 1 \notin 1 .. Len(s)
      BY <1>1, <2>2
    <3>2. 1 \in Keeps(s)
      BY <1>1, <3>1 DEF Keeps, At, Zero
    <3>3. PICK k \in 1 .. u : at[k] = 1
      BY <1>5, <3>2
    <3>4. 1 \in 1 .. u /\ (k # 1 => 1 < k)
      OBVIOUS
    <3>5. at[1] \in 1 .. Len(s) /\ (k # 1 => at[1] < at[k])
      BY <1>5, <1>6, <3>4
    <3> QED
      BY <1>8, <3>3, <3>4, <3>5
  <2> QED
    BY <2>1, <2>2
<1>13. ASSUME NEW k \in 1 .. u, A[k + 1] # A[k] + 1, NEW i \in A[k] .. A[k + 1] - 1
       PROVE  s[i] = "*"
  <2>1. A[k] \in 1 .. Len(s) /\ A[k] < A[k + 1] /\ k + 1 \in 1 .. u + 1
    BY <1>11
  <2>2. A[k + 1] \in 1 .. Len(s) + 1
    BY <1>9, <2>1
  <2>3. ASSUME NEW j \in A[k] + 1 .. A[k + 1] - 1
        PROVE  s[j] = "*" /\ At(s, j - 1) = "*" /\ j - 1 \in 1 .. Len(s)
    <3>1. j \in 1 .. Len(s) /\ j - 1 \in 1 .. Len(s)
      BY <1>1, <2>1, <2>2
    <3>2. j \notin Keeps(s)
      <4> SUFFICES ASSUME j \in Keeps(s) PROVE FALSE
        OBVIOUS
      <4>1. PICK l \in 1 .. u : at[l] = j
        BY <1>5
      <4>2. CASE l <= k
        <5>1. at[l] <= at[k]
          BY <1>0, <4>2
        <5> QED
          BY <1>8, <2>1, <2>2, <4>1, <5>1
      <4>3. CASE ~ (l <= k)
        <5>1. k + 1 \in 1 .. u /\ A[k + 1] = at[k + 1]
          BY <1>8, <4>3
        <5>2. at[k + 1] <= at[l]
          <6>1. k + 1 <= l
            BY <4>3
          <6> QED
            BY <1>0, <5>1, <6>1
        <5> QED
          BY <2>1, <2>2, <4>1, <5>1, <5>2
      <4> QED
        BY <4>2, <4>3
    <3> QED
      BY <1>1, <3>1, <3>2 DEF Keeps
  <2>4. CASE i = A[k]
    <3>1. i + 1 \in A[k] + 1 .. A[k + 1] - 1 /\ (i + 1) - 1 = i
      BY <1>13, <2>1, <2>2, <2>4
    <3>2. At(s, i) = "*" /\ i \in 1 .. Len(s)
      BY <2>3, <3>1
    <3> QED
      BY <1>1, <3>2 DEF At
  <2>5. CASE i # A[k]
    BY <2>1, <2>2, <2>3, <2>5
  <2> QED
    BY <2>4, <2>5
<1> QED
  BY <1>8, <1>9, <1>10, <1>11, <1>12, <1>13, Zenon

\* A collapsed mask stands for what the mask stood for.
LEMMA CollapseMeans ==
  ASSUME NEW s \in String, NEW t \in String
  PROVE  /\ KeepOnly(s, Keeps(s)) \in String
         /\ KeepOnly(s, Keeps(s)) = <<>> <=> s = <<>>
         /\ Glob(KeepOnly(s, Keeps(s)), t) <=> Glob(s, t)
<1>1. Len(s) \in Nat /\ Len(t) \in Nat /\ (s = <<>> <=> Len(s) = 0)
      /\ \A i \in 1 .. Len(s) : s[i] \in Chars \cup {"*", "?"}
  BY DEF String
<1>2. PICK c : c = KeepOnly(s, Keeps(s))
  OBVIOUS
<1>0. PICK u \in Nat : \E A \in [1 .. u + 1 -> 1 .. Len(s) + 1] :
           /\ c = [k \in 1 .. u |-> s[A[k]]]
           /\ A[1] = 1 /\ A[u + 1] = Len(s) + 1
           /\ \A k \in 1 .. u : A[k] \in 1 .. Len(s) /\ A[k] < A[k + 1]
           /\ \A k \in 1 .. u : A[k + 1] # A[k] + 1 => \A i \in A[k] .. A[k + 1] - 1 : s[i] = "*"
  BY <1>2, KeepPlaces, Zenon
<1>3. PICK A \in [1 .. u + 1 -> 1 .. Len(s) + 1] :
           /\ c = [k \in 1 .. u |-> s[A[k]]]
           /\ A[1] = 1 /\ A[u + 1] = Len(s) + 1
           /\ \A k \in 1 .. u : A[k] \in 1 .. Len(s) /\ A[k] < A[k + 1]
           /\ \A k \in 1 .. u : A[k + 1] # A[k] + 1 => \A i \in A[k] .. A[k + 1] - 1 : s[i] = "*"
  BY <1>0, Zenon
<1>4. c \in [1 .. u -> Chars \cup {"*", "?"}]
  BY <1>1, <1>3
<1>5. c \in String
  BY <1>4 DEF String
<1>6. Len(c) = u /\ Len(c) \in Nat /\ (c = <<>> <=> u = 0)
  BY <1>4, <1>5 DEF String
<1>7. u = 0 <=> Len(s) = 0
  <2>1. CASE u = 0
    BY <1>1, <1>3, <2>1
  <2>2. CASE u # 0
    <3>1. 1 \in 1 .. u
      BY <2>2
    <3>2. A[1] \in 1 .. Len(s)
      BY <1>3, <3>1
    <3> QED
      BY <1>1, <2>2, <3>2
  <2> QED
    BY <2>1, <2>2
<1>8. PICK h : Table(h, s, t) /\ (Glob(s, t) <=> 1 \in h[1])
  BY <1>1, GlobTable
<1>9. PICK g : Table(g, c, t) /\ (Glob(c, t) <=> 1 \in g[1])
  BY <1>1, <1>6, GlobTable
<1> DEFINE Same(r) == h[A[u + 1 - r]] = g[u + 1 - r]
           S == {r \in 0 .. u : Same(r)}
<1>10. 0 \in S
  <2>1. h[A[u + 1]] = g[u + 1]
    BY <1>3, <1>6, <1>8, <1>9 DEF Table
  <2>2. 0 \in 0 .. u /\ (u + 1) - 0 = u + 1
    OBVIOUS
  <2>3. Same(0)
    BY <2>1, <2>2, SMT
  <2> HIDE DEF Same
  <2> QED
    BY <2>2, <2>3
<1>11. ASSUME NEW r \in 1 .. u, r - 1 \in S PROVE r \in S
  <2>1. PICK k \in 1 .. u : k = u + 1 - r
    OBVIOUS
  <2>2. u + 1 - (r - 1) = k + 1
    BY <2>1
  <2>3. h[A[k + 1]] = g[k + 1]
    BY <1>11, <2>2
  <2>4. g[k] = Starts(s[A[k]], t, g[k + 1])
    <3>1. c[k] = s[A[k]]
      BY <1>3
    <3> QED
      BY <1>6, <1>9, <3>1 DEF Table
  <2>5. A[k] \in 1 .. Len(s) /\ A[k] < A[k + 1] /\ A[k + 1] \in 1 .. Len(s) + 1
    BY <1>3
  <2>6. CASE A[k + 1] = A[k] + 1
    <3>1. h[A[k]] = Starts(s[A[k]], t, h[A[k] + 1])
      BY <1>8, <2>5 DEF Table
    <3>2. h[A[k]] = g[k]
      BY <2>3, <2>4, <2>6, <3>1
    <3> QED
      BY <2>1, <3>2
  <2>7. CASE A[k + 1] # A[k] + 1
    <3>1. \A i \in A[k] .. A[k + 1] - 1 : s[i] = "*"
      BY <1>3, <2>7
    <3>2. s[A[k]] = "*" /\ A[k + 1] \in A[k] + 1 .. Len(s) + 1
      BY <2>5, <3>1
    <3>3. PICK i \in 1 .. Len(s) : i = A[k]
      BY <2>5
    <3>4. PICK j \in i + 1 .. Len(s) + 1 : j = A[k + 1]
      BY <3>2, <3>3
    <3>5. h[i] = Up(t, h[j])
      <4>1. \A l \in i .. j - 1 : s[l] = "*"
        BY <3>1, <3>3, <3>4
      <4>2. Table(h, s, t) /\ Len(s) \in Nat /\ Len(t) \in Nat
        BY <1>1, <1>8
      <4> QED
        BY <4>1, <4>2, StarRun, SMTT(30)
    <3>6. g[k] = Up(t, g[k + 1])
      BY <2>4, <3>2 DEF Starts, Up
    <3>7. h[A[k]] = g[k]
      BY <2>3, <3>3, <3>4, <3>5, <3>6
    <3> QED
      BY <2>1, <3>7
  <2> QED
    BY <2>6, <2>7
<1> HIDE DEF S
<1>12. u \in S
  <2>1. \A r \in 0 .. u : r \in S
    BY <1>10, <1>11, UpTo, Zenon
  <2> QED
    BY <2>1
<1>13. h[1] = g[1]
  <2>1. u + 1 - u = 1 /\ A[1] = 1
    BY <1>3
  <2> QED
    BY <1>12, <2>1 DEF S
<1>14. Glob(c, t) <=> Glob(s, t)
  BY <1>8, <1>9, <1>13
<1> QED
  BY <1>1, <1>2, <1>5, <1>6, <1>7, <1>14

\* Of two products the one with the larger factor is larger by at least the other factor.
LEMMA Multiples ==
  ASSUME NEW b \in Nat \ {0}, NEW q \in Nat, NEW w \in Nat, q < w
  PROVE  b * q \in Nat /\ b * w \in Nat /\ b * q + b <= b * w
<1>1. PICK d \in Nat : w = q + 1 + d
  <2>1. w - q - 1 \in Nat /\ w = q + 1 + (w - q - 1)
    OBVIOUS
  <2> QED
    BY <2>1
<1>2. b * w = b * q + b + b * d
  BY <1>1
<1>3. b * d \in Nat /\ b * q \in Nat /\ b * w \in Nat
  OBVIOUS
<1> QED
  BY <1>2, <1>3

\* Quotient and remainder.
LEMMA Divided ==
  ASSUME NEW b \in Nat \ {0}, NEW x \in Nat
  PROVE  x \div b \in Nat /\ x % b \in 0 .. b - 1 /\ x = b * (x \div b) + (x % b)
OBVIOUS

\* Quotient and remainder are unique.
LEMMA DividedOnce ==
  ASSUME NEW b \in Nat \ {0}, NEW q \in Nat, NEW r \in 0 .. b - 1
  PROVE  (b * q + r) \div b = q /\ (b * q + r) % b = r
<1>1. PICK x \in Nat : x = b * q + r
  OBVIOUS
<1>2. PICK w \in Nat : w = x \div b
  BY Divided
<1>3. PICK e \in 0 .. b - 1 : e = x % b
  BY Divided
<1>4. x = b * w + e
  BY <1>2, <1>3, Divided
<1>5. ~ (q < w)
  <2> SUFFICES ASSUME q < w PROVE FALSE
    OBVIOUS
  <2>1. b * q \in Nat /\ b * w \in Nat /\ b * q + b <= b * w
    BY Multiples
  <2> QED
    BY <1>1, <1>4, <2>1
<1>6. ~ (w < q)
  <2> SUFFICES ASSUME w < q PROVE FALSE
    OBVIOUS
  <2>1. b * q \in Nat /\ b * w \in Nat /\ b * w + b <= b * q
    BY Multiples
  <2> QED
    BY <1>1, <1>4, <2>1
<1>7. w = q
  BY <1>5, <1>6
<1>8. e = r
  <2>1. b * q \in Nat
    OBVIOUS
  <2> QED
    BY <1>1, <1>4, <1>7, <2>1
<1> QED
  BY <1>1, <1>2, <1>3, <1>7, <1>8

\* Half a quotient.
LEMMA HalfQuotient ==
  ASSUME NEW p \in Nat \ {0}, NEW x \in Nat
  PROVE  (x \div p) \div 2 = x \div (2 * p)
<1>1. PICK y \in Nat : y = x \div p
  BY Divided
<1>2. PICK e \in 0 .. p - 1 : x = p * y + e
  BY <1>1, Divided, Zenon
<1>3. PICK z \in Nat, c \in 0 .. 1 : y = 2 * z + c /\ z = y \div 2
  <2>1. y \div 2 \in Nat /\ y % 2 \in 0 .. 1 /\ y = 2 * (y \div 2) + (y % 2)
    OBVIOUS
  <2> QED
    BY <2>1
<1>4. PICK r : r = p * c + e
  OBVIOUS
<1>5. r \in 0 .. 2 * p - 1
  <2>1. CASE c = 0
    BY <1>4, <2>1
  <2>2. CASE c = 1
    BY <1>4, <2>2
  <2> QED
    BY <2>1, <2>2
<1>6. x = (2 * p) * z + r
  <2>1. p * y = p * (2 * z) + p * c
    BY <1>3
  <2>2. p * (2 * z) = (2 * p) * z
    OBVIOUS
  <2>3. p * c \in Nat /\ p * (2 * z) \in Nat
    OBVIOUS
  <2> QED
    BY <1>2, <1>4, <2>1, <2>2, <2>3
<1>7. 2 * p \in Nat \ {0}
  OBVIOUS
<1>8. x \div (2 * p) = z
  BY <1>5, <1>6, <1>7, DividedOnce
<1> QED
  BY <1>1, <1>3, <1>8

\* The powers that PowerOfTwo runs through.
PowerStages(g, e) == g = [i \in 0 .. e |-> IF i = 0 THEN 1 ELSE 2 * g[i - 1]]

\* Every number has its power.
LEMMA PowerHasStages ==
  ASSUME NEW e \in Nat
  PROVE  \E g : PowerStages(g, e) /\ PowerOfTwo(e) = g[e]
<1> DEFINE T == {w \in Nat : \E g : PowerStages(g, w)}
<1>1. 0 \in T
  <2> DEFINE g == [i \in 0 .. 0 |-> 1]
  <2>1. PowerStages(g, 0)
    BY DEF PowerStages
  <2> QED
    BY <2>1
<1>2. ASSUME NEW w \in 1 .. e, w - 1 \in T PROVE w \in T
  <2>1. w - 1 \in Nat /\ w # 0 /\ w \in Nat
    OBVIOUS
  <2>2. PICK g : PowerStages(g, w - 1)
    BY <1>2
  <2> DEFINE last == 2 * g[w - 1]
             h == [i \in 0 .. w |-> IF i = w THEN last ELSE g[i]]
  <2>3. \A i \in 0 .. w : h[i] = IF i = 0 THEN 1 ELSE 2 * h[i - 1]
    <3> TAKE i \in 0 .. w
    <3>1. CASE i = w
      BY <2>1, <3>1
    <3>2. CASE i # w
      <4>1. i \in 0 .. w - 1 /\ h[i] = g[i] /\ (i # 0 => h[i - 1] = g[i - 1])
        BY <2>1, <3>2
      <4> HIDE DEF h, last
      <4> QED
        BY <2>2, <4>1 DEF PowerStages
    <3> QED
      BY <3>1, <3>2
  <2>4. h = [i \in 0 .. w |-> h[i]]
    OBVIOUS
  <2> HIDE DEF h, last
  <2>5. PowerStages(h, w)
    BY <2>3, <2>4, Zenon DEF PowerStages
  <2> QED
    BY <2>1, <2>5
<1> HIDE DEF T
<1>3. \A i \in 0 .. e : i \in T
  BY <1>1, <1>2, UpTo, Zenon
<1>4. \E g : PowerStages(g, e)
  BY <1>3 DEF T
<1> DEFINE g == CHOOSE f : PowerStages(f, e)
<1>5. PowerStages(g, e)
  BY <1>4
<1>6. PowerOfTwo(e) = g[e]
  BY DEF PowerOfTwo, PowerStages
<1> QED
  BY <1>5, <1>6, Zenon

\* One more is twice as much.
LEMMA PowerStep ==
  ASSUME NEW e \in Nat
  PROVE  PowerOfTwo(0) = 1 /\ PowerOfTwo(e) \in Nat /\ PowerOfTwo(e + 1) = 2 * PowerOfTwo(e)
<1>0. e + 1 \in Nat /\ 0 \in Nat
  OBVIOUS
<1>1. PICK g : PowerStages(g, e) /\ PowerOfTwo(e) = g[e]
  BY PowerHasStages, Zenon
<1>2. PICK h : PowerStages(h, e + 1) /\ PowerOfTwo(e + 1) = h[e + 1]
  BY <1>0, PowerHasStages, Zenon
<1>3. PICK z : PowerStages(z, 0) /\ PowerOfTwo(0) = z[0]
  BY <1>0, PowerHasStages, Zenon
<1>4. /\ \A i \in 0 .. e : g[i] = IF i = 0 THEN 1 ELSE 2 * g[i - 1]
      /\ \A i \in 0 .. e + 1 : h[i] = IF i = 0 THEN 1 ELSE 2 * h[i - 1]
      /\ z[0] = 1
  BY <1>1, <1>2, <1>3 DEF PowerStages
<1> DEFINE S == {i \in 0 .. e : g[i] = h[i] /\ g[i] \in Nat}
<1>5. 0 \in S
  BY <1>4
<1>6. ASSUME NEW i \in 1 .. e, i - 1 \in S PROVE i \in S
  <2>1. g[i] = 2 * g[i - 1] /\ h[i] = 2 * h[i - 1]
    BY <1>4
  <2> QED
    BY <1>6, <2>1
<1> HIDE DEF S
<1>7. \A i \in 0 .. e : i \in S
  BY <1>5, <1>6, UpTo, Zenon
<1>8. h[e + 1] = 2 * h[e] /\ g[e] = h[e] /\ g[e] \in Nat
  BY <1>4, <1>7 DEF S
<1> QED
  BY <1>1, <1>2, <1>3, <1>4, <1>8

\* Powers are at least 1.
LEMMA PowersPositive == \A e \in Nat : PowerOfTwo(e) \in Nat /\ PowerOfTwo(e) >= 1
<1> SUFFICES ASSUME NEW e \in Nat PROVE PowerOfTwo(e) \in Nat /\ PowerOfTwo(e) >= 1
  OBVIOUS
<1> DEFINE S == {i \in 0 .. e : PowerOfTwo(i) \in Nat /\ PowerOfTwo(i) >= 1}
<1>1. 0 \in S
  BY PowerStep
<1>2. ASSUME NEW i \in 1 .. e, i - 1 \in S PROVE i \in S
  <2>1. PICK j \in Nat : j = i - 1 /\ i = j + 1
    OBVIOUS
  <2>2. PowerOfTwo(i) = 2 * PowerOfTwo(j)
    BY <2>1, PowerStep
  <2> QED
    BY <1>2, <2>1, <2>2
<1> HIDE DEF S
<1>3. \A i \in 0 .. e : i \in S
  BY <1>1, <1>2, UpTo, Zenon
<1> QED
  BY <1>3 DEF S

\* The k-th bit of a byte, from the upper end.
BitOf(x, k) == (x \div PowerOfTwo(ByteBits - 1 - k)) % 2

\* The upper c bits of a byte, as a number, are those of another if each of them is.
LEMMA BitsAgree ==
  ASSUME NEW x \in Byte, NEW y \in Byte, NEW c \in 0 .. ByteBits
  PROVE  x \div PowerOfTwo(ByteBits - c) = y \div PowerOfTwo(ByteBits - c)
           <=> \A k \in 0 .. c - 1 : BitOf(x, k) = BitOf(y, k)
<1>0. ByteBits \in Nat \ {0}
  BY MatchAssumption
<1>1. x \in Nat /\ y \in Nat /\ x < PowerOfTwo(ByteBits) /\ y < PowerOfTwo(ByteBits)
  BY <1>0, PowersPositive DEF Byte
<1> DEFINE Upper(z, l) == z \div PowerOfTwo(ByteBits - l)
           Alike(l) == \A k \in 0 .. l - 1 : BitOf(x, k) = BitOf(y, k)
           S == {l \in 0 .. ByteBits : Upper(x, l) = Upper(y, l) <=> Alike(l)}
<1>2. 0 \in S
  <2>1. Alike(0)
    OBVIOUS
  <2>2. PICK p \in Nat : p = PowerOfTwo(ByteBits - 0) /\ x < p /\ y < p
    BY <1>0, <1>1, PowersPositive
  <2>3. x \div p = 0 /\ y \div p = 0
    BY <1>1, <2>2
  <2>4. Upper(x, 0) = Upper(y, 0) /\ 0 \in 0 .. ByteBits
    BY <1>0, <2>2, <2>3
  <2> HIDE DEF Upper, Alike
  <2> QED
    BY <2>1, <2>4
<1>3. ASSUME NEW l \in 1 .. ByteBits, l - 1 \in S PROVE l \in S
  <2>1. PICK p \in Nat \ {0} : p = PowerOfTwo(ByteBits - l)
    BY <1>0, PowersPositive
  <2>2. PowerOfTwo(ByteBits - (l - 1)) = 2 * p
    <3>1. ByteBits - (l - 1) = (ByteBits - l) + 1 /\ ByteBits - l \in Nat
      BY <1>0
    <3> QED
      BY <2>1, <3>1, PowerStep
  <2>3. PICK X \in Nat : X = x \div p
    BY <1>1, Divided, Zenon
  <2>4. PICK Y \in Nat : Y = y \div p
    BY <1>1, Divided, Zenon
  <2>5. Upper(x, l) = X /\ Upper(y, l) = Y
    BY <2>1, <2>3, <2>4
  <2>6. Upper(x, l - 1) = X \div 2 /\ Upper(y, l - 1) = Y \div 2
    BY <1>1, <2>2, <2>3, <2>4, HalfQuotient
  <2>7. BitOf(x, l - 1) = X % 2 /\ BitOf(y, l - 1) = Y % 2
    <3>1. ByteBits - 1 - (l - 1) = ByteBits - l
      BY <1>0
    <3> QED
      BY <2>1, <2>3, <2>4, <3>1 DEF BitOf
  <2>8. Alike(l) <=> Alike(l - 1) /\ BitOf(x, l - 1) = BitOf(y, l - 1)
    <3>1. 0 .. l - 1 = (0 .. (l - 1) - 1) \cup {l - 1}
      OBVIOUS
    <3> QED
      BY <3>1
  <2>9. X = Y <=> X \div 2 = Y \div 2 /\ X % 2 = Y % 2
    OBVIOUS
  <2>10. Upper(x, l - 1) = Upper(y, l - 1) <=> Alike(l - 1)
    BY <1>3
  <2> HIDE DEF Upper, Alike
  <2>11. Upper(x, l) = Upper(y, l) <=> Alike(l)
    BY <2>5, <2>6, <2>7, <2>8, <2>9, <2>10
  <2> QED
    BY <1>0, <2>11
<1> HIDE DEF S
<1>4. c \in S
  <2>1. \A l \in 0 .. ByteBits : l \in S
    BY <1>0, <1>2, <1>3, UpTo, Zenon
  <2> QED
    BY <2>1
<1> QED
  BY <1>4 DEF S

\* Two bytes are the same if all their bits are.
LEMMA BytesAgree ==
  ASSUME NEW x \in Byte, NEW y \in Byte
  PROVE  x = y <=> \A k \in 0 .. ByteBits - 1 : BitOf(x, k) = BitOf(y, k)
<1>0. ByteBits \in Nat \ {0} /\ ByteBits \in 0 .. ByteBits
  BY MatchAssumption
<1>1. x \in Nat /\ y \in Nat
  BY <1>0, PowersPositive DEF Byte
<1>2. PowerOfTwo(ByteBits - ByteBits) = 1
  <2>1. ByteBits - ByteBits = 0 /\ 0 \in Nat
    BY <1>0
  <2> QED
    BY <2>1, PowerStep
<1>3. x \div PowerOfTwo(ByteBits - ByteBits) = x /\ y \div PowerOfTwo(ByteBits - ByteBits) = y
  BY <1>1, <1>2
<1> QED
  BY <1>0, <1>3, BitsAgree

\* comp_with_mask compares exactly the first len bits.
LEMMA MaskBits ==
  ASSUME NEW a \in Seq(Byte), NEW b \in Seq(Byte), Len(a) = Len(b), NEW len \in 0 .. ByteBits * Len(a)
  PROVE  comp_with_mask(a, b, len) <=>
           \A k \in 0 .. len - 1 :
             BitOf(a[(k \div ByteBits) + 1], k % ByteBits) = BitOf(b[(k \div ByteBits) + 1], k % ByteBits)
<1>0. /\ ByteBits \in Nat \ {0} /\ Len(a) \in Nat /\ len \in Nat
      /\ \A i \in 1 .. Len(a) : a[i] \in Byte /\ b[i] \in Byte
  BY MatchAssumption
<1>1. PICK q \in Nat : q = len \div ByteBits
  BY <1>0, Divided, Zenon
<1>2. PICK r \in 0 .. ByteBits - 1 : r = len % ByteBits
  BY <1>0, Divided, Zenon
<1>3. len = ByteBits * q + r /\ ByteBits * q \in Nat /\ ByteBits * Len(a) \in Nat
  <2>1. len = ByteBits * (len \div ByteBits) + (len % ByteBits)
    BY <1>0, Divided
  <2> QED
    BY <1>0, <1>1, <1>2, <2>1
<1>4. q <= Len(a) /\ (r # 0 => q + 1 <= Len(a))
  <2>1. ~ (Len(a) < q)
    <3> SUFFICES ASSUME Len(a) < q PROVE FALSE
      BY <1>0
    <3>1. ByteBits * Len(a) + ByteBits <= ByteBits * q
      BY <1>0, Multiples
    <3> QED
      BY <1>0, <1>3, <3>1
  <2>2. q = Len(a) => r = 0
    BY <1>0, <1>3
  <2> QED
    BY <1>0, <2>1, <2>2
<1> DEFINE Same(i, k) == BitOf(a[i], k) = BitOf(b[i], k)
           Bits == \A k \in 0 .. len - 1 : Same((k \div ByteBits) + 1, k % ByteBits)
           Upper(x) == x \div PowerOfTwo(ByteBits - r)
           Rest == r = 0 \/ Upper(a[q + 1]) = Upper(b[q + 1])
<1>5. comp_with_mask(a, b, len) <=> (\A i \in 1 .. q : a[i] = b[i]) /\ Rest
  BY <1>1, <1>2 DEF comp_with_mask
<1>6. \A i \in 1 .. q : a[i] = b[i] <=> \A k \in 0 .. ByteBits - 1 : Same(i, k)
  BY <1>0, <1>4, BytesAgree
<1>7. Rest <=> \A k \in 0 .. r - 1 : Same(q + 1, k)
  <2>1. CASE r = 0
    BY <2>1
  <2>2. CASE r # 0
    <3>1. q + 1 \in 1 .. Len(a) /\ r \in 0 .. ByteBits
      BY <1>0, <1>4, <2>2
    <3> QED
      BY <1>0, <2>2, <3>1, BitsAgree
  <2> QED
    BY <2>1, <2>2
<1> HIDE DEF Same, Rest
<1>8. ASSUME \A i \in 1 .. q : \A k \in 0 .. ByteBits - 1 : Same(i, k),
             \A k \in 0 .. r - 1 : Same(q + 1, k), NEW k \in 0 .. len - 1
      PROVE  Same((k \div ByteBits) + 1, k % ByteBits)
  <2>0. k \in Nat /\ ByteBits \in Nat \ {0}
    BY <1>0
  <2>6. /\ k \div ByteBits \in Nat /\ k % ByteBits \in 0 .. ByteBits - 1
        /\ k = ByteBits * (k \div ByteBits) + (k % ByteBits)
    BY <2>0, Divided, Zenon
  <2>1. PICK i \in Nat : i = k \div ByteBits
    BY <2>6, Zenon
  <2>2. PICK j \in 0 .. ByteBits - 1 : j = k % ByteBits
    BY <2>6, Zenon
  <2>3. k = ByteBits * i + j /\ ByteBits * i \in Nat
    BY <2>0, <2>1, <2>2, <2>6
  <2>4. CASE i < q
    <3>1. i + 1 \in 1 .. q
      BY <2>4
    <3>2. Same(i + 1, j)
      BY <1>8, <3>1
    <3> QED
      BY <2>1, <2>2, <3>2
  <2>5. CASE ~ (i < q)
    <3>1. ~ (q < i)
      <4> SUFFICES ASSUME q < i PROVE FALSE
        OBVIOUS
      <4>1. ByteBits * q + ByteBits <= ByteBits * i
        BY <1>0, Multiples
      <4> QED
        BY <1>0, <1>3, <2>3, <4>1
    <3>2. i = q
      BY <2>5, <3>1
    <3>3. j \in 0 .. r - 1
      <4>1. ByteBits * i = ByteBits * q
        BY <3>2
      <4> QED
        BY <1>0, <1>3, <2>3, <4>1
    <3>4. Same(q + 1, j)
      BY <1>8, <3>3
    <3> QED
      BY <2>1, <2>2, <3>2, <3>4
  <2> QED
    BY <2>4, <2>5
<1>9. ASSUME Bits, NEW i \in Nat, NEW j \in 0 .. ByteBits - 1, ByteBits * i + j < len
      PROVE  Same(i + 1, j)
  <2>1. PICK k \in 0 .. len - 1 : k = ByteBits * i + j
    <3>1. ByteBits * i + j \in Nat
      BY <1>0
    <3> QED
      BY <1>0, <1>9, <3>1
  <2>2. k \div ByteBits = i /\ k % ByteBits = j
    BY <1>0, <2>1, DividedOnce, Zenon
  <2> QED
    BY <1>9, <2>2
<1>10. ASSUME Bits, NEW i \in 1 .. q, NEW j \in 0 .. ByteBits - 1
       PROVE  Same(i, j)
  <2>1. PICK w \in Nat : w + 1 = i /\ w < q
    <3>1. i - 1 \in Nat /\ (i - 1) + 1 = i /\ i - 1 < q
      OBVIOUS
    <3> QED
      BY <3>1
  <2>2. ByteBits * w \in Nat /\ ByteBits * w + ByteBits <= ByteBits * q
    BY <1>0, <2>1, Multiples
  <2>3. ByteBits * w + j < len
    BY <1>0, <1>3, <2>2
  <2>4. Same(w + 1, j)
    BY <1>9, <1>10, <2>3
  <2> QED
    BY <2>1, <2>4
<1>11. ASSUME Bits, NEW j \in 0 .. r - 1
       PROVE  Same(q + 1, j)
  <2>1. j \in 0 .. ByteBits - 1 /\ ByteBits * q + j < len
    BY <1>0, <1>3
  <2> QED
    BY <1>9, <1>11, <2>1
<1>12. Bits <=> (\A i \in 1 .. q : a[i] = b[i]) /\ Rest
  <2>1. ASSUME Bits PROVE (\A i \in 1 .. q : a[i] = b[i]) /\ Rest
    BY <1>6, <1>7, <1>10, <1>11, <2>1
  <2>2. ASSUME \A i \in 1 .. q : a[i] = b[i], Rest PROVE Bits
    BY <1>6, <1>7, <1>8, <2>2
  <2> QED
    BY <2>1, <2>2
<1> QED
  BY <1>5, <1>12 DEF Same

\* An address is in the range if comp_with_mask says so, and there are as many bits.
LEMMA RangeFacts ==
  ASSUME in \in Inputs, ~ in.mixed
  PROVE  InRange <=> /\ in.cidrlen # 0 /\ in.cidrlen <= ByteBits * Len(in.ipaddr)
                     /\ comp_with_mask(in.ipaddr, in.maskaddr, in.cidrlen)
<1>1. /\ in.ipaddr \in Seq(Byte) /\ in.maskaddr \in Seq(Byte) /\ Len(in.ipaddr) = Len(in.maskaddr)
      /\ in.cidrlen \in Nat /\ ByteBits \in Nat
  BY MatchAssumption DEF Input
<1>2. PICK a \in Seq(Byte) : a = in.ipaddr
  BY <1>1, Zenon
<1>3. PICK b \in Seq(Byte) : b = in.maskaddr
  BY <1>1, Zenon
<1>4. PICK len \in Nat : len = in.cidrlen
  BY <1>1, Zenon
<1>5. Len(a) = Len(b) /\ Len(a) \in Nat /\ ByteBits * Len(a) \in Nat
  BY <1>1, <1>2, <1>3
<1>6. InRange <=> /\ len \in 1 .. ByteBits * Len(a)
                  /\ \A k \in 0 .. len - 1 :
                       BitOf(a[(k \div ByteBits) + 1], k % ByteBits) = BitOf(b[(k \div ByteBits) + 1], k % ByteBits)
  BY <1>2, <1>3, <1>4, Zenon DEF InRange, BitOf
<1>7. CASE len <= ByteBits * Len(a)
  <2>1. len \in 0 .. ByteBits * Len(a)
    BY <1>5, <1>7
  <2>2. comp_with_mask(a, b, len) <=>
           \A k \in 0 .. len - 1 :
             BitOf(a[(k \div ByteBits) + 1], k % ByteBits) = BitOf(b[(k \div ByteBits) + 1], k % ByteBits)
    BY <1>5, <2>1, MaskBits, Zenon
  <2>3. len \in 1 .. ByteBits * Len(a) <=> len # 0
    BY <1>5, <2>1
  <2>4. InRange <=> len # 0 /\ comp_with_mask(a, b, len)
    BY <1>6, <2>2, <2>3, Zenon
  <2> QED
    BY <1>2, <1>3, <1>4, <1>7, <2>4, Zenon
<1>8. CASE ~ (len <= ByteBits * Len(a))
  <2>1. ~ InRange
    BY <1>5, <1>6, <1>8
  <2> QED
    BY <1>2, <1>4, <1>8, <2>1, Zenon
<1> QED
  BY <1>7, <1>8

\* What the loop has found out, for the places h that the mask matches from.
Found(h) ==
  /\ ret = "none" => Progress(h, m, n, ma, na, wild)
  /\ ret = "yes" => mask # <<>> /\ name # <<>> /\ 1 \in h[1]
  /\ ret = "no" /\ calls < MATCH_MAX_CALLS => mask = <<>> \/ name = <<>> \/ 1 \notin h[1]

\* The mask is the one that was given, or stands for the same; the loop knows what it has found
\* out; match is entered for an address only if that is in the range.
ExactInv ==
  /\ InBoundsInv
  /\ mask \in String /\ name \in String
  /\ fn \in {"none", "collapse", "match", "match_cidr"} /\ ret \in {"none", "yes", "no"}
  /\ calls \in Nat
  /\ fn # "none" => in \in Inputs
  /\ fn # "match" => ~ wild /\ fn = in.fn /\ mask = in.mask
  /\ fn \in {"none", "collapse"} => ret = "none"
  /\ fn = "match" =>
       /\ mask = <<>> <=> in.mask = <<>>
       /\ Glob(mask, name) <=> Glob(in.mask, name)
       /\ in.fn = "match_cidr" => ~ in.mixed /\ InRange
       /\ \A h : Table(h, mask, name) => Found(h)
  /\ fn = "match_cidr" /\ ret # "none" /\ ~ in.mixed => ret = "no" /\ ~ InRange


\* match, a turn of its loop or giving up.
LEMMA ExactMatch ==
  ASSUME ExactInv, match, InBoundsInv'
  PROVE  ExactInv'
<1>1. /\ fn = "match" /\ fn' = "match" /\ in' = in /\ mask' = mask /\ name' = name /\ ret = "none"
      /\ calls' = calls \/ calls' = calls + 1
  BY Zenon DEF match, name
<1>2. /\ mask \in String /\ name \in String /\ calls \in Nat /\ calls' \in Nat /\ in \in Inputs
      /\ mask = <<>> <=> in.mask = <<>>
      /\ Glob(mask, name) <=> Glob(in.mask, name)
      /\ in.fn = "match_cidr" => ~ in.mixed /\ InRange
      /\ m \in 1 .. Len(mask) + 1 /\ n \in 1 .. Len(name) + 1
      /\ ma \in 1 .. Len(mask) + 1 /\ na \in 1 .. Len(name) + 1 /\ wild \in BOOLEAN /\ na <= n
  BY <1>1 DEF ExactInv, InBoundsInv, MatchInBounds
<1>3. InRange' <=> InRange
  BY <1>1 DEF InRange
<1>4. ret' \in {"none", "yes", "no"} /\ \A h : Table(h, mask, name) => Found(h)'
  <2>1. CASE mask = <<>> \/ name = <<>> \/ calls = MATCH_MAX_CALLS
    <3>1. ret' = "no" /\ calls' = calls
      BY <2>1, Zenon DEF match, Returns, Answer
    <3>2. MATCH_MAX_CALLS \in Nat
      BY MatchAssumption
    <3> QED
      BY <1>1, <1>2, <2>1, <3>1, <3>2 DEF Found
  <2>2. CASE ~ (mask = <<>> \/ name = <<>> \/ calls = MATCH_MAX_CALLS)
    <3>1. Turn
      BY <2>2, Zenon DEF match
    <3>2. ret' \in {"none", "yes", "no"}
      BY <1>1, <3>1, Zenon DEF Turn, Compare, Returns, Answer
    <3>3. ASSUME NEW h, Table(h, mask, name) PROVE Found(h)'
      <4>1. Progress(h, m, n, ma, na, wild)
        BY <1>1, <3>3 DEF ExactInv, Found
      <4>2. Decides(h)
        BY <1>1, <1>2, <3>1, <3>3, <4>1, TurnDecides
      <4>3. Progress(h, m', n', ma', na', wild') <=> Progress(h, m, n, ma, na, wild)'
        BY <1>1 DEF Progress
      <4> QED
        BY <1>1, <2>2, <4>2, <4>3 DEF Decides, Found
    <3> QED
      BY <3>2, <3>3
  <2> QED
    BY <2>1, <2>2
<1>5. \A h : Table(h, mask, name)' => Found(h)'
  BY <1>1, <1>4 DEF Table
<1>6. Glob(mask, name)' <=> Glob(in.mask, name)'
  BY <1>1, <1>2
<1> QED
  BY <1>1, <1>2, <1>3, <1>4, <1>5, <1>6 DEF ExactInv

\* collapse leaves a mask that stands for the same.
LEMMA ExactCollapse ==
  ASSUME ExactInv, collapse, InBoundsInv'
  PROVE  ExactInv'
<1>1. /\ fn = "collapse" /\ fn' = "match" /\ in' = in /\ name' = name /\ ret' = ret
      /\ m' = m /\ n' = n /\ ma' = ma /\ na' = na /\ wild' = wild /\ calls' = calls
  BY DEF collapse, name
<1>2. mask' = KeepOnly(mask, Keeps(mask))
  BY Zenon DEF collapse, KeepOnly, Nth, Keeps
<1>3. /\ mask \in String /\ name \in String /\ calls \in Nat /\ in \in Inputs
      /\ in.fn = "collapse" /\ mask = in.mask /\ ~ wild /\ ret = "none"
      /\ m = 1 /\ n = 1 /\ ma = 1 /\ na = 1 /\ wild \in BOOLEAN
  BY <1>1 DEF ExactInv, InBoundsInv
<1>4. mask' \in String /\ (mask' = <<>> <=> mask = <<>>) /\ (Glob(mask', name) <=> Glob(mask, name))
  BY <1>2, <1>3, CollapseMeans
<1>5. \A h : Found(h)'
  <2> TAKE h
  <2>1. ret' = "none" /\ m' = 1 /\ n' = 1 /\ ma' = 1 /\ na' = 1 /\ ~ wild' /\ 1 .. m' - 1 = {}
    BY <1>1, <1>3
  <2>2. Progress(h, m, n, ma, na, wild)'
    BY <2>1 DEF Progress
  <2> QED
    BY <2>1, <2>2 DEF Found
<1>6. Glob(mask, name)' <=> Glob(in.mask, name)'
  BY <1>1, <1>3, <1>4
<1> QED
  BY <1>1, <1>3, <1>4, <1>5, <1>6 DEF ExactInv

\* match_cidr goes on to match for an address in the range only.
LEMMA ExactCidr ==
  ASSUME ExactInv, match_cidr, InBoundsInv'
  PROVE  ExactInv'
<1>1. /\ fn = "match_cidr" /\ ret = "none" /\ in' = in /\ name' = name /\ mask' = mask
      /\ m' = m /\ n' = n /\ ma' = ma /\ na' = na /\ wild' = wild /\ calls' = calls
  BY DEF match_cidr, name
<1>2. /\ mask \in String /\ name \in String /\ calls \in Nat /\ in \in Inputs
      /\ in.fn = "match_cidr" /\ mask = in.mask /\ ~ wild
      /\ m = 1 /\ n = 1 /\ ma = 1 /\ na = 1 /\ wild \in BOOLEAN
  BY <1>1 DEF ExactInv, InBoundsInv
<1>3. InRange' <=> InRange
  BY <1>1 DEF InRange
<1> DEFINE within == /\ in.cidrlen # 0 /\ ~ in.mixed /\ in.cidrlen <= ByteBits * Len(in.ipaddr)
                     /\ comp_with_mask(in.ipaddr, in.maskaddr, in.cidrlen)
<1>4. IF within THEN fn' = "match" /\ ret' = ret
                ELSE ret' = Answer(in.cidrlen # 0 /\ in.mixed) /\ fn' = fn
  BY Zenon DEF match_cidr
<1>5. ~ in.mixed => (within <=> InRange)
  BY <1>2, RangeFacts, Zenon
<1>6. within => ~ in.mixed
  OBVIOUS
<1> HIDE DEF within
<1>7. CASE within
  <2>1. fn' = "match" /\ ret' = "none" /\ ~ in.mixed /\ InRange
    BY <1>1, <1>4, <1>5, <1>6, <1>7
  <2>2. \A h : Found(h)'
    <3> TAKE h
    <3>1. ret' = "none" /\ m' = 1 /\ n' = 1 /\ ma' = 1 /\ na' = 1 /\ ~ wild' /\ 1 .. m' - 1 = {}
      BY <1>1, <1>2, <2>1
    <3>2. Progress(h, m, n, ma, na, wild)'
      BY <3>1 DEF Progress
    <3> QED
      BY <3>1, <3>2 DEF Found
  <2>3. Glob(mask, name)' <=> Glob(in.mask, name)'
    BY <1>1, <1>2
  <2> QED
    BY <1>1, <1>2, <1>3, <2>1, <2>2, <2>3 DEF ExactInv
<1>8. CASE ~ within
  <2>1. fn' = "match_cidr" /\ ret' \in {"yes", "no"}
    BY <1>1, <1>4, <1>8, Zenon DEF Answer
  <2>2. ~ in.mixed => ret' = "no" /\ ~ InRange
    BY <1>4, <1>5, <1>8, Zenon DEF Answer
  <2> QED
    BY <1>1, <1>2, <1>3, <2>1, <2>2 DEF ExactInv
<1> QED
  BY <1>7, <1>8

\* A service calls one of the functions.
LEMMA ExactCall ==
  ASSUME ExactInv, Call, InBoundsInv'
  PROVE  ExactInv'
<1>1. PICK i \in Inputs : in' = i /\ fn' = i.fn /\ mask' = i.mask
  BY DEF Call
<1>2. /\ fn = "none" /\ ret' = ret /\ calls' = calls
      /\ m' = m /\ n' = n /\ ma' = ma /\ na' = na /\ wild' = wild
  BY DEF Call
<1>3. ret = "none" /\ calls \in Nat /\ ~ wild /\ m = 1 /\ n = 1 /\ ma = 1 /\ na = 1 /\ wild \in BOOLEAN
  BY <1>2 DEF ExactInv, InBoundsInv
<1>4. mask' \in String /\ name' \in String /\ fn' \in {"collapse", "match", "match_cidr"}
      /\ mask' = (in').mask /\ fn' = (in').fn
  BY <1>1, InputStrings, MatchAssumption DEF name, Input
<1>5. \A h : Found(h)'
  <2> TAKE h
  <2>1. ret' = "none" /\ m' = 1 /\ n' = 1 /\ ma' = 1 /\ na' = 1 /\ ~ wild' /\ 1 .. m' - 1 = {}
    BY <1>2, <1>3
  <2>2. Progress(h, m, n, ma, na, wild)'
    BY <2>1 DEF Progress
  <2> QED
    BY <2>1, <2>2 DEF Found
<1>6. Glob(mask, name)' <=> Glob(in.mask, name)'
  BY <1>4
<1> QED
  BY <1>1, <1>2, <1>3, <1>4, <1>5, <1>6, ZenonT(30) DEF ExactInv

\* What the invariant says of an answer.
LEMMA ExactAnswers == ExactInv => MatchExact
<1> SUFFICES ASSUME ExactInv PROVE MatchExact
  OBVIOUS
<1>1. MatchInBounds
  BY DEF ExactInv, InBoundsInv
<1> DEFINE matches == /\ in.mask # <<>> /\ name # <<>>
                      /\ Glob(in.mask, name)
                      /\ in.fn = "match_cidr" => InRange
<1>2. ASSUME ret # "none", ~ in.mixed
      PROVE  (ret = "yes" => matches) /\ (matches /\ calls < MATCH_MAX_CALLS => ret = "yes")
  <2>1. fn \in {"match", "match_cidr"} /\ ret \in {"yes", "no"} /\ mask \in String /\ name \in String
    BY <1>2 DEF ExactInv
  <2>2. CASE fn = "match"
    <3>1. PICK h : Table(h, mask, name) /\ (Glob(mask, name) <=> 1 \in h[1])
      <4>1. Len(mask) \in Nat /\ Len(name) \in Nat
        BY <2>1 DEF String
      <4> QED
        BY <4>1, GlobTable
    <3>2. /\ mask = <<>> <=> in.mask = <<>>
          /\ Glob(mask, name) <=> Glob(in.mask, name)
          /\ in.fn = "match_cidr" => InRange
          /\ Found(h)
      BY <2>2, <3>1 DEF ExactInv
    <3> QED
      BY <2>1, <3>1, <3>2 DEF Found
  <2>3. CASE fn = "match_cidr"
    <3>1. in.fn = "match_cidr" /\ ret = "no" /\ ~ InRange
      BY <1>2, <2>3 DEF ExactInv
    <3> QED
      BY <3>1
  <2> QED
    BY <2>1, <2>2, <2>3
<1> QED
  BY <1>1, <1>2, Zenon DEF MatchExact

\* The answer of match() (match.c) is what the mask stands for, for all masks and names,
\* alphabets and cases, whether or not collapse() went over the mask; past MATCH_MAX_CALLS
\* turns it may only miss a match.  match_cidr() (cidr.c) says whether the address is in the range,
\* bit by bit, and the rest matches, for all addresses of one family and every width of a byte.
THEOREM Matching == MatchSpec => []MatchExact
<1>1. MatchInit => ExactInv
  <2> SUFFICES ASSUME MatchInit PROVE ExactInv
    OBVIOUS
  <2>1. InBoundsInv
    BY InBoundsFirst
  <2>2. fn = "none" /\ mask = in.mask /\ ret = "none" /\ calls = 0 /\ ~ wild
    BY DEF MatchInit, NoInput
  <2>3. fn = in.fn /\ mask \in String /\ name \in String
    BY InputStrings DEF MatchInit, name
  <2> QED
    BY <2>1, <2>2, <2>3 DEF ExactInv
<1>2. ExactInv /\ [MatchNext]_matchVars => ExactInv'
  <2> SUFFICES ASSUME ExactInv, [MatchNext]_matchVars PROVE ExactInv'
    OBVIOUS
  <2>1. InBoundsInv'
    BY InBoundsKept DEF ExactInv
  <2>2. CASE UNCHANGED matchVars
    <3>1. /\ in' = in /\ fn' = fn /\ mask' = mask /\ m' = m /\ n' = n /\ ma' = ma /\ na' = na
          /\ wild' = wild /\ calls' = calls /\ ret' = ret /\ name' = name
      BY <2>2 DEF matchVars, name
    <3>2. (InRange' <=> InRange) /\ (Glob(mask, name)' <=> Glob(mask, name))
          /\ (Glob(in.mask, name)' <=> Glob(in.mask, name))
      BY <3>1 DEF InRange
    <3>3. ASSUME NEW h PROVE (Table(h, mask, name)' <=> Table(h, mask, name)) /\ (Found(h)' <=> Found(h))
      <4>1. Progress(h, m, n, ma, na, wild)' <=> Progress(h, m, n, ma, na, wild)
        BY <3>1 DEF Progress
      <4> QED
        BY <3>1, <4>1 DEF Found
    <3> QED
      BY <2>1, <3>1, <3>2, <3>3 DEF ExactInv
  <2> QED
    BY <2>1, <2>2, ExactMatch, ExactCollapse, ExactCidr, ExactCall DEF MatchNext
<1> QED
  BY <1>1, <1>2, ExactAnswers, PTL DEF MatchSpec
=============================================================================
