---------------------------- MODULE PolicyProofs ----------------------------
(***************************************************************************)
(* What the configuration grants: the counts and flags of oper blocks      *)
(* after any sequence of logins, netsplits and rehashes (OperConf); and    *)
(* the limits on commands, registrations and mails, for any amounts,       *)
(* windows, costs and times (RateLimits).                                  *)
(***************************************************************************)
EXTENDS OperConf, RateLimits, FiniteSetTheorems, TLAPS

\* How a leaf that names no prover is tried.
USE SMT, Zenon, SMTT(20)

(* OperConf.  The invariant says of each block that its count is the number   *)
(* of its holders and that it is there while it has any, and of the list what *)
(* a reading of the file leaves.  The freeing of the entries of               *)
(* client_oper_list one by one is an induction over its stages.               *)

\* Sets of natural numbers have a least element.
LEMMA LeastNat ==
  ASSUME NEW S \in SUBSET Nat, S # {}
  PROVE  \E n \in S : \A m \in S : n <= m
<1>1. PICK n \in S : \A m \in S : ~ (<<m, n>> \in OpToRel(<, Nat))
  BY NatLessThanWellFounded, WFMin, Zenon
<1>2. \A m \in S : ~ (m < n)
  BY <1>1, Zenon DEF OpToRel
<1> QED
  BY <1>2

\* Induction up to n: a set with 0, and with i whenever it has i - 1.
LEMMA UpTo ==
  ASSUME NEW n \in Nat, NEW S, 0 \in S, \A i \in 1 .. n : i - 1 \in S => i \in S
  PROVE  \A i \in 0 .. n : i \in S
<1> DEFINE Out == {i \in 0 .. n : i \notin S}
<1> SUFFICES ASSUME Out # {} PROVE FALSE
  OBVIOUS
<1>0. Out \in SUBSET Nat
  OBVIOUS
<1>1. PICK i \in Out : \A j \in Out : i <= j
  BY <1>0, LeastNat, Zenon
<1>2. i \in 1 .. n /\ i - 1 \in 0 .. n
  BY <1>1
<1>3. i - 1 \in S
  BY <1>1, <1>2
<1> QED
  BY <1>2, <1>3

\* The stages of Released: the blocks after the first i entries are freed.
Stages(g, gone, n) ==
  g = [i \in 0 .. n |-> IF i = 0 THEN blk ELSE deallocate_conf_oper(g[i - 1], gone[i])]

\* Released, deallocate_conf_oper() once for each entry, is the last of its
\* stages.
LEMMA ReleasedStages ==
  ASSUME NEW gone, Len(gone) \in Nat
  PROVE  \E g : Stages(g, gone, Len(gone)) /\ Released(gone) = g[Len(gone)]
<1> DEFINE S == {n \in Nat : \E g : Stages(g, gone, n)}
<1>1. Len(gone) \in S
  <2>1. 0 \in S
    <3> DEFINE g == [i \in 0 .. 0 |-> blk]
    <3>1. Stages(g, gone, 0)
      BY DEF Stages
    <3> QED
      BY <3>1
  <2>2. ASSUME NEW n \in 1 .. Len(gone), n - 1 \in S PROVE n \in S
    <3>1. n - 1 \in Nat /\ n # 0 /\ n \in Nat
      OBVIOUS
    <3>2. PICK g : Stages(g, gone, n - 1)
      BY <2>2
    <3> DEFINE h == [i \in 0 .. n |-> IF i = n THEN deallocate_conf_oper(g[n - 1], gone[n]) ELSE g[i]]
    <3>3. \A i \in 0 .. n : h[i] = IF i = 0 THEN blk ELSE deallocate_conf_oper(h[i - 1], gone[i])
      <4> TAKE i \in 0 .. n
      <4>1. CASE i = n
        BY <3>1, <4>1
      <4>2. CASE i # n
        <5>1. i \in 0 .. n - 1 /\ h[i] = g[i] /\ (i # 0 => h[i - 1] = g[i - 1])
          BY <3>1, <4>2
        <5> HIDE DEF h
        <5> QED
          BY <3>2, <5>1 DEF Stages
      <4> QED
        BY <4>1, <4>2
    <3>4. h = [i \in 0 .. n |-> h[i]]
      OBVIOUS
    <3> HIDE DEF h
    <3>5. Stages(h, gone, n)
      BY <3>3, <3>4, Zenon DEF Stages
    <3> QED
      BY <3>1, <3>5
  <2> HIDE DEF S
  <2>3. \A i \in 0 .. Len(gone) : i \in S
    BY <2>1, <2>2, UpTo, Zenon
  <2> QED
    BY <2>3
<1>2. \E g : Stages(g, gone, Len(gone))
  BY <1>1
<1> DEFINE g == CHOOSE f : Stages(f, gone, Len(gone))
<1>3. Stages(g, gone, Len(gone))
  BY <1>2
<1>4. Released(gone) = g[Len(gone)]
  BY SMTT(60) DEF Released, Stages
<1> QED
  BY <1>3, <1>4, Zenon

\* A block, or a place without one.
BlockRec == [mem : {"free", "used", "freed"}, key : Keys \cup {CHOOSE k \in Keys : TRUE},
             privs : Privs \cup {NoPrivs}, dead : BOOLEAN, refcount : Nat]

\* Those of I the function f sends to b, and how many they are.
Holding(f, I, b) == {x \in I : f[x] = b}
Count(f, I, b) == Cardinality(Holding(f, I, b))

\* The clients, the connections and the entries I of client_oper_list that hold b.
HeldBy(I, b) == Count(oper, OpClients, b) + Count(dcc, Conns, b) + Count(stored, I, b)

\* Finitely many hold each block.
FinitelyMany(f, I) == \A b \in Blocks : IsFiniteSet(Holding(f, I, b))

\* Blocks bs that count the holders N, and are there while they have any.
Counted(bs, N) == \A b \in Blocks : bs[b].refcount = N[b] /\ (N[b] > 0 => bs[b].mem = "used")

\* What a reading of the file f leaves: the blocks in use are in the list l, at most one
\* for each key; those of the file are alive, with its flags, and the others are not.
Listing(f, bs, l) ==
  /\ l \subseteq Blocks
  /\ \A b \in Blocks : bs[b].mem = "used" => b \in l
  /\ \A b \in l : ~ bs[b].dead =>
       bs[b].mem = "used" /\ bs[b].key \in In(f) /\ bs[b].privs = f[bs[b].key]
  /\ \A b \in l : bs[b].mem = "used" /\ bs[b].dead => bs[b].key \notin In(f)
  /\ \A k \in In(f) : \E b \in l : ~ bs[b].dead /\ bs[b].key = k
  /\ \A a, b \in l : bs[a].mem = "used" /\ bs[b].mem = "used" /\ bs[a].key = bs[b].key => a = b

\* The invariant.
OperInv ==
  /\ file \in [Keys -> Privs \cup {NoPrivs}]
  /\ blk \in [Blocks -> BlockRec]
  /\ oper \in [OpClients -> Blocks \cup {NoBlock}] /\ FinitelyMany(oper, OpClients)
  /\ dcc \in [Conns -> Blocks \cup {NoBlock}] /\ FinitelyMany(dcc, Conns)
  /\ stored \in Seq(Blocks)
  /\ Counted(blk, [b \in Blocks |-> HeldBy(DOMAIN stored, b)])
  /\ Listing(file, blk, list)

\* Of the holders I, x comes to hold y and the others keep what they hold.
Takes(f, g, I, x, y) ==
  g \in [I -> Blocks \cup {NoBlock}] /\ g[x] = y /\ \A z \in I : z # x => g[z] = f[z]

\* How many hold each block: those of I, and the others K.
Tally(f, I, K) == [b \in Blocks |-> Count(f, I, b) + K[b]]

\* One of I comes to hold another block, or none, or its first.
LEMMA CountChange ==
  ASSUME NEW I, NEW f \in [I -> Blocks \cup {NoBlock}], FinitelyMany(f, I),
         NEW x \in I, NEW y \in Blocks \cup {NoBlock}, y # f[x], NEW b \in Blocks,
         NEW g, Takes(f, g, I, x, y)
  PROVE  /\ IsFiniteSet(Holding(g, I, b))
         /\ Count(f, I, b) \in Nat
         /\ y = b => Count(g, I, b) = Count(f, I, b) + 1
         /\ f[x] = b => Count(f, I, b) > 0 /\ Count(g, I, b) = Count(f, I, b) - 1
         /\ y # b /\ f[x] # b => Count(g, I, b) = Count(f, I, b)
<1> DEFINE F == {z \in I : f[z] = b}
           G == {z \in I : g[z] = b}
<1>1. g[x] = y /\ \A z \in I : z # x => g[z] = f[z]
  BY DEF Takes
<1>2. IsFiniteSet(F) /\ Cardinality(F) \in Nat
  BY FS_CardinalityType DEF FinitelyMany, Holding
<1>3. (x \in F) = (f[x] = b)
  OBVIOUS
<1>4. CASE y = b
  <2>1. G = F \cup {x} /\ x \notin F
    BY <1>1, <1>4
  <2> HIDE DEF F, G
  <2>2. IsFiniteSet(G) /\ Cardinality(G) = Cardinality(F) + 1
    BY <1>2, <2>1, FS_AddElement
  <2> QED
    BY <1>2, <1>4, <2>2 DEF Count, Holding, F, G
<1>5. CASE f[x] = b
  <2>1. G = F \ {x} /\ x \in F
    BY <1>1, <1>5
  <2> HIDE DEF F, G
  <2>2. IsFiniteSet(G) /\ Cardinality(G) = Cardinality(F) - 1
    BY <1>2, <2>1, FS_RemoveElement
  <2>3. Cardinality(F) > 0
    BY <1>2, <2>1, FS_EmptySet
  <2> QED
    BY <1>2, <1>5, <2>2, <2>3 DEF Count, Holding, F, G
<1>6. CASE y # b /\ f[x] # b
  <2>1. G = F
    BY <1>1, <1>6
  <2> QED
    BY <1>2, <1>6, <2>1 DEF Count, Holding
<1> QED
  BY <1>4, <1>5, <1>6

\* What it is to let go of a block, and to take one.
LEMMA Deallocated ==
  ASSUME NEW bs \in [Blocks -> BlockRec], NEW b \in Blocks, bs[b].refcount > 0
  PROVE  LET t == deallocate_conf_oper(bs, b) IN
         /\ t \in [Blocks -> BlockRec]
         /\ t[b].refcount = bs[b].refcount - 1
         /\ t[b].key = bs[b].key /\ t[b].privs = bs[b].privs /\ t[b].dead = bs[b].dead
         /\ t[b].mem = IF bs[b].dead /\ bs[b].refcount = 1 THEN "freed" ELSE bs[b].mem
         /\ \A a \in Blocks : a # b => t[a] = bs[a]
<1> DEFINE left == bs[b].refcount - 1
           gone == bs[b].dead /\ left = 0
           r == [bs[b] EXCEPT !.refcount = left, !.mem = IF gone THEN "freed" ELSE @]
<1>1. bs[b] \in BlockRec /\ bs[b].refcount \in Nat /\ left \in Nat
  BY DEF BlockRec
<1>2. deallocate_conf_oper(bs, b) = [bs EXCEPT ![b] = r]
  BY Zenon DEF deallocate_conf_oper
<1>3. gone <=> bs[b].dead /\ bs[b].refcount = 1
  BY <1>1
<1> HIDE DEF gone, left
<1>4. /\ r \in BlockRec /\ r.refcount = left
      /\ r.key = bs[b].key /\ r.privs = bs[b].privs /\ r.dead = bs[b].dead
      /\ r.mem = IF gone THEN "freed" ELSE bs[b].mem
  BY <1>1, Zenon DEF BlockRec
<1> HIDE DEF r
<1> QED
  BY <1>2, <1>3, <1>4 DEF left

\* What taking a block changes of it and of the others: its count and nothing
\* else.
LEMMA Held ==
  ASSUME NEW bs \in [Blocks -> BlockRec], NEW b \in Blocks
  PROVE  /\ Hold(bs, b) \in [Blocks -> BlockRec]
         /\ Hold(bs, b)[b].refcount = bs[b].refcount + 1
         /\ Hold(bs, b)[b].key = bs[b].key /\ Hold(bs, b)[b].privs = bs[b].privs
         /\ Hold(bs, b)[b].dead = bs[b].dead /\ Hold(bs, b)[b].mem = bs[b].mem
         /\ \A a \in Blocks : a # b => Hold(bs, b)[a] = bs[a]
<1> DEFINE r == [bs[b] EXCEPT !.refcount = @ + 1]
<1>1. bs[b] \in BlockRec
  OBVIOUS
<1>2. /\ r \in BlockRec /\ r.refcount = bs[b].refcount + 1 /\ r.key = bs[b].key
      /\ r.privs = bs[b].privs /\ r.dead = bs[b].dead /\ r.mem = bs[b].mem
  BY <1>1 DEF BlockRec
<1>3. Hold(bs, b) = [bs EXCEPT ![b] = r]
  BY SMTT(60) DEF Hold
<1> HIDE DEF r
<1> QED
  BY <1>2, <1>3

\* Counts come and go, and dead blocks with them: the list says the same of the others.
LEMMA ListingSame ==
  ASSUME NEW f, NEW l, NEW bs, NEW t, Listing(f, bs, l),
         \A b \in Blocks :
           /\ t[b].key = bs[b].key /\ t[b].privs = bs[b].privs /\ t[b].dead = bs[b].dead
           /\ t[b].mem = bs[b].mem \/ (bs[b].dead /\ t[b].mem = "freed")
  PROVE  Listing(f, t, l)
BY DEF Listing

\* Letting go and taking, with what counts and list say.
LEMMA LetGo ==
  ASSUME NEW bs \in [Blocks -> BlockRec], NEW N \in [Blocks -> Nat], Counted(bs, N),
         NEW f, NEW l, Listing(f, bs, l), NEW b \in Blocks, N[b] > 0
  PROVE  /\ deallocate_conf_oper(bs, b) \in [Blocks -> BlockRec]
         /\ Counted(deallocate_conf_oper(bs, b), [N EXCEPT ![b] = @ - 1])
         /\ Listing(f, deallocate_conf_oper(bs, b), l)
<1> DEFINE t == deallocate_conf_oper(bs, b)
           M == [N EXCEPT ![b] = @ - 1]
<1>1. bs[b].refcount = N[b] /\ bs[b].mem = "used" /\ N[b] \in Nat
  BY DEF Counted
<1>2. /\ t \in [Blocks -> BlockRec]
      /\ t[b].refcount = bs[b].refcount - 1
      /\ t[b].key = bs[b].key /\ t[b].privs = bs[b].privs /\ t[b].dead = bs[b].dead
      /\ t[b].mem = IF bs[b].dead /\ bs[b].refcount = 1 THEN "freed" ELSE bs[b].mem
      /\ \A a \in Blocks : a # b => t[a] = bs[a]
  BY <1>1, Deallocated
<1>3. M[b] = N[b] - 1 /\ \A a \in Blocks : a # b => M[a] = N[a]
  OBVIOUS
<1> HIDE DEF t, M
<1>4. Counted(t, M)
  BY <1>1, <1>2, <1>3 DEF Counted
<1>5. \A a \in Blocks :
        /\ t[a].key = bs[a].key /\ t[a].privs = bs[a].privs /\ t[a].dead = bs[a].dead
        /\ t[a].mem = bs[a].mem \/ (bs[a].dead /\ t[a].mem = "freed")
  BY <1>2, SMTT(60)
<1>6. Listing(f, t, l)
  BY <1>5, ListingSame, SMTT(60)
<1> QED
  BY <1>2, <1>4, <1>6 DEF t, M

\* A block that one more holds is counted once more, and stays on or off the
\* list.
LEMMA TakeOne ==
  ASSUME NEW bs \in [Blocks -> BlockRec], NEW N \in [Blocks -> Nat], Counted(bs, N),
         NEW f, NEW l, Listing(f, bs, l), NEW b \in Blocks, bs[b].mem = "used"
  PROVE  /\ Hold(bs, b) \in [Blocks -> BlockRec]
         /\ Counted(Hold(bs, b), [N EXCEPT ![b] = @ + 1])
         /\ Listing(f, Hold(bs, b), l)
<1> DEFINE t == Hold(bs, b)
           M == [N EXCEPT ![b] = @ + 1]
<1>1. bs[b].refcount = N[b] /\ N[b] \in Nat
  BY DEF Counted
<1>2. /\ t \in [Blocks -> BlockRec]
      /\ t[b].refcount = bs[b].refcount + 1
      /\ t[b].key = bs[b].key /\ t[b].privs = bs[b].privs /\ t[b].dead = bs[b].dead
      /\ t[b].mem = bs[b].mem
      /\ \A a \in Blocks : a # b => t[a] = bs[a]
  BY Held
<1>3. M[b] = N[b] + 1 /\ \A a \in Blocks : a # b => M[a] = N[a]
  OBVIOUS
<1> HIDE DEF t, M
<1>4. Counted(t, M)
  BY <1>1, <1>2, <1>3 DEF Counted
<1>5. \A a \in Blocks :
        /\ t[a].key = bs[a].key /\ t[a].privs = bs[a].privs /\ t[a].dead = bs[a].dead
        /\ t[a].mem = bs[a].mem \/ (bs[a].dead /\ t[a].mem = "freed")
  BY <1>2, SMTT(60)
<1>6. Listing(f, t, l)
  BY <1>5, ListingSame
<1> QED
  BY <1>2, <1>4, <1>6 DEF t, M

\* Counts are numbers.
LEMMA CountsAreNumbers ==
  ASSUME OperInv, NEW I \in SUBSET DOMAIN stored, NEW b \in Blocks
  PROVE  /\ IsFiniteSet(Holding(stored, I, b))
         /\ Count(oper, OpClients, b) \in Nat /\ Count(dcc, Conns, b) \in Nat
         /\ Count(stored, I, b) \in Nat /\ HeldBy(I, b) \in Nat
<1>1. IsFiniteSet(Holding(oper, OpClients, b)) /\ IsFiniteSet(Holding(dcc, Conns, b))
  BY DEF OperInv, FinitelyMany
<1>2. IsFiniteSet(Holding(stored, I, b))
  <2>1. IsFiniteSet(DOMAIN stored)
    <3>1. DOMAIN stored = 1 .. Len(stored) /\ Len(stored) \in Nat
      BY SMTT(60) DEF OperInv
    <3> QED
      BY <3>1, FS_Interval
  <2> QED
    BY <2>1, FS_Subset DEF Holding
<1> QED
  BY <1>1, <1>2, FS_CardinalityType DEF Count, HeldBy

\* The counts of all blocks when one of I takes block y, or lets go of the one it had;
\* K are the other holders.
LEMMA CountsChange ==
  ASSUME NEW I, NEW f \in [I -> Blocks \cup {NoBlock}], FinitelyMany(f, I), NEW x \in I,
         NEW K \in [Blocks -> Nat], NEW y \in Blocks \cup {NoBlock}, y # f[x],
         NEW g, Takes(f, g, I, x, y)
  PROVE  /\ FinitelyMany(g, I)
         /\ Tally(f, I, K) \in [Blocks -> Nat]
         /\ f[x] = NoBlock /\ y # NoBlock => Tally(g, I, K) = [Tally(f, I, K) EXCEPT ![y] = @ + 1]
         /\ f[x] # NoBlock /\ y = NoBlock => /\ Tally(f, I, K)[f[x]] > 0
                                             /\ Tally(g, I, K) = [Tally(f, I, K) EXCEPT ![f[x]] = @ - 1]
<1> DEFINE N == Tally(f, I, K)
           M == Tally(g, I, K)
<1>0. NoBlock \notin Blocks
  BY OperAssumption, Zenon
<1>1. \A b \in Blocks : Count(f, I, b) \in Nat
  BY FS_CardinalityType DEF FinitelyMany, Count
<1>2. \A b \in Blocks : N[b] = Count(f, I, b) + K[b] /\ M[b] = Count(g, I, b) + K[b] /\ K[b] \in Nat
  BY DEF Tally
<1>3. N \in [Blocks -> Nat] /\ DOMAIN M = Blocks /\ M = [b \in Blocks |-> M[b]]
  BY <1>1 DEF Tally
<1>4. ASSUME NEW b \in Blocks
      PROVE  /\ IsFiniteSet(Holding(g, I, b))
             /\ y = b => Count(g, I, b) = Count(f, I, b) + 1
             /\ f[x] = b => Count(f, I, b) > 0 /\ Count(g, I, b) = Count(f, I, b) - 1
             /\ y # b /\ f[x] # b => Count(g, I, b) = Count(f, I, b)
  BY CountChange
<1>5. FinitelyMany(g, I)
  BY <1>4 DEF FinitelyMany
<1> HIDE DEF N, M
<1>6. ASSUME f[x] = NoBlock, y # NoBlock PROVE M = [N EXCEPT ![y] = @ + 1]
  <2>1. ASSUME NEW b \in Blocks PROVE M[b] = IF b = y THEN N[b] + 1 ELSE N[b]
    <3>1. /\ y = b => Count(g, I, b) = Count(f, I, b) + 1
          /\ y # b => Count(g, I, b) = Count(f, I, b)
      BY <1>0, <1>4, <1>6
    <3> QED
      BY <1>1, <1>2, <3>1
  <2> QED
    BY <1>3, <1>6, <2>1, Zenon
<1>7. ASSUME f[x] # NoBlock, y = NoBlock PROVE N[f[x]] > 0 /\ M = [N EXCEPT ![f[x]] = @ - 1]
  <2>0. f[x] \in Blocks
    BY <1>7, SMTT(60)
  <2>1. ASSUME NEW b \in Blocks PROVE M[b] = IF b = f[x] THEN N[b] - 1 ELSE N[b]
    <3>1. /\ f[x] = b => Count(g, I, b) = Count(f, I, b) - 1
          /\ f[x] # b => Count(g, I, b) = Count(f, I, b)
      BY <1>0, <1>4, <1>7, SMTT(60)
    <3> QED
      BY <1>1, <1>2, <3>1
  <2>2. N[f[x]] > 0
    <3>1. Count(f, I, f[x]) > 0
      BY <1>4, <2>0
    <3> QED
      BY <1>1, <1>2, <2>0, <3>1
  <2>3. M = [N EXCEPT ![f[x]] = @ - 1]
    BY <1>3, <2>0, <2>1, Zenon
  <2> QED
    BY <2>2, <2>3
<1> QED
  BY <1>3, <1>5, <1>6, <1>7 DEF N, M

\* The blocks when a holder x of I takes block y, or lets go of the one it had.
LEMMA HolderStep ==
  ASSUME OperInv,
         NEW I, NEW f \in [I -> Blocks \cup {NoBlock}], FinitelyMany(f, I), NEW x \in I,
         NEW K \in [Blocks -> Nat], NEW y \in Blocks \cup {NoBlock}, NEW g, Takes(f, g, I, x, y),
         Counted(blk, Tally(f, I, K)),
         \/ f[x] = NoBlock /\ y \in Blocks /\ Found(y) /\ blk' = Hold(blk, y)
         \/ f[x] # NoBlock /\ y = NoBlock /\ blk' = deallocate_conf_oper(blk, f[x])
  PROVE  /\ FinitelyMany(g, I)
         /\ blk' \in [Blocks -> BlockRec] /\ Listing(file, blk', list)
         /\ Counted(blk', Tally(g, I, K))
<1> DEFINE N == Tally(f, I, K)
           M == Tally(g, I, K)
<1>1. NoBlock \notin Blocks /\ y # f[x]
  BY OperAssumption, Zenon
<1>2. blk \in [Blocks -> BlockRec] /\ Listing(file, blk, list)
  BY DEF OperInv
<1>3. /\ FinitelyMany(g, I)
      /\ N \in [Blocks -> Nat]
      /\ f[x] = NoBlock /\ y # NoBlock => M = [N EXCEPT ![y] = @ + 1]
      /\ f[x] # NoBlock /\ y = NoBlock => N[f[x]] > 0 /\ M = [N EXCEPT ![f[x]] = @ - 1]
  BY <1>1, CountsChange
<1>4. Counted(blk, N)
  BY SMTT(60)
<1> HIDE DEF N, M
<1>5. CASE f[x] = NoBlock /\ y \in Blocks /\ Found(y) /\ blk' = Hold(blk, y)
  <2>1. blk[y].mem = "used"
    BY <1>2, <1>5, ZenonT(60) DEF Found, Listing
  <2> QED
    BY <1>1, <1>2, <1>3, <1>4, <1>5, <2>1, TakeOne, SMTT(60) DEF M
<1>6. CASE f[x] # NoBlock /\ y = NoBlock /\ blk' = deallocate_conf_oper(blk, f[x])
  <2>1. f[x] \in Blocks /\ N[f[x]] > 0 /\ M = [N EXCEPT ![f[x]] = @ - 1]
    BY <1>3, <1>6, SMTT(60)
  <2>2. /\ deallocate_conf_oper(blk, f[x]) \in [Blocks -> BlockRec]
        /\ Counted(deallocate_conf_oper(blk, f[x]), [N EXCEPT ![f[x]] = @ - 1])
        /\ Listing(file, deallocate_conf_oper(blk, f[x]), list)
    BY <1>2, <1>3, <1>4, <2>1, LetGo, Zenon
  <2> QED
    BY <1>3, <1>6, <2>1, <2>2, SMTT(60) DEF M
<1> QED
  BY <1>5, <1>6

\* What the counts add up to, from the clients' side and from the connections'.
LEMMA Tallies ==
  ASSUME OperInv, NEW K, NEW L,
         K = [b \in Blocks |-> Count(dcc, Conns, b) + Count(stored, DOMAIN stored, b)],
         L = [b \in Blocks |-> Count(oper, OpClients, b) + Count(stored, DOMAIN stored, b)]
  PROVE  /\ K \in [Blocks -> Nat] /\ L \in [Blocks -> Nat]
         /\ Counted(blk, Tally(oper, OpClients, K)) /\ Counted(blk, Tally(dcc, Conns, L))
<1>1. \A b \in Blocks : /\ Count(oper, OpClients, b) \in Nat /\ Count(dcc, Conns, b) \in Nat
                        /\ Count(stored, DOMAIN stored, b) \in Nat
  BY CountsAreNumbers
<1>2. K \in [Blocks -> Nat] /\ L \in [Blocks -> Nat]
  BY <1>1
<1>3. \A b \in Blocks : /\ HeldBy(DOMAIN stored, b) = Tally(oper, OpClients, K)[b]
                        /\ HeldBy(DOMAIN stored, b) = Tally(dcc, Conns, L)[b]
  BY <1>1 DEF HeldBy, Tally
<1>4. Counted(blk, [b \in Blocks |-> HeldBy(DOMAIN stored, b)])
  BY SMTT(60) DEF OperInv
<1> QED
  BY <1>2, <1>3, <1>4, Zenon DEF Counted

\* A client logs in with a block or lets go of it, and so does a dcc connection.
LEMMA ClientHolds ==
  ASSUME OperInv, NEW c \in OpClients, OLogout(c) \/ \E b \in Blocks : OLogin(c, b)
  PROVE  OperInv'
<1> DEFINE K == [b \in Blocks |-> Count(dcc, Conns, b) + Count(stored, DOMAIN stored, b)]
<1>1. UNCHANGED <<file, list, dcc, stored>>
  BY DEF OLogin, OLogout
<1>2. PICK y \in Blocks \cup {NoBlock} :
        /\ oper' = [oper EXCEPT ![c] = y]
        /\ \/ oper[c] = NoBlock /\ y \in Blocks /\ Found(y) /\ blk' = Hold(blk, y)
           \/ oper[c] # NoBlock /\ y = NoBlock /\ blk' = deallocate_conf_oper(blk, oper[c])
  BY DEF OLogin, OLogout
<1>3. K \in [Blocks -> Nat] /\ Counted(blk, Tally(oper, OpClients, K))
  BY Tallies, Zenon
<1>4. oper \in [OpClients -> Blocks \cup {NoBlock}] /\ FinitelyMany(oper, OpClients)
  BY DEF OperInv
<1>5. Takes(oper, oper', OpClients, c, y)
  BY <1>2, <1>4 DEF Takes
<1>6. K = [b \in Blocks |-> Count(dcc, Conns, b) + Count(stored, DOMAIN stored, b)]
  OBVIOUS
<1> HIDE DEF K
<1>7. /\ FinitelyMany(oper', OpClients)
      /\ blk' \in [Blocks -> BlockRec] /\ Listing(file, blk', list)
      /\ Counted(blk', Tally(oper', OpClients, K))
  BY <1>2, <1>3, <1>4, <1>5, HolderStep
<1>8. \A b \in Blocks : Count(oper', OpClients, b) \in Nat
  BY <1>7, FS_CardinalityType, SMTT(60) DEF FinitelyMany, Count
<1>9. \A b \in Blocks : /\ Count(dcc, Conns, b) \in Nat /\ Count(stored, DOMAIN stored, b) \in Nat
                        /\ HeldBy(DOMAIN stored, b)'
                             = Count(oper', OpClients, b) + Count(dcc, Conns, b) + Count(stored, DOMAIN stored, b)
  BY <1>1, CountsAreNumbers, Zenon DEF HeldBy, Count, Holding
<1>10. \A b \in Blocks : HeldBy(DOMAIN stored, b)' = Tally(oper', OpClients, K)[b]
  BY <1>6, <1>8, <1>9 DEF Tally
<1>11. Counted(blk', [b \in Blocks |-> HeldBy(DOMAIN stored, b)'])
  BY <1>7, <1>10 DEF Counted
<1> QED
  BY <1>1, <1>4, <1>5, <1>7, <1>11 DEF OperInv, Takes, FinitelyMany, Holding

\* A dcc connection that takes a block or gives it back keeps the invariant.
LEMMA ConnHolds ==
  ASSUME OperInv, NEW d \in Conns, DccRelease(d) \/ \E b \in Blocks : DccConnect(d, b)
  PROVE  OperInv'
<1> DEFINE L == [b \in Blocks |-> Count(oper, OpClients, b) + Count(stored, DOMAIN stored, b)]
<1>1. UNCHANGED <<file, list, oper, stored>>
  BY DEF DccConnect, DccRelease
<1>2. PICK y \in Blocks \cup {NoBlock} :
        /\ dcc' = [dcc EXCEPT ![d] = y]
        /\ \/ dcc[d] = NoBlock /\ y \in Blocks /\ Found(y) /\ blk' = Hold(blk, y)
           \/ dcc[d] # NoBlock /\ y = NoBlock /\ blk' = deallocate_conf_oper(blk, dcc[d])
  BY DEF DccConnect, DccRelease
<1>3. L \in [Blocks -> Nat] /\ Counted(blk, Tally(dcc, Conns, L))
  BY Tallies, Zenon
<1>4. dcc \in [Conns -> Blocks \cup {NoBlock}] /\ FinitelyMany(dcc, Conns)
  BY DEF OperInv
<1>5. Takes(dcc, dcc', Conns, d, y)
  BY <1>2, <1>4 DEF Takes
<1>6. L = [b \in Blocks |-> Count(oper, OpClients, b) + Count(stored, DOMAIN stored, b)]
  OBVIOUS
<1> HIDE DEF L
<1>7. /\ FinitelyMany(dcc', Conns)
      /\ blk' \in [Blocks -> BlockRec] /\ Listing(file, blk', list)
      /\ Counted(blk', Tally(dcc', Conns, L))
  BY <1>2, <1>3, <1>4, <1>5, HolderStep
<1>8. \A b \in Blocks : Count(dcc', Conns, b) \in Nat
  BY <1>7, FS_CardinalityType DEF FinitelyMany, Count
<1>9. \A b \in Blocks : /\ Count(oper, OpClients, b) \in Nat /\ Count(stored, DOMAIN stored, b) \in Nat
                        /\ HeldBy(DOMAIN stored, b)'
                             = Count(oper, OpClients, b) + Count(dcc', Conns, b) + Count(stored, DOMAIN stored, b)
  BY <1>1, CountsAreNumbers, Zenon DEF HeldBy, Count, Holding
<1>10. \A b \in Blocks : HeldBy(DOMAIN stored, b)' = Tally(dcc', Conns, L)[b]
  BY <1>6, <1>8, <1>9 DEF Tally
<1>11. Counted(blk', [b \in Blocks |-> HeldBy(DOMAIN stored, b)'])
  BY <1>7, <1>10 DEF Counted
<1> QED
  BY <1>1, <1>4, <1>5, <1>7, <1>11 DEF OperInv, Takes, FinitelyMany, Holding

\* One entry fewer: what the entries I count, without the entry at j.
LEMMA EntryGone ==
  ASSUME OperInv, NEW I \in SUBSET DOMAIN stored, NEW j \in I, NEW b \in Blocks
  PROVE  /\ HeldBy(I, b) \in Nat /\ HeldBy(I \ {j}, b) \in Nat
         /\ HeldBy(I \ {j}, b) = IF stored[j] = b THEN HeldBy(I, b) - 1 ELSE HeldBy(I, b)
         /\ stored[j] = b => HeldBy(I, b) > 0
<1> DEFINE F == Holding(stored, I, b)
           G == Holding(stored, I \ {j}, b)
           N == Count(oper, OpClients, b) + Count(dcc, Conns, b)
<1>1. IsFiniteSet(F) /\ Cardinality(F) \in Nat /\ N \in Nat
  BY CountsAreNumbers DEF Count
<1>2. HeldBy(I, b) = N + Cardinality(F) /\ HeldBy(I \ {j}, b) = N + Cardinality(G)
  BY DEF HeldBy, Count
<1>3. CASE stored[j] = b
  <2>1. G = F \ {j} /\ j \in F
    BY <1>3 DEF Holding
  <2> HIDE DEF F, G
  <2>2. Cardinality(G) = Cardinality(F) - 1
    BY <1>1, <2>1, FS_RemoveElement, ZenonT(60)
  <2>3. Cardinality(F) # 0
    BY <1>1, <2>1, FS_EmptySet
  <2> HIDE DEF N
  <2> QED
    BY <1>1, <1>2, <1>3, <2>2, <2>3
<1>4. CASE stored[j] # b
  <2>1. G = F
    BY <1>4 DEF Holding
  <2> HIDE DEF F, G, N
  <2> QED
    BY <1>1, <1>2, <1>4, <2>1
<1> QED
  BY <1>3, <1>4
\* Freeing the entries after the k-th one by one: every block they held counts the rest.
LEMMA ReleaseLast ==
  ASSUME OperInv, NEW k \in Nat, k <= Len(stored), NEW gone, Len(gone) = Len(stored) - k,
         \A i \in 1 .. Len(gone) : gone[i] = stored[k + i]
  PROVE  /\ Released(gone) \in [Blocks -> BlockRec] /\ Listing(file, Released(gone), list)
         /\ Counted(Released(gone), [b \in Blocks |-> HeldBy(1 .. k, b)])
<1> DEFINE n == Len(gone)
           Rest(i) == (1 .. k) \cup (k + i + 1 .. Len(stored))
           N(i) == [b \in Blocks |-> HeldBy(Rest(i), b)]
<1>0. Len(stored) \in Nat /\ DOMAIN stored = 1 .. Len(stored) /\ n \in Nat /\ n = Len(stored) - k
  BY SMTT(60) DEF OperInv
<1>1. PICK g : Stages(g, gone, n) /\ Released(gone) = g[n]
  BY <1>0, ReleasedStages
<1> DEFINE Good(i) == /\ g[i] \in [Blocks -> BlockRec] /\ Listing(file, g[i], list)
                      /\ Counted(g[i], N(i))
           S == {i \in 0 .. n : Good(i)}
<1>2. \A i \in 1 .. n : g[i] = deallocate_conf_oper(g[i - 1], stored[k + i]) /\ stored[k + i] \in Blocks
  <2> HIDE DEF Good
  <2>1. \A i \in 1 .. n : g[i] = deallocate_conf_oper(g[i - 1], gone[i])
    BY <1>0, <1>1, SMTT(60) DEF Stages
  <2>2. \A i \in 1 .. n : gone[i] = stored[k + i] /\ k + i \in 1 .. Len(stored)
    BY <1>0
  <2>3. \A j \in 1 .. Len(stored) : stored[j] \in Blocks
    BY SMTT(60) DEF OperInv
  <2> QED
    BY <2>1, <2>2, <2>3
<1>3. Good(0)
  <2>1. g[0] = blk
    BY <1>0, <1>1 DEF Stages
  <2>2. Rest(0) = DOMAIN stored
    BY <1>0
  <2> QED
    BY <2>1, <2>2, Zenon DEF OperInv
<1>4. ASSUME NEW i \in 1 .. n, Good(i - 1) PROVE Good(i)
  <2>1. /\ Rest(i - 1) \in SUBSET DOMAIN stored /\ k + i \in Rest(i - 1)
        /\ Rest(i) = Rest(i - 1) \ {k + i}
    <3> HIDE DEF Good
    <3>1. i \in Nat /\ i >= 1 /\ k + i <= Len(stored)
      BY <1>0
    <3>2. Rest(i - 1) = (1 .. k) \cup (k + i .. Len(stored)) /\ Rest(i) = (1 .. k) \cup (k + i + 1 .. Len(stored))
      BY <3>1
    <3> HIDE DEF Rest
    <3> QED
      BY <1>0, <3>1, <3>2
  <2> DEFINE I == Rest(i - 1)
             J == Rest(i)
             x == stored[k + i]
             t == g[i - 1]
             M == N(i - 1)
  <2>2. t \in [Blocks -> BlockRec] /\ Listing(file, t, list) /\ Counted(t, M)
    BY <1>4, SMTT(60)
  <2> HIDE DEF Good
  <2>3. M = [b \in Blocks |-> HeldBy(I, b)] /\ N(i) = [b \in Blocks |-> HeldBy(J, b)]
    OBVIOUS
  <2> HIDE DEF Rest, I, J, N, M, x, t
  <2>4. I \in SUBSET DOMAIN stored /\ k + i \in I /\ J = I \ {k + i}
    BY <2>1, SMTT(60) DEF I, J
  <2>5. \A b \in Blocks : /\ HeldBy(I, b) \in Nat /\ HeldBy(J, b) \in Nat
                          /\ HeldBy(J, b) = IF x = b THEN HeldBy(I, b) - 1 ELSE HeldBy(I, b)
                          /\ x = b => HeldBy(I, b) > 0
    BY <2>4, EntryGone, ZenonT(60) DEF x
  <2>6. x \in Blocks /\ g[i] = deallocate_conf_oper(t, x)
    BY <1>2 DEF x, t
  <2>7. M \in [Blocks -> Nat] /\ M[x] > 0 /\ N(i) = [M EXCEPT ![x] = @ - 1]
    BY <2>3, <2>5, <2>6
  <2>8. /\ deallocate_conf_oper(t, x) \in [Blocks -> BlockRec]
        /\ Counted(deallocate_conf_oper(t, x), [M EXCEPT ![x] = @ - 1])
        /\ Listing(file, deallocate_conf_oper(t, x), list)
    BY <2>2, <2>6, <2>7, LetGo, Zenon
  <2> QED
    BY <2>6, <2>7, <2>8, Zenon DEF Good
<1>5. Good(n)
  <2> HIDE DEF Good
  <2>1. 0 \in S /\ \A i \in 1 .. n : i - 1 \in S => i \in S
    BY <1>0, <1>3, <1>4, SMTT(90)
  <2> HIDE DEF S
  <2>2. \A i \in 0 .. n : i \in S
    BY <1>0, <2>1, UpTo, Zenon
  <2>3. n \in S
    BY <1>0, <2>2
  <2> QED
    BY <2>3, SMTT(60) DEF S
<1>6. Rest(n) = 1 .. k
  BY <1>0, SMTT(60)
<1> QED
  BY <1>1, <1>5, <1>6, Zenon

\* The entries of a netsplit expire, or are cleared when the server's burst ends.
LEMMA EntriesLeave ==
  ASSUME OperInv, NEW k \in Nat, expire_client_oper(k) \/ (k = 0 /\ clear_client_oper_sid)
  PROVE  OperInv'
<1>0. Len(stored) \in Nat /\ DOMAIN stored = 1 .. Len(stored) /\ stored \in Seq(Blocks)
  BY DEF OperInv
<1>1. UNCHANGED <<file, list, oper, dcc>>
  BY SMTT(60) DEF expire_client_oper, clear_client_oper_sid
<1>2. PICK gone :
        /\ k <= Len(stored) /\ Len(gone) = Len(stored) - k
        /\ \A i \in 1 .. Len(gone) : gone[i] = stored[k + i]
        /\ blk' = Released(gone)
        /\ stored' \in Seq(Blocks) /\ DOMAIN stored' = 1 .. k /\ \A i \in 1 .. k : stored'[i] = stored[i]
  <2>1. CASE expire_client_oper(k)
    <3> DEFINE gone == SubSeq(stored, k + 1, Len(stored))
    <3>0. k < Len(stored) /\ stored' = SubSeq(stored, 1, k)
      BY <2>1 DEF expire_client_oper
    <3>1. Len(gone) = Len(stored) - k /\ \A i \in 1 .. Len(gone) : gone[i] = stored[k + i]
      BY <1>0, <3>0, SMTT(60)
    <3>2. /\ stored' \in Seq(Blocks) /\ DOMAIN stored' = 1 .. k
          /\ \A i \in 1 .. k : stored'[i] = stored[i]
      BY <1>0, <3>0
    <3>3. blk' = Released(gone) /\ k <= Len(stored)
      BY <1>0, <2>1 DEF expire_client_oper
    <3> QED
      BY <3>1, <3>2, <3>3, Zenon
  <2>2. CASE k = 0 /\ clear_client_oper_sid
    <3>1. /\ stored' \in Seq(Blocks) /\ DOMAIN stored' = 1 .. k
          /\ \A i \in 1 .. k : stored'[i] = stored[i]
      BY <2>2, SMTT(60) DEF clear_client_oper_sid
    <3> QED
      BY <1>0, <2>2, <3>1 DEF clear_client_oper_sid
  <2> QED
    BY <2>1, <2>2, SMTT(60)
<1>3. /\ blk' \in [Blocks -> BlockRec] /\ Listing(file, blk', list)
      /\ Counted(blk', [b \in Blocks |-> HeldBy(1 .. k, b)])
  BY <1>2, ReleaseLast, Zenon
<1>4. \A b \in Blocks : Holding(stored', DOMAIN stored', b) = Holding(stored, 1 .. k, b)
  BY <1>2 DEF Holding
<1>5. \A b \in Blocks : HeldBy(DOMAIN stored, b)' = HeldBy(1 .. k, b)
  BY <1>1, <1>4, Zenon DEF HeldBy, Count, Holding
<1>6. Counted(blk', [b \in Blocks |-> HeldBy(DOMAIN stored, b)'])
  BY <1>3, <1>5 DEF Counted
<1> QED
  BY <1>1, <1>2, <1>3, <1>6, ZenonT(60) DEF OperInv, FinitelyMany, Holding
\* An entry in front of the others.
IsPush(t, x, s) == t = <<x>> \o s

\* An entry in front adds one to the count of its block only.
LEMMA EntryAdded ==
  ASSUME NEW s \in Seq(Blocks), NEW x \in Blocks, NEW b \in Blocks, NEW t, IsPush(t, x, s)
  PROVE  /\ Count(s, DOMAIN s, b) \in Nat
         /\ Count(t, DOMAIN t, b) = IF x = b THEN Count(s, DOMAIN s, b) + 1 ELSE Count(s, DOMAIN s, b)
<1> DEFINE S == Holding(s, DOMAIN s, b)
           T == Holding(t, DOMAIN t, b)
           U == {i \in DOMAIN t : i # 1 /\ t[i] = b}
           f == [i \in S |-> i + 1]
<1>1. /\ Len(s) \in Nat /\ DOMAIN s = 1 .. Len(s) /\ DOMAIN t = 1 .. Len(s) + 1
      /\ t[1] = x /\ \A i \in 1 .. Len(s) : t[i + 1] = s[i]
  BY DEF IsPush
<1>2. IsFiniteSet(S)
  <2>0. 1 \in Int /\ Len(s) \in Int
    BY <1>1
  <2>1. IsFiniteSet(DOMAIN s)
    BY <1>1, <2>0, FS_Interval, ZenonT(30)
  <2> QED
    BY <2>1, FS_Subset, SMTT(60) DEF Holding
<1>3. f \in Bijection(S, U)
  <2>1. \A i \in S : i + 1 \in U /\ i \in Nat
    BY <1>1 DEF Holding
  <2>2. \A j \in U : j - 1 \in S /\ (j - 1) + 1 = j
    BY <1>1 DEF Holding
  <2> HIDE DEF S, U
  <2>3. f \in [S -> U]
    BY <2>1
  <2>4. \A i, j \in S : f[i] = f[j] => i = j
    BY <2>1
  <2>5. \A j \in U : \E i \in S : f[i] = j
    <3> TAKE j \in U
    <3>1. j - 1 \in S /\ f[j - 1] = j
      BY <2>2
    <3> QED
      BY <3>1
  <2> HIDE DEF f
  <2> QED
    BY <2>3, <2>4, <2>5 DEF Bijection, Injection, Surjection, IsInjective
<1>4. IsFiniteSet(U) /\ Cardinality(U) = Cardinality(S) /\ Cardinality(S) \in Nat
  <2> HIDE DEF f, S, U
  <2>1. ExistsBijection(S, U)
    BY <1>3 DEF ExistsBijection
  <2> QED
    BY <1>2, <2>1, FS_Bijection, FS_CardinalityType
<1>5. CASE x = b
  <2>0. 1 \in DOMAIN t /\ t[1] = b
    BY <1>1, <1>5
  <2>1. T = U \cup {1} /\ 1 \notin U
    BY <2>0 DEF Holding
  <2> HIDE DEF S, T, U
  <2>2. Cardinality(T) = Cardinality(U) + 1
    BY <1>4, <2>1, FS_AddElement, ZenonT(60)
  <2> QED
    BY <1>4, <1>5, <2>2, SMTT(60) DEF Count, S, T
<1>6. CASE x # b
  <2>1. T = U
    BY <1>1, <1>6 DEF Holding
  <2> HIDE DEF S, T, U
  <2> QED
    BY <1>4, <1>6, <2>1 DEF Count, S, T
<1> QED
  BY <1>5, <1>6

\* A netsplit takes an oper: the count is kept for the entry, and the block with it.
LEMMA SplitHolds ==
  ASSUME OperInv, NEW c \in OpClients, SplitOper(c)
  PROVE  OperInv'
<1> DEFINE x == oper[c]
           N == [b \in Blocks |-> HeldBy(DOMAIN stored, b)]
<1>1. /\ UNCHANGED <<file, list, dcc>> /\ stored' = <<x>> \o stored /\ x # NoBlock
      /\ blk' = deallocate_conf_oper(Hold(blk, x), x) /\ oper' = [oper EXCEPT ![c] = NoBlock]
  BY SMTT(60) DEF SplitOper
<1>2. /\ blk \in [Blocks -> BlockRec] /\ Listing(file, blk, list) /\ Counted(blk, N)
      /\ stored \in Seq(Blocks) /\ x \in Blocks /\ NoBlock \notin Blocks
      /\ oper \in [OpClients -> Blocks \cup {NoBlock}] /\ FinitelyMany(oper, OpClients)
  BY <1>1, OperAssumption, Zenon DEF OperInv
<1>3. Takes(oper, oper', OpClients, c, NoBlock)
  BY <1>1, <1>2 DEF Takes
<1>4. ASSUME NEW b \in Blocks
      PROVE  /\ IsFiniteSet(Holding(oper', OpClients, b)) /\ Count(oper, OpClients, b) \in Nat
             /\ x = b => Count(oper, OpClients, b) > 0
             /\ Count(oper', OpClients, b)
                  = IF x = b THEN Count(oper, OpClients, b) - 1 ELSE Count(oper, OpClients, b)
  BY <1>1, <1>2, <1>3, CountChange, SMTT(60)
<1>5. \A b \in Blocks :
        /\ Count(stored, DOMAIN stored, b) \in Nat
        /\ Count(stored', DOMAIN stored', b)
             = IF x = b THEN Count(stored, DOMAIN stored, b) + 1 ELSE Count(stored, DOMAIN stored, b)
  <2> DEFINE s == stored
             t == stored'
  <2>1. s \in Seq(Blocks) /\ x \in Blocks /\ IsPush(t, x, s)
    BY <1>1, <1>2, SMTT(60) DEF IsPush
  <2> HIDE DEF s, t
  <2>2. \A b \in Blocks :
          /\ Count(s, DOMAIN s, b) \in Nat
          /\ Count(t, DOMAIN t, b) = IF x = b THEN Count(s, DOMAIN s, b) + 1 ELSE Count(s, DOMAIN s, b)
    BY <2>1, EntryAdded
  <2> QED
    BY <2>2 DEF s, t
<1>6. \A b \in Blocks : Count(dcc, Conns, b) \in Nat
  BY CountsAreNumbers, SMTT(60)
<1>7. \A b \in Blocks : /\ HeldBy(DOMAIN stored, b) \in Nat
                        /\ HeldBy(DOMAIN stored, b)
                             = Count(oper, OpClients, b) + Count(dcc, Conns, b) + Count(stored, DOMAIN stored, b)
                        /\ HeldBy(DOMAIN stored, b)'
                             = Count(oper', OpClients, b) + Count(dcc, Conns, b) + Count(stored', DOMAIN stored', b)
  <2>1. \A b \in Blocks : Count(dcc, Conns, b)' = Count(dcc, Conns, b)
    BY <1>1, SMTT(60) DEF Count, Holding
  <2>2. \A b \in Blocks : /\ Count(oper, OpClients, b)' = Count(oper', OpClients, b)
                          /\ Count(stored, DOMAIN stored, b)' = Count(stored', DOMAIN stored', b)
    BY ZenonT(60) DEF Count, Holding
  <2> QED
    BY <1>4, <1>5, <1>6, <2>1, <2>2, SMTT(60) DEF HeldBy
<1>8. \A b \in Blocks : HeldBy(DOMAIN stored, b)' = N[b]
  BY <1>4, <1>5, <1>6, <1>7, SMTT(60)
<1>9. N \in [Blocks -> Nat] /\ N[x] > 0
  BY <1>2, <1>4, <1>5, <1>6, <1>7, SMTT(60)
<1>10. FinitelyMany(oper', OpClients)
  BY <1>4, SMTT(60) DEF FinitelyMany
<1> HIDE DEF N, x
<1> DEFINE M == [N EXCEPT ![x] = @ + 1]
           t == Hold(blk, x)
<1>11. t \in [Blocks -> BlockRec] /\ Counted(t, M) /\ Listing(file, t, list)
  <2>1. blk[x].mem = "used"
    BY <1>2, <1>9 DEF Counted
  <2> QED
    BY <1>2, <1>9, <2>1, TakeOne, Zenon
<1>12. M \in [Blocks -> Nat] /\ M[x] > 0 /\ M[x] = N[x] + 1 /\ \A b \in Blocks : b # x => M[b] = N[b]
  BY <1>2, <1>9
<1> HIDE DEF M, t
<1>13. /\ deallocate_conf_oper(t, x) \in [Blocks -> BlockRec]
       /\ Counted(deallocate_conf_oper(t, x), [M EXCEPT ![x] = @ - 1])
       /\ Listing(file, deallocate_conf_oper(t, x), list)
  BY <1>2, <1>11, <1>12, LetGo, Zenon
<1>14. \A b \in Blocks : [M EXCEPT ![x] = @ - 1][b] = N[b]
  BY <1>9, <1>12
<1>15. blk' \in [Blocks -> BlockRec] /\ Listing(file, blk', list) /\ Counted(blk', [M EXCEPT ![x] = @ - 1])
  BY <1>1, <1>13 DEF t
<1>16. Counted(blk', [b \in Blocks |-> HeldBy(DOMAIN stored, b)'])
  BY <1>8, <1>14, <1>15 DEF Counted
<1>17. stored' \in Seq(Blocks)
  BY <1>1, <1>2
<1> QED
  BY <1>1, <1>2, <1>3, <1>10, <1>15, <1>16, <1>17 DEF OperInv, Takes, FinitelyMany, Holding
\* The fields of a block made by a reading of the file, and of a place without one.
LEMMA NewFields ==
  /\ \A k, p : /\ NewBlock(k, p).mem = "used" /\ NewBlock(k, p).key = k /\ NewBlock(k, p).privs = p
               /\ NewBlock(k, p).dead = FALSE /\ NewBlock(k, p).refcount = 0
  /\ \A k \in Keys, p \in Privs \cup {NoPrivs} : NewBlock(k, p) \in BlockRec
  /\ Free \in BlockRec /\ Free.mem = "free" /\ Free.refcount = 0
<1>1. \A k, p : /\ NewBlock(k, p).mem = "used" /\ NewBlock(k, p).key = k /\ NewBlock(k, p).privs = p
                /\ NewBlock(k, p).dead = FALSE /\ NewBlock(k, p).refcount = 0
  BY DEF NewBlock
<1>2. \A k \in Keys, p \in Privs \cup {NoPrivs} : NewBlock(k, p) \in BlockRec
  BY DEF NewBlock, BlockRec
<1>3. Free \in BlockRec /\ Free.mem = "free" /\ Free.refcount = 0
  BY DEF Free, BlockRec
<1> QED
  BY <1>1, <1>2, <1>3, SMTT(60)

\* conf_parse(0): who holds a block does not change, so neither do the counts; the
\* blocks of the file are alive with its flags, and the others are dead or gone.
LEMMA RehashHolds ==
  ASSUME OperInv, NEW f \in [Keys -> Privs \cup {NoPrivs}], NEW ks \in SUBSET In(f),
         NEW at \in Places(ks), Rehash(f, at)
  PROVE  OperInv'
<1> DEFINE keep == UNION {Revived(k) : k \in In(f)}
           drop == {b \in list \ keep : blk[b].refcount = 0}
           made == {at[k] : k \in DOMAIN at}
           rest == list \ (keep \cup drop)
           N == [b \in Blocks |-> HeldBy(DOMAIN stored, b)]
           kept(b) == [blk[b] EXCEPT !.privs = f[blk[b].key], !.dead = FALSE]
           died(b) == [blk[b] EXCEPT !.dead = TRUE]
           new(b) == LET k == CHOOSE x \in DOMAIN at : at[x] = b IN NewBlock(k, f[k])
<1>1. /\ DOMAIN at = {k \in In(f) : Revived(k) = {}}
      /\ \A b \in made : blk[b].mem # "used" /\ b \notin list
      /\ file' = f /\ list' = (list \ drop) \cup made
      /\ UNCHANGED <<oper, dcc, stored>>
      /\ blk' = [b \in Blocks |-> CASE b \in made -> new(b) [] b \in keep -> kept(b) [] b \in drop -> Free
                                   [] b \in rest -> died(b) [] OTHER -> blk[b]]
  BY ZenonT(60) DEF Rehash
<1>2. /\ at \in [DOMAIN at -> Blocks] /\ \A k, l \in DOMAIN at : at[k] = at[l] => k = l
      /\ DOMAIN at \subseteq In(f) /\ In(f) \subseteq Keys
  BY <1>1, ZenonT(60) DEF Places, In
<1>3. /\ blk \in [Blocks -> BlockRec] /\ Listing(file, blk, list) /\ Counted(blk, N)
      /\ list \subseteq Blocks
  BY DEF OperInv, Listing
<1>4. \A b \in list : b \in keep <=> blk[b].mem = "used" /\ blk[b].key \in In(f)
  BY DEF Revived
<1>5. keep \subseteq list
  BY DEF Revived
<1>6. \A b \in Blocks : N[b] \in Nat
  BY CountsAreNumbers
<1>7. ASSUME NEW b \in Blocks
      PROVE  /\ b \in made => blk'[b] = new(b)
             /\ b \in keep => b \notin made /\ b \notin drop /\ blk'[b] = kept(b)
             /\ b \in drop => blk'[b] = Free
             /\ b \in rest => blk'[b] = died(b)
             /\ b \notin made /\ b \notin list => blk'[b] = blk[b]
  <2> HIDE DEF new, kept, died, keep
  <2>1. /\ b \in keep => b \notin made /\ b \notin drop
        /\ b \in drop => b \notin made /\ b \notin keep
        /\ b \in rest => b \notin made /\ b \notin drop /\ b \notin keep
        /\ b \notin list => b \notin keep /\ b \notin drop /\ b \notin rest
    BY <1>1, <1>5, SMTT(60)
  <2> HIDE DEF made, drop, rest
  <2> QED
    BY <1>1, <2>1
<1>8. ASSUME NEW b \in made
      PROVE  \E k \in DOMAIN at : /\ at[k] = b /\ b \in Blocks /\ b \notin list /\ blk[b].mem # "used"
                                  /\ blk'[b] = NewBlock(k, f[k])
  <2>1. \E k \in DOMAIN at : at[k] = b
    OBVIOUS
  <2>2. b \in Blocks /\ b \notin list /\ blk[b].mem # "used"
    <3>1. b \in Blocks
      BY <1>2, <2>1, SMTT(60)
    <3>2. b \notin list /\ blk[b].mem # "used"
      BY <1>1, Zenon
    <3> QED
      BY <3>1, <3>2
  <2> DEFINE k == CHOOSE x \in DOMAIN at : at[x] = b
  <2>3. k \in DOMAIN at /\ at[k] = b
    BY <2>1, SMTT(60)
  <2>4. blk'[b] = new(b)
    BY <1>7, <2>2, ZenonT(60)
  <2>5. new(b) = NewBlock(k, f[k])
    OBVIOUS
  <2> HIDE DEF k, new
  <2> QED
    BY <2>2, <2>3, <2>4, <2>5, SMTT(60)
<1>9. ASSUME NEW b \in keep
      PROVE  /\ b \in list' /\ b \in Blocks /\ b \notin drop /\ b \notin made /\ blk'[b] \in BlockRec
             /\ blk'[b].mem = "used" /\ blk'[b].mem = blk[b].mem /\ blk'[b].key = blk[b].key
             /\ blk'[b].key \in In(f)
             /\ blk'[b].privs = f[blk'[b].key] /\ blk'[b].dead = FALSE /\ blk'[b].refcount = blk[b].refcount
  <2>1. b \in list /\ b \in Blocks /\ blk[b].mem = "used" /\ blk[b].key \in In(f)
    BY <1>3, <1>4, <1>5, SMTT(60)
  <2>2. blk[b] \in BlockRec /\ f[blk[b].key] \in Privs \cup {NoPrivs}
    BY <1>2, <1>3, <2>1, SMTT(60)
  <2>3. blk'[b] = kept(b) /\ b \notin made /\ b \notin drop
    BY <1>7, <2>1, Zenon
  <2> HIDE DEF keep
  <2>4. /\ kept(b) \in BlockRec /\ kept(b).mem = blk[b].mem /\ kept(b).key = blk[b].key
        /\ kept(b).privs = f[blk[b].key] /\ kept(b).dead = FALSE /\ kept(b).refcount = blk[b].refcount
    BY <2>2, ZenonT(60) DEF BlockRec
  <2> HIDE DEF kept, drop, made
  <2> QED
    BY <1>1, <2>1, <2>3, <2>4, SMTT(60)
<1>10. ASSUME NEW b \in rest
       PROVE  /\ b \in list' /\ b \in Blocks /\ b \in list /\ b \notin keep /\ blk'[b] \in BlockRec
              /\ blk'[b].mem = blk[b].mem /\ blk'[b].key = blk[b].key /\ blk'[b].dead = TRUE
              /\ blk'[b].refcount = blk[b].refcount
  <2>1. b \in list /\ b \in Blocks /\ b \notin drop /\ b \notin keep
    BY <1>3, SMTT(60)
  <2>2. blk[b] \in BlockRec /\ blk'[b] = died(b)
    BY <1>3, <1>7, <2>1, Zenon
  <2> HIDE DEF keep
  <2>4. /\ died(b) \in BlockRec /\ died(b).mem = blk[b].mem /\ died(b).key = blk[b].key
        /\ died(b).dead = TRUE /\ died(b).refcount = blk[b].refcount
    BY <2>2, ZenonT(60) DEF BlockRec
  <2> HIDE DEF died, drop, made
  <2> QED
    BY <1>1, <2>1, <2>2, <2>4, Zenon
<1>11. ASSUME NEW b \in drop
       PROVE  b \in Blocks /\ b \notin list' /\ blk'[b] = Free /\ blk[b].refcount = 0
  <2>1. b \in Blocks /\ b \in list /\ b \notin made
    BY <1>1, <1>3, ZenonT(60)
  <2>2. blk'[b] = Free
    BY <1>7, <2>1, ZenonT(60)
  <2> QED
    BY <1>1, <2>1, <2>2, Zenon
<1>12. \A b \in Blocks : b \in made \/ b \in keep \/ b \in drop \/ b \in rest
                         \/ (b \notin list /\ b \notin list' /\ blk'[b] = blk[b] /\ blk[b].mem # "used")
  <2> HIDE DEF keep
  <2>1. \A b \in Blocks : b \notin list => blk[b].mem # "used"
    BY <1>3, SMTT(60) DEF Listing
  <2> QED
    BY <1>1, <1>7, <2>1, ZenonT(60)
<1>13. \A b \in list' : b \in made \/ b \in keep \/ b \in rest
  BY <1>1, Zenon
<1> HIDE DEF keep, drop, made, rest, kept, died, new
<1>14. blk' \in [Blocks -> BlockRec]
  <2>1. DOMAIN blk' = Blocks /\ blk' = [b \in Blocks |-> blk'[b]]
    BY <1>1, SMTT(60)
  <2>2. ASSUME NEW b \in Blocks PROVE blk'[b] \in BlockRec
    <3>1. CASE b \in made
      <4>1. PICK k \in DOMAIN at : blk'[b] = NewBlock(k, f[k])
        BY <1>8, <3>1
      <4>2. k \in Keys /\ f[k] \in Privs \cup {NoPrivs}
        BY <1>2, SMTT(60)
      <4> QED
        BY <4>1, <4>2, NewFields, ZenonT(60)
    <3>2. CASE b \in drop
      BY <1>11, <3>2, NewFields, SMTT(60)
    <3> QED
      BY <1>3, <1>9, <1>10, <1>12, <3>1, <3>2, ZenonT(60)
  <2> QED
    BY <2>1, <2>2
<1>15. Counted(blk', N)
  <2>1. ASSUME NEW b \in Blocks PROVE blk'[b].refcount = N[b] /\ (N[b] > 0 => blk'[b].mem = "used")
    <3>0. blk[b].refcount = N[b] /\ (N[b] > 0 => blk[b].mem = "used") /\ N[b] \in Nat
      BY <1>3, <1>6, SMTT(60) DEF Counted
    <3> HIDE DEF N
    <3>1. CASE b \in made
      <4>1. PICK k \in DOMAIN at : blk'[b] = NewBlock(k, f[k]) /\ blk[b].mem # "used"
        BY <1>8, <3>1, SMTT(60)
      <4>2. blk'[b].refcount = 0
        BY <4>1, NewFields, SMTT(60)
      <4> QED
        BY <3>0, <4>1, <4>2, SMTT(60)
    <3>2. CASE b \in drop
      <4>1. blk'[b].refcount = 0 /\ blk[b].refcount = 0
        BY <1>11, <3>2, NewFields, SMTT(60)
      <4> QED
        BY <3>0, <4>1, SMTT(60)
    <3> QED
      BY <1>9, <1>10, <1>12, <3>0, <3>1, <3>2, ZenonT(60)
  <2> HIDE DEF N
  <2> QED
    BY <2>1, ZenonT(60) DEF Counted
<1>16. \A b \in made : \E k \in DOMAIN at :
         /\ at[k] = b /\ b \notin list /\ b \in Blocks
         /\ blk'[b].mem = "used" /\ blk'[b].key = k /\ blk'[b].privs = f[k] /\ blk'[b].dead = FALSE
  <2> TAKE b \in made
  <2>1. PICK k \in DOMAIN at : at[k] = b /\ b \in Blocks /\ b \notin list /\ blk'[b] = NewBlock(k, f[k])
    BY <1>8
  <2>2. blk'[b].mem = "used" /\ blk'[b].key = k /\ blk'[b].privs = f[k] /\ blk'[b].dead = FALSE
    BY <2>1, NewFields
  <2> QED
    BY <2>1, <2>2, ZenonT(60)
<1>17. Listing(f, blk', list')
  <2>1. list' \subseteq Blocks
    BY <1>9, <1>10, <1>13, <1>16, ZenonT(60)
  <2>2. \A b \in Blocks : blk'[b].mem = "used" => b \in list'
    <3>1. made \subseteq list'
      BY <1>1
    <3> QED
      BY <1>9, <1>10, <1>11, <1>12, <3>1, NewFields, ZenonT(60)
  <2>3. \A b \in list' : ~ blk'[b].dead =>
          blk'[b].mem = "used" /\ blk'[b].key \in In(f) /\ blk'[b].privs = f[blk'[b].key]
    <3>1. \A b \in made : blk'[b].mem = "used" /\ blk'[b].key \in In(f) /\ blk'[b].privs = f[blk'[b].key]
      BY <1>2, <1>16, SMTT(60)
    <3> QED
      BY <1>9, <1>10, <1>13, <3>1, ZenonT(60)
  <2>4. \A b \in list' : blk'[b].mem = "used" /\ blk'[b].dead => blk'[b].key \notin In(f)
    <3>1. \A b \in rest : blk'[b].mem = "used" => blk'[b].key \notin In(f)
      BY <1>4, <1>10, Zenon
    <3> QED
      BY <1>9, <1>13, <1>16, <3>1, ZenonT(60)
  <2>5. \A k \in In(f) : \E b \in list' : ~ blk'[b].dead /\ blk'[b].key = k
    <3> TAKE k \in In(f)
    <3>1. CASE Revived(k) # {}
      <4>1. PICK b \in list : blk[b].mem = "used" /\ blk[b].key = k
        BY <3>1 DEF Revived
      <4>2. b \in keep
        BY <1>4, <4>1
      <4> QED
        BY <1>9, <4>1, <4>2, ZenonT(60)
    <3>2. CASE Revived(k) = {}
      <4>1. k \in DOMAIN at
        BY <1>1, <3>2
      <4>2. at[k] \in made /\ at[k] \in list'
        BY <1>1, <4>1, SMTT(60) DEF made
      <4>3. blk'[at[k]].key = k /\ blk'[at[k]].dead = FALSE
        BY <1>2, <1>16, <4>1, <4>2, SMTT(60)
      <4> QED
        BY <4>2, <4>3
    <3> QED
      BY <3>1, <3>2
  <2>6. ASSUME NEW a \in list', NEW b \in list', blk'[a].mem = "used", blk'[b].mem = "used",
               blk'[a].key = blk'[b].key
        PROVE  a = b
    <3>1. \A z \in list' : z \notin made => z \in list /\ blk'[z].mem = blk[z].mem /\ blk'[z].key = blk[z].key
      BY <1>5, <1>9, <1>10, <1>13, Zenon
    <3>2. \A z \in made, y \in list : blk[y].mem = "used" => blk[y].key # blk'[z].key
      <4>1. \A k \in DOMAIN at, y \in list : blk[y].mem = "used" => blk[y].key # k
        BY <1>1 DEF Revived
      <4> QED
        BY <1>16, <4>1, ZenonT(60)
    <3>3. CASE a \in made /\ b \in made
      <4>1. at[blk'[a].key] = a /\ at[blk'[b].key] = b
        BY <1>16, <3>3, SMTT(60)
      <4> QED
        BY <2>6, <4>1, SMTT(60)
    <3>4. CASE a \notin made /\ b \notin made
      <4>1. /\ a \in list /\ b \in list /\ blk[a].mem = "used" /\ blk[b].mem = "used"
            /\ blk[a].key = blk[b].key
        BY <2>6, <3>1, <3>4, ZenonT(60)
      <4> QED
        BY <1>3, <4>1, SMTT(60) DEF Listing
    <3> QED
      BY <2>6, <3>1, <3>2, <3>3, <3>4, SMTT(60)
  <2> QED
    BY <2>1, <2>2, <2>3, <2>4, <2>5, <2>6, ZenonT(60) DEF Listing
<1>18. Counted(blk', [b \in Blocks |-> HeldBy(DOMAIN stored, b)'])
  <2>1. \A b \in Blocks : HeldBy(DOMAIN stored, b)' = N[b]
    BY <1>1, SMTT(60) DEF HeldBy, Count, Holding
  <2> QED
    BY <1>15, <2>1 DEF Counted
<1> QED
  BY <1>1, <1>14, <1>17, <1>18, SMTT(60) DEF OperInv, FinitelyMany, Holding
\* conf_parse(1): nobody holds a block, and the list is the file's.
LEMMA LoadedListing ==
  ASSUME NEW f \in [Keys -> Privs \cup {NoPrivs}], NEW at \in Places(In(f)),
         NEW l, l = {at[k] : k \in In(f)}
  PROVE  /\ Loaded(f, at) \in [Blocks -> BlockRec] /\ Listing(f, Loaded(f, at), l)
         /\ \A b \in Blocks : Loaded(f, at)[b].refcount = 0
<1> DEFINE bs == Loaded(f, at)
<1>1. at \in [In(f) -> Blocks] /\ (\A k, m \in In(f) : at[k] = at[m] => k = m) /\ In(f) \subseteq Keys
  BY SMTT(60) DEF Places, In
<1>2. DOMAIN bs = Blocks /\ bs = [b \in Blocks |-> bs[b]]
  BY SMTT(60) DEF Loaded
<1>3. ASSUME NEW b \in Blocks, b \in l PROVE \E k \in In(f) : at[k] = b /\ bs[b] = NewBlock(k, f[k])
  <2>1. \E k \in In(f) : at[k] = b
    BY <1>3, SMTT(60)
  <2> DEFINE k == CHOOSE x \in In(f) : at[x] = b
  <2>2. k \in In(f) /\ at[k] = b
    BY <2>1, SMTT(60)
  <2>3. bs[b] = NewBlock(k, f[k])
    BY <2>1, SMTT(60) DEF Loaded
  <2> HIDE DEF k
  <2> QED
    BY <2>2, <2>3, SMTT(60)
<1>4. \A b \in Blocks : b \notin l => bs[b] = Free
  BY DEF Loaded
<1>5. l \subseteq Blocks
  BY <1>1
<1>6. \A k \in In(f) : at[k] \in l
  BY SMTT(60)
<1> HIDE DEF bs
<1>7. \A b \in l : \E k \in In(f) : /\ at[k] = b /\ bs[b] = NewBlock(k, f[k]) /\ bs[b].mem = "used"
                                    /\ bs[b].key = k /\ bs[b].privs = f[k] /\ bs[b].dead = FALSE
                                    /\ bs[b].refcount = 0
  BY <1>3, <1>5, NewFields
<1>8. bs \in [Blocks -> BlockRec]
  <2>1. ASSUME NEW b \in Blocks PROVE bs[b] \in BlockRec
    <3>1. CASE b \in l
      <4>1. PICK k \in In(f) : bs[b] = NewBlock(k, f[k])
        BY <1>3, <3>1
      <4>2. k \in Keys /\ f[k] \in Privs \cup {NoPrivs}
        BY <1>1, SMTT(60)
      <4> QED
        BY <4>1, <4>2, NewFields, SMTT(60)
    <3> QED
      BY <1>4, <3>1, NewFields, SMTT(60)
  <2> QED
    BY <1>2, <2>1, SMTT(60)
<1>9. \A b \in Blocks : bs[b].refcount = 0
  BY <1>4, <1>7, NewFields, SMTT(60)
<1>10. \A b \in Blocks : bs[b].mem = "used" => b \in l
  BY <1>4, NewFields
<1>11. \A k \in In(f) : at[k] \in l /\ bs[at[k]].key = k /\ bs[at[k]].dead = FALSE
  BY <1>1, <1>6, <1>7, SMTT(60)
<1>12. \A a, b \in l : bs[a].key = bs[b].key => a = b
  BY <1>7, SMTT(60)
<1>13. Listing(f, bs, l)
  <2>1. \A b \in l : /\ bs[b].mem = "used" /\ bs[b].dead = FALSE
                     /\ bs[b].key \in In(f) /\ bs[b].privs = f[bs[b].key]
    BY <1>7, SMTT(60)
  <2> QED
    BY <1>5, <1>10, <1>11, <1>12, <2>1, ZenonT(60) DEF Listing
<1> QED
  BY <1>8, <1>9, <1>13, ZenonT(60) DEF bs

\* When nobody is connected no block is held.
LEMMA NobodyHolds ==
  /\ \A b \in Blocks : /\ Holding(Nobody, OpClients, b) = {} /\ Holding(NoConns, Conns, b) = {}
                       /\ Holding(<< >>, DOMAIN << >>, b) = {}
                       /\ Count(Nobody, OpClients, b) = 0 /\ Count(NoConns, Conns, b) = 0
                       /\ Count(<< >>, DOMAIN << >>, b) = 0
  /\ Nobody \in [OpClients -> Blocks \cup {NoBlock}] /\ FinitelyMany(Nobody, OpClients)
  /\ NoConns \in [Conns -> Blocks \cup {NoBlock}] /\ FinitelyMany(NoConns, Conns)
  /\ << >> \in Seq(Blocks)
<1>1. \A b \in Blocks : /\ Holding(Nobody, OpClients, b) = {} /\ Holding(NoConns, Conns, b) = {}
                        /\ Holding(<< >>, DOMAIN << >>, b) = {}
  BY OperAssumption DEF Holding, Nobody, NoConns
<1>2. Nobody \in [OpClients -> Blocks \cup {NoBlock}] /\ NoConns \in [Conns -> Blocks \cup {NoBlock}]
  BY DEF Nobody, NoConns
<1>3. IsFiniteSet({}) /\ Cardinality({}) = 0
  BY FS_EmptySet
<1>4. FinitelyMany(Nobody, OpClients) /\ FinitelyMany(NoConns, Conns)
  BY <1>1, <1>3, ZenonT(60) DEF FinitelyMany
<1>5. << >> \in Seq(Blocks)
  OBVIOUS
<1> QED
  BY <1>1, <1>2, <1>3, <1>4, <1>5, Zenon DEF Count

\* The invariant holds when the configuration has been read for the first
\* time.
LEMMA OpersStart == OperInit => OperInv
<1> SUFFICES ASSUME OperInit PROVE OperInv
  OBVIOUS
<1>1. file \in [Keys -> Privs \cup {NoPrivs}] /\ oper = Nobody /\ dcc = NoConns /\ stored = << >>
  BY ZenonT(60) DEF OperInit
<1>2. PICK at \in Places(In(file)) : list = {at[k] : k \in In(file)} /\ blk = Loaded(file, at)
  BY ZenonT(60) DEF OperInit
<1>3. blk \in [Blocks -> BlockRec] /\ Listing(file, blk, list) /\ \A b \in Blocks : blk[b].refcount = 0
  BY <1>1, <1>2, LoadedListing, ZenonT(60)
<1>4. \A b \in Blocks : HeldBy(DOMAIN stored, b) = 0
  BY <1>1, NobodyHolds DEF HeldBy
<1>5. Counted(blk, [b \in Blocks |-> HeldBy(DOMAIN stored, b)])
  BY <1>3, <1>4, SMTT(60) DEF Counted
<1> QED
  BY <1>1, <1>3, <1>5, NobodyHolds DEF OperInv

\* The invariant holds again after a restart, with whatever file is read
\* then.
LEMMA OpersRestart ==
  ASSUME NEW f \in [Keys -> Privs \cup {NoPrivs}], NEW ks \in SUBSET In(f),
         NEW at \in Places(ks), RestartOpers(f, at)
  PROVE  OperInv'
<1>1. file' = f /\ oper' = Nobody /\ dcc' = NoConns /\ stored' = << >> /\ blk' = Loaded(f, at)
  BY Zenon DEF RestartOpers
<1>2. at \in Places(In(f)) /\ list' = {at[k] : k \in In(f)}
  BY SMTT(60) DEF RestartOpers, Places
<1>3. blk' \in [Blocks -> BlockRec] /\ Listing(f, blk', list') /\ \A b \in Blocks : blk'[b].refcount = 0
  BY <1>1, <1>2, LoadedListing, ZenonT(60)
<1>4. \A b \in Blocks : HeldBy(DOMAIN stored, b)' = 0
  <2>1. \A b \in Blocks : HeldBy(DOMAIN stored, b)' =
          Count(oper', OpClients, b) + Count(dcc', Conns, b) + Count(stored', DOMAIN stored', b)
    BY DEF HeldBy, Count, Holding
  <2> QED
    BY <1>1, <2>1, NobodyHolds, SMTT(60)
<1>5. Counted(blk', [b \in Blocks |-> HeldBy(DOMAIN stored, b)'])
  BY <1>3, <1>4, SMTT(60) DEF Counted
<1> QED
  BY <1>1, <1>3, <1>5, NobodyHolds, SMTT(60) DEF OperInv, FinitelyMany, Holding

\* Every step of logins, logouts, splits, connections, rehashes and restarts
\* keeps the invariant.
LEMMA OpersStep ==
  ASSUME OperInv, [OperNext]_operVars
  PROVE  OperInv'
<1>1. ASSUME NEW c \in OpClients, OLogout(c) \/ SplitOper(c) \/ \E b \in Blocks : OLogin(c, b)
      PROVE  OperInv'
  BY <1>1, ClientHolds, SplitHolds
<1>2. ASSUME NEW d \in Conns, DccRelease(d) \/ \E b \in Blocks : DccConnect(d, b) PROVE OperInv'
  BY <1>2, ConnHolds
<1>3. ASSUME NEW k \in 0 .. MaxStored, expire_client_oper(k) PROVE OperInv'
  <2>1. k \in Nat
    OBVIOUS
  <2> QED
    BY <1>3, <2>1, EntriesLeave
<1>4. ASSUME clear_client_oper_sid PROVE OperInv'
  BY <1>4, EntriesLeave, SMTT(60)
<1>5. ASSUME NEW f \in [Keys -> Privs \cup {NoPrivs}], NEW ks \in SUBSET In(f), NEW at \in Places(ks),
             Rehash(f, at) \/ RestartOpers(f, at)
      PROVE  OperInv'
  BY <1>5, RehashHolds, OpersRestart, SMTT(60)
<1>6. CASE UNCHANGED operVars
  BY <1>6 DEF OperInv, operVars, HeldBy, Count, FinitelyMany, Holding
<1> QED
  BY <1>1, <1>2, <1>3, <1>4, <1>5, <1>6 DEF OperNext

\* The invariant holds in every behaviour of the oper blocks.
LEMMA OpersInvariant == OperSpec => []OperInv
<1>1. OperInv /\ [OperNext]_operVars => OperInv'
  BY OpersStep
<1> QED
  BY <1>1, OpersStart, PTL DEF OperSpec

\* The count of a block is the number of clients logged in with it, of dcc connections
\* that wait for their password with it and of entries of client_oper_list for it, and
\* the block is not freed while there is one: after any sequence of logins, logouts,
\* netsplits, expiries and rehashes, for any number of blocks, clients and entries.
THEOREM BlocksCounted == OperSpec => []RefCounts
<1>1. OperInv => RefCounts
  BY Zenon DEF OperInv, Counted, HeldBy, Count, Holding, RefCounts
<1> QED
  BY <1>1, OpersInvariant, PTL

\* After any sequence of rehashes each key of the file has exactly one block to log in
\* with, and a client that logged in with the key earlier has the file's flags now.
THEOREM FlagsCurrent == OperSpec => []PrivsCurrent
<1>1. ASSUME OperInv PROVE PrivsCurrent
  <2>1. Listing(file, blk, list) /\ Counted(blk, [b \in Blocks |-> HeldBy(DOMAIN stored, b)])
    BY <1>1 DEF OperInv
  <2>2. ASSUME NEW k \in In(file) PROVE Cardinality({b \in list : ~ blk[b].dead /\ blk[b].key = k}) = 1
    <3>1. PICK b \in list : ~ blk[b].dead /\ blk[b].key = k
      BY <2>1, ZenonT(60) DEF Listing
    <3>2. {a \in list : ~ blk[a].dead /\ blk[a].key = k} = {b}
      BY <2>1, <3>1, SMTT(90) DEF Listing
    <3> QED
      BY <3>2, FS_Singleton, SMTT(60)
  <2>3. ASSUME NEW k \in In(file), NEW c \in OpClients, oper[c] # NoBlock, blk[oper[c]].key = k
        PROVE  Found(oper[c]) /\ blk[oper[c]].privs = file[k]
    <3> DEFINE b == oper[c]
    <3>1. b \in Blocks /\ FinitelyMany(oper, OpClients)
      BY <1>1, <2>3 DEF OperInv
    <3>2. /\ Count(oper, OpClients, b) \in Nat /\ Count(dcc, Conns, b) \in Nat
          /\ Count(stored, DOMAIN stored, b) \in Nat
      BY <1>1, <3>1, CountsAreNumbers
    <3>3. Count(oper, OpClients, b) # 0
      <4>1. c \in Holding(oper, OpClients, b) /\ IsFiniteSet(Holding(oper, OpClients, b))
        BY <3>1 DEF Holding, FinitelyMany
      <4> QED
        BY <4>1, FS_EmptySet DEF Count
    <3>4. HeldBy(DOMAIN stored, b) > 0
      BY <3>2, <3>3, SMTT(60) DEF HeldBy
    <3>5. blk[b].mem = "used"
      BY <2>1, <3>1, <3>4 DEF Counted
    <3> QED
      BY <2>1, <2>3, <3>1, <3>5, Zenon DEF Listing, Found
  <2> QED
    BY <2>2, <2>3 DEF PrivsCurrent
<1> QED
  BY <1>1, OpersInvariant, PTL

-----------------------------------------------------------------------------
(* Limits.  A stretch as long as a window meets at most two windows, and in *)
(* each no more is let through than its counter allows and what the last    *)
(* entry may exceed it by.                                                  *)

\* What an entry of the log adds, and the points of a log.
Worth(e, who, a, b) == IF e.who \in who /\ e.time \in a .. b THEN e.cost ELSE 0

Points(rows, who, a, b) ==
  LET upto[i \in 0 .. Len(rows)] == IF i = 0 THEN 0 ELSE upto[i - 1] + Worth(rows[i], who, a, b)
  IN upto[Len(rows)]

\* PointsIn, which the model reads off the log, is Points of that log.
LEMMA PointsOfLog == \A who, a, b : PointsIn(who, a, b) = Points(log, who, a, b)
BY DEF PointsIn, Points, Worth

\* The sums that Points runs through.
SumStages(g, rows, who, a, b, n) ==
  g = [i \in 0 .. n |-> IF i = 0 THEN 0 ELSE g[i - 1] + Worth(rows[i], who, a, b)]

\* Points is the last of the sums it runs through.
LEMMA PointsStages ==
  ASSUME NEW rows, Len(rows) \in Nat, NEW who, NEW a, NEW b
  PROVE  \E g : SumStages(g, rows, who, a, b, Len(rows)) /\ Points(rows, who, a, b) = g[Len(rows)]
<1> DEFINE T == {n \in Nat : \E g : SumStages(g, rows, who, a, b, n)}
<1>1. 0 \in T
  <2> DEFINE g == [i \in 0 .. 0 |-> 0]
  <2>1. SumStages(g, rows, who, a, b, 0)
    BY DEF SumStages
  <2> QED
    BY <2>1
<1>2. ASSUME NEW n \in 1 .. Len(rows), n - 1 \in T PROVE n \in T
  <2>1. n - 1 \in Nat /\ n # 0 /\ n \in Nat
    OBVIOUS
  <2>2. PICK g : SumStages(g, rows, who, a, b, n - 1)
    BY <1>2
  <2> DEFINE last == g[n - 1] + Worth(rows[n], who, a, b)
             h == [i \in 0 .. n |-> IF i = n THEN last ELSE g[i]]
  <2>3. \A i \in 0 .. n : h[i] = IF i = 0 THEN 0 ELSE h[i - 1] + Worth(rows[i], who, a, b)
    <3> TAKE i \in 0 .. n
    <3>1. CASE i = n
      BY <2>1, <3>1
    <3>2. CASE i # n
      <4>1. i \in 0 .. n - 1 /\ h[i] = g[i] /\ (i # 0 => h[i - 1] = g[i - 1])
        BY <2>1, <3>2
      <4> HIDE DEF h, last
      <4> QED
        BY <2>2, <4>1 DEF SumStages
    <3> QED
      BY <3>1, <3>2
  <2>4. h = [i \in 0 .. n |-> h[i]]
    OBVIOUS
  <2> HIDE DEF h, last
  <2>5. SumStages(h, rows, who, a, b, n)
    BY <2>3, <2>4, Zenon DEF SumStages
  <2> QED
    BY <2>1, <2>5
<1> HIDE DEF T
<1>3. \A i \in 0 .. Len(rows) : i \in T
  BY <1>1, <1>2, UpTo, Zenon
<1>4. \E g : SumStages(g, rows, who, a, b, Len(rows))
  BY <1>3 DEF T
<1> DEFINE g == CHOOSE f : SumStages(f, rows, who, a, b, Len(rows))
<1>5. SumStages(g, rows, who, a, b, Len(rows))
  BY <1>4
<1>6. Points(rows, who, a, b) = g[Len(rows)]
  BY DEF Points, SumStages
<1> QED
  BY <1>5, <1>6, Zenon

Entry == [time : Int, who : {"one", "others"}, cost : Nat]

\* Sums go up.
LEMMA SumAt ==
  ASSUME NEW rows \in Seq(Entry), NEW who, NEW a \in Int, NEW b \in Int, NEW g,
         SumStages(g, rows, who, a, b, Len(rows))
  PROVE  /\ g[0] = 0
         /\ \A i \in 1 .. Len(rows) : /\ Worth(rows[i], who, a, b) \in Nat
                                      /\ g[i] = g[i - 1] + Worth(rows[i], who, a, b)
         /\ \A i \in 0 .. Len(rows) : g[i] \in Nat
<1> DEFINE n == Len(rows)
<1>1. n \in Nat /\ \A i \in 1 .. n : rows[i] \in Entry
  OBVIOUS
<1>2. ASSUME NEW i \in 1 .. n PROVE Worth(rows[i], who, a, b) \in Nat
  BY <1>1 DEF Entry, Worth
<1>3. \A i \in 0 .. n : g[i] = IF i = 0 THEN 0 ELSE g[i - 1] + Worth(rows[i], who, a, b)
  BY DEF SumStages
<1>4. g[0] = 0 /\ \A i \in 1 .. n : g[i] = g[i - 1] + Worth(rows[i], who, a, b)
  BY <1>1, <1>3
<1> DEFINE S == {i \in 0 .. n : g[i] \in Nat}
<1>5. 0 \in S
  BY <1>1, <1>4
<1>6. ASSUME NEW i \in 1 .. n, i - 1 \in S PROVE i \in S
  BY <1>1, <1>2, <1>4, <1>6
<1> HIDE DEF S
<1>7. \A i \in 0 .. n : i \in S
  BY <1>1, <1>5, <1>6, UpTo, Zenon
<1> QED
  BY <1>2, <1>4, <1>7 DEF S

\* Points are a number, and none without an entry that counts.
LEMMA PointsNat ==
  ASSUME NEW rows \in Seq(Entry), NEW who, NEW a \in Int, NEW b \in Int
  PROVE  Points(rows, who, a, b) \in Nat
<1>1. Len(rows) \in Nat /\ Len(rows) \in 0 .. Len(rows)
  OBVIOUS
<1>2. PICK g : SumStages(g, rows, who, a, b, Len(rows)) /\ Points(rows, who, a, b) = g[Len(rows)]
  BY <1>1, PointsStages
<1> QED
  BY <1>1, <1>2, SumAt

\* Two bounds are added.
LEMMA AddBoth ==
  ASSUME NEW p \in Nat, NEW q \in Nat, NEW r \in Nat, NEW x \in Nat, NEW y \in Nat, NEW z \in Nat,
         p <= q + r, x <= y + z
  PROVE  p + x <= (q + y) + (r + z)
OBVIOUS

\* Points covered by those of two other stretches are no more than both.
LEMMA PointsCover ==
  ASSUME NEW rows \in Seq(Entry), NEW who, NEW a \in Int, NEW b \in Int,
         NEW c \in Int, NEW d \in Int, NEW e \in Int, NEW f \in Int,
         \A i \in 1 .. Len(rows) : rows[i].who \in who /\ rows[i].time \in a .. b
                                     => rows[i].time \in c .. d \/ rows[i].time \in e .. f
  PROVE  Points(rows, who, a, b) <= Points(rows, who, c, d) + Points(rows, who, e, f)
<1> DEFINE n == Len(rows)
<1>1. n \in Nat /\ \A i \in 1 .. n : rows[i] \in Entry
  OBVIOUS
<1>2. PICK g : SumStages(g, rows, who, a, b, n) /\ Points(rows, who, a, b) = g[n]
  BY <1>1, PointsStages
<1>3. PICK h : SumStages(h, rows, who, c, d, n) /\ Points(rows, who, c, d) = h[n]
  BY <1>1, PointsStages
<1>4. PICK k : SumStages(k, rows, who, e, f, n) /\ Points(rows, who, e, f) = k[n]
  BY <1>1, PointsStages
<1>5. /\ g[0] = 0 /\ \A i \in 0 .. n : g[i] \in Nat
      /\ \A i \in 1 .. n : /\ Worth(rows[i], who, a, b) \in Nat
                           /\ g[i] = g[i - 1] + Worth(rows[i], who, a, b)
  BY <1>2, SumAt
<1>6. /\ h[0] = 0 /\ \A i \in 0 .. n : h[i] \in Nat
      /\ \A i \in 1 .. n : /\ Worth(rows[i], who, c, d) \in Nat
                           /\ h[i] = h[i - 1] + Worth(rows[i], who, c, d)
  BY <1>3, SumAt
<1>7. /\ k[0] = 0 /\ \A i \in 0 .. n : k[i] \in Nat
      /\ \A i \in 1 .. n : /\ Worth(rows[i], who, e, f) \in Nat
                           /\ k[i] = k[i - 1] + Worth(rows[i], who, e, f)
  BY <1>4, SumAt
<1>8. ASSUME NEW i \in 1 .. n
      PROVE  Worth(rows[i], who, a, b) <= Worth(rows[i], who, c, d) + Worth(rows[i], who, e, f)
  BY <1>1, SMTT(60) DEF Worth, Entry
<1> DEFINE S == {i \in 0 .. n : g[i] <= h[i] + k[i]}
<1>9. 0 \in S
  BY <1>1, <1>5, <1>6, <1>7
<1>10. ASSUME NEW i \in 1 .. n, i - 1 \in S PROVE i \in S
  <2>1. i \in 0 .. n /\ i - 1 \in 0 .. n /\ g[i - 1] <= h[i - 1] + k[i - 1]
    BY <1>1, <1>10
  <2> DEFINE x == Worth(rows[i], who, a, b)
             y == Worth(rows[i], who, c, d)
             z == Worth(rows[i], who, e, f)
  <2>2. g[i] = g[i - 1] + x /\ h[i] = h[i - 1] + y /\ k[i] = k[i - 1] + z
    BY <1>5, <1>6, <1>7
  <2>3. x \in Nat /\ y \in Nat /\ z \in Nat /\ x <= y + z
    BY <1>5, <1>6, <1>7, <1>8
  <2>4. g[i - 1] \in Nat /\ h[i - 1] \in Nat /\ k[i - 1] \in Nat
    BY <1>5, <1>6, <1>7, <2>1, Zenon
  <2> HIDE DEF x, y, z
  <2>5. g[i - 1] + x <= (h[i - 1] + y) + (k[i - 1] + z)
    BY <2>1, <2>3, <2>4, AddBoth, Zenon
  <2>6. g[i] <= h[i] + k[i]
    BY <2>2, <2>5, Zenon
  <2> QED
    BY <2>1, <2>6
<1> HIDE DEF S
<1>11. \A i \in 0 .. n : i \in S
  BY <1>1, <1>9, <1>10, UpTo, Zenon
<1> QED
  BY <1>1, <1>2, <1>3, <1>4, <1>11 DEF S

\* No entry, no points.
LEMMA PointsNone ==
  ASSUME NEW rows \in Seq(Entry), NEW who, NEW a \in Int, NEW b \in Int,
         \A i \in 1 .. Len(rows) : ~ (rows[i].who \in who /\ rows[i].time \in a .. b)
  PROVE  Points(rows, who, a, b) = 0
<1> DEFINE n == Len(rows)
<1>1. n \in Nat
  OBVIOUS
<1>2. PICK g : SumStages(g, rows, who, a, b, n) /\ Points(rows, who, a, b) = g[n]
  BY <1>1, PointsStages
<1>3. g[0] = 0 /\ \A i \in 1 .. n : g[i] = g[i - 1] + Worth(rows[i], who, a, b)
  BY <1>2, SumAt
<1>4. \A i \in 1 .. n : Worth(rows[i], who, a, b) = 0
  BY DEF Worth
<1> DEFINE S == {i \in 0 .. n : g[i] = 0}
<1>5. 0 \in S
  BY <1>1, <1>3
<1>6. ASSUME NEW i \in 1 .. n, i - 1 \in S PROVE i \in S
  BY <1>1, <1>3, <1>4, <1>6
<1> HIDE DEF S
<1>7. \A i \in 0 .. n : i \in S
  BY <1>1, <1>5, <1>6, UpTo
<1> QED
  BY <1>1, <1>2, <1>7 DEF S

\* A shorter stretch has no more.
LEMMA PointsWithin ==
  ASSUME NEW rows \in Seq(Entry), NEW who, NEW a \in Int, NEW b \in Int, NEW c \in Int, NEW d \in Int,
         \A i \in 1 .. Len(rows) : rows[i].who \in who /\ rows[i].time \in a .. b => rows[i].time \in c .. d
  PROVE  Points(rows, who, a, b) <= Points(rows, who, c, d)
<1>1. Points(rows, who, 1, 0) = 0
  BY PointsNone
<1>2. Points(rows, who, a, b) <= Points(rows, who, c, d) + Points(rows, who, 1, 0)
  BY PointsCover
<1>3. Points(rows, who, c, d) \in Nat
  BY PointsNat
<1> QED
  BY <1>1, <1>2, <1>3

\* An entry more adds what it is worth.
LEMMA PointsMore ==
  ASSUME NEW rows \in Seq(Entry), NEW e \in Entry, NEW who, NEW a \in Int, NEW b \in Int
  PROVE  Points(Append(rows, e), who, a, b) = Points(rows, who, a, b) + Worth(e, who, a, b)
<1> DEFINE n == Len(rows)
           more == Append(rows, e)
<1>1. n \in Nat /\ more \in Seq(Entry) /\ Len(more) = n + 1 /\ more[n + 1] = e
      /\ \A i \in 1 .. n : more[i] = rows[i]
  OBVIOUS
<1> HIDE DEF more
<1>2. PICK g : SumStages(g, rows, who, a, b, n) /\ Points(rows, who, a, b) = g[n]
  BY <1>1, PointsStages
<1>3. PICK h : SumStages(h, more, who, a, b, Len(more)) /\ Points(more, who, a, b) = h[Len(more)]
  BY <1>1, PointsStages
<1>4. g[0] = 0 /\ \A i \in 1 .. n : g[i] = g[i - 1] + Worth(rows[i], who, a, b)
  BY <1>2, SumAt
<1>5. h[0] = 0 /\ \A i \in 1 .. Len(more) : h[i] = h[i - 1] + Worth(more[i], who, a, b)
  <2>1. more \in Seq(Entry)
    BY <1>1
  <2> QED
    BY <2>1, <1>3, SumAt
<1> DEFINE S == {i \in 0 .. n : h[i] = g[i]}
<1>6. 0 \in S
  BY <1>1, <1>4, <1>5
<1>7. ASSUME NEW i \in 1 .. n, i - 1 \in S PROVE i \in S
  <2>1. i \in 1 .. Len(more) /\ more[i] = rows[i] /\ h[i - 1] = g[i - 1] /\ i \in 0 .. n
    BY <1>1, <1>7
  <2>2. h[i] = g[i]
    BY <1>4, <1>5, <2>1
  <2> QED
    BY <2>1, <2>2
<1> HIDE DEF S
<1>8. \A i \in 0 .. n : i \in S
  BY <1>1, <1>6, <1>7, UpTo, Zenon
<1>9. h[n] = g[n]
  BY <1>1, <1>8 DEF S
<1>10. n + 1 \in 1 .. Len(more) /\ (n + 1) - 1 = n
  BY <1>1
<1>11. h[n + 1] = h[n] + Worth(e, who, a, b)
  BY <1>1, <1>5, <1>10
<1> QED
  BY <1>1, <1>2, <1>3, <1>9, <1>11 DEF more

-----------------------------------------------------------------------------

One == {"one"}

\* A log of entries that are not of the future.
Logged(lg, t0) == lg \in Seq(Entry) /\ \A i \in 1 .. Len(lg) : lg[i].time <= t0

\* The window that began at s lasts w seconds more and lets B points through.  It has
\* let through no more, nor has a stretch that reaches into it before it began, and
\* nothing is later than it.
Bounded(lg, t0, s, w, B) ==
  /\ s <= t0
  /\ Points(lg, One, s, t0) <= B
  /\ \A t \in Start .. t0 : s <= t + w => Points(lg, One, t, s - 1) <= B
  /\ \A t \in Start .. t0 : Points(lg, One, t, t + w) <= 2 * B
  /\ \A i \in 1 .. Len(lg) : lg[i].who \in One => lg[i].time <= s + w

\* The entries of a log.
LEMMA EntryTimes ==
  ASSUME NEW lg \in Seq(Entry)
  PROVE  \A i \in 1 .. Len(lg) : lg[i] \in Entry /\ lg[i].time \in Int
<1>1. \A i \in 1 .. Len(lg) : lg[i] \in Entry
  OBVIOUS
<1>2. \A e \in Entry : e.time \in Int
  BY DEF Entry
<1> QED
  BY <1>1, <1>2

\* Start is a number.
LEMMA StartNat == Start \in Nat
BY LimitAssumption DEF Start

\* Another window begins.
LEMMA Begun ==
  ASSUME NEW t0 \in Int, NEW lg, Logged(lg, t0), NEW s \in Int, NEW w \in Nat, NEW B \in Nat,
         Bounded(lg, t0, s, w, B), s + w < t0
  PROVE  Bounded(lg, t0, t0, w, B) /\ Points(lg, One, t0, t0) = 0
<1>1. lg \in Seq(Entry) /\ \A i \in 1 .. Len(lg) : lg[i].who \in One => lg[i].time <= s + w
  BY DEF Logged, Bounded
<1>2. \A i \in 1 .. Len(lg) : lg[i] \in Entry /\ lg[i].time \in Int
  BY <1>1, EntryTimes
<1>3. \A i \in 1 .. Len(lg) : ~ (lg[i].who \in One /\ lg[i].time \in t0 .. t0)
  BY <1>1, <1>2
<1>4. Points(lg, One, t0, t0) = 0
  BY <1>1, <1>3, PointsNone
<1>5. ASSUME NEW t \in Start .. t0, t0 <= t + w PROVE Points(lg, One, t, t0 - 1) <= B
  <2>1. t \in Int /\ t0 - 1 \in Int /\ t > s
    BY <1>5, StartNat
  <2>2. \A i \in 1 .. Len(lg) : lg[i].who \in One /\ lg[i].time \in t .. t0 - 1 => lg[i].time \in s .. t0
    BY <1>2, <2>1
  <2>3. Points(lg, One, t, t0 - 1) <= Points(lg, One, s, t0)
    BY <1>1, <2>1, <2>2, PointsWithin
  <2>4. Points(lg, One, t, t0 - 1) \in Nat /\ Points(lg, One, s, t0) \in Nat
    BY <1>1, <2>1, PointsNat
  <2> QED
    BY <2>3, <2>4 DEF Bounded
<1>6. \A i \in 1 .. Len(lg) : lg[i].who \in One => lg[i].time <= t0 + w
  BY <1>1, <1>2
<1>7. t0 <= t0 /\ Points(lg, One, t0, t0) <= B
  BY <1>4
<1>8. \A t \in Start .. t0 : Points(lg, One, t, t + w) <= 2 * B
  BY DEF Bounded
<1> QED
  BY <1>4, <1>5, <1>6, <1>7, <1>8 DEF Bounded

\* A second more.
LEMMA Later ==
  ASSUME NEW t0 \in Int, NEW lg, Logged(lg, t0), NEW s \in Int, NEW w \in Nat, NEW B \in Nat,
         Bounded(lg, t0, s, w, B)
  PROVE  Bounded(lg, t0 + 1, s, w, B) /\ Points(lg, One, s, t0 + 1) <= Points(lg, One, s, t0)
<1>1. lg \in Seq(Entry) /\ \A i \in 1 .. Len(lg) : lg[i].time <= t0
  BY DEF Logged
<1>2. \A i \in 1 .. Len(lg) : lg[i] \in Entry /\ lg[i].time \in Int
  BY <1>1, EntryTimes
<1>3. \A i \in 1 .. Len(lg) : lg[i].who \in One /\ lg[i].time \in s .. t0 + 1 => lg[i].time \in s .. t0
  BY <1>1, <1>2
<1>4. Points(lg, One, s, t0 + 1) <= Points(lg, One, s, t0)
  <2>1. t0 + 1 \in Int
    OBVIOUS
  <2> QED
    BY <1>1, <1>3, <2>1, PointsWithin, ZenonT(30)
<1>5. Points(lg, One, s, t0 + 1) \in Nat /\ Points(lg, One, s, t0) \in Nat
  BY <1>1, PointsNat
<1>6. s <= t0 /\ Points(lg, One, s, t0 + 1) <= B
  BY <1>4, <1>5 DEF Bounded
<1>7. ASSUME NEW b \in Int PROVE Points(lg, One, t0 + 1, b) = 0
  <2>1. \A i \in 1 .. Len(lg) : ~ (lg[i].who \in One /\ lg[i].time \in t0 + 1 .. b)
    BY <1>1, <1>2
  <2> QED
    BY <1>1, <2>1, PointsNone
<1>8. ASSUME NEW t \in Start .. t0 + 1
      PROVE  (s <= t + w => Points(lg, One, t, s - 1) <= B) /\ Points(lg, One, t, t + w) <= 2 * B
  <2>1. CASE t = t0 + 1
    BY <1>7, <2>1
  <2>2. CASE t # t0 + 1
    <3>1. t \in Start .. t0
      BY <2>2, StartNat
    <3> QED
      BY <3>1 DEF Bounded
  <2> QED
    BY <2>1, <2>2
<1>9. s <= t0 + 1
  BY <1>6
<1> QED
  BY <1>4, <1>6, <1>8, <1>9 DEF Bounded

\* What is let through once in the window.
LEMMA Passed ==
  ASSUME NEW t0 \in Int, NEW lg, Logged(lg, t0), NEW s \in Int, NEW w \in Nat, NEW B \in Nat,
         Bounded(lg, t0, s, w, B), t0 <= s + w,
         NEW e \in Entry, e.time = t0, e.who \in One, Points(lg, One, s, t0) + e.cost <= B
  PROVE  /\ Logged(Append(lg, e), t0) /\ Bounded(Append(lg, e), t0, s, w, B)
         /\ Points(Append(lg, e), One, s, t0) = Points(lg, One, s, t0) + e.cost
<1> DEFINE more == Append(lg, e)
           P(a, b) == Points(lg, One, a, b)
           Q(a, b) == Points(more, One, a, b)
<1>1. lg \in Seq(Entry) /\ Len(lg) \in Nat /\ \A i \in 1 .. Len(lg) : lg[i].time <= t0
  BY DEF Logged
<1>2. /\ more \in Seq(Entry) /\ Len(more) = Len(lg) + 1 /\ more[Len(lg) + 1] = e
      /\ \A i \in 1 .. Len(lg) : more[i] = lg[i]
  <2>1. lg \in Seq(Entry)
    BY <1>1
  <2>2. more \in Seq(Entry) /\ Len(more) = Len(lg) + 1
    BY <2>1
  <2>3. more[Len(lg) + 1] = e
    BY <2>1
  <2>4. \A i \in 1 .. Len(lg) : more[i] = lg[i]
    BY <2>1
  <2> QED
    BY <2>2, <2>3, <2>4, Zenon
<1>3. e.cost \in Nat
  BY DEF Entry
<1>4. ASSUME NEW a \in Int, NEW b \in Int
      PROVE  /\ P(a, b) \in Nat /\ Q(a, b) \in Nat
             /\ (b < t0 => Q(a, b) = P(a, b)) /\ (a <= t0 /\ t0 <= b => Q(a, b) = P(a, b) + e.cost)
  <2>1. P(a, b) \in Nat /\ Q(a, b) \in Nat
    BY <1>1, <1>2, PointsNat, Zenon
  <2>2. Q(a, b) = P(a, b) + Worth(e, One, a, b)
    BY <1>1, PointsMore
  <2>3. (b < t0 => Worth(e, One, a, b) = 0) /\ (a <= t0 /\ t0 <= b => Worth(e, One, a, b) = e.cost)
    BY DEF Worth
  <2> HIDE DEF P, Q
  <2> QED
    BY <1>3, <2>1, <2>2, <2>3
<1>5. \A i \in 1 .. Len(more) : i = Len(lg) + 1 \/ i \in 1 .. Len(lg)
  BY <1>1, <1>2
<1> HIDE DEF more
<1>6. Logged(more, t0)
  BY <1>1, <1>2, <1>5 DEF Logged
<1>7. \A i \in 1 .. Len(more) : more[i].who \in One => more[i].time <= s + w
  BY <1>1, <1>2, <1>5 DEF Bounded
<1>8. s <= t0 /\ Q(s, t0) = P(s, t0) + e.cost /\ Q(s, t0) <= B
  <2>1. s <= t0
    BY DEF Bounded
  <2>2. t0 <= t0 /\ Q(s, t0) = P(s, t0) + e.cost
    BY <1>4, <2>1
  <2> QED
    BY <2>1, <2>2
<1>9. \A i \in 1 .. Len(more) : more[i] \in Entry /\ more[i].time \in Int
  BY <1>2, EntryTimes
<1>10. ASSUME NEW t \in Start .. t0
       PROVE  (s <= t + w => Q(t, s - 1) <= B) /\ Q(t, t + w) <= 2 * B
  <2>1. t \in Int /\ t + w \in Int /\ s - 1 \in Int /\ s - 1 < t0 /\ t <= t0
    BY <1>8, StartNat
  <2>2. Q(t, s - 1) = P(t, s - 1)
    BY <1>4, <2>1
  <2>3. s <= t + w => Q(t, s - 1) <= B
    BY <2>2 DEF Bounded
  <2>4. CASE t + w < t0
    <3>1. Q(t, t + w) = P(t, t + w)
      BY <1>4, <2>1, <2>4
    <3> QED
      BY <2>3, <3>1 DEF Bounded
  <2>5. CASE t + w >= t0
    <3>1. \A i \in 1 .. Len(more) : more[i].who \in One /\ more[i].time \in t .. t + w
                                     => more[i].time \in t .. s - 1 \/ more[i].time \in s .. t0
      BY <1>6, <1>9, <2>1, SMTT(60) DEF Logged
    <3>2. Q(t, t + w) <= Q(t, s - 1) + Q(s, t0)
      BY <1>2, <2>1, <3>1, PointsCover, Zenon
    <3>3. Q(t, s - 1) <= B
      BY <1>8, <2>1, <2>3, <2>5
    <3>4. Q(t, t + w) \in Nat /\ Q(t, s - 1) \in Nat /\ Q(s, t0) \in Nat
      BY <1>4, <2>1, Zenon
    <3> HIDE DEF P, Q
    <3> QED
      BY <1>8, <2>3, <3>2, <3>3, <3>4
  <2> QED
    BY <2>1, <2>4, <2>5
<1>11. Bounded(more, t0, s, w, B)
  BY <1>7, <1>8, <1>10 DEF Bounded
<1> QED
  BY <1>6, <1>8, <1>11 DEF more

\* What others are let through does not count.
LEMMA PassedOther ==
  ASSUME NEW t0 \in Int, NEW lg, Logged(lg, t0), NEW s \in Int, NEW w \in Nat, NEW B \in Nat,
         Bounded(lg, t0, s, w, B), NEW e \in Entry, e.time = t0, e.who \notin One
  PROVE  /\ Logged(Append(lg, e), t0) /\ Bounded(Append(lg, e), t0, s, w, B)
         /\ Points(Append(lg, e), One, s, t0) = Points(lg, One, s, t0)
<1> DEFINE more == Append(lg, e)
<1>1. lg \in Seq(Entry) /\ Len(lg) \in Nat /\ \A i \in 1 .. Len(lg) : lg[i].time <= t0
  BY DEF Logged
<1>2. /\ more \in Seq(Entry) /\ Len(more) = Len(lg) + 1 /\ more[Len(lg) + 1] = e
      /\ \A i \in 1 .. Len(lg) : more[i] = lg[i]
  BY <1>1
<1>3. ASSUME NEW a \in Int, NEW b \in Int PROVE Points(more, One, a, b) = Points(lg, One, a, b)
  <2>1. Points(lg, One, a, b) \in Nat
    BY <1>1, PointsNat
  <2>2. Points(more, One, a, b) = Points(lg, One, a, b) + Worth(e, One, a, b)
    BY <1>1, PointsMore
  <2>3. Worth(e, One, a, b) = 0
    BY DEF Worth
  <2> QED
    BY <2>1, <2>2, <2>3
<1>4. \A i \in 1 .. Len(more) : i = Len(lg) + 1 \/ i \in 1 .. Len(lg)
  BY <1>1, <1>2
<1> HIDE DEF more
<1>5. Logged(more, t0)
  BY <1>1, <1>2, <1>4 DEF Logged
<1>6. \A i \in 1 .. Len(more) : more[i].who \in One => more[i].time <= s + w
  BY <1>1, <1>2, <1>4 DEF Bounded
<1>7. s <= t0 /\ Points(more, One, s, t0) <= B
  BY <1>3 DEF Bounded
<1>8. ASSUME NEW t \in Start .. t0
      PROVE  (s <= t + w => Points(more, One, t, s - 1) <= B) /\ Points(more, One, t, t + w) <= 2 * B
  <2>1. t \in Int /\ t + w \in Int /\ s - 1 \in Int
    BY StartNat
  <2>2. Points(more, One, t, s - 1) = Points(lg, One, t, s - 1)
        /\ Points(more, One, t, t + w) = Points(lg, One, t, t + w)
    BY <1>3, <2>1
  <2> QED
    BY <2>2 DEF Bounded
<1>9. Bounded(more, t0, s, w, B)
  BY <1>6, <1>7, <1>8 DEF Bounded
<1> QED
  BY <1>3, <1>5, <1>9 DEF more

\* The window of the program began at `start' and has counted `count'.  Once it is
\* over, the window the log knows of is over too.
Tracked(lg, t0, start, count, w, B) ==
  \E s \in Int :
    /\ Bounded(lg, t0, s, w, B)
    /\ start + w < t0 => s + w < t0
    /\ start + w >= t0 => s = start /\ Points(lg, One, s, t0) <= count

\* A new window.
LEMMA TrackedNew ==
  ASSUME NEW t0 \in Int, NEW lg, Logged(lg, t0), NEW start \in Int, NEW count, NEW w \in Nat, NEW B \in Nat,
         Tracked(lg, t0, start, count, w, B), start + w < t0
  PROVE  Tracked(lg, t0, t0, 0, w, B)
<1>1. PICK s \in Int : Bounded(lg, t0, s, w, B) /\ s + w < t0
  BY DEF Tracked
<1>2. Bounded(lg, t0, t0, w, B) /\ Points(lg, One, t0, t0) = 0
  BY <1>1, Begun
<1>3. ~ (t0 + w < t0) /\ 0 <= 0
  OBVIOUS
<1> QED
  BY <1>2, <1>3 DEF Tracked

\* The beginning of a window that is over does not matter.
LEMMA TrackedOver ==
  ASSUME NEW t0 \in Int, NEW lg, NEW start \in Int, NEW count, NEW w \in Nat, NEW B \in Nat,
         Tracked(lg, t0, start, count, w, B), start + w < t0,
         NEW other \in Int, other + w < t0, NEW n
  PROVE  Tracked(lg, t0, other, n, w, B)
BY DEF Tracked

\* One let through, for no more than the window has room for.
LEMMA TrackedPass ==
  ASSUME NEW t0 \in Int, NEW lg, Logged(lg, t0), NEW start \in Int, NEW count \in Nat, NEW w \in Nat,
         NEW B \in Nat, Tracked(lg, t0, start, count, w, B), start + w >= t0,
         NEW e \in Entry, e.time = t0, e.who \in One, count + e.cost <= B
  PROVE  Logged(Append(lg, e), t0) /\ Tracked(Append(lg, e), t0, start, count + e.cost, w, B)
<1>1. Bounded(lg, t0, start, w, B) /\ Points(lg, One, start, t0) <= count
  BY DEF Tracked
<1>2. Points(lg, One, start, t0) \in Nat /\ e.cost \in Nat
  BY PointsNat DEF Logged, Entry
<1>3. Points(lg, One, start, t0) + e.cost <= B /\ t0 <= start + w
      /\ Points(lg, One, start, t0) + e.cost <= count + e.cost
  BY <1>1, <1>2
<1>4. /\ Logged(Append(lg, e), t0) /\ Bounded(Append(lg, e), t0, start, w, B)
      /\ Points(Append(lg, e), One, start, t0) <= count + e.cost
  BY <1>1, <1>3, Passed
<1> DEFINE more == Append(lg, e)
<1> HIDE DEF more
<1>5. Tracked(more, t0, start, count + e.cost, w, B)
  BY <1>4 DEF Tracked, more
<1> QED
  BY <1>4, <1>5 DEF more

\* One of the others let through.
LEMMA TrackedOther ==
  ASSUME NEW t0 \in Int, NEW lg, Logged(lg, t0), NEW start \in Int, NEW count, NEW w \in Nat,
         NEW B \in Nat, Tracked(lg, t0, start, count, w, B),
         NEW e \in Entry, e.time = t0, e.who \notin One
  PROVE  Logged(Append(lg, e), t0) /\ Tracked(Append(lg, e), t0, start, count, w, B)
<1>1. PICK s \in Int : /\ Bounded(lg, t0, s, w, B)
                       /\ start + w < t0 => s + w < t0
                       /\ start + w >= t0 => s = start /\ Points(lg, One, s, t0) <= count
  BY DEF Tracked
<1> DEFINE more == Append(lg, e)
<1>2. /\ Logged(more, t0) /\ Bounded(more, t0, s, w, B)
      /\ Points(more, One, s, t0) = Points(lg, One, s, t0)
  BY <1>1, PassedOther
<1> HIDE DEF more
<1>3. Tracked(more, t0, start, count, w, B)
  BY <1>1, <1>2 DEF Tracked
<1> QED
  BY <1>2, <1>3 DEF more

\* More is counted than was let through.
LEMMA TrackedMore ==
  ASSUME NEW t0 \in Int, NEW lg, Logged(lg, t0), NEW start \in Int, NEW count \in Nat, NEW w \in Nat,
         NEW B \in Nat, Tracked(lg, t0, start, count, w, B), NEW n \in Nat, count <= n
  PROVE  Tracked(lg, t0, start, n, w, B)
<1>1. PICK s \in Int : /\ Bounded(lg, t0, s, w, B)
                       /\ start + w < t0 => s + w < t0
                       /\ start + w >= t0 => s = start /\ Points(lg, One, s, t0) <= count
  BY DEF Tracked
<1>2. Points(lg, One, s, t0) \in Nat
  BY PointsNat DEF Logged
<1>3. start + w >= t0 => s = start /\ Points(lg, One, s, t0) <= n
  BY <1>1, <1>2
<1> QED
  BY <1>1, <1>3 DEF Tracked

\* A second more.
LEMMA TrackedLater ==
  ASSUME NEW t0 \in Int, NEW lg, Logged(lg, t0), NEW start \in Int, NEW count \in Nat, NEW w \in Nat,
         NEW B \in Nat, Tracked(lg, t0, start, count, w, B)
  PROVE  Logged(lg, t0 + 1) /\ Tracked(lg, t0 + 1, start, count, w, B)
<1>1. PICK s \in Int : /\ Bounded(lg, t0, s, w, B)
                       /\ start + w < t0 => s + w < t0
                       /\ start + w >= t0 => s = start /\ Points(lg, One, s, t0) <= count
  BY DEF Tracked
<1>2. Bounded(lg, t0 + 1, s, w, B) /\ Points(lg, One, s, t0 + 1) <= Points(lg, One, s, t0)
  BY <1>1, Later
<1>3. lg \in Seq(Entry) /\ \A i \in 1 .. Len(lg) : lg[i].time \in Int /\ lg[i].time <= t0
  BY EntryTimes DEF Logged
<1>4. Points(lg, One, s, t0) \in Nat /\ Points(lg, One, s, t0 + 1) \in Nat
  BY <1>3, PointsNat
<1>5. start + w >= t0 + 1 => s = start /\ Points(lg, One, s, t0 + 1) <= count
  BY <1>1, <1>2, <1>4
<1>6. start + w < t0 + 1 => s + w < t0 + 1
  BY <1>1
<1>7. Logged(lg, t0 + 1)
  BY <1>3 DEF Logged
<1> QED
  BY <1>2, <1>5, <1>6, <1>7 DEF Tracked

\* No stretch as long as a window has more than two windows' worth.
LEMMA TrackedBound ==
  ASSUME NEW lg, NEW t0, NEW start, NEW count, NEW w, NEW B, Tracked(lg, t0, start, count, w, B)
  PROVE  \A t \in Start .. t0 : Points(lg, One, t, t + w) <= 2 * B
BY DEF Tracked, Bounded

-----------------------------------------------------------------------------

\* The window of the limit the behaviour is about, and its room.
BeganAt == IF limit = "host" THEN host.uregister_expire - Window ELSE window.start
HasCounted == IF limit = "host" THEN host.uregister ELSE window.count
LastsFor == IF limit = "host" THEN Window - 1 ELSE Window
Room == IF limit = "flood" THEN Amount + MostPoints
        ELSE IF limit = "email" /\ Amount = 0 THEN 1 ELSE Amount

All == {"one", "others"}

\* What a service carried out since any second is still its load, or it was relieved of it.
LoadFits(lg, t0, ld) ==
  \A first \in Start .. t0 : Points(lg, All, first, t0) <= ld + FloodGrace * (t0 - first)

LimitTypes ==
  /\ limit \in Limits /\ now \in Nat /\ Logged(log, now)
  /\ window \in [start : Int, count : Nat] /\ load \in Nat
  /\ host \in [uregister : Nat, uregister_expire : Int, cregister_expire : Int]

\* The inductive invariant.
LimitInv ==
  /\ LimitTypes
  /\ Tracked(log, now, BeganAt, HasCounted, LastsFor, Room)
  /\ limit = "flood" => load <= Amount + MostPoints /\ LoadFits(log, now, load)

\* The most that a command costs.
LEMMA MostCost == MostPoints \in Nat /\ \A c \in Costs : c \in Nat /\ c <= MostPoints
<1>1. \E c \in Costs : \A d \in Costs : d <= c
  BY LimitAssumption
<1>2. MostPoints \in Costs /\ \A d \in Costs : d <= MostPoints
  BY <1>1 DEF MostPoints
<1> QED
  BY <1>2, LimitAssumption

\* The numbers of a limit.
LEMMA LimitNumbers ==
  ASSUME LimitTypes
  PROVE  /\ BeganAt \in Int /\ HasCounted \in Nat /\ LastsFor \in Nat /\ Room \in Nat
         /\ limit \in {"register", "host"} => Amount > 0 /\ Window > 0
<1>1. limit \in Limits /\ Limits \subseteq {"flood", "register", "host", "email"}
      /\ Amount \in Nat /\ Window \in Nat
      /\ ({"register", "host"} \cap Limits # {} => Amount > 0 /\ Window > 0)
  BY LimitAssumption DEF LimitTypes
<1>2. limit \in {"register", "host"} => Amount > 0 /\ Window > 0
  BY <1>1
<1>3. BeganAt \in Int /\ HasCounted \in Nat
  BY <1>1 DEF LimitTypes, BeganAt, HasCounted
<1>4. LastsFor \in Nat
  BY <1>1, <1>2 DEF LastsFor
<1>5. Room \in Nat
  BY <1>1, MostCost DEF Room
<1> QED
  BY <1>2, <1>3, <1>4, <1>5

\* An entry of the log.
LEMMA NewEntry ==
  ASSUME NEW t0 \in Nat, NEW who \in All, NEW cost \in Nat
  PROVE  /\ [time |-> t0, who |-> who, cost |-> cost] \in Entry
         /\ [time |-> t0, who |-> who, cost |-> cost].time = t0
         /\ [time |-> t0, who |-> who, cost |-> cost].who = who
         /\ [time |-> t0, who |-> who, cost |-> cost].cost = cost
BY DEF Entry, All

\* The load is what a command adds to it.
LEMMA LoadedMore ==
  ASSUME NEW t0 \in Nat, NEW lg, Logged(lg, t0), NEW ld \in Nat, LoadFits(lg, t0, ld),
         NEW e \in Entry, e.time = t0, NEW more \in Nat, ld + e.cost <= more
  PROVE  LoadFits(Append(lg, e), t0, more)
<1> SUFFICES ASSUME NEW first \in Start .. t0
             PROVE  Points(Append(lg, e), All, first, t0) <= more + FloodGrace * (t0 - first)
  BY DEF LoadFits
<1>1. lg \in Seq(Entry) /\ first \in Int /\ first <= t0
  BY StartNat DEF Logged
<1> DEFINE p == Points(lg, All, first, t0)
           q == Points(Append(lg, e), All, first, t0)
           r == FloodGrace * (t0 - first)
<1>2. q = p + Worth(e, All, first, t0)
  BY <1>1, PointsMore
<1>3. Worth(e, All, first, t0) = e.cost /\ e.cost \in Nat
  BY <1>1 DEF Worth, Entry, All
<1>4. p <= ld + r /\ p \in Nat
  BY <1>1, PointsNat DEF LoadFits
<1>5. r \in Int
  BY <1>1, LimitAssumption
<1> HIDE DEF p, q, r
<1>6. q <= more + r
  BY <1>2, <1>3, <1>4, <1>5
<1> QED
  BY <1>6 DEF q, r

\* A second relieves it of the grace.
LEMMA LoadedLater ==
  ASSUME NEW t0 \in Nat, NEW lg, Logged(lg, t0), NEW ld \in Nat, LoadFits(lg, t0, ld),
         NEW less \in Nat, ld <= less + FloodGrace
  PROVE  LoadFits(lg, t0 + 1, less)
<1> SUFFICES ASSUME NEW first \in Start .. t0 + 1
             PROVE  Points(lg, All, first, t0 + 1) <= less + FloodGrace * ((t0 + 1) - first)
  BY DEF LoadFits
<1>1. lg \in Seq(Entry) /\ first \in Int /\ first <= t0 + 1 /\ FloodGrace \in Nat
  BY StartNat, LimitAssumption DEF Logged
<1>2. \A i \in 1 .. Len(lg) : lg[i].time \in Int /\ lg[i].time <= t0
  BY EntryTimes DEF Logged
<1>3. CASE first = t0 + 1
  <2>1. \A i \in 1 .. Len(lg) : ~ (lg[i].who \in All /\ lg[i].time \in first .. t0 + 1)
    BY <1>2, <1>3
  <2>2. Points(lg, All, first, t0 + 1) = 0
    BY <1>1, <2>1, PointsNone
  <2>3. FloodGrace * ((t0 + 1) - first) = 0
    BY <1>1, <1>3
  <2> QED
    BY <2>2, <2>3
<1>4. CASE first # t0 + 1
  <2>1. first \in Start .. t0
    BY <1>4, StartNat
  <2>2. \A i \in 1 .. Len(lg) : lg[i].who \in All /\ lg[i].time \in first .. t0 + 1 => lg[i].time \in first .. t0
    BY <1>1, <1>2
  <2> DEFINE p == Points(lg, All, first, t0)
             q == Points(lg, All, first, t0 + 1)
             r == FloodGrace * (t0 - first)
  <2>3. q <= p
    BY <1>1, <2>2, PointsWithin
  <2>4. p \in Nat /\ q \in Nat
    BY <1>1, PointsNat
  <2>5. p <= ld + r
    BY <2>1 DEF LoadFits
  <2>6. FloodGrace * ((t0 + 1) - first) = r + FloodGrace /\ r \in Int
    BY <1>1
  <2> HIDE DEF p, q, r
  <2>7. q <= less + (r + FloodGrace)
    BY <1>1, <2>3, <2>4, <2>5, <2>6
  <2> QED
    BY <2>6, <2>7 DEF q
<1> QED
  BY <1>3, <1>4

\* Nothing is let through before the first second.
LEMMA LimitInitial == LimitInit => LimitInv
<1> SUFFICES ASSUME LimitInit PROVE LimitInv
  OBVIOUS
<1>1. limit \in Limits /\ now = Start /\ log = << >> /\ load = 0
      /\ window = [start |-> 0, count |-> 0]
      /\ host = [uregister |-> 0, uregister_expire |-> 0, cregister_expire |-> 0]
  BY DEF LimitInit, NoHost
<1>2. log \in Seq(Entry) /\ Len(log) = 0 /\ Logged(log, now)
  BY <1>1 DEF Logged
<1>3. LimitTypes
  BY <1>1, <1>2, StartNat DEF LimitTypes
<1>4. \A who : \A a, b \in Int : Points(log, who, a, b) = 0
  <2> SUFFICES ASSUME NEW who, NEW a \in Int, NEW b \in Int PROVE Points(log, who, a, b) = 0
    OBVIOUS
  <2>1. \A i \in 1 .. Len(log) : ~ (log[i].who \in who /\ log[i].time \in a .. b)
    BY <1>2
  <2> QED
    BY <1>2, <2>1, PointsNone, Zenon
<1>5. BeganAt \in Int /\ HasCounted \in Nat /\ LastsFor \in Nat /\ Room \in Nat
  BY <1>3, LimitNumbers
<1>6. BeganAt + LastsFor < now
  BY <1>1, LimitAssumption DEF BeganAt, LastsFor, Start
<1>7. now \in Int /\ BeganAt <= now
  BY <1>1, <1>5, <1>6, StartNat
<1> DEFINE s == BeganAt
           w == LastsFor
           B == Room
<1> HIDE DEF s, w, B
<1>8. Bounded(log, now, s, w, B)
  <2>1. ASSUME NEW t \in Start .. now PROVE Points(log, One, t, s - 1) <= B /\ Points(log, One, t, t + w) <= 2 * B
    <3>1. t \in Int /\ s - 1 \in Int /\ t + w \in Int
      BY <1>5, <1>7, StartNat DEF s, w
    <3>2. Points(log, One, t, s - 1) = 0 /\ Points(log, One, t, t + w) = 0
      BY <1>4, <3>1
    <3> QED
      BY <1>5, <3>2 DEF B
  <2>2. Points(log, One, s, now) <= B
    BY <1>4, <1>5, <1>7 DEF s, B
  <2> QED
    BY <1>2, <1>7, <2>1, <2>2 DEF Bounded, s
<1>9. Tracked(log, now, s, HasCounted, w, B)
  BY <1>5, <1>6, <1>7, <1>8 DEF Tracked, s, w
<1>10. load <= Amount + MostPoints
  BY <1>1, MostCost, LimitAssumption
<1>11. LoadFits(log, now, load)
  <2> SUFFICES ASSUME NEW first \in Start .. now
               PROVE  Points(log, All, first, now) <= load + FloodGrace * (now - first)
    BY DEF LoadFits
  <2>1. first = now /\ first \in Int
    BY <1>1, StartNat
  <2>2. Points(log, All, first, now) = 0 /\ FloodGrace * (now - first) = 0
    BY <1>4, <1>7, <2>1, LimitAssumption
  <2> QED
    BY <1>1, <2>2
<1> QED
  BY <1>3, <1>9, <1>10, <1>11 DEF LimitInv, s, w, B

\* update_service_floodcount.
LEMMA TickKeeps == LimitInv /\ Tick => LimitInv'
<1> SUFFICES ASSUME LimitInv, Tick PROVE LimitInv'
  OBVIOUS
<1>1. /\ now' = now + 1 /\ limit' = limit /\ window' = window /\ host' = host /\ log' = log
      /\ load' = IF load > FloodGrace THEN load - FloodGrace ELSE 0
  BY DEF Tick
<1>2. LimitTypes /\ now \in Nat /\ load \in Nat /\ Logged(log, now) /\ FloodGrace \in Nat
  BY LimitAssumption DEF LimitInv, LimitTypes
<1>3. load' \in Nat /\ load <= load' + FloodGrace /\ load' <= load
  BY <1>1, <1>2
<1>4. BeganAt \in Int /\ HasCounted \in Nat /\ LastsFor \in Nat /\ Room \in Nat
  BY <1>2, LimitNumbers
<1>5. Logged(log, now + 1) /\ Tracked(log, now + 1, BeganAt, HasCounted, LastsFor, Room)
  BY <1>2, <1>4, TrackedLater DEF LimitInv
<1>6. BeganAt' = BeganAt /\ HasCounted' = HasCounted /\ LastsFor' = LastsFor /\ Room' = Room
  BY <1>1 DEF BeganAt, HasCounted, LastsFor, Room
<1>7. LimitTypes'
  BY <1>1, <1>2, <1>3, <1>5 DEF LimitTypes
<1>8. limit = "flood" => LoadFits(log, now + 1, load')
  BY <1>2, <1>3, LoadedLater, Zenon DEF LimitInv
<1>9. limit = "flood" => load' <= Amount + MostPoints
  BY <1>2, <1>3, MostCost, LimitAssumption DEF LimitInv
<1>10. Tracked(log, now, BeganAt, HasCounted, LastsFor, Room)'
  BY <1>1, <1>5, <1>6
<1>11. limit' = "flood" => (load <= Amount + MostPoints /\ LoadFits(log, now, load))'
  BY <1>1, <1>8, <1>9
<1> QED
  BY <1>7, <1>10, <1>11 DEF LimitInv

\* The window that Current begins or goes on with.
LEMMA CurrentWindow ==
  ASSUME LimitInv, limit # "host"
  PROVE  /\ Current \in [start : Int, count : Nat] /\ Current.start + Window >= now
         /\ Tracked(log, now, Current.start, Current.count, Window, Room)
         /\ window.start + Window < now => Current.count = 0
         /\ window.start + Window >= now => Current = window
<1>1. LimitTypes /\ now \in Nat /\ Logged(log, now) /\ window \in [start : Int, count : Nat]
      /\ Window \in Nat /\ window.start \in Int /\ window.count \in Nat
  BY LimitAssumption DEF LimitInv, LimitTypes
<1>2. BeganAt = window.start /\ HasCounted = window.count /\ LastsFor = Window /\ Room \in Nat
  BY <1>1, LimitNumbers DEF BeganAt, HasCounted, LastsFor
<1>3. Tracked(log, now, window.start, window.count, Window, Room)
  BY <1>2 DEF LimitInv
<1>4. CASE window.start + Window < now
  <2>1. Current = [start |-> now, count |-> 0]
    BY <1>4 DEF Current
  <2>2. Tracked(log, now, now, 0, Window, Room)
    BY <1>1, <1>2, <1>3, <1>4, TrackedNew
  <2> QED
    BY <1>1, <1>4, <2>1, <2>2
<1>5. CASE ~ (window.start + Window < now)
  <2>1. Current = window
    BY <1>5 DEF Current
  <2> QED
    BY <1>1, <1>3, <1>5, <2>1
<1> QED
  BY <1>4, <1>5

\* A step of a limit other than that of a host, from what it makes of the window.
LEMMA WindowStep ==
  ASSUME LimitInv, limit # "host", limit' = limit, now' = now, host' = host, load' \in Nat,
         NEW n \in Nat, window' = [start |-> Current.start, count |-> n], Logged(log', now),
         Tracked(log', now, Current.start, n, Window, Room),
         limit = "flood" => load' <= Amount + MostPoints /\ LoadFits(log', now, load')
  PROVE  LimitInv'
<1>1. Current.start \in Int
  BY CurrentWindow
<1>2. window' \in [start : Int, count : Nat] /\ window'.start = Current.start /\ window'.count = n
  BY <1>1
<1>3. LimitTypes'
  BY <1>2 DEF LimitInv, LimitTypes
<1>4. BeganAt' = Current.start /\ HasCounted' = n /\ LastsFor' = Window /\ Room' = Room
  BY <1>2 DEF BeganAt, HasCounted, LastsFor, Room
<1>5. Tracked(log, now, BeganAt, HasCounted, LastsFor, Room)'
  BY <1>4
<1> QED
  BY <1>3, <1>5 DEF LimitInv

\* handle_service, of the client and of others.
LEMMA CommandKeepsLimit ==
  ASSUME LimitInv, NEW cost \in Costs, handle_service(cost) \/ OtherCommand(cost)
  PROVE  LimitInv'
<1> DEFINE cur == Current
           ignored == cur.count > MaxIgnore
           paced == load > Amount \/ cur.count > Amount
           entry(who) == [time |-> now, who |-> who, cost |-> cost]
<1>1. limit = "flood" /\ limit' = limit /\ now' = now /\ host' = host
  BY DEF handle_service, OtherCommand
<1>2. /\ now \in Nat /\ load \in Nat /\ Logged(log, now) /\ Amount \in Nat /\ Window \in Nat
      /\ load <= Amount + MostPoints /\ LoadFits(log, now, load) /\ LimitTypes
  BY <1>1, LimitAssumption DEF LimitInv, LimitTypes
<1>3. cost \in Nat /\ cost <= MostPoints /\ MostPoints \in Nat /\ Room = Amount + MostPoints
  BY <1>1, MostCost DEF Room
<1>4. /\ cur \in [start : Int, count : Nat] /\ cur.start \in Int /\ cur.count \in Nat
      /\ cur.start + Window >= now /\ Tracked(log, now, cur.start, cur.count, Window, Room)
  BY <1>1, CurrentWindow
<1>5. ASSUME NEW who \in All
      PROVE  /\ entry(who) \in Entry /\ entry(who).time = now
             /\ entry(who).who = who /\ entry(who).cost = cost
  BY <1>2, <1>3, NewEntry
<1>6. ASSUME NEW who \in All, log' = Append(log, entry(who)), load' = load + cost, load <= Amount
      PROVE  load' \in Nat /\ load' <= Amount + MostPoints /\ LoadFits(log', now, load')
  <2>1. load' \in Nat /\ load' <= Amount + MostPoints
    BY <1>2, <1>3, <1>6
  <2>2. load + entry(who).cost <= load'
    BY <1>2, <1>3, <1>5, <1>6
  <2> HIDE DEF entry
  <2>3. LoadFits(log', now, load')
    BY <1>2, <1>5, <1>6, <2>1, <2>2, LoadedMore
  <2> QED
    BY <2>1, <2>3
<1> HIDE DEF cur, entry
<1>7. CASE handle_service(cost) /\ (ignored \/ paced)
  <2>1. window' = [cur EXCEPT !.count = @ + 1] /\ load' = load /\ log' = log
    BY <1>7 DEF handle_service, cur
  <2>2. window' = [start |-> cur.start, count |-> cur.count + 1] /\ cur.count + 1 \in Nat
    BY <1>4, <2>1
  <2>3. Tracked(log, now, cur.start, cur.count + 1, Window, Room)
    BY <1>2, <1>3, <1>4, <2>2, TrackedMore
  <2> QED
    BY <1>1, <1>2, <2>1, <2>2, <2>3, WindowStep, Zenon DEF cur
<1>8. CASE handle_service(cost) /\ ~ (ignored \/ paced)
  <2>1. window' = [cur EXCEPT !.count = @ + cost] /\ load' = load + cost /\ log' = Append(log, entry("one"))
    BY <1>8 DEF handle_service, LetThrough, cur, entry
  <2>2. load <= Amount /\ cur.count <= Amount
    BY <1>2, <1>4, <1>8
  <2>3. window' = [start |-> cur.start, count |-> cur.count + cost] /\ cur.count + cost \in Nat
    BY <1>3, <1>4, <2>1
  <2>4. "one" \in All /\ "one" \in One
    BY DEF All, One
  <2>5. /\ entry("one") \in Entry /\ entry("one").time = now /\ entry("one").who \in One
        /\ entry("one").cost = cost
    BY <1>5, <2>4
  <2>6. cur.count + entry("one").cost <= Room /\ Room \in Nat
    BY <1>2, <1>3, <1>4, <2>2, <2>5
  <2>7. Logged(log', now) /\ Tracked(log', now, cur.start, cur.count + entry("one").cost, Window, Room)
    BY <1>2, <1>4, <2>1, <2>5, <2>6, TrackedPass
  <2>8. load' \in Nat /\ load' <= Amount + MostPoints /\ LoadFits(log', now, load')
    BY <1>6, <2>1, <2>2, <2>4
  <2> QED
    BY <1>1, <2>3, <2>5, <2>7, <2>8, WindowStep DEF cur
<1>9. CASE OtherCommand(cost)
  <2>1. load <= Amount /\ load' = load + cost /\ window' = window /\ log' = Append(log, entry("others"))
    BY <1>9 DEF OtherCommand, LetThrough, entry
  <2>2. "others" \in All /\ "others" \notin One
    BY DEF All, One
  <2>3. entry("others") \in Entry /\ entry("others").time = now /\ entry("others").who \notin One
    BY <1>5, <2>2
  <2>4. BeganAt \in Int /\ HasCounted \in Nat /\ LastsFor \in Nat /\ Room \in Nat
    BY <1>2, LimitNumbers
  <2>5. Logged(log', now) /\ Tracked(log', now, BeganAt, HasCounted, LastsFor, Room)
    BY <1>2, <2>1, <2>3, <2>4, TrackedOther DEF LimitInv
  <2>6. load' \in Nat /\ load' <= Amount + MostPoints /\ LoadFits(log', now, load')
    BY <1>6, <2>1, <2>2
  <2>7. BeganAt' = BeganAt /\ HasCounted' = HasCounted /\ LastsFor' = LastsFor /\ Room' = Room
    BY <1>1, <2>1 DEF BeganAt, HasCounted, LastsFor, Room
  <2>8. LimitTypes'
    BY <1>1, <1>2, <2>1, <2>5, <2>6 DEF LimitTypes
  <2>9. Tracked(log, now, BeganAt, HasCounted, LastsFor, Room)'
    BY <1>1, <2>5, <2>7
  <2> QED
    BY <1>1, <2>6, <2>8, <2>9 DEF LimitInv
<1> QED
  BY <1>7, <1>8, <1>9

\* One more of a limit that counts what it lets through, or tries to.
LEMMA WindowPass ==
  ASSUME LimitInv, limit \in {"register", "email"}, limit' = limit, now' = now, host' = host, load' = load,
         Current.count + 1 <= Room, window' = [start |-> Current.start, count |-> Current.count + 1],
         log' = log \/ log' = Append(log, [time |-> now, who |-> "one", cost |-> 1])
  PROVE  LimitInv'
<1> DEFINE cur == Current
           e == [time |-> now, who |-> "one", cost |-> 1]
<1>1. LimitTypes /\ now \in Nat /\ Logged(log, now) /\ Window \in Nat /\ load \in Nat /\ Room \in Nat
  BY LimitNumbers, LimitAssumption DEF LimitInv, LimitTypes
<1>2. cur.start \in Int /\ cur.count \in Nat /\ cur.start + Window >= now
      /\ Tracked(log, now, cur.start, cur.count, Window, Room)
  BY CurrentWindow
<1>3. e \in Entry /\ e.time = now /\ e.who \in One /\ e.cost = 1
  BY <1>1 DEF Entry, One
<1> HIDE DEF e, cur
<1>4. cur.count + 1 \in Nat /\ cur.count <= cur.count + 1
  BY <1>2
<1>5. CASE log' = log
  <2>1. Tracked(log, now, cur.start, cur.count + 1, Window, Room)
    BY <1>1, <1>2, <1>4, TrackedMore
  <2> QED
    BY <1>1, <1>4, <1>5, <2>1, WindowStep DEF cur
<1>6. CASE log' = Append(log, e)
  <2>1. cur.count + e.cost <= Room
    BY <1>3 DEF cur
  <2>2. Logged(log', now) /\ Tracked(log', now, cur.start, cur.count + e.cost, Window, Room)
    <3>1. e \in Entry /\ e.time = now /\ e.who \in One
      BY <1>3
    <3>2. Logged(Append(log, e), now) /\ Tracked(Append(log, e), now, cur.start, cur.count + e.cost, Window, Room)
      <4>1. now \in Int
        BY <1>1
      <4> QED
        BY <1>1, <1>2, <2>1, <3>1, <4>1, TrackedPass, ZenonT(60)
    <3> QED
      BY <1>6, <3>2
  <2> QED
    <3>1. Tracked(log', now, cur.start, cur.count + 1, Window, Room) /\ Logged(log', now)
      BY <1>3, <2>2
    <3>2. limit # "host" /\ limit # "flood" /\ load' \in Nat
      BY <1>1
    <3>3. window' = [start |-> cur.start, count |-> cur.count + 1]
      BY DEF cur
    <3> QED
      BY <1>4, <3>1, <3>2, <3>3, WindowStep DEF cur
<1> QED
  BY <1>5, <1>6 DEF e

\* The overall limit of s_user_register and s_chan_register.
LEMMA RegisterKeeps == LimitInv /\ RegisterOverall => LimitInv'
<1> SUFFICES ASSUME LimitInv, RegisterOverall PROVE LimitInv'
  OBVIOUS
<1>1. /\ limit = "register" /\ limit' = limit /\ now' = now /\ host' = host /\ load' = load
      /\ log' = Append(log, [time |-> now, who |-> "one", cost |-> 1])
  BY DEF RegisterOverall, LetThrough
<1>2. now \in Nat /\ window \in [start : Int, count : Nat] /\ Window \in Nat /\ Amount \in Nat
      /\ Amount > 0 /\ Room = Amount
  BY <1>1, LimitNumbers, LimitAssumption DEF LimitInv, LimitTypes, Room
<1>3. Current.count + 1 <= Room /\ window' = [start |-> Current.start, count |-> Current.count + 1]
  <2>1. CASE window.start + Window < now
    <3>1. window' = [start |-> now, count |-> 1] /\ Current = [start |-> now, count |-> 0]
      BY <2>1 DEF RegisterOverall, Current
    <3>2. Current.start = now /\ Current.count = 0
      BY <3>1
    <3> QED
      BY <1>2, <3>1, <3>2
  <2>2. CASE ~ (window.start + Window < now)
    <3>1. window.count < Amount /\ window' = [window EXCEPT !.count = @ + 1] /\ Current = window
      BY <2>2 DEF RegisterOverall, Current
    <3>2. window' = [start |-> window.start, count |-> window.count + 1] /\ window.count + 1 <= Amount
      BY <1>2, <3>1
    <3> QED
      BY <1>2, <3>1, <3>2
  <2> QED
    BY <2>1, <2>2
<1> QED
  BY <1>1, <1>3, WindowPass

\* send_email.
LEMMA MailKeeps ==
  ASSUME LimitInv, NEW sent \in BOOLEAN, send_email(sent)
  PROVE  LimitInv'
<1>1. /\ limit = "email" /\ limit' = limit /\ now' = now /\ host' = host /\ load' = load
      /\ window' = [Current EXCEPT !.count = @ + 1] /\ can_send_email
  BY DEF send_email
<1>2. log' = log \/ log' = Append(log, [time |-> now, who |-> "one", cost |-> 1])
  BY DEF send_email, LetThrough
<1>3. /\ Current \in [start : Int, count : Nat] /\ window \in [start : Int, count : Nat]
      /\ now \in Nat /\ Window \in Nat /\ Amount \in Nat
      /\ (window.start + Window < now => Current.count = 0)
      /\ (window.start + Window >= now => Current = window)
  BY <1>1, CurrentWindow, LimitAssumption DEF LimitInv, LimitTypes
<1>4. window' = [start |-> Current.start, count |-> Current.count + 1]
  <2> DEFINE cur == Current
  <2> HIDE DEF cur
  <2>1. window' = [cur EXCEPT !.count = @ + 1] /\ cur \in [start : Int, count : Nat]
    BY <1>1, <1>3 DEF cur
  <2>2. window' = [start |-> cur.start, count |-> cur.count + 1]
    BY <2>1
  <2> QED
    BY <2>2 DEF cur
<1>5. Room = (IF Amount = 0 THEN 1 ELSE Amount)
  BY <1>1 DEF Room
<1>6. Current.count + 1 <= Room
  <2>1. CASE window.start + Window < now
    BY <1>3, <1>5, <2>1
  <2>2. CASE ~ (window.start + Window < now)
    <3>1. window.count < Amount /\ window.count \in Nat /\ Current = window
      BY <1>1, <1>3, <2>2 DEF can_send_email
    <3> QED
      BY <1>3, <1>5, <3>1
  <2> QED
    BY <2>1, <2>2
<1> QED
  BY <1>1, <1>2, <1>4, <1>6, WindowPass, Zenon

\* A step of the limit of a host, from what it makes of the entry.
LEMMA HostStep ==
  ASSUME LimitInv, limit = "host", limit' = limit, now' = now, load' = load, window' = window,
         host' \in [uregister : Nat, uregister_expire : Int, cregister_expire : Int], Logged(log', now),
         Tracked(log', now, host'.uregister_expire - Window, host'.uregister, Window - 1, Amount)
  PROVE  LimitInv'
<1>1. LimitTypes'
  BY DEF LimitInv, LimitTypes
<1>2. BeganAt' = host'.uregister_expire - Window /\ HasCounted' = host'.uregister
      /\ LastsFor' = Window - 1 /\ Room' = Amount
  BY DEF BeganAt, HasCounted, LastsFor, Room
<1>3. Tracked(log, now, BeganAt, HasCounted, LastsFor, Room)'
  BY <1>2
<1> QED
  BY <1>1, <1>3 DEF LimitInv

\* What is known of a host.
LEMMA HostFacts ==
  ASSUME LimitInv, limit = "host"
  PROVE  /\ now \in Nat /\ Logged(log, now) /\ Window \in Nat \ {0} /\ Amount \in Nat \ {0}
         /\ host \in [uregister : Nat, uregister_expire : Int, cregister_expire : Int]
         /\ Tracked(log, now, host.uregister_expire - Window, host.uregister, Window - 1, Amount)
<1>1. LimitTypes /\ Window \in Nat /\ Amount \in Nat
  BY LimitAssumption DEF LimitInv
<1>2. Window > 0 /\ Amount > 0
  BY <1>1, LimitNumbers
<1>3. BeganAt = host.uregister_expire - Window /\ HasCounted = host.uregister
      /\ LastsFor = Window - 1 /\ Room = Amount
  BY DEF BeganAt, HasCounted, LastsFor, Room
<1> QED
  BY <1>1, <1>2, <1>3 DEF LimitInv, LimitTypes

\* The limit of a host in s_user_register.
LEMMA HostKeeps ==
  ASSUME LimitInv, NEW sent \in BOOLEAN, RegisterFromHost(sent)
  PROVE  LimitInv'
<1> DEFINE h == IF host.uregister_expire <= now
                THEN [host EXCEPT !.uregister_expire = now + Window, !.uregister = 0]
                ELSE host
           e == [time |-> now, who |-> "one", cost |-> 1]
           Host == [uregister : Nat, uregister_expire : Int, cregister_expire : Int]
<1>1. /\ limit = "host" /\ limit' = limit /\ now' = now /\ load' = load /\ window' = window
      /\ ~ (host.uregister >= Amount /\ host.uregister_expire > now)
  BY DEF RegisterFromHost
<1>2. /\ now \in Nat /\ Logged(log, now) /\ Window \in Nat \ {0} /\ Amount \in Nat \ {0} /\ host \in Host
      /\ Tracked(log, now, host.uregister_expire - Window, host.uregister, Window - 1, Amount)
  BY <1>1, HostFacts
<1>3. host.uregister_expire \in Int /\ host.uregister \in Nat /\ Window - 1 \in Nat
  BY <1>2
<1>4. /\ h \in Host /\ h.uregister_expire \in Int /\ h.uregister \in Nat
      /\ (h.uregister_expire - Window) + (Window - 1) >= now /\ h.uregister < Amount
      /\ Tracked(log, now, h.uregister_expire - Window, h.uregister, Window - 1, Amount)
  <2>1. CASE host.uregister_expire <= now
    <3>1. h = [uregister |-> 0, uregister_expire |-> now + Window, cregister_expire |-> host.cregister_expire]
      BY <1>2, <2>1, Zenon
    <3>2. h \in Host /\ h.uregister_expire = now + Window /\ h.uregister = 0
      BY <1>2, <3>1
    <3>3. host.uregister_expire - Window \in Int /\ (host.uregister_expire - Window) + (Window - 1) < now
      BY <1>2, <1>3, <2>1
    <3>4. Tracked(log, now, now, 0, Window - 1, Amount)
      BY <1>2, <1>3, <3>3, TrackedNew
    <3>5. h.uregister_expire - Window = now /\ now + (Window - 1) >= now
      BY <1>2, <3>2
    <3> HIDE DEF h
    <3> QED
      BY <1>2, <3>2, <3>4, <3>5
  <2>2. CASE ~ (host.uregister_expire <= now)
    <3>1. h = host
      BY <2>2
    <3>2. host.uregister < Amount
      BY <1>1, <1>2, <1>3, <2>2
    <3>3. (host.uregister_expire - Window) + (Window - 1) >= now
      BY <1>2, <1>3, <2>2
    <3> HIDE DEF h
    <3> QED
      BY <1>2, <1>3, <3>1, <3>2, <3>3
  <2> QED
    BY <2>1, <2>2
<1>5. e \in Entry /\ e.time = now /\ e.who \in One /\ e.cost = 1
  BY <1>2 DEF Entry, One
<1>6. CASE sent
  <2>1. host' = [h EXCEPT !.uregister = @ + 1] /\ log' = Append(log, e)
    BY <1>6 DEF RegisterFromHost, LetThrough
  <2> HIDE DEF h, e
  <2>2. host' \in Host /\ host'.uregister_expire = h.uregister_expire /\ host'.uregister = h.uregister + 1
    BY <1>4, <2>1
  <2> DEFINE start == h.uregister_expire - Window
             w == Window - 1
  <2>3. start \in Int /\ w \in Nat /\ start + w >= now /\ h.uregister + e.cost <= Amount
        /\ h.uregister \in Nat /\ Tracked(log, now, start, h.uregister, w, Amount)
    BY <1>2, <1>3, <1>4, <1>5
  <2> HIDE DEF start, w
  <2>4. Logged(log', now) /\ Tracked(log', now, start, h.uregister + e.cost, w, Amount)
    <3>1. e \in Entry /\ e.time = now /\ e.who \in One
      BY <1>5
    <3>2. Amount \in Nat /\ now \in Int
      BY <1>2
    <3>3. Logged(Append(log, e), now) /\ Tracked(Append(log, e), now, start, h.uregister + e.cost, w, Amount)
      BY <1>2, <2>3, <3>1, <3>2, TrackedPass, SMTT(60)
    <3> QED
      BY <2>1, <3>3
  <2>5. Tracked(log', now, host'.uregister_expire - Window, host'.uregister, Window - 1, Amount)
    BY <1>5, <2>2, <2>4 DEF start, w
  <2> QED
    BY <1>1, <2>2, <2>4, <2>5, HostStep
<1>7. CASE ~ sent
  <2>1. host' = h /\ log' = log
    BY <1>7 DEF RegisterFromHost
  <2> HIDE DEF h
  <2> QED
    BY <1>1, <1>2, <1>4, <2>1, HostStep
<1> QED
  BY <1>6, <1>7

\* The expiry time of channels, and the end of an entry.
LEMMA EntryKeeps ==
  ASSUME LimitInv, ChannelFromHost \/ cleanup_host_table
  PROVE  LimitInv'
<1> DEFINE Host == [uregister : Nat, uregister_expire : Int, cregister_expire : Int]
<1>1. limit = "host" /\ limit' = limit /\ now' = now /\ load' = load /\ window' = window /\ log' = log
  BY DEF ChannelFromHost, cleanup_host_table
<1>2. /\ now \in Nat /\ Logged(log, now) /\ Window \in Nat \ {0} /\ Amount \in Nat \ {0} /\ host \in Host
      /\ Tracked(log, now, host.uregister_expire - Window, host.uregister, Window - 1, Amount)
  BY <1>1, HostFacts
<1>3. CASE ChannelFromHost
  <2>1. host' = [host EXCEPT !.cregister_expire = now + Window]
    BY <1>3 DEF ChannelFromHost
  <2>2. host' \in Host /\ host'.uregister_expire = host.uregister_expire /\ host'.uregister = host.uregister
    BY <1>2, <2>1
  <2> QED
    BY <1>1, <1>2, <2>2, HostStep
<1>4. CASE cleanup_host_table
  <2>1. host' = [uregister |-> 0, uregister_expire |-> 0, cregister_expire |-> 0]
        /\ host.uregister_expire < now
    BY <1>4 DEF cleanup_host_table, NoHost
  <2>2. host' \in Host /\ host'.uregister_expire = 0 /\ host'.uregister = 0
    BY <2>1
  <2> DEFINE start == host.uregister_expire - Window
             other == 0 - Window
             w == Window - 1
  <2>3. start \in Int /\ other \in Int /\ w \in Nat /\ start + w < now /\ other + w < now
    BY <1>2, <2>1
  <2>4. Tracked(log, now, start, host.uregister, w, Amount)
    BY <1>2
  <2> HIDE DEF start, other, w
  <2>5. Tracked(log, now, other, 0, w, Amount)
    BY <1>2, <2>3, <2>4, TrackedOver
  <2>6. Tracked(log', now, host'.uregister_expire - Window, host'.uregister, Window - 1, Amount)
    BY <1>1, <2>2, <2>5 DEF other, w
  <2> QED
    BY <1>1, <1>2, <2>2, <2>6, HostStep
<1> QED
  BY <1>3, <1>4

\* Every step keeps the invariant.
LEMMA LimitStep == LimitInv /\ [LimitNext]_limitVars => LimitInv'
<1> SUFFICES ASSUME LimitInv, [LimitNext]_limitVars PROVE LimitInv'
  OBVIOUS
<1>1. CASE UNCHANGED limitVars
  <2>1. limit' = limit /\ now' = now /\ window' = window /\ load' = load /\ host' = host /\ log' = log
    BY <1>1 DEF limitVars
  <2>2. BeganAt' = BeganAt /\ HasCounted' = HasCounted /\ LastsFor' = LastsFor /\ Room' = Room
    BY <2>1 DEF BeganAt, HasCounted, LastsFor, Room
  <2> QED
    BY <2>1, <2>2 DEF LimitInv, LimitTypes
<1> QED
  BY <1>1, TickKeeps, CommandKeepsLimit, RegisterKeeps, MailKeeps, HostKeeps, EntryKeeps DEF LimitNext

\* handle_service, s_user_register, s_chan_register and send_email: wherever a stretch as
\* long as a window begins, no more than two windows' worth is let through in it, for any
\* amounts, times and costs.
THEOREM WindowsBounded == LimitSpec => []WindowBound
<1>1. LimitInv => WindowBound
  <2> SUFFICES ASSUME LimitInv, NEW t \in Start .. now
               PROVE  CASE limit = "flood"    -> PointsIn({"one"}, t, t + Window) <= 2 * (Amount + MostPoints)
                        [] limit = "register" -> PointsIn({"one"}, t, t + Window) <= 2 * Amount
                        [] limit = "host"     -> PointsIn({"one"}, t, t + Window - 1) <= 2 * Amount
                        [] limit = "email"    -> PointsIn({"one"}, t, t + Window) <=
                                                   2 * (IF Amount = 0 THEN 1 ELSE Amount)
    BY Zenon DEF WindowBound
  <2>1. Points(log, One, t, t + LastsFor) <= 2 * Room
    BY TrackedBound DEF LimitInv
  <2>2. PointsIn({"one"}, t, t + LastsFor) <= 2 * Room
    BY <2>1, PointsOfLog DEF One
  <2>3. limit \in {"flood", "register", "host", "email"}
    BY LimitAssumption DEF LimitInv, LimitTypes
  <2>4. t + (Window - 1) = t + Window - 1
    BY StartNat, LimitAssumption DEF LimitInv, LimitTypes
  <2>5. limit = "flood" => PointsIn({"one"}, t, t + Window) <= 2 * (Amount + MostPoints)
    BY <2>2 DEF LastsFor, Room
  <2>6. limit = "register" => PointsIn({"one"}, t, t + Window) <= 2 * Amount
    BY <2>2 DEF LastsFor, Room
  <2>7. limit = "host" => PointsIn({"one"}, t, t + Window - 1) <= 2 * Amount
    BY <2>2, <2>4 DEF LastsFor, Room
  <2>8. limit = "email" => PointsIn({"one"}, t, t + Window) <= 2 * (IF Amount = 0 THEN 1 ELSE Amount)
    BY <2>2 DEF LastsFor, Room
  <2> QED
    BY <2>3, <2>5, <2>6, <2>7, <2>8, Zenon
<1> QED
  BY <1>1, LimitInitial, LimitStep, PTL DEF LimitSpec

\* handle_service and update_service_floodcount: over any stretch of time up to now a
\* service carries out what its flood_max allows, what it was relieved of second by
\* second, and the excess of one command.
THEOREM ServicesBounded == LimitSpec => []ServiceBound
<1>1. LimitInv => ServiceBound
  <2> SUFFICES ASSUME LimitInv, limit = "flood", NEW first \in Start .. now
               PROVE  PointsIn({"one", "others"}, first, now)
                        <= Amount + MostPoints + FloodGrace * (now - first)
    BY DEF ServiceBound
  <2> DEFINE p == Points(log, All, first, now)
             r == FloodGrace * (now - first)
  <2>1. p <= load + r /\ load <= Amount + MostPoints
    BY DEF LimitInv, LoadFits
  <2>2. log \in Seq(Entry) /\ first \in Int /\ now \in Int /\ load \in Nat /\ FloodGrace \in Nat
    BY StartNat, LimitAssumption DEF LimitInv, LimitTypes, Logged
  <2>3. p \in Nat
    BY <2>2, PointsNat
  <2>4. r \in Int
    BY <2>2
  <2>5. PointsIn({"one", "others"}, first, now) = p
    BY PointsOfLog DEF All
  <2> HIDE DEF p, r
  <2>6. p <= Amount + MostPoints + r
    BY <2>1, <2>2, <2>3, <2>4, MostCost, LimitAssumption
  <2> QED
    BY <2>5, <2>6 DEF r
<1> QED
  BY <1>1, LimitInitial, LimitStep, PTL DEF LimitSpec
==============================================================================
