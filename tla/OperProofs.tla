----------------------------- MODULE OperProofs -----------------------------
(***************************************************************************)
(* The services for operators: BanServ's table of bans and the syncs, for  *)
(* any network, any bans and durations and any unban_time (OperBans);      *)
(* JupeServ, for any network, any configured scores and any number of      *)
(* lines in flight; and BanServ's regular expressions, for any number of   *)
(* them and wherever the process ends (RegexpBans).                        *)
(***************************************************************************)
EXTENDS OperBans, JupeServ, RegexpBans, FiniteSetTheorems, TLAPS

\* How a leaf that names no prover is tried.
USE SMT, Zenon, SMTT(20)

(* OperBans.                                                               *)

\* What a server may hold whether or not a sync has reached it, unless it missed a
\* lift: of a ban that is not in the table nothing, of one that is in force that ban or
\* nothing, and of one that was lifted anything.
Explained ==
  \A s \in BanServers, b \in Bans :
    <<s, b>> \notin missed =>
      \/ holding[s][b] \in {Nothing, Due(operbans, b, clock)}
      \/ Sent(operbans, b, clock)

BanInv == BanTypeOK /\ Explained /\ SyncedAgree

-----------------------------------------------------------------------------

\* A pair that is not missed after a step was not missed before it and its lift, if there
\* is one, is sent; or a line changed what the server has; or the server has what is due.
LEMMA NotMissed ==
  ASSUME NEW tbl, NEW bans, Become(tbl, bans),
         NEW s \in BanServers, NEW b \in Bans, <<s, b>> \notin missed'
  PROVE  \/ <<s, b>> \notin missed /\ (Lifted(operbans, b) \/ Lifted(tbl, b) => Sent(tbl, b, clock))
         \/ bans[s][b] # holding[s][b]
         \/ bans[s][b] = Due(tbl, b, clock)
BY DEF Become

\* expire_operbans leaves rows, none of them past its time, and only removes.
LEMMA ExpiredRows ==
  ASSUME BanTypeOK
  PROVE  /\ Expired(operbans) \in [Bans -> [hold : Nat, remove : BOOLEAN]]
         /\ \A b \in Bans :
              /\ Expired(operbans)[b] \in {operbans[b], NoBan}
              /\ Due(Expired(operbans), b, clock) = Due(operbans, b, clock)
              /\ Placed(Expired(operbans), b) => Expired(operbans)[b] = operbans[b] /\ Due(operbans, b, clock) # Nothing
              /\ ~ Placed(Expired(operbans), b) => Due(operbans, b, clock) = Nothing
              /\ Expired(operbans)[b] = operbans[b] \/ operbans[b].hold <= clock
              /\ Lifted(Expired(operbans), b) => operbans[b].hold > clock /\ Lifted(operbans, b)
<1>1. Expired(operbans) \in [Bans -> [hold : Nat, remove : BOOLEAN]]
  BY DEF BanTypeOK, Expired, NoBan
<1>2. ASSUME NEW b \in Bans
      PROVE  /\ Expired(operbans)[b] = IF operbans[b].hold # 0 /\ operbans[b].hold <= clock
                                       THEN NoBan ELSE operbans[b]
             /\ operbans[b] \in [hold : Nat, remove : BOOLEAN] /\ clock \in Nat
  BY DEF BanTypeOK, Expired
<1> QED
  BY <1>1, <1>2, BanAssumption DEF Due, Placed, Lifted, NoBan, Nothing, Forever

\* What a line of push_ban leaves on a server.
LEMMA PushBan ==
  ASSUME NEW tbl, NEW b \in Bans, NEW old \in Nat, Placed(tbl, b), tbl[b].hold \in Nat,
         tbl[b].hold = 0 \/ tbl[b].hold > clock
  PROVE  /\ push_ban(tbl, b, old) \in {old, Due(tbl, b, clock)}
         /\ old = Nothing => push_ban(tbl, b, old) = Due(tbl, b, clock)
BY DEF push_ban, Ban, Due

\* For one server and one ban: what it has after a step is explained, and is what is due
\* if the server was synced or is reached by a full sync now.
Right(s, b) ==
  <<s, b>> \notin missed' =>
    /\ \/ holding'[s][b] \in {Nothing, Due(operbans', b, clock')}
       \/ Sent(operbans', b, clock')
    /\ s \in synced' => holding'[s][b] = Due(operbans', b, clock')

-----------------------------------------------------------------------------
(* One lemma for each kind of step.                                        *)

\* o_banserv_kline: whoever hears it and missed nothing had nothing before.
LEMMA KlineStep ==
  ASSUME BanInv, NEW k \in Bans, NEW for \in Durations \cup {0}, o_banserv_kline(k, for)
  PROVE  BanTypeOK' /\ \A s \in BanServers, b \in Bans : Right(s, b)
<1> DEFINE tab == Expired(operbans)
           row == [hold |-> IF for = 0 THEN 0 ELSE clock + for, remove |-> FALSE]
           tbl == [tab EXCEPT ![k] = row]
           bans == [s \in BanServers |->
                      IF s \in hearing THEN [holding[s] EXCEPT ![k] = push_ban(tbl, k, @)] ELSE holding[s]]
<1>1. /\ Become(tbl, bans) /\ ~ Placed(tab, k)
      /\ UNCHANGED <<clock, workaround, hearing, synced>>
  BY DEF o_banserv_kline
<1>2. clock \in Nat /\ for \in Nat /\ (for # 0 => for > 0)
  BY BanAssumption DEF BanInv, BanTypeOK
<1>3. tbl \in [Bans -> [hold : Nat, remove : BOOLEAN]]
  BY <1>2, ExpiredRows DEF BanInv
<1>4. tbl[k] = row /\ Placed(tbl, k) /\ (tbl[k].hold = 0 \/ tbl[k].hold > clock) /\ tbl[k].hold \in Nat
  BY <1>2, <1>3, ExpiredRows DEF BanInv, Placed, NoBan
<1>5. Due(tbl, k, clock) \in Nat
  BY <1>4, BanAssumption DEF Due, Forever, Nothing
<1> HIDE DEF tbl
<1>6. \A s \in BanServers : holding[s] \in [Bans -> Nat]
  BY DEF BanInv, BanTypeOK
<1>7. \A s \in BanServers : push_ban(tbl, k, holding[s][k]) \in Nat
  BY <1>4, <1>5, <1>6, PushBan
<1>8. BanTypeOK'
  <2>1. bans \in [BanServers -> [Bans -> Nat]]
    BY <1>6, <1>7
  <2>2. missed' \subseteq BanServers \X Bans
    BY <1>1 DEF Become, BanInv, BanTypeOK
  <2> QED
    BY <1>1, <1>3, <2>1, <2>2 DEF Become, BanInv, BanTypeOK
<1>9. ASSUME NEW s \in BanServers, NEW b \in Bans PROVE Right(s, b)
  <2> SUFFICES ASSUME <<s, b>> \notin missed' PROVE Right(s, b)
    BY DEF Right
  <2>1. /\ operbans' = tbl /\ holding' = bans /\ clock' = clock /\ synced' = synced
    BY <1>1 DEF Become
  <2>2. \/ <<s, b>> \notin missed /\ (Lifted(operbans, b) \/ Lifted(tbl, b) => Sent(tbl, b, clock))
        \/ bans[s][b] # holding[s][b]
        \/ bans[s][b] = Due(tbl, b, clock)
    BY <1>1, NotMissed, Zenon
  <2>3. s \in synced => s \in hearing
    BY DEF BanInv, BanTypeOK
  <2>4. CASE b = k
    <3>1. ~ Lifted(tbl, b)
      BY <2>4, <1>4 DEF Placed, Lifted
    <3>2. bans[s][b] = IF s \in hearing THEN push_ban(tbl, b, holding[s][b]) ELSE holding[s][b]
      BY <2>4, <1>6
    <3>3. Due(operbans, b, clock) = Nothing
      BY <1>1, <2>4, ExpiredRows DEF BanInv
    <3>4. CASE <<s, b>> \notin missed /\ ~ Lifted(operbans, b)
      <4>1. holding[s][b] = Nothing
        BY <3>3, <3>4 DEF BanInv, Explained, Sent
      <4> QED
        BY <4>1, <3>2, <1>4, <1>6, <2>1, <2>3, <2>4, PushBan DEF Right
    <3>5. CASE bans[s][b] # holding[s][b]
      BY <3>5, <3>2, <1>4, <1>6, <2>1, <2>4, PushBan, SMTT(60) DEF Right
    <3> QED
      BY <3>1, <3>4, <3>5, <2>1, <2>2 DEF Right, Sent
  <2>5. CASE b # k
    <3>1. bans[s][b] = holding[s][b]
      BY <2>5, <1>6
    <3>2. tbl[b] = tab[b]
      BY <2>5, ExpiredRows DEF tbl, BanInv
    <3> QED
      BY <3>1, <3>2, <2>1, <2>2, ExpiredRows DEF Right, BanInv, Explained, SyncedAgree, Due, Placed, Lifted, Sent
  <2> QED
    BY <2>4, <2>5
<1> QED
  BY <1>8, <1>9

\* o_banserv_unkline: the lift is in the table, and whoever hears it has nothing left.
LEMMA UnklineStep ==
  ASSUME BanInv, NEW k \in Bans, o_banserv_unkline(k)
  PROVE  BanTypeOK' /\ \A s \in BanServers, b \in Bans : Right(s, b)
<1> DEFINE tab == Expired(operbans)
           tbl == [tab EXCEPT ![k] = [hold |-> clock + bs_unban_time, remove |-> TRUE]]
           bans == [s \in BanServers |->
                      IF s \in hearing THEN [holding[s] EXCEPT ![k] = Nothing] ELSE holding[s]]
<1>1. /\ Become(tbl, bans) /\ Placed(tab, k)
      /\ UNCHANGED <<clock, workaround, hearing, synced>>
  BY DEF o_banserv_unkline
<1>2. clock \in Nat /\ clock > 0 /\ bs_unban_time \in Nat
  BY BanAssumption DEF BanInv, BanTypeOK
<1>3. tbl \in [Bans -> [hold : Nat, remove : BOOLEAN]]
  BY <1>2, ExpiredRows DEF BanInv
<1>4. tbl[k] = [hold |-> clock + bs_unban_time, remove |-> TRUE]
  BY ExpiredRows DEF BanInv
<1>5. \A s \in BanServers : holding[s] \in [Bans -> Nat]
  BY DEF BanInv, BanTypeOK
<1>6. BanTypeOK'
  <2>1. bans \in [BanServers -> [Bans -> Nat]]
    BY <1>5 DEF Nothing
  <2>2. missed' \subseteq BanServers \X Bans
    BY <1>1 DEF Become, BanInv, BanTypeOK
  <2> QED
    BY <1>1, <1>3, <2>1, <2>2 DEF Become, BanInv, BanTypeOK
<1>7. ASSUME NEW s \in BanServers, NEW b \in Bans, <<s, b>> \notin missed' PROVE Right(s, b)
  <2>1. operbans' = tbl /\ holding' = bans /\ clock' = clock /\ synced' = synced
    BY <1>1 DEF Become
  <2>2. \/ <<s, b>> \notin missed /\ (Lifted(operbans, b) \/ Lifted(tbl, b) => Sent(tbl, b, clock))
        \/ bans[s][b] # holding[s][b]
        \/ bans[s][b] = Due(tbl, b, clock)
    BY <1>1, <1>7, NotMissed, Zenon
  <2>3. s \in synced => s \in hearing
    BY DEF BanInv, BanTypeOK
  <2>4. CASE b = k
    <3>1. Lifted(tbl, b) /\ Due(tbl, b, clock) = Nothing
      BY <2>4, <1>2, <1>4 DEF Lifted, Placed, Due, NoBan
    <3>2. s \in hearing => bans[s][b] = Nothing
      BY <2>4, <1>5
    <3>3. CASE s \in hearing
      BY <3>1, <3>2, <3>3, <2>1 DEF Right
    <3>4. CASE s \notin hearing
      <4>1. bans[s][b] = holding[s][b]
        BY <3>4, SMTT(60)
      <4> QED
        BY <3>1, <3>4, <4>1, <2>1, <2>2, <2>3, <2>4, <1>2, <1>4, ExpiredRows
        DEF Right, BanInv, Explained, Sent
    <3> QED
      BY <3>3, <3>4
  <2>5. CASE b # k
    <3>1. bans[s][b] = holding[s][b]
      BY <2>5, <1>5
    <3>2. tbl[b] = tab[b]
      BY <2>5, ExpiredRows DEF BanInv
    <3> QED
      BY <3>1, <3>2, <2>1, <2>2, ExpiredRows DEF Right, BanInv, Explained, SyncedAgree, Due, Placed, Lifted, Sent
  <2> QED
    BY <2>4, <2>5
<1> QED
  BY <1>6, <1>7 DEF Right

\* A step that sends nothing: the table is expired (expire_operbans) and no server changes.
LEMMA ExpireStep ==
  ASSUME BanInv, expire_operbans
  PROVE  BanTypeOK' /\ \A s \in BanServers, b \in Bans : Right(s, b)
<1>1. /\ Become(Expired(operbans), holding)
      /\ UNCHANGED <<clock, workaround, hearing, synced>>
  BY DEF expire_operbans
<1>2. BanTypeOK'
  BY <1>1, ExpiredRows DEF Become, BanInv, BanTypeOK
<1>3. ASSUME NEW s \in BanServers, NEW b \in Bans, <<s, b>> \notin missed' PROVE Right(s, b)
  <2>1. operbans' = Expired(operbans) /\ holding' = holding /\ clock' = clock /\ synced' = synced
    BY <1>1 DEF Become
  <2>2. \/ <<s, b>> \notin missed /\ (Lifted(operbans, b) \/ Lifted(operbans', b) => Sent(operbans', b, clock))
        \/ holding[s][b] = Due(operbans', b, clock)
    BY <1>1, <1>3, <2>1, NotMissed, SMTT(60)
  <2> QED
    BY <2>1, <2>2, ExpiredRows DEF Right, BanInv, Explained, SyncedAgree, Sent
<1> QED
  BY <1>2, <1>3 DEF Right

\* What sync_bans sends a server leaves it, unless it missed a lift, with what it had or
\* with what is due; with what is due if nothing was left out.
LEMMA SyncedPair ==
  ASSUME BanInv, NEW S \in SUBSET hearing, NEW temps, NEW perms,
         NEW s \in BanServers, NEW b \in Bans
  PROVE  /\ Synced(S, temps, perms)[s][b] \in {holding[s][b], Due(operbans, b, clock)}
         /\ <<s, b>> \notin missed /\ s \in S /\ BanType[b] \in temps \cap perms =>
              Synced(S, temps, perms)[s][b] = Due(operbans, b, clock)
<1> DEFINE new == Synced(S, temps, perms)[s][b]
<1>1. /\ operbans[b] \in [hold : Nat, remove : BOOLEAN] /\ clock \in Nat /\ clock > 0
      /\ holding[s][b] \in Nat
  BY DEF BanInv, BanTypeOK
<1>2. s \notin S => new = holding[s][b]
  BY DEF Synced
<1>3. s \in S =>
        new = CASE operbans[b].hold > clock /\ BanType[b] \in temps ->
                     IF operbans[b].remove THEN Nothing ELSE push_ban(operbans, b, holding[s][b])
                [] Placed(operbans, b) /\ operbans[b].hold = 0 /\ BanType[b] \in perms ->
                     push_ban(operbans, b, holding[s][b])
                [] OTHER -> holding[s][b]
  BY DEF Synced
<1>4. CASE s \in S /\ operbans[b].hold > clock /\ BanType[b] \in temps
  <2>1. CASE operbans[b].remove
    BY <1>1, <1>3, <1>4, <2>1 DEF Due, Placed
  <2>2. CASE ~ operbans[b].remove
    <3>1. Placed(operbans, b)
      BY <2>2 DEF Placed, NoBan
    <3>2. new = push_ban(operbans, b, holding[s][b])
      BY <1>3, <1>4, <2>2
    <3>3. <<s, b>> \notin missed => holding[s][b] \in {Nothing, Due(operbans, b, clock)}
      BY <2>2 DEF BanInv, Explained, Sent, Lifted
    <3>4. Due(operbans, b, clock) = operbans[b].hold
      BY <3>1, <1>1, <1>4 DEF Due
    <3>5. holding[s][b] = operbans[b].hold => push_ban(operbans, b, holding[s][b]) = operbans[b].hold
      BY <1>1, <1>4 DEF push_ban, Ban
    <3> QED
      BY <3>1, <3>2, <3>3, <3>4, <3>5, <1>1, <1>4, PushBan
  <2> QED
    BY <2>1, <2>2
<1>5. CASE s \in S /\ Placed(operbans, b) /\ operbans[b].hold = 0 /\ BanType[b] \in perms
  <2>1. new = push_ban(operbans, b, holding[s][b])
    BY <1>1, <1>3, <1>5
  <2>2. <<s, b>> \notin missed => holding[s][b] \in {Nothing, Due(operbans, b, clock)}
    BY <1>5 DEF BanInv, Explained, Sent, Lifted, Placed
  <2>3. Due(operbans, b, clock) = Forever
    BY <1>5 DEF Due
  <2>4. holding[s][b] = Forever => push_ban(operbans, b, holding[s][b]) = Forever
    BY <1>5 DEF push_ban, Ban
  <2> QED
    BY <2>1, <2>2, <2>3, <2>4, <1>1, <1>5, PushBan
<1>6. CASE /\ s \in S
           /\ ~ (operbans[b].hold > clock /\ BanType[b] \in temps)
           /\ ~ (Placed(operbans, b) /\ operbans[b].hold = 0 /\ BanType[b] \in perms)
  <2>1. new = holding[s][b]
    BY <1>3, <1>6
  <2>2. BanType[b] \in temps \cap perms => Due(operbans, b, clock) = Nothing /\ ~ Sent(operbans, b, clock)
    BY <1>1, <1>6 DEF Due, Sent
  <2> QED
    BY <2>1, <2>2, <1>6 DEF BanInv, Explained
<1> QED
  BY <1>2, <1>4, <1>5, <1>6

\* A sync, full or not: the table is as it was, and no pair becomes missed.
LEMMA SyncStep ==
  ASSUME BanInv, NEW S \in SUBSET hearing, NEW temps, NEW perms,
         Become(operbans, Synced(S, temps, perms)),
         UNCHANGED <<clock, workaround, hearing>>,
         \/ synced' = synced
         \/ synced' = synced \cup S /\ temps = Types /\ perms = Types
  PROVE  BanTypeOK' /\ \A s \in BanServers, b \in Bans : Right(s, b)
<1> DEFINE new == Synced(S, temps, perms)
<1>1. operbans' = operbans /\ holding' = new
  BY DEF Become
<1>2. \A b \in Bans : Due(operbans, b, clock) \in Nat
  BY BanAssumption DEF BanInv, BanTypeOK, Due, Forever, Nothing
<1>3. BanTypeOK'
  <2>1. \A s \in BanServers, b \in Bans : new[s][b] \in Nat
    <3> SUFFICES ASSUME NEW s \in BanServers, NEW b \in Bans PROVE new[s][b] \in Nat
      OBVIOUS
    <3>1. new[s][b] \in {holding[s][b], Due(operbans, b, clock)}
      BY SyncedPair, Zenon
    <3>2. holding[s][b] \in Nat
      BY DEF BanInv, BanTypeOK
    <3> HIDE DEF new
    <3> QED
      BY <1>2, <3>1, <3>2
  <2>2. new \in [BanServers -> [Bans -> Nat]]
    <3>1. \A s \in BanServers : new[s] \in [Bans -> Nat]
      <4> SUFFICES ASSUME NEW s \in BanServers PROVE new[s] \in [Bans -> Nat]
        OBVIOUS
      <4>1. s \in S => new[s] = [b \in Bans |-> new[s][b]]
        BY DEF Synced
      <4>2. s \notin S => new[s] = holding[s]
        BY DEF Synced
      <4> HIDE DEF new
      <4> QED
        BY <2>1, <4>1, <4>2 DEF BanInv, BanTypeOK
    <3>2. new = [s \in BanServers |-> new[s]]
      BY DEF Synced
    <3> HIDE DEF new
    <3> QED
      BY <3>1, <3>2
  <2>3. missed' \subseteq BanServers \X Bans
    BY DEF Become, BanInv, BanTypeOK
  <2> QED
    BY <1>1, <2>2, <2>3 DEF BanInv, BanTypeOK
<1>4. ASSUME NEW s \in BanServers, NEW b \in Bans, <<s, b>> \notin missed' PROVE Right(s, b)
  <2>1. \/ <<s, b>> \notin missed
        \/ new[s][b] # holding[s][b]
        \/ new[s][b] = Due(operbans, b, clock)
    BY <1>4, NotMissed
  <2>2. new[s][b] \in {holding[s][b], Due(operbans, b, clock)}
    BY SyncedPair, Zenon
  <2>3. <<s, b>> \notin missed /\ s \in synced' => new[s][b] = Due(operbans, b, clock)
    <3>1. <<s, b>> \notin missed /\ s \in synced => new[s][b] = Due(operbans, b, clock)
      BY <2>2 DEF BanInv, SyncedAgree
    <3>2. <<s, b>> \notin missed /\ s \in S /\ temps = Types /\ perms = Types
            => new[s][b] = Due(operbans, b, clock)
      BY SyncedPair, BanAssumption
    <3> QED
      BY <3>1, <3>2
  <2> HIDE DEF new
  <2> QED
    BY <1>1, <2>1, <2>2, <2>3, SMTT(60) DEF Right, BanInv, Explained
<1> QED
  BY <1>3, <1>4 DEF Right

\* A server leaves, or is back with the bans it had or with none.
LEMMA LinkStep ==
  ASSUME BanInv, NEW t \in BanServers,
         SplitServer(t) \/ \E anew \in BOOLEAN : LinkServer(t, anew)
  PROVE  BanTypeOK' /\ \A s \in BanServers, b \in Bans : Right(s, b)
<1>1. CASE SplitServer(t)
  BY <1>1 DEF SplitServer, BanInv, BanTypeOK, Explained, SyncedAgree, Right
<1>2. ASSUME NEW anew \in BOOLEAN, LinkServer(t, anew)
      PROVE  BanTypeOK' /\ \A s \in BanServers, b \in Bans : Right(s, b)
  <2> DEFINE bans == IF anew THEN [holding EXCEPT ![t] = NothingHeld] ELSE holding
  <2>1. /\ Become(operbans, bans) /\ t \notin synced
        /\ clock' = clock /\ synced' = synced
    BY <1>2, Zenon DEF LinkServer, BanInv, BanTypeOK
  <2>2. bans \in [BanServers -> [Bans -> Nat]]
    BY DEF BanInv, BanTypeOK, NothingHeld, Nothing
  <2>3. BanTypeOK'
    BY <1>2, <2>1, <2>2, ZenonT(60) DEF LinkServer, Become, BanInv, BanTypeOK
  <2>4. ASSUME NEW s \in BanServers, NEW b \in Bans, <<s, b>> \notin missed' PROVE Right(s, b)
    <3>1. \/ <<s, b>> \notin missed
          \/ bans[s][b] # holding[s][b]
          \/ bans[s][b] = Due(operbans, b, clock)
      BY <2>1, <2>4, NotMissed, Zenon
    <3>2. bans[s][b] = holding[s][b] \/ (s = t /\ bans[s][b] = Nothing)
      BY DEF BanInv, BanTypeOK, NothingHeld
    <3>3. operbans' = operbans /\ holding' = bans
      BY <2>1 DEF Become
    <3> HIDE DEF bans
    <3> QED
      BY <2>1, <3>1, <3>2, <3>3 DEF Right, BanInv, Explained, SyncedAgree
  <2> QED
    BY <2>3, <2>4 DEF Right
<1> QED
  BY <1>1, <1>2

\* The process ends, perhaps between a statement and its line: nobody counts as synced.
LEMMA RestartStep ==
  ASSUME BanInv, NEW k \in Bans, NEW for \in Durations \cup {0}, NEW lift \in BOOLEAN,
         RestartBans(k, for, lift)
  PROVE  BanTypeOK' /\ \A s \in BanServers, b \in Bans : Right(s, b)
<1> DEFINE tab == Expired(operbans)
           row == IF lift THEN [hold |-> clock + bs_unban_time, remove |-> TRUE]
                  ELSE [hold |-> IF for = 0 THEN 0 ELSE clock + for, remove |-> FALSE]
           tbl == [tab EXCEPT ![k] = row]
<1>1. /\ lift = Placed(tab, k) /\ Become(tbl, holding) /\ synced' = {}
      /\ UNCHANGED <<clock, workaround, hearing>>
  BY DEF RestartBans
<1>2. /\ row \in [hold : Nat, remove : BOOLEAN]
      /\ clock \in Nat /\ clock > 0 /\ bs_unban_time \in Nat
      /\ lift => row = [hold |-> clock + bs_unban_time, remove |-> TRUE]
      /\ ~ lift => row.remove = FALSE
  <2>1. clock \in Nat /\ clock > 0 /\ for \in Nat /\ bs_unban_time \in Nat
    BY BanAssumption DEF BanInv, BanTypeOK
  <2>2. CASE lift
    BY <2>1, <2>2
  <2>3. CASE ~ lift
    BY <2>1, <2>3
  <2> QED
    BY <2>2, <2>3
<1> HIDE DEF row
<1>3. tbl \in [Bans -> [hold : Nat, remove : BOOLEAN]]
  BY <1>2, ExpiredRows DEF BanInv
<1>4. BanTypeOK'
  BY <1>1, <1>3 DEF Become, BanInv, BanTypeOK
<1>5. ASSUME NEW s \in BanServers, NEW b \in Bans, <<s, b>> \notin missed' PROVE Right(s, b)
  <2>1. \/ <<s, b>> \notin missed /\ (Lifted(operbans, b) \/ Lifted(tbl, b) => Sent(tbl, b, clock))
        \/ holding[s][b] = Due(tbl, b, clock)
    BY <1>1, <1>5, NotMissed
  <2>2. operbans' = tbl /\ holding' = holding /\ clock' = clock /\ synced' = {}
    BY <1>1 DEF Become
  <2>3. CASE b = k
    <3>1. tbl[b] = row
      BY <2>3, ExpiredRows DEF BanInv
    <3>2. CASE lift
      <4>1. Lifted(tbl, b)
        BY <3>1, <3>2, <1>2 DEF Lifted, NoBan
      <4> QED
        BY <4>1, <2>1, <2>2 DEF Right
    <3>3. CASE ~ lift
      <4>1. Due(operbans, b, clock) = Nothing
        BY <1>1, <2>3, <3>3, ExpiredRows DEF BanInv
      <4>2. ~ Sent(tbl, b, clock)
        BY <3>1, <3>3, <1>2, SMTT(60) DEF Sent, Lifted
      <4> QED
        BY <4>1, <4>2, <2>1, <2>2 DEF Right, BanInv, Explained, Sent
    <3> QED
      BY <3>2, <3>3
  <2>4. CASE b # k
    <3>1. tbl[b] = tab[b]
      BY <2>4, ExpiredRows DEF BanInv
    <3> QED
      BY <3>1, <2>1, <2>2, ExpiredRows, ZenonT(30) DEF Right, BanInv, Explained, Due, Placed, Lifted, Sent
  <2> QED
    BY <2>3, <2>4
<1> QED
  BY <1>4, <1>5 DEF Right

\* A second passes: bans run out on the servers and in the table alike, and a lift that is
\* not sent any more is missed by whoever still has its ban.
LEMMA ClockStep ==
  ASSUME BanInv, Clock
  PROVE  BanTypeOK' /\ \A s \in BanServers, b \in Bans : Right(s, b)
<1>1. /\ clock \in Nat /\ clock > 0 /\ clock' = clock + 1 /\ clock' <= MaxClock
      /\ UNCHANGED <<workaround, operbans, hearing, synced>>
      /\ MaxClock \in Nat /\ Forever > MaxClock
  BY BanAssumption DEF BanInv, BanTypeOK, Clock, Forever
<1>2. BanTypeOK'
  <2>1. holding' \in [BanServers -> [Bans -> Nat]]
    BY DEF Clock, BanInv, BanTypeOK, Nothing
  <2>2. missed' \subseteq BanServers \X Bans
    BY DEF Clock, BanInv, BanTypeOK
  <2> QED
    BY <1>1, <2>1, <2>2 DEF BanInv, BanTypeOK
<1>3. ASSUME NEW s \in BanServers, NEW b \in Bans, <<s, b>> \notin missed' PROVE Right(s, b)
  <2>1. /\ holding'[s][b] = IF holding[s][b] <= clock' THEN Nothing ELSE holding[s][b]
        /\ holding[s][b] \in Nat /\ operbans[b] \in [hold : Nat, remove : BOOLEAN]
    BY DEF Clock, BanInv, BanTypeOK
  <2>2. \/ <<s, b>> \notin missed /\ (Lifted(operbans, b) => Sent(operbans, b, clock'))
        \/ holding'[s][b] = Due(operbans, b, clock')
    BY <1>3 DEF Clock
  <2>3. holding[s][b] \in {Nothing, Due(operbans, b, clock)} => holding'[s][b] \in {Nothing, Due(operbans, b, clock')}
    BY <1>1, <2>1 DEF Due, Nothing
  <2>4. holding[s][b] = Due(operbans, b, clock) => holding'[s][b] = Due(operbans, b, clock')
    BY <1>1, <2>1 DEF Due, Nothing
  <2> QED
    BY <1>1, <2>2, <2>3, <2>4 DEF Right, BanInv, Explained, SyncedAgree, Sent
<1> QED
  BY <1>2, <1>3 DEF Right

-----------------------------------------------------------------------------

\* BanInv is inductive.
LEMMA BanStep == BanInv /\ [BanNext]_banVars => BanInv'
<1> SUFFICES ASSUME BanInv, [BanNext]_banVars PROVE BanInv'
  OBVIOUS
<1> DEFINE Goal == BanTypeOK' /\ \A s \in BanServers, b \in Bans : Right(s, b)
<1>1. Goal => BanInv'
  <2> SUFFICES ASSUME Goal PROVE BanInv'
    OBVIOUS
  <2>1. Explained'
    BY DEF Explained, Right
  <2>2. SyncedAgree'
    <3>1. synced' \subseteq BanServers
      BY DEF BanTypeOK
    <3> QED
      BY <3>1 DEF SyncedAgree, Right
  <2> QED
    BY <2>1, <2>2 DEF BanInv
<1> HIDE DEF Goal
<1>2. ASSUME NEW b \in Bans, NEW for \in Durations \cup {0}, o_banserv_kline(b, for) PROVE BanInv'
  BY <1>1, <1>2, KlineStep DEF Goal
<1>3. ASSUME NEW b \in Bans, o_banserv_unkline(b) PROVE BanInv'
  BY <1>1, <1>3, UnklineStep DEF Goal
<1>4. ASSUME NEW b \in Bans, NEW for \in Durations \cup {0}, NEW lift \in BOOLEAN,
             RestartBans(b, for, lift)
      PROVE  BanInv'
  BY <1>1, <1>4, RestartStep DEF Goal
<1>5. CASE expire_operbans
  BY <1>1, <1>5, ExpireStep DEF Goal
<1>6. ASSUME NEW S \in SUBSET hearing, sync_bans(S) PROVE BanInv'
  BY <1>1, <1>6, SyncStep DEF Goal, sync_bans
<1>7. ASSUME NEW S \in SUBSET hearing, NEW t \in Types, NEW garbled \in SUBSET Types,
             SyncType(S, t, garbled)
      PROVE  BanInv'
  BY <1>1, <1>7, SyncStep DEF Goal, SyncType
<1>8. ASSUME NEW s \in BanServers, SplitServer(s) \/ \E anew \in BOOLEAN : LinkServer(s, anew)
      PROVE  BanInv'
  BY <1>1, <1>8, LinkStep, SMTT(60) DEF Goal
<1>9. CASE Clock
  BY <1>1, <1>9, ClockStep DEF Goal
<1>10. CASE UNCHANGED banVars
  BY <1>10 DEF banVars, BanInv, BanTypeOK, Explained, SyncedAgree, Due, Placed, Lifted, Sent
<1> QED
  BY <1>2, <1>3, <1>4, <1>5, <1>6, <1>7, <1>8, <1>9, <1>10 DEF BanNext

\* Whatever is placed, lifted, lost and restarted, a server that a full sync has reached
\* holds what the table says, unless it missed a lift that the table no longer has.
THEOREM SyncsSuffice == BanSpec => []SyncedAgree
<1>1. BanInit => BanInv
  <2> SUFFICES ASSUME BanInit PROVE BanInv
    OBVIOUS
  <2>1. \A b \in Bans : Due(operbans, b, clock) = Nothing
    BY Zenon DEF BanInit, Due, Placed, NoBan
  <2>2. \A s \in BanServers, b \in Bans : holding[s][b] = Nothing
    BY Zenon DEF BanInit, NothingHeld
  <2>3. BanTypeOK
    BY BanAssumption DEF BanInit, BanTypeOK, NothingHeld, Nothing, NoBan
  <2>4. synced \subseteq BanServers
    BY DEF BanInit
  <2> QED
    BY <2>1, <2>2, <2>3, <2>4 DEF BanInv, Explained, SyncedAgree
<1>2. BanInv => SyncedAgree
  BY DEF BanInv
<1> QED
  BY <1>1, <1>2, BanStep, PTL DEF BanSpec

-----------------------------------------------------------------------------
(* JupeServ.                                                               *)

\* The part of the invariant only the proof needs.
VotesFinite == \A p \in pending : IsFiniteSet(p.servers)

IInv ==
  /\ TypeOK /\ JupesPersist /\ VotesMakeSense
  /\ VotesFinite /\ VotesCounted /\ NothingElseHeld

\* A step of the network or of the connection that leaves JupeServ's own
\* lists alone.
Elsewhere ==
  \/ \E s \in Servers : NetworkLink(s) \/ NetworkSplit(s)
  \/ NetworkPong
  \/ \E s \in Uplinks : connect_to_server(s)
  \/ c_server \/ signoff_server
  \/ \E s \in Servers : Dropped(s) \/ c_sid(s) \/ c_squit(s) \/ c_pong(s)

\* The vote an oper's call leaves when it does not reach its threshold.
Called(p, pts, from) == [p EXCEPT !.points = pts, !.servers = @ \cup {from}]

-----------------------------------------------------------------------------
(* Types.                                                                  *)

\* What the network makes of our lines is again a set of servers, provided we
\* name servers.
LEMMA DeliverType ==
  ASSUME TypeOK, NEW S, NEW J \in SUBSET Servers, NEW rest, Deliver(S, J, rest)
  PROVE  net' \subseteq Servers /\ held' \subseteq Servers /\ crossed' \subseteq Servers
BY DEF TypeOK, Deliver

\* The vote a call works on is a vote.
LEMMA VoteForType ==
  ASSUME TypeOK, NEW name \in Servers, NEW add \in BOOLEAN, NEW pts \in Nat,
         NEW p \in VoteFor(name, add, pts)
  PROVE  p \in Vote /\ p.name = name
BY DEF TypeOK, VoteFor, Pending, Vote

\* The steps that are not commands, nor a restart.
LEMMA ElsewhereType == TypeOK /\ Elsewhere => TypeOK'
<1> SUFFICES ASSUME TypeOK, Elsewhere PROVE TypeOK'
  OBVIOUS
<1>u. Uplinks \subseteq Servers
  BY UplinkAssumption
<1>1. ASSUME NEW s \in Servers, NetworkLink(s) PROVE TypeOK'
  BY <1>1 DEF TypeOK, NetworkLink, Send, Message
<1>2. ASSUME NEW s \in Servers, NetworkSplit(s) PROVE TypeOK'
  BY <1>2 DEF TypeOK, NetworkSplit, Send, Message
<1>3. CASE NetworkPong
  <2>1. uplink \in Servers
    BY <1>3, <1>u DEF TypeOK, NetworkPong
  <2> QED
    BY <1>3, <2>1 DEF TypeOK, NetworkPong, Send, Message
<1>4. ASSUME NEW s \in Uplinks, connect_to_server(s) PROVE TypeOK'
  BY <1>4, <1>u DEF TypeOK, connect_to_server
<1>5. CASE c_server
  BY <1>5, <1>u DEF TypeOK, c_server
<1>6. CASE signoff_server
  BY <1>6 DEF TypeOK, signoff_server, Down
<1>7. ASSUME NEW s \in Servers, Dropped(s) PROVE TypeOK'
  BY <1>7 DEF TypeOK, Dropped, Read
<1>8. ASSUME NEW s \in Servers, c_sid(s) PROVE TypeOK'
  BY <1>8 DEF TypeOK, c_sid, Read
<1>9. ASSUME NEW s \in Servers, c_squit(s) PROVE TypeOK'
  <2>1. net' \subseteq Servers /\ held' \subseteq Servers /\ crossed' \subseteq Servers
    <3>1. CASE UNCHANGED <<net, held, crossed>>
      BY <3>1 DEF TypeOK
    <3>2. CASE h_jupeserv_squit(s)
      BY <3>2, DeliverType DEF h_jupeserv_squit
    <3> QED
      BY <1>9, <3>1, <3>2 DEF c_squit
  <2>2. linked' \subseteq Servers
    BY <1>9 DEF TypeOK, c_squit, exit_client
  <2> QED
    BY <1>9, <2>1, <2>2 DEF TypeOK, c_squit, Read
<1>10. ASSUME NEW s \in Servers, c_pong(s) PROVE TypeOK'
  <2>1. net' \subseteq Servers /\ held' \subseteq Servers /\ crossed' \subseteq Servers
    <3>1. active \in SUBSET Servers
      BY DEF TypeOK
    <3>2. PICK found \in SUBSET (active \cap linked) : Deliver(found, active, Tail(inbox))
      BY <1>10 DEF c_pong, h_jupeserv_finburst
    <3> QED
      BY <3>1, <3>2, DeliverType
  <2>2. linked' \subseteq Servers
    BY <1>10 DEF TypeOK, c_pong, h_jupeserv_finburst, exit_client
  <2> QED
    BY <1>10, <2>1, <2>2, NoServerAssumption DEF TypeOK, c_pong, Read
<1> QED
  BY <1>1, <1>2, <1>3, <1>4, <1>5, <1>6, <1>7, <1>8, <1>9, <1>10 DEF Elsewhere

\* add_jupe and RemoveJupe keep the network's part of the types.
LEMMA AddJupeType ==
  ASSUME TypeOK, NEW name \in Servers, add_jupe(name)
  PROVE  /\ active' \subseteq Servers /\ linked' \subseteq Servers
         /\ net' \subseteq Servers /\ held' \subseteq Servers /\ crossed' \subseteq Servers
         /\ UNCHANGED <<uplink, link, inbox>>
<1>1. (IF finished_bursting THEN {name} ELSE {}) \in SUBSET Servers
  OBVIOUS
<1>2. net' \subseteq Servers /\ held' \subseteq Servers /\ crossed' \subseteq Servers
  BY <1>1, DeliverType DEF add_jupe
<1> QED
  BY <1>2 DEF TypeOK, add_jupe, exit_client

\* Lifting a jupe keeps the types.
LEMMA RemoveJupeType ==
  ASSUME TypeOK, NEW name \in Servers, RemoveJupe(name)
  PROVE  TypeOK'
<1>1. net' \subseteq Servers /\ held' \subseteq Servers /\ crossed' \subseteq Servers
  BY DeliverType DEF RemoveJupe
<1> QED
  BY <1>1 DEF TypeOK, RemoveJupe, Pending

-----------------------------------------------------------------------------
(* Votes.                                                                  *)

\* No call counts more than MaxScore.
LEMMA MaxScoreBound ==
  /\ MaxScore \in Nat
  /\ \A score \in {admin_score, oper_score} : score \in Nat /\ score <= MaxScore
BY ScoreAssumption DEF MaxScore

\* The call of one more server adds at most MaxScore to what its vote may
\* have moved.
LEMMA OneMoreVoter ==
  ASSUME NEW S, IsFiniteSet(S), NEW from, from \notin S
  PROVE  /\ IsFiniteSet(S \cup {from})
         /\ MaxScore * Cardinality(S \cup {from}) = MaxScore * Cardinality(S) + MaxScore
         /\ MaxScore * Cardinality(S) \in Nat
<1>1. IsFiniteSet(S \cup {from}) /\ Cardinality(S \cup {from}) = Cardinality(S) + 1
  BY FS_AddElement
<1>2. Cardinality(S) \in Nat
  BY FS_CardinalityType
<1>3. \A m, n \in Nat : m * (n + 1) = m * n + m /\ m * n \in Nat
  OBVIOUS
<1> QED
  BY <1>1, <1>2, <1>3, MaxScoreBound

\* What VotesMakeSense, VotesFinite and VotesCounted say of one vote.
Sound(p, juped) ==
  /\ p.add = (p.name \notin juped)
  /\ IsFiniteSet(p.servers)
  /\ p.points > 0
  /\ IF p.add
     THEN p.points < jupe_score /\ p.points <= MaxScore * Cardinality(p.servers)
     ELSE p.points < unjupe_score
            /\ p.points >= unjupe_score - MaxScore * Cardinality(p.servers)

VoteInv == VotesMakeSense /\ VotesFinite /\ VotesCounted

\* The invariants on votes, vote by vote.
LEMMA VoteInvSound ==
  VoteInv <=> \A p \in pending : Sound(p, active) /\ Pending(p.name) = {p}
BY DEF VoteInv, VotesMakeSense, VotesFinite, VotesCounted, Sound

\* A vote that ends leaves the others sound, also when the name changes sides.
LEMMA VoteEnds ==
  ASSUME VoteInv, NEW name,
         pending' = pending \ Pending(name),
         active' = active \cup {name} \/ active' = active \ {name}
  PROVE  VoteInv'
<1>1. ASSUME NEW p \in pending' PROVE Sound(p, active') /\ Pending(p.name)' = {p}
  <2>1. p \in pending /\ p.name # name
    BY <1>1 DEF Pending
  <2>2. Sound(p, active) /\ Pending(p.name) = {p}
    BY <2>1, VoteInvSound
  <2>3. (p.name \in active') = (p.name \in active)
    BY <2>1
  <2>4. Sound(p, active')
    BY <2>2, <2>3 DEF Sound
  <2>5. Pending(p.name)' = {p}
    BY <2>1, <2>2 DEF Pending
  <2> QED
    BY <2>4, <2>5
<1>2. \A p \in pending' : Sound(p, active') /\ Pending(p.name)' = {p}
  BY <1>1
<1> QED
  BY <1>2 DEF VoteInv, VotesMakeSense, VotesFinite, VotesCounted, Sound

\* A vote that goes on as q stays the only one of its name.
LEMMA VoteGoesOn ==
  ASSUME TypeOK, VoteInv, NEW name \in Servers, NEW add \in BOOLEAN, NEW pts \in Nat,
         NEW p \in VoteFor(name, add, pts), NEW q,
         q.name = name, Sound(q, active),
         pending' = (pending \ {p}) \cup {q}, active' = active
  PROVE  VoteInv'
<1>0. p.name = name
  BY VoteForType
<1>1. pending \ {p} = pending \ Pending(name)
  <2>1. CASE Pending(name) = {}
    BY <2>1, <1>0 DEF Pending
  <2>2. CASE Pending(name) # {}
    <3>1. p \in pending
      BY <2>2 DEF VoteFor, Pending
    <3>2. Pending(name) = {p}
      BY <3>1, <1>0, VoteInvSound
    <3> QED
      BY <3>2
  <2> QED
    BY <2>1, <2>2
<1>2. ASSUME NEW r \in pending' PROVE Sound(r, active') /\ Pending(r.name)' = {r}
  <2>1. CASE r = q
    BY <2>1, <1>1 DEF Pending
  <2>2. CASE r # q
    <3>1. r \in pending /\ r.name # name
      BY <2>2, <1>1, <1>2 DEF Pending
    <3>2. Sound(r, active) /\ Pending(r.name) = {r}
      BY <3>1, VoteInvSound
    <3>3. Pending(r.name)' = {r}
      BY <3>1, <3>2, <1>1 DEF Pending
    <3> QED
      BY <3>2, <3>3
  <2> QED
    BY <2>1, <2>2
<1>3. \A r \in pending' : Sound(r, active') /\ Pending(r.name)' = {r}
  BY <1>2
<1> QED
  BY <1>3 DEF VoteInv, VotesMakeSense, VotesFinite, VotesCounted, Sound

-----------------------------------------------------------------------------
(* The invariant.                                                          *)

\* No jupes, no votes, no link.
LEMMA Initial == Init => IInv
BY DEF Init, IInv, TypeOK, JupesPersist, VotesMakeSense, VotesFinite, VotesCounted,
       NothingElseHeld, Vote, Message

\* What we send puts nothing in the network's hands that is not named in it.
LEMMA DeliverHeld ==
  ASSUME NEW S, NEW J, NEW rest, Deliver(S, J, rest), NEW A,
         held \ S \subseteq A, J \subseteq A
  PROVE  held' \subseteq A
BY DEF Deliver

\* A vote's threshold is met: the name is juped.
LEMMA AddJupeStep ==
  ASSUME IInv, NEW name \in Servers,
         pending' = pending \ Pending(name), jupes' = jupes \cup {name}, add_jupe(name)
  PROVE  IInv'
<1>1. TypeOK'
  <2>1. pending' \subseteq Vote /\ jupes' \subseteq Servers
    BY DEF IInv, TypeOK
  <2> QED
    BY <2>1, AddJupeType DEF IInv, TypeOK
<1>2. JupesPersist'
  BY DEF IInv, JupesPersist, add_jupe
<1>3. VoteInv'
  BY VoteEnds DEF IInv, VoteInv, add_jupe
<1>4. NothingElseHeld'
  <2>1. held \subseteq active' /\ name \in active'
    BY DEF IInv, NothingElseHeld, add_jupe
  <2>2. held \ ({name} \cap linked) \subseteq active'
    BY <2>1
  <2>3. (IF finished_bursting THEN {name} ELSE {}) \subseteq active'
    BY <2>1
  <2> QED
    BY <2>2, <2>3, DeliverHeld DEF NothingElseHeld, add_jupe
<1> QED
  BY <1>1, <1>2, <1>3, <1>4 DEF IInv, VoteInv

\* The jupe is lifted.
LEMMA RemoveJupeStep ==
  ASSUME IInv, NEW name \in Servers, RemoveJupe(name)
  PROVE  IInv'
<1>1. TypeOK'
  BY RemoveJupeType DEF IInv
<1>2. JupesPersist'
  BY DEF IInv, JupesPersist, RemoveJupe
<1>3. VoteInv'
  BY VoteEnds DEF IInv, VoteInv, RemoveJupe
<1>4. NothingElseHeld'
  <2>1. held \ {name} \subseteq active'
    BY DEF IInv, NothingElseHeld, RemoveJupe
  <2> QED
    BY <2>1, DeliverHeld DEF NothingElseHeld, RemoveJupe
<1> QED
  BY <1>1, <1>2, <1>3, <1>4 DEF IInv, VoteInv

\* A vote goes on as q, and nothing else changes.
LEMMA VoteStep ==
  ASSUME IInv, NEW name \in Servers, NEW add \in BOOLEAN, NEW pts \in Nat,
         NEW p \in VoteFor(name, add, pts), NEW q \in Vote,
         q.name = name, Sound(q, active),
         pending' = (pending \ {p}) \cup {q}, UNCHANGED <<active, jupes, network>>
  PROVE  IInv'
<1>1. TypeOK'
  BY DEF IInv, TypeOK, network
<1>2. VoteInv'
  <2>1. active' = active
    OBVIOUS
  <2> QED
    BY <2>1, VoteGoesOn DEF IInv, VoteInv
<1>3. JupesPersist' /\ NothingElseHeld'
  BY DEF IInv, JupesPersist, NothingElseHeld, network
<1> QED
  BY <1>1, <1>2, <1>3 DEF IInv, VoteInv

\* CALLJUPE: the vote succeeds, or goes on with one more voter.
LEMMA CallJupeStep ==
  ASSUME IInv, NEW name \in Servers, NEW from \in linked,
         NEW score \in {admin_score, oper_score}, s_jupeserv_calljupe(name, from, score)
  PROVE  IInv'
<1>0. score \in Nat /\ score <= MaxScore /\ MaxScore \in Nat /\ jupe_score \in Nat
      /\ from \in Servers /\ score > 0
  BY MaxScoreBound, ScoreAssumption, SMTT(60) DEF IInv, TypeOK, s_jupeserv_calljupe
<1>1. PICK p \in VoteFor(name, TRUE, 0) :
        /\ from \notin p.servers
        /\ LET q == [p EXCEPT !.points = @ + score, !.servers = @ \cup {from}]
           IN \/ /\ q.points >= jupe_score
                 /\ pending' = pending \ {p}
                 /\ jupes' = jupes \cup {name}
                 /\ add_jupe(name)
              \/ /\ q.points < jupe_score
                 /\ pending' = (pending \ {p}) \cup {q}
                 /\ UNCHANGED <<active, jupes, network>>
  BY Zenon DEF s_jupeserv_calljupe
<1>2. p \in Vote /\ p.name = name
  BY VoteForType, Zenon DEF IInv
<1>3. /\ p.add /\ IsFiniteSet(p.servers) /\ p.points \in Nat
      /\ p.points <= MaxScore * Cardinality(p.servers)
      /\ Pending(name) \subseteq {p}
  <2>1. CASE Pending(name) = {}
    <3>1. p = [name |-> name, add |-> TRUE, points |-> 0, servers |-> {}]
      BY <2>1, Zenon DEF VoteFor
    <3>2. IsFiniteSet({}) /\ Cardinality({}) = 0
      BY FS_EmptySet
    <3>3. MaxScore * 0 = 0
      BY <1>0
    <3> QED
      BY <2>1, <3>1, <3>2, <3>3
  <2>2. CASE Pending(name) # {}
    <3>1. p \in pending
      BY <2>2 DEF VoteFor, Pending
    <3>2. Sound(p, active) /\ Pending(p.name) = {p}
      BY <3>1, VoteInvSound DEF IInv, VoteInv
    <3>3. p.add
      BY <3>2, <1>2, Zenon DEF Sound, s_jupeserv_calljupe
    <3> QED
      BY <3>2, <3>3, <1>2 DEF Sound, Vote
  <2> QED
    BY <2>1, <2>2
<1> DEFINE q == Called(p, p.points + score, from)
<1>4. q = [p EXCEPT !.points = @ + score, !.servers = @ \cup {from}]
  BY <1>2 DEF Called, Vote
<1>5. q \in Vote /\ q.name = name /\ q.add = p.add /\ q.points = p.points + score
      /\ q.servers = p.servers \cup {from}
  <2>1. p.points + score \in Nat
    BY <1>0, <1>3
  <2> QED
    BY <2>1, <1>0, <1>2, Zenon DEF Called, Vote
<1> HIDE DEF q
<1>6. CASE q.points >= jupe_score /\ pending' = pending \ {p}
             /\ jupes' = jupes \cup {name} /\ add_jupe(name)
  <2>1. pending \ {p} = pending \ Pending(name)
    BY <1>2, <1>3 DEF Pending
  <2> QED
    BY <1>6, <2>1, AddJupeStep
<1>7. CASE q.points < jupe_score /\ pending' = (pending \ {p}) \cup {q}
             /\ UNCHANGED <<active, jupes, network>>
  <2>1. /\ IsFiniteSet(q.servers)
        /\ MaxScore * Cardinality(q.servers) = MaxScore * Cardinality(p.servers) + MaxScore
        /\ MaxScore * Cardinality(p.servers) \in Nat
    <3>1. from \notin p.servers /\ IsFiniteSet(p.servers)
      BY <1>1, <1>3
    <3>2. q.servers = p.servers \cup {from}
      BY <1>5
    <3> QED
      BY <3>1, <3>2, OneMoreVoter
  <2>2. q.points > 0 /\ q.points <= MaxScore * Cardinality(q.servers)
    BY <2>1, <1>0, <1>3, <1>5
  <2>3. q.add = (q.name \notin active)
    BY <1>3, <1>5, Zenon DEF s_jupeserv_calljupe, Vote
  <2>4. Sound(q, active)
    BY <1>7, <1>3, <1>5, <2>1, <2>2, <2>3, ZenonT(60) DEF Sound
  <2> QED
    BY <1>7, <1>5, <2>4, VoteStep, Zenon
<1> QED
  BY <1>1, <1>4, <1>6, <1>7

\* CALLUNJUPE: likewise, counting down.
LEMMA CallUnjupeStep ==
  ASSUME IInv, NEW name \in Servers, NEW from \in linked,
         NEW score \in {admin_score, oper_score}, s_jupeserv_callunjupe(name, from, score)
  PROVE  IInv'
<1>0. score \in Nat /\ score <= MaxScore /\ MaxScore \in Nat /\ unjupe_score \in Nat
      /\ from \in Servers /\ score > 0
  BY MaxScoreBound, ScoreAssumption DEF IInv, TypeOK, s_jupeserv_callunjupe
<1>1. PICK p \in VoteFor(name, FALSE, unjupe_score) :
        /\ from \notin p.servers
        /\ LET q == [p EXCEPT !.points = @ - score, !.servers = @ \cup {from}]
           IN \/ /\ q.points <= 0
                 /\ RemoveJupe(name)
              \/ /\ q.points > 0
                 /\ pending' = (pending \ {p}) \cup {q}
                 /\ UNCHANGED <<active, jupes, network>>
  BY Zenon DEF s_jupeserv_callunjupe
<1>2. p \in Vote /\ p.name = name
  BY <1>0, VoteForType, Zenon DEF IInv
<1>3. /\ ~p.add /\ IsFiniteSet(p.servers) /\ p.points \in Nat /\ p.points <= unjupe_score
      /\ p.points >= unjupe_score - MaxScore * Cardinality(p.servers)
  <2>1. CASE Pending(name) = {}
    <3>1. p = [name |-> name, add |-> FALSE, points |-> unjupe_score, servers |-> {}]
      BY <2>1 DEF VoteFor
    <3>2. IsFiniteSet({}) /\ Cardinality({}) = 0
      BY FS_EmptySet
    <3>3. MaxScore * 0 = 0
      BY <1>0
    <3> QED
      BY <1>0, <3>1, <3>2, <3>3
  <2>2. CASE Pending(name) # {}
    <3>1. p \in pending
      BY <2>2 DEF VoteFor, Pending
    <3>2. Sound(p, active)
      BY <3>1, VoteInvSound DEF IInv, VoteInv
    <3>3. ~p.add
      BY <3>2, <1>2, Zenon DEF Sound, s_jupeserv_callunjupe
    <3>4. p.points \in Nat
      BY <1>2 DEF Vote
    <3> QED
      BY <1>0, <3>2, <3>3, <3>4 DEF Sound
  <2> QED
    BY <2>1, <2>2
<1> DEFINE q == Called(p, p.points - score, from)
<1>4. q = [p EXCEPT !.points = @ - score, !.servers = @ \cup {from}]
  BY <1>2 DEF Called, Vote
<1>5. q.points = p.points - score
  BY <1>2 DEF Called, Vote
<1>6. CASE RemoveJupe(name)
  BY <1>6, RemoveJupeStep
<1>7. CASE q.points > 0 /\ pending' = (pending \ {p}) \cup {q}
             /\ UNCHANGED <<active, jupes, network>>
  <2>1. p.points - score \in Nat
    BY <1>7, <1>5, <1>0, <1>3
  <2>2. q \in Vote /\ q.name = name /\ q.add = p.add /\ q.servers = p.servers \cup {from}
    BY <2>1, <1>0, <1>2, Zenon DEF Called, Vote
  <2> HIDE DEF q
  <2>3. /\ IsFiniteSet(q.servers)
        /\ MaxScore * Cardinality(q.servers) = MaxScore * Cardinality(p.servers) + MaxScore
        /\ MaxScore * Cardinality(p.servers) \in Nat
    <3>1. from \notin p.servers /\ IsFiniteSet(p.servers)
      BY <1>1, <1>3
    <3>2. q.servers = p.servers \cup {from}
      BY <2>2
    <3> QED
      BY <3>1, <3>2, OneMoreVoter, Zenon
  <2>4. /\ q.points < unjupe_score
        /\ q.points >= unjupe_score - MaxScore * Cardinality(q.servers)
    BY <2>3, <1>0, <1>3, <1>5
  <2>5. q.add = (q.name \notin active)
    BY <1>3, <2>2 DEF s_jupeserv_callunjupe, Vote
  <2>6. Sound(q, active)
    BY <1>7, <1>3, <2>2, <2>3, <2>4, <2>5, ZenonT(30) DEF Sound
  <2> QED
    BY <1>0, <1>7, <2>2, <2>6, VoteStep, Zenon
<1> HIDE DEF q
<1> QED
  BY <1>1, <1>4, <1>6, <1>7

\* The network and the connection never touch the votes, and give back to the
\* network only names that are juped.
LEMMA ElsewhereStep == IInv /\ Elsewhere => IInv'
<1> SUFFICES ASSUME IInv, Elsewhere PROVE IInv'
  OBVIOUS
<1>1. TypeOK'
  BY ElsewhereType, SMTT(60) DEF IInv
<1>2. UNCHANGED <<pending, active, jupes>>
  BY Zenon DEF Elsewhere, NetworkLink, NetworkSplit, NetworkPong, connect_to_server, c_server,
         signoff_server, Dropped, c_sid, c_squit, c_pong, Read
<1>3. NothingElseHeld'
  <2>1. ASSUME NEW s \in Servers, c_squit(s) PROVE held' \subseteq active
    <3>1. held \ {} \subseteq active /\ {s} \cap active \subseteq active
      BY DEF IInv, NothingElseHeld
    <3>2. CASE h_jupeserv_squit(s)
      BY <3>1, <3>2, DeliverHeld DEF h_jupeserv_squit
    <3> QED
      BY <2>1, <3>1, <3>2 DEF c_squit
  <2>2. ASSUME NEW s \in Servers, c_pong(s) PROVE held' \subseteq active
    <3>1. PICK found \in SUBSET (active \cap linked) : Deliver(found, active, Tail(inbox))
      BY <2>2 DEF c_pong, h_jupeserv_finburst
    <3>2. held \ found \subseteq active /\ active \subseteq active
      BY DEF IInv, NothingElseHeld
    <3> QED
      BY <3>1, <3>2, DeliverHeld
  <2>3. CASE held' \subseteq held \/ held' = {}
    BY <2>3, <1>2 DEF IInv, NothingElseHeld
  <2> QED
    BY <1>2, <2>1, <2>2, <2>3, Zenon
    DEF Elsewhere, NothingElseHeld, NetworkLink, NetworkSplit, NetworkPong,
        connect_to_server, c_server, signoff_server, Down, Dropped, c_sid
<1>4. VoteInv' /\ JupesPersist'
  BY <1>2 DEF IInv, VoteInv, VotesMakeSense, VotesFinite, VotesCounted, Pending, JupesPersist
<1> QED
  BY <1>1, <1>3, <1>4 DEF IInv, VoteInv

\* Every step keeps the invariant.
LEMMA Inductive == IInv /\ [Next]_vars => IInv'
<1> SUFFICES ASSUME IInv, [Next]_vars PROVE IInv'
  OBVIOUS
<1>1. CASE Elsewhere
  BY <1>1, ElsewhereStep
<1>2. CASE Restart
  <2>1. TypeOK'
    BY <1>2 DEF IInv, TypeOK, Restart, Down
  <2> QED
    BY <1>2, <2>1 DEF IInv, JupesPersist, VotesMakeSense, VotesFinite, VotesCounted,
                      NothingElseHeld, Restart, Down
<1>3. ASSUME NEW name \in Servers, o_jupeserv_jupe(name) PROVE IInv'
  BY <1>3, AddJupeStep DEF o_jupeserv_jupe
<1>4. ASSUME NEW name \in Servers, o_jupeserv_unjupe(name) PROVE IInv'
  BY <1>4, RemoveJupeStep DEF o_jupeserv_unjupe
<1>5. ASSUME NEW name \in Servers, NEW from \in linked, NEW score \in {admin_score, oper_score},
             s_jupeserv_calljupe(name, from, score) \/ s_jupeserv_callunjupe(name, from, score)
      PROVE IInv'
  BY <1>5, CallJupeStep, CallUnjupeStep
<1>6. ASSUME NEW S \in SUBSET pending, e_jupeserv_expire(S) PROVE IInv'
  <2>1. TypeOK'
    BY <1>6 DEF IInv, TypeOK, e_jupeserv_expire, network
  <2>2. VoteInv'
    BY <1>6 DEF IInv, VoteInv, VotesMakeSense, VotesFinite, VotesCounted, Pending,
                e_jupeserv_expire
  <2> QED
    BY <1>6, <2>1, <2>2 DEF IInv, VoteInv, JupesPersist, NothingElseHeld,
                            e_jupeserv_expire, network
<1>7. CASE UNCHANGED vars
  BY <1>7 DEF vars, IInv, TypeOK, JupesPersist, VotesMakeSense, VotesFinite, VotesCounted,
              NothingElseHeld, Pending
<1> QED
  BY <1>1, <1>2, <1>3, <1>4, <1>5, <1>6, <1>7
  DEF Next, Network, Connection, Commands, Elsewhere

\* So it always holds.
LEMMA Invariance == Spec => []IInv
BY Initial, Inductive, PTL DEF Spec

\* Whatever the network does and however often the process is restarted, the
\* jupes in memory (active_jupes) are those of the jupes table.
THEOREM Persistence == Spec => []JupesPersist
<1>1. IInv => JupesPersist
  BY DEF IInv
<1> QED
  BY <1>1, Invariance, PTL

\* At most one vote per name is pending, for what is not the case, with
\* points that fit its voters and its threshold, whatever the scores are.
THEOREM Voting == Spec => [](TypeOK /\ VotesMakeSense /\ VotesCounted)
<1>1. IInv => TypeOK /\ VotesMakeSense /\ VotesCounted
  BY DEF IInv
<1> QED
  BY <1>1, Invariance, PTL

\* However our lines cross the network's, it never holds a name for us that
\* is not juped.
THEOREM Holding == Spec => []NothingElseHeld
<1>1. IInv => NothingElseHeld
  BY DEF IInv
<1> QED
  BY <1>1, Invariance, PTL

-----------------------------------------------------------------------------
(* Jupes hold.  What is still unread decides: a jupe that was set, or that  *)
(* somebody removed, may have lines about its name on their way, and the    *)
(* first of them must be a SQUIT, on which h_jupeserv_squit acts.           *)

Sid(s) == [cmd |-> "SID", server |-> s]
Squit(s) == [cmd |-> "SQUIT", server |-> s]

\* The removal of s is among the lines of q; no line of q links s before one splits it.
Removed(q, s) == \E i \in DOMAIN q : q[i] = Squit(s)
Covered(q, s) ==
  \A i \in DOMAIN q : q[i] = Sid(s) => \E j \in DOMAIN q : j < i /\ q[j] = Squit(s)

\* s is kept off: it is not linked, and the network has our jupe or has told us that it
\* is gone.
KeptOff(s) == s \notin linked /\ Covered(inbox, s) /\ (s \in held \/ Removed(inbox, s))

HoldInv ==
  finished_bursting /\ uplink \in linked => \A s \in active \ crossed : KeptOff(s)

\* One more line from the uplink.
LEMMA OneMoreLine ==
  ASSUME NEW q \in Seq(Message), NEW m \in Message, NEW s
  PROVE  /\ Removed(q, s) => Removed(Append(q, m), s)
         /\ m = Squit(s) => Removed(Append(q, m), s)
         /\ Covered(q, s) /\ (m # Sid(s) \/ Removed(q, s)) => Covered(Append(q, m), s)
<1> DEFINE r == Append(q, m)
<1>1. /\ DOMAIN q = 1 .. Len(q) /\ DOMAIN r = 1 .. Len(q) + 1 /\ Len(q) \in Nat
      /\ r[Len(q) + 1] = m /\ \A i \in 1 .. Len(q) : r[i] = q[i]
  OBVIOUS
<1> HIDE DEF r
<1>2. Removed(q, s) => Removed(r, s)
  BY <1>1 DEF Removed
<1>3. m = Squit(s) => Removed(r, s)
  BY <1>1 DEF Removed
<1>4. ASSUME Covered(q, s), m # Sid(s) \/ Removed(q, s)
      PROVE  Covered(r, s)
  <2> SUFFICES ASSUME NEW i \in DOMAIN r, r[i] = Sid(s)
               PROVE  \E j \in DOMAIN r : j < i /\ r[j] = Squit(s)
    BY DEF Covered
  <2>1. CASE i \in 1 .. Len(q)
    BY <1>1, <1>4, <2>1 DEF Covered
  <2>2. CASE i = Len(q) + 1
    <3>1. Removed(q, s)
      BY <1>1, <1>4, <2>2
    <3>2. PICK j \in 1 .. Len(q) : q[j] = Squit(s)
      BY <1>1, <3>1 DEF Removed
    <3>3. j \in DOMAIN r /\ j < i /\ r[j] = Squit(s)
      BY <1>1, <2>2, <3>2
    <3> QED
      BY <3>3
  <2> QED
    BY <1>1, <2>1, <2>2
<1> QED
  BY <1>2, <1>3, <1>4 DEF r

\* A line is read that is not the removal of s.
LEMMA OneLineLess ==
  ASSUME NEW q \in Seq(Message), q # << >>, NEW s, Covered(q, s)
  PROVE  /\ Head(q) # Sid(s)
         /\ Head(q) # Squit(s) => Covered(Tail(q), s) /\ (Removed(q, s) => Removed(Tail(q), s))
<1> DEFINE r == Tail(q)
<1>1. /\ DOMAIN q = 1 .. Len(q) /\ Len(q) \in Nat /\ Len(q) > 0 /\ DOMAIN r = 1 .. Len(q) - 1
      /\ Head(q) = q[1] /\ \A i \in 1 .. Len(q) - 1 : r[i] = q[i + 1]
  OBVIOUS
<1> HIDE DEF r
<1>2. q[1] # Sid(s)
  BY <1>1 DEF Covered
<1>3. ASSUME q[1] # Squit(s), NEW i \in DOMAIN q, q[i] = Squit(s)
      PROVE  i - 1 \in DOMAIN r /\ r[i - 1] = Squit(s)
  <2>1. i # 1
    BY <1>3
  <2>2. i - 1 \in 1 .. Len(q) - 1 /\ (i - 1) + 1 = i
    BY <1>1, <2>1
  <2> QED
    BY <1>1, <1>3, <2>2
<1>4. ASSUME q[1] # Squit(s), Removed(q, s) PROVE Removed(r, s)
  BY <1>3, <1>4 DEF Removed
<1>5. ASSUME q[1] # Squit(s) PROVE Covered(r, s)
  <2> SUFFICES ASSUME NEW i \in DOMAIN r, r[i] = Sid(s)
               PROVE  \E j \in DOMAIN r : j < i /\ r[j] = Squit(s)
    BY DEF Covered
  <2>1. i + 1 \in DOMAIN q /\ q[i + 1] = Sid(s) /\ i \in Nat
    BY <1>1
  <2>2. PICK j \in DOMAIN q : j < i + 1 /\ q[j] = Squit(s)
    BY <2>1 DEF Covered
  <2>3. j - 1 \in DOMAIN r /\ r[j - 1] = Squit(s)
    BY <1>3, <1>5, <2>2
  <2>4. j - 1 < i
    BY <1>1, <2>1, <2>2
  <2> QED
    BY <2>3, <2>4
<1> QED
  BY <1>1, <1>2, <1>4, <1>5 DEF r

\* After our jupe has reached the network, either the name has crossed it or the network
\* has the jupe and no line on its way links the name.
LEMMA JupeDelivered ==
  ASSUME NEW S, NEW J, NEW rest, Deliver(S, J, rest), NEW s \in J, s \notin crossed'
  PROVE  s \in held' /\ Covered(rest, s)
<1>1. s \in held'
  BY DEF Deliver
<1>2. \A i \in DOMAIN rest : rest[i] # Sid(s)
  <2> SUFFICES ASSUME NEW i \in DOMAIN rest, rest[i] = Sid(s) PROVE FALSE
    OBVIOUS
  <2>1. rest[i].cmd = "SID" /\ rest[i].server = s
    BY DEF Sid
  <2> QED
    BY <2>1 DEF Deliver
<1> QED
  BY <1>1, <1>2 DEF Covered

\* What is sent about other names does not touch the jupe of s.
LEMMA OtherDelivered ==
  ASSUME NEW S, NEW J, NEW rest, Deliver(S, J, rest), NEW s, s \notin S
  PROVE  (s \in held => s \in held') /\ (s \in crossed => s \in crossed')
BY DEF Deliver

\* Nothing the property speaks of changes.
LEMMA HoldSame ==
  ASSUME HoldInv, UNCHANGED <<active, network>>
  PROVE  HoldInv'
BY DEF HoldInv, KeptOff, finished_bursting, network

\* The network links or splits a server, or answers our PING: a line is appended.
LEMMA HoldNetwork ==
  ASSUME TypeOK, HoldInv, NEW m \in Message, inbox' = Append(inbox, m),
         UNCHANGED <<active, uplink, link, linked, crossed>>,
         \A s \in held : s \in held' \/ m = Squit(s),
         \A s \in Servers : m = Sid(s) => s \notin held
  PROVE  HoldInv'
<1> SUFFICES ASSUME finished_bursting', uplink' \in linked', NEW s \in active' \ crossed'
             PROVE  KeptOff(s)'
  BY DEF HoldInv
<1>1. KeptOff(s) /\ s \in Servers
  BY DEF HoldInv, finished_bursting, TypeOK
<1>2. inbox \in Seq(Message)
  BY DEF TypeOK
<1>3. m # Sid(s) \/ Removed(inbox, s)
  BY <1>1 DEF KeptOff
<1>4. Covered(inbox', s)
  BY <1>1, <1>2, <1>3, OneMoreLine DEF KeptOff
<1>5. s \in held' \/ Removed(inbox', s)
  BY <1>1, <1>2, OneMoreLine DEF KeptOff
<1> QED
  BY <1>1, <1>4, <1>5 DEF KeptOff

\* A line is read whose handler sends nothing and links nobody but the server it names.
LEMMA HoldRead ==
  ASSUME TypeOK, HoldInv, NEW cmd, NEW t, Read(cmd, t),
         UNCHANGED <<link, held, crossed>>,
         uplink \in linked' => uplink \in linked,
         \A s \in linked' : s \in linked \/ Head(inbox) = Sid(s),
         \A s \in active : Head(inbox) = Squit(s) => s \in linked
  PROVE  HoldInv'
<1> SUFFICES ASSUME finished_bursting', uplink' \in linked', NEW s \in active' \ crossed'
             PROVE  KeptOff(s)'
  BY DEF HoldInv
<1>1. inbox \in Seq(Message) /\ inbox # << >> /\ inbox' = Tail(inbox)
      /\ UNCHANGED <<active, uplink>>
  BY DEF TypeOK, Read
<1>2. KeptOff(s)
  BY <1>1 DEF HoldInv, finished_bursting
<1>3. Head(inbox) # Sid(s) /\ Head(inbox) # Squit(s)
  BY <1>1, <1>2, OneLineLess DEF KeptOff
<1>4. Covered(inbox', s) /\ (Removed(inbox, s) => Removed(inbox', s))
  BY <1>1, <1>2, <1>3, OneLineLess DEF KeptOff
<1> QED
  BY <1>2, <1>3, <1>4 DEF KeptOff

\* h_jupeserv_squit puts a removed jupe back, or the name has been given away meanwhile.
LEMMA HoldSquit ==
  ASSUME TypeOK, HoldInv, NEW t \in Servers, c_squit(t)
  PROVE  HoldInv'
<1>0. Head(inbox) = Squit(t) /\ Read("SQUIT", t) /\ link' = link /\ uplink \in linked
  BY DEF c_squit, Read, Squit
<1>1. CASE t \in linked /\ exit_client({t}) /\ UNCHANGED <<net, held, crossed>>
  <2>1. linked' \subseteq linked
    BY <1>1 DEF exit_client
  <2>2. \A s : Head(inbox) = Squit(s) => s = t
    BY <1>0 DEF Squit
  <2> QED
    BY <1>0, <1>1, <2>1, <2>2, HoldRead
<1>2. CASE t \notin linked /\ h_jupeserv_squit(t) /\ UNCHANGED linked
  <2> SUFFICES ASSUME finished_bursting', uplink' \in linked', NEW s \in active' \ crossed'
               PROVE  KeptOff(s)'
    BY DEF HoldInv
  <2>1. inbox \in Seq(Message) /\ inbox # << >> /\ inbox' = Tail(inbox)
        /\ UNCHANGED <<active, uplink>>
    BY <1>0 DEF TypeOK, Read
  <2>2. Deliver({}, {t} \cap active, inbox')
    BY <1>2, <2>1 DEF h_jupeserv_squit
  <2>3. CASE s = t
    <3>1. s \in held' /\ Covered(inbox', s)
      BY <2>1, <2>2, <2>3, JupeDelivered
    <3> QED
      BY <1>2, <2>3, <3>1 DEF KeptOff
  <2>4. CASE s # t
    <3>1. s \notin crossed /\ (s \in held => s \in held')
      BY <2>2, OtherDelivered
    <3>2. KeptOff(s)
      BY <1>0, <2>1, <3>1 DEF HoldInv, finished_bursting
    <3>3. Head(inbox) # Squit(s)
      BY <1>0, <2>4 DEF Squit
    <3>4. Covered(inbox', s) /\ (Removed(inbox, s) => Removed(inbox', s))
      BY <2>1, <3>2, <3>3, OneLineLess DEF KeptOff
    <3> QED
      BY <1>2, <3>1, <3>2, <3>4 DEF KeptOff
  <2> QED
    BY <2>3, <2>4
<1> QED
  BY <1>1, <1>2 DEF c_squit

\* h_jupeserv_finburst makes every jupe take effect.
LEMMA HoldFinburst ==
  ASSUME TypeOK, NEW t \in Servers, c_pong(t)
  PROVE  HoldInv'
<1> SUFFICES ASSUME uplink' \in linked', NEW s \in active' \ crossed'
             PROVE  KeptOff(s)'
  BY DEF HoldInv
<1>1. inbox' = Tail(inbox) /\ UNCHANGED <<active, uplink>>
  BY DEF c_pong, Read
<1>2. exit_client(active \cap linked) /\ Deliver(active \cap linked, active, inbox')
  <2>1. PICK found \in SUBSET (active \cap linked) :
          /\ IF uplink \in active THEN uplink \in found ELSE found = active \cap linked
          /\ exit_client(found) /\ Deliver(found, active, inbox')
    BY <1>1 DEF c_pong, h_jupeserv_finburst
  <2>2. uplink \notin found
    BY <1>1, <2>1 DEF exit_client
  <2> QED
    BY <2>1, <2>2
<1>3. s \notin linked'
  BY <1>1, <1>2 DEF exit_client
<1>4. s \in held' /\ Covered(inbox', s)
  BY <1>1, <1>2, JupeDelivered
<1> QED
  BY <1>3, <1>4 DEF KeptOff

\* add_jupe makes its name go and take effect.
LEMMA HoldAddJupe ==
  ASSUME TypeOK, HoldInv, NEW name \in Servers, valid_jupe(name), add_jupe(name)
  PROVE  HoldInv'
<1> SUFFICES ASSUME finished_bursting', uplink' \in linked', NEW s \in active' \ crossed'
             PROVE  KeptOff(s)'
  BY DEF HoldInv
<1>1. /\ finished_bursting /\ UNCHANGED <<uplink, link, inbox>> /\ active' = active \cup {name}
      /\ linked' = linked \ {name} /\ uplink \in linked
      /\ Deliver({name} \cap linked, {name}, inbox)
  BY DEF add_jupe, finished_bursting, exit_client, valid_jupe
<1>2. CASE s = name
  <2>1. s \in held' /\ Covered(inbox, s)
    BY <1>1, <1>2, JupeDelivered
  <2> QED
    BY <1>1, <1>2, <2>1 DEF KeptOff
<1>3. CASE s # name
  <2>1. s \notin crossed /\ (s \in held => s \in held')
    BY <1>1, <1>3, OtherDelivered
  <2>2. KeptOff(s)
    BY <1>1, <1>3, <2>1 DEF HoldInv
  <2> QED
    BY <1>1, <2>1, <2>2 DEF KeptOff
<1> QED
  BY <1>2, <1>3

\* UNJUPE lets go of its name only.
LEMMA HoldRemoveJupe ==
  ASSUME TypeOK, HoldInv, NEW name \in Servers, RemoveJupe(name)
  PROVE  HoldInv'
<1> SUFFICES ASSUME finished_bursting', uplink' \in linked', NEW s \in active' \ crossed'
             PROVE  KeptOff(s)'
  BY DEF HoldInv
<1>1. /\ finished_bursting /\ UNCHANGED <<uplink, link, linked, inbox>> /\ active' = active \ {name}
      /\ Deliver({name}, {}, inbox) /\ s # name
  BY DEF RemoveJupe, finished_bursting
<1>2. s \notin crossed /\ (s \in held => s \in held')
  BY <1>1, OtherDelivered
<1>3. KeptOff(s)
  BY <1>1, <1>2 DEF HoldInv
<1> QED
  BY <1>1, <1>2, <1>3 DEF KeptOff

\* Every step keeps the jupes.
LEMMA HoldStep == TypeOK /\ HoldInv /\ [Next]_vars => HoldInv'
<1> SUFFICES ASSUME TypeOK, HoldInv, [Next]_vars PROVE HoldInv'
  OBVIOUS
<1>1. ASSUME NEW t \in Servers, NetworkLink(t) PROVE HoldInv'
  <2>1. Sid(t) \in Message /\ inbox' = Append(inbox, Sid(t))
    BY <1>1 DEF NetworkLink, Send, Sid, Message
  <2>2. t \notin held /\ UNCHANGED <<active, uplink, link, linked, held, crossed>>
    BY <1>1 DEF NetworkLink
  <2>3. \A s \in Servers : Sid(t) = Sid(s) => s = t
    BY DEF Sid
  <2> QED
    BY <2>1, <2>2, <2>3, HoldNetwork
<1>2. ASSUME NEW t \in Servers, NetworkSplit(t) PROVE HoldInv'
  <2>1. Squit(t) \in Message /\ inbox' = Append(inbox, Squit(t))
    BY <1>2 DEF NetworkSplit, Send, Squit, Message
  <2>2. held' = held \ {t} /\ UNCHANGED <<active, uplink, link, linked, crossed>>
    BY <1>2 DEF NetworkSplit
  <2>3. \A s \in Servers : Squit(t) # Sid(s)
    BY DEF Squit, Sid
  <2> QED
    BY <2>1, <2>2, <2>3, HoldNetwork
<1>3. CASE NetworkPong
  <2> DEFINE m == [cmd |-> "PONG", server |-> uplink]
  <2>1. uplink \in Servers
    BY <1>3, UplinkAssumption, ZenonT(30) DEF TypeOK, NetworkPong
  <2>2. m \in Message /\ inbox' = Append(inbox, m)
    <3>1. m \in Message
      BY <2>1 DEF Message
    <3> QED
      BY <1>3, <3>1, Zenon DEF NetworkPong, Send
  <2>3. UNCHANGED <<active, uplink, link, linked, held, crossed>>
    BY <1>3 DEF NetworkPong
  <2>4. \A s \in Servers : m # Sid(s)
    BY DEF Sid
  <2> HIDE DEF m
  <2> QED
    BY <2>2, <2>3, <2>4, HoldNetwork, SMTT(60)
<1>4. CASE (\E t \in Uplinks : connect_to_server(t)) \/ c_server \/ signoff_server \/ Restart
  BY <1>4 DEF HoldInv, finished_bursting, connect_to_server, c_server, signoff_server, Restart, Down
<1>5. ASSUME NEW t \in Servers, Dropped(t) PROVE HoldInv'
  BY <1>5 DEF Dropped, Read, HoldInv
<1>6. ASSUME NEW t \in Servers, c_sid(t) PROVE HoldInv'
  <2>1. Read("SID", t) /\ Head(inbox) = Sid(t) /\ linked' = linked \cup {t} /\ uplink \in linked
        /\ UNCHANGED <<link, held, crossed>>
    BY <1>6 DEF c_sid, Read, Sid
  <2>2. \A s : Sid(t) # Squit(s)
    BY DEF Sid, Squit
  <2> QED
    BY <2>1, <2>2, HoldRead
<1>7. ASSUME NEW t \in Servers, c_squit(t) \/ c_pong(t) PROVE HoldInv'
  BY <1>7, HoldSquit, HoldFinburst
<1>8. ASSUME NEW name \in Servers, o_jupeserv_jupe(name) \/ o_jupeserv_unjupe(name) PROVE HoldInv'
  BY <1>8, HoldAddJupe, HoldRemoveJupe DEF o_jupeserv_jupe, o_jupeserv_unjupe
<1>9. ASSUME NEW name \in Servers, NEW from \in linked, NEW score \in {admin_score, oper_score},
             s_jupeserv_calljupe(name, from, score)
      PROVE  HoldInv'
  <2>1. valid_jupe(name) /\ (add_jupe(name) \/ UNCHANGED <<active, network>>)
    BY <1>9, Zenon DEF s_jupeserv_calljupe
  <2> QED
    BY <2>1, HoldAddJupe, HoldSame
<1>10. ASSUME NEW name \in Servers, NEW from \in linked, NEW score \in {admin_score, oper_score},
              s_jupeserv_callunjupe(name, from, score)
       PROVE  HoldInv'
  <2>1. RemoveJupe(name) \/ UNCHANGED <<active, network>>
    BY <1>10, Zenon DEF s_jupeserv_callunjupe
  <2> QED
    BY <2>1, HoldRemoveJupe, HoldSame
<1>11. ASSUME NEW S \in SUBSET pending, e_jupeserv_expire(S) PROVE HoldInv'
  BY <1>11, HoldSame DEF e_jupeserv_expire
<1>12. CASE UNCHANGED vars
  BY <1>12, HoldSame DEF vars, network
<1> QED
  BY <1>1, <1>2, <1>3, <1>4, <1>5, <1>6, <1>7, <1>8, <1>9, <1>10, <1>11, <1>12
  DEF Next, Network, Connection, Commands

\* After the burst, and with everything read, every jupe holds, except for a name whose
\* server was on its way when the jupe was set.
THEOREM Jupes == Spec => []JupesHold
<1>1. Init => HoldInv
  BY DEF Init, HoldInv, finished_bursting
<1>2. IInv => TypeOK
  BY DEF IInv
<1>3. HoldInv => JupesHold
  <2> SUFFICES ASSUME HoldInv, finished_bursting, inbox = << >>, uplink \in linked,
                      NEW s \in active, s \notin crossed
               PROVE  s \notin linked /\ s \in held
    BY DEF JupesHold
  <2> QED
    BY DEF HoldInv, KeptOff, Removed
<1> QED
  BY <1>1, <1>2, <1>3, HoldStep, Invariance, PTL DEF Spec

-----------------------------------------------------------------------------
(* RegexpBans.                                                              *)

\* A list is in the order of its ids.
Sorted(list, w) == \A i, j \in 1 .. w : i < j => list[i].id < list[j].id

\* A list holds the rows of a table, each once, in the order of their ids.
Holds(list, w, table) ==
  /\ list \in [1 .. w -> table]
  /\ \A r \in table : \E i \in 1 .. w : list[i] = r
  /\ Sorted(list, w)

Ordered(list, table) == \E w \in Nat : Holds(list, w, table)

\* The ids of a table are numbers.
Numbered(table) == \A r \in table : r.id \in Nat

\* A list in the order of its ids is a bijection from its places to the table's rows, so
\* the rows up to the k-th are k.
LEMMA PlaceCounts ==
  ASSUME NEW table, NEW w \in Nat, NEW list, Holds(list, w, table), Numbered(table)
  PROVE  /\ Cardinality(table) = w
         /\ \A k \in 1 .. w : Cardinality({s \in table : s.id <= list[k].id}) = k
<1>1. ASSUME NEW i \in 1 .. w, NEW j \in 1 .. w
      PROVE  /\ list[i].id \in Nat /\ list[j].id \in Nat
             /\ list[i].id <= list[j].id <=> i <= j
             /\ list[i] = list[j] => i = j
  BY DEF Numbered, Holds, Sorted
<1>2. list \in Bijection(1 .. w, table)
  BY <1>1 DEF Bijection, Injection, Surjection, IsInjective, Holds
<1>3. Cardinality(table) = w
  BY <1>2, FS_CountingElements DEF ExistsBijection
<1>4. ASSUME NEW k \in 1 .. w
      PROVE  Cardinality({s \in table : s.id <= list[k].id}) = k
  <2> DEFINE upto == {s \in table : s.id <= list[k].id}
             f == [j \in 1 .. k |-> list[j]]
  <2>1. k \in Nat /\ \A j \in 1 .. k : j \in 1 .. w
    OBVIOUS
  <2>2. f \in [1 .. k -> upto]
    BY <1>1, <2>1 DEF Holds
  <2>3. \A i, j \in 1 .. k : f[i] = f[j] => i = j
    BY <1>1, <2>1
  <2>4. ASSUME NEW s \in upto
        PROVE  \E j \in 1 .. k : f[j] = s
    <3>1. PICK j \in 1 .. w : list[j] = s
      BY DEF Holds
    <3>2. j <= k
      BY <1>1, <3>1
    <3> QED
      BY <3>1, <3>2
  <2> HIDE DEF upto, f
  <2>5. f \in Bijection(1 .. k, upto)
    BY <2>2, <2>3, <2>4 DEF Bijection, Injection, Surjection, IsInjective
  <2>6. Cardinality(upto) = k
    BY <2>1, <2>5, FS_CountingElements DEF ExistsBijection
  <2> QED
    BY <2>6 DEF upto
<1> QED
  BY <1>3, <1>4

\* Such a list is what a SELECT returns.
LEMMA OrderedIs ==
  ASSUME NEW table, NEW list, Ordered(list, table), Numbered(table)
  PROVE  list = ById(table)
<1>1. PICK w \in Nat : Holds(list, w, table)
  BY DEF Ordered
<1>2. /\ Cardinality(table) = w
      /\ \A k \in 1 .. w : Cardinality({s \in table : s.id <= list[k].id}) = k
  BY <1>1, PlaceCounts
<1>3. ASSUME NEW k \in 1 .. w
      PROVE  (CHOOSE r \in table : Cardinality({s \in table : s.id <= r.id}) = k) = list[k]
  <2>1. list[k] \in table /\ Cardinality({s \in table : s.id <= list[k].id}) = k
    BY <1>1, <1>2 DEF Holds
  <2>2. ASSUME NEW r \in table, Cardinality({s \in table : s.id <= r.id}) = k
        PROVE  r = list[k]
    <3>1. PICK i \in 1 .. w : list[i] = r
      BY <1>1 DEF Holds
    <3>2. i = k
      BY <1>2, <2>2, <3>1
    <3> QED
      BY <3>1, <3>2
  <2> QED
    BY <2>1, <2>2, ZenonT(30)
<1> QED
  BY <1>1, <1>2, <1>3 DEF ById, Holds

\* The places up to one.
Before(places, i) == {j \in places : j <= i}

\* A list of the elements of another at some places, all of them, in their order.
KeptAs(new, list, places, u, at) ==
  /\ new = [k \in 1 .. u |-> list[at[k]]]
  /\ at \in [1 .. u -> places]
  /\ \A j, k \in 1 .. u : j < k => at[j] < at[k]
  /\ \A i \in places : \E k \in 1 .. u : at[k] = i

\* The number of the places up to one tells which it is.
LEMMA Ranks ==
  ASSUME NEW w \in Nat, NEW places \in SUBSET (1 .. w)
  PROVE  /\ IsFiniteSet(places) /\ Cardinality(places) \in Nat
         /\ \A i \in places : Cardinality(Before(places, i)) \in 1 .. Cardinality(places)
         /\ \A i, j \in places : i < j => Cardinality(Before(places, i)) < Cardinality(Before(places, j))
<1>1. IsFiniteSet(places) /\ Cardinality(places) \in Nat
  <2>1. IsFiniteSet(1 .. w)
    BY FS_Interval
  <2> QED
    BY <2>1, FS_Subset, FS_CardinalityType, Zenon
<1>2. ASSUME NEW i \in places
      PROVE  /\ IsFiniteSet(Before(places, i))
             /\ Cardinality(Before(places, i)) \in 1 .. Cardinality(places)
  <2>1. Before(places, i) \in SUBSET places /\ i \in Before(places, i)
    BY DEF Before
  <2>2. /\ IsFiniteSet(Before(places, i)) /\ Cardinality(Before(places, i)) \in Nat
        /\ Cardinality(Before(places, i)) <= Cardinality(places)
    BY <1>1, <2>1, FS_Subset, FS_CardinalityType
  <2>3. Cardinality(Before(places, i)) # 0
    BY <2>1, <2>2, FS_EmptySet
  <2> QED
    BY <1>1, <2>2, <2>3
<1>3. ASSUME NEW i \in places, NEW j \in places, i < j
      PROVE  Cardinality(Before(places, i)) < Cardinality(Before(places, j))
  <2>1. Before(places, i) \in SUBSET Before(places, j) /\ j \in Before(places, j) /\ j \notin Before(places, i)
    <3>1. \A k \in places : k \in Nat
      OBVIOUS
    <3>2. i \in Nat /\ j \in Nat /\ j <= j /\ ~ (j <= i)
      BY <1>3, <3>1
    <3>3. \A k \in places : k <= i => k <= j
      BY <1>3, <3>1, <3>2
    <3> QED
      BY <3>2, <3>3, Zenon DEF Before
  <2>2. Cardinality(Before(places, i)) \in Nat /\ Cardinality(Before(places, j)) \in Nat
    BY <1>2, FS_CardinalityType
  <2>3. Cardinality(Before(places, i)) <= Cardinality(Before(places, j)) /\ Cardinality(Before(places, i)) # Cardinality(Before(places, j))
    BY <1>2, <2>1, FS_Subset
  <2> QED
    BY <2>2, <2>3
<1> QED
  BY <1>1, <1>2, <1>3

\* There is a place of every rank.
LEMMA EveryRank ==
  ASSUME NEW w \in Nat, NEW places \in SUBSET (1 .. w), NEW k \in 1 .. Cardinality(places)
  PROVE  \E i \in places : Cardinality(Before(places, i)) = k
<1>1. PICK u : u = Cardinality(places)
  OBVIOUS
<1>2. /\ IsFiniteSet(places) /\ u \in Nat
      /\ \A i \in places : Cardinality(Before(places, i)) \in 1 .. u
      /\ \A i, j \in places : i < j => Cardinality(Before(places, i)) < Cardinality(Before(places, j))
  BY <1>1, Ranks, Zenon
<1>3. PICK rank : rank = [i \in places |-> Cardinality(Before(places, i))]
  BY Zenon
<1>4. rank \in [places -> 1 .. u] /\ \A i \in places : rank[i] = Cardinality(Before(places, i))
  BY <1>2, <1>3
<1>5. ASSUME NEW i \in places, NEW j \in places, rank[i] = rank[j]
      PROVE  i = j
  <2>1. i \in Nat /\ j \in Nat /\ rank[i] \in Nat /\ rank[j] \in Nat
    BY <1>4
  <2>2. ~ (i < j) /\ ~ (j < i)
    BY <1>2, <1>4, <1>5, <2>1
  <2> QED
    BY <2>1, <2>2
<1>6. rank \in Injection(places, 1 .. u)
  BY <1>4, <1>5 DEF Injection, IsInjective
<1>7. IsFiniteSet(1 .. u) /\ Cardinality(1 .. u) = u
  BY <1>2, FS_Interval
<1>8. rank \in Surjection(places, 1 .. u)
  BY <1>1, <1>6, <1>7, FS_Injection
<1> QED
  BY <1>1, <1>4, <1>8 DEF Surjection

\* What KeepOnly leaves of a list.
LEMMA Kept ==
  ASSUME NEW w \in Nat, NEW places \in SUBSET (1 .. w), NEW list
  PROVE  \E u \in Nat : \E at : KeptAs(KeepOnly(list, places), list, places, u, at)
<1>1. PICK u : u = Cardinality(places)
  OBVIOUS
<1>2. /\ u \in Nat
      /\ \A i \in places : Cardinality(Before(places, i)) \in 1 .. u
      /\ \A i, j \in places : i < j => Cardinality(Before(places, i)) < Cardinality(Before(places, j))
  BY <1>1, Ranks, Zenon
<1>0. \A i \in places : i \in Nat
  OBVIOUS
<1>3. PICK at : at = [k \in 1 .. u |-> Nth(places, k)]
  BY Zenon
<1>4. ASSUME NEW k \in 1 .. u
      PROVE  at[k] \in places /\ at[k] \in Nat /\ Cardinality(Before(places, at[k])) = k
  <2>1. \E i \in places : Cardinality({j \in places : j <= i}) = k
    BY <1>1, EveryRank, Zenon DEF Before
  <2>2. Nth(places, k) \in places /\ Cardinality(Before(places, Nth(places, k))) = k
    BY <2>1 DEF Nth, Before
  <2>3. at[k] = Nth(places, k)
    BY <1>3
  <2>4. at[k] \in places
    BY <2>2, <2>3
  <2>5. at[k] \in Nat
    BY <1>0, <2>4, Zenon
  <2> QED
    BY <2>2, <2>3, <2>4, <2>5
<1>5. \A k \in 1 .. u : at[k] = Nth(places, k)
  BY <1>3
<1>6. KeepOnly(list, places) = [k \in 1 .. u |-> list[at[k]]]
  BY <1>1, <1>5 DEF KeepOnly
<1>7. at \in [1 .. u -> places]
  BY <1>3, <1>4
<1>8. ASSUME NEW j \in 1 .. u, NEW k \in 1 .. u, j < k
      PROVE  at[j] < at[k]
  <2>1. at[j] # at[k]
    BY <1>4, <1>8
  <2>2. ~ (at[k] < at[j])
    <3> SUFFICES ASSUME at[k] < at[j] PROVE FALSE
      OBVIOUS
    <3>1. Cardinality(Before(places, at[k])) < Cardinality(Before(places, at[j]))
      BY <1>2, <1>4
    <3> QED
      BY <1>4, <1>8, <3>1
  <2> QED
    BY <1>4, <2>1, <2>2
<1>9. ASSUME NEW i \in places
      PROVE  \E k \in 1 .. u : at[k] = i
  <2>1. PICK k \in 1 .. u : k = Cardinality(Before(places, i))
    BY <1>2
  <2>2. at[k] \in places /\ at[k] \in Nat /\ i \in Nat
        /\ Cardinality(Before(places, at[k])) = Cardinality(Before(places, i))
    BY <1>4, <2>1
  <2>3. ~ (at[k] < i) /\ ~ (i < at[k])
    <3>1. Cardinality(Before(places, i)) \in Nat
      BY <2>1
    <3> QED
      BY <1>2, <2>2, <3>1
  <2> QED
    BY <2>2, <2>3
<1> QED
  BY <1>2, <1>6, <1>7, <1>8, <1>9 DEF KeptAs

\* A nonempty set of numbers has a least one.
LEMMA LeastNat ==
  ASSUME NEW S \in SUBSET Nat, S # {}
  PROVE  \E u \in S : \A k \in S : u <= k
<1>1. PICK w \in S : \A u \in S : ~ (<<u, w>> \in OpToRel(<, Nat))
  BY NatLessThanWellFounded, WFMin, Zenon
<1>2. \A u \in S : ~ (u < w)
  BY <1>1, Zenon DEF OpToRel
<1> QED
  BY <1>2

Bounded(table) == \E b \in Nat : \A r \in table : r.id <= b

\* The id of a new row is above those of all rows.
LEMMA NextIdAbove ==
  ASSUME NEW table, Numbered(table), Bounded(table)
  PROVE  NextId(table) \in Nat /\ \A r \in table : r.id < NextId(table)
<1> DEFINE ids == {row.id : row \in table} \cup {0}
           bounds == {b \in Nat : \A k \in ids : k <= b}
<1>1. ids \in SUBSET Nat /\ 0 \in ids /\ \A r \in table : r.id \in ids
  BY DEF Numbered
<1>2. bounds \in SUBSET Nat /\ bounds # {}
  BY DEF Bounded
<1>3. \A b \in bounds : b \in Nat /\ \A k \in ids : k <= b
  OBVIOUS
<1>4. \A b \in Nat : (\A k \in ids : k <= b) => b \in bounds
  OBVIOUS
<1>5. NextId(table) = (CHOOSE w \in ids : \A k \in ids : k <= w) + 1
  BY DEF NextId
<1> HIDE DEF ids, bounds
<1>6. PICK x \in bounds : \A b \in bounds : x <= b
  BY <1>2, LeastNat
<1>7. x \in ids
  <2> SUFFICES ASSUME x \notin ids
               PROVE  FALSE
    OBVIOUS
  <2>1. x \in Nat /\ x # 0 /\ x - 1 \in Nat /\ \A k \in ids : k <= x - 1
    BY <1>1, <1>3
  <2>2. x - 1 \in bounds
    BY <1>4, <2>1
  <2> QED
    BY <1>6, <2>1, <2>2
<1>8. PICK top : top = CHOOSE w \in ids : \A k \in ids : k <= w
  OBVIOUS
<1>9. \E w \in ids : \A k \in ids : k <= w
  BY <1>3, <1>7
<1>10. top \in ids /\ \A k \in ids : k <= top
  BY <1>8, <1>9
<1>11. NextId(table) = top + 1 /\ top \in Nat
  BY <1>1, <1>5, <1>8, <1>10, Zenon
<1>12. \A r \in table : r.id \in Nat /\ r.id <= top
  BY <1>1, <1>10, ZenonT(30)
<1> QED
  BY <1>11, <1>12

Row == [id : Nat, str : Exprs, add : Nat]
NegRow == [id : Nat, parent : Nat, str : Exprs, add : Nat]
NegLists == UNION {[1 .. k -> NegRow] : k \in Nat}
Entry == [id : Nat, str : Exprs, add : Nat, negations : NegLists]

RowOf(r) == [id |-> r.id, str |-> r.str, add |-> r.add]
NegsOf(id, ns) == {u \in ns : u.parent = id}

\* The tables: ids are numbers, no two negations have the same, and each was given to
\* the expression that has its parent's id.
TablesOK(rs, ns) ==
  /\ rs \in SUBSET Row /\ ns \in SUBSET NegRow
  /\ Bounded(rs) /\ Bounded(ns)
  /\ \A u, w \in ns : u.id = w.id => u = w
  /\ \A w \in ns : \E r \in rs : r.id = w.parent /\ r.add = w.add

\* The list holds the rows of the tables in the order of their ids.
Follows(list, rs, ns) ==
  \E w \in Nat :
    /\ list \in [1 .. w -> Entry]
    /\ Sorted(list, w)
    /\ \A i \in 1 .. w : RowOf(list[i]) \in rs
    /\ \A r \in rs : \E i \in 1 .. w : RowOf(list[i]) = r
    /\ \A i \in 1 .. w : Ordered(list[i].negations, NegsOf(list[i].id, ns))

\* Such a list is the one a restart loads.
LEMMA FollowsIs ==
  ASSUME NEW list, NEW rs, NEW ns, TablesOK(rs, ns), Follows(list, rs, ns)
  PROVE  list = LoadedRegexps(rs, ns)
<1>1. PICK w \in Nat :
        /\ list \in [1 .. w -> Entry]
        /\ Sorted(list, w)
        /\ \A i \in 1 .. w : RowOf(list[i]) \in rs
        /\ \A r \in rs : \E i \in 1 .. w : RowOf(list[i]) = r
        /\ \A i \in 1 .. w : Ordered(list[i].negations, NegsOf(list[i].id, ns))
  BY DEF Follows
<1>2. PICK plain : plain = [i \in 1 .. w |-> RowOf(list[i])]
  BY Zenon
<1>3. Numbered(rs) /\ \A id : Numbered(NegsOf(id, ns))
  BY Zenon DEF TablesOK, Numbered, NegsOf, Row, NegRow
<1>4. plain = ById(rs)
  <2>1. \A i \in 1 .. w : plain[i].id = list[i].id
    BY <1>2 DEF RowOf
  <2>2. /\ plain \in [1 .. w -> rs]
        /\ \A r \in rs : \E i \in 1 .. w : plain[i] = r
    BY <1>1, <1>2
  <2>3. Sorted(plain, w)
    BY <1>1, <2>1, Zenon DEF Sorted
  <2>4. Ordered(plain, rs)
    BY <2>2, <2>3 DEF Ordered, Holds
  <2> QED
    BY <1>3, <2>4, OrderedIs
<1>5. \A i \in 1 .. w : list[i].negations = ById(NegsOf(list[i].id, ns))
  BY <1>1, <1>3, OrderedIs
<1>6. \A i \in 1 .. w : list[i] = [id |-> list[i].id, str |-> list[i].str, add |-> list[i].add,
                                   negations |-> list[i].negations]
  BY <1>1 DEF Entry
<1>7. \A i \in 1 .. w : /\ plain[i].id = list[i].id /\ plain[i].str = list[i].str
                        /\ plain[i].add = list[i].add
  BY <1>2 DEF RowOf
<1>8. LoadedRegexps(rs, ns) =
        [i \in 1 .. w |-> [id |-> plain[i].id, str |-> plain[i].str, add |-> plain[i].add,
                           negations |-> ById(NegsOf(plain[i].id, ns))]]
  BY <1>2, <1>4, ZenonT(30) DEF LoadedRegexps, NegsOf
<1>9. ASSUME NEW i \in 1 .. w
      PROVE  list[i] = [id |-> plain[i].id, str |-> plain[i].str, add |-> plain[i].add,
                        negations |-> ById(NegsOf(plain[i].id, ns))]
  BY <1>5, <1>6, <1>7, ZenonT(30)
<1> QED
  BY <1>1, <1>8, <1>9

RegexpInv ==
  adds \in Nat /\ TablesOK(rows, negrows) /\ Follows(regexp_list, rows, negrows)

\* The invariant contains NegationsFollow.
LEMMA InvFollows == RegexpInv => NegationsFollow
BY FollowsIs, ZenonT(30) DEF RegexpInv, NegationsFollow, TablesOK

\* What the list says of its entries, for its length.
ListIs(w) ==
  /\ regexp_list \in [1 .. w -> Entry]
  /\ Sorted(regexp_list, w)
  /\ \A i \in 1 .. w : RowOf(regexp_list[i]) \in rows
  /\ \A r \in rows : \E i \in 1 .. w : RowOf(regexp_list[i]) = r
  /\ \A i \in 1 .. w : Ordered(regexp_list[i].negations, NegsOf(regexp_list[i].id, negrows))

\* Its entries have different ids.
Distinct(w) == \A i, j \in 1 .. w : regexp_list[i].id = regexp_list[j].id => i = j

\* The list has a length, and entries at different places have different ids.
LEMMA TheList ==
  ASSUME RegexpInv
  PROVE  \E w \in Nat :
           ListIs(w) /\ Distinct(w) /\ DOMAIN regexp_list = 1 .. w
<1>1. PICK w \in Nat : ListIs(w)
  BY DEF RegexpInv, Follows, ListIs
<1>2. \A i, j \in 1 .. w : regexp_list[i].id = regexp_list[j].id => i = j
  <2> SUFFICES ASSUME NEW i \in 1 .. w, NEW j \in 1 .. w,
                      regexp_list[i].id = regexp_list[j].id
               PROVE  i = j
    OBVIOUS
  <2>1. regexp_list[i].id \in Nat
    BY <1>1 DEF ListIs, Entry
  <2>2. ~ (i < j) /\ ~ (j < i)
    BY <1>1, <2>1 DEF ListIs, Sorted
  <2> QED
    BY <2>2
<1> QED
  BY <1>1, <1>2 DEF ListIs, Distinct

\* A list with one more element.
Longer(new, list, w, x, S) ==
  /\ new \in [1 .. w + 1 -> S]
  /\ \A i \in 1 .. w : i \in 1 .. w + 1 /\ new[i] = list[i]
  /\ w + 1 \in 1 .. w + 1 /\ new[w + 1] = x

\* Append makes such a list.
LEMMA Appended ==
  ASSUME NEW S, NEW w \in Nat, NEW list \in [1 .. w -> S], NEW x \in S
  PROVE  Longer(Append(list, x), list, w, x, S)
<1>1. list \in Seq(S) /\ Len(list) = w
  OBVIOUS
<1>2. PICK new : new = Append(list, x)
  BY Zenon
<1>3. new \in Seq(S) /\ Len(new) = w + 1
  BY <1>1, <1>2
<1>4. DOMAIN new = 1 .. w + 1 /\ \A i \in 1 .. w + 1 : new[i] \in S
  BY <1>3
<1>5. \A i \in 1 .. w : new[i] = list[i]
  BY <1>1, <1>2
<1>6. new[w + 1] = x
  BY <1>1, <1>2
<1>7. new = [i \in 1 .. w + 1 |-> new[i]]
  BY <1>3, <1>4
<1>8. new \in [1 .. w + 1 -> S]
  BY <1>4, <1>7
<1>9. w + 1 \in 1 .. w + 1 /\ \A i \in 1 .. w : i \in 1 .. w + 1
  OBVIOUS
<1> QED
  BY <1>2, <1>5, <1>6, <1>8, <1>9 DEF Longer

\* A list in order stays so with one more element that has a higher id.
LEMMA OneMore ==
  ASSUME NEW table, NEW row, NEW list, NEW w \in Nat, Holds(list, w, table),
         \A r \in table : r.id < row.id
  PROVE  Ordered(Append(list, row), table \cup {row})
<1>1. PICK new : new = Append(list, row)
  BY Zenon
<1>2. PICK S : S = table \cup {row}
  BY ZenonT(30)
<1>3. list \in [1 .. w -> S] /\ row \in S
  BY <1>2 DEF Holds
<1>4. /\ new \in [1 .. w + 1 -> S]
      /\ \A i \in 1 .. w : i \in 1 .. w + 1 /\ new[i] = list[i]
      /\ w + 1 \in 1 .. w + 1 /\ new[w + 1] = row
  <2>1. Longer(new, list, w, row, S)
    BY <1>1, <1>3, Appended
  <2> QED
    BY <2>1 DEF Longer
<1>5. \A r \in S : \E i \in 1 .. w + 1 : new[i] = r
  BY <1>2, <1>4 DEF Holds
<1>6. ASSUME NEW i \in 1 .. w + 1, NEW j \in 1 .. w + 1, i < j
      PROVE  new[i].id < new[j].id
  <2>1. i \in 1 .. w
    BY <1>6
  <2>2. new[i] = list[i] /\ list[i] \in table
    BY <1>4, <2>1 DEF Holds
  <2>3. CASE j = w + 1
    BY <1>4, <2>2, <2>3
  <2>4. CASE j \in 1 .. w
    BY <1>4, <1>6, <2>1, <2>2, <2>4 DEF Holds, Sorted
  <2> QED
    BY <2>3, <2>4
<1>7. Holds(new, w + 1, S)
  BY <1>4, <1>5, <1>6 DEF Holds, Sorted
<1> QED
  BY <1>1, <1>2, <1>7 DEF Ordered

\* What is kept of a list in order is in order.
LEMMA OrderedKept ==
  ASSUME NEW w \in Nat, NEW list, Sorted(list, w), NEW places \in SUBSET (1 .. w)
  PROVE  Ordered(KeepOnly(list, places), {list[i] : i \in places})
<1>1. PICK new : new = KeepOnly(list, places)
  OBVIOUS
<1>2. PICK u \in Nat : \E at : KeptAs(new, list, places, u, at)
  BY <1>1, Kept, Zenon
<1>3. PICK at : KeptAs(new, list, places, u, at)
  BY <1>2
<1>4. \A k \in 1 .. u : at[k] \in places /\ at[k] \in 1 .. w /\ new[k] = list[at[k]]
  BY <1>3, Zenon DEF KeptAs
<1>5. new \in [1 .. u -> {list[i] : i \in places}]
  BY <1>3, <1>4 DEF KeptAs
<1>6. \A r \in {list[i] : i \in places} : \E k \in 1 .. u : new[k] = r
  BY <1>3, <1>4 DEF KeptAs
<1>7. Sorted(new, u)
  BY <1>3, <1>4 DEF Sorted, KeptAs
<1> QED
  BY <1>1, <1>5, <1>6, <1>7, Zenon DEF Ordered, Holds

\* A list of negations in order is a list.
LEMMA OrderedNegs ==
  ASSUME NEW negs, NEW table \in SUBSET NegRow, Ordered(negs, table)
  PROVE  negs \in NegLists
<1>1. PICK w \in Nat : negs \in [1 .. w -> table]
  BY DEF Ordered, Holds
<1>2. negs \in [1 .. w -> NegRow]
  BY <1>1
<1> QED
  BY <1>2 DEF NegLists

\* The other expressions have the negations they had.
OthersKept(i, w, ns) ==
  \A j \in 1 .. w : j # i => NegsOf(regexp_list[j].id, ns) = NegsOf(regexp_list[j].id, negrows)

\* The list follows the tables when one expression's negations change in both.
LEMMA ChangeNegs ==
  ASSUME NEW w \in Nat, ListIs(w), NEW i \in 1 .. w, NEW negs, NEW ns \in SUBSET NegRow,
         Ordered(negs, NegsOf(regexp_list[i].id, ns)), OthersKept(i, w, ns),
         NEW new, new = [regexp_list EXCEPT ![i].negations = negs]
  PROVE  Follows(new, rows, ns)
<1>2. negs \in NegLists
  <2>1. NegsOf(regexp_list[i].id, ns) \in SUBSET NegRow
    BY DEF NegsOf
  <2> QED
    BY <2>1, OrderedNegs
<1>3. /\ \A j \in 1 .. w : j # i => new[j] = regexp_list[j]
      /\ new[i] = [regexp_list[i] EXCEPT !.negations = negs]
      /\ DOMAIN new = 1 .. w /\ new = [j \in 1 .. w |-> new[j]]
  BY Zenon DEF ListIs
<1>4. \A j \in 1 .. w : regexp_list[j] \in Entry
  BY DEF ListIs
<1>5. /\ new[i] \in Entry /\ new[i].negations = negs
      /\ new[i].id = regexp_list[i].id /\ RowOf(new[i]) = RowOf(regexp_list[i])
  BY <1>2, <1>3, <1>4 DEF Entry, RowOf
<1>6. \A j \in 1 .. w : new[j] \in Entry /\ new[j].id = regexp_list[j].id /\ RowOf(new[j]) = RowOf(regexp_list[j])
  BY <1>3, <1>4, <1>5
<1>7. new \in [1 .. w -> Entry]
  BY <1>3, <1>6, Zenon
<1>8. \A j \in 1 .. w : Ordered(new[j].negations, NegsOf(new[j].id, ns))
  BY <1>3, <1>5, <1>6 DEF ListIs, OthersKept
<1>9. /\ Sorted(new, w)
      /\ \A j \in 1 .. w : RowOf(new[j]) \in rows
      /\ \A r \in rows : \E j \in 1 .. w : RowOf(new[j]) = r
  BY <1>6, ZenonT(30) DEF ListIs, Sorted
<1> QED
  BY <1>7, <1>8, <1>9 DEF Follows

\* o_banserv_addregexp: the new row is the last of its table, and no negation has its id
\* for a parent.
LEMMA AddRegexpStep ==
  ASSUME RegexpInv, NEW e \in Exprs, o_banserv_addregexp(e)
  PROVE  RegexpInv'
<1>1. PICK w \in Nat :
        ListIs(w) /\ Distinct(w) /\ DOMAIN regexp_list = 1 .. w
  BY TheList
<1>2. TablesOK(rows, negrows) /\ adds \in Nat
  BY DEF RegexpInv
<1>3. Numbered(rows) /\ Bounded(rows)
  BY <1>2 DEF TablesOK, Numbered, Row
<1>4. PICK id : id = NextId(rows)
  OBVIOUS
<1>5. id \in Nat /\ \A r \in rows : r.id < id
  BY <1>3, <1>4, NextIdAbove
<1>6. PICK row : row = [id |-> id, str |-> e, add |-> adds + 1]
  BY Zenon
<1>7. PICK entry : entry = [id |-> id, str |-> e, add |-> adds + 1, negations |-> << >>]
  BY ZenonT(30)
<1>8. /\ rows' = rows \cup {row} /\ regexp_list' = Append(regexp_list, entry)
      /\ adds' = adds + 1 /\ negrows' = negrows
  BY <1>4, <1>6, <1>7 DEF o_banserv_addregexp
<1>9. row \in Row /\ row.id = id /\ entry.id = id /\ RowOf(entry) = row /\ entry.negations = << >>
  BY <1>2, <1>5, <1>6, <1>7 DEF Row, RowOf
<1>10. << >> \in NegLists
  <2>1. << >> \in [1 .. 0 -> NegRow]
    OBVIOUS
  <2> QED
    BY <2>1 DEF NegLists
<1>11. entry \in Entry
  BY <1>2, <1>5, <1>7, <1>10 DEF Entry
<1>12. TablesOK(rows', negrows')
  <2>1. Bounded(rows')
    <3>1. \A r \in rows' : r.id <= id
      <4>1. \A r \in rows : r.id <= id
        BY <1>3, <1>5 DEF Numbered
      <4> QED
        BY <1>5, <1>8, <1>9, <4>1
    <3> QED
      BY <1>5, <3>1, Zenon DEF Bounded
  <2> QED
    BY <1>2, <1>8, <1>9, <2>1, Zenon DEF TablesOK
<1>13. NegsOf(id, negrows) = {}
  BY <1>2, <1>3, <1>5 DEF TablesOK, NegsOf, Numbered
<1>14. Ordered(<< >>, {})
  BY DEF Ordered, Holds, Sorted
<1>0. PICK new : new = Append(regexp_list, entry)
  BY ZenonT(30)
<1>15. /\ new \in [1 .. w + 1 -> Entry]
       /\ \A i \in 1 .. w : i \in 1 .. w + 1 /\ new[i] = regexp_list[i]
       /\ w + 1 \in 1 .. w + 1 /\ new[w + 1] = entry
  <2>1. regexp_list \in [1 .. w -> Entry]
    BY <1>1 DEF ListIs
  <2>2. Longer(new, regexp_list, w, entry, Entry)
    BY <1>0, <1>11, <2>1, Appended
  <2> QED
    BY <2>2 DEF Longer
<1>16. Sorted(new, w + 1)
  <2> SUFFICES ASSUME NEW i \in 1 .. w + 1, NEW j \in 1 .. w + 1, i < j
               PROVE  new[i].id < new[j].id
    BY DEF Sorted
  <2>1. i \in 1 .. w /\ new[i] = regexp_list[i] /\ RowOf(regexp_list[i]) \in rows
    BY <1>1, <1>15 DEF ListIs
  <2>2. RowOf(regexp_list[i]).id = regexp_list[i].id
    BY DEF RowOf
  <2>3. CASE j = w + 1
    BY <1>5, <1>9, <1>15, <2>1, <2>2, <2>3
  <2>4. CASE j \in 1 .. w
    BY <1>1, <1>15, <2>1, <2>4 DEF ListIs, Sorted
  <2> QED
    BY <2>3, <2>4
<1>17. \A i \in 1 .. w + 1 : RowOf(new[i]) \in rows'
  <2> SUFFICES ASSUME NEW i \in 1 .. w + 1 PROVE RowOf(new[i]) \in rows'
    OBVIOUS
  <2>1. CASE i \in 1 .. w
    BY <1>1, <1>8, <1>15, <2>1, Zenon DEF ListIs
  <2>2. CASE i = w + 1
    BY <1>8, <1>9, <1>15, <2>2, Zenon
  <2> QED
    BY <2>1, <2>2
<1>18. \A r \in rows' : \E i \in 1 .. w + 1 : RowOf(new[i]) = r
  <2> SUFFICES ASSUME NEW r \in rows' PROVE \E i \in 1 .. w + 1 : RowOf(new[i]) = r
    OBVIOUS
  <2>1. CASE r = row
    BY <1>9, <1>15, <2>1
  <2>2. CASE r \in rows
    <3>1. PICK i \in 1 .. w : RowOf(regexp_list[i]) = r
      BY <1>1, <2>2 DEF ListIs
    <3> QED
      BY <1>15, <3>1
  <2> QED
    BY <1>8, <2>1, <2>2
<1>19. \A i \in 1 .. w + 1 : Ordered(new[i].negations, NegsOf(new[i].id, negrows'))
  <2> SUFFICES ASSUME NEW i \in 1 .. w + 1
               PROVE  Ordered(new[i].negations, NegsOf(new[i].id, negrows))
    BY <1>8
  <2>1. CASE i = w + 1
    BY <1>9, <1>13, <1>14, <1>15, <2>1, ZenonT(30)
  <2>2. CASE i \in 1 .. w
    BY <1>1, <1>15, <2>2 DEF ListIs
  <2> QED
    BY <2>1, <2>2
<1>20. Follows(new, rows', negrows')
  BY <1>15, <1>16, <1>17, <1>18, <1>19 DEF Follows
<1>21. regexp_list' = new /\ adds' \in Nat
  BY <1>0, <1>2, <1>8
<1> QED
  BY <1>12, <1>20, <1>21 DEF RegexpInv

\* First finds a place, if it finds any.
LEMMA FirstIs ==
  ASSUME NEW places \in SUBSET Nat, First(places) # 0
  PROVE  First(places) \in places
<1>1. places # {}
  BY DEF First
<1>2. \E i \in places : \A j \in places : i <= j
  BY <1>1, LeastNat
<1> QED
  BY <1>1, <1>2 DEF First

\* o_banserv_addregexpneg: the new negation is the last of its table.
LEMMA AddNegStep ==
  ASSUME RegexpInv, NEW i \in DOMAIN regexp_list, NEW e \in Exprs, o_banserv_addregexpneg(i, e)
  PROVE  RegexpInv'
<1>1. PICK w \in Nat :
        ListIs(w) /\ Distinct(w) /\ DOMAIN regexp_list = 1 .. w
  BY TheList
<1>2. TablesOK(rows, negrows) /\ adds \in Nat /\ i \in 1 .. w
  BY <1>1 DEF RegexpInv
<1>3. Numbered(negrows) /\ Bounded(negrows) /\ negrows \in SUBSET NegRow
  BY <1>2 DEF TablesOK, Numbered, NegRow
<1>4. PICK parent : parent = regexp_list[i]
  OBVIOUS
<1>5. /\ parent \in Entry /\ RowOf(parent) \in rows
      /\ Ordered(parent.negations, NegsOf(parent.id, negrows))
  BY <1>1, <1>2, <1>4 DEF ListIs
<1>6. PICK id : id = NextId(negrows)
  OBVIOUS
<1>7. id \in Nat /\ \A u \in negrows : u.id < id
  BY <1>3, <1>6, NextIdAbove
<1>8. PICK neg : neg = [id |-> id, parent |-> parent.id, str |-> e, add |-> parent.add]
  BY ZenonT(30)
<1>9. /\ negrows' = negrows \cup {neg}
      /\ regexp_list' = [regexp_list EXCEPT ![i].negations = Append(parent.negations, neg)]
      /\ rows' = rows /\ adds' = adds
  BY <1>4, <1>6, <1>8 DEF o_banserv_addregexpneg
<1>10. neg \in NegRow /\ neg.id = id /\ neg.parent = parent.id /\ neg.add = parent.add
  BY <1>5, <1>7, <1>8 DEF NegRow, Entry
<1>11. TablesOK(rows', negrows')
  <2>1. Bounded(negrows')
    <3>1. \A u \in negrows : u.id <= id
      BY <1>3, <1>7 DEF Numbered
    <3>2. \A u \in negrows' : u.id <= id
      BY <1>7, <1>9, <1>10, <3>1
    <3> QED
      BY <1>7, <3>2 DEF Bounded
  <2>2. \A u, k \in negrows' : u.id = k.id => u = k
    <3>1. \A u \in negrows : u.id # id
      BY <1>3, <1>7 DEF Numbered
    <3>2. \A u, k \in negrows : u.id = k.id => u = k
      BY <1>2 DEF TablesOK
    <3> QED
      BY <1>9, <1>10, <3>1, <3>2
  <2>3. \A u \in negrows' : \E r \in rows' : r.id = u.parent /\ r.add = u.add
    <3>1. RowOf(parent).id = neg.parent /\ RowOf(parent).add = neg.add
      BY <1>10, ZenonT(30) DEF RowOf
    <3>2. \A u \in negrows : \E r \in rows : r.id = u.parent /\ r.add = u.add
      BY <1>2 DEF TablesOK
    <3> QED
      BY <1>5, <1>9, <3>1, <3>2
  <2>4. rows' \in SUBSET Row /\ negrows' \in SUBSET NegRow /\ Bounded(rows')
    BY <1>2, <1>9, <1>10 DEF TablesOK
  <2> QED
    BY <2>1, <2>2, <2>3, <2>4, ZenonT(30) DEF TablesOK
<1>12. Ordered(Append(parent.negations, neg), NegsOf(parent.id, negrows) \cup {neg})
  <2>1. PICK k \in Nat : Holds(parent.negations, k, NegsOf(parent.id, negrows))
    BY <1>5 DEF Ordered
  <2>2. \A r \in NegsOf(parent.id, negrows) : r.id < neg.id
    BY <1>7, <1>10 DEF NegsOf
  <2> QED
    BY <2>1, <2>2, OneMore
<1>13. NegsOf(parent.id, negrows) \cup {neg} = NegsOf(parent.id, negrows \cup {neg})
  BY <1>10 DEF NegsOf
<1>14. OthersKept(i, w, negrows')
  BY <1>1, <1>2, <1>4, <1>9, <1>10 DEF NegsOf, OthersKept, Distinct
<1>15. negrows' \in SUBSET NegRow
  BY <1>3, <1>9, <1>10
<1>16. PICK negs : negs = Append(parent.negations, neg)
  BY Zenon
<1>17. PICK ns, new : ns = negrows' /\ new = regexp_list'
  OBVIOUS
<1>18. /\ Ordered(negs, NegsOf(regexp_list[i].id, ns)) /\ OthersKept(i, w, ns) /\ ns \in SUBSET NegRow
       /\ new = [regexp_list EXCEPT ![i].negations = negs]
  BY <1>4, <1>9, <1>12, <1>13, <1>14, <1>15, <1>16, <1>17, Zenon
<1>19. Follows(new, rows, ns)
  BY <1>1, <1>2, <1>18, ChangeNegs, Zenon
<1> QED
  BY <1>2, <1>9, <1>11, <1>17, <1>19 DEF RegexpInv

\* o_banserv_delregexpneg: the ids of negations are different, so the DELETE takes one row.
LEMMA DelNegStep ==
  ASSUME RegexpInv, NEW i \in DOMAIN regexp_list, NEW e \in Exprs, o_banserv_delregexpneg(i, e)
  PROVE  RegexpInv'
<1>1. PICK w \in Nat :
        ListIs(w) /\ Distinct(w) /\ DOMAIN regexp_list = 1 .. w
  BY TheList
<1>2. TablesOK(rows, negrows) /\ adds \in Nat /\ i \in 1 .. w
  BY <1>1 DEF RegexpInv
<1>3. PICK parent : parent = regexp_list[i]
  OBVIOUS
<1>5. PICK negs : negs = parent.negations
  OBVIOUS
<1>a. Ordered(negs, NegsOf(parent.id, negrows))
  BY <1>1, <1>2, <1>3, <1>5 DEF ListIs
<1>4. PICK u \in Nat : Holds(negs, u, NegsOf(parent.id, negrows))
  BY <1>a DEF Ordered
<1>b. /\ negs \in [1 .. u -> NegsOf(parent.id, negrows)]
      /\ \A r \in NegsOf(parent.id, negrows) : \E j \in 1 .. u : negs[j] = r
      /\ Sorted(negs, u)
  BY <1>4 DEF Holds
<1>6. PICK k : k = First({j \in DOMAIN negs : negs[j].str = e})
  BY Zenon
<1>7. /\ k # 0 /\ negrows' = {x \in negrows : x.id # negs[k].id}
      /\ regexp_list' = [regexp_list EXCEPT ![i].negations = KeepOnly(negs, DOMAIN negs \ {k})]
      /\ rows' = rows /\ adds' = adds
  BY <1>3, <1>5, <1>6 DEF o_banserv_delregexpneg
<1>8. k \in 1 .. u
  <2>1. PICK places : places = {j \in DOMAIN negs : negs[j].str = e}
    BY Zenon
  <2>2. places \in SUBSET (1 .. u)
    BY <1>b, <2>1
  <2>3. places \in SUBSET Nat /\ First(places) # 0 /\ k = First(places)
    BY <1>6, <1>7, <2>1, <2>2
  <2> QED
    BY <2>2, <2>3, FirstIs, Zenon
<1>9. PICK gone : gone = negs[k]
  OBVIOUS
<1>10. gone \in negrows /\ gone.parent = parent.id
  BY <1>b, <1>8, <1>9 DEF NegsOf
<1>11. negrows' = negrows \ {gone}
  BY <1>2, <1>7, <1>9, <1>10 DEF TablesOK
<1>12. Ordered(KeepOnly(negs, DOMAIN negs \ {k}), NegsOf(parent.id, negrows \ {gone}))
  <2>1. PICK places : places = 1 .. u \ {k}
    BY Zenon
  <2>2. places = DOMAIN negs \ {k} /\ places \in SUBSET (1 .. u)
    BY <1>b, <2>1
  <2>3. Ordered(KeepOnly(negs, places), {negs[j] : j \in places})
    BY <1>b, <2>2, OrderedKept
  <2>4. {negs[j] : j \in places} = NegsOf(parent.id, negrows \ {gone})
    <3>1. ASSUME NEW j \in places PROVE negs[j] \in NegsOf(parent.id, negrows) /\ negs[j] # gone
      <4>1. j \in 1 .. u /\ j # k /\ negs[j] \in NegsOf(parent.id, negrows)
        BY <1>b, <2>1
      <4>2. negs[j].id \in Nat /\ negs[k].id \in Nat
        BY <1>2, <1>9, <1>10, <4>1 DEF TablesOK, NegsOf, NegRow
      <4>3. negs[j].id # negs[k].id
        <5>1. j < k \/ k < j
          BY <1>8, <4>1
        <5> QED
          BY <1>b, <1>8, <4>1, <4>2, <5>1 DEF Sorted
      <4> QED
        BY <1>9, <4>1, <4>3
    <3>2. ASSUME NEW r \in NegsOf(parent.id, negrows), r # gone
          PROVE  \E j \in places : negs[j] = r
      BY <1>b, <1>9, <2>1, <3>2
    <3>3. NegsOf(parent.id, negrows \ {gone}) = NegsOf(parent.id, negrows) \ {gone}
      BY DEF NegsOf
    <3> QED
      BY <3>1, <3>2, <3>3
  <2> QED
    BY <2>2, <2>3, <2>4, ZenonT(30)
<1>13. OthersKept(i, w, negrows')
  BY <1>1, <1>2, <1>3, <1>10, <1>11 DEF NegsOf, OthersKept, Distinct
<1>14. PICK ns, new : ns = negrows' /\ new = regexp_list'
  OBVIOUS
<1>17. PICK left : left = KeepOnly(negs, DOMAIN negs \ {k})
  OBVIOUS
<1>18. /\ Ordered(left, NegsOf(regexp_list[i].id, ns)) /\ OthersKept(i, w, ns)
       /\ new = [regexp_list EXCEPT ![i].negations = left]
  BY <1>3, <1>7, <1>11, <1>12, <1>13, <1>14, <1>17, ZenonT(30)
<1>19. ns \in SUBSET NegRow
  BY <1>2, <1>11, <1>14, Zenon DEF TablesOK
<1>15. Follows(new, rows, ns)
  BY <1>1, <1>2, <1>18, <1>19, ChangeNegs, ZenonT(30)
<1>16. TablesOK(rows, negrows \ {gone})
  BY <1>2, Zenon DEF TablesOK, Bounded
<1> QED
  BY <1>2, <1>7, <1>11, <1>14, <1>15, <1>16, Zenon DEF RegexpInv

\* regexp_free: the entries that stay keep their order, their rows and their negations.
LEMMA FreeStep ==
  ASSUME RegexpInv, NEW gone \in SUBSET Listed, FreeAll(gone), adds' = adds
  PROVE  RegexpInv'
<1>1. PICK w \in Nat :
        ListIs(w) /\ Distinct(w) /\ DOMAIN regexp_list = 1 .. w
  BY TheList
<1>2. TablesOK(rows, negrows) /\ adds \in Nat
  BY DEF RegexpInv
<1>3. PICK places : places = {i \in 1 .. w : regexp_list[i] \notin gone}
  BY ZenonT(30)
<1>4. /\ places \in SUBSET (1 .. w)
      /\ regexp_list' = KeepOnly(regexp_list, places)
      /\ rows' = {r \in rows : \A g \in gone : r.id # g.id}
      /\ negrows' = {u \in negrows : \A g \in gone : u.parent # g.id}
  BY <1>1, <1>3 DEF FreeAll
<1>5. \A i \in 1 .. w : i \in places <=> \A g \in gone : regexp_list[i].id # g.id
  <2>1. \A g \in gone : \E j \in 1 .. w : regexp_list[j] = g
    BY <1>1, Zenon DEF Listed
  <2> QED
    BY <1>1, <1>3, <2>1 DEF Distinct
<1>8. PICK new : new = KeepOnly(regexp_list, places)
  OBVIOUS
<1>6. PICK u \in Nat : \E at : KeptAs(new, regexp_list, places, u, at)
  BY <1>4, <1>8, Kept, ZenonT(30)
<1>7. PICK at : KeptAs(new, regexp_list, places, u, at)
  BY <1>6
<1>9. \A k \in 1 .. u : at[k] \in places /\ at[k] \in 1 .. w /\ new[k] = regexp_list[at[k]]
  BY <1>4, <1>7, Zenon DEF KeptAs
<1>10. new \in [1 .. u -> Entry]
  BY <1>1, <1>7, <1>9 DEF ListIs, KeptAs
<1>11. Sorted(new, u)
  <2> SUFFICES ASSUME NEW j \in 1 .. u, NEW k \in 1 .. u, j < k PROVE new[j].id < new[k].id
    BY Zenon DEF Sorted
  <2>1. at[j] < at[k]
    BY <1>7, Zenon DEF KeptAs
  <2> QED
    BY <1>1, <1>9, <2>1, Zenon DEF ListIs, Sorted
<1>12. \A k \in 1 .. u : RowOf(new[k]) \in rows'
  <2> SUFFICES ASSUME NEW k \in 1 .. u PROVE RowOf(new[k]) \in rows'
    OBVIOUS
  <2>0. at[k] \in places /\ at[k] \in 1 .. w /\ new[k] = regexp_list[at[k]]
    BY <1>9, Zenon
  <2>1. RowOf(new[k]) \in rows /\ \A g \in gone : new[k].id # g.id
    <3>1. RowOf(regexp_list[at[k]]) \in rows
      BY <1>1, <2>0, Zenon DEF ListIs
    <3> QED
      BY <1>5, <2>0, <3>1, Zenon
  <2>2. RowOf(new[k]).id = new[k].id
    BY DEF RowOf
  <2> QED
    BY <1>4, <2>1, <2>2, ZenonT(30)
<1>13. \A r \in rows' : \E k \in 1 .. u : RowOf(new[k]) = r
  <2> SUFFICES ASSUME NEW r \in rows' PROVE \E k \in 1 .. u : RowOf(new[k]) = r
    OBVIOUS
  <2>1. r \in rows /\ \A g \in gone : r.id # g.id
    BY <1>4
  <2>2. PICK i \in 1 .. w : RowOf(regexp_list[i]) = r
    BY <1>1, <2>1 DEF ListIs
  <2>3. regexp_list[i].id = r.id
    BY <2>2 DEF RowOf
  <2>4. i \in places
    BY <1>5, <2>1, <2>3, ZenonT(30)
  <2>5. PICK k \in 1 .. u : at[k] = i
    BY <1>7, <2>4 DEF KeptAs
  <2> QED
    BY <1>9, <2>2, <2>5, ZenonT(30)
<1>14. \A k \in 1 .. u : Ordered(new[k].negations, NegsOf(new[k].id, negrows'))
  <2> SUFFICES ASSUME NEW k \in 1 .. u
               PROVE  Ordered(new[k].negations, NegsOf(new[k].id, negrows'))
    OBVIOUS
  <2>1. \A g \in gone : new[k].id # g.id
    BY <1>5, <1>9
  <2>2. NegsOf(new[k].id, negrows') = NegsOf(new[k].id, negrows)
    BY <1>4, <2>1 DEF NegsOf
  <2>3. Ordered(new[k].negations, NegsOf(new[k].id, negrows))
    BY <1>1, <1>9 DEF ListIs
  <2> QED
    BY <2>2, <2>3
<1>15. Follows(new, rows', negrows') /\ new = regexp_list'
  BY <1>4, <1>8, <1>10, <1>11, <1>12, <1>13, <1>14, ZenonT(30) DEF Follows
<1>16. TablesOK(rows', negrows')
  <2>1. rows' \in SUBSET rows /\ negrows' \in SUBSET negrows
    BY <1>4
  <2>2. Bounded(rows') /\ Bounded(negrows')
    BY <1>2, <2>1 DEF TablesOK, Bounded
  <2>3. \A x \in negrows' : \E r \in rows' : r.id = x.parent /\ r.add = x.add
    BY <1>2, <1>4 DEF TablesOK
  <2> QED
    BY <1>2, <2>1, <2>2, <2>3, ZenonT(30) DEF TablesOK
<1> QED
  BY <1>2, <1>15, <1>16 DEF RegexpInv

\* o_banserv_delregexp is regexp_free of one expression.
LEMMA DelRegexpStep ==
  ASSUME RegexpInv, NEW i \in DOMAIN regexp_list, o_banserv_delregexp(i)
  PROVE  RegexpInv'
<1>1. PICK w \in Nat :
        ListIs(w) /\ Distinct(w) /\ DOMAIN regexp_list = 1 .. w
  BY TheList
<1>2. PICK gone : gone = {regexp_list[i]}
  BY ZenonT(30)
<1>3. gone \in SUBSET Listed
  BY <1>2 DEF Listed
<1>4. DOMAIN regexp_list \ {i} = {j \in DOMAIN regexp_list : regexp_list[j] \notin gone}
  BY <1>1, <1>2 DEF Distinct
<1>5. FreeAll(gone) /\ adds' = adds
  BY <1>2, <1>4, Zenon DEF o_banserv_delregexp, Deletes, FreeAll
<1> QED
  BY <1>3, <1>5, FreeStep

\* A restart finds the tables as they are, or one expression without its negations.
LEMMA RestartRegexpStep ==
  ASSUME RegexpInv, RestartRegexps
  PROVE  RegexpInv'
<1>1. PICK w \in Nat :
        ListIs(w) /\ Distinct(w) /\ DOMAIN regexp_list = 1 .. w
  BY TheList
<1>2. TablesOK(rows, negrows) /\ adds \in Nat
  BY DEF RegexpInv
<1>3. regexp_list' = LoadedRegexps(rows', negrows') /\ adds' = adds /\ rows' = rows
  BY DEF RestartRegexps, Deletes
<1>4. \E list : Follows(list, rows, negrows') /\ TablesOK(rows, negrows')
  <2>1. CASE negrows' = negrows
    BY <1>2, <2>1 DEF RegexpInv
  <2>2. ASSUME NEW r \in Listed, Deletes(r.id, FALSE)
        PROVE  \E list : Follows(list, rows, negrows') /\ TablesOK(rows, negrows')
    <3>1. PICK i \in 1 .. w : r = regexp_list[i]
      BY <1>1 DEF Listed
    <3>2. PICK ns : ns = {u \in negrows : u.parent # regexp_list[i].id}
      BY ZenonT(30)
    <3>3. negrows' = ns
      BY <2>2, <3>1, <3>2 DEF Deletes
    <3>4. TablesOK(rows, ns) /\ ns \in SUBSET NegRow
      BY <1>2, <3>2 DEF TablesOK, Bounded
    <3>5. NegsOf(regexp_list[i].id, ns) = {}
      BY <3>2 DEF NegsOf
    <3>6. Ordered(<< >>, {})
      BY DEF Ordered, Holds, Sorted
    <3>7. OthersKept(i, w, ns)
      BY <1>1, <3>2 DEF NegsOf, OthersKept, Distinct
    <3>8. PICK negs, new : negs = << >> /\ new = [regexp_list EXCEPT ![i].negations = negs]
      BY Zenon
    <3>9. Follows(new, rows, ns)
      BY <1>1, <3>4, <3>5, <3>6, <3>7, <3>8, ChangeNegs, ZenonT(30)
    <3> QED
      BY <3>3, <3>4, <3>9
  <2> QED
    BY <2>1, <2>2, ZenonT(30) DEF RestartRegexps
<1>5. PICK list : Follows(list, rows, negrows') /\ TablesOK(rows, negrows')
  BY <1>4
<1>6. list = LoadedRegexps(rows, negrows')
  BY <1>5, FollowsIs
<1>7. regexp_list' = list
  BY <1>3, <1>6
<1> QED
  BY <1>2, <1>3, <1>5, <1>7 DEF RegexpInv

\* What frees expressions frees some that are listed.
LEMMA ExpireRegexpStep ==
  ASSUME RegexpInv,
         e_banserv_expire \/ \E c \in Users : h_banserv_new_client(c)
  PROVE  RegexpInv'
<1>1. CASE e_banserv_expire
  <2>1. PICK gone : gone = {r \in Listed : Over(r)}
    BY Zenon
  <2>2. gone \in SUBSET Listed /\ FreeAll(gone) /\ adds' = adds
    BY <1>1, <2>1 DEF e_banserv_expire
  <2> QED
    BY <2>2, FreeStep
<1>2. ASSUME NEW c \in Users, h_banserv_new_client(c)
      PROVE  RegexpInv'
  <2>1. \E gone : gone \in SUBSET Listed /\ FreeAll(gone) /\ adds' = adds
    BY <1>2, Zenon DEF h_banserv_new_client, Listed
  <2>2. PICK gone : gone \in SUBSET Listed /\ FreeAll(gone) /\ adds' = adds
    BY <2>1
  <2> QED
    BY <2>2, FreeStep
<1> QED
  BY <1>1, <1>2

\* A behaviour starts without expressions.
LEMMA RegexpStart == RegexpInit => RegexpInv
<1> SUFFICES ASSUME RegexpInit PROVE RegexpInv
  OBVIOUS
<1>1. TablesOK({}, {})
  BY DEF TablesOK, Bounded
<1>2. Follows(<< >>, {}, {})
  BY DEF Follows, Sorted
<1> QED
  BY <1>1, <1>2 DEF RegexpInit, RegexpInv

\* Every step keeps the invariant.
LEMMA RegexpStep == RegexpInv /\ [RegexpNext]_regexpVars => RegexpInv'
<1> SUFFICES ASSUME RegexpInv, [RegexpNext]_regexpVars PROVE RegexpInv'
  OBVIOUS
<1>1. ASSUME NEW e \in Exprs, o_banserv_addregexp(e) PROVE RegexpInv'
  BY <1>1, AddRegexpStep
<1>2. ASSUME NEW i \in DOMAIN regexp_list, NEW e \in Exprs,
             o_banserv_addregexpneg(i, e) \/ o_banserv_delregexpneg(i, e)
      PROVE  RegexpInv'
  BY <1>2, AddNegStep, DelNegStep
<1>3. ASSUME NEW i \in DOMAIN regexp_list, o_banserv_delregexp(i) PROVE RegexpInv'
  BY <1>3, DelRegexpStep
<1>4. CASE e_banserv_expire \/ \E c \in Users : h_banserv_new_client(c)
  BY <1>4, ExpireRegexpStep
<1>5. CASE RestartRegexps
  BY <1>5, RestartRegexpStep
<1>6. CASE UNCHANGED <<regexp_list, rows, negrows, adds>>
  BY <1>6 DEF RegexpInv
<1> QED
  BY <1>1, <1>2, <1>3, <1>4, <1>5, <1>6
     DEF RegexpNext, regexpVars, UserExit, LapseRegexp

\* The list in memory is always what a restart would load, and no expression inherits the
\* negations of an earlier one that had its id.
THEOREM Negating == RegexpSpec => []NegationsFollow
<1>1. RegexpSpec => []RegexpInv
  BY RegexpStart, RegexpStep, PTL DEF RegexpSpec
<1> QED
  BY <1>1, InvFollows, PTL
=============================================================================
