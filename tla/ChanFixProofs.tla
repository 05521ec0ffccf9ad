--------------------------- MODULE ChanFixProofs ----------------------------
(***************************************************************************)
(* ChanFix: in the channels it fixes, for any users, hosts, limits and     *)
(* times; and its samples and scores, for any days, samples and crashes    *)
(* (ChanScores).                                                           *)
(***************************************************************************)
EXTENDS ChanFix, ChanScores, FiniteSetTheorems, TLAPS

\* How a leaf that names no prover is tried.
USE SMT, Zenon, SMTT(20)

(* ChanFix.                                                                *)

\* FixHeld, with what it takes: a fix is told from none by its type.
HeldInv ==
  /\ member \in [Members -> {"out", "in", "op"}]
  /\ inhabited \in BOOLEAN
  /\ fix # NoFix => fix.type \in {"auto", "man"}
  /\ FixHeld

\* A channel with enough users is not empty.
LEMMA EnoughUsers ==
  ASSUME NEW crowd, Cardinality(Present(crowd)) >= cf_min_clients
  PROVE  Present(crowd) # {}
<1>1. Cardinality({}) = 0
  BY FS_EmptySet
<1> QED
  BY <1>1, FixAssumption

\* What add_chanfix makes is a fix with scores.
LEMMA AddFacts ==
  ASSUME NEW type \in {"auto", "man"}, CanFix(type)
  PROVE  /\ add_chanfix(type).type = type
         /\ add_chanfix(type) # NoFix
         /\ add_chanfix(type).scores = fetch_cf_scores(ChanScoreEnd)
         /\ add_chanfix(type).scores # {}
         /\ fix = NoFix
<1> DEFINE a == add_chanfix(type)
<1>1. a.type = type /\ a.scores = fetch_cf_scores(ChanScoreEnd)
  BY DEF add_chanfix
<1>2. a # NoFix
  <2>1. NoFix.type = "none"
    BY DEF NoFix
  <2> QED
    BY <1>1, <2>1
<1> QED
  BY <1>1, <1>2, SMTT(60) DEF CanFix

\* A fix that is changed stays a fix.
LEMMA StillFix ==
  ASSUME NEW f, f.type \in {"auto", "man"}
  PROVE  f # NoFix
BY DEF NoFix

\* A channel starts empty and without a fix.
LEMMA HeldStart == FixInit => HeldInv
BY Zenon DEF FixInit, HeldInv, FixHeld, NoFix

\* del_chanfix.
LEMMA HeldDel ==
  ASSUME NEW crowd \in [Members -> {"out", "in", "op"}], del_chanfix(crowd)
  PROVE  HeldInv'
BY Zenon DEF del_chanfix, HeldInv, FixHeld

\* A member leaves or loses operator status.
LEMMA HeldMember ==
  ASSUME HeldInv, NEW m \in Members, NEW status \in {"out", "in"}, SetMember(m, status)
  PROVE  HeldInv'
<1> DEFINE crowd == [member EXCEPT ![m] = status]
<1>1. crowd \in [Members -> {"out", "in", "op"}]
  BY DEF HeldInv
<1>2. CASE Present(crowd) = {} /\ ~ inhabited
  BY <1>1, <1>2, HeldDel, Zenon DEF SetMember
<1>3. CASE ~ (Present(crowd) = {} /\ ~ inhabited)
  <2>1. member' = crowd /\ inhabited' = inhabited
    BY <1>3, Zenon DEF SetMember
  <2>2. CASE fix' = fix
    BY <1>1, <1>3, <2>1, <2>2, Zenon DEF HeldInv, FixHeld, NoFix
  <2>3. CASE CanFix("auto") /\ fix' = add_chanfix("auto")
    <3>1. fix'.type = "auto" /\ fix' # NoFix /\ fix'.scores # {} /\ fix = NoFix
      BY <2>3, AddFacts
    <3> QED
      BY <1>1, <1>3, <2>1, <3>1, Zenon DEF HeldInv, FixHeld, NoFix
  <2> QED
    BY <1>3, <2>2, <2>3, Zenon DEF SetMember
<1> QED
  BY <1>2, <1>3, Zenon

\* process_chanfix_list, from the fetched scores on.
LEMMA HeldTry ==
  ASSUME HeldInv, fix # NoFix, NEW since, TryFix(since)
  PROVE  HeldInv'
<1> DEFINE scores == IF fix.scores = {} THEN fetch_cf_scores(ChanScoreEnd) ELSE fix.scores
           modes == ~ fix.clearedmodes /\ since > CF_REMOVE_MODES_TIME
           bans == ~ fix.clearedbans /\ since > CF_REMOVE_BANS_TIME
           f == [fix EXCEPT !.due = Capped(since + Period, CF_FIX_TIME + 1), !.scores = scores,
                            !.clearedmodes = @ \/ modes, !.clearedbans = @ \/ bans]
<1>1. CASE scores = {}
  <2>1. del_chanfix(member)
    BY <1>1 DEF TryFix
  <2> QED
    BY <2>1, HeldDel DEF HeldInv
<1>2. CASE scores # {} /\ match_chmembers(scores) # {{}}
  <2>1. PICK M \in match_chmembers(scores) : fix_opless_channel(f, M, since)
    BY <1>2, Zenon DEF TryFix
  <2> DEFINE given == {m \in M : \E i \in f.scores : i.id = userhost[HostOf[m]] /\ i.score >= min_score(since)}
             items == {[i EXCEPT !.opped = @ \/ \E m \in given : userhost[HostOf[m]] = i.id] : i \in f.scores}
             crowd == [m \in Members |-> IF m \in given THEN "op" ELSE member[m]]
  <2>2. crowd \in [Members -> {"out", "in", "op"}]
    BY DEF HeldInv
  <2>3. CASE del_chanfix(crowd)
    BY <2>2, <2>3, HeldDel
  <2>4. CASE member' = crowd /\ fix' = [f EXCEPT !.scores = items] /\ inhabited' = TRUE
    <3>1. f.type = fix.type /\ f.scores = scores
      OBVIOUS
    <3>2. fix'.type = f.type /\ fix'.scores = items
      BY <2>4
    <3>3. items # {}
      <4>1. PICK i \in f.scores : TRUE
        BY <1>2, <3>1
      <4>2. [i EXCEPT !.opped = @ \/ \E m \in given : userhost[HostOf[m]] = i.id] \in items
        BY <4>1, Zenon
      <4> QED
        BY <4>2, ZenonT(60)
    <3>4. fix'.type \in {"auto", "man"}
      BY <3>1, <3>2 DEF HeldInv
    <3> HIDE DEF crowd, items, f
    <3>5. fix' # NoFix
      BY <3>4, StillFix
    <3> QED
      BY <2>2, <2>4, <3>2, <3>3, <3>4, <3>5 DEF HeldInv, FixHeld
  <2> QED
    BY <2>1, <2>3, <2>4, Zenon DEF fix_opless_channel
<1>3. CASE scores # {} /\ match_chmembers(scores) = {{}}
  <2>1. /\ member' = member /\ fix' = f
        /\ inhabited' \in {inhabited, inhabited \/ modes \/ bans}
    BY <1>3, Zenon DEF TryFix
  <2>2. f.type = fix.type /\ f.scores = scores
    OBVIOUS
  <2> HIDE DEF f, modes, bans
  <2>3. fix' # NoFix
    BY <2>1, <2>2, StillFix DEF HeldInv
  <2>4. inhabited' \in BOOLEAN /\ (inhabited => inhabited')
    BY <2>1, Zenon DEF HeldInv
  <2> QED
    BY <1>3, <2>1, <2>2, <2>3, <2>4 DEF HeldInv, FixHeld, Present
<1> QED
  BY <1>1, <1>2, <1>3

\* process_chanfix_list, when the time of the fix is over.
LEMMA HeldCycle ==
  ASSUME HeldInv, fix # NoFix, NextCycle
  PROVE  HeldInv'
<1> DEFINE next == [fix EXCEPT !.due = Period, !.cycle = (@ + 1) % CF_FIX_CYCLES]
           afresh == [fix EXCEPT !.due = Period, !.cycle = (@ + 1) % CF_FIX_CYCLES, !.scores = {}]
<1>0. next.type = fix.type /\ next.scores = fix.scores /\ afresh.type = fix.type
  OBVIOUS
<1>1. CASE fix' = next /\ member' = member /\ inhabited' = inhabited
  <2> HIDE DEF next
  <2> QED
    BY <1>0, <1>1, StillFix DEF HeldInv, FixHeld, Present
<1>2. CASE del_chanfix(member)
  BY <1>2, HeldDel DEF HeldInv
<1>3. CASE /\ ~ (Cardinality(Present(member)) < cf_min_clients)
           /\ fix' = afresh /\ inhabited' = FALSE /\ member' = member
  <2>1. Present(member) # {}
    <3>1. Cardinality({}) = 0
      BY FS_EmptySet
    <3> QED
      BY <1>3, <3>1, FixAssumption
  <2> HIDE DEF afresh
  <2> QED
    BY <1>0, <1>3, <2>1, StillFix, ZenonT(60) DEF HeldInv, FixHeld, Present
<1> QED
  BY <1>1, <1>2, <1>3, Zenon DEF NextCycle

\* Every step keeps HeldInv.
LEMMA HeldStep ==
  ASSUME HeldInv, [FixNext]_fixVars
  PROVE  HeldInv'
<1>1. ASSUME NEW m \in Members, NEW status \in {"in", "op"}, Join(m, status)
      PROVE  HeldInv'
  <2>1. member'[m] # "out"
    BY <1>1, SMTT(60) DEF Join, HeldInv
  <2> QED
    BY <1>1, <2>1 DEF Join, HeldInv, FixHeld, Present, NoFix
<1>2. ASSUME NEW m \in Members, ModeOp(m) \/ o_chanfix_opme(m)
      PROVE  HeldInv'
  <2>1. member' = [member EXCEPT ![m] = "op"] /\ inhabited' = inhabited /\ fix' = fix
    BY <1>2 DEF ModeOp, o_chanfix_opme
  <2> QED
    BY <2>1 DEF HeldInv, FixHeld, Present, NoFix
<1>3. ASSUME NEW m \in Members, ModeDeop(m)
      PROVE  HeldInv'
  BY <1>3, HeldMember DEF ModeDeop
<1>4. ASSUME NEW m \in Members, Leave(m)
      PROVE  HeldInv'
  BY <1>4, HeldMember, SMTT(60) DEF Leave
<1>5. CASE FixRestart
  BY <1>5, ZenonT(60) DEF FixRestart, HeldInv, FixHeld
<1>6. CASE e_chanfix_score_channels
  <2>1. CASE fix' = fix
    BY <1>6, <2>1 DEF e_chanfix_score_channels, HeldInv, FixHeld, Present, NoFix
  <2>2. CASE CanFix("auto") /\ fix' = add_chanfix("auto")
    <3>1. Present(member) # {}
      BY <1>6, EnoughUsers DEF e_chanfix_score_channels
    <3>2. fix'.type = "auto" /\ fix' # NoFix /\ fix = NoFix
      BY <2>2, AddFacts
    <3> QED
      BY <1>6, <3>1, <3>2 DEF e_chanfix_score_channels, HeldInv, FixHeld, Present, NoFix
  <2> QED
    BY <1>6, <2>1, <2>2 DEF e_chanfix_score_channels
<1>7. CASE e_chanfix_collate_history
  BY <1>7 DEF e_chanfix_collate_history, HeldInv, FixHeld, Present, NoFix
<1>8. ASSUME NEW since \in 0 .. CF_FIX_TIME + 1, process_chanfix_list(since)
      PROVE  HeldInv'
  <2>1. fix # NoFix /\ (del_chanfix(member) \/ NextCycle \/ TryFix(since))
    BY <1>8 DEF process_chanfix_list
  <2>2. member \in [Members -> {"out", "in", "op"}]
    BY SMTT(60) DEF HeldInv
  <2> QED
    BY <2>1, <2>2, HeldDel, HeldCycle, HeldTry
<1>9. CASE o_chanfix_chanfix \/ o_chanfix_revert
  <2>1. CanFix("man") /\ fix' = add_chanfix("man") /\ inhabited' = TRUE
    BY <1>9 DEF o_chanfix_chanfix, o_chanfix_revert
  <2>2. fix'.type = "man" /\ fix' # NoFix /\ fix'.scores # {}
    BY <2>1, AddFacts
  <2>3. member' \in [Members -> {"out", "in", "op"}]
    BY <1>9 DEF o_chanfix_chanfix, o_chanfix_revert, HeldInv
  <2> QED
    BY <2>1, <2>2, <2>3 DEF HeldInv, FixHeld
<1>10. CASE SetFlags
  BY <1>10 DEF SetFlags, HeldInv, FixHeld, Present, NoFix
<1>11. CASE UNCHANGED fixVars
  BY <1>11 DEF fixVars, HeldInv, FixHeld, Present, NoFix
<1> QED
  BY <1>1, <1>2, <1>3, <1>4, <1>5, <1>6, <1>7, <1>8, <1>9, <1>10, <1>11 DEF FixNext

\* HeldInv holds in every state.
LEMMA HeldInvariant == FixSpec => []HeldInv
<1>1. FixInit => HeldInv
  BY HeldStart
<1>2. HeldInv /\ [FixNext]_fixVars => HeldInv'
  BY HeldStep
<1> QED
  BY <1>1, <1>2, PTL DEF FixSpec

\* Whatever joins, leaves, is sampled, dropped or ordered: ChanFix is only in a channel that it
\* is fixing, with scores to go by, and no fix is left of a channel that is gone.
THEOREM Fixing == FixSpec => []FixHeld
<1>1. HeldInv => FixHeld
  BY SMTT(60) DEF HeldInv
<1> QED
  BY <1>1, HeldInvariant, PTL

-----------------------------------------------------------------------------
(* Who gets operator status.                                               *)

\* Scores of user@hosts that earned them, one of each.
ScoresEarned(scores) ==
  /\ \A i \in scores : i.id \in Ids /\ i.id[1] \in earned
  /\ \A i, j \in scores : i.id[1] = j.id[1] => i.id = j.id

\* An id belongs to the user@host it was made for, a score has its row, and so for the scores
\* a fix works with.
EarnedInv ==
  /\ points \in [Hosts -> Nat]
  /\ userhost \in [Hosts -> Ids \cup {NoId}]
  /\ \A h \in Hosts : userhost[h] # NoId => userhost[h][1] = h
  /\ \A h \in Hosts : points[h] > 0 => userhost[h] # NoId
  /\ \A h \in Hosts : points[h] > ChanScoreEnd => h \in earned
  /\ fix # NoFix => ScoresEarned(fix.scores)

\* What fetch_cf_scores returns is as EarnedInv says.
LEMMA FetchFacts ==
  ASSUME EarnedInv
  PROVE  ScoresEarned(fetch_cf_scores(ChanScoreEnd))
<1>1. ASSUME NEW i \in fetch_cf_scores(ChanScoreEnd)
      PROVE  \E h \in Hosts : i.id = userhost[h] /\ points[h] > ChanScoreEnd
  BY <1>1 DEF fetch_cf_scores
<1>2. \A h \in Hosts : points[h] > ChanScoreEnd =>
        userhost[h] \in Ids /\ userhost[h][1] = h /\ h \in earned
  BY FixAssumption DEF EarnedInv
<1> QED
  BY <1>1, <1>2, SMTT(60) DEF ScoresEarned

\* A new id is one of the user@host, if ids are not given twice.
LEMMA NewIdFacts ==
  ASSUME EarnedInv, UniqueIds, NEW h \in Hosts, userhost[h] = NoId
  PROVE  NewUserhostId(h) \in Ids /\ NewUserhostId(h)[1] = h
<1> DEFINE cached == IF fix = NoFix THEN {} ELSE {i.id : i \in fix.scores}
           unused == {id \in Ids : \A k \in Hosts : userhost[k] # id}
<1>1. <<h, 1>> \in Ids /\ <<h, 2>> \in Ids /\ <<h, 1>>[1] = h /\ <<h, 2>>[1] = h /\ <<h, 1>> # <<h, 2>>
  BY DEF Ids
<1>2. ASSUME NEW n \in {1, 2}
      PROVE  <<h, n>> \in unused
  <2>1. ASSUME NEW k \in Hosts, userhost[k] = <<h, n>>
        PROVE  FALSE
    <3>1. userhost[k] # NoId
      BY <2>1 DEF NoId
    <3>2. k = h
      <4>1. userhost[k][1] = h
        BY <2>1
      <4> QED
        BY <3>1, <4>1 DEF EarnedInv
    <3> QED
      BY <3>1, <3>2
  <2> QED
    BY <1>1, <2>1
<1>3. ~ (<<h, 1>> \in cached /\ <<h, 2>> \in cached)
  <2>1. \A a, b \in cached : a[1] = b[1] => a = b
    BY DEF EarnedInv, ScoresEarned
  <2> QED
    BY <1>1, <2>1, SMTT(60)
<1>4. \E id \in unused \ cached : id[1] = h
  BY <1>1, <1>2, <1>3
<1>5. NewUserhostId(h) = CHOOSE id \in unused \ cached : id[1] = h
  BY DEF NewUserhostId
<1>6. NewUserhostId(h) \in unused \ cached /\ NewUserhostId(h)[1] = h
  <2> HIDE DEF unused, cached
  <2> QED
    BY <1>4, <1>5, SMTT(60)
<1> QED
  BY <1>6

\* A step that leaves the tables alone.
LEMMA EarnedFrame ==
  ASSUME EarnedInv, UNCHANGED <<userhost, points, earned>>,
         fix' = NoFix \/ ScoresEarned(fix'.scores)
  PROVE  EarnedInv'
BY DEF EarnedInv, ScoresEarned

\* A step that leaves the tables and the fix alone.
LEMMA EarnedSame ==
  ASSUME EarnedInv, UNCHANGED <<userhost, points, earned, fix>>
  PROVE  EarnedInv'
BY EarnedFrame DEF EarnedInv

\* A fix begins, with the scores of the moment.
LEMMA EarnedAdd ==
  ASSUME EarnedInv, UNCHANGED <<userhost, points, earned>>,
         NEW type \in {"auto", "man"}, CanFix(type), fix' = add_chanfix(type)
  PROVE  EarnedInv'
<1>1. fix'.scores = fetch_cf_scores(ChanScoreEnd)
  BY AddFacts
<1> QED
  BY <1>1, FetchFacts, EarnedFrame

\* A member leaves or loses operator status, which may begin a fix.
LEMMA EarnedMember ==
  ASSUME EarnedInv, UNCHANGED <<userhost, points, earned>>,
         NEW m, NEW status, SetMember(m, status)
  PROVE  EarnedInv'
<1>1. \/ fix' = NoFix
      \/ fix' = fix
      \/ CanFix("auto") /\ fix' = add_chanfix("auto")
  BY SMTT(60) DEF SetMember, del_chanfix
<1> QED
  BY <1>1, EarnedFrame, EarnedSame, EarnedAdd

\* Everybody process_chanfix_list gives operator status has earned it.
LEMMA EarnedTry ==
  ASSUME EarnedInv, fix # NoFix, UNCHANGED <<userhost, points, earned>>,
         NEW since, TryFix(since)
  PROVE  EarnedInv' /\ \A m \in Opped(member') \ Opped(member) : HostOf[m] \in earned
<1> DEFINE scores == IF fix.scores = {} THEN fetch_cf_scores(ChanScoreEnd) ELSE fix.scores
           modes == ~ fix.clearedmodes /\ since > CF_REMOVE_MODES_TIME
           bans == ~ fix.clearedbans /\ since > CF_REMOVE_BANS_TIME
           f == [fix EXCEPT !.due = Capped(since + Period, CF_FIX_TIME + 1), !.scores = scores,
                            !.clearedmodes = @ \/ modes, !.clearedbans = @ \/ bans]
<1>1. ScoresEarned(scores)
  BY FetchFacts DEF EarnedInv
<1>2. f.scores = scores
  OBVIOUS
<1>3. CASE del_chanfix(member)
  BY <1>3, EarnedFrame DEF del_chanfix
<1>4. CASE member' = member /\ fix' = f
  <2>1. fix'.scores = scores
    BY <1>2, <1>4
  <2> HIDE DEF f, scores
  <2> QED
    BY <1>1, <1>4, <2>1, EarnedFrame
<1>5. ASSUME NEW M, fix_opless_channel(f, M, since)
      PROVE  EarnedInv' /\ \A m \in Opped(member') \ Opped(member) : HostOf[m] \in earned
  <2> DEFINE given == {m \in M : \E i \in f.scores : i.id = userhost[HostOf[m]] /\ i.score >= min_score(since)}
             items == {[i EXCEPT !.opped = @ \/ \E m \in given : userhost[HostOf[m]] = i.id] : i \in f.scores}
             crowd == [m \in Members |-> IF m \in given THEN "op" ELSE member[m]]
  <2>1. ASSUME NEW m \in Members, m \in given
        PROVE  HostOf[m] \in earned
    <3>1. PICK i \in scores : i.id = userhost[HostOf[m]]
      BY <1>2, <2>1, SMTT(60)
    <3>2. i.id \in Ids /\ i.id[1] \in earned
      BY <1>1 DEF ScoresEarned
    <3>3. i.id # NoId
      BY <3>2 DEF Ids, NoId
    <3>4. HostOf[m] \in Hosts
      BY DEF Hosts
    <3> QED
      BY <3>1, <3>2, <3>3, <3>4 DEF EarnedInv
  <2>2. member' = crowd
    BY <1>5 DEF fix_opless_channel, del_chanfix
  <2>3. \A m \in Opped(member') \ Opped(member) : HostOf[m] \in earned
    BY <2>1, <2>2 DEF Opped
  <2>4. fix' = NoFix \/ fix' = [f EXCEPT !.scores = items]
    BY <1>5 DEF fix_opless_channel, del_chanfix
  <2>5. ASSUME NEW j \in items
        PROVE  \E i \in scores : j.id = i.id
    <3>1. PICK i \in f.scores : j = [i EXCEPT !.opped = @ \/ \E m \in given : userhost[HostOf[m]] = i.id]
      OBVIOUS
    <3>2. j.id = i.id
      BY <3>1, SMTT(60)
    <3> QED
      BY <1>2, <3>2
  <2>6. ScoresEarned(items)
    <3> HIDE DEF items, scores
    <3> QED
      BY <1>1, <2>5 DEF ScoresEarned
  <2>7. [f EXCEPT !.scores = items].scores = items
    OBVIOUS
  <2>8. fix' = NoFix \/ fix'.scores = items
    BY <2>4, <2>7, Zenon
  <2> HIDE DEF items
  <2> QED
    BY <2>3, <2>6, <2>8, EarnedFrame, SMTT(60)
<1> QED
  BY <1>3, <1>4, <1>5, ZenonT(60) DEF TryFix

\* A step of the fix keeps EarnedInv and gives operator status to nobody who has not earned it.
LEMMA EarnedProcess ==
  ASSUME EarnedInv, NEW since \in 0 .. CF_FIX_TIME + 1, process_chanfix_list(since)
  PROVE  EarnedInv' /\ \A m \in Opped(member') \ Opped(member) : HostOf[m] \in earned
<1>1. fix # NoFix /\ UNCHANGED <<userhost, points, earned>>
  BY DEF process_chanfix_list
<1>2. CASE TryFix(since)
  BY <1>1, <1>2, EarnedTry
<1>3. CASE del_chanfix(member)
  BY <1>1, <1>3, EarnedFrame, SMTT(60) DEF del_chanfix
<1>4. CASE NextCycle
  <2> DEFINE next == [fix EXCEPT !.due = Period, !.cycle = (@ + 1) % CF_FIX_CYCLES]
             afresh == [fix EXCEPT !.due = Period, !.cycle = (@ + 1) % CF_FIX_CYCLES, !.scores = {}]
  <2>1. next.scores = fix.scores /\ afresh.scores = {}
    OBVIOUS
  <2>2. member' = member /\ (fix' = NoFix \/ fix' = next \/ fix' = afresh)
    BY <1>4, SMTT(60) DEF NextCycle, del_chanfix
  <2>3. ScoresEarned(fix.scores) /\ ScoresEarned({})
    BY <1>1, ZenonT(60) DEF EarnedInv, ScoresEarned
  <2> HIDE DEF next, afresh
  <2> QED
    BY <1>1, <2>1, <2>2, <2>3, EarnedFrame, Zenon
<1> QED
  BY <1>2, <1>3, <1>4 DEF process_chanfix_list

\* A sample is taken: of the user@hosts that are new, a row is made.
LEMMA EarnedScore ==
  ASSUME EarnedInv, UniqueIds, e_chanfix_score_channels
  PROVE  EarnedInv'
<1> DEFINE seen == {HostOf[m] : m \in Opped(member)}
<1>1. CASE seen # {}
  <2>1. /\ points' = [h \in Hosts |-> IF h \in seen THEN Capped(points[h] + 1, MaxPoints) ELSE points[h]]
        /\ userhost' = [h \in Hosts |-> IF h \in seen /\ userhost[h] = NoId THEN NewUserhostId(h)
                                        ELSE userhost[h]]
        /\ earned' = earned \cup {h \in Hosts : points'[h] > ChanScoreEnd}
        /\ fix' = fix
    BY <1>1, SMTT(60) DEF e_chanfix_score_channels
  <2>2. points' \in [Hosts -> Nat]
    BY <2>1, FixAssumption, SMTT(90) DEF EarnedInv, Capped
  <2>3. ASSUME NEW h \in Hosts
        PROVE  /\ userhost'[h] \in Ids \cup {NoId}
               /\ userhost'[h] # NoId => userhost'[h][1] = h
               /\ h \in seen => userhost'[h] # NoId
    <3>1. CASE h \in seen /\ userhost[h] = NoId
      <4>1. userhost'[h] = NewUserhostId(h)
        BY <2>1, <3>1, SMTT(60)
      <4>2. NewUserhostId(h) \in Ids /\ NewUserhostId(h)[1] = h
        BY <3>1, NewIdFacts
      <4>3. NewUserhostId(h) # NoId
        BY <4>2, SMTT(60) DEF Ids, NoId
      <4> QED
        BY <4>1, <4>2, <4>3
    <3>2. CASE ~ (h \in seen /\ userhost[h] = NoId)
      BY <2>1, <3>2, SMTT(60) DEF EarnedInv
    <3> QED
      BY <3>1, <3>2, Zenon
  <2>4. userhost' \in [Hosts -> Ids \cup {NoId}]
    BY <2>1, <2>3, ZenonT(60)
  <2>5. \A h \in Hosts : points'[h] > 0 => userhost'[h] # NoId
    BY <2>1, <2>3, SMTT(60) DEF EarnedInv
  <2>6. fix # NoFix => ScoresEarned(fix.scores)'
    BY <2>1, SMTT(60) DEF EarnedInv, ScoresEarned
  <2> QED
    BY <2>1, <2>2, <2>3, <2>4, <2>5, <2>6, ZenonT(60) DEF EarnedInv
<1>2. CASE seen = {}
  BY <1>2, EarnedAdd, SMTT(60) DEF e_chanfix_score_channels
<1> QED
  BY <1>1, <1>2, SMTT(60)

\* Points are dropped, and with them rows of cf_userhost that no points are left of.
LEMMA EarnedCollate ==
  ASSUME EarnedInv, e_chanfix_collate_history
  PROVE  EarnedInv'
<1>1. PICK h \in Hosts, n \in 0 .. MaxPoints - 1, unused \in BOOLEAN :
        /\ n < points[h]
        /\ points' = [points EXCEPT ![h] = n]
        /\ userhost' = IF unused
                       THEN [k \in Hosts |-> IF points'[k] = 0 THEN NoId ELSE userhost[k]]
                       ELSE userhost
        /\ UNCHANGED <<fix, earned>>
  BY ZenonT(60) DEF e_chanfix_collate_history
<1>2. points' \in [Hosts -> Nat] /\ \A k \in Hosts : points'[k] <= points[k]
  BY <1>1, FixAssumption DEF EarnedInv
<1>3. userhost' \in [Hosts -> Ids \cup {NoId}]
  BY <1>1 DEF EarnedInv
<1>4. \A k \in Hosts : userhost'[k] = userhost[k] \/ (userhost'[k] = NoId /\ points'[k] = 0)
  BY <1>1
<1> QED
  BY <1>1, <1>2, <1>3, <1>4, FixAssumption, SMTT(60) DEF EarnedInv, ScoresEarned

\* Every step keeps EarnedInv, if ids are not given twice.
LEMMA EarnedStep ==
  ASSUME EarnedInv, UniqueIds, [FixNext]_fixVars
  PROVE  EarnedInv'
<1>1. ASSUME NEW m \in Members, NEW status \in {"in", "op"}, Join(m, status)
      PROVE  EarnedInv'
  BY <1>1, EarnedSame DEF Join
<1>2. ASSUME NEW m \in Members, ModeOp(m) \/ o_chanfix_opme(m)
      PROVE  EarnedInv'
  BY <1>2, EarnedSame DEF ModeOp, o_chanfix_opme
<1>3. ASSUME NEW m \in Members, ModeDeop(m) \/ Leave(m)
      PROVE  EarnedInv'
  BY <1>3, EarnedMember DEF ModeDeop, Leave
<1>4. CASE FixRestart
  BY <1>4, EarnedFrame DEF FixRestart
<1>5. CASE e_chanfix_score_channels
  BY <1>5, EarnedScore
<1>6. CASE e_chanfix_collate_history
  BY <1>6, EarnedCollate
<1>7. ASSUME NEW since \in 0 .. CF_FIX_TIME + 1, process_chanfix_list(since)
      PROVE  EarnedInv'
  BY <1>7, EarnedProcess
<1>8. CASE o_chanfix_chanfix \/ o_chanfix_revert
  BY <1>8, EarnedAdd DEF o_chanfix_chanfix, o_chanfix_revert
<1>9. CASE SetFlags
  BY <1>9, EarnedSame DEF SetFlags
<1>10. CASE UNCHANGED fixVars
  BY <1>10, EarnedSame DEF fixVars
<1> QED
  BY <1>1, <1>2, <1>3, <1>4, <1>5, <1>6, <1>7, <1>8, <1>9, <1>10 DEF FixNext

\* With a database that never gives an id of cf_userhost twice, ChanFix gives operator status
\* only to user@hosts whose own samples once made a score above the lowest limit.
THEOREM Earning ==
  ASSUME UniqueIds
  PROVE  FixSpec => OpsEarned
<1>1. FixInit => EarnedInv
  BY FixAssumption DEF FixInit, EarnedInv, NoFix
<1>2. EarnedInv /\ [FixNext]_fixVars => EarnedInv'
  BY EarnedStep
<1>3. EarnedInv /\ [FixNext]_fixVars =>
        [(\E since \in 0 .. CF_FIX_TIME + 1 : process_chanfix_list(since)) =>
           \A m \in Opped(member') \ Opped(member) : HostOf[m] \in earned]_fixVars
  BY EarnedProcess
<1> QED
  BY <1>1, <1>2, <1>3, PTL DEF FixSpec, OpsEarned

-----------------------------------------------------------------------------
(* ChanScores.                                                             *)

\* Sets of natural numbers have a least element.
LEMMA LeastNat ==
  ASSUME NEW S \in SUBSET Nat, S # {}
  PROVE  \E n \in S : \A m \in S : n <= m
<1>1. PICK n \in S : \A m \in S : ~ (<<m, n>> \in OpToRel(<, Nat))
  BY NatLessThanWellFounded, WFMin, Zenon
<1>2. \A m \in S : ~ (m < n)
  BY <1>1, Zenon DEF OpToRel
<1> QED
  BY <1>2

\* Induction up to n: a set with 0, and with i whenever it has i - 1.
LEMMA UpTo ==
  ASSUME NEW n \in Nat, NEW S, 0 \in S, \A i \in 1 .. n : i - 1 \in S => i \in S
  PROVE  \A i \in 0 .. n : i \in S
<1> DEFINE Out == {i \in 0 .. n : i \notin S}
<1> SUFFICES ASSUME Out # {} PROVE FALSE
  OBVIOUS
<1>0. Out \in SUBSET Nat
  OBVIOUS
<1>1. PICK i \in Out : \A j \in Out : i <= j
  BY <1>0, LeastNat, Zenon
<1>2. i \in 1 .. n /\ i - 1 \in 0 .. n
  BY <1>1
<1>3. i - 1 \in S
  BY <1>1, <1>2
<1> QED
  BY <1>2, <1>3

\* The sums that SumTo runs through.
TotalStages(g, f, n) == g = [i \in 0 .. n |-> IF i = 0 THEN 0 ELSE g[i - 1] + f[i - 1]]

\* SumTo is the last of the sums it runs through.
LEMMA SumHasStages ==
  ASSUME NEW n \in Nat, NEW f
  PROVE  \E g : TotalStages(g, f, n) /\ SumTo(f, n) = g[n]
<1> DEFINE T == {m \in Nat : \E g : TotalStages(g, f, m)}
<1>1. 0 \in T
  <2> DEFINE g == [i \in 0 .. 0 |-> 0]
  <2>1. TotalStages(g, f, 0)
    BY DEF TotalStages
  <2> QED
    BY <2>1
<1>2. ASSUME NEW m \in 1 .. n, m - 1 \in T PROVE m \in T
  <2>1. m - 1 \in Nat /\ m # 0 /\ m \in Nat
    OBVIOUS
  <2>2. PICK g : TotalStages(g, f, m - 1)
    BY <1>2
  <2> DEFINE last == g[m - 1] + f[m - 1]
             h == [i \in 0 .. m |-> IF i = m THEN last ELSE g[i]]
  <2>3. \A i \in 0 .. m : h[i] = IF i = 0 THEN 0 ELSE h[i - 1] + f[i - 1]
    <3> TAKE i \in 0 .. m
    <3>1. CASE i = m
      BY <2>1, <3>1
    <3>2. CASE i # m
      <4>1. i \in 0 .. m - 1 /\ h[i] = g[i] /\ (i # 0 => h[i - 1] = g[i - 1])
        BY <2>1, <3>2
      <4> HIDE DEF h, last
      <4> QED
        BY <2>2, <4>1 DEF TotalStages
    <3> QED
      BY <3>1, <3>2
  <2>4. h = [i \in 0 .. m |-> h[i]]
    OBVIOUS
  <2> HIDE DEF h, last
  <2>5. TotalStages(h, f, m)
    BY <2>3, <2>4, Zenon DEF TotalStages
  <2> QED
    BY <2>1, <2>5
<1> HIDE DEF T
<1>3. \A i \in 0 .. n : i \in T
  BY <1>1, <1>2, UpTo, Zenon
<1>4. \E g : TotalStages(g, f, n)
  BY <1>3 DEF T
<1> DEFINE g == CHOOSE s : TotalStages(s, f, n)
<1>5. TotalStages(g, f, n)
  BY <1>4
<1>6. SumTo(f, n) = g[n]
  BY DEF SumTo, TotalStages
<1> QED
  BY <1>5, <1>6, Zenon

\* f has numbers below n, and g is the sums of them.
Numbers(f, n) == \A i \in 0 .. n - 1 : f[i] \in Nat
Sums(g, f, n) ==
  /\ g \in [0 .. n -> Nat]
  /\ g[0] = 0
  /\ \A i \in 1 .. n : g[i] = g[i - 1] + f[i - 1]
Within(f, n, b, lo, hi) == \A i \in 0 .. n - 1 : f[i] <= b /\ (f[i] > 0 => lo <= i /\ i <= hi)
Adds(f, f1, f2, n) == \A i \in 0 .. n - 1 : f[i] = f1[i] + f2[i]

\* Sums of numbers are numbers, each the one before it and one value more.
LEMMA SumIs ==
  ASSUME NEW n \in Nat, NEW f, Numbers(f, n)
  PROVE  \E g : Sums(g, f, n) /\ SumTo(f, n) = g[n]
<1>1. PICK g : TotalStages(g, f, n) /\ SumTo(f, n) = g[n]
  BY SumHasStages, Zenon
<1>2. \A i \in 0 .. n : g[i] = IF i = 0 THEN 0 ELSE g[i - 1] + f[i - 1]
  BY <1>1 DEF TotalStages
<1>3. g[0] = 0 /\ \A i \in 1 .. n : g[i] = g[i - 1] + f[i - 1]
  BY <1>2
<1> DEFINE S == {i \in 0 .. n : g[i] \in Nat}
<1>4. 0 \in S
  BY <1>3
<1>5. ASSUME NEW i \in 1 .. n, i - 1 \in S PROVE i \in S
  BY <1>3, <1>5 DEF Numbers
<1> HIDE DEF S
<1>6. \A i \in 0 .. n : i \in S
  BY <1>4, <1>5, UpTo, Zenon
<1>7. g \in [0 .. n -> Nat]
  BY <1>1, <1>6 DEF S, TotalStages
<1>8. Sums(g, f, n)
  BY <1>3, <1>7 DEF Sums
<1> QED
  BY <1>1, <1>8

\* A sum of numbers is a number, at least as large as each of them.
LEMMA SumNat ==
  ASSUME NEW n \in Nat, NEW f, Numbers(f, n)
  PROVE  SumTo(f, n) \in Nat /\ \A i \in 0 .. n - 1 : f[i] <= SumTo(f, n)
<1>1. PICK g : Sums(g, f, n) /\ SumTo(f, n) = g[n]
  BY SumIs, Zenon
<1>2. ASSUME NEW i \in 0 .. n - 1 PROVE f[i] <= g[n]
  <2> DEFINE S == {k \in 0 .. n : i < k => f[i] <= g[k]}
  <2>1. 0 \in S
    OBVIOUS
  <2>2. ASSUME NEW k \in 1 .. n, k - 1 \in S PROVE k \in S
    <3>1. g[k] = g[k - 1] + f[k - 1] /\ g[k - 1] \in Nat /\ f[k - 1] \in Nat /\ f[i] \in Nat
      BY <1>1 DEF Sums, Numbers
    <3>2. i < k - 1 => f[i] <= g[k - 1]
      BY <2>2
    <3>3. i < k => f[i] <= g[k]
      <4>1. CASE i = k - 1
        BY <3>1, <4>1
      <4>2. CASE i < k - 1
        BY <3>1, <3>2, <4>2
      <4> QED
        BY <4>1, <4>2
    <3> QED
      BY <3>3
  <2> HIDE DEF S
  <2>3. \A k \in 0 .. n : k \in S
    BY <2>1, <2>2, UpTo, Zenon
  <2> QED
    BY <2>3 DEF S
<1>3. g[n] \in Nat
  BY <1>1 DEF Sums
<1> QED
  BY <1>1, <1>2, <1>3

\* The sum of values that are sums of two.
LEMMA SumOfTwo ==
  ASSUME NEW n \in Nat, NEW f, NEW f1, NEW f2, Numbers(f1, n), Numbers(f2, n), Adds(f, f1, f2, n)
  PROVE  SumTo(f, n) = SumTo(f1, n) + SumTo(f2, n)
<1>0. Numbers(f, n)
  BY DEF Numbers, Adds
<1>1. PICK g : Sums(g, f, n) /\ SumTo(f, n) = g[n]
  BY <1>0, SumIs, Zenon
<1>2. PICK g1 : Sums(g1, f1, n) /\ SumTo(f1, n) = g1[n]
  BY SumIs, Zenon
<1>3. PICK g2 : Sums(g2, f2, n) /\ SumTo(f2, n) = g2[n]
  BY SumIs, Zenon
<1> DEFINE S == {k \in 0 .. n : g[k] = g1[k] + g2[k]}
<1>4. 0 \in S
  BY <1>1, <1>2, <1>3 DEF Sums
<1>5. ASSUME NEW k \in 1 .. n, k - 1 \in S PROVE k \in S
  <2>1. g[k] = g[k - 1] + f[k - 1] /\ g1[k] = g1[k - 1] + f1[k - 1] /\ g2[k] = g2[k - 1] + f2[k - 1]
    BY <1>1, <1>2, <1>3 DEF Sums
  <2>2. f[k - 1] = f1[k - 1] + f2[k - 1] /\ g[k - 1] = g1[k - 1] + g2[k - 1]
    BY <1>5 DEF Adds
  <2>3. f1[k - 1] \in Nat /\ f2[k - 1] \in Nat /\ g1[k - 1] \in Nat /\ g2[k - 1] \in Nat
    BY <1>2, <1>3 DEF Sums, Numbers
  <2>4. g[k] = g1[k] + g2[k]
    BY <2>1, <2>2, <2>3
  <2> QED
    BY <2>4
<1> HIDE DEF S
<1>6. \A k \in 0 .. n : k \in S
  BY <1>4, <1>5, UpTo, Zenon
<1>7. g[n] = g1[n] + g2[n]
  BY <1>6 DEF S
<1> QED
  BY <1>1, <1>2, <1>3, <1>7

\* The sum of values of which all but one are 0.
LEMMA SumOfOne ==
  ASSUME NEW n \in Nat, NEW f, NEW d \in 0 .. n - 1, f[d] \in Nat,
         \A i \in 0 .. n - 1 : i # d => f[i] = 0
  PROVE  SumTo(f, n) = f[d]
<1>0. Numbers(f, n)
  BY DEF Numbers
<1>1. PICK g : Sums(g, f, n) /\ SumTo(f, n) = g[n]
  BY <1>0, SumIs, Zenon
<1> DEFINE S == {k \in 0 .. n : (k <= d => g[k] = 0) /\ (k > d => g[k] = f[d])}
<1>2. 0 \in S
  BY <1>1 DEF Sums
<1>3. ASSUME NEW k \in 1 .. n, k - 1 \in S PROVE k \in S
  <2>1. g[k] = g[k - 1] + f[k - 1] /\ g[k - 1] \in Nat /\ (k - 1 # d => f[k - 1] = 0)
    BY <1>1 DEF Sums
  <2>2. CASE k - 1 = d
    BY <1>3, <2>1, <2>2
  <2>3. CASE k - 1 # d
    BY <1>3, <2>1, <2>3
  <2> QED
    BY <2>2, <2>3
<1> HIDE DEF S
<1>4. \A k \in 0 .. n : k \in S
  BY <1>2, <1>3, UpTo, Zenon
<1> QED
  BY <1>1, <1>4 DEF S

\* Values up to b, and above 0 only from lo to hi.
LEMMA SumBound ==
  ASSUME NEW n \in Nat, NEW f, NEW b \in Nat, NEW lo \in Int, NEW hi \in Int, lo <= hi,
         Numbers(f, n), Within(f, n, b, lo, hi)
  PROVE  SumTo(f, n) <= b * (hi - lo + 1)
<1>1. PICK g : Sums(g, f, n) /\ SumTo(f, n) = g[n]
  BY SumIs, Zenon
<1> DEFINE Met(k) == IF k < lo THEN 0 ELSE IF k <= hi THEN k - lo ELSE hi - lo + 1
           S == {k \in 0 .. n : g[k] <= b * Met(k)}
<1>0. \A x \in Nat : b * x \in Nat /\ b * (x + 1) = b * x + b
  OBVIOUS
<1>2. 0 \in S
  <2>1. Met(0) \in Nat /\ g[0] = 0
    BY <1>1 DEF Sums
  <2> QED
    BY <1>0, <2>1
<1>3. ASSUME NEW k \in 1 .. n, k - 1 \in S PROVE k \in S
  <2>1. /\ g[k] = g[k - 1] + f[k - 1] /\ g[k - 1] \in Nat /\ f[k - 1] \in Nat /\ f[k - 1] <= b
        /\ f[k - 1] > 0 => lo <= k - 1 /\ k - 1 <= hi
    BY <1>1 DEF Sums, Numbers, Within
  <2>2. Met(k) \in Nat /\ Met(k - 1) \in Nat
    OBVIOUS
  <2>3. Met(k) = Met(k - 1) + 1 \/ (Met(k) = Met(k - 1) /\ f[k - 1] = 0)
    BY <2>1
  <2>4. g[k - 1] <= b * Met(k - 1)
    BY <1>3
  <2> HIDE DEF Met
  <2>5. g[k] <= b * Met(k)
    BY <1>0, <2>1, <2>2, <2>3, <2>4
  <2> QED
    BY <2>5
<1> HIDE DEF S
<1>4. n \in S
  <2>1. \A k \in 0 .. n : k \in S
    BY <1>2, <1>3, UpTo, Zenon
  <2> QED
    BY <2>1
<1> DEFINE x == Met(n)
           y == hi - lo + 1
<1>5. x \in Nat /\ y \in Nat /\ x <= y
  OBVIOUS
<1>6. g[n] <= b * x /\ g[n] \in Nat
  BY <1>1, <1>4 DEF S, Sums
<1> HIDE DEF x, y
<1>7. b * x <= b * y /\ b * x \in Nat /\ b * y \in Nat
  BY <1>5
<1>8. g[n] <= b * y
  BY <1>6, <1>7
<1> QED
  BY <1>1, <1>8 DEF y

\* The days of timestamps: PerDay of them each, in their order.
LEMMA DayOf ==
  \A t \in Nat : /\ Day(t) \in Nat /\ t % PerDay \in 0 .. PerDay - 1
                 /\ t = PerDay * Day(t) + (t % PerDay)
BY SamplesAssumption DEF Day

\* Multiples of PerDay are at least PerDay apart.
LEMMA DaysApart ==
  \A d \in Nat, e \in Nat : d < e => PerDay * d + PerDay <= PerDay * e
<1> SUFFICES ASSUME NEW d \in Nat, NEW e \in Nat, d < e PROVE PerDay * d + PerDay <= PerDay * e
  OBVIOUS
<1>1. PICK k \in Nat : e = d + 1 + k
  <2>1. e - d - 1 \in Nat /\ e = d + 1 + (e - d - 1)
    OBVIOUS
  <2> QED
    BY <2>1
<1>2. PerDay \in Nat
  BY SamplesAssumption
<1>3. PerDay * e = PerDay * d + PerDay + PerDay * k /\ PerDay * k \in Nat /\ PerDay * d \in Nat
  BY <1>1, <1>2
<1> QED
  BY <1>2, <1>3

\* A timestamp below the start of a day is of an earlier day, and the other way round.
LEMMA DayBelow ==
  \A t \in Nat, d \in Nat : t < PerDay * d <=> Day(t) < d
<1> SUFFICES ASSUME NEW t \in Nat, NEW d \in Nat PROVE t < PerDay * d <=> Day(t) < d
  OBVIOUS
<1> DEFINE q == Day(t)
           r == t % PerDay
<1>1. q \in Nat /\ r \in 0 .. PerDay - 1 /\ t = PerDay * q + r /\ PerDay \in Nat
  BY DayOf, SamplesAssumption
<1> HIDE DEF q, r
<1> DEFINE a == PerDay * q
           b == PerDay * d
<1>2. a \in Nat /\ b \in Nat
  BY <1>1
<1>3. (q < d => a + PerDay <= b) /\ (d < q => b + PerDay <= a) /\ (q = d => a = b)
  BY <1>1, DaysApart
<1>4. t = a + r
  BY <1>1
<1> HIDE DEF a, b
<1>5. t < b <=> q < d
  BY <1>1, <1>2, <1>3, <1>4
<1> QED
  BY <1>5 DEF a, b, q

\* Days follow the time.
LEMMA DayMonotone == \A s \in Nat, t \in Nat : s <= t => Day(s) <= Day(t)
<1> SUFFICES ASSUME NEW s \in Nat, NEW t \in Nat, s <= t, Day(t) < Day(s) PROVE FALSE
  BY DayOf
<1>0. Day(s) \in Nat /\ Day(t) \in Nat /\ PerDay \in Nat
  BY DayOf, SamplesAssumption, Zenon
<1>1. Day(s) \in Nat /\ Day(t) \in Nat /\ PerDay * Day(s) \in Nat
  BY <1>0
<1>2. t < PerDay * Day(s)
  BY <1>1, DayBelow
<1>3. s < PerDay * Day(s)
  BY <1>1, <1>2
<1> QED
  BY <1>1, <1>3, DayBelow

\* The next timestamp is of the same day, or the first of the next day.
LEMMA DayNext ==
  ASSUME NEW t \in Nat
  PROVE  Day(t + 1) = Day(t) \/ (Day(t + 1) = Day(t) + 1 /\ (t + 1) % PerDay = 0)
<1> DEFINE q == Day(t)
           p == Day(t + 1)
           s == (t + 1) % PerDay
<1>0. t + 1 \in Nat
  OBVIOUS
<1>1. q \in Nat /\ p \in Nat /\ s \in 0 .. PerDay - 1 /\ t + 1 = PerDay * p + s /\ PerDay \in Nat
  BY <1>0, DayOf, SamplesAssumption, Zenon
<1>2. q <= p
  BY DayMonotone
<1>3. t < PerDay * p + PerDay /\ PerDay * (q + 1) \in Nat /\ PerDay * p \in Nat
  BY <1>1
<1>4. t < PerDay * (q + 1)
  BY <1>1, DayBelow
<1> DEFINE a == PerDay * p
           b == PerDay * (q + 1)
<1>5. (q + 1 < p => b + PerDay <= a) /\ (q + 1 = p => a = b)
  BY <1>1, DaysApart
<1>6. t + 1 = a + s /\ a \in Nat /\ b \in Nat /\ t < b
  BY <1>1, <1>3, <1>4
<1> HIDE DEF a, b, s, p, q
<1>7. p <= q + 1
  BY <1>1, <1>5, <1>6
<1>8. p = q + 1 => s = 0
  BY <1>1, <1>5, <1>6
<1>9. p = q \/ (p = q + 1 /\ s = 0)
  BY <1>1, <1>2, <1>7, <1>8
<1> QED
  BY <1>9 DEF p, q, s

\* With at most one run since midnight, what came before the last run was before midnight.
LEMMA DayBefore ==
  ASSUME NEW t \in Nat, NEW s \in Nat, t % PerDay <= 1, s < t - 1
  PROVE  Day(s) < Day(t)
<1>1. Day(t) \in Nat /\ t = PerDay * Day(t) + (t % PerDay) /\ t % PerDay \in 0 .. PerDay - 1 /\ PerDay \in Nat
  BY DayOf, SamplesAssumption, Zenon
<1> DEFINE a == PerDay * Day(t)
           r == t % PerDay
<1>2. a \in Nat /\ r \in Nat /\ r <= 1 /\ t = a + r
  BY <1>1
<1> HIDE DEF a, r
<1>3. s < a
  BY <1>2
<1> QED
  BY <1>1, <1>3, DayBelow DEF a

\* A day has no more than PerDay timestamps.
LEMMA DaySize ==
  ASSUME NEW d \in Nat, NEW S \in SUBSET Nat, \A t \in S : Day(t) = d
  PROVE  IsFiniteSet(S) /\ Cardinality(S) \in Nat /\ Cardinality(S) <= PerDay
<1> DEFINE a == PerDay * d
<1>1. PerDay \in Nat /\ PerDay >= 2 /\ a \in Nat
  BY SamplesAssumption
<1>2. \A t \in S : t \in a .. a + PerDay - 1
  <2> TAKE t \in S
  <2>1. t = a + (t % PerDay) /\ t % PerDay \in 0 .. PerDay - 1
    BY DayOf
  <2> QED
    BY <1>1, <2>1
<1> HIDE DEF a
<1> DEFINE I == a .. a + PerDay - 1
<1>3. IsFiniteSet(I) /\ Cardinality(I) = PerDay
  <2>1. a + PerDay - 1 \in Int /\ a \in Int /\ ~(a > a + PerDay - 1) /\ (a + PerDay - 1) - a + 1 = PerDay
    BY <1>1
  <2> QED
    BY <2>1, FS_Interval
<1>4. S \in SUBSET I
  BY <1>2
<1> HIDE DEF I
<1>5. IsFiniteSet(S) /\ Cardinality(S) <= Cardinality(I)
  BY <1>3, <1>4, FS_Subset, Zenon
<1> QED
  BY <1>3, <1>5, FS_CardinalityType

\* The powers that Doubled runs through.
DoubleStages(g, n) == g = [i \in 0 .. n |-> IF i = 0 THEN 1 ELSE 2 * g[i - 1]]

\* Every number has its power.
LEMMA DoubleHasStages ==
  ASSUME NEW n \in Nat
  PROVE  \E g : DoubleStages(g, n) /\ Doubled(n) = g[n]
<1> DEFINE T == {m \in Nat : \E g : DoubleStages(g, m)}
<1>1. 0 \in T
  <2> DEFINE g == [i \in 0 .. 0 |-> 1]
  <2>1. DoubleStages(g, 0)
    BY DEF DoubleStages
  <2> QED
    BY <2>1
<1>2. ASSUME NEW m \in 1 .. n, m - 1 \in T PROVE m \in T
  <2>1. m - 1 \in Nat /\ m # 0 /\ m \in Nat
    OBVIOUS
  <2>2. PICK g : DoubleStages(g, m - 1)
    BY <1>2
  <2> DEFINE last == 2 * g[m - 1]
             h == [i \in 0 .. m |-> IF i = m THEN last ELSE g[i]]
  <2>3. \A i \in 0 .. m : h[i] = IF i = 0 THEN 1 ELSE 2 * h[i - 1]
    <3> TAKE i \in 0 .. m
    <3>1. CASE i = m
      BY <2>1, <3>1
    <3>2. CASE i # m
      <4>1. i \in 0 .. m - 1 /\ h[i] = g[i] /\ (i # 0 => h[i - 1] = g[i - 1])
        BY <2>1, <3>2
      <4> HIDE DEF h, last
      <4> QED
        BY <2>2, <4>1 DEF DoubleStages
    <3> QED
      BY <3>1, <3>2
  <2>4. h = [i \in 0 .. m |-> h[i]]
    OBVIOUS
  <2> HIDE DEF h, last
  <2>5. DoubleStages(h, m)
    BY <2>3, <2>4, Zenon DEF DoubleStages
  <2> QED
    BY <2>1, <2>5
<1> HIDE DEF T
<1>3. \A i \in 0 .. n : i \in T
  BY <1>1, <1>2, UpTo, Zenon
<1>4. \E g : DoubleStages(g, n)
  BY <1>3 DEF T
<1> DEFINE g == CHOOSE s : DoubleStages(s, n)
<1>5. DoubleStages(g, n)
  BY <1>4
<1>6. Doubled(n) = g[n]
  BY DEF Doubled, DoubleStages
<1> QED
  BY <1>5, <1>6, Zenon

\* One more crash, twice as often.
LEMMA DoubledStep ==
  ASSUME NEW n \in Nat
  PROVE  Doubled(0) = 1 /\ Doubled(n) \in Nat /\ Doubled(n + 1) = 2 * Doubled(n)
<1>0. n + 1 \in Nat /\ 0 \in Nat
  OBVIOUS
<1>1. PICK g : DoubleStages(g, n) /\ Doubled(n) = g[n]
  BY DoubleHasStages, Zenon
<1>2. PICK h : DoubleStages(h, n + 1) /\ Doubled(n + 1) = h[n + 1]
  BY <1>0, DoubleHasStages, Zenon
<1>3. PICK z : DoubleStages(z, 0) /\ Doubled(0) = z[0]
  BY <1>0, DoubleHasStages, Zenon
<1>4. /\ \A i \in 0 .. n : g[i] = IF i = 0 THEN 1 ELSE 2 * g[i - 1]
      /\ \A i \in 0 .. n + 1 : h[i] = IF i = 0 THEN 1 ELSE 2 * h[i - 1]
      /\ z[0] = 1
  BY <1>1, <1>2, <1>3 DEF DoubleStages
<1> DEFINE S == {i \in 0 .. n : g[i] = h[i] /\ g[i] \in Nat}
<1>5. 0 \in S
  BY <1>4
<1>6. ASSUME NEW i \in 1 .. n, i - 1 \in S PROVE i \in S
  <2>1. g[i] = 2 * g[i - 1] /\ h[i] = 2 * h[i - 1]
    BY <1>4
  <2> QED
    BY <1>6, <2>1
<1> HIDE DEF S
<1>7. \A i \in 0 .. n : i \in S
  BY <1>5, <1>6, UpTo, Zenon
<1>8. h[n + 1] = 2 * h[n] /\ g[n] = h[n] /\ g[n] \in Nat
  BY <1>4, <1>7 DEF S
<1> QED
  BY <1>1, <1>2, <1>3, <1>4, <1>8

\* Powers are at least 1.
LEMMA DoubledPositive == \A n \in Nat : Doubled(n) \in Nat /\ Doubled(n) >= 1
<1> SUFFICES ASSUME NEW n \in Nat PROVE Doubled(n) \in Nat /\ Doubled(n) >= 1
  OBVIOUS
<1> DEFINE S == {i \in 0 .. n : Doubled(i) \in Nat /\ Doubled(i) >= 1}
<1>1. 0 \in S
  BY DoubledStep
<1>2. ASSUME NEW i \in 1 .. n, i - 1 \in S PROVE i \in S
  <2>1. PICK j \in Nat : j = i - 1 /\ i = j + 1
    OBVIOUS
  <2>2. Doubled(i) = 2 * Doubled(j)
    BY <2>1, DoubledStep
  <2> QED
    BY <1>2, <2>1, <2>2
<1> HIDE DEF S
<1>3. \A i \in 0 .. n : i \in S
  BY <1>1, <1>2, UpTo, Zenon
<1> QED
  BY <1>3 DEF S

-----------------------------------------------------------------------------
\* The rows of f that count for a day, and their number.
On(f, day) == [t \in Times |-> IF Day(t) = day THEN f[t] ELSE 0]
CountIn(f, day) == SumTo(On(f, day), MaxSamples)

\* CountOf is that number in cf_score.
LEMMA CountOfIs == \A d : CountOf(d) = CountIn(cf_score, d)
BY DEF CountOf, CountIn, On

\* The timestamps are the numbers below MaxSamples.
LEMMA TimesAre == MaxSamples \in Nat /\ MaxSamples # 0 /\ Times = 0 .. MaxSamples - 1 /\ Times \subseteq Nat
BY SamplesAssumption DEF Times

\* On has numbers.
LEMMA OnNumbers ==
  ASSUME NEW f \in [Times -> Nat], NEW d
  PROVE  Numbers(On(f, d), MaxSamples)
BY TimesAre DEF Numbers, On

\* The number of rows is one, and at least those of each timestamp.
LEMMA CountNat ==
  ASSUME NEW f \in [Times -> Nat], NEW d
  PROVE  CountIn(f, d) \in Nat /\ \A t \in Times : Day(t) = d => f[t] <= CountIn(f, d)
<1> DEFINE g == On(f, d)
<1>1. Numbers(g, MaxSamples) /\ MaxSamples \in Nat
  BY OnNumbers, TimesAre
<1>2. \A t \in Times : Day(t) = d => g[t] = f[t]
  BY DEF On
<1> HIDE DEF g
<1>3. SumTo(g, MaxSamples) \in Nat /\ \A t \in 0 .. MaxSamples - 1 : g[t] <= SumTo(g, MaxSamples)
  BY <1>1, SumNat, Zenon
<1>4. \A t \in Times : g[t] <= SumTo(g, MaxSamples)
  BY <1>3, TimesAre, Zenon
<1>5. \A t \in Times : Day(t) = d => f[t] <= SumTo(g, MaxSamples)
  BY <1>2, <1>4, Zenon
<1> QED
  BY <1>3, <1>5, Zenon DEF g, CountIn

\* Only the rows of the day count.
LEMMA CountSame ==
  ASSUME NEW f, NEW h, NEW d, \A t \in Times : Day(t) = d => f[t] = h[t]
  PROVE  CountIn(f, d) = CountIn(h, d)
<1>1. On(f, d) = On(h, d)
  BY DEF On
<1> QED
  BY <1>1, Zenon DEF CountIn

\* No rows of the day, none that count.
LEMMA CountZero ==
  ASSUME NEW f, NEW d, \A t \in Times : Day(t) = d => f[t] = 0
  PROVE  CountIn(f, d) = 0
<1> DEFINE g == On(f, d)
<1>1. \A i \in 0 .. MaxSamples - 1 : g[i] = 0
  BY TimesAre DEF On
<1> HIDE DEF g
<1>2. 0 \in 0 .. MaxSamples - 1 /\ g[0] \in Nat /\ g[0] = 0 /\ MaxSamples \in Nat
  BY <1>1, TimesAre
<1>3. SumTo(g, MaxSamples) = g[0]
  BY <1>1, <1>2, SumOfOne, Zenon
<1> QED
  BY <1>2, <1>3, Zenon DEF g, CountIn

\* One more row for a timestamp is one more for its day.
LEMMA CountBump ==
  ASSUME NEW f \in [Times -> Nat], NEW u \in Times, NEW d
  PROVE  CountIn([f EXCEPT ![u] = @ + 1], d) = CountIn(f, d) + (IF Day(u) = d THEN 1 ELSE 0)
<1> DEFINE h == [f EXCEPT ![u] = @ + 1]
           x == IF Day(u) = d THEN 1 ELSE 0
           one == [t \in Times |-> IF t = u THEN x ELSE 0]
           g == On(f, d)
           k == On(h, d)
<1>1. ASSUME NEW i \in 0 .. MaxSamples - 1 PROVE k[i] = g[i] + one[i]
  <2>1. i \in Times /\ f[i] \in Nat
    BY TimesAre
  <2>2. g[i] = (IF Day(i) = d THEN f[i] ELSE 0) /\ one[i] = (IF i = u THEN x ELSE 0)
    BY <2>1 DEF On
  <2>3. k[i] = (IF Day(i) = d THEN h[i] ELSE 0) /\ h[i] = (IF i = u THEN f[i] + 1 ELSE f[i])
    BY <2>1 DEF On
  <2> HIDE DEF g, k, one, h
  <2>4. CASE i = u
    BY <2>1, <2>2, <2>3, <2>4
  <2>5. CASE i # u
    BY <2>1, <2>2, <2>3, <2>5
  <2> QED
    BY <2>4, <2>5
<1>2. Numbers(g, MaxSamples)
  BY OnNumbers
<1>3. Numbers(one, MaxSamples) /\ MaxSamples \in Nat
  BY TimesAre DEF Numbers
<1>4. u \in 0 .. MaxSamples - 1 /\ one[u] \in Nat /\ one[u] = x /\ \A i \in 0 .. MaxSamples - 1 : i # u => one[i] = 0
  BY TimesAre
<1> HIDE DEF one, g, k, x, h
<1>5. SumTo(k, MaxSamples) = SumTo(g, MaxSamples) + SumTo(one, MaxSamples)
  <2>1. Adds(k, g, one, MaxSamples)
    BY <1>1 DEF Adds
  <2> QED
    BY <1>2, <1>3, <2>1, SumOfTwo
<1>6. SumTo(one, MaxSamples) = one[u]
  BY <1>3, <1>4, SumOfOne, Zenon
<1>7. CountIn(h, d) = CountIn(f, d) + x
  BY <1>4, <1>5, <1>6, Zenon DEF CountIn, g, k
<1> QED
  BY <1>7 DEF h, x

\* Rows of two days only: the rows are those of the one and of the other.
LEMMA CountTwoDays ==
  ASSUME NEW f \in [Times -> Nat], NEW d, NEW e, \A t \in Times : f[t] > 0 => Day(t) \in {d, e}
  PROVE  SumTo(f, MaxSamples) = IF d = e THEN CountIn(f, d) ELSE CountIn(f, d) + CountIn(f, e)
<1> DEFINE g == On(f, d)
           h == On(f, e)
<1>1. Numbers(g, MaxSamples) /\ Numbers(h, MaxSamples) /\ MaxSamples \in Nat
  BY OnNumbers, TimesAre
<1>2. CASE d = e
  <2>1. f = g
    BY <1>2 DEF On
  <2> HIDE DEF g
  <2> QED
    BY <1>2, <2>1 DEF CountIn, g
<1>3. CASE d # e
  <2>1. ASSUME NEW i \in 0 .. MaxSamples - 1 PROVE f[i] = g[i] + h[i]
    <3>1. i \in Times /\ f[i] \in Nat /\ (f[i] > 0 => Day(i) \in {d, e})
      BY TimesAre
    <3>2. g[i] = (IF Day(i) = d THEN f[i] ELSE 0) /\ h[i] = (IF Day(i) = e THEN f[i] ELSE 0)
      BY <3>1 DEF On
    <3> HIDE DEF g, h
    <3> QED
      BY <1>3, <3>1, <3>2
  <2> HIDE DEF g, h
  <2>2. SumTo(f, MaxSamples) = SumTo(g, MaxSamples) + SumTo(h, MaxSamples)
    <3>1. Adds(f, g, h, MaxSamples)
      BY <2>1 DEF Adds
    <3> QED
      BY <1>1, <3>1, SumOfTwo
  <2> QED
    BY <1>3, <2>2 DEF CountIn, g, h
<1> QED
  BY <1>2, <1>3

-----------------------------------------------------------------------------
ScoreTypeOK ==
  /\ time \in 1 .. MaxSamples /\ due \in Nat \ {0}
  /\ cf_temp_score \subseteq 0 .. time - 1 /\ cf_temp_score # {}
  /\ cf_score \in [Times -> Nat] /\ cf_score_history \in [Days -> Nat]
  /\ job \in [event : {"none", "score", "collate"}, i : 0 .. MaxRounds, delete : SUBSET Times]
  /\ job.delete # {} => job.i < MaxRounds
  /\ taken \subseteq 0 .. time - 1
  /\ crashes \in Nat

\* Between the two statements of a round what is to be deleted has been inserted.
Inserted ==
  /\ Runs("none") => job = Idle
  /\ Runs("score") /\ job.delete # {} =>
       \E t \in cf_temp_score, s \in cf_temp_score :
         t < s /\ job.delete = {t} /\ (t \in taken => cf_score[t] > 0)
  /\ Runs("collate") /\ job.delete # {} =>
       \E d \in Days : job.delete = RowsOf(d) /\ cf_score_history[d] >= CountIn(cf_score, d)

\* What was moved on is older than what is in cf_temp_score.
NewestKept ==
  /\ \A t \in Times : cf_score[t] > 0 => \E s \in cf_temp_score : t < s
  /\ \A d \in Days : cf_score_history[d] > 0 => \E s \in cf_temp_score : d <= Day(s)

\* The tables once the round is over, and the samples counted in them.
TempLeft == IF Runs("score") THEN cf_temp_score \ job.delete ELSE cf_temp_score
RowsLeft == [t \in Times |-> IF Runs("collate") /\ t \in job.delete THEN 0 ELSE cf_score[t]]
Net(d) == Cardinality(SamplesOf(d) \cap TempLeft) + cf_score_history[d] + CountIn(RowsLeft, d)

NetRight(d) ==
  /\ d > Today - CF_DAYSAMPLES => Net(d) >= Cardinality(SamplesOf(d))
  /\ Net(d) <= Cardinality(SamplesOf(d)) * Doubled(crashes)

CountsRight == \A d \in Days : NetRight(d)

\* Without a crash cf_temp_score has one timestamp between runs, and the second event is late by
\* one run at most.  The rows in cf_score are of the day it last ran on, and of the day old of the
\* timestamp it left in cf_temp_score then.
RowsOld(old) ==
  /\ \A t \in Times : RowsLeft[t] > 0 => Day(t) \in {old, due - 1}
  /\ Runs("collate") =>
       /\ job.i > 0 \/ job.delete # {} => \A t \in Times : RowsLeft[t] > 0 => Day(t) = due - 1
       /\ job.i > 1 \/ (job.i = 1 /\ job.delete # {}) => \A t \in Times : RowsLeft[t] = 0
HistoryOld(old) ==
  /\ \A s \in cf_temp_score : Day(s) = old \/ Day(s) >= due - 1
  /\ \A d \in Days : cf_score_history[d] > 0 => due - CF_DAYSAMPLES <= d /\ d <= old
OnTime ==
  /\ due \in {Today, Today + 1} /\ (due = Today => time % PerDay <= 1)
  /\ Runs("collate") => due = Today
FewLeft ==
  /\ Runs("score") /\ job.i = 0 => Cardinality(cf_temp_score) <= 2
  /\ ~ Runs("score") \/ job.i > 0 => Cardinality(cf_temp_score) <= 1
Calm ==
  crashes = 0 =>
    /\ FewLeft /\ OnTime
    /\ \E old \in 0 .. due - 1 : RowsOld(old) /\ (~ Runs("collate") => HistoryOld(old))

ScoreInv == ScoreTypeOK /\ Inserted /\ NewestKept /\ CountsRight /\ Calm

\* Samples of a day are no more than its timestamps.
LEMMA SamplesFinite ==
  ASSUME ScoreTypeOK, NEW d \in Nat
  PROVE  /\ IsFiniteSet(SamplesOf(d)) /\ Cardinality(SamplesOf(d)) \in Nat
         /\ Cardinality(SamplesOf(d)) <= PerDay
         /\ \A T : /\ IsFiniteSet(SamplesOf(d) \cap T) /\ Cardinality(SamplesOf(d) \cap T) \in Nat
<1> DEFINE S == SamplesOf(d)
<1>0. taken \subseteq Nat
  BY DEF ScoreTypeOK
<1>1. S \in SUBSET Nat /\ \A t \in S : Day(t) = d
  BY <1>0, Zenon DEF SamplesOf
<1> HIDE DEF S
<1>2. IsFiniteSet(S) /\ Cardinality(S) \in Nat /\ Cardinality(S) <= PerDay
  BY <1>1, DaySize, Zenon
<1>3. ASSUME NEW T PROVE IsFiniteSet(S \cap T) /\ Cardinality(S \cap T) \in Nat
  <2>1. S \cap T \in SUBSET S
    OBVIOUS
  <2>2. IsFiniteSet(S \cap T)
    BY <1>2, <2>1, FS_Subset, Zenon
  <2> QED
    BY <2>2, FS_CardinalityType, Zenon
<1> QED
  BY <1>2, <1>3, Zenon DEF S

\* cf_temp_score is finite, with an oldest timestamp.
LEMMA TempFacts ==
  ASSUME ScoreTypeOK
  PROVE  /\ IsFiniteSet(cf_temp_score) /\ Cardinality(cf_temp_score) \in Nat
         /\ cf_temp_score \in SUBSET Times /\ time \in Nat
<1>1. cf_temp_score \in SUBSET (0 .. time - 1) /\ time - 1 \in Int /\ 0 \in Int
  BY SamplesAssumption DEF ScoreTypeOK
<1>2. IsFiniteSet(0 .. time - 1)
  BY <1>1, FS_Interval, Zenon
<1>3. IsFiniteSet(cf_temp_score)
  BY <1>1, <1>2, FS_Subset, Zenon
<1>4. Cardinality(cf_temp_score) \in Nat
  BY <1>3, FS_CardinalityType, Zenon
<1>5. cf_temp_score \in SUBSET Times /\ time \in Nat
  BY TimesAre DEF ScoreTypeOK
<1> QED
  BY <1>3, <1>4, <1>5

\* The oldest of several timestamps is older than another one.
LEMMA MinIs ==
  ASSUME NEW S \in SUBSET Nat, S # {}
  PROVE  Min(S) \in S /\ \A y \in S : Min(S) <= y
<1>1. \E x \in S : \A y \in S : x <= y
  BY LeastNat, Zenon
<1> QED
  BY <1>1, Zenon DEF Min

\* A set of more than one number has one above its least.
LEMMA MinOfSeveral ==
  ASSUME NEW S \in SUBSET Nat, IsFiniteSet(S), Cardinality(S) > 1
  PROVE  Min(S) \in S /\ \E y \in S : Min(S) < y
<1>1. S # {}
  BY FS_EmptySet
<1>2. Min(S) \in S /\ \A y \in S : Min(S) <= y
  BY <1>1, MinIs, Zenon
<1> DEFINE m == Min(S)
<1>3. S # {m}
  BY FS_Singleton
<1> HIDE DEF m
<1>4. m \in S /\ \A y \in S : m <= y
  BY <1>2 DEF m
<1>5. PICK y \in S : y # m
  BY <1>3, <1>4, Zenon
<1>6. m < y
  BY <1>4, <1>5
<1> QED
  BY <1>4, <1>6 DEF m

\* The days are numbers, and today is one of them.
LEMMA DaysAre ==
  /\ Days = 0 .. Day(MaxSamples) /\ Day(MaxSamples) \in Nat /\ Days \subseteq Nat
  /\ \A t \in Times : Day(t) \in Days
  /\ ScoreTypeOK => Today \in Days
<1>1. Days = 0 .. Day(MaxSamples) /\ Day(MaxSamples) \in Nat
  BY TimesAre, DayOf, Zenon DEF Days
<1>2. ASSUME NEW t \in Nat, t <= MaxSamples PROVE Day(t) \in Days
  <2>1. Day(t) \in Nat /\ Day(t) <= Day(MaxSamples)
    BY <1>2, TimesAre, DayOf, DayMonotone, Zenon
  <2> QED
    BY <1>1, <2>1
<1>3. Days \subseteq Nat
  BY <1>1
<1>4. ASSUME NEW t \in Times PROVE Day(t) \in Days
  BY <1>2, TimesAre
<1>5. ASSUME ScoreTypeOK PROVE Today \in Days
  <2>1. time \in Nat /\ time <= MaxSamples
    BY <1>5, TimesAre DEF ScoreTypeOK
  <2> QED
    BY <1>2, <2>1 DEF Today
<1> QED
  BY <1>1, <1>3, <1>4, <1>5

\* What is left in cf_score are rows too.
LEMMA RowsLeftType == ScoreTypeOK => RowsLeft \in [Times -> Nat]
BY DEF ScoreTypeOK, RowsLeft

\* Each part of a count is a number.
LEMMA NetNat ==
  ASSUME ScoreTypeOK, NEW d \in Days
  PROVE  /\ d \in Nat /\ cf_score_history[d] \in Nat /\ CountIn(RowsLeft, d) \in Nat
         /\ Cardinality(SamplesOf(d) \cap TempLeft) \in Nat /\ Net(d) \in Nat
         /\ Cardinality(SamplesOf(d)) \in Nat /\ Cardinality(SamplesOf(d)) <= PerDay
<1>1. d \in Nat /\ cf_score_history[d] \in Nat
  BY DaysAre DEF ScoreTypeOK
<1>2. CountIn(RowsLeft, d) \in Nat
  BY RowsLeftType, CountNat, Zenon
<1>3. /\ Cardinality(SamplesOf(d) \cap TempLeft) \in Nat
      /\ Cardinality(SamplesOf(d)) \in Nat /\ Cardinality(SamplesOf(d)) <= PerDay
  BY <1>1, SamplesFinite, Zenon
<1> QED
  BY <1>1, <1>2, <1>3 DEF Net

\* Counts and their limits stay as they are.
LEMMA CountsFrame ==
  ASSUME CountsRight, UNCHANGED <<time, cf_score_history, taken, crashes>>,
         TempLeft' = TempLeft, RowsLeft' = RowsLeft
  PROVE  CountsRight'
<1> SUFFICES ASSUME NEW d \in Days PROVE NetRight(d)'
  BY DEF CountsRight
<1>1. SamplesOf(d)' = SamplesOf(d) /\ Today' = Today /\ Doubled(crashes)' = Doubled(crashes)
  BY DEF SamplesOf, Today
<1>2. Net(d)' = Net(d)
  BY <1>1 DEF Net
<1>3. NetRight(d)
  BY DEF CountsRight
<1> QED
  BY <1>1, <1>2, <1>3 DEF NetRight

\* At the start nothing is counted.
LEMMA ScoreStart == ScoreInit => ScoreInv
<1> SUFFICES ASSUME ScoreInit PROVE ScoreInv
  OBVIOUS
<1>1. ScoreTypeOK
  <2>1. 1 \in 1 .. MaxSamples /\ 0 \in 0 .. 1 - 1 /\ 0 \in 0 .. MaxRounds
    BY SamplesAssumption
  <2>2. time = 1 /\ due = 1 /\ cf_temp_score = {0} /\ taken = {} /\ crashes = 0
    BY DEF ScoreInit
  <2>3. cf_score \in [Times -> Nat] /\ cf_score_history \in [Days -> Nat]
    BY DEF ScoreInit
  <2>4. /\ job \in [event : {"none", "score", "collate"}, i : 0 .. MaxRounds, delete : SUBSET Times]
        /\ job.delete = {}
    BY <2>1 DEF ScoreInit, Idle, Running
  <2> QED
    BY <2>1, <2>2, <2>3, <2>4 DEF ScoreTypeOK
<1>2. job = Idle /\ job.event = "none" /\ job.delete = {}
  BY DEF ScoreInit, Idle, Running
<1>3. Inserted
  BY <1>2 DEF Inserted, Runs
<1>4. NewestKept
  BY DEF NewestKept, ScoreInit
<1>5. RowsLeft = cf_score /\ \A t \in Times : RowsLeft[t] = 0
  BY <1>2 DEF RowsLeft, ScoreInit, Runs
<1>6. CountsRight
  <2> SUFFICES ASSUME NEW d \in Days PROVE NetRight(d)
    BY DEF CountsRight
  <2>1. CountIn(RowsLeft, d) = 0
    BY <1>5, CountZero
  <2>2. SamplesOf(d) = {} /\ SamplesOf(d) \cap TempLeft = {} /\ cf_score_history[d] = 0
    BY DEF SamplesOf, ScoreInit
  <2>3. Cardinality(SamplesOf(d)) = 0 /\ Net(d) = 0
    BY <2>1, <2>2, FS_EmptySet DEF Net
  <2>4. Doubled(crashes) \in Nat
    BY DoubledStep DEF ScoreInit
  <2> QED
    BY <2>3, <2>4 DEF NetRight
<1>7. Calm
  <2>1. Today = 0 /\ Day(0) \in Nat
    <3>1. 1 < PerDay * 1
      BY SamplesAssumption
    <3>2. Day(1) < 1 /\ Day(1) \in Nat /\ Day(0) \in Nat
      BY <3>1, DayBelow, DayOf
    <3> QED
      BY <3>2 DEF Today, ScoreInit
  <2>2. FewLeft
    <3>1. Cardinality(cf_temp_score) = 1
      BY FS_Singleton DEF ScoreInit
    <3> QED
      BY <1>2, <3>1 DEF FewLeft, Runs
  <2>3. OnTime
    BY <1>2, <2>1 DEF OnTime, ScoreInit, Runs
  <2>4. RowsOld(0)
    BY <1>2, <1>5 DEF RowsOld, Runs
  <2>5. HistoryOld(0)
    BY <2>1 DEF HistoryOld, ScoreInit
  <2>6. 0 \in 0 .. due - 1
    BY DEF ScoreInit
  <2> QED
    BY <2>2, <2>3, <2>4, <2>5, <2>6 DEF Calm
<1> QED
  BY <1>1, <1>3, <1>4, <1>6, <1>7 DEF ScoreInv

\* After a timestamp that begins a day comes its second one.
LEMMA FirstOfDay ==
  ASSUME NEW t \in Nat, t % PerDay = 0
  PROVE  Day(t + 1) = Day(t) /\ (t + 1) % PerDay = 1
<1> DEFINE q == Day(t)
           p == Day(t + 1)
           s == (t + 1) % PerDay
           a == PerDay * q
<1>0. t + 1 \in Nat
  OBVIOUS
<1>1. q \in Nat /\ t = a + 0 /\ p \in Nat /\ s \in 0 .. PerDay - 1 /\ t + 1 = PerDay * p + s
  BY <1>0, DayOf, Zenon
<1>2. PerDay \in Nat /\ PerDay >= 2 /\ a \in Nat /\ PerDay * (q + 1) = a + PerDay
  BY <1>1, SamplesAssumption
<1>3. t + 1 < PerDay * (q + 1) /\ q + 1 \in Nat
  BY <1>1, <1>2
<1>4. p < q + 1
  BY <1>0, <1>3, DayBelow
<1>5. q <= p
  BY <1>0, DayMonotone
<1>6. p = q
  BY <1>1, <1>4, <1>5
<1>7. t + 1 = a + s
  BY <1>1, <1>6
<1> HIDE DEF a, s
<1>8. s = 1
  BY <1>1, <1>2, <1>7
<1> QED
  BY <1>6, <1>8 DEF s

\* Every sample that is taken is in cf_temp_score.
LEMMA SampleStep ==
  ASSUME ScoreInv, Sample
  PROVE  ScoreInv'
<1>0. ScoreTypeOK /\ Inserted /\ NewestKept /\ CountsRight /\ Calm
  BY DEF ScoreInv
<1>1. /\ job.event = "none" /\ job.delete = {} /\ time < MaxSamples /\ time \in Nat /\ time' = time + 1
      /\ UNCHANGED <<due, cf_score, cf_score_history, crashes>>
      /\ job' = Running("score", 0) /\ job'.event = "score" /\ job'.delete = {} /\ job'.i = 0
  BY <1>0 DEF Sample, Idle, Running, ScoreTypeOK
<1>2. /\ cf_temp_score' = cf_temp_score \/ cf_temp_score' = cf_temp_score \cup {time}
      /\ taken' = taken \/ (taken' = taken \cup {time} /\ cf_temp_score' = cf_temp_score \cup {time})
  BY DEF Sample
<1>3. ScoreTypeOK'
  <2>1. time' \in 1 .. MaxSamples
    BY <1>0, <1>1, TimesAre DEF ScoreTypeOK
  <2>2. cf_temp_score' \subseteq 0 .. time' - 1 /\ cf_temp_score' # {} /\ taken' \subseteq 0 .. time' - 1
    <3>1. /\ cf_temp_score \subseteq 0 .. time - 1 /\ taken \subseteq 0 .. time - 1 /\ cf_temp_score # {}
          /\ time \in 0 .. time' - 1 /\ 0 .. time - 1 \subseteq 0 .. time' - 1
      BY <1>0, <1>1 DEF ScoreTypeOK
    <3> QED
      BY <1>2, <3>1, ZenonT(30)
  <2>3. job' \in [event : {"none", "score", "collate"}, i : 0 .. MaxRounds, delete : SUBSET Times]
    BY <1>1, SamplesAssumption DEF Running
  <2> QED
    BY <1>0, <1>1, <2>1, <2>2, <2>3 DEF ScoreTypeOK, Times, Days
<1>4. Inserted'
  BY <1>1 DEF Inserted, Runs
<1>5. NewestKept'
  BY <1>0, <1>1, <1>2 DEF NewestKept
<1>6. TempLeft = cf_temp_score /\ TempLeft' = cf_temp_score' /\ RowsLeft' = RowsLeft
  BY <1>1 DEF TempLeft, RowsLeft, Runs
<1>7. CountsRight'
  <2> SUFFICES ASSUME NEW d \in Days PROVE NetRight(d)'
    BY DEF CountsRight
  <2> DEFINE N == Cardinality(SamplesOf(d))
             C == Cardinality(SamplesOf(d) \cap cf_temp_score)
             D == Doubled(crashes)
  <2>1. /\ d \in Nat /\ N \in Nat /\ C \in Nat /\ cf_score_history[d] \in Nat /\ CountIn(RowsLeft, d) \in Nat
        /\ Net(d) = C + cf_score_history[d] + CountIn(RowsLeft, d)
    BY <1>0, <1>6, NetNat, Zenon DEF Net
  <2>2. Net(d)' = Cardinality(SamplesOf(d)' \cap cf_temp_score') + cf_score_history[d] + CountIn(RowsLeft, d)
    BY <1>1, <1>6 DEF Net
  <2>3. NetRight(d)
    BY <1>0 DEF CountsRight
  <2>4. PICK new \in Nat : Today' = new /\ Today <= new /\ Today \in Nat /\ CF_DAYSAMPLES \in Nat
    <3>1. Today' = Day(time + 1) /\ Today = Day(time) /\ time + 1 \in Nat /\ time <= time + 1
      BY <1>1 DEF Today, Day
    <3>2. Day(time + 1) \in Nat /\ Day(time) \in Nat /\ Day(time) <= Day(time + 1)
      BY <1>1, <3>1, DayMonotone, DayOf, Zenon
    <3> QED
      BY <3>1, <3>2, SamplesAssumption
  <2>5. time \notin taken /\ time \notin cf_temp_score /\ D \in Nat /\ D >= 1
    BY <1>0, DoubledPositive DEF ScoreTypeOK
  <2>6. CASE taken' = taken \cup {time} /\ Day(time) = d
    <3>1. SamplesOf(d)' = SamplesOf(d) \cup {time}
      BY <2>6 DEF SamplesOf
    <3>2. SamplesOf(d)' \cap cf_temp_score' = (SamplesOf(d) \cap cf_temp_score) \cup {time}
      BY <1>2, <2>5, <2>6, <3>1 DEF SamplesOf
    <3>3. time \notin SamplesOf(d) /\ time \notin SamplesOf(d) \cap cf_temp_score
      BY <2>5 DEF SamplesOf
    <3>4. IsFiniteSet(SamplesOf(d)) /\ IsFiniteSet(SamplesOf(d) \cap cf_temp_score)
      BY <1>0, <2>1, SamplesFinite
    <3>5. Cardinality(SamplesOf(d)') = N + 1 /\ Net(d)' = Net(d) + 1
      <4>1. Cardinality(SamplesOf(d) \cup {time}) = N + 1
        BY <3>3, <3>4, FS_AddElement, Zenon
      <4>2. Cardinality((SamplesOf(d) \cap cf_temp_score) \cup {time}) = C + 1
        BY <3>3, <3>4, FS_AddElement, Zenon
      <4>3. Net(d)' = (C + 1) + cf_score_history[d] + CountIn(RowsLeft, d)
        BY <2>2, <3>2, <4>2
      <4> HIDE DEF C
      <4> QED
        BY <2>1, <3>1, <4>1, <4>3
    <3>6. (N + 1) * D = N * D + D /\ N * D \in Nat /\ Net(d) \in Nat
      BY <2>1, <2>5
    <3> HIDE DEF N, D
    <3>7. Net(d) <= N * D /\ (d > Today - CF_DAYSAMPLES => Net(d) >= N)
      BY <2>3 DEF NetRight, N, D
    <3>8. Net(d) + 1 <= (N + 1) * D /\ (d > new - CF_DAYSAMPLES => Net(d) + 1 >= N + 1)
      BY <2>1, <2>4, <2>5, <3>6, <3>7
    <3> QED
      BY <1>1, <2>4, <3>5, <3>8 DEF NetRight, D
  <2>7. CASE ~ (taken' = taken \cup {time} /\ Day(time) = d)
    <3>1. SamplesOf(d)' = SamplesOf(d) /\ time \notin SamplesOf(d)
      BY <1>2, <2>5, <2>7 DEF SamplesOf
    <3>2. SamplesOf(d)' \cap cf_temp_score' = SamplesOf(d) \cap cf_temp_score
      BY <1>2, <3>1
    <3>3. Net(d)' = Net(d)
      BY <2>1, <2>2, <3>2, Zenon
    <3>4. d > new - CF_DAYSAMPLES => d > Today - CF_DAYSAMPLES
      BY <2>1, <2>4
    <3> QED
      BY <1>1, <2>3, <2>4, <3>1, <3>3, <3>4 DEF NetRight
  <2> QED
    BY <2>6, <2>7
<1>8. Calm'
  <2> SUFFICES ASSUME crashes = 0 PROVE Calm'
    BY <1>1 DEF Calm
  <2>1. FewLeft /\ OnTime /\ \E old \in 0 .. due - 1 : RowsOld(old) /\ HistoryOld(old)
    BY <1>0, <1>1 DEF Calm, Runs
  <2>2. PICK old \in 0 .. due - 1 : RowsOld(old) /\ HistoryOld(old)
    BY <2>1
  <2>3. Today \in Nat /\ due \in Nat
    BY <1>0, <1>1, DayOf DEF Today, ScoreTypeOK
  <2>4. FewLeft'
    <3>1. Cardinality(cf_temp_score) <= 1
      BY <1>1, <2>1 DEF FewLeft, Runs
    <3>2. IsFiniteSet(cf_temp_score) /\ Cardinality(cf_temp_score) \in Nat
      BY <1>0, TempFacts, Zenon
    <3>3. Cardinality(cf_temp_score \cup {time}) \in {Cardinality(cf_temp_score), Cardinality(cf_temp_score) + 1}
      BY <3>2, FS_AddElement
    <3>4. Cardinality(cf_temp_score') <= 2
      BY <1>2, <3>1, <3>2, <3>3
    <3> QED
      BY <1>1, <3>4 DEF FewLeft, Runs
  <2>5. OnTime'
    <3>0. PICK new, rest : /\ new = Day(time + 1) /\ rest = (time + 1) % PerDay
                           /\ Today' = new /\ time' % PerDay = rest
      BY <1>1 DEF Today, Day
    <3>1. new = Today \/ (new = Today + 1 /\ rest = 0)
      BY <1>1, <3>0, DayNext DEF Today
    <3>2. time % PerDay = 0 => new = Today /\ rest = 1
      BY <1>1, <3>0, FirstOfDay DEF Today
    <3>3. time % PerDay = 0 \/ due > Today
      BY DEF Sample
    <3>4. due = Today \/ due = Today + 1
      BY <2>1 DEF OnTime
    <3>5. /\ due = new \/ due = new + 1
          /\ due = new => rest <= 1
      BY <2>3, <3>1, <3>2, <3>3, <3>4
    <3> QED
      BY <1>1, <3>0, <3>5 DEF OnTime, Runs
  <2>6. RowsOld(old)'
    BY <1>1, <1>6, <2>2 DEF RowsOld, Runs
  <2>7. HistoryOld(old)'
    <3>1. Day(time) >= due - 1
      BY <2>1, <2>3 DEF OnTime, Today
    <3> QED
      BY <1>1, <1>2, <2>2, <3>1 DEF HistoryOld
  <2>8. old \in 0 .. due' - 1
    BY <1>1, <2>2
  <2> QED
    BY <2>4, <2>5, <2>6, <2>7, <2>8 DEF Calm
<1> QED
  BY <1>3, <1>4, <1>5, <1>7, <1>8 DEF ScoreInv

\* The oldest timestamp is moved to cf_score; once deleted it counts there instead.
LEMMA MoveScoreStep ==
  ASSUME ScoreInv, MoveScore
  PROVE  ScoreInv'
<1>0. ScoreTypeOK /\ Inserted /\ NewestKept /\ CountsRight /\ Calm
  BY DEF ScoreInv
<1> DEFINE u == Min(cf_temp_score)
<1>1. /\ job.event = "score" /\ job.delete = {} /\ job.i < MaxRounds /\ Cardinality(cf_temp_score) > 1
      /\ UNCHANGED <<time, due, cf_temp_score, cf_score_history, taken, crashes>>
      /\ cf_score' = IF u \in taken THEN [cf_score EXCEPT ![u] = @ + 1] ELSE cf_score
      /\ job' = [job EXCEPT !.delete = {u}]
  BY DEF MoveScore, Runs
<1>2. u \in cf_temp_score /\ \E s \in cf_temp_score : u < s
  <2>1. cf_temp_score \in SUBSET Nat /\ IsFiniteSet(cf_temp_score)
    BY <1>0, TempFacts, TimesAre
  <2> QED
    BY <1>1, <2>1, MinOfSeveral, Zenon
<1> HIDE DEF u
<1>3. PICK s \in cf_temp_score : u < s
  BY <1>2
<1>4. u \in Times /\ u \in Nat
  BY <1>0, <1>2, TempFacts, TimesAre
<1>5. job'.event = "score" /\ job'.delete = {u} /\ job'.i = job.i
  BY <1>0, <1>1 DEF ScoreTypeOK
<1>6. ScoreTypeOK'
  <2>1. cf_score' \in [Times -> Nat]
    BY <1>0, <1>1, <1>4 DEF ScoreTypeOK
  <2>2. job' \in [event : {"none", "score", "collate"}, i : 0 .. MaxRounds, delete : SUBSET Times]
    BY <1>0, <1>1, <1>4 DEF ScoreTypeOK
  <2> QED
    BY <1>0, <1>1, <1>5, <2>1, <2>2 DEF ScoreTypeOK, Times, Days
<1>7. Inserted'
  <2>1. u \in taken => cf_score'[u] > 0
    BY <1>0, <1>1, <1>4 DEF ScoreTypeOK
  <2> QED
    BY <1>1, <1>2, <1>3, <1>5, <2>1 DEF Inserted, Runs
<1>8. \A t \in Times : cf_score'[t] > 0 => cf_score[t] > 0 \/ t = u
  BY <1>0, <1>1, <1>4 DEF ScoreTypeOK
<1>9. NewestKept'
  BY <1>0, <1>1, <1>3, <1>8 DEF NewestKept, Times, Days
<1>10. TempLeft = cf_temp_score /\ TempLeft' = cf_temp_score \ {u} /\ RowsLeft = cf_score /\ RowsLeft' = cf_score'
  <2>1. cf_score = [t \in Times |-> cf_score[t]] /\ cf_score' = [t \in Times |-> cf_score'[t]]
    BY <1>0, <1>6 DEF ScoreTypeOK
  <2> QED
    BY <1>1, <1>5, <2>1 DEF TempLeft, RowsLeft, Runs
<1>11. CountsRight'
  <2> SUFFICES ASSUME NEW d \in Days PROVE NetRight(d)'
    BY DEF CountsRight
  <2>1. NetRight(d)
    BY <1>0 DEF CountsRight
  <2>2. SamplesOf(d)' = SamplesOf(d) /\ Today' = Today
    BY <1>1 DEF SamplesOf, Today, Day
  <2> DEFINE S == SamplesOf(d) \cap cf_temp_score
             C == Cardinality(S)
             c == IF u \in taken /\ Day(u) = d THEN 1 ELSE 0
  <2>3. /\ d \in Nat /\ C \in Nat /\ cf_score_history[d] \in Nat /\ CountIn(cf_score, d) \in Nat
        /\ Net(d) = C + cf_score_history[d] + CountIn(cf_score, d)
    BY <1>0, <1>10, NetNat, Zenon DEF Net
  <2>4. IsFiniteSet(S)
    BY <1>0, <2>3, SamplesFinite, Zenon
  <2>5. u \in S <=> u \in taken /\ Day(u) = d
    BY <1>2 DEF SamplesOf
  <2>6. SamplesOf(d)' \cap TempLeft' = S \ {u}
    BY <1>10, <2>2
  <2>7. Cardinality(S \ {u}) = C - c
    <3> HIDE DEF S
    <3>1. Cardinality(S \ {u}) = IF u \in S THEN C - 1 ELSE C
      BY <2>4, FS_RemoveElement, Zenon
    <3> QED
      BY <2>3, <2>5, <3>1
  <2>8. CountIn(cf_score', d) = CountIn(cf_score, d) + c
    <3>1. CASE u \in taken
      <4>1. cf_score' = [cf_score EXCEPT ![u] = @ + 1] /\ cf_score \in [Times -> Nat]
        BY <1>0, <1>1, <3>1 DEF ScoreTypeOK
      <4>2. CountIn(cf_score', d) = CountIn(cf_score, d) + (IF Day(u) = d THEN 1 ELSE 0)
        BY <1>4, <4>1, CountBump, Zenon
      <4> QED
        BY <3>1, <4>2
    <3>2. CASE u \notin taken
      BY <1>1, <2>3, <3>2
    <3> QED
      BY <3>1, <3>2
  <2>9. Net(d)' = (C - c) + cf_score_history[d] + (CountIn(cf_score, d) + c)
    <3>1. CountIn(RowsLeft, d)' = CountIn(cf_score, d) + c
      BY <1>10, <2>8 DEF CountIn, On, Times, Day
    <3> QED
      BY <1>1, <2>6, <2>7, <3>1 DEF Net
  <2>10. c \in Nat
    OBVIOUS
  <2> HIDE DEF C, c
  <2>11. Net(d)' = Net(d)
    BY <2>3, <2>9, <2>10
  <2> QED
    BY <1>1, <2>1, <2>2, <2>11 DEF NetRight
<1>12. Calm'
  <2> SUFFICES ASSUME crashes = 0 PROVE Calm'
    BY <1>1 DEF Calm
  <2>1. FewLeft /\ OnTime /\ \E old \in 0 .. due - 1 : RowsOld(old) /\ HistoryOld(old)
    BY <1>0, <1>1 DEF Calm, Runs
  <2>2. PICK old \in 0 .. due - 1 : RowsOld(old) /\ HistoryOld(old)
    BY <2>1
  <2>3. FewLeft' /\ OnTime'
    BY <1>1, <1>5, <2>1 DEF FewLeft, OnTime, Runs, Today, Day
  <2>4. Day(u) \in {old, due - 1}
    <3>1. Day(u) \in Nat /\ Today \in Nat /\ due \in Nat /\ time \in Nat
      BY <1>0, <1>4, DayOf DEF ScoreTypeOK, Today
    <3>2. Day(u) = old \/ Day(u) >= due - 1
      BY <1>2, <2>2 DEF HistoryOld
    <3>3. u < time - 1
      BY <1>0, <1>3, <1>4 DEF ScoreTypeOK
    <3>4. CASE due = Today + 1
      <4>1. Day(u) <= Today
        BY <1>4, <3>1, <3>3, DayMonotone DEF Today
      <4> QED
        BY <3>1, <3>2, <3>4, <4>1
    <3>5. CASE due = Today
      <4>1. Day(u) < Today
        BY <1>4, <2>1, <3>1, <3>3, <3>5, DayBefore DEF Today, OnTime
      <4> QED
        BY <3>1, <3>2, <3>5, <4>1
    <3> QED
      BY <2>1, <3>4, <3>5 DEF OnTime
  <2>5. RowsOld(old)'
    <3>1. \A t \in Times : RowsLeft'[t] > 0 => Day(t) \in {old, due - 1}
      BY <1>8, <1>10, <2>2, <2>4 DEF RowsOld
    <3> QED
      BY <1>1, <1>5, <3>1 DEF RowsOld, Runs, Times, Day
  <2>6. HistoryOld(old)'
    BY <1>1, <2>2 DEF HistoryOld, Day, Days
  <2> QED
    BY <1>1, <2>2, <2>3, <2>5, <2>6 DEF Calm
<1> QED
  BY <1>6, <1>7, <1>9, <1>11, <1>12 DEF ScoreInv

\* A moved timestamp leaves cf_temp_score, which keeps a newer one.
LEMMA DeleteTempStep ==
  ASSUME ScoreInv, DeleteTemp
  PROVE  ScoreInv'
<1>0. ScoreTypeOK /\ Inserted /\ NewestKept /\ CountsRight /\ Calm
  BY DEF ScoreInv
<1>1. /\ job.event = "score" /\ job.delete # {} /\ job.i < MaxRounds /\ job.i \in Nat
      /\ UNCHANGED <<time, due, cf_score, cf_score_history, taken, crashes>>
      /\ cf_temp_score' = cf_temp_score \ job.delete
      /\ job' = [event |-> "score", i |-> job.i + 1, delete |-> {}]
  BY <1>0 DEF DeleteTemp, Runs, Running, ScoreTypeOK
<1>2. PICK t \in cf_temp_score, s \in cf_temp_score : t < s /\ job.delete = {t}
  BY <1>0, <1>1 DEF Inserted, Runs
<1>3. t \in Nat /\ s \in Nat /\ t # s /\ cf_temp_score \subseteq Nat
  BY <1>0, <1>2 DEF ScoreTypeOK
<1>4. s \in cf_temp_score' /\ \A x \in cf_temp_score : x \in cf_temp_score' \/ x = t
  BY <1>1, <1>2, <1>3
<1>5. job'.event = "score" /\ job'.delete = {} /\ job'.i = job.i + 1
  BY <1>1
<1>6. ScoreTypeOK'
  <2>1. job' \in [event : {"none", "score", "collate"}, i : 0 .. MaxRounds, delete : SUBSET Times]
    BY <1>0, <1>1, SamplesAssumption DEF ScoreTypeOK
  <2>2. cf_temp_score' \subseteq 0 .. time - 1 /\ cf_temp_score' # {}
    BY <1>0, <1>1, <1>4, ZenonT(30) DEF ScoreTypeOK
  <2> QED
    BY <1>0, <1>1, <1>5, <2>1, <2>2 DEF ScoreTypeOK, Times, Days
<1>7. Inserted'
  BY <1>5 DEF Inserted, Runs
<1>8. NewestKept'
  <2>1. ASSUME NEW x \in Nat, \E y \in cf_temp_score : x < y PROVE \E y \in cf_temp_score' : x < y
    BY <1>2, <1>3, <1>4, <2>1
  <2>2. ASSUME NEW x \in Nat, \E y \in cf_temp_score : x <= Day(y) PROVE \E y \in cf_temp_score' : x <= Day(y)
    <3>1. Day(t) \in Nat /\ Day(s) \in Nat /\ Day(t) <= Day(s)
      BY <1>2, <1>3, DayOf, DayMonotone
    <3> QED
      BY <1>4, <2>2, <3>1
  <2>3. Times \subseteq Nat /\ Days \subseteq Nat
    BY TimesAre, DaysAre, Zenon
  <2>4. \A x \in Times : cf_score'[x] > 0 => \E y \in cf_temp_score' : x < y
    BY <1>0, <1>1, <2>1, <2>3 DEF NewestKept
  <2>5. \A x \in Days : cf_score_history'[x] > 0 => \E y \in cf_temp_score' : x <= Day(y)
    BY <1>0, <1>1, <2>2, <2>3 DEF NewestKept
  <2> QED
    BY <2>4, <2>5 DEF NewestKept, Times, Days, Day
<1>9. TempLeft' = TempLeft /\ RowsLeft' = RowsLeft
  BY <1>1, <1>5 DEF TempLeft, RowsLeft, Runs, Times
<1>10. CountsRight'
  BY <1>0, <1>1, <1>9, CountsFrame
<1>11. Calm'
  <2> SUFFICES ASSUME crashes = 0 PROVE Calm'
    BY <1>1 DEF Calm
  <2>1. FewLeft /\ OnTime /\ \E old \in 0 .. due - 1 : RowsOld(old) /\ HistoryOld(old)
    BY <1>0, <1>1 DEF Calm, Runs
  <2>2. PICK old \in 0 .. due - 1 : RowsOld(old) /\ HistoryOld(old)
    BY <2>1
  <2>3. FewLeft'
    <3>1. IsFiniteSet(cf_temp_score) /\ Cardinality(cf_temp_score) \in Nat
      BY <1>0, TempFacts, Zenon
    <3>2. Cardinality(cf_temp_score \ {t}) = Cardinality(cf_temp_score) - 1
      BY <1>2, <3>1, FS_RemoveElement
    <3>3. Cardinality(cf_temp_score) <= 2
      BY <1>1, <2>1, <3>1 DEF FewLeft, Runs
    <3>4. Cardinality(cf_temp_score') <= 1
      BY <1>1, <1>2, <3>1, <3>2, <3>3
    <3> QED
      BY <1>1, <1>5, <3>4 DEF FewLeft, Runs
  <2>4. OnTime'
    BY <1>1, <1>5, <2>1 DEF OnTime, Runs, Today, Day
  <2>5. RowsOld(old)'
    BY <1>1, <1>5, <1>9, <2>2 DEF RowsOld, Runs, Times, Day
  <2>6. HistoryOld(old)'
    BY <1>1, <2>2 DEF HistoryOld, Day, Days
  <2> QED
    BY <1>1, <2>2, <2>3, <2>4, <2>5, <2>6 DEF Calm
<1> QED
  BY <1>6, <1>7, <1>8, <1>10, <1>11 DEF ScoreInv

\* The first event ends: without a crash one timestamp is left.
LEMMA ScoreDoneStep ==
  ASSUME ScoreInv, ScoreDone
  PROVE  ScoreInv'
<1>0. ScoreTypeOK /\ Inserted /\ NewestKept /\ CountsRight /\ Calm
  BY DEF ScoreInv
<1>1. /\ job.event = "score" /\ job.delete = {}
      /\ job.i = MaxRounds \/ Cardinality(cf_temp_score) = 1
      /\ UNCHANGED <<time, due, cf_temp_score, cf_score, cf_score_history, taken, crashes>>
      /\ job' = Idle /\ Idle' = Idle /\ job'.event = "none" /\ job'.delete = {}
  BY DEF ScoreDone, Runs, Running, Idle
<1>2. ScoreTypeOK'
  <2>1. job' \in [event : {"none", "score", "collate"}, i : 0 .. MaxRounds, delete : SUBSET Times]
    BY <1>1, SamplesAssumption DEF Idle, Running
  <2> QED
    BY <1>0, <1>1, <2>1 DEF ScoreTypeOK, Times, Days
<1>3. Inserted'
  BY <1>1 DEF Inserted, Runs
<1>4. NewestKept'
  BY <1>0, <1>1 DEF NewestKept, Times, Days, Day
<1>5. TempLeft' = TempLeft /\ RowsLeft' = RowsLeft
  BY <1>1 DEF TempLeft, RowsLeft, Runs, Times
<1>6. CountsRight'
  BY <1>0, <1>1, <1>5, CountsFrame
<1>7. Calm'
  <2> SUFFICES ASSUME crashes = 0 PROVE Calm'
    BY <1>1 DEF Calm
  <2>1. FewLeft /\ OnTime /\ \E old \in 0 .. due - 1 : RowsOld(old) /\ HistoryOld(old)
    BY <1>0, <1>1 DEF Calm, Runs
  <2>2. PICK old \in 0 .. due - 1 : RowsOld(old) /\ HistoryOld(old)
    BY <2>1
  <2>3. Cardinality(cf_temp_score) <= 1
    BY <1>1, <2>1, SamplesAssumption DEF FewLeft, Runs
  <2>4. FewLeft' /\ OnTime'
    BY <1>1, <2>1, <2>3 DEF FewLeft, OnTime, Runs, Today, Day
  <2>5. RowsOld(old)'
    BY <1>1, <1>5, <2>2 DEF RowsOld, Runs, Times, Day
  <2>6. HistoryOld(old)'
    BY <1>1, <2>2 DEF HistoryOld, Day, Days
  <2> QED
    BY <1>1, <2>2, <2>4, <2>5, <2>6 DEF Calm
<1> QED
  BY <1>2, <1>3, <1>4, <1>6, <1>7 DEF ScoreInv

\* The second event starts.
LEMMA MidnightStep ==
  ASSUME ScoreInv, Midnight
  PROVE  ScoreInv'
<1>0. ScoreTypeOK /\ Inserted /\ NewestKept /\ CountsRight /\ Calm
  BY DEF ScoreInv
<1>1. /\ job.event = "none" /\ job.delete = {} /\ due = Today /\ time % PerDay <= 1
      /\ UNCHANGED <<time, due, cf_temp_score, cf_score, cf_score_history, taken, crashes>>
      /\ job' = Running("collate", 0) /\ job'.event = "collate" /\ job'.delete = {} /\ job'.i = 0
  BY DEF Midnight, Runs, Running, Idle
<1>2. ScoreTypeOK'
  <2>1. job' \in [event : {"none", "score", "collate"}, i : 0 .. MaxRounds, delete : SUBSET Times]
    BY <1>1, SamplesAssumption DEF Running
  <2> QED
    BY <1>0, <1>1, <2>1 DEF ScoreTypeOK, Times, Days
<1>3. Inserted'
  BY <1>1, ZenonT(30) DEF Inserted, Runs
<1>4. NewestKept'
  BY <1>0, <1>1, ZenonT(30) DEF NewestKept, Times, Days, Day
<1>5. TempLeft' = TempLeft /\ RowsLeft' = RowsLeft
  BY <1>1 DEF TempLeft, RowsLeft, Runs, Times
<1>6. CountsRight'
  BY <1>0, <1>1, <1>5, CountsFrame
<1>7. Calm'
  <2> SUFFICES ASSUME crashes = 0 PROVE Calm'
    BY <1>1 DEF Calm
  <2>1. FewLeft /\ OnTime /\ \E old \in 0 .. due - 1 : RowsOld(old)
    BY <1>0 DEF Calm
  <2>2. PICK old \in 0 .. due - 1 : RowsOld(old)
    BY <2>1
  <2>4. FewLeft' /\ OnTime'
    BY <1>1, <2>1 DEF FewLeft, OnTime, Runs, Today, Day
  <2>5. RowsOld(old)'
    BY <1>1, <1>5, <2>2 DEF RowsOld, Runs, Times, Day
  <2> QED
    BY <1>1, <2>2, <2>4, <2>5 DEF Calm, Runs
<1> QED
  BY <1>2, <1>3, <1>4, <1>6, <1>7 DEF ScoreInv

\* The oldest day is added to the history; once deleted from cf_score it counts there instead.
LEMMA CollateDayStep ==
  ASSUME ScoreInv, CollateDay
  PROVE  ScoreInv'
<1>0. ScoreTypeOK /\ Inserted /\ NewestKept /\ CountsRight /\ Calm
  BY DEF ScoreInv
<1>a. PICK m : m = Min(Uncollated)
  OBVIOUS
<1>1. /\ job.event = "collate" /\ job.delete = {} /\ job.i < MaxRounds /\ Uncollated # {}
      /\ UNCHANGED <<time, due, cf_temp_score, cf_score, taken, crashes>>
      /\ cf_score_history' = [cf_score_history EXCEPT ![m] = @ + CountOf(m)]
      /\ job' = [job EXCEPT !.delete = RowsOf(m)]
  BY <1>a DEF CollateDay, Runs
<1>2. m \in Uncollated /\ \A d \in Uncollated : m <= d
  <2>1. Uncollated \in SUBSET Nat
    BY DaysAre DEF Uncollated
  <2> QED
    BY <1>a, <1>1, <2>1, MinIs, Zenon
<1>3. PICK t0 \in Times : cf_score[t0] > 0 /\ Day(t0) = m /\ m # Today
  BY <1>2 DEF Uncollated
<1>4. m \in Days /\ m \in Nat
  BY <1>3, DaysAre
<1>5. job'.event = "collate" /\ job'.delete = RowsOf(m) /\ job'.i = job.i /\ RowsOf(m) # {} /\ RowsOf(m) \subseteq Times
  BY <1>0, <1>1, <1>3 DEF ScoreTypeOK, RowsOf
<1>6. CountOf(m) \in Nat /\ CountOf(m) = CountIn(cf_score, m)
  <2>1. cf_score \in [Times -> Nat]
    BY <1>0 DEF ScoreTypeOK
  <2> QED
    BY <2>1, CountOfIs, CountNat, Zenon
<1>7. ScoreTypeOK'
  <2>1. cf_score_history' \in [Days -> Nat]
    BY <1>0, <1>1, <1>4, <1>6 DEF ScoreTypeOK
  <2>2. job' \in [event : {"none", "score", "collate"}, i : 0 .. MaxRounds, delete : SUBSET Times]
    BY <1>0, <1>1, <1>5 DEF ScoreTypeOK
  <2> QED
    BY <1>0, <1>1, <1>5, <2>1, <2>2 DEF ScoreTypeOK, Times, Days
<1>8. /\ cf_score_history'[m] = cf_score_history[m] + CountIn(cf_score, m)
      /\ \A d \in Days : d # m => cf_score_history'[d] = cf_score_history[d]
      /\ cf_score_history[m] \in Nat
  BY <1>0, <1>1, <1>4, <1>6 DEF ScoreTypeOK
<1>9. Inserted'
  <2>1. cf_score_history'[m] >= CountIn(cf_score, m)
    BY <1>6, <1>8
  <2>2. cf_score_history'[m] >= CountIn(cf_score', m)
    BY <1>1, <2>1
  <2> QED
    BY <1>4, <1>5, <2>2 DEF Inserted, Runs, CountIn, On, RowsOf
<1>10. NewestKept'
  <2>1. PICK s \in cf_temp_score : t0 < s
    BY <1>0, <1>3 DEF NewestKept
  <2>2. t0 \in Nat /\ s \in Nat
    BY <1>0, <2>1, TempFacts, TimesAre
  <2>3. m <= Day(s)
    BY <1>3, <2>1, <2>2, DayMonotone
  <2>4. \A d \in Days : cf_score_history'[d] > 0 => \E x \in cf_temp_score : d <= Day(x)
    <3>1. ASSUME NEW d \in Days, d # m, cf_score_history'[d] > 0 PROVE \E x \in cf_temp_score : d <= Day(x)
      BY <1>0, <1>8, <3>1 DEF NewestKept
    <3> QED
      BY <2>1, <2>3, <3>1
  <2>5. \A t \in Times : cf_score'[t] > 0 => \E x \in cf_temp_score : t < x
    BY <1>0, <1>1 DEF NewestKept
  <2> QED
    BY <1>1, <2>4, <2>5 DEF NewestKept, Times, Days, Day
<1>11. /\ TempLeft' = TempLeft
       /\ \A t \in Times : RowsLeft[t] = cf_score[t] /\ RowsLeft'[t] = IF Day(t) = m THEN 0 ELSE cf_score[t]
  BY <1>1, <1>5 DEF TempLeft, RowsLeft, Runs, RowsOf, Times
<1>12. CountsRight'
  <2> SUFFICES ASSUME NEW d \in Days PROVE NetRight(d)'
    BY DEF CountsRight
  <2>1. NetRight(d)
    BY <1>0 DEF CountsRight
  <2>2. SamplesOf(d)' = SamplesOf(d) /\ Today' = Today
    BY <1>1 DEF SamplesOf, Today, Day
  <2>3. /\ d \in Nat /\ Cardinality(SamplesOf(d) \cap TempLeft) \in Nat
        /\ cf_score_history[d] \in Nat /\ CountIn(RowsLeft, d) \in Nat
    BY <1>0, NetNat
  <2> DEFINE C == Cardinality(SamplesOf(d) \cap TempLeft)
  <2>4. Net(d)' = C + cf_score_history'[d] + CountIn(RowsLeft', d)
    BY <1>11, <2>2 DEF Net, CountIn, On
  <2>5. Net(d) = C + cf_score_history[d] + CountIn(RowsLeft, d)
    BY DEF Net
  <2> HIDE DEF C
  <2>6. CASE d = m
    <3>1. CountIn(RowsLeft', d) = 0
      BY <1>11, <2>6, CountZero
    <3>2. CountIn(RowsLeft, d) = CountIn(cf_score, m)
      BY <1>11, <2>6, CountSame
    <3> QED
      BY <1>8, <2>3, <2>4, <2>5, <2>6, <3>1, <3>2, <2>1, <2>2, <1>1 DEF NetRight, C
  <2>7. CASE d # m
    <3>1. CountIn(RowsLeft', d) = CountIn(RowsLeft, d)
      BY <1>11, <2>7, CountSame
    <3>2. Net(d)' = Net(d)
      BY <1>8, <2>4, <2>5, <2>7, <3>1
    <3> QED
      BY <1>1, <2>1, <2>2, <3>2 DEF NetRight
  <2> QED
    BY <2>6, <2>7
<1>13. Calm'
  <2> SUFFICES ASSUME crashes = 0 PROVE Calm'
    BY <1>1 DEF Calm
  <2>1. FewLeft /\ OnTime /\ \E old \in 0 .. due - 1 : RowsOld(old)
    BY <1>0 DEF Calm
  <2>2. PICK old \in 0 .. due - 1 : RowsOld(old)
    BY <2>1
  <2>3. FewLeft' /\ OnTime'
    BY <1>1, <1>5, <2>1 DEF FewLeft, OnTime, Runs, Today, Day
  <2>4. due = Today /\ due \in Nat /\ job.i \in Nat /\ old \in Nat /\ old <= due - 1
    BY <1>0, <1>1, <2>1, <2>2 DEF OnTime, Runs, ScoreTypeOK
  <2>5. RowsLeft[t0] > 0
    BY <1>3, <1>11
  <2>6. \A t \in Times : RowsLeft'[t] > 0 => RowsLeft[t] > 0 /\ Day(t) # m /\ Day(t) \in {old, due - 1}
    BY <1>11, <2>2 DEF RowsOld
  <2>7. \A t \in Times : RowsLeft'[t] > 0 => Day(t) = due - 1
    <3>1. SUFFICES ASSUME NEW t \in Times, RowsLeft'[t] > 0, Day(t) # due - 1 PROVE FALSE
      OBVIOUS
    <3>2. Day(t) = old /\ old < due - 1 /\ old # Today /\ cf_score[t] > 0 /\ old # m
      BY <1>11, <2>4, <2>6, <3>1
    <3>3. m <= old
      BY <1>2, <3>2 DEF Uncollated
    <3>4. m \in {old, due - 1}
      BY <1>3, <2>2, <2>5 DEF RowsOld
    <3> QED
      BY <2>4, <3>2, <3>3, <3>4
  <2>8. job.i > 0 => m = due - 1
    BY <1>1, <1>3, <2>2, <2>5 DEF RowsOld, Runs
  <2>9. ~ (job.i > 1)
    BY <1>1, <2>2, <2>5 DEF RowsOld, Runs
  <2>10. RowsLeft' \in [Times -> Nat]
    BY <1>7, RowsLeftType DEF ScoreTypeOK, RowsLeft, Times, Days, Runs
  <2>11. job.i > 0 => \A t \in Times : RowsLeft'[t] = 0
    BY <2>6, <2>7, <2>8, <2>10
  <2>12. RowsOld(old)'
    BY <1>1, <1>5, <2>4, <2>6, <2>7, <2>9, <2>11 DEF RowsOld, Runs, Times, Day
  <2> QED
    BY <1>1, <1>5, <2>2, <2>3, <2>12 DEF Calm, Runs
<1> QED
  BY <1>7, <1>9, <1>10, <1>12, <1>13 DEF ScoreInv

\* A day that is in the history leaves cf_score.
LEMMA DeleteDayStep ==
  ASSUME ScoreInv, DeleteDay
  PROVE  ScoreInv'
<1>0. ScoreTypeOK /\ Inserted /\ NewestKept /\ CountsRight /\ Calm
  BY DEF ScoreInv
<1>1. /\ job.event = "collate" /\ job.delete # {} /\ job.i < MaxRounds /\ job.i \in Nat
      /\ UNCHANGED <<time, due, cf_temp_score, cf_score_history, taken, crashes>>
      /\ cf_score' = [t \in Times |-> IF t \in job.delete THEN 0 ELSE cf_score[t]]
      /\ job' = [event |-> "collate", i |-> job.i + 1, delete |-> {}]
  BY <1>0 DEF DeleteDay, Runs, Running, ScoreTypeOK
<1>2. job'.event = "collate" /\ job'.delete = {} /\ job'.i = job.i + 1
  BY <1>1, ZenonT(30)
<1>3. ScoreTypeOK'
  <2>0. job.i + 1 \in 0 .. MaxRounds
    <3>1. job.i \in Nat /\ job.i < MaxRounds
      BY <1>1, Zenon
    <3> QED
      BY <3>1, SamplesAssumption
  <2>1. job' \in [event : {"none", "score", "collate"}, i : 0 .. MaxRounds, delete : SUBSET Times]
    BY <1>1, <2>0, ZenonT(30)
  <2>2. cf_score' \in [Times -> Nat]
    BY <1>0, <1>1 DEF ScoreTypeOK
  <2> QED
    BY <1>0, <1>1, <1>2, <2>1, <2>2, Zenon DEF ScoreTypeOK, Times, Days
<1>4. Inserted'
  BY <1>2 DEF Inserted, Runs
<1>5. NewestKept'
  <2>1. \A t \in Times : cf_score'[t] > 0 => cf_score[t] > 0
    BY <1>1
  <2> QED
    BY <1>0, <1>1, <2>1 DEF NewestKept, Times, Days, Day
<1>6. TempLeft' = TempLeft /\ RowsLeft' = RowsLeft
  BY <1>1, <1>2 DEF TempLeft, RowsLeft, Runs, Times
<1>7. CountsRight'
  BY <1>0, <1>1, <1>6, CountsFrame
<1>8. Calm'
  <2> SUFFICES ASSUME crashes = 0 PROVE Calm'
    BY <1>1 DEF Calm
  <2>1. FewLeft /\ OnTime /\ \E old \in 0 .. due - 1 : RowsOld(old)
    BY <1>0 DEF Calm
  <2>2. PICK old \in 0 .. due - 1 : RowsOld(old)
    BY <2>1
  <2>3. FewLeft' /\ OnTime'
    BY <1>1, <1>2, <2>1 DEF FewLeft, OnTime, Runs, Today, Day
  <2>4. RowsOld(old)'
    <3>1. job.i >= 0 /\ (job'.i > 1 => job.i > 0)
      <4>1. job.i \in Nat /\ job'.i = job.i + 1
        BY <1>1, <1>2, Zenon
      <4> QED
        BY <4>1
    <3>2. (\A t \in Times : RowsLeft[t] > 0 => Day(t) \in {old, due - 1})'
      BY <1>1, <1>6, <2>2, ZenonT(30) DEF RowsOld, Times, Day
    <3>3. (\A t \in Times : RowsLeft[t] > 0 => Day(t) = due - 1)'
      BY <1>1, <1>6, <2>2 DEF RowsOld, Runs, Times, Day
    <3>4. job'.i > 1 => (\A t \in Times : RowsLeft[t] = 0)'
      BY <1>1, <1>2, <1>6, <2>2, <3>1 DEF RowsOld, Runs, Times
    <3> QED
      BY <1>2, <3>2, <3>3, <3>4, Zenon DEF RowsOld
  <2> QED
    BY <1>1, <1>2, <2>2, <2>3, <2>4 DEF Calm, Runs
<1> QED
  BY <1>3, <1>4, <1>5, <1>7, <1>8 DEF ScoreInv

\* The second event ends: what it drops is older than the days that are kept.
LEMMA DropDaysStep ==
  ASSUME ScoreInv, DropDays
  PROVE  ScoreInv'
<1>0. ScoreTypeOK /\ Inserted /\ NewestKept /\ CountsRight /\ Calm
  BY DEF ScoreInv
<1>1. /\ job.event = "collate" /\ job.delete = {}
      /\ job.i = MaxRounds \/ Uncollated = {}
      /\ UNCHANGED <<time, cf_temp_score, cf_score, taken, crashes>>
      /\ due' = Today + 1
      /\ job' = Idle /\ Idle' = Idle /\ job'.event = "none" /\ job'.delete = {}
  BY DEF DropDays, Runs, Running, Idle
<1>2. Today \in Nat /\ CF_DAYSAMPLES \in Nat /\ Days \subseteq Nat
  BY <1>0, DaysAre, SamplesAssumption
<1>3. /\ \A d \in Days : d < Today - CF_DAYSAMPLES + 1 => cf_score_history'[d] = 0
      /\ \A d \in Days : ~ (d < Today - CF_DAYSAMPLES + 1) => cf_score_history'[d] = cf_score_history[d]
  BY DEF DropDays
<1>4. ScoreTypeOK'
  <2>1. job' \in [event : {"none", "score", "collate"}, i : 0 .. MaxRounds, delete : SUBSET Times]
    BY <1>1, SamplesAssumption DEF Idle, Running
  <2>2. cf_score_history' \in [Days -> Nat]
    BY <1>0 DEF DropDays, ScoreTypeOK
  <2> QED
    BY <1>0, <1>1, <1>2, <2>1, <2>2 DEF ScoreTypeOK, Times, Days
<1>5. Inserted'
  BY <1>1 DEF Inserted, Runs
<1>6. NewestKept'
  <2>1. \A d \in Days : cf_score_history'[d] > 0 => cf_score_history[d] > 0
    BY <1>3
  <2> QED
    BY <1>0, <1>1, <2>1 DEF NewestKept, Times, Days, Day
<1>7. TempLeft' = TempLeft /\ RowsLeft' = RowsLeft
  BY <1>1 DEF TempLeft, RowsLeft, Runs, Times
<1>8. CountsRight'
  <2> SUFFICES ASSUME NEW d \in Days PROVE NetRight(d)'
    BY DEF CountsRight
  <2>1. NetRight(d)
    BY <1>0 DEF CountsRight
  <2>2. SamplesOf(d)' = SamplesOf(d) /\ Today' = Today
    BY <1>1 DEF SamplesOf, Today, Day
  <2>3. /\ d \in Nat /\ Cardinality(SamplesOf(d) \cap TempLeft) \in Nat
        /\ cf_score_history[d] \in Nat /\ CountIn(RowsLeft, d) \in Nat
        /\ Cardinality(SamplesOf(d)) \in Nat
    BY <1>0, NetNat
  <2> DEFINE C == Cardinality(SamplesOf(d) \cap TempLeft) + CountIn(RowsLeft, d)
             N == Cardinality(SamplesOf(d))
             D == Doubled(crashes)
  <2>4. C \in Nat /\ Net(d) = C + cf_score_history[d]
    BY <2>3 DEF Net
  <2>5. Net(d)' = Cardinality(SamplesOf(d) \cap TempLeft) + cf_score_history'[d] + CountIn(RowsLeft, d)
    BY <1>7, <2>2 DEF Net, CountIn, On
  <2>6. PICK h \in Nat : h = cf_score_history'[d]
    BY <1>4 DEF ScoreTypeOK, Days
  <2>7. Net(d)' = C + h
    BY <2>3, <2>5, <2>6
  <2>8. N * D \in Nat
    BY <1>0, <2>3, DoubledPositive DEF ScoreTypeOK
  <2>9. Net(d) <= N * D /\ (d > Today - CF_DAYSAMPLES => Net(d) >= N)
    BY <2>1 DEF NetRight
  <2>10. h <= cf_score_history[d] /\ (d > Today - CF_DAYSAMPLES => h = cf_score_history[d])
    BY <1>2, <1>3, <2>3, <2>6
  <2> HIDE DEF C, N, D
  <2>11. C + h <= N * D /\ (d > Today - CF_DAYSAMPLES => C + h >= N)
    BY <2>3, <2>4, <2>6, <2>8, <2>9, <2>10
  <2> QED
    BY <1>1, <2>2, <2>7, <2>11 DEF NetRight, N, D
<1>9. Calm'
  <2> SUFFICES ASSUME crashes = 0 PROVE Calm'
    BY <1>1 DEF Calm
  <2>1. FewLeft /\ OnTime /\ \E old \in 0 .. due - 1 : RowsOld(old)
    BY <1>0 DEF Calm
  <2>2. PICK old \in 0 .. due - 1 : RowsOld(old)
    BY <2>1
  <2>3. Cardinality(cf_temp_score) <= 1 /\ due = Today
    BY <1>1, <2>1 DEF FewLeft, OnTime, Runs
  <2>4. PICK n : cf_temp_score = {n}
    <3>1. IsFiniteSet(cf_temp_score) /\ Cardinality(cf_temp_score) \in Nat /\ cf_temp_score # {}
      BY <1>0, TempFacts DEF ScoreTypeOK
    <3>2. Cardinality(cf_temp_score) = 1
      BY <2>3, <3>1, FS_EmptySet
    <3> QED
      BY <3>1, <3>2, FS_Singleton
  <2>5. Day(n) \in 0 .. Today
    <3>1. n \in Nat /\ n <= time /\ time \in Nat
      BY <1>0, <2>4 DEF ScoreTypeOK
    <3> QED
      BY <1>2, <3>1, DayOf, DayMonotone DEF Today
  <2>6. \A t \in Times : RowsLeft[t] = 0
    <3>1. RowsLeft \in [Times -> Nat] /\ \A t \in Times : RowsLeft[t] = cf_score[t]
      BY <1>0, <1>1, RowsLeftType DEF RowsLeft
    <3>2. CASE job.i = MaxRounds
      BY <1>1, <2>2, <3>2, SamplesAssumption DEF RowsOld, Runs
    <3>3. CASE Uncollated = {}
      <4> SUFFICES ASSUME NEW t \in Times, RowsLeft[t] > 0 PROVE FALSE
        BY <3>1
      <4>1. Day(t) = Today
        BY <3>1, <3>3 DEF Uncollated
      <4>2. Day(t) \in {old, due - 1}
        BY <2>2 DEF RowsOld
      <4> QED
        BY <1>2, <2>2, <2>3, <4>1, <4>2
    <3> QED
      BY <1>1, <3>2, <3>3
  <2>7. FewLeft'
    BY <1>1, <2>3 DEF FewLeft, Runs
  <2>8. OnTime'
    <3>1. Today' = Today
      BY <1>1 DEF Today, Day
    <3> QED
      BY <1>1, <1>2, <3>1 DEF OnTime, Runs
  <2>9. RowsOld(Day(n))'
    <3>1. \A t \in Times : RowsLeft'[t] = 0
      BY <1>7, <2>6
    <3> QED
      BY <1>1, <3>1 DEF RowsOld, Runs, Times
  <2>10. HistoryOld(Day(n))'
    <3>1. \A s \in cf_temp_score' : Day(s) = Day(n)
      BY <1>1, <2>4
    <3>2. ASSUME NEW d \in Days, cf_score_history'[d] > 0
          PROVE  due' - CF_DAYSAMPLES <= d /\ d <= Day(n)
      <4>1. ~ (d < Today - CF_DAYSAMPLES + 1) /\ cf_score_history[d] > 0
        BY <1>3, <3>2
      <4>2. d <= Day(n)
        BY <1>0, <2>4, <4>1 DEF NewestKept
      <4> QED
        BY <1>1, <1>2, <4>1, <4>2
    <3> QED
      BY <3>1, <3>2 DEF HistoryOld, Day, Days
  <2>11. Day(n) \in 0 .. due' - 1 /\ Day(n)' = Day(n)
    BY <1>1, <1>2, <2>5 DEF Day
  <2> QED
    BY <2>7, <2>8, <2>9, <2>10, <2>11 DEF Calm
<1> QED
  BY <1>4, <1>5, <1>6, <1>8, <1>9 DEF ScoreInv

\* A crash between the two statements of a round leaves counted twice what was to be deleted.
LEMMA NetAtCrash ==
  ASSUME ScoreTypeOK, Inserted, NEW d \in Days,
         NEW gross, gross = Cardinality(SamplesOf(d) \cap cf_temp_score) + cf_score_history[d] + CountIn(cf_score, d)
  PROVE  gross \in Nat /\ Net(d) <= gross /\ gross <= 2 * Net(d)
<1> DEFINE S == SamplesOf(d) \cap cf_temp_score
           C == Cardinality(S)
           L == Cardinality(SamplesOf(d) \cap TempLeft)
           h == cf_score_history[d]
           c == CountIn(cf_score, d)
           l == CountIn(RowsLeft, d)
<1>1. h \in Nat /\ L \in Nat /\ l \in Nat /\ d \in Nat /\ Net(d) = L + h + l
  BY NetNat DEF Net
<1>2. C \in Nat /\ IsFiniteSet(S)
  BY <1>1, SamplesFinite, ZenonT(30)
<1>3. cf_score \in [Times -> Nat]
  BY DEF ScoreTypeOK
<1>4. c \in Nat /\ \A t \in Times : Day(t) = d => cf_score[t] <= c
  BY <1>3, CountNat, Zenon
<1>5. job.event \in {"none", "score", "collate"} /\ (job.event = "none" => job.delete = {})
  BY DEF ScoreTypeOK, Inserted, Runs, Idle, Running
<1>6. CASE job.delete = {}
  <2>1. TempLeft = cf_temp_score /\ \A t \in Times : RowsLeft[t] = cf_score[t]
    BY <1>6 DEF TempLeft, RowsLeft
  <2>2. l = c
    BY <2>1, CountSame
  <2> HIDE DEF h, c, l
  <2> QED
    BY <1>1, <1>2, <1>4, <2>1, <2>2 DEF h, c
<1>7. CASE job.event = "score" /\ job.delete # {}
  <2>1. PICK t \in cf_temp_score : job.delete = {t} /\ (t \in taken => cf_score[t] > 0)
    BY <1>7 DEF Inserted, Runs
  <2>2. TempLeft = cf_temp_score \ {t} /\ \A x \in Times : RowsLeft[x] = cf_score[x]
    BY <1>7, <2>1 DEF TempLeft, RowsLeft, Runs
  <2>3. l = c
    BY <2>2, CountSame
  <2>4. SamplesOf(d) \cap TempLeft = S \ {t}
    BY <2>2
  <2> HIDE DEF S
  <2>5. L = IF t \in S THEN C - 1 ELSE C
    BY <1>2, <2>4, FS_RemoveElement, Zenon
  <2>6. t \in S => c >= 1
    <3> SUFFICES ASSUME t \in S PROVE c >= 1
      OBVIOUS
    <3>1. t \in taken /\ Day(t) = d /\ t \in Times
      BY TempFacts DEF S, SamplesOf
    <3>2. cf_score[t] > 0 /\ cf_score[t] \in Nat /\ cf_score[t] <= c
      BY <1>3, <1>4, <2>1, <3>1
    <3> QED
      BY <1>4, <3>2
  <2>7. gross = C + h + c
    BY DEF S
  <2> HIDE DEF C, L, h, c, l
  <2> QED
    BY <1>1, <1>2, <1>4, <2>3, <2>5, <2>6, <2>7
<1>8. CASE job.event = "collate" /\ job.delete # {}
  <2>1. PICK e \in Days : job.delete = RowsOf(e) /\ cf_score_history[e] >= CountIn(cf_score, e)
    BY <1>8, ZenonT(30) DEF Inserted, Runs
  <2>2. TempLeft = cf_temp_score /\ \A t \in Times : RowsLeft[t] = IF Day(t) = e THEN 0 ELSE cf_score[t]
    BY <1>8, <2>1 DEF TempLeft, RowsLeft, Runs, RowsOf
  <2>3. d = e => l = 0 /\ h >= c
    BY <2>1, <2>2, CountZero
  <2>4. d # e => l = c
    BY <2>2, CountSame
  <2>5. L = C /\ gross = C + h + c
    BY <2>2
  <2> HIDE DEF C, L, h, c, l
  <2> QED
    BY <1>1, <1>2, <1>4, <2>3, <2>4, <2>5
<1> QED
  BY <1>5, <1>6, <1>7, <1>8

\* The services end.
LEMMA ScoreCrashStep ==
  ASSUME ScoreInv, ScoreCrash
  PROVE  ScoreInv'
<1>0. ScoreTypeOK /\ Inserted /\ NewestKept /\ CountsRight
  BY DEF ScoreInv
<1>1. /\ UNCHANGED <<time, cf_temp_score, cf_score, cf_score_history, taken>>
      /\ crashes' = crashes + 1 /\ crashes \in Nat
      /\ due' = Today + 1 \/ (due' = Today /\ due = Today)
      /\ job' = Idle /\ Idle' = Idle /\ job'.event = "none" /\ job'.delete = {}
  BY <1>0 DEF ScoreCrash, Running, Idle, ScoreTypeOK
<1>2. ScoreTypeOK'
  <2>1. job' \in [event : {"none", "score", "collate"}, i : 0 .. MaxRounds, delete : SUBSET Times]
    BY <1>1, SamplesAssumption DEF Idle, Running
  <2>2. Today \in Nat
    BY <1>0, DaysAre
  <2> QED
    BY <1>0, <1>1, <2>1, <2>2 DEF ScoreTypeOK, Times, Days
<1>3. Inserted'
  BY <1>1 DEF Inserted, Runs
<1>4. NewestKept'
  BY <1>0, <1>1 DEF NewestKept, Times, Days, Day
<1>5. CountsRight'
  <2> SUFFICES ASSUME NEW d \in Days PROVE NetRight(d)'
    BY DEF CountsRight
  <2>1. NetRight(d)
    BY <1>0 DEF CountsRight
  <2>2. SamplesOf(d)' = SamplesOf(d) /\ Today' = Today
    BY <1>1 DEF SamplesOf, Today, Day
  <2>3. PICK gross : gross = Cardinality(SamplesOf(d) \cap cf_temp_score) + cf_score_history[d] + CountIn(cf_score, d)
    OBVIOUS
  <2>4. gross \in Nat /\ Net(d) <= gross /\ gross <= 2 * Net(d) /\ Net(d) \in Nat
    BY <1>0, <2>3, NetAtCrash, NetNat, ZenonT(30)
  <2>5. Net(d)' = gross
    <3>1. TempLeft' = cf_temp_score /\ \A t \in Times : RowsLeft'[t] = cf_score[t]
      BY <1>1 DEF TempLeft, RowsLeft, Runs, Times
    <3>2. CountIn(RowsLeft', d) = CountIn(cf_score, d)
      BY <3>1, CountSame
    <3> QED
      BY <1>1, <2>2, <2>3, <3>1, <3>2, Zenon DEF Net, CountIn, On
  <2> DEFINE N == Cardinality(SamplesOf(d))
             D == Doubled(crashes)
  <2>6. N \in Nat /\ D \in Nat /\ Doubled(crashes + 1) = 2 * D
    BY <1>0, <1>1, NetNat, DoubledStep, ZenonT(30)
  <2>7. Net(d) <= N * D /\ (d > Today - CF_DAYSAMPLES => Net(d) >= N)
    BY <2>1 DEF NetRight
  <2> HIDE DEF N, D
  <2>8. N * (2 * D) = 2 * (N * D) /\ N * D \in Nat
    BY <2>6
  <2>9. gross <= N * Doubled(crashes + 1) /\ (d > Today - CF_DAYSAMPLES => gross >= N)
    BY <2>4, <2>6, <2>7, <2>8
  <2> QED
    BY <1>1, <2>2, <2>5, <2>9 DEF NetRight, N, Doubled
<1>6. Calm'
  BY <1>1 DEF Calm
<1> QED
  BY <1>2, <1>3, <1>4, <1>5, <1>6 DEF ScoreInv

\* No step, and no stuttering, leaves the invariant.
LEMMA ScoreStep == ScoreInv /\ [ScoreNext]_scoreVars => ScoreInv'
<1> SUFFICES ASSUME ScoreInv, [ScoreNext]_scoreVars PROVE ScoreInv'
  OBVIOUS
<1>1. CASE UNCHANGED scoreVars
  <2>1. UNCHANGED <<time, due, cf_temp_score, cf_score, cf_score_history, job, taken, crashes>>
    BY <1>1 DEF scoreVars
  <2>2. ScoreTypeOK' /\ Inserted' /\ NewestKept'
    BY <2>1, ZenonT(30) DEF ScoreInv, ScoreTypeOK, Inserted, NewestKept, Runs, Idle, Running, Times, Days, Day,
                CountIn, On, RowsOf
  <2>3. TempLeft' = TempLeft /\ RowsLeft' = RowsLeft
    BY <2>1 DEF TempLeft, RowsLeft, Runs, Times
  <2>4. CountsRight'
    BY <2>1, <2>3, CountsFrame DEF ScoreInv
  <2>5. Calm'
    BY <2>1, <2>3, Zenon DEF ScoreInv, Calm, FewLeft, OnTime, RowsOld, HistoryOld, Runs, Today, Day, Times, Days
  <2> QED
    BY <2>2, <2>4, <2>5 DEF ScoreInv
<1>2. CASE Sample
  BY <1>2, SampleStep
<1>3. CASE MoveScore
  BY <1>3, MoveScoreStep
<1>4. CASE DeleteTemp
  BY <1>4, DeleteTempStep
<1>5. CASE ScoreDone
  BY <1>5, ScoreDoneStep
<1>6. CASE Midnight
  BY <1>6, MidnightStep
<1>7. CASE CollateDay
  BY <1>7, CollateDayStep
<1>8. CASE DeleteDay
  BY <1>8, DeleteDayStep
<1>9. CASE DropDays
  BY <1>9, DropDaysStep
<1>10. CASE ScoreCrash
  BY <1>10, ScoreCrashStep
<1> QED
  BY <1>1, <1>2, <1>3, <1>4, <1>5, <1>6, <1>7, <1>8, <1>9, <1>10 DEF ScoreNext

\* Rows of two days, added to the history of those days, give the score.
LEMMA ScoreBound ==
  ASSUME NEW rows \in [Times -> Nat], NEW hist \in [Days -> Nat], NEW old \in Days, NEW last \in Days,
         \A t \in Times : rows[t] > 0 => Day(t) \in {old, last},
         \A d \in Days : hist[d] + CountIn(rows, d) <= PerDay,
         NEW lo \in Int, lo <= old, lo <= last, old <= last,
         \A d \in Days : hist[d] > 0 => lo <= d /\ d <= old
  PROVE  SumTo(rows, MaxSamples) + SumTo(hist, Day(MaxSamples) + 1) <= PerDay * (last - lo + 1)
<1> DEFINE n == Day(MaxSamples) + 1
           e1 == [d \in Days |-> IF d = old THEN CountIn(rows, d) ELSE 0]
           e2 == [d \in Days |-> IF d = last /\ last # old THEN CountIn(rows, d) ELSE 0]
           f1 == [d \in Days |-> hist[d] + e1[d]]
           f2 == [d \in Days |-> f1[d] + e2[d]]
<1>1. n \in Nat /\ Days = 0 .. n - 1 /\ Days \subseteq Nat /\ PerDay \in Nat
  BY DaysAre, SamplesAssumption
<1>2. \A d \in Days : CountIn(rows, d) \in Nat
  BY CountNat, Zenon
<1>3. /\ \A d \in Days : hist[d] \in Nat /\ e1[d] \in Nat /\ e2[d] \in Nat /\ f1[d] \in Nat /\ f2[d] \in Nat
      /\ \A d \in Days : f1[d] = hist[d] + e1[d] /\ f2[d] = f1[d] + e2[d]
  BY <1>2
<1>4. /\ e1[old] = CountIn(rows, old) /\ \A d \in Days : d # old => e1[d] = 0
      /\ e2[last] = (IF last # old THEN CountIn(rows, last) ELSE 0) /\ \A d \in Days : d # last => e2[d] = 0
  OBVIOUS
<1>5. \A d \in Days : f2[d] <= PerDay
  <2> TAKE d \in Days
  <2>1. hist[d] + CountIn(rows, d) <= PerDay /\ CountIn(rows, d) \in Nat /\ hist[d] \in Nat
    BY <1>2
  <2>2. f2[d] = (hist[d] + e1[d]) + e2[d]
    BY <1>3, ZenonT(30)
  <2>3. (e1[d] = 0 \/ e1[d] = CountIn(rows, d)) /\ (e2[d] = 0 \/ (e2[d] = CountIn(rows, d) /\ e1[d] = 0))
    OBVIOUS
  <2> HIDE DEF e1, e2, f1, f2
  <2> QED
    BY <1>1, <2>1, <2>2, <2>3
<1> HIDE DEF e1, e2, f1, f2, n
<1>6. \A d \in Days : f2[d] > 0 => lo <= d /\ d <= last
  <2> SUFFICES ASSUME NEW d \in Days, f2[d] > 0 PROVE lo <= d /\ d <= last
    OBVIOUS
  <2>1. hist[d] > 0 \/ d = old \/ d = last
    BY <1>3, <1>4
  <2> QED
    BY <1>1, <2>1
<1>7. Numbers(hist, n) /\ Numbers(e1, n) /\ Numbers(e2, n) /\ Numbers(f1, n) /\ Numbers(f2, n)
  BY <1>1, <1>3 DEF Numbers
<1>8. Adds(f1, hist, e1, n) /\ Adds(f2, f1, e2, n)
  BY <1>1, <1>3 DEF Adds
<1>9. SumTo(f1, n) = SumTo(hist, n) + SumTo(e1, n)
  BY <1>1, <1>7, <1>8, SumOfTwo
<1>10. SumTo(f2, n) = SumTo(f1, n) + SumTo(e2, n)
  BY <1>1, <1>7, <1>8, SumOfTwo
<1>11. SumTo(e1, n) = e1[old]
  <2>1. old \in 0 .. n - 1 /\ e1[old] \in Nat /\ \A d \in 0 .. n - 1 : d # old => e1[d] = 0
    BY <1>1, <1>3, <1>4, Zenon
  <2> QED
    BY <1>1, <2>1, SumOfOne, Zenon
<1>12. SumTo(e2, n) = e2[last]
  <2>1. last \in 0 .. n - 1 /\ e2[last] \in Nat /\ \A d \in 0 .. n - 1 : d # last => e2[d] = 0
    BY <1>1, <1>3, <1>4, Zenon
  <2> QED
    BY <1>1, <2>1, SumOfOne, Zenon
<1>13. SumTo(f2, n) <= PerDay * (last - lo + 1)
  <2>1. Within(f2, n, PerDay, lo, last)
    BY <1>1, <1>5, <1>6 DEF Within
  <2>2. lo \in Int /\ last \in Int /\ lo <= last
    BY <1>1
  <2> QED
    BY <1>1, <1>7, <2>1, <2>2, SumBound
<1>14. SumTo(rows, MaxSamples) = IF old = last THEN CountIn(rows, old) ELSE CountIn(rows, old) + CountIn(rows, last)
  BY CountTwoDays, Zenon
<1>15. SumTo(hist, n) \in Nat /\ CountIn(rows, old) \in Nat /\ CountIn(rows, last) \in Nat
  BY <1>1, <1>2, <1>7, SumNat
<1>16. SumTo(rows, MaxSamples) + SumTo(hist, n) = SumTo(f2, n)
  BY <1>4, <1>9, <1>10, <1>11, <1>12, <1>14, <1>15
<1> QED
  BY <1>13, <1>16 DEF n

\* The invariant has every sample counted between two runs.
LEMMA InvCounts == ScoreInv => SamplesCounted
<1> SUFFICES ASSUME ScoreInv, job = Idle PROVE SamplesCounted
  BY DEF SamplesCounted
<1>0. ScoreTypeOK /\ NewestKept /\ CountsRight /\ Calm /\ job.event = "none" /\ job.delete = {}
  BY DEF ScoreInv, Idle, Running
<1>1. TempLeft = cf_temp_score /\ RowsLeft = cf_score
  <2>1. cf_score = [t \in Times |-> cf_score[t]]
    BY <1>0 DEF ScoreTypeOK
  <2> QED
    BY <1>0, <2>1 DEF TempLeft, RowsLeft, Runs
<1>2. ASSUME NEW d \in Days
      PROVE  /\ Net(d) = Cardinality(SamplesOf(d) \cap cf_temp_score) + cf_score_history[d] + CountOf(d)
             /\ d > Today - CF_DAYSAMPLES => Net(d) >= Cardinality(SamplesOf(d))
             /\ Net(d) <= Cardinality(SamplesOf(d)) * Doubled(crashes)
  BY <1>0, <1>1, CountOfIs, Zenon DEF Net, CountsRight, NetRight
<1>3. ASSUME crashes = 0 PROVE Score <= PerDay * CF_DAYSAMPLES
  <2>1. PICK old \in 0 .. due - 1 : RowsOld(old) /\ HistoryOld(old) /\ OnTime
    BY <1>0, <1>3, ZenonT(30) DEF Calm, Runs
  <2> DEFINE last == due - 1
  <2>2. Today \in Nat /\ Today \in Days /\ due \in Nat /\ due # 0 /\ CF_DAYSAMPLES \in Nat /\ CF_DAYSAMPLES >= 2 /\ PerDay \in Nat
    BY <1>0, DaysAre, SamplesAssumption DEF ScoreTypeOK
  <2>3. due = Today \/ due = Today + 1
    BY <2>1 DEF OnTime
  <2>4. last \in Days /\ old \in Days /\ old \in Nat /\ last \in Nat /\ old <= last
    BY <2>1, <2>2, <2>3, DaysAre
  <2>5. cf_score \in [Times -> Nat] /\ cf_score_history \in [Days -> Nat]
    BY <1>0 DEF ScoreTypeOK
  <2>6. \A t \in Times : cf_score[t] > 0 => Day(t) \in {old, last}
    BY <1>1, <2>1, ZenonT(30) DEF RowsOld
  <2>7. \A d \in Days : cf_score_history[d] > 0 => due - CF_DAYSAMPLES <= d /\ d <= old
    BY <2>1 DEF HistoryOld
  <2>8. ASSUME NEW d \in Days PROVE cf_score_history[d] + CountIn(cf_score, d) <= PerDay
    <3> DEFINE N == Cardinality(SamplesOf(d))
               C == Cardinality(SamplesOf(d) \cap cf_temp_score)
    <3>1. /\ N \in Nat /\ N <= PerDay /\ C \in Nat /\ cf_score_history[d] \in Nat /\ CountIn(cf_score, d) \in Nat
          /\ Net(d) = C + cf_score_history[d] + CountIn(cf_score, d)
      BY <1>0, <1>1, NetNat, ZenonT(30) DEF Net
    <3>2. Net(d) <= N * 1
      BY <1>2, <1>3, DoubledStep, Zenon
    <3> HIDE DEF N, C
    <3> QED
      BY <2>2, <3>1, <3>2
  <2> DEFINE n == Day(MaxSamples) + 1
  <2>9. Score = SumTo(cf_score, MaxSamples) + SumTo(cf_score_history, n)
    BY DEF Score
  <2> HIDE DEF last
  <2>10. CASE due - CF_DAYSAMPLES <= old
    <3> DEFINE lo == due - CF_DAYSAMPLES
    <3>1. lo \in Int /\ lo <= old /\ lo <= last /\ last - lo + 1 = CF_DAYSAMPLES
      BY <2>2, <2>4, <2>10 DEF last
    <3>2. \A d \in Days : cf_score_history[d] > 0 => lo <= d /\ d <= old
      BY <2>7
    <3> HIDE DEF lo, n
    <3>3. SumTo(cf_score, MaxSamples) + SumTo(cf_score_history, Day(MaxSamples) + 1) <= PerDay * (last - lo + 1)
      BY <2>4, <2>5, <2>6, <2>8, <3>1, <3>2, ScoreBound, ZenonT(30)
    <3> QED
      BY <2>9, <3>1, <3>3 DEF n
  <2>11. CASE ~ (due - CF_DAYSAMPLES <= old)
    <3>1. old < last
      BY <2>2, <2>4, <2>11 DEF last
    <3>2. n \in Nat /\ 0 \in 0 .. n - 1 /\ Days = 0 .. n - 1
      BY DaysAre
    <3>3. \A d \in Days : cf_score_history[d] = 0
      BY <2>2, <2>4, <2>5, <2>7, <2>11, DaysAre
    <3> HIDE DEF n
    <3>4. SumTo(cf_score_history, n) = cf_score_history[0] /\ cf_score_history[0] = 0
      BY <3>2, <3>3, SumOfOne
    <3>5. SumTo(cf_score, MaxSamples) = CountIn(cf_score, old) + CountIn(cf_score, last)
      BY <2>4, <2>5, <2>6, <3>1, CountTwoDays
    <3>6. CountIn(cf_score, old) \in Nat /\ CountIn(cf_score, last) \in Nat
      BY <2>5, CountNat, Zenon
    <3>7. CountIn(cf_score, old) <= PerDay /\ CountIn(cf_score, last) <= PerDay
      BY <2>2, <2>4, <2>8, <3>3, <3>6
    <3>8. PerDay * 2 <= PerDay * CF_DAYSAMPLES
      BY <2>2
    <3> QED
      BY <2>2, <2>9, <3>4, <3>5, <3>6, <3>7, <3>8
  <2> QED
    BY <2>10, <2>11
<1> QED
  BY <1>2, <1>3 DEF SamplesCounted

\* The events of ChanFix, for any number of samples to a day, of days kept and of crashes: between
\* two runs every sample of the days kept is counted, no more than twice as often with every crash;
\* and without one the score is at most a point for every sample of those days.
THEOREM Counting == ScoreSpec => []SamplesCounted
<1>1. ScoreSpec => []ScoreInv
  BY ScoreStart, ScoreStep, PTL DEF ScoreSpec
<1> QED
  BY <1>1, InvCounts, PTL
==============================================================================
