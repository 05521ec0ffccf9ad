------------------------------- MODULE ChanFix -------------------------------
(***************************************************************************)
(* ChanFix on one channel (src/s_chanfix.c): the fix that begins when the  *)
(* channel is found without operators, or with CHANFIX or REVERT; the      *)
(* scores it goes by; and who gets operator status from it.                *)
(*                                                                         *)
(* The database knows a user@host by an id, and a fix works with the ids   *)
(* and scores it fetched when it began.  The tables behind the scores are  *)
(* ChanScores; here a sample is in the sum at once.  Time only matters     *)
(* from the start of a fix, and is counted in units of 300 seconds, the    *)
(* period of the events.  Some conditions are a choice wherever the code   *)
(* looks at them: that ChanServ has the channel registered, that the       *)
(* network is split or was warned of a split, that fixing is enabled, and  *)
(* that modes or bans keep users out.                                      *)
(***************************************************************************)
EXTENDS Integers, FiniteSets, FiniteSetsExt

CONSTANTS
  Members, HostOf,           \* users, and the user@host of each of them
  cf_min_clients,
  CF_MIN_FIX_OPS, CF_FIX_TIME, CF_FIX_CYCLES, CF_AUTOFIX_FREQ, CF_CHANFIX_FREQ,
  CF_REMOVE_MODES_TIME, CF_REMOVE_BANS_TIME,
  ChanScoreBegin,            \* CF_MAX_CHANFIX_SCORE * CF_MIN_ABS_CHAN_SCORE_BEGIN
  ChanScoreEnd,              \* CF_MAX_CHANFIX_SCORE * CF_MIN_ABS_CHAN_SCORE_END
  UniqueIds,                 \* an id in cf_userhost is never given again: not with SQLite
  MaxPoints                  \* bound: the score of a user@host

\* validate_conf makes cf_min_clients 2 or more.
ASSUME FixAssumption ==
  /\ cf_min_clients \in Nat \ {0}
  /\ ChanScoreEnd \in Nat /\ MaxPoints \in Nat
  /\ CF_FIX_TIME \in Nat \ {0} /\ CF_FIX_CYCLES \in Nat \ {0}

VARIABLES
  member,          \* of each user: out, in or op
  inhabited,       \* ChanFix is in the channel
  fix,             \* chptr->cfptr
  cf_channel,      \* the row of the channel in cf_channel, and its flags
  userhost,        \* cf_userhost: the id of a user@host
  points,          \* the rows of a user@host in cf_score and cf_score_history, summed
  earned           \* history: the user@hosts that ever had a score above ChanScoreEnd

fixVars == <<member, inhabited, fix, cf_channel, userhost, points, earned>>

Hosts == {HostOf[m] : m \in Members}
\* Ids are only compared: two for each user@host, for a row of it and for one after that.
Ids == Hosts \X {1, 2}
NoId == <<>>
NoFix == [type |-> "none"]

\* chanfix_score_item; opped: operator status was given for it.
Item == [id : Ids, score : 1 .. MaxPoints, opped : BOOLEAN]

\* struct chanfix_channel.  due is the time of the next attempt, by prev_attempt, from
\* fix_started on; cycle is kept modulo CF_FIX_CYCLES; {} is a NULL scores.
Fix == [type : {"auto", "man"}, due : 0 .. CF_FIX_TIME + 1,
        cycle : 0 .. CF_FIX_CYCLES - 1, scores : SUBSET Item, highest_score : 1 .. MaxPoints,
        clearedmodes : BOOLEAN, clearedbans : BOOLEAN]

FixInit ==
  /\ member = [m \in Members |-> "out"]
  /\ inhabited = FALSE
  /\ fix = NoFix
  /\ cf_channel = {}
  /\ userhost = [h \in Hosts |-> NoId]
  /\ points = [h \in Hosts |-> 0]
  /\ earned = {}

Present(mem) == {m \in Members : mem[m] # "out"}
Opped(mem) == {m \in Members : mem[m] = "op"}
Unopped(mem) == {m \in Members : mem[m] = "in"}

Capped(n, max) == IF n > max THEN max ELSE n

-----------------------------------------------------------------------------
(* A fix begins and ends.                                                  *)

\* Mutant: whoever has a score is fetched.
FetchAnyScore(min_score) ==
  {[id |-> userhost[h], score |-> points[h], opped |-> FALSE] : h \in {h \in Hosts : points[h] > 0}}

\* fetch_cf_scores.
fetch_cf_scores(min_score) ==
  {[id |-> userhost[h], score |-> points[h], opped |-> FALSE] :
     h \in {h \in Hosts : points[h] > min_score}}

\* add_chanfix: its conditions, and the struct it makes.
CanFix(type) ==
  /\ "block" \notin cf_channel
  /\ type = "man" => "alert" \notin cf_channel
  /\ fix = NoFix
  /\ fetch_cf_scores(ChanScoreEnd) # {}

add_chanfix(type) ==
  LET scores == fetch_cf_scores(ChanScoreEnd) IN
  [type |-> type, due |-> 0, cycle |-> 1 % CF_FIX_CYCLES,
   scores |-> scores, highest_score |-> Max({i.score : i \in scores}),
   clearedmodes |-> FALSE, clearedbans |-> FALSE]

\* Mutant: ChanFix stays.
DelStays(mem) ==
  /\ fix' = NoFix
  /\ inhabited' = inhabited
  /\ member' = mem

\* del_chanfix, with part_service.  A channel that is left empty is destroyed.
del_chanfix(mem) ==
  /\ fix' = NoFix
  /\ inhabited' = FALSE
  /\ member' = mem

\* A member loses operator status or leaves: deop_chmember, del_chmember, with
\* h_chanfix_channel_opless, and free_channel with h_chanfix_channel_destroy.
SetMember(m, status) ==
  LET mem == [member EXCEPT ![m] = status] IN
  IF Present(mem) = {} /\ ~ inhabited
  THEN del_chanfix(mem)
  ELSE /\ member' = mem
       /\ \/ UNCHANGED fix
          \/ /\ member[m] = "op" /\ Opped(mem) = {}
             /\ Cardinality(Present(mem)) >= cf_min_clients
             /\ CanFix("auto")
             /\ fix' = add_chanfix("auto")
       /\ UNCHANGED inhabited

-----------------------------------------------------------------------------
(* The network.                                                            *)

Join(m, status) ==
  /\ member[m] = "out"
  /\ member' = [member EXCEPT ![m] = status]
  /\ UNCHANGED <<inhabited, fix, cf_channel, userhost, points, earned>>

ModeOp(m) ==
  /\ member[m] = "in"
  /\ member' = [member EXCEPT ![m] = "op"]
  /\ UNCHANGED <<inhabited, fix, cf_channel, userhost, points, earned>>

ModeDeop(m) ==
  /\ member[m] = "op"
  /\ SetMember(m, "in")
  /\ UNCHANGED <<cf_channel, userhost, points, earned>>

Leave(m) ==
  /\ member[m] # "out"
  /\ SetMember(m, "out")
  /\ UNCHANGED <<cf_channel, userhost, points, earned>>

\* The services end and start again; the database stays.
FixRestart ==
  /\ member' = [m \in Members |-> "out"]
  /\ inhabited' = FALSE
  /\ fix' = NoFix
  /\ UNCHANGED <<cf_channel, userhost, points, earned>>

-----------------------------------------------------------------------------
(* The scores.                                                             *)

\* The id of a row inserted into cf_userhost for h: never given before, or with SQLite that of
\* the newest row if that is gone, which may be one the fix still holds.
NewUserhostId(h) ==
  LET cached == IF fix = NoFix THEN {} ELSE {i.id : i \in fix.scores}
      unused == {id \in Ids : \A k \in Hosts : userhost[k] # id}
  IN  IF ~ UniqueIds /\ unused \cap cached # {}
      THEN CHOOSE id \in unused \cap cached : TRUE
      ELSE CHOOSE id \in unused \ cached : id[1] = h

\* e_chanfix_score_channels: every user@host with operator status gets a point, with the rows
\* it needs in cf_channel and cf_userhost; or the channel is found without operators.
e_chanfix_score_channels ==
  LET seen == {HostOf[m] : m \in Opped(member)} IN
  /\ Cardinality(Present(member)) >= cf_min_clients
  /\ \/ /\ seen # {}
        /\ points' = [h \in Hosts |-> IF h \in seen THEN Capped(points[h] + 1, MaxPoints) ELSE points[h]]
        /\ earned' = earned \cup {h \in Hosts : points'[h] > ChanScoreEnd}
        /\ userhost' = [h \in Hosts |-> IF h \in seen /\ userhost[h] = NoId THEN NewUserhostId(h)
                                        ELSE userhost[h]]
        /\ cf_channel' = cf_channel \cup {"row"}
        /\ UNCHANGED fix
     \/ /\ seen = {}
        /\ CanFix("auto")
        /\ fix' = add_chanfix("auto")
        /\ UNCHANGED <<cf_channel, userhost, points, earned>>
  /\ UNCHANGED <<member, inhabited>>

\* e_chanfix_collate_history: the points of a user@host that are too old are dropped; every
\* 28 days the rows of cf_userhost and cf_channel that nothing refers to are dropped as well.
e_chanfix_collate_history ==
  \E h \in Hosts, n \in 0 .. MaxPoints - 1, unused \in BOOLEAN :
    LET left == [points EXCEPT ![h] = n] IN
    /\ n < points[h] /\ (unused => n = 0)
    /\ points' = left
    /\ userhost' = IF unused THEN [k \in Hosts |-> IF left[k] = 0 THEN NoId ELSE userhost[k]]
                   ELSE userhost
    /\ cf_channel' = IF unused /\ cf_channel = {"row"} /\ \A k \in Hosts : left[k] = 0
                     THEN {} ELSE cf_channel
    /\ UNCHANGED <<member, inhabited, fix, earned>>

-----------------------------------------------------------------------------
(* Fixing.                                                                 *)

Period == IF fix.type = "auto" THEN CF_AUTOFIX_FREQ ELSE CF_CHANFIX_FREQ

\* The score that is asked for falls as the fix goes on.
min_score(time) ==
  Max({ChanScoreBegin - (time * (ChanScoreBegin - ChanScoreEnd)) \div CF_FIX_TIME,
       (9 * fix.highest_score * CF_FIX_TIME - 6 * fix.highest_score * time) \div (10 * CF_FIX_TIME)})

\* The sets of members match_chmembers may match: it goes through the members without
\* operator status until no score is left unmatched, so that the members with the user@host
\* of one before them may or may not be reached.
match_chmembers(scores) ==
  LET found == {m \in Unopped(member) : \E i \in scores : i.id = userhost[HostOf[m]]}
      hosts(M) == {HostOf[m] : m \in M}
  IN  {M \in SUBSET found :
         /\ hosts(M) = hosts(found)
         /\ IF Cardinality(hosts(found)) = Cardinality(scores)
            THEN \E m \in M : \A o \in M \ {m} : HostOf[o] # HostOf[m]
            ELSE M = found}

\* fix_opless_channel, and the end of the fix when everybody has operator status.
fix_opless_channel(f, M, time) ==
  LET given == {m \in M : \E i \in f.scores : i.id = userhost[HostOf[m]] /\ i.score >= min_score(time)}
      items == {[i EXCEPT !.opped = @ \/ \E m \in given : userhost[HostOf[m]] = i.id] : i \in f.scores}
      mem == [m \in Members |-> IF m \in given THEN "op" ELSE member[m]]
  IN  IF given # {} /\ (\A i \in items : i.opped) /\ Cardinality(Opped(mem)) >= Cardinality(items)
      THEN del_chanfix(mem)
      ELSE /\ member' = mem
           /\ fix' = [f EXCEPT !.scores = items]
           /\ inhabited' = TRUE

\* process_chanfix_list from the fetched scores on.
TryFix(time) ==
  LET scores == IF fix.scores = {} THEN fetch_cf_scores(ChanScoreEnd) ELSE fix.scores
      modes == ~ fix.clearedmodes /\ time > CF_REMOVE_MODES_TIME
      bans == ~ fix.clearedbans /\ time > CF_REMOVE_BANS_TIME
      f == [fix EXCEPT !.due = Capped(time + Period, CF_FIX_TIME + 1), !.scores = scores,
                       !.clearedmodes = @ \/ modes, !.clearedbans = @ \/ bans]
  IN  IF scores = {} THEN del_chanfix(member)
      ELSE IF match_chmembers(scores) # {{}}
      THEN \E M \in match_chmembers(scores) : fix_opless_channel(f, M, time)
      ELSE /\ UNCHANGED member
           /\ fix' = f
           /\ inhabited' \in {inhabited, inhabited \/ modes \/ bans}

\* The time of the fix is over: it goes on for another cycle, after the last of them with new
\* scores, unless it is given up or was of use.
NextCycle ==
  IF fix.cycle # 0
  THEN /\ fix' = [fix EXCEPT !.due = Period, !.cycle = (@ + 1) % CF_FIX_CYCLES]
       /\ UNCHANGED <<member, inhabited>>
  ELSE IF Cardinality(Present(member)) < cf_min_clients \/ Opped(member) # {}
  THEN del_chanfix(member)
  ELSE /\ fix' = [fix EXCEPT !.due = Period, !.cycle = (@ + 1) % CF_FIX_CYCLES, !.scores = {}]
       /\ inhabited' = FALSE
       /\ UNCHANGED member

\* process_chanfix_list.
process_chanfix_list(time) ==
  /\ fix # NoFix /\ time >= fix.due
  /\ IF Cardinality(Opped(member)) >= CF_MIN_FIX_OPS THEN del_chanfix(member)
     ELSE IF time > CF_FIX_TIME THEN NextCycle
     ELSE TryFix(time)
  /\ UNCHANGED <<cf_channel, userhost, points, earned>>

-----------------------------------------------------------------------------
(* Commands of an operator.                                                *)

o_chanfix_chanfix ==
  /\ Cardinality(Present(member)) >= cf_min_clients
  /\ Opped(member) = {}
  /\ CanFix("man")
  /\ fix' = add_chanfix("man")
  /\ inhabited' = TRUE
  /\ UNCHANGED <<member, cf_channel, userhost, points, earned>>

\* REVERT takes operator status from everybody.
o_chanfix_revert ==
  /\ Cardinality(Present(member)) >= cf_min_clients
  /\ CanFix("man")
  /\ fix' = add_chanfix("man")
  /\ inhabited' = TRUE
  /\ member' = [m \in Members |-> IF member[m] = "op" THEN "in" ELSE member[m]]
  /\ UNCHANGED <<cf_channel, userhost, points, earned>>

\* OPME is for a channel that has no scores at all.
o_chanfix_opme(m) ==
  /\ member[m] = "in" /\ Opped(member) = {}
  /\ fix = NoFix
  /\ fetch_cf_scores(0) = {}
  /\ member' = [member EXCEPT ![m] = "op"]
  /\ UNCHANGED <<inhabited, fix, cf_channel, userhost, points, earned>>

\* BLOCK and ALERT, UNBLOCK and UNALERT.  The row is looked for by the name in lower case and
\* all but UNALERT update it by the name as it was typed: with a capital, nothing is changed.
\* BLOCK makes a row where there is none.
SetFlags ==
  /\ \/ cf_channel = {} /\ cf_channel' = {"row", "block"}
     \/ /\ "row" \in cf_channel
        /\ \E f \in {"block", "alert"}, capital \in BOOLEAN :
             \/ f \notin cf_channel /\ cf_channel' = IF capital THEN cf_channel ELSE cf_channel \cup {f}
             \/ f \in cf_channel /\ cf_channel' = IF capital /\ f = "block" THEN cf_channel ELSE cf_channel \ {f}
  /\ UNCHANGED <<member, inhabited, fix, userhost, points, earned>>

-----------------------------------------------------------------------------
FixNext ==
  \/ \E m \in Members, status \in {"in", "op"} : Join(m, status)
  \/ \E m \in Members : ModeOp(m)
  \/ \E m \in Members : ModeDeop(m)
  \/ \E m \in Members : Leave(m)
  \/ FixRestart
  \/ e_chanfix_score_channels
  \/ e_chanfix_collate_history
  \/ \E time \in 0 .. CF_FIX_TIME + 1 : process_chanfix_list(time)
  \/ o_chanfix_chanfix
  \/ o_chanfix_revert
  \/ \E m \in Members : o_chanfix_opme(m)
  \/ SetFlags

FixSpec == FixInit /\ [][FixNext]_fixVars

-----------------------------------------------------------------------------
\* The types of the channel, of its fix and of the rows in the database.
FixTypeOK ==
  /\ member \in [Members -> {"out", "in", "op"}]
  /\ inhabited \in BOOLEAN
  /\ fix \in Fix \cup {NoFix}
  /\ cf_channel \subseteq {"row", "block", "alert"}
  /\ userhost \in [Hosts -> Ids \cup {NoId}]
  /\ points \in [Hosts -> 0 .. MaxPoints]
  /\ earned \subseteq Hosts

\* ChanFix is in the channel only while it fixes it, and never with the scores of a fix
\* that was started afresh; no fix outlives its channel.
FixHeld ==
  /\ inhabited => fix # NoFix /\ fix.scores # {}
  /\ fix # NoFix => inhabited \/ Present(member) # {}

\* Whoever ChanFix gives operator status (fix_opless_channel) has a user@host whose own samples
\* once made a score above the lowest limit, whatever became of its rows since the scores
\* of the fix were fetched.
OpsEarned ==
  [][(\E since \in 0 .. CF_FIX_TIME + 1 : process_chanfix_list(since)) =>
       \A m \in Opped(member') \ Opped(member) : HostOf[m] \in earned]_fixVars
=============================================================================
