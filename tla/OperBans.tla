------------------------------- MODULE OperBans -------------------------------
(***************************************************************************)
(* BanServ's klines, xlines and resvs (src/s_banserv.c): the table         *)
(* operbans and what the servers of the network hold.  BanServ keeps no    *)
(* list in memory.  A ban is sent to the servers hearing at that moment; a  *)
(* server that was split away hears of it from SYNC or the timer.  A lifted *)
(* ban keeps its row for unban_time, for the servers that missed it.       *)
(*                                                                         *)
(* The servers are modelled from what push_ban() says of them: a server    *)
(* that has a ban ignores another for the same mask, and temporary bans    *)
(* run out on it by themselves.  Who may place or lift a permanent ban, and *)
(* the limit on the users a ban may match, are refusals and left out.      *)
(***************************************************************************)
EXTENDS Naturals

CONSTANTS
  Bans, BanType,     \* bans, each a type and a mask, and the type of each
  BanServers,        \* servers of the network
  Durations,         \* of temporary bans
  bs_unban_time,     \* config_file.bs_unban_time
  MaxClock           \* bound: seconds

Types == {BanType[b] : b \in Bans}
NoBan == [hold |-> 0, remove |-> TRUE]     \* never a row: a lifted ban has a hold
Nothing == 0

ASSUME BanAssumption ==
  /\ BanType \in [Bans -> Types] /\ Durations \subseteq Nat \ {0}
  /\ bs_unban_time \in Nat /\ MaxClock \in Nat \ {0}

\* Later than any time: a ban until then does not run out.
Forever == MaxClock + bs_unban_time + 1

VARIABLES
  clock,        \* rb_time()
  workaround,   \* config_file.bs_temp_workaround
  operbans,     \* the table: hold 0 is permanent
  hearing,      \* the servers that hear us
  holding,      \* until when each server holds each ban
  synced,       \* history: linked servers a full sync has reached since they linked
  missed        \* history: <<server, ban>> whose lift is no longer in the table,
                \* unheard by the server

banVars == <<clock, workaround, operbans, hearing, holding, synced, missed>>

NothingHeld == [b \in Bans |-> Nothing]

BanInit ==
  /\ clock = 1
  /\ workaround \in BOOLEAN
  /\ operbans = [b \in Bans |-> NoBan]
  /\ hearing = BanServers /\ synced = BanServers
  /\ holding = [s \in BanServers |-> NothingHeld]
  /\ missed = {}

Placed(rows, b) == rows[b] # NoBan /\ ~ rows[b].remove
Lifted(rows, b) == rows[b] # NoBan /\ rows[b].remove

\* expire_operbans.
Expired(rows) ==
  [b \in Bans |-> IF rows[b].hold # 0 /\ rows[b].hold <= clock THEN NoBan ELSE rows[b]]

-----------------------------------------------------------------------------
(* What the servers make of our lines (external).                          *)

\* KLINE, XLINE or RESV until a time, and the lines that take them back.
Ban(until, old) == IF old = Nothing THEN until ELSE old

\* push_ban: the row of b is sent to a server that has `old'.
push_ban(rows, b, old) ==
  IF rows[b].hold = 0 THEN Ban(Forever, old)
  ELSE Ban(rows[b].hold, IF workaround THEN Nothing ELSE old)

\* What the table says a server should hold at time t.
Due(rows, b, t) ==
  IF ~ Placed(rows, b) THEN Nothing
  ELSE IF rows[b].hold = 0 THEN Forever
  ELSE IF rows[b].hold > t THEN rows[b].hold ELSE Nothing

\* A lift that sync_bans sends at time t.
Sent(rows, b, t) == Lifted(rows, b) /\ rows[b].hold > t

\* A step leaves these rows in the table and these bans on the servers.  A lift that is
\* not sent any more was missed by the servers that have not what is due, until a line of
\* ours changes what they have.
Become(rows, bans) ==
  /\ operbans' = rows
  /\ holding' = bans
  /\ missed' = {p \in missed \cup {q \in BanServers \X Bans :
                                    /\ Lifted(operbans, q[2]) \/ Lifted(rows, q[2])
                                    /\ ~ Sent(rows, q[2], clock)} :
                  LET now == bans[p[1]][p[2]]
                  IN now = holding[p[1]][p[2]] /\ now # Due(rows, p[2], clock)}

-----------------------------------------------------------------------------

\* o_banserv_kline, o_banserv_xline, o_banserv_resv.  for: 0 for a permanent ban.
o_banserv_kline(b, for) ==
  LET tab == Expired(operbans)
      rows == [tab EXCEPT ![b] = [hold |-> IF for = 0 THEN 0 ELSE clock + for, remove |-> FALSE]]
  IN
  /\ ~ Placed(tab, b)
  /\ Become(rows,
            [s \in BanServers |->
               IF s \in hearing THEN [holding[s] EXCEPT ![b] = push_ban(rows, b, @)] ELSE holding[s]])
  /\ UNCHANGED <<clock, workaround, hearing, synced>>

\* Mutant: the row of a lifted ban is deleted.
UnklineDeletes(b) ==
  LET tab == Expired(operbans) IN
  /\ Placed(tab, b)
  /\ Become([tab EXCEPT ![b] = NoBan],
            [s \in BanServers |->
               IF s \in hearing THEN [holding[s] EXCEPT ![b] = Nothing] ELSE holding[s]])
  /\ UNCHANGED <<clock, workaround, hearing, synced>>

\* o_banserv_unkline, o_banserv_unxline, o_banserv_unresv.
o_banserv_unkline(b) ==
  LET tab == Expired(operbans) IN
  /\ Placed(tab, b)
  /\ Become([tab EXCEPT ![b] = [hold |-> clock + bs_unban_time, remove |-> TRUE]],
            [s \in BanServers |->
               IF s \in hearing THEN [holding[s] EXCEPT ![b] = Nothing] ELSE holding[s]])
  /\ UNCHANGED <<clock, workaround, hearing, synced>>

\* The timer, and find_ban and find_ban_remove in a command that is then refused.
expire_operbans ==
  /\ Become(Expired(operbans), holding)
  /\ UNCHANGED <<clock, workaround, hearing, synced>>

\* sync_bans: temporary bans and lifts of some types and permanent bans of some types
\* are sent to some servers.
Synced(S, temps, perms) ==
  [s \in BanServers |->
     IF s \notin S THEN holding[s]
     ELSE [b \in Bans |->
             CASE operbans[b].hold > clock /\ BanType[b] \in temps ->
                    IF operbans[b].remove THEN Nothing ELSE push_ban(operbans, b, holding[s][b])
               [] Placed(operbans, b) /\ operbans[b].hold = 0 /\ BanType[b] \in perms ->
                    push_ban(operbans, b, holding[s][b])
               [] OTHER -> holding[s][b]]]

\* e_banserv_autosync, and SYNC without a type, which names its servers.
sync_bans(S) ==
  /\ Become(operbans, Synced(S, Types, Types))
  /\ synced' = synced \cup S
  /\ UNCHANGED <<clock, workaround, hearing>>

\* SYNC of one type: its permanent bans are selected by a type made from the time
\* (the arguments of the statement are one too many), so by any or none.
SyncType(S, t, garbled) ==
  /\ Become(operbans, Synced(S, {t}, garbled))
  /\ UNCHANGED <<clock, workaround, hearing, synced>>

-----------------------------------------------------------------------------
(* The network and the process.                                            *)

SplitServer(s) ==
  /\ s \in hearing
  /\ hearing' = hearing \ {s} /\ synced' = synced \ {s}
  /\ UNCHANGED <<clock, workaround, operbans, holding, missed>>

\* A server links again, with the bans it had or started anew.
LinkServer(s, anew) ==
  /\ s \notin hearing
  /\ hearing' = hearing \cup {s}
  /\ Become(operbans, IF anew THEN [holding EXCEPT ![s] = NothingHeld] ELSE holding)
  /\ UNCHANGED <<clock, workaround, synced>>

\* The process ends, perhaps after the statement of a command and before the line,
\* and links again.
RestartBans(b, for, lift) ==
  LET tab == Expired(operbans)
      row == IF lift THEN [hold |-> clock + bs_unban_time, remove |-> TRUE]
             ELSE [hold |-> IF for = 0 THEN 0 ELSE clock + for, remove |-> FALSE]
  IN
  /\ lift = Placed(tab, b)
  /\ Become([tab EXCEPT ![b] = row], holding)
  /\ synced' = {}
  /\ UNCHANGED <<clock, workaround, hearing>>

Clock ==
  /\ clock < MaxClock
  /\ clock' = clock + 1
  /\ holding' = [s \in BanServers |->
                [b \in Bans |-> IF holding[s][b] <= clock' THEN Nothing ELSE holding[s][b]]]
  /\ missed' = {p \in missed \cup {q \in BanServers \X Bans :
                                    Lifted(operbans, q[2]) /\ ~ Sent(operbans, q[2], clock')} :
                  holding'[p[1]][p[2]] # Due(operbans, p[2], clock')}
  /\ UNCHANGED <<workaround, operbans, hearing, synced>>

BanNext ==
  \/ \E b \in Bans :
       \/ \E for \in Durations \cup {0} : o_banserv_kline(b, for)
       \/ o_banserv_unkline(b)
       \/ \E for \in Durations \cup {0}, lift \in BOOLEAN : RestartBans(b, for, lift)
  \/ expire_operbans
  \/ \E S \in SUBSET hearing :
       \/ sync_bans(S)
       \/ \E t \in Types, garbled \in SUBSET Types : SyncType(S, t, garbled)
  \/ \E s \in BanServers : SplitServer(s) \/ \E anew \in BOOLEAN : LinkServer(s, anew)
  \/ Clock

BanSpec == BanInit /\ [][BanNext]_banVars

-----------------------------------------------------------------------------

\* Types; only a linked server is synced.
BanTypeOK ==
  /\ clock \in 1 .. MaxClock /\ workaround \in BOOLEAN
  /\ operbans \in [Bans -> [hold : Nat, remove : BOOLEAN]]
  /\ synced \subseteq hearing /\ hearing \subseteq BanServers
  /\ holding \in [BanServers -> [Bans -> Nat]]
  /\ missed \subseteq BanServers \X Bans

\* A server that a full sync has reached since it linked holds exactly the bans of the
\* table, each until its time: whatever was placed, lifted and placed again while it was
\* away, and wherever the process ended.  Only a lift it was away for until the table
\* forgot it (unban_time passed, or the ban was placed anew) can leave it with another.
SyncedAgree ==
  \A s \in synced, b \in Bans : <<s, b>> \notin missed => holding[s][b] = Due(operbans, b, clock)
===============================================================================
