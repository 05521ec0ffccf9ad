------------------------------- MODULE ChanServ -------------------------------
(***************************************************************************)
(* A registered channel and ChanServ's hold on it: the channel handlers of *)
(* src/channel.c and src/c_mode.c with the hooks they run, the commands,   *)
(* oper commands and events of src/s_chanserv.c that touch the channel,    *)
(* its options and its ban list.  Access lists and what the database keeps *)
(* of them are ChanAccess's; here a channel starts as the database gives   *)
(* it, at any time services may have been stopped.                         *)
(*                                                                         *)
(* SJOIN, JOIN, MODE and the others carry what some server may send; each  *)
(* MODE makes one change.                                                  *)
(***************************************************************************)
EXTENDS ChanHooks

CONSTANTS
  Modes, Clearable,    \* simple modes, and those of them CLEARMODES removes
  Options,             \* the flags SET may turn on
  Statuses,            \* of "o" and "v", those members join with
  Changes,             \* of "o", "v", "simple", "b" and "e", what MODE changes
  Times,               \* channel timestamps
  Sources,             \* whether the servers that send SJOIN speak TS6
  Accounts,            \* the clients who have an account
  Access, AutoOp, AutoVoice,   \* each account's level and flags in the database
  BanLevels,           \* levels bans are set at
  cmax_bans,           \* config_file.cmax_bans
  MaxBants             \* bound: invalidations of the ban cache

\* "INHABIT" is no option of SET, the database holds no other levels, and those of bans are levels.
ASSUME ChanAssumption ==
  /\ Accounts \cup AutoOp \cup AutoVoice \subseteq Clients /\ "INHABIT" \notin Options
  /\ \A c \in Accounts : Access[c] \in 0 .. S_C_OWNER
  /\ BanLevels \subseteq Nat /\ MaxBants \in Nat \ {0} /\ cautojoin_empty \in BOOLEAN

VARIABLES chan, reg, cached, logged, sent_burst, misused

chanVars == <<chan, reg, cached, logged, sent_burst, misused>>

World == [chan |-> chan, reg |-> reg, cached |-> cached, logged |-> logged,
          burst |-> sent_burst, misused |-> misused]

\* The step that ends with world w.
To(w) ==
  /\ chan' = w.chan /\ reg' = w.reg /\ cached' = w.cached /\ logged' = w.logged
  /\ sent_burst' = w.burst /\ misused' = w.misused

\* The channel as load_channel_db leaves it (channel_db_callback).
ChanInit ==
  /\ \E fs \in SUBSET (Options \cup {"INHABIT"}), ts \in Times \ {0}, em \in SUBSET Modes,
        su \in {"no", "yes"} :
       LET w == [chan |-> NoChan, cached |-> [c \in Clients |-> 0], logged |-> {}, burst |-> FALSE,
                 misused |-> FALSE,
                 reg |-> [NoReg EXCEPT !.on = TRUE, !.flags = fs, !.susp = su, !.ts = ts,
                                       !.emode = em, !.level = [c \in Clients |-> IF c \in Accounts THEN Access[c] ELSE 0],
                                       !.autoop = AutoOp,
                                       !.autovoice = AutoVoice]]
           v == IF cautojoin_empty /\ Flagged(w, "AUTOJOIN") THEN enable_inhabit(w, FALSE, TRUE) ELSE w
       IN chan = v.chan /\ reg = v.reg
  /\ cached = [c \in Clients |-> 0] /\ logged = {} /\ sent_burst = FALSE /\ misused = FALSE

\* Some clients in some order, nobody twice.
Nicks == {s \in UNION {[1 .. n -> Clients] : n \in 0 .. Cardinality(Clients)} : IsInjective(s)}

------------------------------------------------------------------------------
(* What the network sends.                                                  *)

\* The channel a message with this timestamp finds or makes, and whether the modes we have
\* and those it brings are kept.
Opened(ts) ==
  IF ~chan.alive THEN [NoChan EXCEPT !.alive = TRUE, !.ts = ts]
  ELSE [chan EXCEPT !.ts = IF ts = 0 \/ @ = 0 THEN 0 ELSE @]
KeepOld(ts) == chan.alive /\ (ts = 0 \/ chan.ts = 0 \/ ts >= chan.ts)
KeepNew(ts) == ~chan.alive \/ ts = 0 \/ chan.ts = 0 \/ ts <= chan.ts

\* remove_our_simple_modes, remove_our_ov_modes and, for a TS6 source, remove_our_bans.
Cleared(ch, ts, bans) ==
  [ch EXCEPT !.ts = ts, !.mode = {}, !.ops = {}, !.voiced = {},
             !.bans = IF bans THEN {} ELSE @, !.excepts = IF bans THEN {} ELSE @]

\* joined_members, a list that grows at its head.
NewestFirst(s) == [i \in 1 .. Len(s) |-> s[(Len(s) - i) + 1]]

\* SJOIN with nicks, some of them with a status, which is not looked at for those that are
\* members; a nick we do not know is not in the list.
c_sjoin(ts, modes, nicks, status, ts6) ==
  LET old   == IF KeepOld(ts) THEN Opened(ts) ELSE Cleared(Opened(ts), ts, ts6)
      ch    == [old EXCEPT !.mode = IF KeepNew(ts) THEN @ \cup modes ELSE @]
      w     == [World EXCEPT !.chan = ch]
      v     == IF KeepOld(ts) THEN w ELSE h_chanserv_sjoin_lowerts(w)
      new   == Without(nicks, {i \in DOMAIN nicks : nicks[i] \in ch.users})
      with(s) == {c \in Range(new) : s \in status[c]}
      in    == [v EXCEPT !.chan.users = @ \cup Range(new),
                         !.chan.ops = IF KeepNew(ts) THEN @ \cup with("o") ELSE @,
                         !.chan.voiced = IF KeepNew(ts) THEN @ \cup with("v") ELSE @,
                         !.chan.deopped = IF KeepNew(ts) THEN @ ELSE @ \cup with("o")]
  IN To(IF in.chan.users = {} /\ ~in.chan.serv THEN [in EXCEPT !.chan = NoChan]
        ELSE h_chanserv_join(in, NewestFirst(new)))

\* A TS6 JOIN.
c_join(c, ts) ==
  LET old == IF KeepOld(ts) THEN Opened(ts) ELSE Cleared(Opened(ts), ts, FALSE)
      w   == [World EXCEPT !.chan = old]
      v   == IF KeepOld(ts) THEN w ELSE h_chanserv_sjoin_lowerts(w)
  IN To(IF c \in old.users THEN v
        ELSE h_chanserv_join([v EXCEPT !.chan.users = @ \cup {c}], <<c>>))

\* PART, QUIT, JOIN 0 and a KICK by someone else.
c_part(c) == c \in chan.users /\ To(del_chmember(World, c))

\* One change of a MODE, by a user or a server: of a member's status, a simple mode, a ban
\* or an exception.
handle_chmode(user, what, add, x) ==
  \/ /\ what = "o" /\ x \in chan.users
     /\ To(IF ~add THEN [World EXCEPT !.chan.ops = @ \ {x}]
           ELSE IF x \in chan.ops THEN World
           ELSE h_chanserv_mode_op(op_chmember(World, x), {x}))
  \/ /\ what = "v" /\ x \in chan.users
     /\ To(IF ~add THEN [World EXCEPT !.chan.voiced = @ \ {x}]
           ELSE IF x \in chan.voiced THEN World
           ELSE h_chanserv_mode_voice([World EXCEPT !.chan.voiced = @ \cup {x}], {x}))
  \/ /\ what = "simple" /\ add # (x \in chan.mode)
     /\ To(h_chanserv_mode_simple([World EXCEPT !.chan.mode = IF add THEN @ \cup {x} ELSE @ \ {x}]))
  \/ /\ what = "b" /\ add # (x \in chan.bans)
     /\ LET w == [World EXCEPT !.chan.bans = IF add THEN @ \cup {x} ELSE @ \ {x}]
        IN To(IF user /\ add THEN h_chanserv_mode_ban(w, {x}) ELSE w)
  \/ /\ what = "e" /\ add # (x \in chan.excepts)
     /\ To([World EXCEPT !.chan.excepts = IF add THEN @ \cup {x} ELSE @ \ {x}])

Changed(what) == CASE what \in {"o", "v"} -> Clients
                   [] what = "simple" -> Modes
                   [] OTHER -> Masks

\* MODE from a client, bounced if the client came in with a status we did not accept.
c_mode(what, add, x) ==
  chan.alive /\ Clients \ chan.deopped # {} /\ handle_chmode(TRUE, what, add, x)

\* TMODE with our timestamp or a lower one, or MODE from a server.
c_tmode(user, what, add, x) == chan.alive /\ handle_chmode(user, what, add, x)

\* BMASK with our timestamp or a lower one.
c_bmask(what, masks) ==
  /\ chan.alive
  /\ To(IF what = "b" THEN [World EXCEPT !.chan.bans = @ \cup masks]
        ELSE [World EXCEPT !.chan.excepts = @ \cup masks])

EndOfBurst == ~sent_burst /\ To([World EXCEPT !.burst = TRUE])

\* LOGIN and LOGOUT at UserServ.
Login(c) ==
  /\ c \in Accounts \ logged
  /\ To(h_chanserv_user_login([World EXCEPT !.logged = @ \cup {c}], c))
Logout(c) == c \in logged /\ To([World EXCEPT !.logged = @ \ {c}])

------------------------------------------------------------------------------
(* ChanServ's commands, for a client whose access is checked first.         *)

verify_member_reg(c, level) == Active(World) /\ Level(World, c) >= level
V == Expire(World)

\* s_chan_clearops_loc.
ClearOps(w, level) == [w EXCEPT !.chan.ops = {c \in @ : Level(w, c) >= level}]

\* SET of a flag, with what turning it on or off does at once.
s_chan_set(c, f, on) ==
  /\ verify_member_reg(c, S_C_MANAGER) /\ on # Flagged(World, f)
  /\ LET w == [V EXCEPT !.reg.flags = IF on THEN @ \cup {f} ELSE @ \ {f}]
     IN To(CASE f = "NOOPS" /\ on -> ClearOps(w, S_C_OWNER + 1)
             [] f = "RESTRICTOPS" /\ on -> ClearOps(w, S_C_OP)
             [] f = "NOVOICES" /\ on -> [w EXCEPT !.chan.voiced = {}]
             [] f = "AUTOJOIN" /\ on ->
                  enable_inhabit([w EXCEPT !.reg.ts = IF chan.alive THEN chan.ts ELSE @], FALSE, TRUE)
             [] f = "AUTOJOIN" /\ ~on -> part_service(w)
             [] OTHER -> w)

SetEnforceModes(c, em) ==
  /\ verify_member_reg(c, S_C_MANAGER)
  /\ LET w == [V EXCEPT !.reg.emode = em]
     IN To(IF chan.alive THEN h_chanserv_mode_simple(w) ELSE w)

s_chan_op(c) ==
  /\ chan.alive /\ verify_member_reg(c, S_C_OP)
  /\ ~Flagged(World, "NOOPS") /\ c \in chan.users \ chan.ops
  /\ To(op_chmember(V, c))

s_chan_voice(c) ==
  /\ chan.alive /\ verify_member_reg(c, S_C_USER)
  /\ ~Flagged(World, "NOVOICES") /\ ~Flagged(World, "NOVOICECMD")
  /\ c \in chan.users \ chan.voiced
  /\ To([V EXCEPT !.chan.voiced = @ \cup {c}])

s_chan_clearops(c) ==
  chan.alive /\ verify_member_reg(c, S_C_CLEAR) /\ To(ClearOps(V, S_C_OP))

s_chan_clearallops(c) ==
  chan.alive /\ verify_member_reg(c, S_C_CLEAR) /\ To(ClearOps(V, Level(World, c)))

s_chan_clearmodes(c) ==
  /\ chan.alive /\ verify_member_reg(c, S_C_CLEAR) /\ chan.mode \cap Clearable # {}
  /\ To([V EXCEPT !.chan.mode = @ \ Clearable])

Listed == {reg.bans[i].mask : i \in DOMAIN reg.bans}

s_chan_clearbans(c) ==
  /\ chan.alive /\ verify_member_reg(c, S_C_CLEAR)
  /\ To([V EXCEPT !.chan.bans = @ \cap Listed])

\* ADDBAN: the ban goes on the list and, unless the channel has it, on those it matches.
s_chan_addban(c, m, level, hold) ==
  /\ verify_member_reg(c, S_C_REGULAR)
  /\ Len(reg.bans) <= cmax_bans /\ m \notin Listed /\ level <= Level(World, c)
  /\ LET w    == [V EXCEPT !.reg.bans = <<[mask |-> m, level |-> level, hold |-> hold]>> \o @]
         hits == {x \in chan.users \cap Matches[m] : ~find_exempt(w, x) /\ Level(w, x) < level}
     IN IF m \in chan.bans THEN To(w)
        ELSE \E order \in Nicks : Range(order) = hits /\ To(KickMembers(w, order, m))

\* The bans on the list a client of this level may remove or change.
Yielding(c, m) == {i \in DOMAIN reg.bans : reg.bans[i].mask = m /\ reg.bans[i].level <= Level(World, c)}

s_chan_delban(c, m) ==
  /\ verify_member_reg(c, S_C_REGULAR) /\ reg.bants < MaxBants
  /\ \E i \in Yielding(c, m) :
       To([V EXCEPT !.reg.bans = Without(@, {i}), !.reg.bants = @ + 1, !.chan.bans = @ \ {m}])

s_chan_modban(c, m, level) ==
  /\ verify_member_reg(c, S_C_REGULAR) /\ level <= Level(World, c) /\ reg.bants < MaxBants
  /\ \E i \in Yielding(c, m) :
       To([V EXCEPT !.reg.bans[i].level = level, !.reg.bants = @ + 1])

\* UNBAN is refused with a ban of a higher level in the cache.
s_chan_unban(c) ==
  /\ chan.alive /\ verify_member_reg(c, S_C_REGULAR)
  /\ cached[c] # reg.bants /\ ~find_exempt(World, c)
  /\ To([V EXCEPT !.chan.bans = {m \in @ : c \notin Matches[m]}])

\* REGISTER by a channel operator, CHANREGISTER by an oper for any account.
Registered(c, ts) ==
  [World EXCEPT !.reg = [NoReg EXCEPT !.on = TRUE, !.ts = ts, !.level[c] = S_C_OWNER],
                !.cached = [x \in Clients |-> 0]]
s_chan_register(c) == ~reg.on /\ c \in chan.ops \cap logged /\ To(Registered(c, chan.ts))
o_chan_chanregister(c, now) ==
  ~reg.on /\ To(Registered(c, IF chan.alive THEN chan.ts ELSE now))

\* Mutant: ChanServ stays on the channel.
ChandropStays == reg.on /\ To([World EXCEPT !.reg = NoReg, !.cached = [c \in Clients |-> 0]])

\* CHANDROP, with destroy_channel_reg and free_channel_reg.
o_chan_chandrop ==
  reg.on /\ To([part_service(World) EXCEPT !.reg = NoReg, !.cached = [c \in Clients |-> 0]])

o_chan_chansuspend == reg.on /\ reg.susp # "yes" /\ To([World EXCEPT !.reg.susp = "yes"])
o_chan_chanunsuspend == reg.on /\ reg.susp # "no" /\ To([World EXCEPT !.reg.susp = "no"])

------------------------------------------------------------------------------
(* Time and the events.                                                     *)

\* A temporary suspension or ban runs out.
SuspendEnds == reg.susp = "yes" /\ To([World EXCEPT !.reg.susp = "over"])
BanEnds ==
  \E i \in DOMAIN reg.bans : reg.bans[i].hold = "temp" /\ To([World EXCEPT !.reg.bans[i].hold = "over"])

e_chanserv_expireban ==
  LET over == {i \in DOMAIN reg.bans : reg.bans[i].hold = "over"}
  IN /\ over # {}
     /\ To([World EXCEPT !.chan.bans = @ \ {reg.bans[i].mask : i \in over},
                         !.reg.bans = Without(@, over)])

\* Mutant: only channels with INHABIT are looked at.
PartInhabitedOnly ==
  LET gone == [World EXCEPT !.reg.flags = @ \ {"INHABIT"}] IN
  /\ Flagged(World, "INHABIT")
  /\ To(IF ~chan.alive \/ (Flagged(World, "AUTOJOIN") /\ (cautojoin_empty \/ chan.users # {})) THEN gone
        ELSE IF chan.users = {} \/ chan.ops # {} THEN part_service(gone)
        ELSE World)

e_chanserv_partinhabit ==
  LET gone == [World EXCEPT !.reg.flags = @ \ {"INHABIT"}]
      w == World
  IN /\ Flagged(w, "INHABIT") \/ Flagged(w, "AUTOJOIN")
     /\ To(IF ~chan.alive THEN gone
           ELSE IF Flagged(w, "INHABIT")
           THEN IF Flagged(w, "AUTOJOIN") /\ (cautojoin_empty \/ chan.users # {}) THEN gone
                ELSE IF chan.users = {} \/ chan.ops # {} THEN part_service(gone)
                ELSE w
           ELSE IF ~cautojoin_empty /\ chan.users = {} THEN part_service(w)
           ELSE w)

FromNetwork ==
  \/ \E ts \in Times, ms \in SUBSET Modes, nicks \in Nicks, ts6 \in Sources :
       \E status \in [Range(nicks) \ chan.users -> SUBSET Statuses] : c_sjoin(ts, ms, nicks, status, ts6)
  \/ \E c \in Clients, ts \in Times : c_join(c, ts)
  \/ \E c \in Clients : c_part(c)
  \/ \E what \in Changes, add \in BOOLEAN :
       \E x \in Changed(what) :
         \/ c_mode(what, add, x)
         \/ \E user \in BOOLEAN : c_tmode(user, what, add, x)
  \/ \E what \in {"b", "e"}, masks \in SUBSET Masks : c_bmask(what, masks)
  \/ EndOfBurst

ByUser(c) ==
  \/ Login(c) \/ Logout(c)
  \/ \E f \in Options, on \in BOOLEAN : s_chan_set(c, f, on)
  \/ \E em \in SUBSET Modes : SetEnforceModes(c, em)
  \/ s_chan_op(c) \/ s_chan_voice(c)
  \/ s_chan_clearops(c) \/ s_chan_clearallops(c) \/ s_chan_clearmodes(c) \/ s_chan_clearbans(c)
  \/ \E m \in Masks :
       \/ \E l \in BanLevels, hold \in {"perm", "temp"} : s_chan_addban(c, m, l, hold)
       \/ s_chan_delban(c, m)
       \/ \E l \in BanLevels : s_chan_modban(c, m, l)
  \/ s_chan_unban(c)
  \/ s_chan_register(c)

ByOper ==
  \/ \E c \in Accounts, now \in Times \ {0} : o_chan_chanregister(c, now)
  \/ o_chan_chandrop \/ o_chan_chansuspend \/ o_chan_chanunsuspend

ByTime == SuspendEnds \/ BanEnds \/ e_chanserv_expireban \/ e_chanserv_partinhabit

ChanNext == FromNetwork \/ (\E c \in Clients : ByUser(c)) \/ ByOper \/ ByTime

\* e_chanserv_partinhabit is an event of the event loop, which runs every event again and again.
ChanFairness == WF_chanVars(e_chanserv_partinhabit)

ChanSpec == ChanInit /\ [][ChanNext]_chanVars /\ ChanFairness

------------------------------------------------------------------------------
(* Properties.                                                              *)

\* Types, and the shape of a channel: it exists while a client or ChanServ is on it
\* (del_chmember, part_service and the end of c_sjoin free it), only members have a status,
\* and a mask is on the ban list once.
ChanTypeOK ==
  /\ chan.alive = (chan.users # {} \/ chan.serv)
  /\ chan.users \subseteq Clients /\ chan.ops \cup chan.voiced \cup chan.deopped \subseteq chan.users
  /\ chan.ts \in Times \cup {0} /\ chan.mode \subseteq Modes /\ chan.bans \cup chan.excepts \subseteq Masks
  /\ reg.flags \subseteq Options \cup {"INHABIT"} /\ reg.susp \in {"no", "yes", "over"}
  /\ reg.ts \in Times \cup {0} /\ reg.emode \subseteq Modes /\ reg.bants \in 1..MaxBants
  /\ Cardinality(Listed) = Len(reg.bans)
  /\ cached \in [Clients -> 0..MaxBants] /\ logged \subseteq Clients
  /\ sent_burst \in BOOLEAN /\ misused \in BOOLEAN

\* A handler that kicks by ban (h_chanserv_join, ADDBAN) never frees the channel it is
\* working on: ChanServ is put on it before its last member is removed, whoever they are and
\* however many a single SJOIN brought, so the modes and kicks that are sent afterwards do
\* not read a freed channel.
ChannelKept == ~misused

\* ChanServ is on a channel only with a reason that e_chanserv_partinhabit or SET AUTOJOIN OFF
\* will find again: a registration with INHABIT or AUTOJOIN.  Otherwise it would never leave.
PresenceFlagged == chan.serv => reg.on /\ (Flagged(World, "INHABIT") \/ Flagged(World, "AUTOJOIN"))

\* With AUTOJOIN the stored timestamp is the channel's, however it was created and lowered
\* ("Save the new TS for later"), so that ChanServ rejoins with the right one; a channel that
\* was set to timestamp 0 is the exception.
StoredTimestamp ==
  reg.on /\ Flagged(World, "AUTOJOIN") /\ chan.alive /\ chan.ts # 0 => reg.ts = chan.ts

\* Nobody becomes an operator that NOOPS or RESTRICTOPS disallows on a channel that is not
\* suspended, by SJOIN, MODE, OP, LOGIN, an option being turned on or anything else; someone
\* who loses access while opped keeps their status.
NoDisallowedOp ==
  [][reg.on /\ reg.susp = "no" /\ reg'.susp = "no" =>
       \A c \in chan'.ops :
         ~OpAllowed(World', c) /\ Level(World', c) >= Level(World, c) =>
           c \in chan.ops /\ ~OpAllowed(World, c)]_chanVars

\* Enforced modes stay on a channel that is not suspended and are there from its creation,
\* through timestamp changes before and after the burst; only CLEARMODES takes them off.
ModesEnforced ==
  [][reg.on /\ reg'.on /\ reg.susp = "no" /\ reg'.susp = "no" /\ chan'.alive
     /\ (chan.alive => reg.emode \subseteq chan.mode)
       => reg'.emode \subseteq chan'.mode \/ \E c \in Clients : s_chan_clearmodes(c)]_chanVars

\* Nobody gets onto a channel that is not suspended against a ban in force of a higher level
\* than theirs, unless an exception matches them.
BannedStayOut ==
  [][reg'.on /\ reg'.susp = "no" =>
       \A c \in chan'.users \ chan.users, i \in DOMAIN reg'.bans :
         LET b == reg'.bans[i] IN
         b.hold # "over" /\ c \in Matches[b.mask] /\ Level(World', c) < b.level =>
           find_exempt(World', c)]_chanVars

\* ChanServ leaves a channel it has to itself, unless AUTOJOIN and autojoin_empty keep it there.
Alone == chan.serv /\ chan.users = {} /\ ~(cautojoin_empty /\ Flagged(World, "AUTOJOIN"))
EmptyChannelLeft == Alone ~> ~Alone

\* UNBAN is refused only to someone a ban of a higher level keeps out (help/en/chanserv/unban).
UnbanHonest ==
  \A c \in logged :
    reg.on /\ cached[c] = reg.bants =>
      \E i \in DOMAIN reg.bans : c \in Matches[reg.bans[i].mask] /\ reg.bans[i].level > Level(World, c)

\* A channel has at most max_bans bans (doc/example.conf).
BanLimit == Len(reg.bans) <= cmax_bans
==============================================================================
