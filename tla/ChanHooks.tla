------------------------------ MODULE ChanHooks ------------------------------
(***************************************************************************)
(* What ChanServ does to a registered channel while a handler runs: the    *)
(* hooks h_chanserv_* of src/s_chanserv.c and the operations on channels   *)
(* and members of src/channel.c that they and the handlers share.          *)
(*                                                                         *)
(* They are functions of a world, the record of the channel as services    *)
(* see it (chan), its registration (reg), the bans cached against each     *)
(* account (cached), the clients logged in (logged), sent_burst (burst)    *)
(* and whether a handler went on using a channel it had freed (misused).   *)
(* Each client has one account.  Topics, keys, limits, +I masks and        *)
(* last_time are left out; a ban mask is given by the clients it matches.  *)
(***************************************************************************)
EXTENDS Naturals, Sequences, FiniteSets, FiniteSetsExt

CONSTANTS
  Clients,
  Masks, Matches,      \* ban masks, and the clients each of them matches
  cautojoin_empty      \* config_file.cautojoin_empty

\* The access levels of s_chanserv.c, in their order.
S_C_USER    == 1
S_C_REGULAR == 2
S_C_OP      == 3
S_C_CLEAR   == 4
S_C_MANAGER == 5
S_C_OWNER   == 6

\* find_channel(name) == NULL.
NoChan == [alive |-> FALSE, ts |-> 0, mode |-> {}, users |-> {}, ops |-> {}, voiced |-> {},
           deopped |-> {}, serv |-> FALSE, bans |-> {}, excepts |-> {}]

\* find_channel_reg(name) == NULL.
NoReg == [on |-> FALSE, flags |-> {}, susp |-> "no", ts |-> 0, emode |-> {},
          level |-> [c \in Clients |-> 0], autoop |-> {}, autovoice |-> {}, bans |-> << >>, bants |-> 1]

Flagged(w, f) == f \in w.reg.flags

\* find_member_reg for a client: the level of the account it is logged in to.
Level(w, c) == IF w.reg.on /\ c \in w.logged THEN w.reg.level[c] ELSE 0

\* CHAN_SUSPEND_EXPIRED and expire_chan_suspend, as every user of a suspension begins.
Expire(w) == [w EXCEPT !.reg.susp = IF @ = "over" THEN "no" ELSE @]

\* A sequence without what stands at the places gone.
Without(s, gone) ==
  LET kept[i \in 0 .. Len(s)] ==
        IF i = 0 THEN << >> ELSE IF i \in gone THEN kept[i - 1] ELSE Append(kept[i - 1], s[i])
  IN kept[Len(s)]

find_exempt(w, c) == \E m \in w.chan.excepts : c \in Matches[m]

------------------------------------------------------------------------------
(* Channels and members.                                                    *)

del_chmember(w, c) ==
  IF w.chan.users = {c} /\ ~w.chan.serv THEN [w EXCEPT !.chan = NoChan]
  ELSE [w EXCEPT !.chan.users = @ \ {c}, !.chan.ops = @ \ {c}, !.chan.voiced = @ \ {c},
                 !.chan.deopped = @ \ {c}]

op_chmember(w, c) == [w EXCEPT !.chan.ops = @ \cup {c}, !.chan.deopped = @ \ {c}]

\* join_service(chanserv_p, name, reg_p->tsinfo, emode or cmode, override).
join_service(w, override) ==
  [w EXCEPT !.chan =
    IF ~@.alive THEN [NoChan EXCEPT !.alive = TRUE, !.ts = w.reg.ts, !.mode = w.reg.emode,
                                    !.serv = TRUE]
    ELSE IF ~@.serv /\ override /\ w.reg.ts < @.ts
    THEN [@ EXCEPT !.ts = w.reg.ts, !.mode = w.reg.emode, !.serv = TRUE]
    ELSE [@ EXCEPT !.serv = TRUE]]

part_service(w) ==
  [w EXCEPT !.chan = IF @.users = {} THEN NoChan ELSE [@ EXCEPT !.serv = FALSE]]

\* enable_inhabit(reg_p, chptr or NULL, autojoin).
enable_inhabit(w, given, autojoin) ==
  join_service([w EXCEPT !.reg.flags = IF autojoin THEN @ ELSE @ \cup {"INHABIT"},
                         !.reg.ts = IF given /\ w.chan.ts < @ THEN w.chan.ts ELSE @],
               autojoin)

\* Mutant: ChanServ joins only a channel that is already empty.
InhabitTooLate(w) ==
  IF Cardinality(w.chan.users) = 0 THEN enable_inhabit(w, TRUE, FALSE) ELSE w

\* enable_inhabit when what is about to be done to the only user would let go of the channel.
InhabitForLast(w) ==
  IF Cardinality(w.chan.users) = 1 THEN enable_inhabit(w, TRUE, FALSE) ELSE w

\* A member is deopped and kicked while the handler still has the channel in hand.
KickMember(w, c, mask) ==
  LET v == InhabitForLast([w EXCEPT !.chan.ops = @ \ {c}, !.chan.bans = @ \cup {mask},
                                    !.cached[c] = IF Level(w, c) > 0 THEN w.reg.bants ELSE @])
      k == del_chmember(v, c)
  IN [k EXCEPT !.misused = @ \/ ~k.chan.alive]

\* The members that ADDBAN kicks, one after the other.
KickMembers(w, hits, mask) ==
  LET after[i \in 0 .. Len(hits)] == IF i = 0 THEN w ELSE KickMember(after[i - 1], hits[i], mask)
  IN after[Len(hits)]

------------------------------------------------------------------------------
(* The hooks.                                                               *)

\* Whether ChanServ looks after the channel, once an expired suspension is lifted.
Active(w) == w.reg.on /\ w.reg.susp # "yes"

OpAllowed(w, c) ==
  ~Flagged(w, "NOOPS") /\ (Flagged(w, "RESTRICTOPS") => Level(w, c) >= S_C_OP)

\* Mutant: only NOOPS is enforced.
ModeOpNoopsOnly(w, opped) ==
  IF ~Active(w) THEN w
  ELSE [Expire(w) EXCEPT !.chan.ops = IF Flagged(w, "NOOPS") THEN @ \ opped ELSE @]

h_chanserv_mode_op(w, opped) ==
  IF ~Active(w) THEN w
  ELSE [Expire(w) EXCEPT !.chan.ops = {c \in @ : c \in opped => OpAllowed(w, c)}]

h_chanserv_mode_voice(w, voiced) ==
  IF ~Active(w) THEN w
  ELSE [Expire(w) EXCEPT !.chan.voiced = IF Flagged(w, "NOVOICES") THEN @ \ voiced ELSE @]

h_chanserv_mode_simple(w) ==
  IF ~Active(w) THEN w ELSE [Expire(w) EXCEPT !.chan.mode = @ \cup w.reg.emode]

h_chanserv_mode_ban(w, banned) ==
  IF ~Active(w) THEN w
  ELSE [Expire(w) EXCEPT !.chan.bans = IF Flagged(w, "NOUSERBANS") THEN @ \ banned ELSE @]

\* Mutant: the timestamp is not saved.
LowerTsUnsaved(w) ==
  IF ~w.reg.on \/ w.reg.emode \subseteq w.chan.mode THEN w ELSE h_chanserv_mode_simple(w)

\* Mutant: nothing is enforced before the end of the burst.
LowerTsAfterBurst(w) ==
  IF ~w.reg.on THEN w
  ELSE LET v == [w EXCEPT !.reg.ts = IF Flagged(w, "AUTOJOIN") THEN w.chan.ts ELSE @]
       IN IF w.reg.emode \subseteq w.chan.mode \/ ~w.burst THEN v ELSE h_chanserv_mode_simple(v)

h_chanserv_sjoin_lowerts(w) ==
  IF ~w.reg.on THEN w
  ELSE LET v == [w EXCEPT !.reg.ts = IF Flagged(w, "AUTOJOIN") THEN w.chan.ts ELSE @]
       IN IF w.reg.emode \subseteq w.chan.mode THEN v
          ELSE IF ~w.burst /\ w.chan.serv THEN [v EXCEPT !.chan.mode = @ \cup w.reg.emode]
          ELSE h_chanserv_mode_simple(v)

\* Mutant: a temporary ban is no ban.
BansForPermanent(w, c) ==
  {i \in DOMAIN w.reg.bans : LET b == w.reg.bans[i] IN
     b.hold = "perm" /\ c \in Matches[b.mask] /\ Level(w, c) < b.level}

\* The places on the list, newest first, of the bans that keep a client out.
BansFor(w, c) ==
  {i \in DOMAIN w.reg.bans : LET b == w.reg.bans[i] IN
     b.hold # "over" /\ c \in Matches[b.mask] /\ Level(w, c) < b.level}

\* A member who is not banned: what they joined with is taken from them where the channel
\* forbids it, ChanServ joins where it should be, and they get what their access gives.
SettleMember(w, c) ==
  LET deop  == c \in w.chan.ops /\ ~OpAllowed(w, c)
      v     == IF deop THEN [InhabitForLast(w) EXCEPT !.chan.ops = @ \ {c}] ELSE w
      mute  == c \in v.chan.voiced /\ Flagged(w, "NOVOICES")
      here  == IF Flagged(v, "AUTOJOIN") /\ ~v.chan.serv THEN enable_inhabit(v, TRUE, TRUE) ELSE v
      opme  == Level(w, c) >= S_C_OP /\ c \in w.reg.autoop /\ ~Flagged(w, "NOOPS")
      voice == Level(w, c) > 0 /\ c \in w.reg.autovoice /\ ~Flagged(w, "NOVOICES")
  IN IF mute THEN [InhabitForLast(v) EXCEPT !.chan.voiced = @ \ {c}]
     ELSE IF c \in w.chan.ops THEN here
     ELSE IF opme THEN op_chmember(here, c)
     ELSE IF voice THEN [here EXCEPT !.chan.voiced = @ \cup {c}]
     ELSE here

JoinMember(w, c) ==
  IF BansFor(w, c) # {} /\ ~find_exempt(w, c)
  THEN KickMember(w, c, w.reg.bans[Min(BansFor(w, c))].mask)
  ELSE SettleMember(w, c)

JoinMembers(w, joined) ==
  LET after[i \in 0 .. Len(joined)] == IF i = 0 THEN w ELSE JoinMember(after[i - 1], joined[i])
  IN after[Len(joined)]

\* h_chanserv_join, for the members that joined in the order they are looked at.
h_chanserv_join(w, joined) ==
  IF joined = << >> \/ ~Active(w) THEN w ELSE JoinMembers(Expire(w), joined)

\* h_chanserv_user_login, for a client already on the channel.
h_chanserv_user_login(w, c) ==
  IF c \notin w.chan.users \/ ~Active(w) THEN w
  ELSE LET v == Expire(w) IN
       IF Level(w, c) = 0 \/ c \in v.chan.ops THEN v
       ELSE IF c \in w.reg.autoop /\ Level(w, c) >= S_C_OP /\ ~Flagged(w, "NOOPS")
       THEN op_chmember(v, c)
       ELSE IF c \in w.reg.autovoice /\ ~Flagged(w, "NOVOICES")
       THEN [v EXCEPT !.chan.voiced = @ \cup {c}]
       ELSE v
==============================================================================
