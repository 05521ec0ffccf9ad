--------------------------- MODULE ChanServProofs ---------------------------
(***************************************************************************)
(* ChanServ's hold on a registered channel, for any clients, accounts,     *)
(* masks, modes, options and timestamps.                                   *)
(*                                                                         *)
(* Every action ends with To(v) for a world v made from World, so that     *)
(* what is proved is about worlds: a world w before and a world v after.   *)
(***************************************************************************)
EXTENDS ChanServ, FiniteSetTheorems, TLAPS

\* How a leaf that names no prover is tried.
USE SMT, Zenon, SMTT(20)

Stamps == Times \cup {0}
Levels == 0 .. S_C_OWNER
Bans == [mask : Masks, level : Nat, hold : {"perm", "temp", "over"}]

Chans == [alive : BOOLEAN, ts : Stamps, mode : SUBSET Modes, users : SUBSET Clients,
          ops : SUBSET Clients, voiced : SUBSET Clients, deopped : SUBSET Clients, serv : BOOLEAN,
          bans : SUBSET Masks, excepts : SUBSET Masks]
Regs == [on : BOOLEAN, flags : SUBSET (Options \cup {"INHABIT"}), susp : {"no", "yes", "over"},
         ts : Stamps, emode : SUBSET Modes, level : [Clients -> Levels], autoop : SUBSET Clients,
         autovoice : SUBSET Clients, bans : Seq(Bans), bants : Nat]
Worlds == [chan : Chans, reg : Regs, cached : [Clients -> Nat], logged : SUBSET Clients,
           burst : BOOLEAN, misused : BOOLEAN]

\* A step to a world is a step of World to it.
LEMMA ToWorld ==
  ASSUME NEW w \in Worlds, To(w)
  PROVE  World' = w
<1>1. w = [chan |-> w.chan, reg |-> w.reg, cached |-> w.cached, logged |-> w.logged,
           burst |-> w.burst, misused |-> w.misused]
  BY DEF Worlds
<1> QED
  BY <1>1, Zenon DEF To, World

\* What the properties say of one world.
Shaped(w) == w.chan.alive <=> w.chan.users # {} \/ w.chan.serv
Present(w) == w.chan.serv => w.reg.on /\ (Flagged(w, "INHABIT") \/ Flagged(w, "AUTOJOIN"))
Stamped(w) == w.reg.on /\ Flagged(w, "AUTOJOIN") /\ w.chan.alive /\ w.chan.ts # 0 => w.reg.ts = w.chan.ts
Enforced(w) == w.reg.emode \subseteq w.chan.mode

\* What a hook that works through the members of a channel leaves alone: who may do
\* what on the channel, and the properties if they hold.
SameAccess(w, v) ==
  /\ v.reg.on = w.reg.on /\ v.reg.emode = w.reg.emode
  /\ v.reg.level = w.reg.level /\ v.logged = w.logged
  /\ \A f : f # "INHABIT" => (f \in v.reg.flags <=> f \in w.reg.flags)
SameRights(w, v) ==
  SameAccess(w, v) /\ v.reg.bans = w.reg.bans /\ v.chan.excepts = w.chan.excepts
Along(w, v) ==
  /\ v \in Worlds /\ SameRights(w, v)
  /\ w.chan.alive => v.chan.alive
  /\ v.misused => w.misused
  /\ Shaped(w) => Shaped(v)
  /\ Present(w) => Present(v)
  /\ Stamped(w) => Stamped(v)
  /\ Enforced(w) => Enforced(v)

\* ChanServ joins a channel that is there: nothing a hook relies on changes.
LEMMA InhabitAlong ==
  ASSUME NEW w \in Worlds, w.chan.alive, w.reg.on, NEW v,
         \/ v = enable_inhabit(w, TRUE, FALSE)
         \/ Flagged(w, "AUTOJOIN") /\ v = enable_inhabit(w, TRUE, TRUE)
         \/ Flagged(w, "AUTOJOIN") /\ v = enable_inhabit(w, FALSE, TRUE)
  PROVE  /\ Along(w, v) /\ v.chan.serv
         /\ v.chan.users = w.chan.users /\ v.chan.ops = w.chan.ops /\ v.chan.voiced = w.chan.voiced
         /\ v.chan.deopped = w.chan.deopped /\ v.chan.bans = w.chan.bans /\ v.cached = w.cached
         /\ v.misused = w.misused /\ v.burst = w.burst
<1> DEFINE R(r) == /\ r \in Worlds /\ r.chan = w.chan /\ r.cached = w.cached /\ r.logged = w.logged
                   /\ r.burst = w.burst /\ r.misused = w.misused
                   /\ r.reg.on = w.reg.on /\ r.reg.emode = w.reg.emode
                   /\ r.reg.level = w.reg.level /\ r.reg.bans = w.reg.bans
                   /\ \/ r.reg.flags = w.reg.flags /\ Flagged(w, "AUTOJOIN")
                      \/ r.reg.flags = w.reg.flags \cup {"INHABIT"}
                   /\ r.reg.ts \in {w.chan.ts, w.reg.ts}
<1>2. PICK r : R(r) /\ \E autojoin : v = join_service(r, autojoin)
  <2>1. CASE v = enable_inhabit(w, TRUE, FALSE)
    <3> DEFINE r == [w EXCEPT !.reg.flags = IF FALSE THEN @ ELSE @ \cup {"INHABIT"},
                              !.reg.ts = IF TRUE /\ w.chan.ts < @ THEN w.chan.ts ELSE @]
    <3>1. R(r)
      BY Zenon DEF Worlds, Chans, Regs
    <3>2. v = join_service(r, FALSE)
      BY <2>1, Zenon DEF enable_inhabit
    <3> QED
      BY <3>1, <3>2, Zenon
  <2>2. CASE Flagged(w, "AUTOJOIN") /\ v = enable_inhabit(w, TRUE, TRUE)
    <3> DEFINE r == [w EXCEPT !.reg.flags = IF TRUE THEN @ ELSE @ \cup {"INHABIT"},
                              !.reg.ts = IF TRUE /\ w.chan.ts < @ THEN w.chan.ts ELSE @]
    <3>1. R(r)
      BY <2>2, Zenon DEF Worlds, Chans, Regs
    <3>2. v = join_service(r, TRUE)
      BY <2>2, Zenon DEF enable_inhabit
    <3> QED
      BY <3>1, <3>2, Zenon
  <2>3. CASE Flagged(w, "AUTOJOIN") /\ v = enable_inhabit(w, FALSE, TRUE)
    <3> DEFINE r == [w EXCEPT !.reg.flags = IF TRUE THEN @ ELSE @ \cup {"INHABIT"},
                              !.reg.ts = IF FALSE /\ w.chan.ts < @ THEN w.chan.ts ELSE @]
    <3>1. R(r)
      BY <2>3, Zenon DEF Worlds, Chans, Regs
    <3>2. v = join_service(r, TRUE)
      BY <2>3, Zenon DEF enable_inhabit
    <3> QED
      BY <3>1, <3>2, Zenon
  <2> QED
    BY <2>1, <2>2, <2>3, Zenon
<1>1. R(r)
  BY <1>2
<1>3. /\ v \in Worlds /\ v.reg = r.reg /\ v.cached = r.cached /\ v.logged = r.logged
      /\ v.burst = r.burst /\ v.misused = r.misused
      /\ v.chan.serv /\ v.chan.alive /\ v.chan.excepts = r.chan.excepts
      /\ v.chan.users = r.chan.users /\ v.chan.ops = r.chan.ops /\ v.chan.voiced = r.chan.voiced
      /\ v.chan.deopped = r.chan.deopped /\ v.chan.bans = r.chan.bans
      /\ \/ v.chan.ts = r.chan.ts /\ v.chan.mode = r.chan.mode
         \/ v.chan.ts = r.reg.ts /\ v.chan.mode = r.reg.emode
  <2>5. PICK autojoin : v = join_service(r, autojoin)
    BY <1>2
  <2> DEFINE c == r.chan
             ch == IF ~c.serv /\ autojoin /\ r.reg.ts < c.ts
                   THEN [c EXCEPT !.ts = r.reg.ts, !.mode = r.reg.emode, !.serv = TRUE]
                   ELSE [c EXCEPT !.serv = TRUE]
  <2>1. v = [r EXCEPT !.chan = ch]
    BY <1>1, <2>5, Zenon DEF join_service
  <2>2. c \in Chans /\ r.reg.ts \in Stamps /\ r.reg.emode \in SUBSET Modes
    BY <1>1 DEF Worlds, Regs
  <2>3. /\ ch \in Chans /\ ch.serv /\ ch.alive = c.alive /\ ch.excepts = c.excepts
        /\ ch.users = c.users /\ ch.ops = c.ops /\ ch.voiced = c.voiced
        /\ ch.deopped = c.deopped /\ ch.bans = c.bans
        /\ \/ ch.ts = c.ts /\ ch.mode = c.mode
           \/ ch.ts = r.reg.ts /\ ch.mode = r.reg.emode
    BY <2>2, Zenon DEF Chans
  <2> HIDE DEF ch
  <2>4. /\ v \in Worlds /\ v.chan = ch /\ v.reg = r.reg /\ v.cached = r.cached /\ v.logged = r.logged
        /\ v.burst = r.burst /\ v.misused = r.misused
    BY <1>1, <2>1, <2>3 DEF Worlds
  <2> QED
    BY <1>1, <2>3, <2>4
<1>4. SameRights(w, v)
  <2>1. v.reg.flags = w.reg.flags \/ v.reg.flags = w.reg.flags \cup {"INHABIT"}
    BY <1>1, <1>3, Zenon
  <2>2. \A f : f # "INHABIT" => (f \in v.reg.flags <=> f \in w.reg.flags)
    BY <2>1
  <2> QED
    BY <1>1, <1>3, <2>2, Zenon DEF SameRights, SameAccess
<1>5. Present(v) /\ Shaped(v)
  BY <1>1, <1>3, Zenon DEF Present, Shaped, Flagged
<1>6. Stamped(w) => Stamped(v)
  BY <1>1, <1>3 DEF Stamped, Flagged
<1>7. Enforced(w) => Enforced(v)
  BY <1>1, <1>3 DEF Enforced
<1> QED
  BY <1>1, <1>3, <1>4, <1>5, <1>6, <1>7 DEF Along

\* Along is a preorder that contains every change of statuses, bans and caches.
LEMMA AlongSame ==
  ASSUME NEW w, NEW v \in Worlds, v.reg = w.reg, v.logged = w.logged, v.misused = w.misused,
         v.chan.alive = w.chan.alive, v.chan.users = w.chan.users, v.chan.serv = w.chan.serv,
         v.chan.ts = w.chan.ts, v.chan.mode = w.chan.mode, v.chan.excepts = w.chan.excepts
  PROVE  Along(w, v)
BY Zenon DEF Along, SameRights, SameAccess, Shaped, Present, Stamped, Enforced, Flagged

\* What holds along two parts of a hook holds along both.
LEMMA AlongTrans ==
  ASSUME NEW w, NEW v, NEW x, Along(w, v), Along(v, x)
  PROVE  Along(w, x)
<1>1. SameRights(w, x)
  BY Zenon DEF Along, SameRights, SameAccess
<1> QED
  BY <1>1, Zenon DEF Along

\* ChanServ is on a channel before its last user is removed from it.
LEMMA InhabitLastAlong ==
  ASSUME NEW w \in Worlds, w.chan.alive, w.reg.on, NEW v, v = InhabitForLast(w)
  PROVE  /\ Along(w, v)
         /\ v.chan.users = w.chan.users /\ v.chan.ops = w.chan.ops /\ v.chan.voiced = w.chan.voiced
         /\ v.misused = w.misused
         /\ \A c : w.chan.users = {c} => v.chan.serv
<1>1. CASE Cardinality(w.chan.users) = 1
  <2>1. v = enable_inhabit(w, TRUE, FALSE)
    BY <1>1, Zenon DEF InhabitForLast
  <2>2. /\ Along(w, v) /\ v.chan.serv
        /\ v.chan.users = w.chan.users /\ v.chan.ops = w.chan.ops /\ v.chan.voiced = w.chan.voiced
        /\ v.misused = w.misused
    BY <2>1, InhabitAlong, Zenon
  <2> QED
    BY <2>2, Zenon
<1>2. CASE Cardinality(w.chan.users) # 1
  <2>1. v = w
    BY <1>2, Zenon DEF InhabitForLast
  <2>2. \A c : w.chan.users # {c}
    BY <1>2, FS_Singleton, Zenon
  <2> QED
    BY <2>1, <2>2, AlongSame, Zenon
<1> QED
  BY <1>1, <1>2, Zenon

\* A member who is kicked is gone, and the channel is not freed.
LEMMA KickAlong ==
  ASSUME NEW w \in Worlds, w.chan.alive, w.reg.on, NEW c \in Clients, NEW mask \in Masks,
         NEW v, v = KickMember(w, c, mask)
  PROVE  /\ Along(w, v) /\ v.chan.users = w.chan.users \ {c} /\ v.chan.ops = w.chan.ops \ {c}
<1> DEFINE u == [w EXCEPT !.chan.ops = @ \ {c}, !.chan.bans = @ \cup {mask},
                          !.cached[c] = IF Level(w, c) > 0 THEN w.reg.bants ELSE @]
           i == InhabitForLast(u)
           k == del_chmember(i, c)
<1>1. /\ u \in Worlds /\ u.reg = w.reg /\ u.logged = w.logged /\ u.misused = w.misused
      /\ u.chan.alive = w.chan.alive /\ u.chan.users = w.chan.users /\ u.chan.serv = w.chan.serv
      /\ u.chan.ts = w.chan.ts /\ u.chan.mode = w.chan.mode /\ u.chan.excepts = w.chan.excepts
      /\ u.chan.ops = w.chan.ops \ {c}
  BY ZenonT(60) DEF Worlds, Chans, Regs
<1>2. v = [k EXCEPT !.misused = @ \/ ~k.chan.alive]
  BY Zenon DEF KickMember
<1> HIDE DEF u
<1>3. Along(w, u)
  BY <1>1, AlongSame, Zenon
<1>4. /\ Along(u, i) /\ i.chan.users = u.chan.users /\ i.chan.ops = u.chan.ops
      /\ \A x : u.chan.users = {x} => i.chan.serv
  BY <1>1, InhabitLastAlong, Zenon
<1>5. i \in Worlds /\ i.chan.alive
  BY <1>1, <1>4, Zenon DEF Along
<1> HIDE DEF i
<1>6. k = [i EXCEPT !.chan.users = @ \ {c}, !.chan.ops = @ \ {c}, !.chan.voiced = @ \ {c},
                    !.chan.deopped = @ \ {c}]
  BY <1>4, Zenon DEF del_chmember
<1> DEFINE ch == k.chan
<1> HIDE DEF k
<1>8. /\ k \in Worlds /\ k.reg = i.reg /\ k.logged = i.logged /\ k.misused = i.misused
      /\ ch.alive = i.chan.alive /\ ch.users = i.chan.users \ {c} /\ ch.serv = i.chan.serv
      /\ ch.ts = i.chan.ts /\ ch.mode = i.chan.mode /\ ch.excepts = i.chan.excepts
      /\ ch.ops = i.chan.ops \ {c}
  BY <1>5, <1>6, ZenonT(60) DEF Worlds, Chans
<1>7. ch.alive /\ k.chan = ch
  BY <1>5, <1>8
<1> HIDE DEF ch
<1>9. /\ v \in Worlds /\ v.chan = ch /\ v.reg = i.reg /\ v.logged = i.logged /\ v.misused = i.misused
  BY <1>2, <1>7, <1>8 DEF Worlds
<1>10. Shaped(i) => Shaped(v)
  <2>1. i.chan.users = {c} => i.chan.serv
    BY <1>4, Zenon
  <2>2. Shaped(i) => i.chan.users \ {c} # {} \/ i.chan.serv
    BY <1>5, <2>1, Zenon DEF Shaped
  <2> QED
    BY <1>5, <1>7, <1>8, <1>9, <2>2, Zenon DEF Shaped
<1>11. SameRights(i, v) /\ v.chan.alive
  BY <1>5, <1>7, <1>8, <1>9, Zenon DEF SameRights, SameAccess
<1>12. Present(i) => Present(v)
  BY <1>7, <1>8, <1>9, Zenon DEF Present, Flagged
<1>13. Stamped(i) => Stamped(v)
  BY <1>7, <1>8, <1>9, Zenon DEF Stamped, Flagged
<1>14. Enforced(i) => Enforced(v)
  BY <1>7, <1>8, <1>9, Zenon DEF Enforced
<1>15. Along(i, v)
  BY <1>9, <1>10, <1>11, <1>12, <1>13, <1>14, Zenon DEF Along
<1>16. Along(w, v)
  BY <1>3, <1>4, <1>15, AlongTrans, Zenon
<1>17. v.chan.users = w.chan.users \ {c}
  BY <1>1, <1>4, <1>8, <1>9, Zenon
<1>18. v.chan.ops = w.chan.ops \ {c}
  BY <1>1, <1>4, <1>8, <1>9
<1> QED
  BY <1>16, <1>17, <1>18
Deopped(w, c) == [w EXCEPT !.chan.ops = @ \ {c}]

\* A status that is given or taken changes nothing else.
LEMMA StatusAlong ==
  ASSUME NEW w \in Worlds, NEW c \in Clients, NEW v,
         \/ v = Deopped(w, c) \/ v = op_chmember(w, c)
         \/ v = [w EXCEPT !.chan.voiced = @ \ {c}] \/ v = [w EXCEPT !.chan.voiced = @ \cup {c}]
  PROVE  /\ Along(w, v) /\ v.chan.users = w.chan.users /\ v.reg = w.reg
         /\ \A x : x # c => (x \in v.chan.ops <=> x \in w.chan.ops)
<1>1. /\ v \in Worlds /\ v.reg = w.reg /\ v.logged = w.logged /\ v.misused = w.misused
      /\ v.chan.alive = w.chan.alive /\ v.chan.users = w.chan.users /\ v.chan.serv = w.chan.serv
      /\ v.chan.ts = w.chan.ts /\ v.chan.mode = w.chan.mode /\ v.chan.excepts = w.chan.excepts
      /\ \/ v.chan.ops = w.chan.ops \/ v.chan.ops = w.chan.ops \ {c} \/ v.chan.ops = w.chan.ops \cup {c}
  <2>1. CASE v = Deopped(w, c)
    BY <2>1, SMTT(60) DEF Worlds, Chans, Deopped
  <2>2. CASE v = op_chmember(w, c)
    BY <2>2, Zenon DEF Worlds, Chans, op_chmember
  <2>3. CASE v = [w EXCEPT !.chan.voiced = @ \ {c}]
    BY <2>3, SMTT(60) DEF Worlds, Chans
  <2>4. CASE v = [w EXCEPT !.chan.voiced = @ \cup {c}]
    BY <2>4, SMTT(60) DEF Worlds, Chans
  <2> QED
    BY <2>1, <2>2, <2>3, <2>4, Zenon
<1>2. \A x : x # c => (x \in v.chan.ops <=> x \in w.chan.ops)
  BY <1>1
<1>3. Along(w, v)
  BY <1>1, AlongSame, Zenon
<1> QED
  BY <1>1, <1>2, <1>3

\* The rights of a client are read off what Along leaves alone.
LEMMA AccessKept ==
  ASSUME NEW w, NEW v, SameAccess(w, v), NEW c
  PROVE  Level(v, c) = Level(w, c) /\ (OpAllowed(v, c) <=> OpAllowed(w, c))
<1>1. Level(v, c) = Level(w, c)
  BY Zenon DEF SameAccess, Level
<1>2. Flagged(v, "NOOPS") <=> Flagged(w, "NOOPS")
  BY DEF SameAccess, Flagged
<1>3. Flagged(v, "RESTRICTOPS") <=> Flagged(w, "RESTRICTOPS")
  BY DEF SameAccess, Flagged
<1>4. OpAllowed(v, c) <=> OpAllowed(w, c)
  BY <1>1, <1>2, <1>3, Zenon DEF OpAllowed
<1> QED
  BY <1>1, <1>4

\* So do the bans that keep a client out and the exceptions from them.
LEMMA RightsKept ==
  ASSUME NEW w, NEW v, SameRights(w, v), NEW c
  PROVE  /\ Level(v, c) = Level(w, c) /\ (OpAllowed(v, c) <=> OpAllowed(w, c))
         /\ (find_exempt(v, c) <=> find_exempt(w, c)) /\ BansFor(v, c) = BansFor(w, c)
<1>1. Level(v, c) = Level(w, c)
  BY AccessKept, Zenon DEF SameRights
<1>4. OpAllowed(v, c) <=> OpAllowed(w, c)
  BY AccessKept, Zenon DEF SameRights
<1>5. find_exempt(v, c) <=> find_exempt(w, c)
  BY Zenon DEF find_exempt, SameRights
<1>6. v.reg.bans = w.reg.bans
  BY DEF SameRights
<1>7. BansFor(v, c) = BansFor(w, c)
  BY <1>1, <1>6, Zenon DEF BansFor
<1> QED
  BY <1>1, <1>4, <1>5, <1>7

\* A member who is not banned stays, with operator status only if it is allowed.
LEMMA SettleAlong ==
  ASSUME NEW w \in Worlds, w.chan.alive, w.reg.on, NEW c \in Clients, NEW v, v = SettleMember(w, c)
  PROVE  /\ Along(w, v) /\ v.chan.users = w.chan.users
         /\ \A x : x # c => (x \in v.chan.ops <=> x \in w.chan.ops)
         /\ c \in v.chan.ops => OpAllowed(w, c)
<1> DEFINE deop  == c \in w.chan.ops /\ ~OpAllowed(w, c)
           u     == IF deop THEN [InhabitForLast(w) EXCEPT !.chan.ops = @ \ {c}] ELSE w
           here  == IF Flagged(u, "AUTOJOIN") /\ ~u.chan.serv THEN enable_inhabit(u, TRUE, TRUE) ELSE u
           opme  == Level(w, c) >= S_C_OP /\ c \in w.reg.autoop /\ ~Flagged(w, "NOOPS")
           Kept(a, b) == /\ Along(a, b) /\ b.chan.users = a.chan.users
                         /\ \A x : x # c => (x \in b.chan.ops <=> x \in a.chan.ops)
<1>1. Kept(w, u) /\ u \in Worlds /\ (c \in u.chan.ops => c \in w.chan.ops /\ OpAllowed(w, c))
  <2>1. CASE deop
    <3> DEFINE i == InhabitForLast(w)
    <3>1. Along(w, i) /\ i \in Worlds /\ i.chan.users = w.chan.users /\ i.chan.ops = w.chan.ops
      BY InhabitLastAlong, Zenon DEF Along
    <3> HIDE DEF i
    <3>2. u = Deopped(i, c)
      BY <2>1, Zenon DEF i, Deopped
    <3> HIDE DEF u
    <3>3. Kept(i, u)
      BY <3>1, <3>2, StatusAlong, ZenonT(60)
    <3>6. i \in Worlds
      BY <3>1
    <3>4. c \notin u.chan.ops
      BY <3>2, <3>6 DEF Worlds, Chans, Deopped
    <3>5. Along(w, u)
      BY <3>1, <3>3, AlongTrans, Zenon
    <3> QED
      BY <3>1, <3>3, <3>4, <3>5, Zenon DEF Along
  <2>2. CASE ~deop
    <3>1. u = w
      BY <2>2, Zenon
    <3> HIDE DEF u
    <3>2. Along(w, u)
      BY <3>1, AlongSame, Zenon
    <3> QED
      BY <2>2, <3>1, <3>2, Zenon
  <2> QED
    BY <2>1, <2>2, Zenon
<1>2. v = IF c \in u.chan.voiced /\ Flagged(w, "NOVOICES")
          THEN [InhabitForLast(u) EXCEPT !.chan.voiced = @ \ {c}]
          ELSE IF c \in w.chan.ops THEN here
          ELSE IF opme THEN op_chmember(here, c)
          ELSE IF Level(w, c) > 0 /\ c \in w.reg.autovoice /\ ~Flagged(w, "NOVOICES")
          THEN [here EXCEPT !.chan.voiced = @ \cup {c}]
          ELSE here
  BY Zenon DEF SettleMember
<1> HIDE DEF u
<1>3. u.chan.alive /\ u.reg.on
  BY <1>1, Zenon DEF Along, SameRights, SameAccess
<1>4. Kept(u, here) /\ here \in Worlds /\ here.chan.ops = u.chan.ops
  <2>1. CASE Flagged(u, "AUTOJOIN") /\ ~u.chan.serv
    <3>1. here = enable_inhabit(u, TRUE, TRUE)
      BY <2>1, Zenon
    <3> HIDE DEF here
    <3>2. Along(u, here) /\ here.chan.users = u.chan.users /\ here.chan.ops = u.chan.ops
      BY <1>1, <1>3, <2>1, <3>1, InhabitAlong, Zenon
    <3> QED
      BY <3>2, Zenon DEF Along
  <2>2. CASE ~(Flagged(u, "AUTOJOIN") /\ ~u.chan.serv)
    <3>1. here = u
      BY <2>2, Zenon
    <3> HIDE DEF here
    <3>2. Along(u, here)
      BY <1>1, <3>1, AlongSame, Zenon
    <3> QED
      BY <1>1, <3>1, <3>2, Zenon
  <2> QED
    BY <2>1, <2>2, Zenon
<1> HIDE DEF here
<1>5. ASSUME NEW h \in Worlds, Kept(u, h), Kept(h, v), c \in v.chan.ops => OpAllowed(w, c)
      PROVE  Kept(w, v) /\ (c \in v.chan.ops => OpAllowed(w, c))
  <2>1. Along(w, v)
    BY <1>1, <1>5, AlongTrans, Zenon
  <2> QED
    BY <1>1, <1>5, <2>1, Zenon
<1>6. CASE c \in u.chan.voiced /\ Flagged(w, "NOVOICES")
  <2> DEFINE i == InhabitForLast(u)
  <2>1. Along(u, i) /\ i \in Worlds /\ i.chan.users = u.chan.users /\ i.chan.ops = u.chan.ops
    BY <1>1, <1>3, InhabitLastAlong, Zenon DEF Along
  <2>2. v = [i EXCEPT !.chan.voiced = @ \ {c}]
    BY <1>2, <1>6, Zenon
  <2> HIDE DEF i
  <2>3. Kept(i, v)
    BY <2>1, <2>2, StatusAlong, Zenon
  <2>6. i \in Worlds
    BY <2>1
  <2>4. v.chan.ops = i.chan.ops
    BY <2>2, <2>6 DEF Worlds, Chans
  <2>5. Kept(u, i)
    BY <2>1, Zenon
  <2> HIDE DEF Kept
  <2> QED
    BY <1>1, <1>5, <2>1, <2>3, <2>4, <2>5, Zenon DEF Kept
<1>7. CASE ~(c \in u.chan.voiced /\ Flagged(w, "NOVOICES"))
  <2>1. CASE v = here
    <3>1. Kept(here, v)
      BY <1>4, <2>1, AlongSame, Zenon
    <3> QED
      BY <1>1, <1>4, <1>5, <2>1, <3>1, Zenon
  <2>2. CASE opme /\ v = op_chmember(here, c)
    <3>1. Kept(here, v)
      BY <1>4, <2>2, StatusAlong, ZenonT(60)
    <3>2. OpAllowed(w, c)
      BY <2>2, Zenon DEF OpAllowed
    <3> QED
      BY <1>4, <1>5, <3>1, <3>2, Zenon
  <2>3. CASE v = [here EXCEPT !.chan.voiced = @ \cup {c}]
    <3>1. Kept(here, v)
      BY <1>4, <2>3, StatusAlong, ZenonT(60)
    <3>2. v.chan.ops = here.chan.ops
      BY <1>4, <2>3 DEF Worlds, Chans
    <3> QED
      BY <1>1, <1>4, <1>5, <3>1, <3>2, Zenon
  <2> HIDE DEF opme
  <2> QED
    BY <1>2, <1>7, <2>1, <2>2, <2>3, Zenon
<1> QED
  BY <1>6, <1>7, <1>5, Zenon

\* Sets of natural numbers have a least element.
LEMMA LeastNat ==
  ASSUME NEW S \in SUBSET Nat, S # {}
  PROVE  \E n \in S : \A m \in S : n <= m
<1>1. PICK n \in S : \A m \in S : ~ (<<m, n>> \in OpToRel(<, Nat))
  BY NatLessThanWellFounded, WFMin, Zenon
<1>2. \A m \in S : ~ (m < n)
  BY <1>1, Zenon DEF OpToRel
<1> QED
  BY <1>2

\* Induction up to n: a set with 0, and with i whenever it has i - 1.
LEMMA UpTo ==
  ASSUME NEW n \in Nat, NEW S, 0 \in S, \A i \in 1 .. n : i - 1 \in S => i \in S
  PROVE  \A i \in 0 .. n : i \in S
<1> DEFINE Out == {i \in 0 .. n : i \notin S}
<1> SUFFICES ASSUME Out # {} PROVE FALSE
  OBVIOUS
<1>0. Out \in SUBSET Nat
  OBVIOUS
<1>1. PICK i \in Out : \A j \in Out : i <= j
  BY <1>0, LeastNat, Zenon
<1>2. i \in 1 .. n /\ i - 1 \in 0 .. n
  BY <1>1
<1>3. i - 1 \in S
  BY <1>1, <1>2
<1> QED
  BY <1>2, <1>3

\* The stages of the recursive functions: those of JoinMembers.
JoinStages(g, w, rows, n) ==
  g = [i \in 0 .. n |-> IF i = 0 THEN w ELSE JoinMember(g[i - 1], rows[i])]

\* JoinMembers is the last of its stages.
LEMMA JoinedStages ==
  ASSUME NEW rows, Len(rows) \in Nat, NEW w
  PROVE  \E g : JoinStages(g, w, rows, Len(rows)) /\ JoinMembers(w, rows) = g[Len(rows)]
<1> DEFINE T == {n \in Nat : \E g : JoinStages(g, w, rows, n)}
<1>1. 0 \in T
  <2> DEFINE g == [i \in 0 .. 0 |-> w]
  <2>1. JoinStages(g, w, rows, 0)
    BY DEF JoinStages
  <2> QED
    BY <2>1
<1>2. ASSUME NEW n \in 1 .. Len(rows), n - 1 \in T PROVE n \in T
  <2>1. n - 1 \in Nat /\ n # 0 /\ n \in Nat
    OBVIOUS
  <2>2. PICK g : JoinStages(g, w, rows, n - 1)
    BY <1>2
  <2> DEFINE last == JoinMember(g[n - 1], rows[n])
             h == [i \in 0 .. n |-> IF i = n THEN last ELSE g[i]]
  <2>3. \A i \in 0 .. n : h[i] = IF i = 0 THEN w ELSE JoinMember(h[i - 1], rows[i])
    <3> TAKE i \in 0 .. n
    <3>1. CASE i = n
      BY <2>1, <3>1
    <3>2. CASE i # n
      <4>1. i \in 0 .. n - 1 /\ h[i] = g[i] /\ (i # 0 => h[i - 1] = g[i - 1])
        BY <2>1, <3>2
      <4> HIDE DEF h, last
      <4> QED
        BY <2>2, <4>1 DEF JoinStages
    <3> QED
      BY <3>1, <3>2
  <2>4. h = [i \in 0 .. n |-> h[i]]
    OBVIOUS
  <2> HIDE DEF h, last
  <2>5. JoinStages(h, w, rows, n)
    BY <2>3, <2>4, Zenon DEF JoinStages
  <2> QED
    BY <2>1, <2>5
<1> HIDE DEF T
<1>3. \A i \in 0 .. Len(rows) : i \in T
  BY <1>1, <1>2, UpTo, Zenon
<1>4. \E g : JoinStages(g, w, rows, Len(rows))
  BY <1>3 DEF T
<1> DEFINE g == CHOOSE f : JoinStages(f, w, rows, Len(rows))
<1>5. JoinStages(g, w, rows, Len(rows))
  BY <1>4
<1>6. JoinMembers(w, rows) = g[Len(rows)]
  BY DEF JoinMembers, JoinStages
<1> QED
  BY <1>5, <1>6, Zenon

\* Those of KickMembers.
KickStages(g, w, rows, mask, n) ==
  g = [i \in 0 .. n |-> IF i = 0 THEN w ELSE KickMember(g[i - 1], rows[i], mask)]

\* KickMembers is the last of its stages.
LEMMA KickedStages ==
  ASSUME NEW rows, Len(rows) \in Nat, NEW w, NEW mask
  PROVE  \E g : KickStages(g, w, rows, mask, Len(rows)) /\ KickMembers(w, rows, mask) = g[Len(rows)]
<1> DEFINE T == {n \in Nat : \E g : KickStages(g, w, rows, mask, n)}
<1>1. 0 \in T
  <2> DEFINE g == [i \in 0 .. 0 |-> w]
  <2>1. KickStages(g, w, rows, mask, 0)
    BY DEF KickStages
  <2> QED
    BY <2>1
<1>2. ASSUME NEW n \in 1 .. Len(rows), n - 1 \in T PROVE n \in T
  <2>1. n - 1 \in Nat /\ n # 0 /\ n \in Nat
    OBVIOUS
  <2>2. PICK g : KickStages(g, w, rows, mask, n - 1)
    BY <1>2
  <2> DEFINE last == KickMember(g[n - 1], rows[n], mask)
             h == [i \in 0 .. n |-> IF i = n THEN last ELSE g[i]]
  <2>3. \A i \in 0 .. n : h[i] = IF i = 0 THEN w ELSE KickMember(h[i - 1], rows[i], mask)
    <3> TAKE i \in 0 .. n
    <3>1. CASE i = n
      BY <2>1, <3>1
    <3>2. CASE i # n
      <4>1. i \in 0 .. n - 1 /\ h[i] = g[i] /\ (i # 0 => h[i - 1] = g[i - 1])
        BY <2>1, <3>2
      <4> HIDE DEF h, last
      <4> QED
        BY <2>2, <4>1 DEF KickStages
    <3> QED
      BY <3>1, <3>2
  <2>4. h = [i \in 0 .. n |-> h[i]]
    OBVIOUS
  <2> HIDE DEF h, last
  <2>5. KickStages(h, w, rows, mask, n)
    BY <2>3, <2>4, Zenon DEF KickStages
  <2> QED
    BY <2>1, <2>5
<1> HIDE DEF T
<1>3. \A i \in 0 .. Len(rows) : i \in T
  BY <1>1, <1>2, UpTo, Zenon
<1>4. \E g : KickStages(g, w, rows, mask, Len(rows))
  BY <1>3 DEF T
<1> DEFINE g == CHOOSE f : KickStages(f, w, rows, mask, Len(rows))
<1>5. KickStages(g, w, rows, mask, Len(rows))
  BY <1>4
<1>6. KickMembers(w, rows, mask) = g[Len(rows)]
  BY DEF KickMembers, KickStages
<1> QED
  BY <1>5, <1>6, Zenon

\* Those of Without.
KeptStages(g, rows, gone, n) ==
  g = [i \in 0 .. n |-> IF i = 0 THEN << >> ELSE (IF i \in gone THEN g[i - 1] ELSE Append(g[i - 1], rows[i]))]

\* Without is the last of its stages.
LEMMA WithoutStages ==
  ASSUME NEW rows, Len(rows) \in Nat, NEW gone
  PROVE  \E g : KeptStages(g, rows, gone, Len(rows)) /\ Without(rows, gone) = g[Len(rows)]
<1> DEFINE T == {n \in Nat : \E g : KeptStages(g, rows, gone, n)}
<1>1. 0 \in T
  <2> DEFINE g == [i \in 0 .. 0 |-> << >>]
  <2>1. KeptStages(g, rows, gone, 0)
    BY DEF KeptStages
  <2> QED
    BY <2>1
<1>2. ASSUME NEW n \in 1 .. Len(rows), n - 1 \in T PROVE n \in T
  <2>1. n - 1 \in Nat /\ n # 0 /\ n \in Nat
    OBVIOUS
  <2>2. PICK g : KeptStages(g, rows, gone, n - 1)
    BY <1>2
  <2> DEFINE last == (IF n \in gone THEN g[n - 1] ELSE Append(g[n - 1], rows[n]))
             h == [i \in 0 .. n |-> IF i = n THEN last ELSE g[i]]
  <2>3. \A i \in 0 .. n : h[i] = IF i = 0 THEN << >> ELSE (IF i \in gone THEN h[i - 1] ELSE Append(h[i - 1], rows[i]))
    <3> TAKE i \in 0 .. n
    <3>1. CASE i = n
      BY <2>1, <3>1
    <3>2. CASE i # n
      <4>1. i \in 0 .. n - 1 /\ h[i] = g[i] /\ (i # 0 => h[i - 1] = g[i - 1])
        BY <2>1, <3>2
      <4> HIDE DEF h, last
      <4> QED
        BY <2>2, <4>1, Zenon DEF KeptStages
    <3> QED
      BY <3>1, <3>2
  <2>4. h = [i \in 0 .. n |-> h[i]]
    OBVIOUS
  <2> HIDE DEF h, last
  <2>5. KeptStages(h, rows, gone, n)
    BY <2>3, <2>4 DEF KeptStages
  <2> QED
    BY <2>1, <2>5
<1> HIDE DEF T
<1>3. \A i \in 0 .. Len(rows) : i \in T
  BY <1>1, <1>2, UpTo, Zenon
<1>4. \E g : KeptStages(g, rows, gone, Len(rows))
  BY <1>3 DEF T
<1> DEFINE g == CHOOSE f : KeptStages(f, rows, gone, Len(rows))
<1>5. KeptStages(g, rows, gone, Len(rows))
  BY <1>4
<1>6. Without(rows, gone) = g[Len(rows)]
  BY DEF Without, KeptStages
<1> QED
  BY <1>5, <1>6, Zenon

\* What is left of a sequence is a sequence of the same things.
LEMMA WithoutType ==
  ASSUME NEW S, NEW rows \in Seq(S), NEW gone
  PROVE  Without(rows, gone) \in Seq(S)
<1>1. Len(rows) \in Nat
  OBVIOUS
<1>2. PICK g : KeptStages(g, rows, gone, Len(rows)) /\ Without(rows, gone) = g[Len(rows)]
  BY <1>1, WithoutStages
<1>3. \A i \in 0 .. Len(rows) : g[i] = IF i = 0 THEN << >>
                                       ELSE IF i \in gone THEN g[i - 1] ELSE Append(g[i - 1], rows[i])
  BY <1>2, Zenon DEF KeptStages
<1> DEFINE T == {i \in 0 .. Len(rows) : g[i] \in Seq(S)}
<1>4. 0 \in T
  <2>1. 0 \in 0 .. Len(rows)
    BY <1>1
  <2>2. g[0] = << >>
    BY <1>3, <2>1, Zenon
  <2>3. << >> \in Seq(S)
    OBVIOUS
  <2> QED
    BY <2>1, <2>2, <2>3, Zenon
<1>5. ASSUME NEW i \in 1 .. Len(rows), i - 1 \in T PROVE i \in T
  <2>1. i \in 0 .. Len(rows) /\ i # 0 /\ g[i - 1] \in Seq(S) /\ rows[i] \in S
    BY <1>5
  <2>2. g[i] = g[i - 1] \/ g[i] = Append(g[i - 1], rows[i])
    BY <1>3, <2>1, Zenon
  <2> DEFINE q == g[i - 1]
  <2>3. q \in Seq(S) /\ rows[i] \in S
    BY <2>1
  <2> HIDE DEF q
  <2>4. Append(q, rows[i]) \in Seq(S)
    BY <2>3
  <2>5. g[i] \in Seq(S)
    BY <2>2, <2>3, <2>4, Zenon DEF q
  <2> QED
    BY <2>1, <2>5, Zenon
<1> HIDE DEF T
<1>6. \A i \in 0 .. Len(rows) : i \in T
  BY <1>1, <1>4, <1>5, UpTo, Zenon
<1> QED
  BY <1>1, <1>2, <1>6 DEF T

\* A ban keeps the client out, and no exception lets it in.
Barred(w, c) == BansFor(w, c) # {} /\ ~find_exempt(w, c)

\* One member that joins: kicked if barred, or settled.
LEMMA JoinAlong ==
  ASSUME NEW w \in Worlds, w.chan.alive, w.reg.on, NEW c \in Clients, NEW v, v = JoinMember(w, c)
  PROVE  /\ Along(w, v) /\ v.chan.users \subseteq w.chan.users
         /\ c \in v.chan.users => ~Barred(w, c)
         /\ \A x \in v.chan.ops : x # c => x \in w.chan.ops
         /\ c \in v.chan.ops => OpAllowed(w, c)
<1>1. CASE Barred(w, c)
  <2> DEFINE B == BansFor(w, c)
             m == w.reg.bans[Min(B)].mask
  <2>1. w.reg.bans \in Seq(Bans)
    BY DEF Worlds, Regs
  <2>2. B \in SUBSET Nat /\ B \subseteq DOMAIN w.reg.bans /\ B # {}
    BY <1>1, <2>1 DEF BansFor, Barred
  <2> HIDE DEF B
  <2>3. \E n \in B : \A k \in B : n <= k
    BY <2>2, LeastNat, Zenon
  <2>4. Min(B) \in B
    BY <2>3, Zenon DEF Min
  <2>5. w.reg.bans[Min(B)] \in Bans
    <3>1. PICK bs \in Seq(Bans) : bs = w.reg.bans
      BY <2>1, Zenon
    <3>2. PICK k \in DOMAIN bs : k = Min(B)
      BY <2>2, <2>4, <3>1, Zenon
    <3>3. bs[k] \in Bans
      BY <3>1, <3>2
    <3> QED
      BY <3>1, <3>2, <3>3, Zenon
  <2>6. m \in Masks
    BY <2>5 DEF Bans
  <2>7. v = KickMember(w, c, m)
    BY <1>1, Zenon DEF JoinMember, Barred, B
  <2> HIDE DEF m
  <2>8. Along(w, v) /\ v.chan.users = w.chan.users \ {c} /\ v.chan.ops = w.chan.ops \ {c}
    BY <2>6, <2>7, KickAlong
  <2> QED
    BY <2>8, Zenon
<1>2. CASE ~Barred(w, c)
  <2>1. v = SettleMember(w, c)
    BY <1>2, Zenon DEF JoinMember, Barred
  <2>2. /\ Along(w, v) /\ v.chan.users = w.chan.users
        /\ \A x : x # c => (x \in v.chan.ops <=> x \in w.chan.ops)
        /\ c \in v.chan.ops => OpAllowed(w, c)
    BY <2>1, SettleAlong, Zenon
  <2> QED
    BY <1>2, <2>2, Zenon
<1> QED
  BY <1>1, <1>2, Zenon

\* The world x after the first i of those who joined world w.
Looked(w, x, joined, i) ==
  /\ Along(w, x) /\ x.chan.users \subseteq w.chan.users
  /\ \A c \in x.chan.ops : c \in w.chan.ops \/ OpAllowed(w, c)
  /\ \A j \in 1 .. i : /\ joined[j] \in x.chan.users => ~Barred(w, joined[j])
                       /\ joined[j] \in x.chan.ops => OpAllowed(w, joined[j])

\* h_chanserv_join looks at every member that joined.
LEMMA JoinsAlong ==
  ASSUME NEW w \in Worlds, w.chan.alive, w.reg.on, NEW joined \in Seq(Clients)
  PROVE  Looked(w, JoinMembers(w, joined), joined, Len(joined))
<1>1. Len(joined) \in Nat
  OBVIOUS
<1>2. PICK g : JoinStages(g, w, joined, Len(joined)) /\ JoinMembers(w, joined) = g[Len(joined)]
  BY <1>1, JoinedStages
<1>3. \A i \in 0 .. Len(joined) : g[i] = IF i = 0 THEN w ELSE JoinMember(g[i - 1], joined[i])
  BY <1>2 DEF JoinStages
<1> DEFINE T == {i \in 0 .. Len(joined) : Looked(w, g[i], joined, i)}
<1>4. 0 \in T
  <2>1. g[0] = w /\ 0 \in 0 .. Len(joined) /\ 1 .. 0 = {}
    BY <1>1, <1>3
  <2>2. Along(w, w)
    BY AlongSame, Zenon
  <2>3. Looked(w, w, joined, 0)
    BY <2>1, <2>2, Zenon DEF Looked
  <2> QED
    BY <2>1, <2>3
<1>5. ASSUME NEW i \in 1 .. Len(joined), i - 1 \in T PROVE i \in T
  <2> DEFINE x == g[i - 1]
             y == g[i]
             c == joined[i]
  <2>1. i \in 0 .. Len(joined) /\ i # 0 /\ c \in Clients /\ Looked(w, x, joined, i - 1)
    BY <1>5
  <2>2. y = JoinMember(x, c)
    BY <1>3, <2>1, Zenon
  <2> HIDE DEF x, y
  <2>3. Along(w, x) /\ x \in Worlds /\ x.chan.alive /\ x.reg.on /\ SameRights(w, x)
    BY <2>1, Zenon DEF Looked, Along, SameRights, SameAccess
  <2>4. /\ Along(x, y) /\ y.chan.users \subseteq x.chan.users
        /\ c \in y.chan.users => ~Barred(x, c)
        /\ \A z \in y.chan.ops : z # c => z \in x.chan.ops
        /\ c \in y.chan.ops => OpAllowed(x, c)
    BY <2>1, <2>2, <2>3, JoinAlong, Zenon
  <2>5. Along(w, y)
    BY <2>3, <2>4, AlongTrans, Zenon
  <2>6. (OpAllowed(x, c) <=> OpAllowed(w, c)) /\ (Barred(x, c) <=> Barred(w, c))
    BY <2>3, RightsKept, Zenon DEF Barred
  <2>7. \A j \in 1 .. i : j \in 1 .. i - 1 \/ j = i
    BY <2>1
  <2>8. ASSUME NEW j \in 1 .. i
        PROVE  /\ joined[j] \in y.chan.users => ~Barred(w, joined[j])
               /\ joined[j] \in y.chan.ops => OpAllowed(w, joined[j])
    <3>1. CASE joined[j] = c
      BY <2>4, <2>6, <3>1, Zenon
    <3>2. CASE joined[j] # c
      <4>1. j \in 1 .. i - 1
        BY <2>7, <3>2, Zenon
      <4> QED
        BY <2>1, <2>4, <3>2, <4>1, Zenon DEF Looked
    <3> QED
      BY <3>1, <3>2
  <2>9. \A z \in y.chan.ops : z \in w.chan.ops \/ OpAllowed(w, z)
    BY <2>1, <2>4, <2>6, Zenon DEF Looked
  <2>10. y.chan.users \subseteq w.chan.users
    BY <2>1, <2>4, Zenon DEF Looked
  <2>11. Looked(w, y, joined, i)
    BY <2>5, <2>8, <2>9, <2>10, Zenon DEF Looked
  <2> QED
    BY <2>1, <2>11 DEF y
<1> HIDE DEF T
<1>6. \A i \in 0 .. Len(joined) : i \in T
  BY <1>1, <1>4, <1>5, UpTo, Zenon
<1> QED
  BY <1>1, <1>2, <1>6 DEF T

\* ADDBAN's kicks.
LEMMA KicksAlong ==
  ASSUME NEW w \in Worlds, w.chan.alive, w.reg.on, NEW hits \in Seq(Clients), NEW mask \in Masks,
         NEW v, v = KickMembers(w, hits, mask)
  PROVE  Along(w, v) /\ v.chan.users \subseteq w.chan.users /\ v.chan.ops \subseteq w.chan.ops
<1>1. Len(hits) \in Nat
  OBVIOUS
<1>2. PICK g : KickStages(g, w, hits, mask, Len(hits)) /\ v = g[Len(hits)]
  BY <1>1, KickedStages
<1>3. \A i \in 0 .. Len(hits) : g[i] = IF i = 0 THEN w ELSE KickMember(g[i - 1], hits[i], mask)
  BY <1>2 DEF KickStages
<1> DEFINE Less(x) == Along(w, x) /\ x.chan.users \subseteq w.chan.users /\ x.chan.ops \subseteq w.chan.ops
           T == {i \in 0 .. Len(hits) : Less(g[i])}
<1>4. 0 \in T
  <2>1. g[0] = w /\ 0 \in 0 .. Len(hits)
    BY <1>1, <1>3
  <2>2. Along(w, w)
    BY AlongSame, Zenon
  <2> QED
    BY <2>1, <2>2, Zenon
<1>5. ASSUME NEW i \in 1 .. Len(hits), i - 1 \in T PROVE i \in T
  <2> DEFINE x == g[i - 1]
             y == g[i]
             c == hits[i]
  <2>1. i \in 0 .. Len(hits) /\ i # 0 /\ c \in Clients /\ Less(x)
    BY <1>5
  <2>2. y = KickMember(x, c, mask)
    BY <1>3, <2>1, Zenon
  <2> HIDE DEF x, y, c
  <2>3. x \in Worlds /\ x.chan.alive /\ x.reg.on
    BY <2>1, Zenon DEF Along, SameRights, SameAccess
  <2>4. Along(x, y) /\ y.chan.users = x.chan.users \ {c} /\ y.chan.ops = x.chan.ops \ {c}
    BY <2>1, <2>2, <2>3, KickAlong
  <2>5. Along(w, y)
    BY <2>1, <2>4, AlongTrans, Zenon
  <2>6. Less(y)
    BY <2>1, <2>4, <2>5, Zenon
  <2> HIDE DEF Less
  <2> QED
    BY <2>1, <2>6, Zenon DEF y
<1> HIDE DEF T
<1>6. \A i \in 0 .. Len(hits) : i \in T
  BY <1>1, <1>4, <1>5, UpTo, Zenon
<1> QED
  BY <1>1, <1>2, <1>6 DEF T

\* A suspension that is over is lifted, and nothing else happens.
LEMMA ExpireAlong ==
  ASSUME NEW w \in Worlds
  PROVE  /\ Along(w, Expire(w)) /\ Expire(w).chan = w.chan /\ Expire(w).cached = w.cached
         /\ Expire(w).burst = w.burst /\ Expire(w).misused = w.misused
         /\ Expire(w).logged = w.logged /\ Expire(w).reg = [w.reg EXCEPT !.susp = IF @ = "over" THEN "no" ELSE @]
         /\ Expire(w).reg.on = w.reg.on /\ Expire(w).reg.flags = w.reg.flags /\ Expire(w).reg.ts = w.reg.ts
         /\ w.reg.susp = "no" => Expire(w).reg.susp = "no"
<1> DEFINE v == Expire(w)
<1>1. /\ v \in Worlds /\ v.chan = w.chan /\ v.cached = w.cached /\ v.logged = w.logged
      /\ v.burst = w.burst /\ v.misused = w.misused
      /\ v.reg = [w.reg EXCEPT !.susp = IF @ = "over" THEN "no" ELSE @]
  BY Zenon DEF Expire, Worlds, Regs
<1>2. /\ v.reg.on = w.reg.on /\ v.reg.flags = w.reg.flags /\ v.reg.ts = w.reg.ts
      /\ v.reg.emode = w.reg.emode /\ v.reg.level = w.reg.level /\ v.reg.bans = w.reg.bans
      /\ w.reg.susp = "no" => v.reg.susp = "no"
  BY DEF Expire, Worlds, Regs
<1> HIDE DEF v
<1>3. Along(w, v)
  BY <1>1, <1>2, Zenon DEF Along, SameRights, SameAccess, Shaped, Present, Stamped, Enforced, Flagged
<1> QED
  BY <1>1, <1>2, <1>3, Zenon DEF v

\* h_chanserv_join, on an active channel or not.
LEMMA JoinHook ==
  ASSUME NEW w \in Worlds, w.chan.alive, NEW joined \in Seq(Clients), NEW v, v = h_chanserv_join(w, joined)
  PROVE  /\ Along(w, v) /\ v.chan.users \subseteq w.chan.users
         /\ \A c \in v.chan.ops : c \in w.chan.ops \/ OpAllowed(w, c)
         /\ v.reg.on /\ v.reg.susp = "no" =>
              \A j \in 1 .. Len(joined) : /\ joined[j] \in v.chan.users => ~Barred(w, joined[j])
                                          /\ joined[j] \in v.chan.ops => OpAllowed(w, joined[j])
<1>0. Along(w, w)
  BY AlongSame, Zenon
<1>1. CASE ~Active(w)
  <2>1. v = w
    BY <1>1, Zenon DEF h_chanserv_join
  <2>2. ~(v.reg.on /\ v.reg.susp = "no")
    BY <1>1, <2>1 DEF Active
  <2> QED
    BY <1>0, <2>1, <2>2, Zenon
<1>2. CASE joined = << >>
  <2>1. v = w
    BY <1>2, Zenon DEF h_chanserv_join
  <2>2. 1 .. Len(joined) = {}
    BY <1>2
  <2> QED
    BY <1>0, <2>1, <2>2, Zenon
<1>3. CASE Active(w) /\ joined # << >>
  <2> DEFINE e == Expire(w)
  <2>1. v = JoinMembers(e, joined)
    BY <1>3, Zenon DEF h_chanserv_join
  <2>2. Along(w, e) /\ e.chan = w.chan /\ e.reg.on = w.reg.on
    BY ExpireAlong, Zenon
  <2> HIDE DEF e
  <2>3. e \in Worlds /\ SameRights(w, e) /\ e.chan.alive /\ e.reg.on
    BY <1>3, <2>2, Zenon DEF Along, Active
  <2>4. Looked(e, v, joined, Len(joined))
    BY <2>1, <2>3, JoinsAlong, Zenon
  <2>5. \A c : (OpAllowed(e, c) <=> OpAllowed(w, c)) /\ (Barred(e, c) <=> Barred(w, c))
    BY <2>3, RightsKept, Zenon DEF Barred
  <2>6. Along(w, v)
    BY <2>2, <2>4, AlongTrans, Zenon DEF Looked
  <2>7. v.chan.users \subseteq w.chan.users
    BY <2>2, <2>4, Zenon DEF Looked
  <2>8. \A c \in v.chan.ops : c \in w.chan.ops \/ OpAllowed(w, c)
    BY <2>2, <2>4, <2>5, Zenon DEF Looked
  <2>9. \A j \in 1 .. Len(joined) : /\ joined[j] \in v.chan.users => ~Barred(w, joined[j])
                                    /\ joined[j] \in v.chan.ops => OpAllowed(w, joined[j])
    BY <2>4, <2>5, Zenon DEF Looked
  <2> QED
    BY <2>6, <2>7, <2>8, <2>9
<1> QED
  BY <1>1, <1>2, <1>3, Zenon
------------------------------------------------------------------------------
(* Steps of the channel.  What is to be shown of a step from w to v: v has *)
(* the properties of one world, and the step those of two.                 *)

Sound(w) == w \in Worlds /\ Shaped(w) /\ ~w.misused /\ Present(w) /\ Stamped(w)

OpsOk(w, v) ==
  w.reg.on /\ w.reg.susp = "no" /\ v.reg.susp = "no" =>
    \A c \in v.chan.ops :
      ~OpAllowed(v, c) /\ Level(v, c) >= Level(w, c) => c \in w.chan.ops /\ ~OpAllowed(w, c)
ModesOk(w, v) ==
  w.reg.on /\ v.reg.on /\ w.reg.susp = "no" /\ v.reg.susp = "no" /\ v.chan.alive
  /\ (w.chan.alive => Enforced(w)) => Enforced(v)
BansOk(w, v) ==
  v.reg.on /\ v.reg.susp = "no" => \A c \in v.chan.users \ w.chan.users : ~Barred(v, c)
Fine(w, v) == Sound(v) /\ OpsOk(w, v) /\ ModesOk(w, v) /\ BansOk(w, v)

\* A step that brings nobody, and gives no status that is not allowed.
Calm(w, v) ==
  /\ v \in Worlds /\ SameAccess(w, v)
  /\ v.misused => w.misused
  /\ Shaped(w) => Shaped(v)
  /\ Present(w) => Present(v)
  /\ Stamped(w) => Stamped(v)
  /\ w.reg.on /\ w.reg.susp = "no" /\ Enforced(w) => Enforced(v)

\* A hook that works through the members is a calm step.
LEMMA AlongCalm ==
  ASSUME NEW w, NEW v, Along(w, v)
  PROVE  Calm(w, v)
BY Zenon DEF Along, Calm, SameRights

\* Calm steps make a calm step, while no suspension begins or ends between them.
LEMMA CalmTrans ==
  ASSUME NEW w, NEW v, NEW x, Calm(w, v), Calm(v, x), v.reg.susp = w.reg.susp
  PROVE  Calm(w, x)
<1>1. SameAccess(w, x)
  BY Zenon DEF Calm, SameAccess
<1>2. v.reg.on = w.reg.on
  BY Zenon DEF Calm, SameAccess
<1> QED
  BY <1>1, <1>2, Zenon DEF Calm

\* A calm step that brings nobody and ops nobody it may not is fine.
LEMMA CalmFine ==
  ASSUME NEW w, Sound(w), NEW v, Calm(w, v), v.chan.users \subseteq w.chan.users,
         \A c \in v.chan.ops : c \in w.chan.ops \/ OpAllowed(w, c), v.chan.alive => w.chan.alive
  PROVE  Fine(w, v)
<1>1. Sound(v)
  BY Zenon DEF Sound, Calm
<1>2. OpsOk(w, v)
  BY AccessKept, Zenon DEF OpsOk, Calm
<1>3. ModesOk(w, v)
  BY Zenon DEF ModesOk, Calm
<1>4. BansOk(w, v)
  BY Zenon DEF BansOk
<1> QED
  BY <1>1, <1>2, <1>3, <1>4 DEF Fine

\* A change that touches neither the registration's rights nor the shape of the channel.
LEMMA CalmSame ==
  ASSUME NEW w, NEW v \in Worlds, v.reg.on = w.reg.on, v.reg.emode = w.reg.emode,
         v.reg.level = w.reg.level, v.reg.flags = w.reg.flags, v.reg.ts = w.reg.ts, v.logged = w.logged,
         v.misused = w.misused, v.chan.alive = w.chan.alive, v.chan.users = w.chan.users,
         v.chan.serv = w.chan.serv, v.chan.ts = w.chan.ts,
         w.chan.mode \subseteq v.chan.mode \/ (w.reg.on /\ w.reg.susp = "no" => Enforced(v))
  PROVE  Calm(w, v)
<1>1. SameAccess(w, v) /\ Shaped(v) = Shaped(w) /\ Present(v) = Present(w) /\ Stamped(v) = Stamped(w)
  BY Zenon DEF SameAccess, Shaped, Present, Stamped, Flagged
<1>2. w.reg.on /\ w.reg.susp = "no" /\ Enforced(w) => Enforced(v)
  BY Zenon DEF Enforced
<1> QED
  BY <1>1, <1>2, Zenon DEF Calm

\* Members arrive: x is the channel with them, before the hook looks at them.
LEMMA Arrival ==
  ASSUME NEW w, Sound(w), NEW x \in Worlds, x.chan.alive, SameAccess(w, x), ~x.misused,
         Shaped(x), Present(x), Stamped(x),
         w.reg.on /\ w.reg.susp = "no" /\ (w.chan.alive => Enforced(w)) => Enforced(x),
         NEW joined \in Seq(Clients),
         \A c \in x.chan.users : c \in w.chan.users \/ \E j \in 1 .. Len(joined) : joined[j] = c,
         \A c \in x.chan.ops : c \in w.chan.ops \/ \E j \in 1 .. Len(joined) : joined[j] = c
  PROVE  Fine(w, h_chanserv_join(x, joined))
<1> DEFINE v == h_chanserv_join(x, joined)
<1>1. /\ Along(x, v) /\ v.chan.users \subseteq x.chan.users
      /\ \A c \in v.chan.ops : c \in x.chan.ops \/ OpAllowed(x, c)
      /\ v.reg.on /\ v.reg.susp = "no" =>
           \A j \in 1 .. Len(joined) : /\ joined[j] \in v.chan.users => ~Barred(x, joined[j])
                                       /\ joined[j] \in v.chan.ops => OpAllowed(x, joined[j])
  BY JoinHook, Zenon
<1> HIDE DEF v
<1>2. Sound(v)
  BY <1>1, Zenon DEF Sound, Along
<1>3. SameRights(x, v) /\ SameAccess(x, v)
  BY <1>1, Zenon DEF Along, SameRights
<1>4. \A c : /\ OpAllowed(v, c) <=> OpAllowed(w, c)
             /\ OpAllowed(x, c) <=> OpAllowed(w, c)
             /\ Barred(v, c) <=> Barred(x, c)
  BY <1>3, AccessKept, RightsKept, Zenon DEF Barred
<1>5. v.reg.on = w.reg.on
  BY <1>3, Zenon DEF SameAccess
<1>6. OpsOk(w, v)
  <2> SUFFICES ASSUME w.reg.on, v.reg.susp = "no", NEW c \in v.chan.ops, ~OpAllowed(v, c)
               PROVE  c \in w.chan.ops /\ ~OpAllowed(w, c)
    BY Zenon DEF OpsOk
  <2>1. ~OpAllowed(w, c) /\ ~OpAllowed(x, c)
    BY <1>4, Zenon
  <2>2. c \in x.chan.ops
    BY <1>1, <2>1, Zenon
  <2>3. \A j \in 1 .. Len(joined) : joined[j] # c
    BY <1>1, <1>5, <2>1, Zenon
  <2> QED
    BY <2>1, <2>2, <2>3, Zenon
<1>7. ModesOk(w, v)
  BY <1>1, Zenon DEF ModesOk, Along
<1>8. BansOk(w, v)
  <2> SUFFICES ASSUME v.reg.on, v.reg.susp = "no", NEW c \in v.chan.users, c \notin w.chan.users
               PROVE  ~Barred(v, c)
    BY Zenon DEF BansOk
  <2>1. PICK j \in 1 .. Len(joined) : joined[j] = c
    BY <1>1, Zenon
  <2>2. ~Barred(x, c)
    BY <1>1, <2>1, Zenon
  <2> QED
    BY <1>4, <2>2, Zenon
<1> QED
  BY <1>2, <1>6, <1>7, <1>8, Zenon DEF Fine, v
------------------------------------------------------------------------------
(* What the network sends.                                                  *)

\* A hook that sets enforced modes.
OnlyModes(w, v) ==
  /\ v \in Worlds /\ v.cached = w.cached /\ v.logged = w.logged /\ v.burst = w.burst /\ v.misused = w.misused
  /\ v.reg.on = w.reg.on /\ v.reg.emode = w.reg.emode /\ v.reg.level = w.reg.level
  /\ v.reg.flags = w.reg.flags /\ v.reg.bans = w.reg.bans
  /\ v.chan.alive = w.chan.alive /\ v.chan.ts = w.chan.ts /\ v.chan.users = w.chan.users
  /\ v.chan.ops = w.chan.ops /\ v.chan.serv = w.chan.serv /\ v.chan.excepts = w.chan.excepts
  /\ w.chan.mode \subseteq v.chan.mode
  /\ w.reg.on /\ w.reg.susp = "no" => Enforced(v)

\* h_chanserv_mode_simple sets the enforced modes, unless the channel is suspended.
LEMMA SimpleHook ==
  ASSUME NEW w \in Worlds, NEW v, v = h_chanserv_mode_simple(w)
  PROVE  OnlyModes(w, v) /\ v.reg.ts = w.reg.ts
<1>1. CASE ~Active(w)
  <2>1. v = w
    BY <1>1, Zenon DEF h_chanserv_mode_simple
  <2>2. ~(w.reg.on /\ w.reg.susp = "no")
    BY <1>1 DEF Active
  <2> QED
    BY <2>1, <2>2, Zenon DEF OnlyModes
<1>2. CASE Active(w)
  <2> DEFINE e == Expire(w)
  <2>1. /\ e \in Worlds /\ e.chan = w.chan /\ e.cached = w.cached /\ e.logged = w.logged
        /\ e.burst = w.burst /\ e.misused = w.misused
        /\ e.reg.on = w.reg.on /\ e.reg.emode = w.reg.emode /\ e.reg.level = w.reg.level
        /\ e.reg.flags = w.reg.flags /\ e.reg.bans = w.reg.bans /\ e.reg.ts = w.reg.ts
    BY Zenon DEF Expire, Worlds, Regs
  <2>2. v = [e EXCEPT !.chan.mode = @ \cup w.reg.emode]
    BY <1>2, Zenon DEF h_chanserv_mode_simple
  <2> HIDE DEF e
  <2>3. w.reg.emode \in SUBSET Modes
    BY DEF Worlds, Regs
  <2>4. /\ v \in Worlds /\ v.reg = e.reg /\ v.cached = e.cached /\ v.logged = e.logged
        /\ v.burst = e.burst /\ v.misused = e.misused
        /\ v.chan.alive = e.chan.alive /\ v.chan.ts = e.chan.ts /\ v.chan.users = e.chan.users
        /\ v.chan.ops = e.chan.ops /\ v.chan.serv = e.chan.serv /\ v.chan.excepts = e.chan.excepts
        /\ v.chan.mode = e.chan.mode \cup w.reg.emode
    <3>1. PICK m : m = e.chan.mode \cup w.reg.emode
      OBVIOUS
    <3>2. m \in SUBSET Modes
      BY <2>1, <2>3, <3>1 DEF Worlds, Chans
    <3>3. v = [e EXCEPT !.chan.mode = m]
      BY <2>2, <3>1, Zenon
    <3> QED
      BY <2>1, <3>1, <3>2, <3>3, SMTT(60) DEF Worlds, Chans
  <2>5. Enforced(v) /\ w.chan.mode \subseteq v.chan.mode
    BY <2>1, <2>4, Zenon DEF Enforced
  <2> QED
    BY <2>1, <2>4, <2>5, Zenon DEF OnlyModes
<1> QED
  BY <1>1, <1>2, Zenon

\* h_chanserv_sjoin_lowerts saves the timestamp and enforces the modes.
LEMMA LowerTs ==
  ASSUME NEW w \in Worlds, w.chan.alive, NEW v, v = h_chanserv_sjoin_lowerts(w)
  PROVE  OnlyModes(w, v) /\ Stamped(v)
<1> DEFINE u == [w EXCEPT !.reg.ts = IF Flagged(w, "AUTOJOIN") THEN w.chan.ts ELSE @]
<1>1. CASE ~w.reg.on
  <2>1. v = w
    BY <1>1, Zenon DEF h_chanserv_sjoin_lowerts
  <2> QED
    BY <1>1, <2>1, Zenon DEF OnlyModes, Stamped
<1>2. CASE w.reg.on
  <2>1. /\ u \in Worlds /\ u.chan = w.chan /\ u.cached = w.cached /\ u.logged = w.logged
        /\ u.burst = w.burst /\ u.misused = w.misused
        /\ u.reg.on = w.reg.on /\ u.reg.emode = w.reg.emode /\ u.reg.level = w.reg.level
        /\ u.reg.flags = w.reg.flags /\ u.reg.bans = w.reg.bans /\ u.reg.susp = w.reg.susp
        /\ Flagged(w, "AUTOJOIN") => u.reg.ts = w.chan.ts
    BY Zenon DEF Worlds, Chans, Regs
  <2>2. v = IF w.reg.emode \subseteq w.chan.mode THEN u
            ELSE IF ~w.burst /\ w.chan.serv THEN [u EXCEPT !.chan.mode = @ \cup w.reg.emode]
            ELSE h_chanserv_mode_simple(u)
    BY <1>2, Zenon DEF h_chanserv_sjoin_lowerts
  <2> HIDE DEF u
  <2>3. CASE w.reg.emode \subseteq w.chan.mode /\ v = u
    <3>1. OnlyModes(u, v) /\ v.reg.ts = u.reg.ts
      BY <2>1, <2>3, Zenon DEF OnlyModes, Enforced
    <3> QED
      BY <2>1, <3>1, ZenonT(60) DEF OnlyModes, Stamped, Flagged
  <2>4. CASE v = [u EXCEPT !.chan.mode = @ \cup w.reg.emode]
    <3>1. w.reg.emode \in SUBSET Modes
      BY DEF Worlds, Regs
    <3>2. /\ v \in Worlds /\ v.reg = u.reg /\ v.cached = u.cached /\ v.logged = u.logged
          /\ v.burst = u.burst /\ v.misused = u.misused
          /\ v.chan.alive = u.chan.alive /\ v.chan.ts = u.chan.ts /\ v.chan.users = u.chan.users
          /\ v.chan.ops = u.chan.ops /\ v.chan.serv = u.chan.serv /\ v.chan.excepts = u.chan.excepts
          /\ v.chan.mode = u.chan.mode \cup w.reg.emode
      BY <2>1, <2>4, <3>1, SMTT(60) DEF Worlds, Chans
    <3>3. Enforced(v) /\ w.chan.mode \subseteq v.chan.mode
      BY <2>1, <3>2, ZenonT(60) DEF Enforced
    <3> QED
      BY <2>1, <3>2, <3>3, ZenonT(60) DEF OnlyModes, Stamped, Flagged
  <2>5. CASE v = h_chanserv_mode_simple(u)
    <3>1. OnlyModes(u, v) /\ v.reg.ts = u.reg.ts
      BY <2>1, <2>5, SimpleHook, Zenon
    <3> QED
      BY <2>1, <3>1, Zenon DEF OnlyModes, Stamped, Flagged
  <2> QED
    BY <2>2, <2>3, <2>4, <2>5, Zenon
<1> QED
  BY <1>1, <1>2, Zenon

\* The channel an SJOIN or JOIN finds or makes, the modes the message brings, and the world with it.
OldChan(ts, bans) == IF KeepOld(ts) THEN Opened(ts) ELSE Cleared(Opened(ts), ts, bans)
WithModes(ch, ms) == [ch EXCEPT !.mode = @ \cup ms]
Holding(ch) == [World EXCEPT !.chan = ch]

\* That channel has the members of the old one, and no operators that it did not have.
LEMMA OpenedChan ==
  ASSUME Sound(World), NEW ts \in Times, NEW bans, NEW old, old = OldChan(ts, bans)
  PROVE  /\ old \in Chans /\ old.alive /\ old.users = chan.users /\ old.serv = chan.serv
         /\ old.ops \subseteq chan.ops
         /\ KeepOld(ts) => chan.alive /\ old.ts \in {chan.ts, 0} /\ old.mode = chan.mode
<1>1. chan \in Chans /\ (chan.alive <=> chan.users # {} \/ chan.serv)
  BY DEF Sound, Shaped, World, Worlds
<1>2. NoChan \in Chans /\ ts \in Stamps /\ 0 \in Stamps
  BY DEF NoChan, Chans, Stamps
<1>3. CASE KeepOld(ts)
  <2>1. chan.alive
    BY <1>3, Zenon DEF KeepOld
  <2>2. old = [chan EXCEPT !.ts = IF ts = 0 \/ @ = 0 THEN 0 ELSE @]
    BY <1>3, <2>1, Zenon DEF Opened, OldChan
  <2> QED
    BY <1>1, <1>2, <2>1, <2>2 DEF Chans
<1>4. CASE ~KeepOld(ts) /\ chan.alive
  <2> DEFINE o == Opened(ts)
  <2>1. o = [chan EXCEPT !.ts = IF ts = 0 \/ @ = 0 THEN 0 ELSE @]
    BY <1>4, Zenon DEF Opened
  <2>2. o \in Chans /\ o.alive /\ o.users = chan.users /\ o.serv = chan.serv
    BY <1>1, <1>2, <1>4, <2>1 DEF Chans
  <2>3. old = Cleared(o, ts, bans)
    BY <1>4, Zenon DEF OldChan
  <2> HIDE DEF o
  <2>4. old \in Chans /\ old.alive = o.alive /\ old.users = o.users /\ old.serv = o.serv /\ old.ops = {}
    BY <1>2, <2>2, <2>3, ZenonT(60) DEF Chans, Cleared
  <2> QED
    BY <1>4, <2>2, <2>4
<1>5. CASE ~KeepOld(ts) /\ ~chan.alive
  <2> DEFINE o == Opened(ts)
  <2>1. o = [NoChan EXCEPT !.alive = TRUE, !.ts = ts]
    BY <1>5, Zenon DEF Opened
  <2>2. o \in Chans /\ o.alive /\ o.users = {} /\ ~o.serv
    BY <1>2, <2>1, Zenon DEF Chans, NoChan
  <2>3. old = Cleared(o, ts, bans)
    BY <1>5, Zenon DEF OldChan
  <2> HIDE DEF o
  <2>4. old \in Chans /\ old.alive = o.alive /\ old.users = o.users /\ old.serv = o.serv /\ old.ops = {}
    BY <1>2, <2>2, <2>3, Zenon DEF Chans, Cleared
  <2>5. chan.users = {} /\ chan.serv = FALSE
    BY <1>1, <1>5 DEF Chans
  <2>6. o.serv = FALSE
    BY <2>2 DEF Chans
  <2> QED
    BY <1>5, <2>2, <2>4, <2>5, <2>6, Zenon
<1> QED
  BY <1>3, <1>4, <1>5, ZenonT(60)

Lowered(ts, x) == IF KeepOld(ts) THEN x ELSE h_chanserv_sjoin_lowerts(x)

\* The same after the hook on lower timestamps, which saves the timestamp and enforces modes.
LEMMA Opening ==
  ASSUME Sound(World), NEW ts \in Times, NEW bans, NEW old, NEW ms \in SUBSET Modes, NEW v,
         old = OldChan(ts, bans), NEW ch, ch = old \/ ch = WithModes(old, ms),
         v = Lowered(ts, Holding(ch))
  PROVE  /\ v \in Worlds /\ v.chan.alive /\ SameAccess(World, v) /\ v.misused = World.misused
         /\ v.chan.users = chan.users /\ v.chan.serv = chan.serv /\ v.chan.ops \subseteq chan.ops
         /\ ch.users = chan.users
         /\ Present(v) /\ Stamped(v)
         /\ reg.on /\ reg.susp = "no" /\ (chan.alive => Enforced(World)) => Enforced(v)
<1> DEFINE W == World
           x == [W EXCEPT !.chan = ch]
<1>0. W \in Worlds /\ Shaped(W) /\ Present(W) /\ Stamped(W)
  BY Zenon DEF Sound
<1>1. W.chan = chan /\ W.reg = reg
  BY DEF World
<1>2. /\ old \in Chans /\ old.alive /\ old.users = chan.users /\ old.serv = chan.serv
      /\ old.ops \subseteq chan.ops
      /\ KeepOld(ts) => chan.alive /\ old.ts \in {chan.ts, 0} /\ old.mode = chan.mode
  BY OpenedChan, Zenon
<1>3. /\ ch \in Chans /\ ch.alive = old.alive /\ ch.users = old.users /\ ch.serv = old.serv /\ ch.ts = old.ts
      /\ ch.ops = old.ops /\ old.mode \subseteq ch.mode
  BY <1>2, ZenonT(60) DEF Chans, WithModes
<1> HIDE DEF W
<1>4. /\ x \in Worlds /\ x.chan = ch /\ x.reg = W.reg /\ x.logged = W.logged /\ x.misused = W.misused
  BY <1>0, <1>3 DEF Worlds
<1>5. v = Lowered(ts, x)
  BY Zenon DEF W, Holding
<1> HIDE DEF x
<1>6. Present(x) /\ x.chan.alive /\ SameAccess(W, x)
  BY <1>0, <1>1, <1>2, <1>3, <1>4, Zenon DEF Present, Flagged, SameAccess
<1>7. CASE KeepOld(ts)
  <2>1. v = x
    BY <1>5, <1>7, Zenon DEF Lowered
  <2>2. Stamped(v)
    BY <1>0, <1>1, <1>2, <1>3, <1>4, <1>7, <2>1 DEF Stamped, Flagged
  <2>3. Enforced(W) => Enforced(v)
    BY <1>1, <1>2, <1>3, <1>4, <1>7, <2>1, Zenon DEF Enforced
  <2> QED
    BY <1>1, <1>2, <1>3, <1>4, <1>6, <1>7, <2>1, <2>2, <2>3, Zenon DEF W
<1>8. CASE ~KeepOld(ts)
  <2>1. v = h_chanserv_sjoin_lowerts(x)
    BY <1>5, <1>8, Zenon DEF Lowered
  <2>2. OnlyModes(x, v) /\ Stamped(v)
    BY <1>4, <1>6, <2>1, LowerTs, Zenon
  <2>3. Present(v) /\ SameAccess(W, v)
    BY <1>6, <2>2, Zenon DEF OnlyModes, Present, Flagged, SameAccess
  <2>4. reg.on /\ reg.susp = "no" => Enforced(v)
    BY <1>1, <1>4, <2>2, Zenon DEF OnlyModes
  <2>5. /\ v \in Worlds /\ v.chan.alive /\ v.misused = W.misused
        /\ v.chan.users = chan.users /\ v.chan.serv = chan.serv /\ v.chan.ops \subseteq chan.ops
    BY <1>2, <1>3, <1>4, <1>6, <2>2, ZenonT(60) DEF OnlyModes
  <2> QED
    BY <1>2, <1>3, <2>2, <2>3, <2>4, <2>5, Zenon DEF W
<1> QED
  BY <1>7, <1>8, Zenon

\* What each action is shown to do.
FineStep == \E v : To(v) /\ Fine(World, v)

\* A channel that is freed.
LEMMA FreedFine ==
  ASSUME NEW w, Sound(w), NEW x \in Worlds, ~x.misused, NEW v, v = [x EXCEPT !.chan = NoChan]
  PROVE  Fine(w, v)
<1>1. /\ v \in Worlds /\ v.chan = NoChan /\ v.misused = x.misused
  BY Zenon DEF Worlds, NoChan, Chans, Stamps
<1>2. ~NoChan.alive /\ NoChan.users = {} /\ ~NoChan.serv /\ NoChan.ops = {}
  BY DEF NoChan
<1>3. Sound(v)
  BY <1>1, <1>2, Zenon DEF Sound, Shaped, Present, Stamped
<1>4. OpsOk(w, v)
  BY <1>1, <1>2, Zenon DEF OpsOk
<1>5. ModesOk(w, v)
  BY <1>1, <1>2, Zenon DEF ModesOk
<1>6. BansOk(w, v)
  BY <1>1, <1>2, Zenon DEF BansOk
<1> QED
  BY <1>3, <1>4, <1>5, <1>6 DEF Fine

\* An SJOIN, whatever its timestamp and whoever it brings with whatever status.
LEMMA SjoinFine ==
  ASSUME Sound(World), NEW ts \in Times, NEW ms \in SUBSET Modes, NEW nicks \in Seq(Clients), NEW status,
         NEW ts6, c_sjoin(ts, ms, nicks, status, ts6)
  PROVE  FineStep
<1> DEFINE old == OldChan(ts, ts6)
           ch  == [old EXCEPT !.mode = IF KeepNew(ts) THEN @ \cup ms ELSE @]
           w   == Holding(ch)
           v   == Lowered(ts, w)
           new == Without(nicks, {i \in DOMAIN nicks : nicks[i] \in ch.users})
           with(s) == {c \in Range(new) : s \in status[c]}
           in  == [v EXCEPT !.chan.users = @ \cup Range(new),
                            !.chan.ops = IF KeepNew(ts) THEN @ \cup with("o") ELSE @,
                            !.chan.voiced = IF KeepNew(ts) THEN @ \cup with("v") ELSE @,
                            !.chan.deopped = IF KeepNew(ts) THEN @ ELSE @ \cup with("o")]
           joined == NewestFirst(new)
<1>1. To(IF in.chan.users = {} /\ ~in.chan.serv THEN [in EXCEPT !.chan = NoChan]
         ELSE h_chanserv_join(in, joined))
  BY Zenon DEF c_sjoin, Lowered, OldChan, Holding
<1>2. ch = old \/ ch = WithModes(old, ms)
  <2>1. old \in Chans
    BY OpenedChan, Zenon
  <2> HIDE DEF old
  <2> QED
    BY <2>1, Zenon DEF Chans, WithModes
<1>3. /\ v \in Worlds /\ v.chan.alive /\ SameAccess(World, v) /\ v.misused = World.misused
      /\ v.chan.users = chan.users /\ v.chan.serv = chan.serv /\ v.chan.ops \subseteq chan.ops
      /\ Present(v) /\ Stamped(v)
      /\ reg.on /\ reg.susp = "no" /\ (chan.alive => Enforced(World)) => Enforced(v)
  <2> HIDE DEF ch, old
  <2>1. old = OldChan(ts, ts6)
    BY DEF old
  <2>2. v = Lowered(ts, Holding(ch))
    OBVIOUS
  <2> HIDE DEF v
  <2> QED
    BY <1>2, <2>1, <2>2, Opening, SMTT(20)
<1>4. new \in Seq(Clients)
  BY WithoutType, Zenon
<1> HIDE DEF new, v
<1>5. Range(new) \in SUBSET Clients
  BY <1>4 DEF Range
<1> DEFINE N == Range(new)
           O == IF KeepNew(ts) THEN v.chan.ops \cup with("o") ELSE v.chan.ops
<1>6. with("o") \in SUBSET N /\ with("v") \in SUBSET N
  OBVIOUS
<1>7. /\ in \in Worlds /\ in.reg = v.reg /\ in.logged = v.logged /\ in.misused = v.misused
      /\ in.chan.users = v.chan.users \cup N /\ in.chan.ops = O
      /\ in.chan.alive = v.chan.alive /\ in.chan.ts = v.chan.ts /\ in.chan.mode = v.chan.mode
      /\ in.chan.serv = v.chan.serv
  <2> DEFINE U == v.chan.users \cup N
             P == IF KeepNew(ts) THEN v.chan.voiced \cup with("v") ELSE v.chan.voiced
             D == IF KeepNew(ts) THEN v.chan.deopped ELSE v.chan.deopped \cup with("o")
  <2>1. in = [v EXCEPT !.chan.users = U, !.chan.ops = O, !.chan.voiced = P, !.chan.deopped = D]
    BY ZenonT(60)
  <2>2. /\ v.chan.users \in SUBSET Clients /\ v.chan.ops \in SUBSET Clients
        /\ v.chan.voiced \in SUBSET Clients /\ v.chan.deopped \in SUBSET Clients
    BY <1>3 DEF Worlds, Chans
  <2>3. U \in SUBSET Clients /\ O \in SUBSET Clients /\ P \in SUBSET Clients /\ D \in SUBSET Clients
    BY <1>5, <1>6, <2>2, ZenonT(60)
  <2>4. v \in Worlds
    BY <1>3
  <2> HIDE DEF U, O, P, D, in
  <2>5. /\ in \in Worlds /\ in.reg = v.reg /\ in.logged = v.logged /\ in.misused = v.misused
        /\ in.chan.users = U /\ in.chan.ops = O
        /\ in.chan.alive = v.chan.alive /\ in.chan.ts = v.chan.ts /\ in.chan.mode = v.chan.mode
        /\ in.chan.serv = v.chan.serv
    BY <2>1, <2>3, <2>4, ZenonT(60) DEF Worlds, Chans
  <2> QED
    BY <2>5, Zenon DEF U
<1>8. O \subseteq v.chan.ops \cup N
  BY <1>6
<1> HIDE DEF in, N, with, O
<1>9. CASE in.chan.users = {} /\ ~in.chan.serv
  <2>1. To([in EXCEPT !.chan = NoChan])
    BY <1>1, <1>9, Zenon
  <2>2. ~in.misused
    BY <1>3, <1>7, Zenon DEF Sound
  <2>3. Fine(World, [in EXCEPT !.chan = NoChan])
    BY <1>7, <2>2, FreedFine, Zenon
  <2> QED
    BY <2>1, <2>3, Zenon DEF FineStep
<1>10. CASE ~(in.chan.users = {} /\ ~in.chan.serv)
  <2>1. To(h_chanserv_join(in, joined))
    BY <1>1, <1>10, Zenon
  <2>2. joined \in Seq(Clients) /\ \A c \in N : \E j \in 1 .. Len(joined) : joined[j] = c
    <3>1. Len(new) \in Nat /\ DOMAIN new = 1 .. Len(new) /\ Len(joined) = Len(new)
      BY <1>4 DEF NewestFirst
    <3>2. joined \in Seq(Clients)
      BY <1>4 DEF NewestFirst
    <3>3. ASSUME NEW i \in DOMAIN new PROVE \E j \in 1 .. Len(joined) : joined[j] = new[i]
      <4> DEFINE j == Len(new) - i + 1
      <4>1. j \in 1 .. Len(new) /\ (Len(new) - j) + 1 = i
        BY <3>1
      <4>2. joined[j] = new[i]
        BY <4>1 DEF NewestFirst
      <4> QED
        BY <3>1, <4>1, <4>2, SMTT(60)
    <3> HIDE DEF joined
    <3> QED
      BY <3>2, <3>3, Zenon DEF N, Range
  <2> HIDE DEF joined
  <2>3. SameAccess(World, in) /\ Present(in) /\ Stamped(in)
    BY <1>3, <1>7, Zenon DEF SameAccess, Present, Stamped, Flagged
  <2>4. Shaped(in) /\ in.chan.alive /\ ~in.misused
    BY <1>3, <1>7, <1>10, Zenon DEF Shaped, Sound
  <2>5. Enforced(v) => Enforced(in)
    BY <1>7, Zenon DEF Enforced
  <2>6. World.chan = chan /\ World.reg = reg
    BY DEF World
  <2>7. \A c \in in.chan.users : c \in World.chan.users \/ \E j \in 1 .. Len(joined) : joined[j] = c
    BY <1>3, <1>7, <2>2, <2>6, ZenonT(60)
  <2>8. \A c \in in.chan.ops : c \in World.chan.ops \/ \E j \in 1 .. Len(joined) : joined[j] = c
    BY <1>3, <1>7, <1>8, <2>2, <2>6, ZenonT(60)
  <2>9. World.reg.on /\ World.reg.susp = "no" /\ (World.chan.alive => Enforced(World)) => Enforced(in)
    BY <1>3, <2>5, <2>6, Zenon
  <2>10. Fine(World, h_chanserv_join(in, joined))
    BY <1>7, <2>2, <2>3, <2>4, <2>7, <2>8, <2>9, Arrival, ZenonT(60)
  <2> QED
    BY <2>1, <2>10, Zenon DEF FineStep
<1> QED
  BY <1>9, <1>10, Zenon

\* A JOIN brings one client.
LEMMA JoinFine ==
  ASSUME Sound(World), NEW c \in Clients, NEW ts \in Times, c_join(c, ts)
  PROVE  FineStep
<1>0. PICK no : no = FALSE
  BY Zenon
<1> DEFINE old == OldChan(ts, no)
           v   == Lowered(ts, Holding(old))
           in  == [v EXCEPT !.chan.users = @ \cup {c}]
<1>1. To(IF c \in old.users THEN v ELSE h_chanserv_join(in, <<c>>))
  BY <1>0, Zenon DEF c_join, Lowered, OldChan, Holding
<1>2. /\ v \in Worlds /\ v.chan.alive /\ SameAccess(World, v) /\ v.misused = World.misused
      /\ v.chan.users = chan.users /\ v.chan.serv = chan.serv /\ v.chan.ops \subseteq chan.ops
      /\ old.users = chan.users /\ Present(v) /\ Stamped(v)
      /\ reg.on /\ reg.susp = "no" /\ (chan.alive => Enforced(World)) => Enforced(v)
  <2> HIDE DEF old
  <2>1. old = OldChan(ts, no)
    BY DEF old
  <2>2. v = Lowered(ts, Holding(old))
    OBVIOUS
  <2> HIDE DEF v
  <2>3. {} \in SUBSET Modes
    BY SMTT(60)
  <2> QED
    BY <2>1, <2>2, <2>3, Opening, SMTT(20)
<1> HIDE DEF v, old
<1>3. World.chan = chan /\ World.reg = reg /\ ~v.misused
  BY <1>2 DEF World, Sound
<1>4. CASE c \in old.users
  <2>1. To(v)
    BY <1>1, <1>4, Zenon
  <2>2. v = h_chanserv_join(v, << >>)
    BY Zenon DEF h_chanserv_join
  <2>3. Shaped(v)
    BY <1>2, <1>4, Zenon DEF Shaped
  <2>4. << >> \in Seq(Clients)
    OBVIOUS
  <2>5. Fine(World, h_chanserv_join(v, << >>))
    BY <1>2, <1>3, <2>3, <2>4, Arrival, Zenon
  <2> QED
    BY <2>1, <2>2, <2>5, Zenon DEF FineStep
<1>5. CASE c \notin old.users
  <2>1. To(h_chanserv_join(in, <<c>>))
    BY <1>1, <1>5, Zenon
  <2>2. v \in Worlds
    BY <1>2
  <2>3. /\ in \in Worlds /\ in.reg = v.reg /\ in.logged = v.logged /\ in.misused = v.misused
        /\ in.chan.users = v.chan.users \cup {c} /\ in.chan.ops = v.chan.ops
        /\ in.chan.alive = v.chan.alive /\ in.chan.ts = v.chan.ts /\ in.chan.mode = v.chan.mode
        /\ in.chan.serv = v.chan.serv
    BY <2>2 DEF Worlds, Chans
  <2>4. <<c>> \in Seq(Clients) /\ \E j \in 1 .. Len(<<c>>) : <<c>>[j] = c
    OBVIOUS
  <2> HIDE DEF in
  <2>5. SameAccess(World, in) /\ Present(in) /\ Stamped(in)
    BY <1>2, <2>3, Zenon DEF SameAccess, Present, Stamped, Flagged
  <2>6. Shaped(in) /\ in.chan.alive /\ ~in.misused
    BY <1>2, <1>3, <2>3, Zenon DEF Shaped
  <2>7. World.reg.on /\ World.reg.susp = "no" /\ (World.chan.alive => Enforced(World)) => Enforced(in)
    BY <1>2, <1>3, <2>3, Zenon DEF Enforced
  <2>8. \A d \in in.chan.users : d \in World.chan.users \/ \E j \in 1 .. Len(<<c>>) : <<c>>[j] = d
    BY <1>2, <1>3, <2>3, <2>4, Zenon
  <2>9. \A d \in in.chan.ops : d \in World.chan.ops \/ \E j \in 1 .. Len(<<c>>) : <<c>>[j] = d
    BY <1>2, <1>3, <2>3, Zenon
  <2>10. Fine(World, h_chanserv_join(in, <<c>>))
    BY <2>3, <2>4, <2>5, <2>6, <2>7, <2>8, <2>9, Arrival, ZenonT(60)
  <2> QED
    BY <2>1, <2>10, Zenon DEF FineStep
<1> QED
  BY <1>4, <1>5, Zenon

\* A step that leaves the registration's rights alone and takes nobody's place: it is fine
\* if it keeps the shape of the channel, sets no mode back and ops nobody it may not.
LEMMA PlainFine ==
  ASSUME NEW w, Sound(w), NEW v \in Worlds, v.reg.on = w.reg.on, v.reg.emode = w.reg.emode,
         v.reg.level = w.reg.level, v.reg.flags = w.reg.flags, v.reg.ts = w.reg.ts, v.logged = w.logged,
         v.misused = w.misused, v.chan.alive = w.chan.alive, v.chan.users \subseteq w.chan.users,
         v.chan.serv = w.chan.serv, v.chan.ts = w.chan.ts, Shaped(v),
         w.chan.mode \subseteq v.chan.mode \/ (w.reg.on /\ w.reg.susp = "no" => Enforced(v)),
         w.reg.on /\ w.reg.susp = "no" => \A c \in v.chan.ops : c \in w.chan.ops \/ OpAllowed(w, c)
  PROVE  Fine(w, v)
<1>1. SameAccess(w, v) /\ Present(v) /\ Stamped(v)
  BY Zenon DEF Sound, SameAccess, Present, Stamped, Flagged
<1>2. Sound(v)
  BY <1>1, Zenon DEF Sound
<1>3. \A c : OpAllowed(v, c) <=> OpAllowed(w, c)
  BY <1>1, AccessKept, Zenon
<1>4. OpsOk(w, v)
  BY <1>3, Zenon DEF OpsOk
<1>5. w.reg.on /\ w.reg.susp = "no" /\ Enforced(w) => Enforced(v)
  BY Zenon DEF Enforced
<1>6. ModesOk(w, v)
  BY <1>5, Zenon DEF ModesOk
<1>7. BansOk(w, v)
  BY Zenon DEF BansOk
<1> QED
  BY <1>2, <1>4, <1>6, <1>7, Zenon DEF Fine

\* PART, QUIT, JOIN 0 and KICK.
LEMMA PartFine ==
  ASSUME Sound(World), NEW c \in Clients, c_part(c)
  PROVE  FineStep
<1> DEFINE w == World
           v == del_chmember(w, c)
<1>1. To(v) /\ c \in w.chan.users /\ w \in Worlds /\ ~w.misused /\ Shaped(w)
  BY DEF c_part, World, Sound
<1>2. CASE w.chan.users = {c} /\ ~w.chan.serv
  <2>1. v = [w EXCEPT !.chan = NoChan]
    BY <1>2, Zenon DEF del_chmember
  <2> HIDE DEF v, w
  <2>2. Sound(w)
    BY DEF w
  <2>3. Fine(w, v)
    BY <1>1, <2>1, <2>2, FreedFine, ZenonT(60)
  <2> QED
    BY <1>1, <2>3, Zenon DEF FineStep, w
<1>3. CASE ~(w.chan.users = {c} /\ ~w.chan.serv)
  <2>1. v = [w EXCEPT !.chan.users = @ \ {c}, !.chan.ops = @ \ {c}, !.chan.voiced = @ \ {c},
                      !.chan.deopped = @ \ {c}]
    BY <1>3, ZenonT(60) DEF del_chmember
  <2> HIDE DEF v, w
  <2>2. Sound(w)
    BY DEF w
  <2>3. /\ v \in Worlds /\ v.reg = w.reg /\ v.logged = w.logged /\ v.misused = w.misused
        /\ v.chan.users = w.chan.users \ {c} /\ v.chan.ops = w.chan.ops \ {c}
        /\ v.chan.alive = w.chan.alive /\ v.chan.ts = w.chan.ts /\ v.chan.mode = w.chan.mode
        /\ v.chan.serv = w.chan.serv
    BY <1>1, <2>1, ZenonT(60) DEF Worlds, Chans
  <2>4. Shaped(v) /\ v.chan.users \subseteq w.chan.users /\ v.chan.ops \subseteq w.chan.ops
    BY <1>1, <1>3, <2>3 DEF Shaped
  <2>5. Fine(w, v)
    BY <2>2, <2>3, <2>4, PlainFine, Zenon
  <2> QED
    BY <1>1, <2>5, Zenon DEF FineStep, w
<1> QED
  BY <1>2, <1>3, ZenonT(60)

\* What a step keeps that changes only statuses, modes and masks, or ends a suspension.
Kept(w, v) ==
  /\ v \in Worlds /\ v.logged = w.logged /\ v.misused = w.misused
  /\ v.reg.on = w.reg.on /\ v.reg.emode = w.reg.emode /\ v.reg.level = w.reg.level
  /\ v.reg.flags = w.reg.flags /\ v.reg.ts = w.reg.ts
  /\ v.chan.alive = w.chan.alive /\ v.chan.users = w.chan.users /\ v.chan.serv = w.chan.serv
  /\ v.chan.ts = w.chan.ts

\* Such a step is fine if it sets no enforced mode back and ops nobody it may not.
LEMMA KeptFine ==
  ASSUME NEW w, Sound(w), NEW v, Kept(w, v),
         w.chan.mode \subseteq v.chan.mode \/ (w.reg.on /\ w.reg.susp = "no" => Enforced(v)),
         w.reg.on /\ w.reg.susp = "no" => \A c \in v.chan.ops : c \in w.chan.ops \/ OpAllowed(w, c)
  PROVE  Fine(w, v)
<1>1. Shaped(v)
  BY Zenon DEF Kept, Shaped, Sound
<1>2. v \in Worlds /\ v.chan.users \subseteq w.chan.users
  BY Zenon DEF Kept
<1> QED
  BY <1>1, <1>2, PlainFine, Zenon DEF Kept

\* Expire and the two hooks on statuses are such steps.
LEMMA ExpireKept ==
  ASSUME NEW w \in Worlds
  PROVE  /\ Kept(w, Expire(w)) /\ Expire(w).chan = w.chan /\ Expire(w).reg.bans = w.reg.bans
         /\ Expire(w).reg.bants = w.reg.bants /\ Expire(w).cached = w.cached
<1>1. Along(w, Expire(w)) /\ Expire(w).chan = w.chan /\ Expire(w).misused = w.misused
  BY ExpireAlong, Zenon
<1>2. /\ Expire(w).reg.on = w.reg.on /\ Expire(w).reg.flags = w.reg.flags /\ Expire(w).reg.ts = w.reg.ts
      /\ Expire(w).reg.emode = w.reg.emode /\ Expire(w).reg.level = w.reg.level
      /\ Expire(w).reg.bans = w.reg.bans /\ Expire(w).reg.bants = w.reg.bants
      /\ Expire(w).logged = w.logged /\ Expire(w).cached = w.cached
  BY DEF Expire, Worlds, Regs
<1> QED
  BY <1>1, <1>2, Zenon DEF Kept, Along

\* A chain of such steps is one.
LEMMA KeptTrans ==
  ASSUME NEW w, NEW v, NEW x, Kept(w, v), Kept(v, x)
  PROVE  Kept(w, x)
BY Zenon DEF Kept

WithOps(w, O) == [w EXCEPT !.chan.ops = O]

\* A step that only changes who is an operator.
LEMMA OpsKept ==
  ASSUME NEW w \in Worlds, NEW O \in SUBSET Clients, NEW v, v = WithOps(w, O)
  PROVE  Kept(w, v) /\ v.chan.ops = O /\ v.chan.mode = w.chan.mode /\ v.reg = w.reg
BY SMTT(60) DEF Kept, Worlds, Chans, WithOps

\* The hook on ops leaves those it may not op without.
LEMMA OpHook ==
  ASSUME NEW w \in Worlds, NEW x, NEW o, NEW v, Kept(w, o), o.chan.mode = w.chan.mode,
         o.reg.susp = w.reg.susp, o.chan.ops = w.chan.ops \cup {x}, v = h_chanserv_mode_op(o, {x})
  PROVE  /\ Kept(w, v) /\ v.chan.mode = w.chan.mode
         /\ w.reg.on /\ w.reg.susp = "no" => \A c \in v.chan.ops : c \in w.chan.ops \/ OpAllowed(w, c)
<1>0. o \in Worlds /\ o.reg.on = w.reg.on
  BY DEF Kept
<1>1. CASE ~Active(o)
  <2>1. v = o
    BY <1>1, Zenon DEF h_chanserv_mode_op
  <2>2. ~(w.reg.on /\ w.reg.susp = "no")
    BY <1>0, <1>1 DEF Active
  <2> QED
    BY <2>1, <2>2, Zenon
<1>2. CASE Active(o)
  <2> DEFINE e == Expire(o)
             O == {c \in e.chan.ops : c \in {x} => OpAllowed(o, c)}
  <2>1. Kept(o, e) /\ e.chan = o.chan
    BY <1>0, ExpireKept, Zenon
  <2>2. v = WithOps(e, O)
    BY <1>2, Zenon DEF h_chanserv_mode_op, WithOps
  <2> HIDE DEF e
  <2>3. e \in Worlds /\ e.chan.ops \in SUBSET Clients
    BY <2>1, SMTT(60) DEF Kept, Worlds, Chans
  <2>4. O \in SUBSET Clients /\ \A c \in O : c \in w.chan.ops \/ OpAllowed(o, c)
    BY <2>1, <2>3, SMTT(60)
  <2> HIDE DEF O
  <2>5. Kept(e, v) /\ v.chan.ops = O /\ v.chan.mode = e.chan.mode
    BY <2>2, <2>3, <2>4, OpsKept, SMTT(20)
  <2>6. Kept(w, v)
    BY <2>1, <2>5, Zenon DEF Kept
  <2>7. SameAccess(w, o)
    BY Zenon DEF Kept, SameAccess
  <2>8. \A c : OpAllowed(o, c) <=> OpAllowed(w, c)
    BY <2>7, AccessKept, Zenon
  <2> QED
    BY <2>1, <2>4, <2>5, <2>6, <2>8, Zenon
<1> QED
  BY <1>1, <1>2, Zenon

\* The hook on a voice and the one on a ban only take back what was just given.
LEMMA VoiceHook ==
  ASSUME NEW w \in Worlds, NEW xs, NEW v, v = h_chanserv_mode_voice(w, xs) \/ v = h_chanserv_mode_ban(w, xs)
  PROVE  Kept(w, v) /\ v.chan.mode = w.chan.mode /\ v.chan.ops = w.chan.ops
<1>1. CASE ~Active(w)
  <2>1. v = w
    BY <1>1, Zenon DEF h_chanserv_mode_voice, h_chanserv_mode_ban
  <2> QED
    BY <2>1, Zenon DEF Kept
<1>2. CASE Active(w)
  <2> DEFINE e == Expire(w)
  <2>1. Kept(w, e) /\ e.chan = w.chan
    BY ExpireKept, Zenon
  <2>2. \/ v = [e EXCEPT !.chan.voiced = IF Flagged(w, "NOVOICES") THEN @ \ xs ELSE @]
        \/ v = [e EXCEPT !.chan.bans = IF Flagged(w, "NOUSERBANS") THEN @ \ xs ELSE @]
    BY <1>2, Zenon DEF h_chanserv_mode_voice, h_chanserv_mode_ban
  <2> HIDE DEF e
  <2>3. e \in Worlds
    BY <2>1, Zenon DEF Kept
  <2>4. Kept(e, v) /\ v.chan.mode = e.chan.mode /\ v.chan.ops = e.chan.ops
    BY <2>2, <2>3 DEF Kept, Worlds, Chans
  <2> QED
    BY <2>1, <2>4, KeptTrans, Zenon
<1> QED
  BY <1>1, <1>2, Zenon

\* One change of a MODE.
LEMMA ModeFine ==
  ASSUME Sound(World), chan.alive, NEW user, NEW what, NEW add \in BOOLEAN, NEW x \in Changed(what),
         handle_chmode(user, what, add, x)
  PROVE  FineStep
<1> DEFINE w == World
<1>1. w \in Worlds /\ Sound(w) /\ w.chan = chan /\ w.reg = reg
  BY DEF Sound, World
<1>2. FineStep = \E v : To(v) /\ Fine(w, v)
  BY DEF FineStep
<1>0. chan.users \in SUBSET Clients /\ chan.ops \in SUBSET Clients
  BY <1>1 DEF Worlds, Chans
<1>3. SUFFICES \E v : To(v) /\ /\ Kept(w, v)
                               /\ w.chan.mode \subseteq v.chan.mode \/ (w.reg.on /\ w.reg.susp = "no" => Enforced(v))
                               /\ w.reg.on /\ w.reg.susp = "no" => \A c \in v.chan.ops : c \in w.chan.ops \/ OpAllowed(w, c)
  <2> HIDE DEF w
  <2> QED
    BY <1>1, <1>2, KeptFine, Zenon
<1>4. CASE what = "o" /\ x \in chan.users /\ To(IF ~add THEN [World EXCEPT !.chan.ops = @ \ {x}]
           ELSE IF x \in chan.ops THEN World
           ELSE h_chanserv_mode_op(op_chmember(World, x), {x}))
  <2> DEFINE a == [w EXCEPT !.chan.ops = @ \ {x}]
             o == op_chmember(w, x)
             b == h_chanserv_mode_op(o, {x})
  <2>1. To(a) \/ To(w) \/ To(b)
    BY <1>4, Zenon
  <2>2. x \in Clients
    BY <1>0, <1>4
  <2> HIDE DEF w
  <2>3. Kept(w, a) /\ a.chan.mode = w.chan.mode /\ a.chan.ops \subseteq w.chan.ops
    BY <1>1, SMTT(60) DEF Kept, Worlds, Chans
  <2>4. /\ Kept(w, o) /\ o.chan.mode = w.chan.mode /\ o.reg.susp = w.reg.susp
        /\ o.chan.ops = w.chan.ops \cup {x}
    BY <1>1, <2>2, Zenon DEF Kept, Worlds, Chans, op_chmember
  <2> HIDE DEF a, o
  <2>5. b = h_chanserv_mode_op(o, {x})
    OBVIOUS
  <2> HIDE DEF b
  <2>6. /\ Kept(w, b) /\ b.chan.mode = w.chan.mode
        /\ w.reg.on /\ w.reg.susp = "no" => \A c \in b.chan.ops : c \in w.chan.ops \/ OpAllowed(w, c)
    BY <1>1, <2>4, <2>5, OpHook, Zenon
  <2>7. Kept(w, w)
    BY <1>1, Zenon DEF Kept
  <2> QED
    BY <2>1, <2>3, <2>6, <2>7, Zenon
<1>5. CASE what = "v" /\ x \in chan.users /\ To(IF ~add THEN [World EXCEPT !.chan.voiced = @ \ {x}]
           ELSE IF x \in chan.voiced THEN World
           ELSE h_chanserv_mode_voice([World EXCEPT !.chan.voiced = @ \cup {x}], {x}))
  <2> DEFINE a == [w EXCEPT !.chan.voiced = @ \ {x}]
             o == [w EXCEPT !.chan.voiced = @ \cup {x}]
             b == h_chanserv_mode_voice(o, {x})
  <2>1. To(a) \/ To(w) \/ To(b)
    BY <1>5, Zenon
  <2>2. x \in Clients
    BY <1>0, <1>5
  <2> HIDE DEF w
  <2>3. Kept(w, a) /\ a.chan.mode = w.chan.mode /\ a.chan.ops = w.chan.ops
    BY <1>1 DEF Kept, Worlds, Chans
  <2>4. Kept(w, o) /\ o.chan.mode = w.chan.mode /\ o.chan.ops = w.chan.ops
    BY <1>1, <2>2 DEF Kept, Worlds, Chans
  <2>5. o \in Worlds /\ b = h_chanserv_mode_voice(o, {x})
    BY <2>4, Zenon DEF Kept
  <2> HIDE DEF a, b, o
  <2>6. Kept(o, b) /\ b.chan.mode = o.chan.mode /\ b.chan.ops = o.chan.ops
    BY <2>5, VoiceHook, Zenon
  <2>7. Kept(w, w) /\ Kept(w, b)
    BY <1>1, <2>4, <2>6, Zenon DEF Kept
  <2> QED
    BY <2>1, <2>3, <2>4, <2>6, <2>7, Zenon
<1>6. CASE /\ what = "simple"
           /\ To(h_chanserv_mode_simple([World EXCEPT !.chan.mode = IF add THEN @ \cup {x} ELSE @ \ {x}]))
  <2> DEFINE o == [w EXCEPT !.chan.mode = IF add THEN @ \cup {x} ELSE @ \ {x}]
             b == h_chanserv_mode_simple(o)
  <2>1. To(b)
    BY <1>6, Zenon
  <2>2. x \in Modes
    BY <1>6 DEF Changed
  <2> HIDE DEF w
  <2>3. Kept(w, o) /\ o.reg = w.reg /\ o.chan.ops = w.chan.ops
    BY <1>1, <2>2, SMTT(60) DEF Kept, Worlds, Chans
  <2>4. o \in Worlds /\ b = h_chanserv_mode_simple(o)
    BY <2>3, Zenon DEF Kept
  <2> HIDE DEF b, o
  <2>5. OnlyModes(o, b) /\ b.reg.ts = o.reg.ts
    BY <2>4, SimpleHook, Zenon
  <2>6. Kept(w, b) /\ b.chan.ops = w.chan.ops
    BY <2>3, <2>5, Zenon DEF Kept, OnlyModes
  <2>7. w.reg.on /\ w.reg.susp = "no" => Enforced(b)
    BY <2>3, <2>5, Zenon DEF OnlyModes
  <2> QED
    BY <2>1, <2>6, <2>7, Zenon
<1>7. CASE /\ what = "b"
           /\ LET u == [World EXCEPT !.chan.bans = IF add THEN @ \cup {x} ELSE @ \ {x}]
              IN To(IF user /\ add THEN h_chanserv_mode_ban(u, {x}) ELSE u)
  <2> DEFINE o == [w EXCEPT !.chan.bans = IF add THEN @ \cup {x} ELSE @ \ {x}]
             b == h_chanserv_mode_ban(o, {x})
  <2>1. To(o) \/ To(b)
    BY <1>7, Zenon
  <2>2. x \in Masks
    BY <1>7 DEF Changed
  <2> HIDE DEF w
  <2>4. Kept(w, o) /\ o.chan.mode = w.chan.mode /\ o.chan.ops = w.chan.ops
    BY <1>1, <2>2 DEF Kept, Worlds, Chans
  <2>5. o \in Worlds /\ b = h_chanserv_mode_ban(o, {x})
    BY <2>4, Zenon DEF Kept
  <2> HIDE DEF b, o
  <2>6. Kept(o, b) /\ b.chan.mode = o.chan.mode /\ b.chan.ops = o.chan.ops
    BY <2>5, VoiceHook, Zenon
  <2>7. Kept(w, b)
    BY <2>4, <2>6, KeptTrans, Zenon
  <2> QED
    BY <2>1, <2>4, <2>6, <2>7, ZenonT(60)
<1>8. CASE what = "e" /\ To([World EXCEPT !.chan.excepts = IF add THEN @ \cup {x} ELSE @ \ {x}])
  <2> DEFINE o == [w EXCEPT !.chan.excepts = IF add THEN @ \cup {x} ELSE @ \ {x}]
  <2>1. To(o)
    BY <1>8, Zenon
  <2>2. x \in Masks
    BY <1>8 DEF Changed
  <2> HIDE DEF w
  <2>4. Kept(w, o) /\ o.chan.mode = w.chan.mode /\ o.chan.ops = w.chan.ops
    BY <1>1, <2>2 DEF Kept, Worlds, Chans
  <2> HIDE DEF o
  <2> QED
    BY <2>1, <2>4, Zenon
<1> QED
  BY <1>4, <1>5, <1>6, <1>7, <1>8, ZenonT(60) DEF handle_chmode

\* KeptFine for the step of an action.
LEMMA KeptStep ==
  ASSUME Sound(World), NEW v, To(v), Kept(World, v),
         \/ World.chan.mode \subseteq v.chan.mode
         \/ World.reg.on /\ World.reg.susp = "no" => Enforced(v),
         World.reg.on /\ World.reg.susp = "no" => \A c \in v.chan.ops : c \in World.chan.ops \/ OpAllowed(World, c)
  PROVE  FineStep
<1>1. Fine(World, v)
  BY KeptFine, Zenon
<1> QED
  BY <1>1, Zenon DEF FineStep

\* BMASK.
LEMMA BmaskFine ==
  ASSUME Sound(World), NEW what, NEW masks \in SUBSET Masks, c_bmask(what, masks)
  PROVE  FineStep
<1> DEFINE w == World
           a == [w EXCEPT !.chan.bans = @ \cup masks]
           b == [w EXCEPT !.chan.excepts = @ \cup masks]
<1>1. To(a) \/ To(b)
  BY Zenon DEF c_bmask
<1>2. w \in Worlds
  BY DEF Sound
<1> HIDE DEF w
<1>3. Kept(w, a) /\ a.chan.mode = w.chan.mode /\ a.chan.ops = w.chan.ops
  BY <1>2, SMTT(60) DEF Kept, Worlds, Chans
<1>4. Kept(w, b) /\ b.chan.mode = w.chan.mode /\ b.chan.ops = w.chan.ops
  BY <1>2, SMTT(60) DEF Kept, Worlds, Chans
<1> HIDE DEF a, b
<1> QED
  BY <1>1, <1>3, <1>4, KeptStep, Zenon DEF w

\* The end of the burst.
LEMMA BurstFine ==
  ASSUME Sound(World), EndOfBurst
  PROVE  FineStep
<1> DEFINE w == World
           a == [w EXCEPT !.burst = TRUE]
<1>1. To(a)
  BY Zenon DEF EndOfBurst
<1>2. w \in Worlds
  BY DEF Sound
<1> HIDE DEF w
<1>3. Kept(w, a) /\ a.chan = w.chan
  BY <1>2, Zenon DEF Kept, Worlds
<1> HIDE DEF a
<1> QED
  BY <1>1, <1>3, KeptStep, Zenon DEF w

\* A step that changes who is logged in, or an option, on a channel where nobody moves.
LEMMA RestFine ==
  ASSUME NEW w, Sound(w), NEW v \in Worlds, v.misused = w.misused,
         v.chan.alive = w.chan.alive, v.chan.users = w.chan.users, v.chan.serv = w.chan.serv,
         Present(v), Stamped(v), ModesOk(w, v), OpsOk(w, v)
  PROVE  Fine(w, v)
<1>1. Sound(v)
  BY Zenon DEF Sound, Shaped
<1>2. BansOk(w, v)
  BY Zenon DEF BansOk
<1> QED
  BY <1>1, <1>2 DEF Fine

\* Where only levels change, someone opped and allowed to be either loses access or stays so.
LEMMA LevelOps ==
  ASSUME NEW w \in Worlds, NEW v \in Worlds, v.reg.flags = w.reg.flags,
         \A c \in v.chan.ops : c \in w.chan.ops \/ OpAllowed(v, c)
  PROVE  OpsOk(w, v)
<1>1. ASSUME NEW c \in v.chan.ops, ~OpAllowed(v, c), Level(v, c) >= Level(w, c)
      PROVE  ~OpAllowed(w, c)
  <2>1. c \in Clients /\ w.reg.level \in [Clients -> Levels] /\ v.reg.level \in [Clients -> Levels]
    BY DEF Worlds, Chans, Regs
  <2>2. Level(v, c) \in Int /\ Level(w, c) \in Int
    BY <2>1 DEF Level, Levels, S_C_OWNER
  <2> HIDE DEF Level
  <2>3. Level(w, c) >= S_C_OP => Level(v, c) >= S_C_OP
    BY <1>1, <2>2 DEF S_C_OP
  <2> QED
    BY <1>1, <2>3, Zenon DEF OpAllowed, Flagged
<1> QED
  BY <1>1, Zenon DEF OpsOk

\* LOGIN: the hook ops and voices the client by its access.
LEMMA LoginFine ==
  ASSUME Sound(World), NEW c \in Clients, Login(c)
  PROVE  FineStep
<1> DEFINE w == World
           o == [w EXCEPT !.logged = @ \cup {c}]
           v == h_chanserv_user_login(o, c)
<1>1. To(v)
  BY Zenon DEF Login
<1>2. w \in Worlds /\ Sound(w)
  BY DEF Sound
<1> HIDE DEF w
<1>3. /\ o \in Worlds /\ o.chan = w.chan /\ o.reg = w.reg /\ o.misused = w.misused
  BY <1>2 DEF Worlds
<1> HIDE DEF o
<1>4. /\ Kept(o, v) /\ v.chan.mode = o.chan.mode
      /\ \A d \in v.chan.ops : d \in o.chan.ops \/ OpAllowed(o, d)
  <2>1. CASE v = o
    BY <1>3, <2>1, Zenon DEF Kept
  <2>2. CASE v # o
    <3> DEFINE e == Expire(o)
    <3>1. Kept(o, e) /\ e.chan = o.chan
      BY <1>3, ExpireKept, Zenon
    <3>2. \/ v = e \/ v = [e EXCEPT !.chan.voiced = @ \cup {c}]
          \/ v = op_chmember(e, c) /\ Level(o, c) >= S_C_OP /\ ~Flagged(o, "NOOPS")
      BY <2>2, Zenon DEF h_chanserv_user_login
    <3> HIDE DEF e, v
    <3>3. e \in Worlds
      BY <3>1, Zenon DEF Kept
    <3>4. CASE v = e
      BY <3>1, <3>4, Zenon
    <3>5. CASE v = [e EXCEPT !.chan.voiced = @ \cup {c}]
      <4>1. Kept(e, v) /\ v.chan.mode = e.chan.mode /\ v.chan.ops = e.chan.ops
        BY <3>3, <3>5, SMTT(60) DEF Kept, Worlds, Chans
      <4> QED
        BY <3>1, <4>1, KeptTrans, Zenon
    <3>6. CASE v = op_chmember(e, c) /\ Level(o, c) >= S_C_OP /\ ~Flagged(o, "NOOPS")
      <4>1. Kept(e, v) /\ v.chan.mode = e.chan.mode /\ v.chan.ops = e.chan.ops \cup {c}
        BY <3>3, <3>6, ZenonT(60) DEF Kept, Worlds, Chans, op_chmember
      <4>2. OpAllowed(o, c)
        BY <3>6, Zenon DEF OpAllowed
      <4> QED
        BY <3>1, <4>1, <4>2, KeptTrans, Zenon
    <3> QED
      BY <3>2, <3>4, <3>5, <3>6, Zenon
  <2> QED
    BY <2>1, <2>2
<1> HIDE DEF v
<1>5. \A d : OpAllowed(v, d) <=> OpAllowed(o, d)
  <2>1. SameAccess(o, v)
    BY <1>4, Zenon DEF Kept, SameAccess
  <2> QED
    BY <2>1, AccessKept, Zenon
<1>6. OpsOk(w, v)
  <2>1. v \in Worlds /\ v.reg.flags = w.reg.flags
    BY <1>3, <1>4, Zenon DEF Kept
  <2>2. \A d \in v.chan.ops : d \in w.chan.ops \/ OpAllowed(v, d)
    BY <1>3, <1>4, <1>5, Zenon
  <2> QED
    BY <1>2, <2>1, <2>2, LevelOps, Zenon
<1>7. /\ v \in Worlds /\ v.misused = w.misused /\ v.chan.alive = w.chan.alive
      /\ v.chan.users = w.chan.users /\ v.chan.serv = w.chan.serv
      /\ Present(v) /\ Stamped(v) /\ ModesOk(w, v)
  BY <1>2, <1>3, <1>4, Zenon DEF Kept, Sound, Present, Stamped, ModesOk, Enforced, Flagged
<1>8. Fine(w, v)
  BY <1>2, <1>6, <1>7, RestFine, Zenon
<1> QED
  BY <1>1, <1>8, Zenon DEF FineStep, w

\* LOGOUT: someone who loses access while opped keeps their status.
LEMMA LogoutFine ==
  ASSUME Sound(World), NEW c, Logout(c)
  PROVE  FineStep
<1> DEFINE w == World
           v == [w EXCEPT !.logged = @ \ {c}]
<1>1. To(v)
  BY Zenon DEF Logout
<1>2. w \in Worlds /\ Sound(w)
  BY DEF Sound
<1> HIDE DEF w
<1>3. v \in Worlds /\ v.chan = w.chan /\ v.reg = w.reg /\ v.misused = w.misused
  BY <1>2 DEF Worlds
<1> HIDE DEF v
<1>4. OpsOk(w, v)
  BY <1>2, <1>3, LevelOps, Zenon
<1>5. Present(v) /\ Stamped(v) /\ ModesOk(w, v)
  BY <1>2, <1>3, Zenon DEF Sound, Present, Stamped, ModesOk, Enforced, Flagged
<1>6. Fine(w, v)
  BY <1>2, <1>3, <1>4, <1>5, RestFine, Zenon
<1> QED
  BY <1>1, <1>6, Zenon DEF FineStep, w

------------------------------------------------------------------------------
(* ChanServ's commands.                                                     *)

\* Options that change take no right away from someone who stays an operator.
LEMMA FlagOps ==
  ASSUME NEW w, NEW v, v.reg.on = w.reg.on, v.reg.level = w.reg.level, v.logged = w.logged,
         v.chan.ops \subseteq w.chan.ops,
         Flagged(v, "NOOPS") => Flagged(w, "NOOPS") \/ v.chan.ops = {},
         \A c \in v.chan.ops : Flagged(v, "RESTRICTOPS") => Flagged(w, "RESTRICTOPS") \/ Level(w, c) >= S_C_OP
  PROVE  OpsOk(w, v)
<1>1. \A c : Level(v, c) = Level(w, c)
  BY Zenon DEF Level
<1>2. \A c \in v.chan.ops : OpAllowed(w, c) => OpAllowed(v, c)
  BY <1>1, Zenon DEF OpAllowed
<1> QED
  BY <1>2, Zenon DEF OpsOk

AutoJoined(w) == enable_inhabit(w, FALSE, TRUE)

\* join_service makes the channel that AUTOJOIN asks for.
LEMMA InhabitDead ==
  ASSUME NEW w \in Worlds, ~w.chan.alive, w.reg.on, NEW v, v = AutoJoined(w)
  PROVE  /\ v \in Worlds /\ v.reg = w.reg /\ v.logged = w.logged /\ v.misused = w.misused
         /\ v.cached = w.cached /\ v.burst = w.burst
         /\ v.chan.alive /\ v.chan.serv /\ v.chan.users = {} /\ v.chan.ops = {} /\ v.chan.ts = w.reg.ts
         /\ v.chan.mode = w.reg.emode
<1> DEFINE r == [w EXCEPT !.reg.flags = IF TRUE THEN @ ELSE @ \cup {"INHABIT"},
                          !.reg.ts = IF FALSE /\ w.chan.ts < @ THEN w.chan.ts ELSE @]
           ch == [NoChan EXCEPT !.alive = TRUE, !.ts = r.reg.ts, !.mode = r.reg.emode, !.serv = TRUE]
<1>1. v = join_service(r, TRUE)
  BY Zenon DEF enable_inhabit, AutoJoined
<1>2. r \in Worlds /\ r = w
  BY Zenon DEF Worlds, Regs
<1> HIDE DEF r
<1>3. v = [r EXCEPT !.chan = ch]
  BY <1>1, <1>2, Zenon DEF join_service
<1>4. /\ ch \in Chans /\ ch.alive /\ ch.serv /\ ch.users = {} /\ ch.ops = {} /\ ch.ts = r.reg.ts
      /\ ch.mode = r.reg.emode
  BY <1>2, ZenonT(60) DEF NoChan, Chans, Worlds, Regs
<1> HIDE DEF ch
<1> QED
  BY <1>2, <1>3, <1>4 DEF Worlds

\* part_service takes ChanServ off the channel, which goes if nobody else is on it.
LEMMA PartService ==
  ASSUME NEW w \in Worlds, NEW v, v = part_service(w)
  PROVE  /\ v \in Worlds /\ v.reg = w.reg /\ v.logged = w.logged /\ v.misused = w.misused
         /\ v.cached = w.cached /\ v.burst = w.burst /\ ~v.chan.serv /\ v.chan.users = w.chan.users
         /\ v.chan.ops \subseteq w.chan.ops
         /\ v.chan.alive => v.chan.users # {} /\ w.chan.alive
         /\ v.chan.users # {} => v.chan.alive = w.chan.alive /\ v.chan.ops = w.chan.ops
         /\ v.chan.alive => v.chan.ts = w.chan.ts /\ v.chan.mode = w.chan.mode
<1> DEFINE c == w.chan
           ch == IF c.users = {} THEN NoChan ELSE [c EXCEPT !.serv = FALSE]
<1>1. v = [w EXCEPT !.chan = ch]
  BY Zenon DEF part_service
<1>2. c \in Chans
  BY DEF Worlds
<1> HIDE DEF c
<1>3. /\ ch \in Chans /\ ~ch.serv /\ ch.users = c.users /\ ch.ops \subseteq c.ops
      /\ ch.alive => ch.users # {} /\ c.alive
      /\ ch.users # {} => ch.alive = c.alive /\ ch.ops = c.ops
      /\ ch.alive => ch.ts = c.ts /\ ch.mode = c.mode
  BY <1>2, Zenon DEF NoChan, Chans, Stamps
<1> HIDE DEF ch
<1>4. v \in Worlds /\ v.reg = w.reg /\ v.logged = w.logged /\ v.misused = w.misused
      /\ v.cached = w.cached /\ v.burst = w.burst /\ v.chan = ch
  BY <1>1, <1>3 DEF Worlds
<1> QED
  BY <1>3, <1>4 DEF c

\* What verify_member_reg leaves: the world with an expired suspension lifted.
LEMMA Verified ==
  ASSUME Sound(World), NEW e, e = V
  PROVE  /\ Kept(World, e) /\ e \in Worlds /\ e.chan = World.chan /\ e.reg.bans = World.reg.bans
         /\ e.reg.bants = World.reg.bants /\ Sound(e)
         /\ \A c : Level(e, c) = Level(World, c) /\ (OpAllowed(e, c) <=> OpAllowed(World, c))
<1>1. /\ Kept(World, e) /\ e.chan = World.chan /\ e.reg.bans = World.reg.bans
      /\ e.reg.bants = World.reg.bants
  BY ExpireKept, Zenon DEF Sound, V
<1>2. SameAccess(World, e)
  BY <1>1, Zenon DEF Kept, SameAccess
<1>3. Sound(e)
  BY <1>1, Zenon DEF Kept, Sound, Shaped, Present, Stamped, Flagged
<1> QED
  BY <1>1, <1>2, <1>3, AccessKept, Zenon DEF Sound

\* SET of an option.
LEMMA SetFine ==
  ASSUME Sound(World), NEW c, NEW f \in Options, NEW on \in BOOLEAN, s_chan_set(c, f, on)
  PROVE  FineStep
<1> DEFINE W == World
           e == V
           w == [e EXCEPT !.reg.flags = IF on THEN @ \cup {f} ELSE @ \ {f}]
           r == [w EXCEPT !.reg.ts = IF chan.alive THEN chan.ts ELSE @]
<1>1. To(CASE f = "NOOPS" /\ on -> ClearOps(w, S_C_OWNER + 1)
           [] f = "RESTRICTOPS" /\ on -> ClearOps(w, S_C_OP)
           [] f = "NOVOICES" /\ on -> [w EXCEPT !.chan.voiced = {}]
           [] f = "AUTOJOIN" /\ on -> enable_inhabit(r, FALSE, TRUE)
           [] f = "AUTOJOIN" /\ ~on -> part_service(w)
           [] OTHER -> w) /\ W.reg.on
  BY Zenon DEF s_chan_set, verify_member_reg, Active
<1>2. Kept(W, e) /\ e \in Worlds /\ e.chan = W.chan /\ Sound(e) /\ W.chan = chan /\ Sound(W)
  BY Verified, Zenon DEF World
<1>3. f # "INHABIT"
  BY ChanAssumption
<1> HIDE DEF W, e
<1>4. /\ w \in Worlds /\ w.chan = e.chan /\ w.logged = e.logged /\ w.misused = e.misused
      /\ w.reg.on = e.reg.on /\ w.reg.emode = e.reg.emode /\ w.reg.level = e.reg.level /\ w.reg.ts = e.reg.ts
      /\ \A g : g # f => (g \in w.reg.flags <=> g \in e.reg.flags)
      /\ f \in w.reg.flags <=> on
  BY <1>2, ZenonT(60) DEF Worlds, Regs
<1> HIDE DEF w
<1>5. /\ w.chan = W.chan /\ w.logged = W.logged /\ w.misused = W.misused
      /\ w.reg.on = W.reg.on /\ w.reg.emode = W.reg.emode /\ w.reg.level = W.reg.level /\ w.reg.ts = W.reg.ts
      /\ \A g : g # f => (g \in w.reg.flags <=> g \in W.reg.flags)
  BY <1>2, <1>4, Zenon DEF Kept
<1>6. \A d : Level(w, d) = Level(W, d)
  BY <1>5, Zenon DEF Level
<1>7. \A d \in Clients : Level(w, d) <= S_C_OWNER
  <2>1. w.reg.level \in [Clients -> Levels]
    BY <1>4 DEF Worlds, Regs
  <2> QED
    BY <2>1 DEF Level, Levels, S_C_OWNER
<1>8. ASSUME f # "AUTOJOIN" PROVE Present(w) /\ Stamped(w)
  <2>1. ("AUTOJOIN" \in w.reg.flags <=> "AUTOJOIN" \in W.reg.flags) /\ ("INHABIT" \in w.reg.flags <=> "INHABIT" \in W.reg.flags)
    BY <1>3, <1>5, <1>8, SMTT(60)
  <2> QED
    BY <1>2, <1>5, <2>1, ZenonT(60) DEF Sound, Present, Stamped, Flagged
<1>9. ASSUME NEW O \in SUBSET Clients, NEW v, v = [w EXCEPT !.chan.ops = O], O \subseteq W.chan.ops,
             f # "AUTOJOIN", "NOOPS" = f /\ on => O = {},
             "RESTRICTOPS" = f /\ on => \A d \in O : Level(W, d) >= S_C_OP
      PROVE  Fine(W, v)
  <2>1. Kept(w, v) /\ v.chan.ops = O /\ v.chan.mode = w.chan.mode /\ v.reg = w.reg
    <3>1. w \in Worlds /\ v = WithOps(w, O)
      BY <1>4, <1>9, Zenon DEF WithOps
    <3> QED
      BY <3>1, OpsKept, ZenonT(60)
  <2>2. /\ v \in Worlds /\ v.misused = W.misused
        /\ v.chan.alive = W.chan.alive /\ v.chan.users = W.chan.users /\ v.chan.serv = W.chan.serv
        /\ v.chan.mode = W.chan.mode /\ v.logged = W.logged
    BY <1>5, <2>1, Zenon DEF Kept
  <2>3. Present(v) /\ Stamped(v)
    BY <1>8, <1>9, <2>1, Zenon DEF Kept, Present, Stamped, Flagged
  <2>4. ModesOk(W, v)
    BY <1>5, <2>1, <2>2, ZenonT(60) DEF ModesOk, Enforced
  <2>5. Flagged(v, "NOOPS") => Flagged(W, "NOOPS") \/ v.chan.ops = {}
    <3>1. CASE f = "NOOPS"
      BY <1>4, <1>9, <2>1, <3>1, ZenonT(60) DEF Flagged
    <3>2. CASE f # "NOOPS"
      BY <1>5, <2>1, <3>2, ZenonT(60) DEF Flagged
    <3> QED
      BY <3>1, <3>2
  <2>6. \A d \in v.chan.ops : Flagged(v, "RESTRICTOPS") => Flagged(W, "RESTRICTOPS") \/ Level(W, d) >= S_C_OP
    <3>1. CASE f = "RESTRICTOPS"
      BY <1>4, <1>9, <2>1, <3>1, Zenon DEF Flagged
    <3>2. CASE f # "RESTRICTOPS"
      BY <1>5, <2>1, <3>2, Zenon DEF Flagged
    <3> QED
      BY <3>1, <3>2
  <2>7. OpsOk(W, v)
    BY <1>5, <1>9, <2>1, <2>2, <2>5, <2>6, FlagOps, ZenonT(60)
  <2> QED
    BY <1>2, <2>2, <2>3, <2>4, <2>7, RestFine, ZenonT(60)
<1>10. w.chan.ops \in SUBSET Clients /\ w.chan.ops = W.chan.ops
  BY <1>4, <1>5 DEF Worlds, Chans
<1>11. FineStep = \E v : To(v) /\ Fine(W, v)
  BY DEF FineStep, W
<1>12. CASE f = "NOOPS" /\ on
  <2> DEFINE O == {d \in w.chan.ops : Level(w, d) >= S_C_OWNER + 1}
             v == [w EXCEPT !.chan.ops = O]
  <2>1. To(v)
    BY <1>1, <1>12 DEF ClearOps
  <2>2. O = {}
    <3> SUFFICES ASSUME NEW d \in w.chan.ops, Level(w, d) >= S_C_OWNER + 1 PROVE FALSE
      OBVIOUS
    <3>1. Level(w, d) \in Int
      <4>1. w.reg.level \in [Clients -> Levels] /\ d \in Clients
        BY <1>4, <1>10 DEF Worlds, Regs
      <4> QED
        BY <4>1, SMTT(60) DEF Level, Levels, S_C_OWNER
    <3>2. Level(w, d) <= S_C_OWNER
      BY <1>7, <1>10
    <3> HIDE DEF Level
    <3> QED
      BY <3>1, <3>2 DEF S_C_OWNER
  <2> HIDE DEF O
  <2>3. Fine(W, v)
    BY <1>9, <1>12, <2>2, SMTT(60)
  <2> QED
    BY <1>11, <2>1, <2>3, Zenon
<1>13. CASE f = "RESTRICTOPS" /\ on
  <2> DEFINE O == {d \in w.chan.ops : Level(w, d) >= S_C_OP}
             v == [w EXCEPT !.chan.ops = O]
  <2>1. To(v)
    BY <1>1, <1>13 DEF ClearOps
  <2>2. O \subseteq W.chan.ops /\ O \in SUBSET Clients /\ \A d \in O : Level(W, d) >= S_C_OP
    BY <1>6, <1>10, Zenon
  <2> HIDE DEF O
  <2>3. Fine(W, v)
    BY <1>9, <1>13, <2>2
  <2> QED
    BY <1>11, <2>1, <2>3, Zenon
<1>14. CASE f = "AUTOJOIN" /\ on
  <2> DEFINE v == enable_inhabit(r, FALSE, TRUE)
  <2>1. To(v)
    BY <1>1, <1>14, Zenon
  <2>2. /\ r \in Worlds /\ r.chan = w.chan /\ r.logged = w.logged /\ r.misused = w.misused
        /\ r.reg.on = w.reg.on /\ r.reg.emode = w.reg.emode /\ r.reg.level = w.reg.level
        /\ r.reg.flags = w.reg.flags /\ (chan.alive => r.reg.ts = chan.ts)
    <3>1. chan.ts \in Stamps
      BY <1>2 DEF Worlds, Chans
    <3> QED
      BY <1>4, <3>1, Zenon DEF Worlds, Regs
  <2>3. v = AutoJoined(r) /\ v = enable_inhabit(r, FALSE, TRUE)
    BY DEF AutoJoined
  <2> HIDE DEF r, v
  <2>4. Flagged(r, "AUTOJOIN") /\ r.reg.on /\ ~r.misused
    BY <1>1, <1>2, <1>4, <1>5, <1>14, <2>2, ZenonT(60) DEF Flagged, Sound
  <2>5. \A g : g \notin {"INHABIT", "AUTOJOIN"} => (g \in r.reg.flags <=> g \in W.reg.flags)
    BY <1>5, <1>14, <2>2
  <2>6. CASE chan.alive
    <3>1. /\ Along(r, v) /\ v.chan.users = r.chan.users /\ v.chan.ops = r.chan.ops
      <4>1. r \in Worlds /\ r.chan.alive /\ r.reg.on /\ Flagged(r, "AUTOJOIN")
        BY <1>2, <1>5, <2>2, <2>4, <2>6, ZenonT(60)
      <4>2. v = enable_inhabit(r, FALSE, TRUE)
        BY <2>3
      <4> QED
        BY <4>1, <4>2, InhabitAlong, ZenonT(60)
    <3>2. Shaped(r) /\ Stamped(r) /\ r.reg.emode = W.reg.emode /\ r.chan = W.chan
      BY <1>2, <1>5, <2>2, <2>6, ZenonT(60) DEF Sound, Shaped, Stamped
    <3>3. Present(r)
      BY <2>4, Zenon DEF Present
    <3>4. Sound(v)
      BY <2>4, <3>1, <3>2, <3>3, ZenonT(60) DEF Along, Sound
    <3>5. /\ v.reg.on = W.reg.on /\ v.reg.level = W.reg.level /\ v.logged = W.logged
          /\ v.chan.ops = W.chan.ops
      BY <1>5, <2>2, <3>1, ZenonT(60) DEF Along, SameRights, SameAccess
    <3>6. Flagged(v, "NOOPS") => Flagged(W, "NOOPS")
      BY <2>5, <3>1, SMTT(60) DEF Along, SameRights, SameAccess, Flagged
    <3>7. Flagged(v, "RESTRICTOPS") => Flagged(W, "RESTRICTOPS")
      BY <2>5, <3>1 DEF Along, SameRights, SameAccess, Flagged
    <3>8. OpsOk(W, v)
      BY <3>5, <3>6, <3>7, FlagOps, Zenon
    <3>9. ModesOk(W, v)
      BY <1>2, <2>6, <3>1, <3>2, ZenonT(60) DEF Along, ModesOk, Enforced
    <3>10. BansOk(W, v)
      BY <3>1, <3>2, Zenon DEF BansOk
    <3> QED
      BY <1>11, <2>1, <3>4, <3>8, <3>9, <3>10, ZenonT(60) DEF Fine
  <2>7. CASE ~chan.alive
    <3>1. /\ v \in Worlds /\ v.reg = r.reg /\ v.logged = r.logged /\ v.misused = r.misused
          /\ v.chan.alive /\ v.chan.serv /\ v.chan.users = {} /\ v.chan.ops = {} /\ v.chan.ts = r.reg.ts
          /\ v.chan.mode = r.reg.emode
      <4>1. r \in Worlds /\ ~r.chan.alive /\ r.reg.on
        BY <1>2, <1>5, <2>2, <2>4, <2>7, Zenon
      <4> QED
        BY <2>3, <4>1, InhabitDead, Zenon
    <3>2. Sound(v)
      BY <2>4, <3>1, Zenon DEF Sound, Shaped, Present, Stamped, Flagged
    <3>3. OpsOk(W, v) /\ BansOk(W, v)
      BY <3>1, Zenon DEF OpsOk, BansOk
    <3>4. ModesOk(W, v)
      BY <3>1, Zenon DEF ModesOk, Enforced
    <3> QED
      BY <1>11, <2>1, <3>2, <3>3, <3>4, Zenon DEF Fine
  <2> QED
    BY <2>6, <2>7
<1>15. CASE f = "AUTOJOIN" /\ ~on
  <2> DEFINE v == part_service(w)
  <2>1. To(v)
    BY <1>1, <1>15
  <2>2. v = part_service(w)
    OBVIOUS
  <2> HIDE DEF v
  <2>3. /\ v \in Worlds /\ v.reg = w.reg /\ v.logged = w.logged /\ v.misused = w.misused
        /\ ~v.chan.serv /\ v.chan.users = w.chan.users /\ v.chan.ops \subseteq w.chan.ops
        /\ v.chan.alive => v.chan.users # {} /\ w.chan.alive
        /\ v.chan.users # {} => v.chan.alive = w.chan.alive
        /\ v.chan.alive => v.chan.ts = w.chan.ts /\ v.chan.mode = w.chan.mode
    <3>1. w \in Worlds
      BY <1>4
    <3> QED
      BY <2>2, <3>1, PartService, SMTT(20)
  <2>4. ~Flagged(v, "AUTOJOIN")
    BY <1>4, <1>15, <2>3, Zenon DEF Flagged
  <2>5. Sound(v)
    BY <1>2, <1>5, <2>3, <2>4, Zenon DEF Sound, Shaped, Present, Stamped
  <2>6. ModesOk(W, v) /\ BansOk(W, v)
    BY <1>5, <2>3, Zenon DEF ModesOk, BansOk, Enforced
  <2>7. Flagged(v, "NOOPS") => Flagged(W, "NOOPS")
    BY <1>5, <1>15, <2>3, SMTT(60) DEF Flagged
  <2>8. Flagged(v, "RESTRICTOPS") => Flagged(W, "RESTRICTOPS")
    BY <1>5, <1>15, <2>3 DEF Flagged
  <2>9. OpsOk(W, v)
    BY <1>5, <2>3, <2>7, <2>8, FlagOps, ZenonT(60)
  <2> QED
    BY <1>11, <2>1, <2>5, <2>6, <2>9, ZenonT(60) DEF Fine
<1>16. CASE ~(f \in {"NOOPS", "RESTRICTOPS", "AUTOJOIN"} /\ on) /\ f # "AUTOJOIN"
  <2> DEFINE u == [w EXCEPT !.chan.voiced = {}]
  <2>1. To(u) \/ To(w)
    BY <1>1, <1>16
  <2>2. Present(w) /\ Stamped(w) /\ w \in Worlds
    BY <1>4, <1>8, <1>16, ZenonT(60)
  <2>3. w = [w EXCEPT !.chan.ops = W.chan.ops]
    BY <1>4, <1>5 DEF Worlds, Chans
  <2>4. W.chan.ops \in SUBSET Clients
    BY <1>10, Zenon
  <2>5. Fine(W, w)
    BY <1>9, <1>16, <2>3, <2>4
  <2>6. /\ u \in Worlds /\ u.reg = w.reg /\ u.logged = w.logged /\ u.misused = w.misused
        /\ u.chan.alive = w.chan.alive /\ u.chan.users = w.chan.users /\ u.chan.serv = w.chan.serv
        /\ u.chan.ts = w.chan.ts /\ u.chan.mode = w.chan.mode /\ u.chan.ops = w.chan.ops
        /\ u.chan.excepts = w.chan.excepts
    BY <2>2 DEF Worlds, Chans
  <2> HIDE DEF u
  <2>7. Sound(u) /\ ModesOk(W, u) /\ OpsOk(W, u)
    BY <2>5, <2>6, Zenon DEF Fine, Sound, Shaped, Present, Stamped, ModesOk, Enforced, OpsOk, OpAllowed, Level, Flagged
  <2>8. BansOk(W, u)
    BY <1>5, <2>6, Zenon DEF BansOk
  <2>9. Fine(W, u)
    BY <2>7, <2>8 DEF Fine
  <2> QED
    BY <1>11, <2>1, <2>5, <2>9, Zenon
<1> QED
  BY <1>12, <1>13, <1>14, <1>15, <1>16

\* SET ENFORCEMODES: the modes are on the channel from now on.
LEMMA EnforceFine ==
  ASSUME Sound(World), NEW c, NEW em \in SUBSET Modes, SetEnforceModes(c, em)
  PROVE  FineStep
<1> DEFINE W == World
           e == V
           w == [e EXCEPT !.reg.emode = em]
           v == h_chanserv_mode_simple(w)
<1>1. To(IF chan.alive THEN v ELSE w) /\ Active(W)
  BY Zenon DEF SetEnforceModes, verify_member_reg
<1>2. Kept(W, e) /\ e \in Worlds /\ e.chan = W.chan /\ W.chan = chan /\ Sound(W)
  BY Verified, Zenon DEF World
<1>3. W.reg.susp = "no" => e.reg.susp = "no"
  BY ExpireAlong, Zenon DEF V, Sound
<1> HIDE DEF W, e
<1>4. /\ w \in Worlds /\ w.chan = e.chan /\ w.logged = e.logged /\ w.misused = e.misused
      /\ w.reg.on = e.reg.on /\ w.reg.flags = e.reg.flags /\ w.reg.level = e.reg.level
      /\ w.reg.ts = e.reg.ts /\ w.reg.susp = e.reg.susp
  BY <1>2, Zenon DEF Worlds, Regs
<1> HIDE DEF w
<1>5. v = h_chanserv_mode_simple(w)
  OBVIOUS
<1> HIDE DEF v
<1>6. OnlyModes(w, v) /\ v.reg.ts = w.reg.ts
  BY <1>4, <1>5, SimpleHook, Zenon
<1>7. ASSUME NEW x, x = v \/ (x = w /\ ~chan.alive) PROVE Fine(W, x)
  <2>1. /\ x \in Worlds /\ x.misused = W.misused /\ x.chan.alive = W.chan.alive
        /\ x.chan.users = W.chan.users /\ x.chan.serv = W.chan.serv /\ x.chan.ts = W.chan.ts
        /\ x.chan.ops = W.chan.ops /\ x.reg.on = W.reg.on /\ x.reg.flags = W.reg.flags
        /\ x.reg.level = W.reg.level /\ x.reg.ts = W.reg.ts /\ x.logged = W.logged
    BY <1>2, <1>4, <1>6, <1>7, ZenonT(60) DEF Kept, OnlyModes
  <2>2. Present(x) /\ Stamped(x)
    BY <1>2, <2>1, Zenon DEF Sound, Present, Stamped, Flagged
  <2>3. OpsOk(W, x)
    BY <2>1, FlagOps, Zenon DEF Flagged
  <2>4. ModesOk(W, x)
    BY <1>2, <1>3, <1>4, <1>6, <1>7, <2>1, ZenonT(60) DEF ModesOk, OnlyModes, Kept
  <2> QED
    BY <1>2, <2>1, <2>2, <2>3, <2>4, RestFine, Zenon
<1>8. To(v) \/ (To(w) /\ ~chan.alive)
  BY <1>1, Zenon
<1> QED
  BY <1>7, <1>8, Zenon DEF FineStep, W

\* A command that only changes statuses, modes it adds, or bans.
LEMMA CommandStep ==
  ASSUME Sound(World), NEW e, e = V, NEW v, To(v), Kept(e, v), v.chan.mode = e.chan.mode,
         \A c \in v.chan.ops : c \in e.chan.ops \/ OpAllowed(e, c)
  PROVE  FineStep
<1>1. /\ Kept(World, e) /\ e.chan = World.chan
      /\ \A c : Level(e, c) = Level(World, c) /\ (OpAllowed(e, c) <=> OpAllowed(World, c))
  BY Verified, Zenon
<1>2. Kept(World, v)
  BY <1>1, KeptTrans, Zenon
<1> QED
  BY <1>1, <1>2, KeptStep, Zenon

\* OP.
LEMMA OpFine ==
  ASSUME Sound(World), NEW c \in Clients, s_chan_op(c)
  PROVE  FineStep
<1> DEFINE e == V
           v == op_chmember(e, c)
<1>1. To(v) /\ Level(World, c) >= S_C_OP /\ ~Flagged(World, "NOOPS")
  BY Zenon DEF s_chan_op, verify_member_reg
<1>2. e \in Worlds /\ e = V /\ (OpAllowed(e, c) <=> OpAllowed(World, c))
  BY Verified, Zenon
<1>3. OpAllowed(e, c)
  BY <1>1, <1>2, Zenon DEF OpAllowed
<1>0. e \in Worlds
  BY <1>2
<1> HIDE DEF e
<1>4. Kept(e, v) /\ v.chan.mode = e.chan.mode /\ v.chan.ops = e.chan.ops \cup {c}
  BY <1>0, Zenon DEF Kept, Worlds, Chans, op_chmember
<1> HIDE DEF v
<1> QED
  BY <1>1, <1>2, <1>3, <1>4, CommandStep, Zenon

\* VOICE.
LEMMA VoiceFine ==
  ASSUME Sound(World), NEW c \in Clients, s_chan_voice(c)
  PROVE  FineStep
<1> DEFINE e == V
           v == [e EXCEPT !.chan.voiced = @ \cup {c}]
<1>1. To(v)
  BY Zenon DEF s_chan_voice
<1>2. e \in Worlds /\ e = V
  BY Verified, Zenon
<1> HIDE DEF e
<1>4. Kept(e, v) /\ v.chan.mode = e.chan.mode /\ v.chan.ops = e.chan.ops
  BY <1>2 DEF Kept, Worlds, Chans
<1> HIDE DEF v
<1> QED
  BY <1>1, <1>2, <1>4, CommandStep, Zenon

\* CLEAROPS and CLEARALLOPS.
LEMMA ClearOpsFine ==
  ASSUME Sound(World), NEW level, To(ClearOps(V, level))
  PROVE  FineStep
<1> DEFINE e == V
           O == {c \in e.chan.ops : Level(e, c) >= level}
           v == WithOps(e, O)
<1>1. To(v)
  BY Zenon DEF ClearOps, WithOps
<1>2. e \in Worlds /\ e = V
  BY Verified, Zenon
<1> HIDE DEF e
<1>3. O \in SUBSET Clients /\ O \subseteq e.chan.ops
  BY <1>2 DEF Worlds, Chans
<1>4. v = WithOps(e, O)
  OBVIOUS
<1> HIDE DEF O, v
<1>5. Kept(e, v) /\ v.chan.ops = O /\ v.chan.mode = e.chan.mode
  BY <1>2, <1>3, <1>4, OpsKept, SMTT(20)
<1> QED
  BY <1>1, <1>2, <1>3, <1>5, CommandStep, ZenonT(60)

\* CLEARMODES is the one step that takes enforced modes off.
LEMMA ClearModesFine ==
  ASSUME Sound(World), NEW c, s_chan_clearmodes(c)
  PROVE  \E v : To(v) /\ Sound(v) /\ OpsOk(World, v) /\ BansOk(World, v)
<1> DEFINE W == World
           e == V
           v == [e EXCEPT !.chan.mode = @ \ Clearable]
<1>1. To(v)
  BY Zenon DEF s_chan_clearmodes
<1>2. Kept(W, e) /\ e \in Worlds /\ e.chan = W.chan /\ Sound(e)
  BY Verified, Zenon
<1> HIDE DEF e, W
<1>3. Kept(e, v) /\ v.chan.ops = e.chan.ops
  BY <1>2, SMTT(60) DEF Kept, Worlds, Chans
<1> HIDE DEF v
<1>4. Kept(W, v) /\ v.chan.ops = W.chan.ops
  BY <1>2, <1>3, KeptTrans, Zenon
<1>5. Sound(v)
  BY <1>2, <1>3, Zenon DEF Kept, Sound, Shaped, Present, Stamped, Flagged
<1>6. OpsOk(W, v)
  BY <1>4, FlagOps, Zenon DEF Kept, Flagged
<1>7. BansOk(W, v)
  BY <1>4, Zenon DEF BansOk, Kept
<1> QED
  BY <1>1, <1>5, <1>6, <1>7, ZenonT(60) DEF W

\* CLEARBANS and UNBAN.
LEMMA ClearBansFine ==
  ASSUME Sound(World), NEW c, s_chan_clearbans(c) \/ s_chan_unban(c)
  PROVE  FineStep
<1> DEFINE e == V
           a == e.chan.bans \cap Listed
           b == {m \in e.chan.bans : c \notin Matches[m]}
<1>1. To([e EXCEPT !.chan.bans = a]) \/ To([e EXCEPT !.chan.bans = b])
  BY Zenon DEF s_chan_clearbans, s_chan_unban
<1>2. e \in Worlds /\ e = V
  BY Verified, Zenon
<1> HIDE DEF e
<1>3. a \in SUBSET Masks /\ b \in SUBSET Masks
  BY <1>2 DEF Worlds, Chans
<1>4. PICK bs \in SUBSET Masks : To([e EXCEPT !.chan.bans = bs])
  BY <1>1, <1>3, Zenon
<1> DEFINE v == [e EXCEPT !.chan.bans = bs]
<1>5. To(v) /\ v = [e EXCEPT !.chan.bans = bs]
  BY <1>4
<1> HIDE DEF v
<1>6. Kept(e, v) /\ v.chan.mode = e.chan.mode /\ v.chan.ops = e.chan.ops
  BY <1>2, <1>4, <1>5, SMTT(60) DEF Kept, Worlds, Chans
<1> QED
  BY <1>2, <1>5, <1>6, CommandStep, Zenon

\* DELBAN.
LEMMA DelBanFine ==
  ASSUME Sound(World), NEW c, NEW m, s_chan_delban(c, m)
  PROVE  FineStep
<1> DEFINE e == V
<1>1. PICK i : To([e EXCEPT !.reg.bans = Without(@, {i}), !.reg.bants = @ + 1, !.chan.bans = @ \ {m}])
  BY Zenon DEF s_chan_delban
<1>2. e \in Worlds /\ e = V
  BY Verified, Zenon
<1> HIDE DEF e
<1>3. PICK bs : bs = Without(e.reg.bans, {i})
  OBVIOUS
<1>4. PICK n : n = e.reg.bants + 1
  OBVIOUS
<1>5. PICK ms : ms = e.chan.bans \ {m}
  BY Zenon
<1>6. e.reg.bans \in Seq(Bans) /\ n \in Nat /\ ms \in SUBSET Masks
  BY <1>2, <1>4, <1>5 DEF Worlds, Regs, Chans
<1>7. bs \in Seq(Bans)
  BY <1>3, <1>6, WithoutType, Zenon
<1> DEFINE v == [e EXCEPT !.reg.bans = bs, !.reg.bants = n, !.chan.bans = ms]
<1>8. v = [e EXCEPT !.reg.bans = Without(@, {i}), !.reg.bants = @ + 1, !.chan.bans = @ \ {m}]
  BY <1>2, <1>3, <1>4, <1>5 DEF Worlds, Regs, Chans
<1>9. To(v) /\ v = [e EXCEPT !.reg.bans = bs, !.reg.bants = n, !.chan.bans = ms]
  BY <1>1, <1>8, Zenon
<1> HIDE DEF v
<1>10. Kept(e, v) /\ v.chan.mode = e.chan.mode /\ v.chan.ops = e.chan.ops
  BY <1>2, <1>6, <1>7, <1>9, ZenonT(60) DEF Kept, Worlds, Chans, Regs
<1> QED
  BY <1>2, <1>9, <1>10, CommandStep, Zenon

\* MODBAN.
LEMMA ModBanFine ==
  ASSUME Sound(World), NEW c, NEW m, NEW level \in BanLevels, s_chan_modban(c, m, level)
  PROVE  FineStep
<1> DEFINE e == V
<1>1. PICK i \in DOMAIN reg.bans : To([e EXCEPT !.reg.bans[i].level = level, !.reg.bants = @ + 1])
  BY Zenon DEF s_chan_modban, Yielding
<1>2. e \in Worlds /\ e = V /\ e.reg.bans = reg.bans
  BY Verified, Zenon DEF World
<1> HIDE DEF e
<1>3. PICK bs : bs = [e.reg.bans EXCEPT ![i].level = level]
  BY Zenon
<1>4. e.reg.bans \in Seq(Bans) /\ level \in Nat
  BY <1>2, ChanAssumption DEF Worlds, Regs
<1>5. bs \in Seq(Bans)
  <2> DEFINE b == e.reg.bans
             new == [b[i] EXCEPT !.level = level]
  <2>1. b \in Seq(Bans) /\ i \in DOMAIN b /\ bs = [b EXCEPT ![i] = new]
    BY <1>1, <1>2, <1>3, <1>4
  <2> HIDE DEF b
  <2>2. b[i] \in Bans
    BY <2>1
  <2>3. new \in Bans
    BY <1>4, <2>2 DEF Bans
  <2> HIDE DEF new
  <2> QED
    BY <2>1, <2>3
<1>6. PICK v : v = [e EXCEPT !.reg.bans[i].level = level, !.reg.bants = @ + 1]
  OBVIOUS
<1>7. v = [e EXCEPT !.reg.bans = bs, !.reg.bants = @ + 1]
  BY <1>3, <1>6, Zenon
<1>8. Kept(e, v) /\ v.chan = e.chan
  <2>1. e \in Worlds
    BY <1>2
  <2>2. PICK n : n = e.reg.bants + 1
    OBVIOUS
  <2>3. n \in Nat
    BY <2>1, <2>2 DEF Worlds, Regs
  <2>4. v = [e EXCEPT !.reg.bans = bs, !.reg.bants = n]
    BY <1>7, <2>2, Zenon
  <2> QED
    BY <1>5, <2>1, <2>3, <2>4, Zenon DEF Kept, Worlds, Regs
<1>9. To(v)
  BY <1>1, <1>6, Zenon
<1> QED
  BY <1>2, <1>8, <1>9, CommandStep, Zenon

\* ADDBAN: those whom the ban matches are kicked, and the channel stays.
LEMMA AddBanFine ==
  ASSUME Sound(World), NEW c, NEW m \in Masks, NEW level \in BanLevels, NEW hold \in {"perm", "temp"},
         s_chan_addban(c, m, level, hold)
  PROVE  FineStep
<1> DEFINE W == World
           e == V
           w == [e EXCEPT !.reg.bans = <<[mask |-> m, level |-> level, hold |-> hold]>> \o @]
           hits == {x \in chan.users \cap Matches[m] : ~find_exempt(w, x) /\ Level(w, x) < level}
<1>1. /\ \/ To(w)
         \/ \E order \in Nicks : Range(order) = hits /\ To(KickMembers(w, order, m))
      /\ W.reg.on
  BY Zenon DEF s_chan_addban, verify_member_reg, Active
<1>2. Kept(W, e) /\ e \in Worlds /\ e.chan = W.chan /\ W.chan = chan /\ Sound(W)
  BY Verified, Zenon DEF World
<1> HIDE DEF W, e
<1>3. Kept(e, w) /\ w.chan = e.chan
  <2>1. PICK bs : bs = <<[mask |-> m, level |-> level, hold |-> hold]>> \o e.reg.bans
    BY Zenon
  <2>2. e.reg.bans \in Seq(Bans) /\ level \in Nat
    BY <1>2, ChanAssumption DEF Worlds, Regs
  <2>3. [mask |-> m, level |-> level, hold |-> hold] \in Bans
    BY <2>2 DEF Bans
  <2>4. bs \in Seq(Bans)
    BY <2>1, <2>2, <2>3
  <2>5. w = [e EXCEPT !.reg.bans = bs]
    BY <2>1, Zenon
  <2>6. e \in Worlds
    BY <1>2
  <2> HIDE DEF w
  <2> QED
    BY <2>4, <2>5, <2>6, Zenon DEF Kept, Worlds, Regs
<1>4. hits \subseteq chan.users
  OBVIOUS
<1> HIDE DEF w, hits
<1>5. Kept(W, w) /\ w.chan = W.chan /\ w \in Worlds
  BY <1>2, <1>3, KeptTrans, Zenon DEF Kept
<1>6. Fine(W, w)
  BY <1>2, <1>5, KeptFine, Zenon
<1>7. CASE To(w)
  BY <1>6, <1>7, Zenon DEF FineStep, W
<1>8. ASSUME NEW order \in Nicks, Range(order) = hits, To(KickMembers(w, order, m))
      PROVE  FineStep
  <2> DEFINE v == KickMembers(w, order, m)
  <2>1. order \in Seq(Clients)
    BY DEF Nicks
  <2>2. CASE chan.alive
    <3>1. w.chan.alive /\ w.reg.on
      BY <1>1, <1>2, <1>5, <2>2, Zenon DEF Kept
    <3>2. v = KickMembers(w, order, m)
      OBVIOUS
    <3> HIDE DEF v
    <3>3. Along(w, v) /\ v.chan.users \subseteq w.chan.users /\ v.chan.ops \subseteq w.chan.ops
      BY <1>5, <2>1, <3>1, <3>2, KicksAlong, Zenon
    <3>4. Sound(w)
      BY <1>6, Zenon DEF Fine
    <3>5. Fine(w, v)
      BY <3>1, <3>3, <3>4, AlongCalm, CalmFine, Zenon
    <3>6. SameAccess(W, w) /\ SameAccess(w, v)
      BY <1>5, <3>3, Zenon DEF Kept, SameAccess, Along, SameRights
    <3>7. \A x : (OpAllowed(v, x) <=> OpAllowed(W, x))
      BY <3>6, AccessKept, Zenon
    <3>8. OpsOk(W, v)
      BY <1>5, <3>3, <3>7, Zenon DEF OpsOk
    <3>9. ModesOk(W, v)
      BY <1>2, <1>5, <2>2, <3>3, Zenon DEF ModesOk, Along, Enforced, Kept
    <3>10. BansOk(W, v)
      BY <1>5, <3>3, Zenon DEF BansOk
    <3>11. To(v)
      BY <1>8 DEF v
    <3> QED
      BY <3>5, <3>8, <3>9, <3>10, <3>11, Zenon DEF Fine, FineStep, W
  <2>3. CASE ~chan.alive
    <3>1. Range(order) = {}
      BY <1>2, <1>4, <1>8, <2>3 DEF Sound, Shaped
    <3>2. Len(order) = 0
      <4>1. CASE Len(order) # 0
        <5>1. 1 \in DOMAIN order
          BY <2>1, <4>1
        <5>2. order[1] \in Range(order)
          BY <5>1 DEF Range
        <5> QED
          BY <3>1, <5>2
      <4> QED
        BY <4>1
    <3>3. PICK g : KickStages(g, w, order, m, Len(order)) /\ v = g[Len(order)]
      BY <2>1, <3>2, KickedStages
    <3>4. v = w
      BY <3>2, <3>3 DEF KickStages
    <3> QED
      BY <1>6, <1>8, <3>4, ZenonT(60) DEF FineStep, W
  <2> QED
    BY <2>2, <2>3
<1> QED
  BY <1>1, <1>7, <1>8

------------------------------------------------------------------------------
(* Registrations, suspensions and the events.                               *)

\* REGISTER and CHANREGISTER: ChanServ is on no channel that is not registered.
LEMMA RegisterFine ==
  ASSUME Sound(World), ~reg.on, NEW c \in Clients, NEW ts \in Stamps, To(Registered(c, ts))
  PROVE  FineStep
<1> DEFINE W == World
           n == [NoReg EXCEPT !.on = TRUE, !.ts = ts, !.level[c] = S_C_OWNER]
           z == [x \in Clients |-> 0]
           v == [W EXCEPT !.reg = n, !.cached = z]
<1>1. To(v) /\ Sound(W) /\ ~W.reg.on /\ W \in Worlds
  BY Zenon DEF Registered, World, Sound
<1>2. n \in Regs /\ n.on /\ n.flags = {}
  <2>1. NoReg \in Regs /\ NoReg.flags = {} /\ NoReg.level \in [Clients -> Levels]
    BY DEF NoReg, Regs, Levels, S_C_OWNER, Stamps
  <2>2. PICK l : l = [NoReg.level EXCEPT ![c] = S_C_OWNER]
    BY Zenon
  <2>3. l \in [Clients -> Levels]
    BY <2>1, <2>2 DEF Levels, S_C_OWNER
  <2>4. n = [NoReg EXCEPT !.on = TRUE, !.ts = ts, !.level = l]
    <3>1. NoReg.level = [NoReg EXCEPT !.on = TRUE, !.ts = ts].level
      BY <2>1 DEF Regs
    <3> QED
      BY <2>2, <3>1, Zenon
  <2> HIDE DEF n
  <2> QED
    BY <2>1, <2>3, <2>4, Zenon DEF Regs
<1>3. z \in [Clients -> Nat]
  OBVIOUS
<1> HIDE DEF W, n, z
<1>4. /\ v \in Worlds /\ v.reg = n /\ v.chan = W.chan /\ v.misused = W.misused
  BY <1>1, <1>2, <1>3, Zenon DEF Worlds
<1> HIDE DEF v
<1>5. Sound(v)
  BY <1>1, <1>2, <1>4, Zenon DEF Sound, Shaped, Present, Stamped, Flagged
<1>6. OpsOk(W, v) /\ ModesOk(W, v) /\ BansOk(W, v)
  BY <1>1, <1>4, Zenon DEF OpsOk, ModesOk, BansOk
<1> QED
  BY <1>1, <1>5, <1>6, Zenon DEF Fine, FineStep, W

\* CHANDROP takes ChanServ off the channel with the registration.
LEMMA DropFine ==
  ASSUME Sound(World), o_chan_chandrop
  PROVE  FineStep
<1> DEFINE W == World
           p == part_service(W)
           z == [c \in Clients |-> 0]
           v == [p EXCEPT !.reg = NoReg, !.cached = z]
<1>1. To(v) /\ Sound(W) /\ W \in Worlds
  BY ZenonT(60) DEF o_chan_chandrop, Sound
<1>2. NoReg \in Regs /\ ~NoReg.on /\ NoReg.flags = {} /\ z \in [Clients -> Nat]
  BY DEF NoReg, Regs, Levels, S_C_OWNER, Stamps
<1>0. p = part_service(W)
  OBVIOUS
<1> HIDE DEF W, p, z
<1>3. /\ p \in Worlds /\ p.misused = W.misused /\ ~p.chan.serv /\ p.chan.users = W.chan.users
      /\ p.chan.ops \subseteq W.chan.ops
      /\ p.chan.alive => p.chan.users # {} /\ W.chan.alive
      /\ p.chan.users # {} => p.chan.alive = W.chan.alive
  BY <1>0, <1>1, PartService, Zenon
<1>4. v \in Worlds /\ v.reg = NoReg /\ v.chan = p.chan /\ v.misused = p.misused
  BY <1>2, <1>3, Zenon DEF Worlds
<1> HIDE DEF v
<1>5. Sound(v)
  BY <1>1, <1>2, <1>3, <1>4, Zenon DEF Sound, Shaped, Present, Stamped
<1>6. \A c : OpAllowed(v, c)
  BY <1>2, <1>4, Zenon DEF OpAllowed, Flagged
<1>7. OpsOk(W, v) /\ ModesOk(W, v) /\ BansOk(W, v)
  BY <1>2, <1>3, <1>4, <1>6, Zenon DEF OpsOk, ModesOk, BansOk
<1> QED
  BY <1>1, <1>5, <1>7, Zenon DEF Fine, FineStep, W

\* A suspension begins, is lifted or runs out.
LEMMA SuspendFine ==
  ASSUME Sound(World), NEW su \in {"no", "yes", "over"}, To([World EXCEPT !.reg.susp = su])
  PROVE  FineStep
<1> DEFINE w == World
           v == [w EXCEPT !.reg.susp = su]
<1>1. To(v) /\ w \in Worlds
  BY DEF Sound
<1> HIDE DEF w
<1>2. Kept(w, v) /\ v.chan = w.chan
  BY <1>1, Zenon DEF Kept, Worlds, Regs
<1> HIDE DEF v
<1> QED
  BY <1>1, <1>2, KeptStep, Zenon DEF w

\* A temporary ban runs out.
LEMMA BanEndsFine ==
  ASSUME Sound(World), BanEnds
  PROVE  FineStep
<1> DEFINE e == World
<1>1. PICK i \in DOMAIN e.reg.bans : To([e EXCEPT !.reg.bans[i].hold = "over"])
  BY Zenon DEF BanEnds, World
<1>2. e \in Worlds
  BY DEF Sound
<1> HIDE DEF e
<1>3. PICK bs : bs = [e.reg.bans EXCEPT ![i].hold = "over"]
  BY Zenon
<1>4. e.reg.bans \in Seq(Bans)
  BY <1>2 DEF Worlds, Regs
<1>5. bs \in Seq(Bans)
  <2> DEFINE b == e.reg.bans
             new == [b[i] EXCEPT !.hold = "over"]
  <2>1. b \in Seq(Bans) /\ i \in DOMAIN b /\ bs = [b EXCEPT ![i] = new]
    BY <1>1, <1>3, <1>4
  <2> HIDE DEF b
  <2>2. b[i] \in Bans
    BY <2>1
  <2>3. new \in Bans
    BY <2>2 DEF Bans
  <2> HIDE DEF new
  <2> QED
    BY <2>1, <2>3
<1>6. PICK v : v = [e EXCEPT !.reg.bans[i].hold = "over"]
  BY Zenon
<1>7. v = [e EXCEPT !.reg.bans = bs]
  BY <1>3, <1>6, Zenon
<1>8. Kept(e, v) /\ v.chan = e.chan
  BY <1>2, <1>5, <1>7, Zenon DEF Kept, Worlds, Regs
<1>9. To(v)
  BY <1>1, <1>6, Zenon
<1> QED
  BY <1>8, <1>9, KeptStep, Zenon DEF e

\* e_chanserv_expireban removes the bans that have run out.
LEMMA ExpireBanFine ==
  ASSUME Sound(World), e_chanserv_expireban
  PROVE  FineStep
<1> DEFINE e == World
           over == {i \in DOMAIN reg.bans : reg.bans[i].hold = "over"}
           gone == {reg.bans[i].mask : i \in over}
<1>1. To([e EXCEPT !.chan.bans = @ \ gone, !.reg.bans = Without(@, over)])
  BY Zenon DEF e_chanserv_expireban
<1>2. e \in Worlds
  BY DEF Sound
<1> HIDE DEF e, over, gone
<1>3. PICK bs : bs = Without(e.reg.bans, over)
  OBVIOUS
<1>4. PICK ms : ms = e.chan.bans \ gone
  BY Zenon
<1>5. e.reg.bans \in Seq(Bans) /\ ms \in SUBSET Masks
  BY <1>2, <1>4 DEF Worlds, Regs, Chans
<1>6. bs \in Seq(Bans)
  BY <1>3, <1>5, WithoutType, Zenon
<1>7. PICK v : v = [e EXCEPT !.chan.bans = @ \ gone, !.reg.bans = Without(@, over)]
  OBVIOUS
<1>8. v = [e EXCEPT !.chan.bans = ms, !.reg.bans = bs]
  BY <1>2, <1>3, <1>4, <1>7 DEF Worlds
<1>9. Kept(e, v) /\ v.chan.mode = e.chan.mode /\ v.chan.ops = e.chan.ops
  BY <1>2, <1>5, <1>6, <1>8, ZenonT(60) DEF Kept, Worlds, Chans, Regs
<1>10. To(v)
  BY <1>1, <1>7, Zenon
<1> QED
  BY <1>9, <1>10, KeptStep, Zenon DEF e

\* e_chanserv_partinhabit: ChanServ leaves, or only forgets why it came.
LEMMA PartInhabitFine ==
  ASSUME Sound(World), e_chanserv_partinhabit
  PROVE  FineStep
<1> DEFINE W == World
           g == [W EXCEPT !.reg.flags = @ \ {"INHABIT"}]
<1>1. \/ To(g) /\ (~chan.alive \/ Flagged(W, "AUTOJOIN"))
      \/ To(part_service(g)) \/ To(part_service(W)) \/ To(W)
  BY Zenon DEF e_chanserv_partinhabit
<1>2. Sound(W) /\ W \in Worlds /\ W.chan = chan
  BY DEF Sound, World
<1> HIDE DEF W
<1>3. /\ g \in Worlds /\ g.chan = W.chan /\ g.logged = W.logged /\ g.misused = W.misused
      /\ g.reg.on = W.reg.on /\ g.reg.emode = W.reg.emode /\ g.reg.level = W.reg.level
      /\ g.reg.ts = W.reg.ts /\ g.reg.susp = W.reg.susp
      /\ "AUTOJOIN" \in g.reg.flags <=> "AUTOJOIN" \in W.reg.flags
      /\ "NOOPS" \in g.reg.flags <=> "NOOPS" \in W.reg.flags
      /\ "RESTRICTOPS" \in g.reg.flags <=> "RESTRICTOPS" \in W.reg.flags
  BY <1>2, Zenon DEF Worlds, Regs
<1> HIDE DEF g
<1>4. ASSUME NEW x, x \in {g, W}, NEW v, v = part_service(x), To(v) PROVE FineStep
  <2>0. x \in Worlds
    BY <1>2, <1>3, <1>4
  <2>1. /\ v \in Worlds /\ v.reg = x.reg /\ v.logged = x.logged /\ v.misused = x.misused
        /\ ~v.chan.serv /\ v.chan.users = x.chan.users /\ v.chan.ops \subseteq x.chan.ops
        /\ v.chan.alive => v.chan.users # {} /\ x.chan.alive
        /\ v.chan.users # {} => v.chan.alive = x.chan.alive
        /\ v.chan.alive => v.chan.ts = x.chan.ts /\ v.chan.mode = x.chan.mode
    BY <1>4, <2>0, PartService, SMTT(20)
  <2>2. /\ x.chan = W.chan /\ x.logged = W.logged /\ x.misused = W.misused
        /\ x.reg.on = W.reg.on /\ x.reg.emode = W.reg.emode /\ x.reg.level = W.reg.level
        /\ x.reg.ts = W.reg.ts /\ x.reg.susp = W.reg.susp
        /\ "AUTOJOIN" \in x.reg.flags <=> "AUTOJOIN" \in W.reg.flags
        /\ "NOOPS" \in x.reg.flags <=> "NOOPS" \in W.reg.flags
        /\ "RESTRICTOPS" \in x.reg.flags <=> "RESTRICTOPS" \in W.reg.flags
    BY <1>3, <1>4, Zenon
  <2>3. Sound(v)
    BY <1>2, <2>1, <2>2, Zenon DEF Sound, Shaped, Present, Stamped, Flagged
  <2>4. OpsOk(W, v)
    BY <2>1, <2>2, FlagOps, Zenon DEF Flagged
  <2>5. ModesOk(W, v) /\ BansOk(W, v)
    BY <2>1, <2>2, Zenon DEF ModesOk, BansOk, Enforced
  <2> QED
    BY <1>4, <2>3, <2>4, <2>5, Zenon DEF Fine, FineStep, W
<1>5. CASE To(g) /\ (~chan.alive \/ Flagged(W, "AUTOJOIN"))
  <2>1. Present(g) /\ Stamped(g) /\ ModesOk(W, g)
    BY <1>2, <1>3, <1>5, Zenon DEF Sound, Shaped, Present, Stamped, Flagged, ModesOk, Enforced
  <2>2. OpsOk(W, g)
    BY <1>3, FlagOps, Zenon DEF Flagged
  <2>3. Fine(W, g)
    BY <1>2, <1>3, <2>1, <2>2, RestFine, ZenonT(60)
  <2> QED
    BY <1>5, <2>3, Zenon DEF FineStep, W
<1>6. CASE To(W)
  <2>1. Kept(W, W)
    BY <1>2, Zenon DEF Kept
  <2> QED
    BY <1>6, <2>1, KeptStep, Zenon DEF W
<1> QED
  BY <1>1, <1>4, <1>5, <1>6, Zenon

------------------------------------------------------------------------------
(* The whole specification.                                                 *)

\* Every step is fine, or CLEARMODES takes off modes.
Stepped(w, v) == /\ Sound(v) /\ OpsOk(w, v) /\ BansOk(w, v)
                 /\ ModesOk(w, v) \/ \E c \in Clients : s_chan_clearmodes(c)

\* The messages of the network.
LEMMA NetworkSteps ==
  ASSUME Sound(World), FromNetwork
  PROVE  FineStep
<1>1. ASSUME NEW ts \in Times, NEW ms \in SUBSET Modes, NEW nicks \in Nicks, NEW ts6, NEW status,
             c_sjoin(ts, ms, nicks, status, ts6)
      PROVE  FineStep
  <2>1. nicks \in Seq(Clients)
    BY DEF Nicks
  <2> QED
    BY <1>1, <2>1, SjoinFine, Zenon
<1>2. ASSUME NEW c \in Clients, NEW ts \in Times, c_join(c, ts) PROVE FineStep
  BY <1>2, JoinFine, Zenon
<1>3. ASSUME NEW c \in Clients, c_part(c) PROVE FineStep
  BY <1>3, PartFine, Zenon
<1>4. ASSUME NEW what, NEW add \in BOOLEAN, NEW x \in Changed(what), c_mode(what, add, x) PROVE FineStep
  <2>1. PICK user : user = TRUE
    OBVIOUS
  <2>2. chan.alive /\ handle_chmode(user, what, add, x)
    BY <1>4, <2>1, Zenon DEF c_mode
  <2> QED
    BY <2>2, ModeFine, Zenon
<1>5. ASSUME NEW what, NEW add \in BOOLEAN, NEW x \in Changed(what), NEW user, c_tmode(user, what, add, x)
      PROVE  FineStep
  BY <1>5, ModeFine, Zenon DEF c_tmode
<1>6. ASSUME NEW what, NEW masks \in SUBSET Masks, c_bmask(what, masks) PROVE FineStep
  BY <1>6, BmaskFine, Zenon
<1> QED
  BY <1>1, <1>2, <1>3, <1>4, <1>5, <1>6, BurstFine, ZenonT(60) DEF FromNetwork

\* The commands of users.
LEMMA UserSteps ==
  ASSUME Sound(World), NEW c \in Clients, ByUser(c)
  PROVE  FineStep \/ s_chan_clearmodes(c)
<1>1. ASSUME NEW f \in Options, NEW on \in BOOLEAN, s_chan_set(c, f, on) PROVE FineStep
  BY <1>1, SetFine, Zenon
<1>2. ASSUME NEW em \in SUBSET Modes, SetEnforceModes(c, em) PROVE FineStep
  BY <1>2, EnforceFine, Zenon
<1>3. CASE Login(c) \/ Logout(c)
  BY <1>3, LoginFine, LogoutFine, Zenon
<1>4. CASE s_chan_op(c) \/ s_chan_voice(c)
  BY <1>4, OpFine, VoiceFine, Zenon
<1>5. CASE s_chan_clearops(c) \/ s_chan_clearallops(c)
  BY <1>5, ClearOpsFine, Zenon DEF s_chan_clearops, s_chan_clearallops
<1>6. CASE s_chan_clearbans(c) \/ s_chan_unban(c)
  BY <1>6, ClearBansFine, Zenon
<1>7. ASSUME NEW m \in Masks, NEW l \in BanLevels, NEW hold \in {"perm", "temp"}, s_chan_addban(c, m, l, hold)
      PROVE  FineStep
  BY <1>7, AddBanFine, Zenon
<1>8. ASSUME NEW m, s_chan_delban(c, m) PROVE FineStep
  BY <1>8, DelBanFine, Zenon
<1>9. ASSUME NEW m, NEW l \in BanLevels, s_chan_modban(c, m, l) PROVE FineStep
  BY <1>9, ModBanFine, Zenon
<1>10. CASE s_chan_register(c)
  <2>1. chan.ts \in Stamps
    BY DEF Sound, World, Worlds, Chans
  <2> QED
    BY <1>10, <2>1, RegisterFine, ZenonT(60) DEF s_chan_register
<1> QED
  BY <1>1, <1>2, <1>3, <1>4, <1>5, <1>6, <1>7, <1>8, <1>9, <1>10, ZenonT(60) DEF ByUser

\* The commands of opers, and the events.
LEMMA OtherSteps ==
  ASSUME Sound(World), ByOper \/ ByTime
  PROVE  FineStep
<1>1. ASSUME NEW c \in Accounts, NEW now \in Times \ {0}, o_chan_chanregister(c, now) PROVE FineStep
  <2>1. PICK ts : ts = IF chan.alive THEN chan.ts ELSE now
    BY SMTT(60)
  <2>2. chan.ts \in Stamps
    BY DEF Sound, World, Worlds, Chans
  <2>3. ts \in Stamps /\ c \in Clients
    BY <2>1, <2>2, ChanAssumption DEF Stamps
  <2>4. ~reg.on /\ To(Registered(c, ts))
    BY <1>1, <2>1, Zenon DEF o_chan_chanregister
  <2> QED
    BY <2>3, <2>4, RegisterFine, ZenonT(60)
<1>2. CASE o_chan_chansuspend \/ o_chan_chanunsuspend \/ SuspendEnds
  BY <1>2, SuspendFine, Zenon DEF o_chan_chansuspend, o_chan_chanunsuspend, SuspendEnds
<1>3. CASE o_chan_chandrop \/ BanEnds \/ e_chanserv_expireban \/ e_chanserv_partinhabit
  BY <1>3, DropFine, BanEndsFine, ExpireBanFine, PartInhabitFine, Zenon
<1> QED
  BY <1>1, <1>2, <1>3, Zenon DEF ByOper, ByTime

\* A step of the channel, seen as a step from World to World'.
LEMMA Steps ==
  ASSUME Sound(World), ChanNext
  PROVE  Stepped(World, World')
<1>1. ASSUME NEW v, To(v), Sound(v) PROVE World' = v
  BY <1>1, ToWorld, Zenon DEF Sound
<1>2. CASE FineStep
  <2>1. PICK v : To(v) /\ Fine(World, v)
    BY <1>2, Zenon DEF FineStep
  <2>2. World' = v
    BY <1>1, <2>1, Zenon DEF Fine
  <2> QED
    BY <2>1, <2>2, Zenon DEF Fine, Stepped
<1>3. ASSUME NEW c \in Clients, s_chan_clearmodes(c) PROVE Stepped(World, World')
  <2>1. PICK v : To(v) /\ Sound(v) /\ OpsOk(World, v) /\ BansOk(World, v)
    BY <1>3, ClearModesFine, Zenon
  <2>2. World' = v
    BY <1>1, <2>1, Zenon
  <2> QED
    BY <1>3, <2>1, <2>2, Zenon DEF Stepped
<1> QED
  BY <1>2, <1>3, NetworkSteps, UserSteps, OtherSteps, Zenon DEF ChanNext

\* What load_channel_db leaves.
LEMMA Loaded ==
  ASSUME ChanInit
  PROVE  Sound(World)
<1> DEFINE z == [c \in Clients |-> 0]
           lv == [c \in Clients |-> IF c \in Accounts THEN Access[c] ELSE 0]
           R(fs, ts, em, su) == [NoReg EXCEPT !.on = TRUE, !.flags = fs, !.susp = su, !.ts = ts,
                                              !.emode = em, !.level = lv, !.autoop = AutoOp,
                                              !.autovoice = AutoVoice]
           S(r) == [chan |-> NoChan, cached |-> z, logged |-> {}, burst |-> FALSE,
                    misused |-> FALSE, reg |-> r]
<1>1. PICK fs \in SUBSET (Options \cup {"INHABIT"}), ts \in Times \ {0}, em \in SUBSET Modes,
           su \in {"no", "yes"} :
         LET w == S(R(fs, ts, em, su))
             v == IF cautojoin_empty /\ Flagged(w, "AUTOJOIN") THEN enable_inhabit(w, FALSE, TRUE) ELSE w
         IN chan = v.chan /\ reg = v.reg
  BY Zenon DEF ChanInit
<1>2. cached = z /\ logged = {} /\ sent_burst = FALSE /\ misused = FALSE
  BY Zenon DEF ChanInit
<1>3. z \in [Clients -> Nat] /\ lv \in [Clients -> Levels] /\ AutoOp \in SUBSET Clients
      /\ AutoVoice \in SUBSET Clients
  BY ChanAssumption DEF Levels, S_C_OWNER
<1> HIDE DEF z, lv
<1> DEFINE r == R(fs, ts, em, su)
           w == S(r)
<1>4. r \in Regs /\ r.on
  <2>1. NoReg \in Regs
    BY DEF NoReg, Regs, Levels, S_C_OWNER, Stamps
  <2>2. ts \in Stamps
    BY DEF Stamps
  <2> QED
    BY <1>3, <2>1, <2>2, ZenonT(60) DEF Regs
<1> HIDE DEF r
<1>5. NoChan \in Chans /\ ~NoChan.alive /\ NoChan.users = {} /\ ~NoChan.serv
  BY DEF NoChan, Chans, Stamps
<1>6. /\ w \in Worlds /\ w.chan = NoChan /\ w.reg = r /\ w.cached = z /\ w.logged = {}
      /\ w.burst = FALSE /\ w.misused = FALSE
  BY <1>3, <1>4, <1>5 DEF Worlds
<1>7. World = [chan |-> chan, reg |-> reg, cached |-> z, logged |-> {}, burst |-> FALSE, misused |-> FALSE]
  BY <1>2, Zenon DEF World
<1>8. CASE cautojoin_empty /\ Flagged(w, "AUTOJOIN")
  <2> DEFINE v == AutoJoined(w)
  <2>1. chan = v.chan /\ reg = v.reg
    BY <1>1, <1>8, ZenonT(60) DEF AutoJoined, r
  <2>2. v = AutoJoined(w) /\ ~w.chan.alive /\ w.reg.on
    BY <1>4, <1>5, <1>6
  <2> HIDE DEF w, v
  <2>3. /\ v \in Worlds /\ v.reg = w.reg /\ v.logged = w.logged /\ v.misused = w.misused
        /\ v.cached = w.cached /\ v.burst = w.burst
        /\ v.chan.alive /\ v.chan.serv /\ v.chan.users = {} /\ v.chan.ts = w.reg.ts
    BY <1>6, <2>2, InhabitDead, ZenonT(60)
  <2>4. World = v
    BY <1>6, <1>7, <2>1, <2>3, SMTT(60) DEF Worlds
  <2>5. Sound(v)
    BY <1>4, <1>6, <1>8, <2>3, ZenonT(60) DEF Sound, Shaped, Present, Stamped, Flagged
  <2> QED
    BY <2>4, <2>5, Zenon
<1>9. CASE ~(cautojoin_empty /\ Flagged(w, "AUTOJOIN"))
  <2>1. chan = w.chan /\ reg = w.reg
    BY <1>1, <1>9, ZenonT(60) DEF r
  <2> HIDE DEF w
  <2>4. World = w
    BY <1>6, <1>7, <2>1, SMTT(60) DEF Worlds
  <2>5. Sound(w)
    BY <1>5, <1>6, Zenon DEF Sound, Shaped, Present, Stamped
  <2> QED
    BY <2>4, <2>5, Zenon
<1> QED
  BY <1>8, <1>9

\* The inductive invariant: the world has its types and shape, no freed channel was used,
\* and PresenceFlagged and StoredTimestamp hold.  The shape carries ADDBAN and
\* h_chanserv_join: whoever is hit by a ban is on a channel that is there.
ChanInv == Sound(World)

\* The invariant holds in every state.
THEOREM Held == ChanSpec => []ChanInv
<1>1. ChanInit => ChanInv
  BY Loaded, Zenon DEF ChanInv
<1>2. ChanInv /\ [ChanNext]_chanVars => ChanInv'
  <2> SUFFICES ASSUME ChanInv, [ChanNext]_chanVars PROVE ChanInv'
    OBVIOUS
  <2>1. CASE ChanNext
    <3>1. Sound(World')
      BY <2>1, Steps, Zenon DEF ChanInv, Stepped
    <3> QED
      BY <3>1, Zenon DEF ChanInv
  <2>2. CASE UNCHANGED chanVars
    <3>1. World' = World
      BY <2>2, Zenon DEF chanVars, World
    <3> QED
      BY <3>1, Zenon DEF ChanInv
  <2> QED
    BY <2>1, <2>2
<1> QED
  BY <1>1, <1>2, PTL DEF ChanSpec

\* A handler that kicks by ban never frees the channel it is working on.
THEOREM HandlersKeepChannel == ChanSpec => []ChannelKept
<1>1. ChanInv => ChannelKept
  BY DEF ChanInv, Sound, World, ChannelKept
<1> QED
  BY <1>1, Held, PTL

\* ChanServ is on a channel only with a reason that will be found again.
THEOREM PresenceExplained == ChanSpec => []PresenceFlagged
<1>1. ChanInv => PresenceFlagged
  <2>1. World.chan = chan /\ World.reg = reg
    BY DEF World
  <2> QED
    BY <2>1, ZenonT(60) DEF ChanInv, Sound, Present, PresenceFlagged
<1> QED
  BY <1>1, Held, PTL

\* With AUTOJOIN the stored timestamp is the channel's.
THEOREM TimestampSaved == ChanSpec => []StoredTimestamp
<1>1. ChanInv => StoredTimestamp
  <2>1. World.chan = chan /\ World.reg = reg
    BY DEF World
  <2> QED
    BY <2>1, Zenon DEF ChanInv, Sound, Stamped, StoredTimestamp
<1> QED
  BY <1>1, Held, PTL

\* Nobody becomes an operator that NOOPS or RESTRICTOPS disallows.
THEOREM OpsAllowed == ChanSpec => NoDisallowedOp
<1> DEFINE A == reg.on /\ reg.susp = "no" /\ reg'.susp = "no" =>
                  \A c \in chan'.ops :
                    ~OpAllowed(World', c) /\ Level(World', c) >= Level(World, c) =>
                      c \in chan.ops /\ ~OpAllowed(World, c)
<1>1. ChanInv /\ [ChanNext]_chanVars => [A]_chanVars
  <2> SUFFICES ASSUME ChanInv, ChanNext PROVE A
    OBVIOUS
  <2>1. OpsOk(World, World')
    BY Steps, Zenon DEF ChanInv, Stepped
  <2>2. World.chan = chan /\ World.reg = reg /\ World'.chan = chan' /\ World'.reg = reg'
    BY DEF World
  <2> QED
    BY <2>1, <2>2, Zenon DEF OpsOk
<1> QED
  BY <1>1, Held, PTL DEF ChanSpec, NoDisallowedOp

\* Enforced modes stay on the channel; only CLEARMODES takes them off.
THEOREM ModesKept == ChanSpec => ModesEnforced
<1> DEFINE A == reg.on /\ reg'.on /\ reg.susp = "no" /\ reg'.susp = "no" /\ chan'.alive
                /\ (chan.alive => reg.emode \subseteq chan.mode)
                  => reg'.emode \subseteq chan'.mode \/ \E c \in Clients : s_chan_clearmodes(c)
<1>1. ChanInv /\ [ChanNext]_chanVars => [A]_chanVars
  <2> SUFFICES ASSUME ChanInv, ChanNext PROVE A
    OBVIOUS
  <2>1. ModesOk(World, World') \/ \E c \in Clients : s_chan_clearmodes(c)
    BY Steps, Zenon DEF ChanInv, Stepped
  <2>2. World.chan = chan /\ World.reg = reg /\ World'.chan = chan' /\ World'.reg = reg'
    BY DEF World
  <2> QED
    BY <2>1, <2>2, ZenonT(60) DEF ModesOk, Enforced
<1> QED
  BY <1>1, Held, PTL DEF ChanSpec, ModesEnforced

\* Nobody gets onto the channel against a ban in force.
THEOREM BansHold == ChanSpec => BannedStayOut
<1> DEFINE A == reg'.on /\ reg'.susp = "no" =>
                  \A c \in chan'.users \ chan.users, i \in DOMAIN reg'.bans :
                    LET b == reg'.bans[i] IN
                    b.hold # "over" /\ c \in Matches[b.mask] /\ Level(World', c) < b.level =>
                      find_exempt(World', c)
<1>1. ChanInv /\ [ChanNext]_chanVars => [A]_chanVars
  <2> SUFFICES ASSUME ChanInv, ChanNext, reg'.on, reg'.susp = "no",
                      NEW c \in chan'.users \ chan.users, NEW i \in DOMAIN reg'.bans,
                      reg'.bans[i].hold # "over", c \in Matches[reg'.bans[i].mask],
                      Level(World', c) < reg'.bans[i].level
               PROVE  find_exempt(World', c)
    BY Zenon
  <2>1. BansOk(World, World')
    BY Steps, ZenonT(60) DEF ChanInv, Stepped
  <2>2. World.chan = chan /\ World.reg = reg /\ World'.chan = chan' /\ World'.reg = reg'
    BY DEF World
  <2>3. ~Barred(World', c)
    BY <2>1, <2>2, Zenon DEF BansOk
  <2>4. i \in BansFor(World', c)
    BY <2>2, Zenon DEF BansFor
  <2> QED
    BY <2>3, <2>4, Zenon DEF Barred
<1> QED
  BY <1>1, Held, PTL DEF ChanSpec, BannedStayOut
=============================================================================
