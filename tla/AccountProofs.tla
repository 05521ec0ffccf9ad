---------------------------- MODULE AccountProofs ----------------------------
(***************************************************************************)
(* Accounts, for any names, clients, addresses and limits: what the        *)
(* structures of the services, their clients, the network and the database *)
(* say of one another; and the memos of MemoServ.                          *)
(***************************************************************************)
EXTENDS UserServ, MemoServ, FiniteSetTheorems, TLAPS

\* How a leaf that names no prover is tried.
USE SMT, Zenon, SMTT(20)

------------------------------------------------------------------------------
(* Logins.                                                                  *)

\* A client that the network has logged in to s, with the structures R.
Held(R, cl, s) ==
  /\ IF cl.on = "off" THEN cl = Away ELSE cl.nick \in Nicks
  /\ cl.reg # NoReg =>
       /\ cl.on = "on"
       /\ R[cl.reg] \in UserReg
       /\ R[cl.reg].live => R[cl.reg].suspend = "off" /\ s = R[cl.reg].name
       /\ ~ R[cl.reg].live => R[cl.reg].never
  /\ cl.on = "on" /\ cl.reg = NoReg => s = NoName

\* Structures, clients and the network's logins that belong together.
Good(R, C, S) ==
  /\ R \in [Objs -> UserReg \cup {Unused}]
  /\ C \in [Clients -> Client]
  /\ S \in [Clients -> Names \cup {NoName}]
  /\ \A o \in Objs, c \in Clients : R[o].live => ((c \in R[o].users) = (C[c].reg = o))
  /\ \A c \in Clients : Held(R, C[c], S[c])

\* The invariant: while the server is away, nobody is known.
LoginInv ==
  /\ Good(regs, client, suser)
  /\ users \in [Names -> Row \cup {NoRow}]
  /\ link = "down" => \A c \in Clients : client[c] = Away

\* NULL is no structure, and a forgotten structure is none either.
LEMMA Distinct ==
  /\ NoReg \notin Objs
  /\ Unused \notin UserReg
  /\ Unused.live = FALSE
  /\ Away \in Client /\ Away.on = "off" /\ Away.reg = NoReg /\ Away.nick = NoName
<1>1. NoReg \notin Objs
  BY MaxRegsAssumption DEF NoReg, Objs
<1>2. Unused \notin UserReg
  <2> SUFFICES ASSUME Unused \in UserReg PROVE FALSE
    OBVIOUS
  <2>1. "name" \in DOMAIN Unused
    BY DEF UserReg
  <2> QED
    BY <2>1 DEF Unused
<1> QED
  BY <1>1, <1>2 DEF Unused, Away, Client, NoReg, NoName

\* What the fields of a structure are.
LEMMA Fields ==
  ASSUME NEW r \in UserReg
  PROVE  /\ r.live \in BOOLEAN /\ r.name \in Names /\ r.never \in BOOLEAN
         /\ r.suspend \in Suspension /\ r.users \subseteq Clients /\ r.nicks \subseteq Nicks
         /\ r = [live |-> r.live, name |-> r.name, never |-> r.never, suspend |-> r.suspend,
                 users |-> r.users, nicks |-> r.nicks]
BY DEF UserReg

\* A client's pointer is set or cleared.
LEMMA Repoint ==
  ASSUME NEW cl \in Client, NEW x \in Objs \cup {NoReg}
  PROVE  /\ [cl EXCEPT !.reg = x] \in Client
         /\ [cl EXCEPT !.reg = x].reg = x
         /\ [cl EXCEPT !.reg = x].on = cl.on /\ [cl EXCEPT !.reg = x].nick = cl.nick
BY DEF Client

\* A structure in use is a whole one.
LEMMA LiveReg ==
  ASSUME NEW R \in [Objs -> UserReg \cup {Unused}], NEW o \in Objs, R[o].live
  PROVE  R[o] \in UserReg
BY Distinct

\* Forgetting the freed structures nobody points at changes nothing.
LEMMA SettleGood ==
  ASSUME NEW R, NEW C, NEW S, Good(R, C, S), Settle(R, C), suser' = S
  PROVE  Good(regs', client', suser')
<1>1. client' = C
  BY DEF Settle
<1>2. regs' \in [Objs -> UserReg \cup {Unused}]
  BY DEF Settle, Good
<1>3. \A o \in Objs : regs'[o] = R[o] \/ (regs'[o] = Unused /\ ~ R[o].live /\ \A c \in Clients : C[c].reg # o)
  BY DEF Settle
<1>4. ASSUME NEW o \in Objs, NEW c \in Clients, regs'[o].live
      PROVE  (c \in regs'[o].users) = (C[c].reg = o)
  BY <1>3, <1>4, Distinct DEF Good
<1>5. ASSUME NEW c \in Clients
      PROVE  Held(regs', C[c], S[c])
  <2>1. C[c].reg # NoReg => C[c].reg \in Objs
    BY DEF Good, Client
  <2>2. C[c].reg # NoReg => regs'[C[c].reg] = R[C[c].reg]
    BY <1>3, <2>1
  <2> QED
    BY <2>2 DEF Good, Held
<1> QED
  BY <1>1, <1>2, <1>4, <1>5 DEF Good

-----------------------------------------------------------------------------
(* What a step may do to structures, clients and logins.                   *)

\* A structure in use changes, but not whose it is nor who uses it.
LEMMA SameLogins ==
  ASSUME NEW R, NEW C, NEW S, Good(R, C, S),
         NEW o \in Objs, R[o].live, NEW r \in UserReg,
         r.live, r.name = R[o].name, r.users = R[o].users, r.suspend \in {"off", R[o].suspend}
  PROVE  Good([R EXCEPT ![o] = r], C, S)
<1> DEFINE Q == [R EXCEPT ![o] = r]
<1>1. Q \in [Objs -> UserReg \cup {Unused}] /\ Q[o] = r /\ \A p \in Objs \ {o} : Q[p] = R[p]
  BY DEF Good
<1>2. \A p \in Objs, c \in Clients : Q[p].live => ((c \in Q[p].users) = (C[c].reg = p))
  BY <1>1 DEF Good
<1>3. ASSUME NEW c \in Clients PROVE Held(Q, C[c], S[c])
  <2>1. Held(R, C[c], S[c]) /\ (C[c].reg # NoReg => C[c].reg \in Objs)
    BY DEF Good, Client
  <2>2. CASE C[c].reg = o
    BY <1>1, <2>1, <2>2 DEF Held
  <2>3. CASE C[c].reg # o
    BY <1>1, <2>1, <2>3 DEF Held
  <2> QED
    BY <2>2, <2>3
<1> QED
  BY <1>1, <1>2, <1>3, Zenon DEF Good

\* A client changes, but not what it is logged in to.
LEMMA ClientStep ==
  ASSUME NEW R, NEW C, NEW S, Good(R, C, S),
         NEW c \in Clients, NEW cl \in Client, cl.reg = C[c].reg,
         NEW s \in Names \cup {NoName}, Held(R, cl, s)
  PROVE  Good(R, [C EXCEPT ![c] = cl], [S EXCEPT ![c] = s])
BY DEF Good

\* A client logs in to a structure that is then not suspended.
LEMMA LoginStep ==
  ASSUME NEW R, NEW C, NEW S, Good(R, C, S),
         NEW c \in Clients, C[c].reg = NoReg,
         NEW o \in Objs, R[o].live, NEW r \in UserReg,
         r.live, r.name = R[o].name, r.users = R[o].users \cup {c}, r.suspend = "off",
         NEW cl \in Client, cl.on = "on", cl.reg = o, cl.nick \in Nicks
  PROVE  Good([R EXCEPT ![o] = r], [C EXCEPT ![c] = cl], [S EXCEPT ![c] = r.name])
<1> DEFINE Q == [R EXCEPT ![o] = r]
           D == [C EXCEPT ![c] = cl]
           T == [S EXCEPT ![c] = r.name]
<1>1. Q \in [Objs -> UserReg \cup {Unused}] /\ Q[o] = r /\ \A p \in Objs \ {o} : Q[p] = R[p]
  BY DEF Good
<1>2. D \in [Clients -> Client] /\ D[c] = cl /\ \A d \in Clients \ {c} : D[d] = C[d]
  BY DEF Good
<1>3. T \in [Clients -> Names \cup {NoName}] /\ T[c] = r.name /\ \A d \in Clients \ {c} : T[d] = S[d]
  BY Fields DEF Good
<1>4. \A p \in Objs, d \in Clients : Q[p].live => ((d \in Q[p].users) = (D[d].reg = p))
  <2> SUFFICES ASSUME NEW p \in Objs, NEW d \in Clients, Q[p].live
               PROVE  (d \in Q[p].users) = (D[d].reg = p)
    OBVIOUS
  <2>1. R[p].live => ((d \in R[p].users) = (C[d].reg = p))
    BY DEF Good
  <2>2. CASE d = c
    BY <1>1, <1>2, <2>1, <2>2, Distinct
  <2>3. CASE d # c
    BY <1>1, <1>2, <2>1, <2>3
  <2> QED
    BY <2>2, <2>3
<1>5. ASSUME NEW d \in Clients PROVE Held(Q, D[d], T[d])
  <2>1. Held(R, C[d], S[d]) /\ (C[d].reg # NoReg => C[d].reg \in Objs)
    BY DEF Good, Client
  <2>2. CASE d = c
    BY <1>1, <1>2, <1>3, <2>2, Distinct DEF Held
  <2>3. CASE d # c /\ C[d].reg = o
    BY <1>1, <1>2, <1>3, <2>1, <2>3 DEF Held
  <2>4. CASE d # c /\ C[d].reg # o
    BY <1>1, <1>2, <1>3, <2>1, <2>4 DEF Held
  <2> QED
    BY <2>2, <2>3, <2>4
<1> QED
  BY <1>1, <1>2, <1>3, <1>4, <1>5, Zenon DEF Good

\* Everybody is logged out of a structure, which is then freed or used by nobody.
LEMMA LogoutStep ==
  ASSUME Good(regs, client, suser), NEW o \in Live,
         NEW r \in UserReg, r.live => r.users = {}
  PROVE  Good([regs EXCEPT ![o] = r], LoggedOut(o), SuOut(o))
<1> DEFINE Q == [regs EXCEPT ![o] = r]
           D == LoggedOut(o)
           T == SuOut(o)
<1>0. o \in Objs /\ regs[o].live
  BY DEF Live
<1>1. Q \in [Objs -> UserReg \cup {Unused}] /\ Q[o] = r /\ \A p \in Objs \ {o} : Q[p] = regs[p]
  BY <1>0 DEF Good
<1>2. ASSUME NEW c \in Clients
      PROVE  /\ client[c].reg = o => D[c] = [client[c] EXCEPT !.reg = NoReg] /\ T[c] = NoName
             /\ client[c].reg # o => D[c] = client[c] /\ T[c] = suser[c]
  BY <1>0 DEF Good, LoggedOut, SuOut
<1>3. ASSUME NEW c \in Clients
      PROVE  /\ D[c] \in Client /\ T[c] \in Names \cup {NoName}
             /\ client[c].reg = o => D[c].reg = NoReg /\ D[c].on = client[c].on /\ D[c].nick = client[c].nick /\ T[c] = NoName
             /\ client[c].reg # o => D[c] = client[c] /\ T[c] = suser[c]
  <2>1. client[c] \in Client /\ suser[c] \in Names \cup {NoName}
    BY DEF Good
  <2>2. CASE client[c].reg = o
    <3> DEFINE e == [client[c] EXCEPT !.reg = NoReg]
    <3>1. e \in Client /\ e.reg = NoReg /\ e.on = client[c].on /\ e.nick = client[c].nick
      BY <2>1, Repoint
    <3>2. D[c] = e /\ T[c] = NoName
      BY <1>2, <2>2
    <3> HIDE DEF e, D, T
    <3> QED
      BY <2>2, <3>1, <3>2
  <2>3. CASE client[c].reg # o
    BY <1>2, <2>1, <2>3, Zenon
  <2> QED
    BY <2>2, <2>3
<1>4. D \in [Clients -> Client] /\ T \in [Clients -> Names \cup {NoName}]
  BY <1>3, Zenon DEF LoggedOut, SuOut
<1>5. \A p \in Objs, c \in Clients : Q[p].live => ((c \in Q[p].users) = (D[c].reg = p))
  <2> SUFFICES ASSUME NEW p \in Objs, NEW c \in Clients, Q[p].live
               PROVE  (c \in Q[p].users) = (D[c].reg = p)
    OBVIOUS
  <2>1. regs[p].live => ((c \in regs[p].users) = (client[c].reg = p))
    BY DEF Good
  <2>2. CASE p = o
    BY <1>0, <1>1, <1>3, <2>2, Distinct
  <2>3. CASE p # o
    BY <1>0, <1>1, <1>3, <2>1, <2>3, Distinct
  <2> QED
    BY <2>2, <2>3
<1>6. ASSUME NEW c \in Clients PROVE Held(Q, D[c], T[c])
  <2>1. Held(regs, client[c], suser[c]) /\ (client[c].reg # NoReg => client[c].reg \in Objs)
    BY DEF Good, Client
  <2>2. CASE client[c].reg = o
    <3>1. client[c].on = "on" /\ client[c].nick \in Nicks
      BY <1>0, <2>1, <2>2, Distinct, SMTT(60) DEF Held
    <3> QED
      BY <1>3, <2>2, <3>1 DEF Held
  <2>3. CASE client[c].reg # o
    BY <1>1, <1>3, <2>1, <2>3 DEF Held
  <2> QED
    BY <2>2, <2>3
<1> QED
  BY <1>1, <1>4, <1>5, <1>6, Zenon DEF Good

\* A structure is freed that was never verified, or that nobody uses.
LEMMA ExpireStep ==
  ASSUME NEW R, NEW C, NEW S, Good(R, C, S),
         NEW o \in Objs, R[o].live, R[o].never \/ R[o].users = {},
         NEW r \in UserReg, ~ r.live, r.never = R[o].never
  PROVE  Good([R EXCEPT ![o] = r], C, S)
<1> DEFINE Q == [R EXCEPT ![o] = r]
<1>1. Q \in [Objs -> UserReg \cup {Unused}] /\ Q[o] = r /\ \A p \in Objs \ {o} : Q[p] = R[p]
  BY DEF Good
<1>2. \A p \in Objs, c \in Clients : Q[p].live => ((c \in Q[p].users) = (C[c].reg = p))
  BY <1>1 DEF Good
<1>3. ASSUME NEW c \in Clients PROVE Held(Q, C[c], S[c])
  <2>1. Held(R, C[c], S[c]) /\ (C[c].reg # NoReg => C[c].reg \in Objs)
    BY DEF Good, Client
  <2>2. CASE C[c].reg = o
    <3>1. c \in R[o].users
      BY <2>2 DEF Good
    <3> QED
      BY <1>1, <2>1, <2>2, <3>1, Distinct DEF Held
  <2>3. CASE C[c].reg # o
    BY <1>1, <2>1, <2>3 DEF Held
  <2> QED
    BY <2>2, <2>3
<1> QED
  BY <1>1, <1>2, <1>3, Zenon DEF Good

\* An account is registered in a place nobody points at.
LEMMA FreshStep ==
  ASSUME NEW R, NEW C, NEW S, Good(R, C, S),
         NEW o \in Objs, R[o] = Unused,
         NEW r \in UserReg, r.users = {}
  PROVE  Good([R EXCEPT ![o] = r], C, S)
<1> DEFINE Q == [R EXCEPT ![o] = r]
<1>1. Q \in [Objs -> UserReg \cup {Unused}] /\ Q[o] = r /\ \A p \in Objs \ {o} : Q[p] = R[p]
  BY DEF Good
<1>2. \A c \in Clients : C[c].reg # o
  BY Distinct DEF Good, Held
<1>3. \A p \in Objs, c \in Clients : Q[p].live => ((c \in Q[p].users) = (C[c].reg = p))
  BY <1>1, <1>2 DEF Good
<1>4. ASSUME NEW c \in Clients PROVE Held(Q, C[c], S[c])
  <2>1. Held(R, C[c], S[c]) /\ (C[c].reg # NoReg => C[c].reg \in Objs \ {o})
    BY <1>2 DEF Good, Client
  <2> QED
    BY <1>1, <2>1 DEF Held
<1> QED
  BY <1>1, <1>3, <1>4, Zenon DEF Good

\* Clients are gone, and out of the lists of their accounts.
LEMMA ExitStep ==
  ASSUME Good(regs, client, suser), NEW X \in SUBSET Clients,
         NEW T \in [Clients -> Names \cup {NoName}], \A c \in Clients \ X : T[c] = suser[c]
  PROVE  Good(Unlisted(X), Gone(X), T)
<1> DEFINE Q == Unlisted(X)
           D == Gone(X)
<1>1. D \in [Clients -> Client] /\ \A c \in Clients : D[c] = IF c \in X THEN Away ELSE client[c]
  BY Distinct DEF Good, Gone
<1>2. ASSUME NEW o \in Objs
      PROVE  /\ Q[o] \in UserReg \cup {Unused}
             /\ Q[o].live = regs[o].live /\ (~ regs[o].live => Q[o] = regs[o])
             /\ regs[o].live =>
                  /\ Q[o] \in UserReg /\ Q[o].name = regs[o].name /\ Q[o].suspend = regs[o].suspend
                  /\ Q[o].users = regs[o].users \ {c \in X : client[c].reg = o}
  <2>1. regs[o] \in UserReg \cup {Unused}
    BY DEF Good
  <2>2. CASE regs[o].live
    <3> DEFINE L == regs[o].users \ {c \in X : client[c].reg = o}
               e == [regs[o] EXCEPT !.users = L]
    <3>1. regs[o] \in UserReg
      BY <2>1, <2>2, Distinct
    <3>2. e \in UserReg /\ e.live = regs[o].live /\ e.name = regs[o].name /\ e.suspend = regs[o].suspend /\ e.users = L
      BY <3>1 DEF UserReg
    <3>3. Q[o] = e
      BY <2>2 DEF Unlisted, Live
    <3> HIDE DEF e, Q
    <3> QED
      BY <2>2, <3>2, <3>3, Zenon
  <2>3. CASE ~ regs[o].live
    <3>1. Q[o] = regs[o]
      BY <2>3 DEF Unlisted, Live
    <3> HIDE DEF Q
    <3> QED
      BY <2>1, <2>3, <3>1
  <2> QED
    BY <2>2, <2>3
<1>3. Q \in [Objs -> UserReg \cup {Unused}]
  <2>1. Q = [o \in Objs |-> Q[o]]
    BY DEF Unlisted
  <2> HIDE DEF Q
  <2> QED
    BY <1>2, <2>1
<1> HIDE DEF Q, D
<1>4. \A p \in Objs, c \in Clients : Q[p].live => ((c \in Q[p].users) = (D[c].reg = p))
  <2> SUFFICES ASSUME NEW p \in Objs, NEW c \in Clients, Q[p].live
               PROVE  (c \in Q[p].users) = (D[c].reg = p)
    OBVIOUS
  <2>1. regs[p].live /\ (c \in regs[p].users) = (client[c].reg = p)
    BY <1>2 DEF Good
  <2> QED
    BY <1>1, <1>2, <2>1, Distinct
<1>5. ASSUME NEW c \in Clients PROVE Held(Q, D[c], T[c])
  <2>1. Held(regs, client[c], suser[c]) /\ (client[c].reg # NoReg => client[c].reg \in Objs)
    BY DEF Good, Client
  <2>2. CASE c \in X
    BY <1>1, <2>2, Distinct DEF Held
  <2>3. CASE c \notin X
    BY <1>1, <1>2, <2>1, <2>3 DEF Held
  <2> QED
    BY <2>2, <2>3
<1> QED
  BY <1>1, <1>3, <1>4, <1>5 DEF Good, Q, D

-----------------------------------------------------------------------------
(* The operations.                                                         *)

\* The row that is written for a structure is a row.
LEMMA WriteRow ==
  ASSUME NEW r \in UserReg, users \in [Names -> Row \cup {NoRow}], NEW n \in Names
  PROVE  [users EXCEPT ![n] = RowOf(r)] \in [Names -> Row \cup {NoRow}]
<1>1. RowOf(r) \in Row
  BY Fields DEF RowOf, Row
<1> QED
  BY <1>1

\* Operations that change flags, or the nicknames of an account.
LEMMA FlagSteps ==
  ASSUME LoginInv
  PROVE  /\ \A c \in Clients, n \in Names : s_user_activate(c, n) => LoginInv'
         /\ \A o \in Objs : expire_user_suspend(o) \/ o_user_userunsuspend(o) => LoginInv'
         /\ \A o \in Live, k \in Nicks, mine \in BOOLEAN : SetNick(o, k, mine) => LoginInv'
<1>0. Good(regs, client, suser) /\ users \in [Names -> Row \cup {NoRow}]
  BY DEF LoginInv
<1>1. ASSUME NEW o \in Live, NEW r \in UserReg,
             r.live, r.name = regs[o].name, r.users = regs[o].users, r.suspend \in {"off", regs[o].suspend},
             Write(o, r), UNCHANGED <<client, suser, link>>
      PROVE  LoginInv'
  <2>1. Good([regs EXCEPT ![o] = r], client, suser)
    BY <1>0, <1>1, SameLogins DEF Live
  <2>2. users' \in [Names -> Row \cup {NoRow}]
    BY <1>0, <1>1, WriteRow, Fields DEF Write
  <2> QED
    BY <1>1, <2>1, <2>2 DEF LoginInv, Write
<1>2. ASSUME NEW o \in Live
      PROVE  regs[o] \in UserReg /\ o \in Objs /\ regs[o].live
  BY <1>0, LiveReg DEF Live, Good
<1>3. ASSUME NEW c \in Clients, NEW n \in Names, s_user_activate(c, n)
      PROVE  LoginInv'
  <2>1. PICK o \in find_user_reg(n) : Write(o, [regs[o] EXCEPT !.never = FALSE])
    BY <1>3, Zenon DEF s_user_activate
  <2> DEFINE r == [regs[o] EXCEPT !.never = FALSE]
  <2>2. o \in Live
    BY DEF find_user_reg
  <2>3. r \in UserReg /\ r.live = regs[o].live /\ r.name = regs[o].name /\ r.users = regs[o].users /\ r.suspend = regs[o].suspend
    BY <1>2, <2>2, Zenon DEF UserReg
  <2>4. UNCHANGED <<client, suser, link>>
    BY <1>3 DEF s_user_activate
  <2> HIDE DEF r
  <2> QED
    BY <1>1, <1>2, <2>1, <2>2, <2>3, <2>4, Zenon DEF r
<1>4. ASSUME NEW o \in Objs, expire_user_suspend(o) \/ o_user_userunsuspend(o)
      PROVE  LoginInv'
  <2> DEFINE r == [regs[o] EXCEPT !.suspend = "off"]
  <2>1. o \in Live /\ Write(o, r) /\ UNCHANGED <<client, suser, link>>
    BY <1>4 DEF expire_user_suspend, o_user_userunsuspend
  <2>2. r \in UserReg /\ r.live = regs[o].live /\ r.name = regs[o].name /\ r.users = regs[o].users /\ r.suspend = "off"
    BY <1>2, <2>1 DEF UserReg, Suspension
  <2> HIDE DEF r
  <2> QED
    BY <1>1, <1>2, <2>1, <2>2
<1>5. ASSUME NEW o \in Live, NEW k \in Nicks, NEW mine \in BOOLEAN, SetNick(o, k, mine)
      PROVE  LoginInv'
  <2> DEFINE K == IF mine THEN regs[o].nicks \cup {k} ELSE regs[o].nicks \ {k}
             r == [regs[o] EXCEPT !.nicks = K]
  <2>1. K \in SUBSET Nicks
    BY <1>2, Fields
  <2>2. regs' = [regs EXCEPT ![o] = r] /\ UNCHANGED <<client, users, suser, link>>
    BY <1>2, <1>5 DEF SetNick
  <2> HIDE DEF K
  <2>3. r \in UserReg /\ r.live = regs[o].live /\ r.name = regs[o].name /\ r.users = regs[o].users /\ r.suspend = regs[o].suspend
    BY <1>2, <2>1 DEF UserReg
  <2> HIDE DEF r
  <2>4. Good([regs EXCEPT ![o] = r], client, suser)
    BY <1>0, <1>2, <2>3, SameLogins
  <2> QED
    BY <2>2, <2>4 DEF LoginInv
<1> QED
  BY <1>3, <1>4, <1>5

\* Registrations: a structure is allocated, and its first user logged in.
LEMMA RegisterSteps ==
  ASSUME LoginInv, NEW n \in Names
  PROVE  /\ o_user_userregister(n) => LoginInv'
         /\ \A c \in Clients : s_user_register(c, n) => LoginInv'
<1>0. Good(regs, client, suser) /\ users \in [Names -> Row \cup {NoRow}]
  BY DEF LoginInv
<1>1. ASSUME NEW isnever \in BOOLEAN, add_user_reg(n, isnever, {}), UNCHANGED <<suser, link>>
      PROVE  LoginInv'
  <2> DEFINE r == [live |-> TRUE, name |-> n, never |-> isnever, suspend |-> "off",
                   users |-> {}, nicks |-> {}]
  <2>1. PICK o \in Objs : /\ regs[o] = Unused /\ regs' = [regs EXCEPT ![o] = r]
                          /\ client' = [c \in Clients |-> client[c]]
                          /\ users' = [users EXCEPT ![n] = RowOf(r)]
    BY <1>1, Zenon DEF add_user_reg
  <2>2. r \in UserReg /\ r.users = {}
    BY DEF UserReg, Suspension
  <2> HIDE DEF r
  <2>3. client' = client
    BY <1>0, <2>1 DEF Good
  <2>4. Good([regs EXCEPT ![o] = r], client, suser)
    BY <1>0, <2>1, <2>2, FreshStep, Zenon
  <2>5. users' \in [Names -> Row \cup {NoRow}]
    BY <1>0, <2>1, <2>2, WriteRow
  <2> QED
    BY <1>1, <2>1, <2>3, <2>4, <2>5 DEF LoginInv
<1>2. ASSUME NEW c \in Clients, client[c].on = "on", client[c].reg = NoReg,
             add_user_reg(n, FALSE, {c}), suser' = [suser EXCEPT ![c] = n], UNCHANGED link
      PROVE  LoginInv'
  <2> DEFINE r == [live |-> TRUE, name |-> n, never |-> FALSE, suspend |-> "off",
                   users |-> {c}, nicks |-> {}]
             r0 == [live |-> TRUE, name |-> n, never |-> FALSE, suspend |-> "off",
                    users |-> {}, nicks |-> {}]
  <2>1. PICK o \in Objs : /\ regs[o] = Unused /\ regs' = [regs EXCEPT ![o] = r]
                          /\ client' = [d \in Clients |-> IF d \in {c} THEN [client[d] EXCEPT !.reg = o] ELSE client[d]]
                          /\ users' = [users EXCEPT ![n] = RowOf(r)]
    BY <1>2, Zenon DEF add_user_reg
  <2> DEFINE cl == [client[c] EXCEPT !.reg = o]
             R0 == [regs EXCEPT ![o] = r0]
  <2>2. /\ r \in UserReg /\ r.live /\ r.name = n /\ r.users = r0.users \cup {c} /\ r.suspend = "off"
        /\ r0 \in UserReg /\ r0.live /\ r0.name = n /\ r0.users = {}
    BY DEF UserReg, Suspension
  <2>3. client' = [client EXCEPT ![c] = cl]
    BY <1>0, <2>1, Zenon DEF Good
  <2>4. cl \in Client /\ cl.on = "on" /\ cl.reg = o /\ cl.nick \in Nicks
    <3>1. client[c] \in Client /\ client[c].nick \in Nicks
      BY <1>0, <1>2 DEF Good, Held
    <3> QED
      BY <1>2, <3>1, Repoint
  <2> HIDE DEF r, r0, cl
  <2>5. R0[o] = r0 /\ [R0 EXCEPT ![o] = r] = [regs EXCEPT ![o] = r]
    BY <1>0, Zenon DEF Good
  <2> HIDE DEF R0
  <2>6. Good(R0, client, suser)
    BY <1>0, <2>1, <2>2, FreshStep, Zenon DEF R0
  <2>7. Good([R0 EXCEPT ![o] = r], [client EXCEPT ![c] = cl], [suser EXCEPT ![c] = r.name])
    BY <1>2, <2>2, <2>4, <2>5, <2>6, LoginStep, Zenon
  <2>8. users' \in [Names -> Row \cup {NoRow}]
    BY <1>0, <2>1, <2>2, WriteRow
  <2>9. link' # "down"
    BY <1>2, Distinct DEF LoginInv
  <2> QED
    BY <1>2, <2>1, <2>2, <2>3, <2>5, <2>7, <2>8, <2>9, Zenon DEF LoginInv
<1>3. ASSUME o_user_userregister(n) PROVE LoginInv'
  BY <1>1, <1>3, Zenon DEF o_user_userregister
<1>4. ASSUME NEW c \in Clients, s_user_register(c, n) PROVE LoginInv'
  <2>1. client[c].on = "on" /\ client[c].reg = NoReg /\ UNCHANGED link
    BY <1>4 DEF s_user_register, Acting
  <2>2. CASE add_user_reg(n, TRUE, {}) /\ UNCHANGED suser
    BY <1>1, <2>1, <2>2, Zenon
  <2>3. CASE add_user_reg(n, FALSE, {c}) /\ suser' = [suser EXCEPT ![c] = n]
    BY <1>2, <2>1, <2>3, Zenon
  <2> QED
    BY <1>4, <2>2, <2>3, Zenon DEF s_user_register
<1> QED
  BY <1>3, <1>4

\* LOGIN, and the login of a burst.
LEMMA LoginSteps ==
  ASSUME LoginInv, NEW c \in Clients
  PROVE  /\ \A n \in Names : s_user_login(c, n) => LoginInv'
         /\ h_user_burst_login(c) => LoginInv'
<1>0. Good(regs, client, suser) /\ users \in [Names -> Row \cup {NoRow}] /\ client[c] \in Client
  BY DEF LoginInv, Good
<1>1. client[c].on # "off" => link # "down"
  BY Distinct DEF LoginInv
<1>2. ASSUME NEW o \in Live
      PROVE  regs[o] \in UserReg /\ o \in Objs /\ regs[o].live
  BY <1>0, LiveReg DEF Live, Good
<1>3. ASSUME NEW n \in Names, s_user_login(c, n) PROVE LoginInv'
  <2>1. client[c].on = "on" /\ client[c].reg = NoReg /\ UNCHANGED link /\ suser' = [suser EXCEPT ![c] = n]
    BY <1>3, SMTT(60) DEF s_user_login, Acting
  <2>2. PICK o \in find_user_reg(n) :
          /\ Write(o, [regs[o] EXCEPT !.suspend = "off", !.users = @ \cup {c}])
          /\ client' = [client EXCEPT ![c].reg = o]
    BY <1>3, Zenon DEF s_user_login
  <2>3. o \in Live /\ regs[o].name = n
    BY DEF find_user_reg
  <2> DEFINE r == [regs[o] EXCEPT !.suspend = "off", !.users = @ \cup {c}]
             cl == [client[c] EXCEPT !.reg = o]
  <2>4. /\ r \in UserReg /\ r.live = regs[o].live /\ r.name = n
        /\ r.users = regs[o].users \cup {c} /\ r.suspend = "off"
    BY <1>2, <2>3, Zenon DEF UserReg, Suspension
  <2>5. cl \in Client /\ cl.on = "on" /\ cl.reg = o /\ cl.nick \in Nicks
    <3>1. client[c].nick \in Nicks
      BY <1>0, <2>1 DEF Good, Held
    <3> QED
      BY <1>0, <1>2, <2>1, <2>3, <3>1, Repoint
  <2>6. client' = [client EXCEPT ![c] = cl] /\ regs' = [regs EXCEPT ![o] = r] /\ users' = [users EXCEPT ![r.name] = RowOf(r)]
    BY <2>2 DEF Write
  <2> HIDE DEF r, cl
  <2>7. Good([regs EXCEPT ![o] = r], [client EXCEPT ![c] = cl], [suser EXCEPT ![c] = r.name])
    BY <1>0, <1>2, <2>1, <2>3, <2>4, <2>5, LoginStep, Zenon
  <2>8. users' \in [Names -> Row \cup {NoRow}]
    BY <1>0, <2>4, <2>6, WriteRow
  <2> QED
    BY <1>1, <2>1, <2>4, <2>6, <2>7, <2>8 DEF LoginInv
<1>4. ASSUME h_user_burst_login(c) PROVE LoginInv'
  <2> DEFINE F == {o \in find_user_reg(suser[c]) : regs[o].suspend = "off"}
             on == [client[c] EXCEPT !.on = "on"]
  <2>1. client[c].on = "pending" /\ UNCHANGED <<users, link>>
    BY <1>4 DEF h_user_burst_login
  <2>2. client[c].reg = NoReg /\ client[c].nick \in Nicks
    BY <1>0, <2>1 DEF Good, Held
  <2>3. on \in Client /\ on.on = "on" /\ on.reg = NoReg /\ on.nick \in Nicks
    BY <1>0, <2>2 DEF Client
  <2>4. CASE F = {} /\ client' = [client EXCEPT ![c].on = "on"] /\ suser' = [suser EXCEPT ![c] = NoName] /\ UNCHANGED regs
    <3>1. client' = [client EXCEPT ![c] = on]
      BY <2>4
    <3> HIDE DEF on
    <3>2. Held(regs, on, NoName)
      BY <2>3 DEF Held
    <3>3. Good(regs, [client EXCEPT ![c] = on], [suser EXCEPT ![c] = NoName])
      BY <1>0, <2>2, <2>3, <3>2, ClientStep
    <3> QED
      BY <1>0, <1>1, <2>1, <2>4, <3>1, <3>3, Zenon DEF LoginInv
  <2>5. ASSUME NEW o \in F, regs' = [regs EXCEPT ![o].users = @ \cup {c}],
               client' = [[client EXCEPT ![c].on = "on"] EXCEPT ![c].reg = o], UNCHANGED suser
        PROVE  LoginInv'
    <3> DEFINE r == [regs[o] EXCEPT !.users = @ \cup {c}]
               cl == [on EXCEPT !.reg = o]
    <3>1. o \in Live /\ regs[o].name = suser[c] /\ regs[o].suspend = "off"
      BY DEF find_user_reg
    <3>2. /\ r \in UserReg /\ r.live = regs[o].live /\ r.name = regs[o].name
          /\ r.users = regs[o].users \cup {c} /\ r.suspend = regs[o].suspend
      BY <1>2, <3>1 DEF UserReg
    <3>3. regs' = [regs EXCEPT ![o] = r]
      BY <2>5
    <3>4. client' = [client EXCEPT ![c] = cl]
      BY <1>0, <2>5, Zenon DEF Good
    <3> HIDE DEF on
    <3>5. cl \in Client /\ cl.on = "on" /\ cl.reg = o /\ cl.nick \in Nicks
      BY <1>2, <2>3, <3>1, Repoint
    <3> HIDE DEF r, cl
    <3>6. Good([regs EXCEPT ![o] = r], [client EXCEPT ![c] = cl], [suser EXCEPT ![c] = r.name])
      BY <1>0, <1>2, <2>2, <3>1, <3>2, <3>5, LoginStep
    <3>7. [suser EXCEPT ![c] = r.name] = suser
      BY <1>0, <3>1, <3>2 DEF Good
    <3> QED
      BY <1>0, <1>1, <2>1, <2>5, <3>3, <3>4, <3>6, <3>7, Zenon DEF LoginInv
  <2> QED
    BY <1>4, <2>4, <2>5 DEF h_user_burst_login
<1> QED
  BY <1>3, <1>4

\* Operations that end logins: LOGOUT, USERDROP, USERSUSPEND and the expiry.
LEMMA LogoutSteps ==
  ASSUME LoginInv
  PROVE  /\ \A c \in Clients : s_user_logout(c) => LoginInv'
         /\ \A o \in Objs : o_user_userdrop(o) \/ e_user_expire(o) => LoginInv'
         /\ \A o \in Objs, kind \in Suspension \ {"off"} : o_user_usersuspend(o, kind) => LoginInv'
<1>0. Good(regs, client, suser) /\ users \in [Names -> Row \cup {NoRow}]
  BY DEF LoginInv
<1>1. ASSUME NEW o \in Live
      PROVE  regs[o] \in UserReg /\ o \in Objs /\ regs[o].live
  BY <1>0, LiveReg DEF Live, Good
<1>2. ASSUME NEW c \in Clients, s_user_logout(c) PROVE LoginInv'
  <2> DEFINE o == client[c].reg
             r == [regs[o] EXCEPT !.users = @ \ {c}]
             cl == [client[c] EXCEPT !.reg = NoReg]
             R == [regs EXCEPT ![o] = r]
             C == [client EXCEPT ![c] = cl]
             S == [suser EXCEPT ![c] = NoName]
  <2>1. o \in Live /\ client[c].on = "on" /\ UNCHANGED <<users, link>> /\ suser' = S
    BY <1>2 DEF s_user_logout, LoggedIn, Acting
  <2>2. Settle(R, C)
    BY <1>2 DEF s_user_logout
  <2>3. /\ r \in UserReg /\ r.live = regs[o].live /\ r.name = regs[o].name
        /\ r.users = regs[o].users \ {c} /\ r.suspend = regs[o].suspend
    BY <1>1, <2>1 DEF UserReg
  <2>4. cl \in Client /\ cl.on = "on" /\ cl.reg = NoReg /\ cl.nick \in Nicks
    <3>1. client[c] \in Client /\ client[c].nick \in Nicks
      BY <1>0, <2>1 DEF Good, Held
    <3> QED
      BY <2>1, <3>1, Repoint
  <2> HIDE DEF r, cl
  <2>5. /\ R \in [Objs -> UserReg \cup {Unused}] /\ R[o] = r /\ \A p \in Objs \ {o} : R[p] = regs[p]
        /\ C \in [Clients -> Client] /\ C[c] = cl /\ \A d \in Clients \ {c} : C[d] = client[d]
        /\ S \in [Clients -> Names \cup {NoName}] /\ S[c] = NoName /\ \A d \in Clients \ {c} : S[d] = suser[d]
    BY <1>0, <1>1, <2>1, <2>3, <2>4 DEF Good
  <2> HIDE DEF R, C, S
  <2>6. \A p \in Objs, d \in Clients : R[p].live => ((d \in R[p].users) = (C[d].reg = p))
    <3> SUFFICES ASSUME NEW p \in Objs, NEW d \in Clients, R[p].live
                 PROVE  (d \in R[p].users) = (C[d].reg = p)
      OBVIOUS
    <3>1. regs[p].live => ((d \in regs[p].users) = (client[d].reg = p))
      BY <1>0, SMTT(60) DEF Good
    <3>2. CASE p = o
      BY <1>1, <2>1, <2>3, <2>4, <2>5, <3>1, <3>2, Distinct, SMTT(60)
    <3>3. CASE p # o
      BY <2>4, <2>5, <3>1, <3>3, Distinct
    <3> QED
      BY <3>2, <3>3
  <2>7. ASSUME NEW d \in Clients PROVE Held(R, C[d], S[d])
    <3>1. Held(regs, client[d], suser[d]) /\ (client[d].reg # NoReg => client[d].reg \in Objs)
      BY <1>0 DEF Good, Client
    <3>2. CASE d = c
      BY <2>4, <2>5, <3>2, SMTT(60) DEF Held
    <3>3. CASE d # c /\ client[d].reg = o
      BY <1>1, <2>1, <2>3, <2>5, <3>1, <3>3, Distinct, SMTT(60) DEF Held
    <3>4. CASE d # c /\ client[d].reg # o
      BY <2>5, <3>1, <3>4 DEF Held
    <3> QED
      BY <3>2, <3>3, <3>4
  <2>8. Good(R, C, S)
    BY <2>5, <2>6, <2>7 DEF Good
  <2>9. Good(regs', client', suser') /\ link # "down"
    BY <2>1, <2>2, <2>8, SettleGood, Distinct DEF LoginInv
  <2> QED
    BY <1>0, <2>1, <2>9 DEF LoginInv
<1>3. ASSUME NEW o \in Live, NEW r \in UserReg, r = [regs[o] EXCEPT !.live = FALSE],
             users' = [users EXCEPT ![regs[o].name] = NoRow], UNCHANGED link,
             NEW C, Settle([regs EXCEPT ![o] = r], C), Good([regs EXCEPT ![o] = r], C, suser'),
             link = "down" => \A c \in Clients : C[c] = Away
      PROVE  LoginInv'
  <2>1. Good(regs', client', suser')
    BY <1>3, SettleGood
  <2>2. users' \in [Names -> Row \cup {NoRow}]
    BY <1>0, <1>1, <1>3, Fields
  <2> QED
    BY <1>3, <2>1, <2>2 DEF LoginInv, Settle
<1>4. ASSUME NEW o \in Live
      PROVE  link = "down" => \A c \in Clients : LoggedOut(o)[c] = Away
  <2>1. \A c \in Clients : (c \in regs[o].users) = (client[c].reg = o)
    BY <1>0, <1>1 DEF Good
  <2>2. link = "down" => \A c \in Clients : client[c] = Away /\ c \notin regs[o].users
    BY <1>1, <2>1, Distinct DEF LoginInv
  <2> QED
    BY <2>2 DEF LoggedOut
<1>5. ASSUME NEW o \in Objs, o_user_userdrop(o) PROVE LoginInv'
  <2> DEFINE r == [regs[o] EXCEPT !.live = FALSE]
  <2>1. /\ o \in Live /\ suser' = SuOut(o) /\ UNCHANGED link
        /\ users' = [users EXCEPT ![regs[o].name] = NoRow]
        /\ Settle([regs EXCEPT ![o] = r], LoggedOut(o))
    BY <1>5 DEF o_user_userdrop, free_user_reg
  <2>2. r \in UserReg /\ r.live = FALSE
    BY <1>1, <2>1, Zenon DEF UserReg
  <2> HIDE DEF r
  <2>3. Good([regs EXCEPT ![o] = r], LoggedOut(o), SuOut(o))
    BY <1>0, <2>1, <2>2, LogoutStep
  <2> QED
    BY <1>3, <1>4, <2>1, <2>2, <2>3, Zenon DEF r
<1>6. ASSUME NEW o \in Objs, e_user_expire(o) PROVE LoginInv'
  <2> DEFINE r == [regs[o] EXCEPT !.live = FALSE]
  <2>1. /\ o \in Live /\ (regs[o].never \/ regs[o].users = {}) /\ UNCHANGED <<suser, link>>
        /\ users' = [users EXCEPT ![regs[o].name] = NoRow]
        /\ Settle([regs EXCEPT ![o] = r], client)
    BY <1>6 DEF e_user_expire, free_user_reg
  <2>2. r \in UserReg /\ r.live = FALSE /\ r.never = regs[o].never
    BY <1>1, <2>1, Zenon DEF UserReg
  <2> HIDE DEF r
  <2>3. Good([regs EXCEPT ![o] = r], client, suser)
    BY <1>0, <1>1, <2>1, <2>2, ExpireStep
  <2>4. link = "down" => \A c \in Clients : client[c] = Away
    BY DEF LoginInv
  <2> QED
    BY <1>3, <2>1, <2>2, <2>3, <2>4, Zenon DEF r
<1>7. ASSUME NEW o \in Objs, NEW kind \in Suspension \ {"off"}, o_user_usersuspend(o, kind) PROVE LoginInv'
  <2> DEFINE r == [regs[o] EXCEPT !.suspend = kind, !.users = {}]
  <2>1. /\ o \in Live /\ client' = LoggedOut(o) /\ suser' = SuOut(o) /\ UNCHANGED link
        /\ regs' = [regs EXCEPT ![o] = r] /\ users' = [users EXCEPT ![r.name] = RowOf(r)]
    BY <1>7 DEF o_user_usersuspend, Write
  <2>2. r \in UserReg /\ r.users = {}
    BY <1>1, <2>1, Zenon DEF UserReg
  <2> HIDE DEF r
  <2>3. Good([regs EXCEPT ![o] = r], LoggedOut(o), SuOut(o))
    BY <1>0, <2>1, <2>2, LogoutStep, Zenon
  <2>4. users' \in [Names -> Row \cup {NoRow}]
    BY <1>0, <2>1, <2>2, WriteRow, Fields
  <2> QED
    BY <1>4, <2>1, <2>3, <2>4 DEF LoginInv
<1> QED
  BY <1>2, <1>5, <1>6, <1>7

\* Operations that bring users, rename them or take them away.
LEMMA NetworkSteps ==
  ASSUME LoginInv
  PROVE  /\ \A c \in Clients, k \in Nicks : s_nick_release(c, k) \/ c_uid(c, k) \/ c_nick(c, k) => LoginInv'
         /\ \A c \in Clients : c_quit(c) \/ LeaveUnseen(c) => LoginInv'
         /\ Connect \/ EndOfBurst \/ Split => LoginInv'
<1>0. Good(regs, client, suser) /\ users \in [Names -> Row \cup {NoRow}]
  BY DEF LoginInv
<1>1. \A c \in Clients : client[c] \in Client /\ (client[c].on # "off" => link # "down")
  BY <1>0, Distinct DEF LoginInv, Good
<1>2. ASSUME NEW d \in Clients, Exit({d}), client[d].on # "off",
             suser' = [suser EXCEPT ![d] = NoName], UNCHANGED <<users, link>>
      PROVE  LoginInv'
  <2>1. suser' \in [Clients -> Names \cup {NoName}] /\ \A c \in Clients \ {d} : suser'[c] = suser[c]
    BY <1>0, <1>2 DEF Good
  <2>2. Good(Unlisted({d}), Gone({d}), suser')
    BY <1>0, <2>1, ExitStep
  <2>3. Good(regs', client', suser')
    BY <1>2, <2>2, SettleGood, Zenon DEF Exit
  <2> QED
    BY <1>0, <1>1, <1>2, <2>3 DEF LoginInv
<1>3. ASSUME NEW c \in Clients, NEW k \in Nicks, s_nick_release(c, k) PROVE LoginInv'
  BY <1>2, <1>3, Zenon DEF s_nick_release
<1>4. ASSUME NEW c \in Clients, NEW k \in Nicks, c_uid(c, k) PROVE LoginInv'
  <2> DEFINE old == {d \in Clients : client[d].nick = k}
             cl == [on |-> IF suser[c] = NoName THEN "on" ELSE "pending", nick |-> k, reg |-> NoReg]
             R == Unlisted(old)
             G == Gone(old)
  <2>1. /\ link # "down" /\ client[c].on = "off" /\ UNCHANGED <<users, link>>
        /\ Settle(R, [G EXCEPT ![c] = cl])
        /\ suser' = [d \in Clients |-> IF d \in old THEN NoName ELSE suser[d]]
    BY <1>4 DEF c_uid
  <2>2. suser' \in [Clients -> Names \cup {NoName}] /\ \A d \in Clients \ old : suser'[d] = suser[d]
    BY <1>0, <2>1 DEF Good
  <2>3. Good(R, G, suser')
    BY <1>0, <2>2, ExitStep
  <2>4. c \notin old /\ G[c] = Away
    <3>1. client[c] = Away
      BY <1>0, <2>1 DEF Good, Held
    <3> QED
      BY <3>1, Distinct, UserNamesAssumption, SMTT(60) DEF Gone
  <2>5. cl \in Client /\ cl.reg = NoReg /\ cl.on # "off" /\ cl.nick \in Nicks /\ (cl.on = "on" => suser'[c] = NoName)
    BY <2>2, <2>4 DEF Client
  <2> HIDE DEF cl, R, G, old
  <2>6. Held(R, cl, suser'[c])
    BY <2>5 DEF Held
  <2>7. Good(R, [G EXCEPT ![c] = cl], [suser' EXCEPT ![c] = suser'[c]])
    BY <2>2, <2>3, <2>4, <2>5, <2>6, ClientStep, Distinct, Zenon
  <2>8. [suser' EXCEPT ![c] = suser'[c]] = suser'
    BY <2>2
  <2>9. Good(regs', client', suser')
    BY <2>1, <2>7, <2>8, SettleGood
  <2> QED
    BY <1>0, <2>1, <2>9 DEF LoginInv
<1>5. ASSUME NEW c \in Clients, NEW k \in Nicks, c_nick(c, k) PROVE LoginInv'
  <2> DEFINE cl == [client[c] EXCEPT !.nick = k]
  <2>1. client[c].on = "on" /\ client' = [client EXCEPT ![c] = cl] /\ UNCHANGED <<regs, users, suser, link>>
    BY <1>5 DEF c_nick
  <2>2. cl \in Client /\ cl.on = client[c].on /\ cl.reg = client[c].reg /\ cl.nick \in Nicks
    BY <1>1 DEF Client
  <2> HIDE DEF cl
  <2>3. Held(regs, cl, suser[c]) /\ suser[c] \in Names \cup {NoName}
    BY <1>0, <2>1, <2>2 DEF Good, Held
  <2>4. Good(regs, [client EXCEPT ![c] = cl], [suser EXCEPT ![c] = suser[c]])
    BY <1>0, <2>2, <2>3, ClientStep
  <2>5. [suser EXCEPT ![c] = suser[c]] = suser
    BY <1>0 DEF Good
  <2> QED
    BY <1>0, <1>1, <2>1, <2>4, <2>5 DEF LoginInv
<1>6. ASSUME NEW c \in Clients, c_quit(c) PROVE LoginInv'
  BY <1>2, <1>6, Zenon DEF c_quit
<1>7. ASSUME NEW c \in Clients, LeaveUnseen(c) PROVE LoginInv'
  <2>1. client[c] = Away /\ suser' = [suser EXCEPT ![c] = NoName] /\ UNCHANGED <<regs, client, users, link>>
    BY <1>7 DEF LeaveUnseen, LoginInv
  <2>2. Held(regs, Away, NoName)
    BY Distinct DEF Held
  <2>3. Good(regs, [client EXCEPT ![c] = Away], [suser EXCEPT ![c] = NoName])
    BY <1>0, <2>1, <2>2, ClientStep, Distinct, Zenon
  <2>4. [client EXCEPT ![c] = Away] = client
    BY <1>0, <2>1 DEF Good
  <2> QED
    BY <2>1, <2>3, <2>4 DEF LoginInv
<1>8. ASSUME Connect \/ EndOfBurst PROVE LoginInv'
  BY <1>8 DEF Connect, EndOfBurst, LoginInv
<1>9. ASSUME Split PROVE LoginInv'
  <2>1. Exit(Clients) /\ UNCHANGED <<users, suser>>
    BY <1>9 DEF Split
  <2>2. Good(Unlisted(Clients), Gone(Clients), suser)
    <3>1. suser \in [Clients -> Names \cup {NoName}]
      BY <1>0 DEF Good
    <3> QED
      BY <1>0, <3>1, ExitStep
  <2>3. Good(regs', client', suser')
    BY <2>1, <2>2, SettleGood DEF Exit
  <2>4. \A c \in Clients : client'[c] = Away
    BY <2>1 DEF Exit, Settle, Gone
  <2> QED
    BY <1>0, <2>1, <2>3, <2>4 DEF LoginInv
<1> QED
  BY <1>3, <1>4, <1>5, <1>6, <1>7, <1>8, <1>9, SMTT(60)

\* A new process: what the tables hold, and nobody connected.
LEMMA LoadSteps ==
  ASSUME LoginInv, NEW newnicks, Load(users, newnicks)
  PROVE  LoginInv'
<1>0. Good(regs, client, suser) /\ users \in [Names -> Row \cup {NoRow}]
  BY DEF LoginInv
<1>1. client' = [c \in Clients |-> Away] /\ users' = users /\ suser' = suser
  BY DEF Load
<1> DEFINE stored == {n \in Names : users[n] # NoRow}
<1>2. PICK f : /\ f \in [1 .. Cardinality(stored) -> stored]
               /\ regs' = [o \in Objs |->
                             IF o \in DOMAIN f
                             THEN [live |-> TRUE, name |-> f[o], never |-> users[f[o]].never,
                                   suspend |-> users[f[o]].suspend, users |-> {},
                                   nicks |-> {k \in Nicks : newnicks[k] = f[o]}]
                             ELSE Unused]
  BY Zenon DEF Load
<1>3. \A o \in DOMAIN f : f[o] \in Names /\ users[f[o]] \in Row
  BY <1>0, <1>2
<1>4. ASSUME NEW o \in Objs
      PROVE  regs'[o] \in UserReg \cup {Unused} /\ (regs'[o].live => regs'[o].users = {})
  <2>1. CASE o \in DOMAIN f
    <3> DEFINE r == [live |-> TRUE, name |-> f[o], never |-> users[f[o]].never,
                     suspend |-> users[f[o]].suspend, users |-> {},
                     nicks |-> {k \in Nicks : newnicks[k] = f[o]}]
    <3>1. regs'[o] = r
      BY <1>2, <2>1
    <3>2. users[f[o]].never \in BOOLEAN /\ users[f[o]].suspend \in Suspension /\ f[o] \in Names
      BY <1>3, <2>1 DEF Row
    <3>3. r \in UserReg /\ r.users = {}
      BY <3>2 DEF UserReg
    <3> HIDE DEF r
    <3> QED
      BY <3>1, <3>3
  <2>2. CASE o \notin DOMAIN f
    <3>1. regs'[o] = Unused
      BY <1>2, <2>2
    <3> QED
      BY <3>1, Distinct
  <2> QED
    BY <2>1, <2>2
<1>5. regs' \in [Objs -> UserReg \cup {Unused}]
  <2>1. regs' = [o \in Objs |-> regs'[o]]
    BY <1>2
  <2> QED
    BY <1>4, <2>1
<1>6. \A c \in Clients : client'[c] = Away /\ Held(regs', client'[c], suser'[c])
  BY <1>1, Distinct DEF Held
<1>7. Good(regs', client', suser')
  BY <1>0, <1>1, <1>4, <1>5, <1>6, Distinct DEF Good
<1> QED
  BY <1>0, <1>1, <1>6, <1>7 DEF LoginInv

-----------------------------------------------------------------------------
(* The theorems.                                                           *)

\* The services start with no account, and keep the invariant.
LEMMA LoginInvHolds == UserSpec => []LoginInv
<1>1. UserInit => LoginInv
  <2> SUFFICES ASSUME UserInit PROVE LoginInv
    OBVIOUS
  <2>1. /\ regs \in [Objs -> UserReg \cup {Unused}] /\ client \in [Clients -> Client]
        /\ suser \in [Clients -> Names \cup {NoName}] /\ users \in [Names -> Row \cup {NoRow}]
        /\ \A o \in Objs : ~ regs[o].live
        /\ \A c \in Clients : client[c] = Away
    BY Distinct DEF UserInit
  <2>2. \A c \in Clients : Held(regs, client[c], suser[c])
    BY <2>1, Distinct DEF Held
  <2> QED
    BY <2>1, <2>2 DEF LoginInv, Good
<1>2. LoginInv /\ [UserNext]_userVars => LoginInv'
  <2> SUFFICES ASSUME LoginInv, [UserNext]_userVars PROVE LoginInv'
    OBVIOUS
  <2>1. ASSUME NEW c \in Clients, NEW n \in Names,
               s_user_register(c, n) \/ s_user_activate(c, n) \/ s_user_login(c, n)
        PROVE  LoginInv'
    BY <2>1, RegisterSteps, FlagSteps, LoginSteps
  <2>2. ASSUME NEW c \in Clients, s_nick_register(c) PROVE LoginInv'
    <3>1. client[c].reg \in Live /\ client[c].nick \in Nicks
      BY <2>2 DEF s_nick_register, LoggedIn, Acting, LoginInv, Good, Held
    <3>2. SetNick(client[c].reg, client[c].nick, TRUE)
      BY <2>2, Zenon DEF s_nick_register
    <3> QED
      BY <3>1, <3>2, FlagSteps, Zenon
  <2>3. ASSUME NEW c \in Clients,
               s_user_logout(c) \/ h_user_burst_login(c) \/ c_quit(c) \/ LeaveUnseen(c)
        PROVE  LoginInv'
    BY <2>3, LogoutSteps, LoginSteps, NetworkSteps
  <2>4. ASSUME NEW c \in Clients, NEW k \in Nicks, s_nick_drop(c, k) PROVE LoginInv'
    <3>1. client[c].reg \in Live /\ SetNick(client[c].reg, k, FALSE)
      BY <2>4, Zenon DEF s_nick_drop, find_nick_reg
    <3> QED
      BY <3>1, FlagSteps, Zenon
  <2>5. ASSUME NEW c \in Clients, NEW k \in Nicks, s_nick_release(c, k) \/ c_uid(c, k) \/ c_nick(c, k)
        PROVE  LoginInv'
    BY <2>5, NetworkSteps
  <2>6. ASSUME NEW k \in Nicks, o_nick_nickdrop(k) PROVE LoginInv'
    <3>1. PICK o \in Live : SetNick(o, k, FALSE)
      BY <2>6, Zenon DEF o_nick_nickdrop, find_nick_reg
    <3> QED
      BY <3>1, FlagSteps, Zenon
  <2>7. ASSUME NEW n \in Names, o_user_userregister(n) PROVE LoginInv'
    BY <2>7, RegisterSteps
  <2>8. ASSUME NEW o \in Objs,
               \/ expire_user_suspend(o) \/ o_user_userunsuspend(o)
               \/ o_user_userdrop(o) \/ e_user_expire(o)
               \/ \E kind \in Suspension \ {"off"} : o_user_usersuspend(o, kind)
        PROVE  LoginInv'
    BY <2>8, FlagSteps, LogoutSteps
  <2>9. ASSUME NEW o \in Objs, NEW gone \in SUBSET Nicks, RestartInDrop(o, gone) PROVE LoginInv'
    BY <2>9, LoadSteps DEF RestartInDrop
  <2>10. ASSUME Connect \/ EndOfBurst \/ Split PROVE LoginInv'
    BY <2>10, NetworkSteps
  <2>11. ASSUME Restart PROVE LoginInv'
    BY <2>11, LoadSteps DEF Restart
  <2>12. ASSUME UNCHANGED userVars PROVE LoginInv'
    BY <2>12 DEF userVars, LoginInv
  <2> QED
    BY <2>1, <2>2, <2>3, <2>4, <2>5, <2>6, <2>7, <2>8, <2>9, <2>10, <2>11, <2>12 DEF UserNext
<1> QED
  BY <1>1, <1>2, PTL DEF UserSpec

\* The list of an account is exactly the clients that point at it, after every
\* command, split, burst and restart.
THEOREM Logins == UserSpec => []LoginsInverse
<1>1. LoginInv => LoginsInverse
  <2> SUFFICES ASSUME LoginInv, NEW o \in Live PROVE regs[o].users = {c \in Clients : client[c].reg = o}
    BY DEF LoginsInverse
  <2>1. o \in Objs /\ regs[o].live /\ regs[o] \in UserReg
    BY LiveReg DEF Live, LoginInv, Good
  <2>2. regs[o].users \subseteq Clients
    BY <2>1, Fields, SMTT(60)
  <2> QED
    BY <2>1, <2>2 DEF LoginInv, Good
<1> QED
  BY <1>1, LoginInvHolds, PTL

\* Only the expiry of accounts that were never verified frees a structure under
\* the clients that point at it.
THEOREM Freed == UserSpec => []FreedUnderUser
<1>1. LoginInv => FreedUnderUser
  BY Distinct, SMTT(60) DEF LoginInv, Good, Held, FreedUnderUser, Live
<1> QED
  BY <1>1, LoginInvHolds, PTL

\* A suspension logs everybody out, and no login or burst brings anybody back.
THEOREM Suspended == UserSpec => []SuspendedUnused
<1>1. LoginInv => SuspendedUnused
  BY Distinct, SMTT(60) DEF LoginInv, Good, Held, SuspendedUnused, Live
<1> QED
  BY <1>1, LoginInvHolds, PTL

\* What the network holds of a user whose login has been heard is what the
\* services hold, whatever happened during a split.
THEOREM Agreement == UserSpec => []NetworkAgrees
<1>1. LoginInv => NetworkAgrees
  <2> SUFFICES ASSUME LoginInv, NEW c \in Clients, client[c].on = "on", client[c].reg \notin Objs \ Live
               PROVE  suser[c] = IF client[c].reg = NoReg THEN NoName ELSE regs[client[c].reg].name
    BY DEF NetworkAgrees
  <2>1. Held(regs, client[c], suser[c]) /\ client[c].reg \in Objs \cup {NoReg}
    BY SMTT(60) DEF LoginInv, Good, Client
  <2> QED
    BY <2>1 DEF Held, Live
<1> QED
  BY <1>1, LoginInvHolds, PTL

-----------------------------------------------------------------------------
(* The tables.                                                             *)

\* Structures R, and the tables U and K, that hold the same accounts and nicknames.
Mirrored(R, U, K) ==
  /\ \A o, p \in Objs : R[o].live /\ R[p].live /\ R[o].name = R[p].name => o = p
  /\ \A o \in Objs : R[o].live => U[R[o].name] = RowOf(R[o])
  /\ \A n \in Names : U[n] # NoRow => \E o \in Objs : R[o].live /\ R[o].name = n
  /\ K \in [Nicks -> Names \cup {NoName}]
  /\ \A o \in Objs : R[o].live => \A k \in R[o].nicks : K[k] = R[o].name
  /\ \A k \in Nicks : K[k] # NoName => \E o \in Objs : R[o].live /\ k \in R[o].nicks

\* Two structures of which the tables hold the same.
Alike(q, r) ==
  /\ q.live <=> r.live
  /\ r.live => q.name = r.name /\ RowOf(q) = RowOf(r) /\ q.nicks = r.nicks

\* Operations that change nothing the tables hold.
LEMMA MirrorSame ==
  ASSUME NEW R, NEW Q, NEW U, NEW K, Mirrored(R, U, K), \A o \in Objs : Alike(Q[o], R[o])
  PROVE  Mirrored(Q, U, K)
<1>1. \A o \in Objs : (Q[o].live <=> R[o].live) /\ (R[o].live => Q[o].name = R[o].name /\ RowOf(Q[o]) = RowOf(R[o]) /\ Q[o].nicks = R[o].nicks)
  BY SMTT(60) DEF Alike
<1>2. \A o, p \in Objs : Q[o].live /\ Q[p].live /\ Q[o].name = Q[p].name => o = p
  BY <1>1 DEF Mirrored
<1>3. \A o \in Objs : Q[o].live => U[Q[o].name] = RowOf(Q[o])
  BY <1>1 DEF Mirrored
<1>4. \A n \in Names : U[n] # NoRow => \E o \in Objs : Q[o].live /\ Q[o].name = n
  BY <1>1, SMTT(60) DEF Mirrored
<1>5. \A o \in Objs : Q[o].live => \A k \in Q[o].nicks : K[k] = Q[o].name
  BY <1>1 DEF Mirrored
<1>6. \A k \in Nicks : K[k] # NoName => \E o \in Objs : Q[o].live /\ k \in Q[o].nicks
  BY <1>1 DEF Mirrored
<1>7. K \in [Nicks -> Names \cup {NoName}]
  BY DEF Mirrored
<1> QED
  BY <1>2, <1>3, <1>4, <1>5, <1>6, <1>7 DEF Mirrored

\* Forgetting structures that were freed changes nothing the tables hold.
LEMMA MirrorSettle ==
  ASSUME NEW R, NEW C, Settle(R, C), NEW U, NEW K, Mirrored(R, U, K)
  PROVE  Mirrored(regs', U, K)
<1>1. ASSUME NEW o \in Objs PROVE Alike(regs'[o], R[o])
  <2>1. regs'[o] = IF R[o].live \/ \E c \in Clients : C[c].reg = o THEN R[o] ELSE Unused
    BY DEF Settle
  <2>2. CASE R[o].live \/ \E c \in Clients : C[c].reg = o
    BY <2>1, <2>2 DEF Alike
  <2>3. CASE ~ (R[o].live \/ \E c \in Clients : C[c].reg = o)
    BY <2>1, <2>3, Distinct DEF Alike
  <2> QED
    BY <2>2, <2>3
<1> QED
  BY <1>1, MirrorSame

\* A structure is changed, or a new one made, and its row written.
LEMMA MirrorWrite ==
  ASSUME NEW R \in [Objs -> UserReg \cup {Unused}], NEW U \in [Names -> Row \cup {NoRow}], NEW K,
         Mirrored(R, U, K),
         NEW o \in Objs, NEW r \in UserReg, r.live,
         \/ R[o].live /\ r.name = R[o].name /\ r.nicks = R[o].nicks
         \/ ~ R[o].live /\ r.nicks = {} /\ \A p \in Objs : R[p].live => R[p].name # r.name
  PROVE  Mirrored([R EXCEPT ![o] = r], [U EXCEPT ![r.name] = RowOf(r)], K)
<1> DEFINE Q == [R EXCEPT ![o] = r]
           V == [U EXCEPT ![r.name] = RowOf(r)]
<1>1. r.name \in Names
  BY Fields
<1>2. Q[o] = r /\ \A p \in Objs : p # o => Q[p] = R[p]
  OBVIOUS
<1>3. V[r.name] = RowOf(r) /\ \A n \in Names : n # r.name => V[n] = U[n]
  BY <1>1
<1> HIDE DEF Q, V
<1>4. \A p \in Objs : R[p].live => R[p].name \in Names
  BY LiveReg, Fields, SMTT(60)
<1>5. \A p \in Objs : p # o /\ R[p].live => R[p].name # r.name
  BY SMTT(60) DEF Mirrored
<1>6. \A p, q \in Objs : Q[p].live /\ Q[q].live /\ Q[p].name = Q[q].name => p = q
  BY <1>2, <1>5, SMTT(60) DEF Mirrored
<1>7. \A p \in Objs : Q[p].live => V[Q[p].name] = RowOf(Q[p])
  BY <1>2, <1>3, <1>4, <1>5, SMTT(60) DEF Mirrored
<1>8. ASSUME NEW n \in Names, V[n] # NoRow PROVE \E p \in Objs : Q[p].live /\ Q[p].name = n
  <2>1. CASE n = r.name
    BY <1>2, <2>1
  <2>2. CASE n # r.name
    <3>1. PICK p \in Objs : R[p].live /\ R[p].name = n
      BY <1>3, <1>8, <2>2, SMTT(60) DEF Mirrored
    <3>2. p # o
      BY <2>2, <3>1, SMTT(60)
    <3> QED
      BY <1>2, <3>1, <3>2, SMTT(60)
  <2> QED
    BY <2>1, <2>2
<1>9. \A p \in Objs : Q[p].live => \A k \in Q[p].nicks : K[k] = Q[p].name
  BY <1>2, SMTT(60) DEF Mirrored
<1>10. ASSUME NEW k \in Nicks, K[k] # NoName PROVE \E p \in Objs : Q[p].live /\ k \in Q[p].nicks
  <2>1. PICK p \in Objs : R[p].live /\ k \in R[p].nicks
    BY <1>10 DEF Mirrored
  <2> QED
    BY <1>2, <2>1
<1>11. K \in [Nicks -> Names \cup {NoName}]
  BY SMTT(60) DEF Mirrored
<1>12. Mirrored(Q, V, K)
  BY <1>6, <1>7, <1>8, <1>9, <1>10, <1>11, ZenonT(60) DEF Mirrored
<1> QED
  BY <1>12 DEF Q, V

\* free_user_reg takes the structure, its row and the rows of its nicknames.
LEMMA MirrorFree ==
  ASSUME NEW R \in [Objs -> UserReg \cup {Unused}], NEW U \in [Names -> Row \cup {NoRow}], NEW K,
         Mirrored(R, U, K),
         NEW o \in Objs, R[o].live, NEW r, ~ r.live
  PROVE  Mirrored([R EXCEPT ![o] = r], [U EXCEPT ![R[o].name] = NoRow],
                  [k \in Nicks |-> IF k \in R[o].nicks THEN NoName ELSE K[k]])
<1> DEFINE Q == [R EXCEPT ![o] = r]
           V == [U EXCEPT ![R[o].name] = NoRow]
           L == [k \in Nicks |-> IF k \in R[o].nicks THEN NoName ELSE K[k]]
<1>1. \A p \in Objs : R[p].live => R[p].name \in Names /\ R[p].nicks \subseteq Nicks
  BY LiveReg, Fields
<1>2. Q[o] = r /\ \A p \in Objs : p # o => Q[p] = R[p]
  OBVIOUS
<1>3. V[R[o].name] = NoRow /\ \A n \in Names : n # R[o].name => V[n] = U[n]
  BY <1>1
<1>4. \A k \in Nicks : L[k] = IF k \in R[o].nicks THEN NoName ELSE K[k]
  OBVIOUS
<1>5. L \in [Nicks -> Names \cup {NoName}]
  BY DEF Mirrored
<1> HIDE DEF Q, V, L
<1>6. \A p, q \in Objs : Q[p].live /\ Q[q].live /\ Q[p].name = Q[q].name => p = q
  BY <1>2 DEF Mirrored
<1>7. \A p \in Objs : Q[p].live => V[Q[p].name] = RowOf(Q[p])
  BY <1>1, <1>2, <1>3 DEF Mirrored
<1>8. ASSUME NEW n \in Names, V[n] # NoRow PROVE \E p \in Objs : Q[p].live /\ Q[p].name = n
  <2>1. n # R[o].name
    BY <1>3, <1>8
  <2>2. PICK p \in Objs : R[p].live /\ R[p].name = n
    BY <1>3, <1>8, <2>1 DEF Mirrored
  <2> QED
    BY <1>2, <2>1, <2>2
<1>9. ASSUME NEW p \in Objs, Q[p].live, NEW k \in Q[p].nicks PROVE L[k] = Q[p].name
  <2>1. p # o /\ Q[p] = R[p]
    BY <1>2, <1>9
  <2>2. K[k] = R[p].name /\ k \in Nicks
    BY <1>1, <1>9, <2>1 DEF Mirrored
  <2>3. k \notin R[o].nicks
    BY <1>9, <2>1, <2>2 DEF Mirrored
  <2> QED
    BY <1>4, <2>1, <2>2, <2>3
<1>10. ASSUME NEW k \in Nicks, L[k] # NoName PROVE \E p \in Objs : Q[p].live /\ k \in Q[p].nicks
  <2>1. k \notin R[o].nicks /\ K[k] # NoName
    BY <1>4, <1>10
  <2>2. PICK p \in Objs : R[p].live /\ k \in R[p].nicks
    BY <2>1, SMTT(60) DEF Mirrored
  <2> QED
    BY <1>2, <2>1, <2>2
<1>11. Mirrored(Q, V, L)
  BY <1>5, <1>6, <1>7, <1>8, <1>9, <1>10, ZenonT(60) DEF Mirrored
<1> QED
  BY <1>11 DEF Q, V, L

\* A nickname is registered to an account, or given up by it.
LEMMA MirrorNick ==
  ASSUME NEW R \in [Objs -> UserReg \cup {Unused}], NEW U, NEW K, Mirrored(R, U, K),
         NEW o \in Objs, R[o].live, NEW r, r.live, r.name = R[o].name, RowOf(r) = RowOf(R[o]),
         NEW k \in Nicks, NEW L,
         \/ /\ r.nicks = R[o].nicks \cup {k} /\ L = [K EXCEPT ![k] = R[o].name]
            /\ \A p \in Objs : R[p].live => k \notin R[p].nicks
         \/ /\ r.nicks = R[o].nicks \ {k} /\ L = [K EXCEPT ![k] = NoName]
            /\ k \in R[o].nicks
  PROVE  Mirrored([R EXCEPT ![o] = r], U, L)
<1> DEFINE Q == [R EXCEPT ![o] = r]
<1>1. \A p \in Objs : R[p].live => R[p].name \in Names /\ R[p].nicks \subseteq Nicks
  BY LiveReg, Fields
<1>2. Q[o] = r /\ \A p \in Objs : p # o => Q[p] = R[p]
  BY SMTT(60)
<1>3. L \in [Nicks -> Names \cup {NoName}] /\ \A j \in Nicks : j # k => L[j] = K[j]
  BY <1>1, SMTT(60) DEF Mirrored
<1>4. /\ L[k] = R[o].name \/ L[k] = NoName
      /\ L[k] = R[o].name => r.nicks = R[o].nicks \cup {k}
      /\ L[k] = NoName => r.nicks = R[o].nicks \ {k}
  BY <1>1, UserNamesAssumption, SMTT(60) DEF Mirrored
<1>5. \A p \in Objs : p # o /\ R[p].live => k \notin R[p].nicks
  BY SMTT(60) DEF Mirrored
<1> HIDE DEF Q
<1>6. \A p, q \in Objs : Q[p].live /\ Q[q].live /\ Q[p].name = Q[q].name => p = q
  BY <1>2, SMTT(60) DEF Mirrored
<1>7. \A p \in Objs : Q[p].live => U[Q[p].name] = RowOf(Q[p])
  BY <1>2, SMTT(60) DEF Mirrored
<1>8. \A n \in Names : U[n] # NoRow => \E p \in Objs : Q[p].live /\ Q[p].name = n
  BY <1>2 DEF Mirrored
<1>9. ASSUME NEW p \in Objs, Q[p].live, NEW j \in Q[p].nicks PROVE L[j] = Q[p].name
  <2>1. CASE p = o
    <3>1. j = k \/ j \in R[o].nicks
      BY <1>2, <1>4, <1>9, <2>1
    <3>2. CASE j = k
      BY <1>2, <1>4, <1>9, <2>1, <3>2, SMTT(60)
    <3>3. CASE j # k
      BY <1>1, <1>2, <1>3, <3>1, <2>1, <3>3, SMTT(60) DEF Mirrored
    <3> QED
      BY <3>2, <3>3
  <2>2. CASE p # o
    <3>1. Q[p] = R[p]
      BY <1>2, <2>2
    <3>2. R[p].live /\ j \in R[p].nicks
      BY <1>9, <3>1
    <3>3. j \in Nicks /\ j # k
      BY <1>1, <1>5, <2>2, <3>2
    <3>4. K[j] = R[p].name
      BY <3>2, Zenon DEF Mirrored
    <3> QED
      BY <1>3, <3>1, <3>3, <3>4
  <2> QED
    BY <2>1, <2>2, SMTT(60)
<1>10. ASSUME NEW j \in Nicks, L[j] # NoName PROVE \E p \in Objs : Q[p].live /\ j \in Q[p].nicks
  <2>1. CASE j = k
    BY <1>2, <1>4, <1>10, <2>1
  <2>2. CASE j # k
    <3>1. PICK p \in Objs : R[p].live /\ j \in R[p].nicks
      BY <1>3, <1>10, <2>2, SMTT(60) DEF Mirrored
    <3> QED
      BY <1>2, <1>4, <2>2, <3>1, SMTT(60)
  <2> QED
    BY <2>1, <2>2
<1>11. Mirrored(Q, U, L)
  BY <1>3, <1>6, <1>7, <1>8, <1>9, <1>10, ZenonT(60) DEF Mirrored
<1> QED
  BY <1>11 DEF Q

\* A new process reads the tables: every row finds a structure, as there were
\* enough of them before, and every nickname its account.
LEMMA MirrorLoad ==
  ASSUME LoginInv, Mirrored(regs, users, nicks), NEW newnicks \in [Nicks -> Names \cup {NoName}],
         \A k \in Nicks : newnicks[k] \in {nicks[k], NoName}, Load(users, newnicks)
  PROVE  Mirrored(regs', users', nicks')
<1> DEFINE stored == {n \in Names : users[n] # NoRow}
<1>1. PICK f : /\ f \in [1 .. Cardinality(stored) -> stored]
               /\ \A i, j \in DOMAIN f : i < j => f[i] # f[j]
               /\ regs' = [o \in Objs |->
                             IF o \in DOMAIN f
                             THEN [live |-> TRUE, name |-> f[o], never |-> users[f[o]].never,
                                   suspend |-> users[f[o]].suspend, users |-> {},
                                   nicks |-> {k \in Nicks : newnicks[k] = f[o]}]
                             ELSE Unused]
  BY ZenonT(60) DEF Load
<1>2. users' = users /\ nicks' = newnicks
  BY ZenonT(30) DEF Load
<1>3. /\ users \in [Names -> Row \cup {NoRow}]
      /\ \A o \in Objs : regs[o].live => regs[o] \in UserReg
  BY LiveReg, Zenon DEF LoginInv, Good
<1>4. \A n \in Names : n \in stored => users[n] \in Row
  BY <1>3
<1>5. IsFiniteSet(stored) /\ Cardinality(stored) <= MaxRegs
  <2> DEFINE g == [n \in stored |-> CHOOSE o \in Objs : regs[o].live /\ regs[o].name = n]
  <2>1. \A n \in stored : g[n] \in Objs /\ regs[g[n]].live /\ regs[g[n]].name = n
    BY DEF Mirrored
  <2>2. g \in Injection(stored, Objs)
    <3>1. g \in [stored -> Objs]
      BY <2>1, ZenonT(60)
    <3> HIDE DEF g, stored
    <3>2. \A n, q \in stored : g[n] = g[q] => n = q
      BY <2>1
    <3> QED
      BY <3>1, <3>2, SMTT(60) DEF Injection, IsInjective
  <2>3. IsFiniteSet(Objs) /\ Cardinality(Objs) = MaxRegs
    BY FS_Interval, MaxRegsAssumption DEF Objs
  <2> HIDE DEF stored, g
  <2> QED
    BY <2>2, <2>3, FS_Injection, SMTT(60)
<1> HIDE DEF stored
<1>6. Cardinality(stored) \in Nat
  BY <1>5, FS_CardinalityType
<1>7. \A i, j \in DOMAIN f : f[i] = f[j] => i = j
  BY <1>1, <1>6
<1>8. \A n \in stored : \E i \in DOMAIN f : f[i] = n
  <2>1. f \in Injection(1 .. Cardinality(stored), stored)
    BY <1>1, <1>7 DEF Injection, IsInjective
  <2>2. Cardinality(1 .. Cardinality(stored)) = Cardinality(stored)
    BY <1>6, FS_Interval
  <2>3. f \in Surjection(1 .. Cardinality(stored), stored)
    BY <1>5, <2>1, <2>2, FS_Injection, SMTT(60)
  <2> QED
    BY <1>1, <2>3, SMTT(60) DEF Surjection
<1>9. DOMAIN f \subseteq Objs
  BY <1>1, <1>5, <1>6, MaxRegsAssumption, SMTT(60) DEF Objs
<1>10. \A o \in Objs : regs'[o].live <=> o \in DOMAIN f
  BY <1>1, Distinct, SMTT(60)
<1>11. ASSUME NEW o \in DOMAIN f
       PROVE  /\ regs'[o].name = f[o] /\ RowOf(regs'[o]) = users[f[o]]
              /\ regs'[o].nicks = {k \in Nicks : newnicks[k] = f[o]}
              /\ f[o] \in stored /\ f[o] \in Names
  <2>1. f[o] \in stored /\ f[o] \in Names
    BY <1>1, ZenonT(60) DEF stored
  <2>2. users[f[o]] = [never |-> users[f[o]].never, suspend |-> users[f[o]].suspend]
    BY <1>4, <2>1, ZenonT(60) DEF Row
  <2>3. /\ regs'[o].name = f[o] /\ regs'[o].never = users[f[o]].never
        /\ regs'[o].suspend = users[f[o]].suspend
        /\ regs'[o].nicks = {k \in Nicks : newnicks[k] = f[o]}
    <3>1. o \in Objs
      BY <1>9
    <3>2. PICK ks : ks = {k \in Nicks : newnicks[k] = f[o]}
      BY ZenonT(30)
    <3>3. regs'[o] = [live |-> TRUE, name |-> f[o], never |-> users[f[o]].never,
                      suspend |-> users[f[o]].suspend, users |-> {}, nicks |-> ks]
      BY <1>1, <3>1, <3>2, ZenonT(60)
    <3> QED
      BY <3>2, <3>3
  <2> QED
    <3>1. RowOf(regs'[o]) = users[f[o]]
      BY <2>2, <2>3, Zenon DEF RowOf
    <3> QED
      BY <2>1, <2>3, <3>1, Zenon
<1>12. \A o, p \in Objs : regs'[o].live /\ regs'[p].live /\ regs'[o].name = regs'[p].name => o = p
  BY <1>7, <1>10, <1>11, SMTT(60)
<1>13. \A o \in Objs : regs'[o].live => users[regs'[o].name] = RowOf(regs'[o])
  BY <1>10, <1>11
<1>14. ASSUME NEW n \in Names, users[n] # NoRow PROVE \E o \in Objs : regs'[o].live /\ regs'[o].name = n
  <2>1. PICK i \in DOMAIN f : f[i] = n
    BY <1>8, <1>14 DEF stored
  <2> QED
    BY <1>9, <1>10, <1>11, <2>1
<1>15. \A o \in Objs : regs'[o].live => \A k \in regs'[o].nicks : newnicks[k] = regs'[o].name
  BY <1>10, <1>11
<1>16. ASSUME NEW k \in Nicks, newnicks[k] # NoName PROVE \E o \in Objs : regs'[o].live /\ k \in regs'[o].nicks
  <2>1. nicks[k] = newnicks[k]
    BY <1>16, SMTT(60)
  <2>2. PICK o \in Objs : regs[o].live /\ k \in regs[o].nicks
    BY <1>16, <2>1 DEF Mirrored
  <2>3. regs[o].name = newnicks[k] /\ users[regs[o].name] = RowOf(regs[o]) /\ regs[o].name \in Names
    BY <1>3, <2>1, <2>2, Fields DEF Mirrored
  <2>4. RowOf(regs[o]) # NoRow
    <3>1. "suspend" \in DOMAIN RowOf(regs[o])
      BY DEF RowOf
    <3> QED
      BY <3>1 DEF NoRow
  <2>5. PICK i \in DOMAIN f : f[i] = newnicks[k]
    BY <1>8, <2>3, <2>4 DEF stored
  <2> QED
    BY <1>9, <1>10, <1>11, <2>5
<1> QED
  BY <1>2, <1>12, <1>13, <1>14, <1>15, <1>16, ZenonT(60) DEF Mirrored

\* What a step does to structures and tables, by kind.
LEMMA MirrorStep ==
  ASSUME LoginInv, Mirrored(regs, users, nicks), [UserNext]_userVars
  PROVE  Mirrored(regs', users', nicks')
<1> DEFINE M == Mirrored(regs', users', nicks')
<1>0. regs \in [Objs -> UserReg \cup {Unused}] /\ users \in [Names -> Row \cup {NoRow}]
  BY DEF LoginInv, Good
<1>1. \A o \in Objs : regs[o].live => regs[o] \in UserReg
  BY <1>0, LiveReg, SMTT(60)
<1> HIDE DEF M
<1>2. ASSUME NEW o \in Live, NEW r \in UserReg, r.live, r.name = regs[o].name, r.nicks = regs[o].nicks,
             Write(o, r), UNCHANGED nicks
      PROVE  M
  BY <1>0, <1>2, MirrorWrite, Zenon DEF Live, Write, M
<1>3. ASSUME NEW n \in Names, NEW isnever \in BOOLEAN, NEW S \in SUBSET Clients, find_user_reg(n) = {},
             add_user_reg(n, isnever, S), UNCHANGED nicks
      PROVE  M
  <2> DEFINE r == [live |-> TRUE, name |-> n, never |-> isnever, suspend |-> "off",
                   users |-> S, nicks |-> {}]
  <2>1. PICK o \in Objs : /\ regs[o] = Unused /\ regs' = [regs EXCEPT ![o] = r]
                          /\ users' = [users EXCEPT ![n] = RowOf(r)]
    BY <1>3, Zenon DEF add_user_reg
  <2>2. r \in UserReg /\ r.live /\ r.name = n /\ r.nicks = {}
    BY Zenon DEF UserReg, Suspension
  <2> HIDE DEF r
  <2>3. ~ regs[o].live /\ \A p \in Objs : regs[p].live => regs[p].name # r.name
    BY <1>3, <2>1, <2>2, Distinct, SMTT(60) DEF find_user_reg, Live
  <2>4. Mirrored([regs EXCEPT ![o] = r], [users EXCEPT ![r.name] = RowOf(r)], nicks)
    BY <1>0, <2>2, <2>3, MirrorWrite, Zenon
  <2> QED
    BY <1>3, <2>1, <2>2, <2>4 DEF M
<1>4. ASSUME NEW o \in Live, NEW C, free_user_reg(o, C) PROVE M
  <2> DEFINE r == [regs[o] EXCEPT !.live = FALSE]
  <2>1. /\ Settle([regs EXCEPT ![o] = r], C)
        /\ users' = [users EXCEPT ![regs[o].name] = NoRow]
        /\ nicks' = [k \in Nicks |-> IF k \in regs[o].nicks THEN NoName ELSE nicks[k]]
    BY <1>4 DEF free_user_reg
  <2>2. o \in Objs /\ regs[o].live /\ ~ r.live
    BY <1>1 DEF Live, UserReg
  <2> HIDE DEF r
  <2>3. Mirrored([regs EXCEPT ![o] = r], users', nicks')
    BY <1>0, <2>1, <2>2, MirrorFree, ZenonT(60)
  <2> QED
    BY <2>1, <2>3, MirrorSettle DEF M
<1>5. ASSUME NEW o \in Live, NEW k \in Nicks, NEW mine \in BOOLEAN, SetNick(o, k, mine),
             IF mine THEN find_nick_reg(k) = {} ELSE o \in find_nick_reg(k)
      PROVE  M
  <2> DEFINE N == IF mine THEN regs[o].nicks \cup {k} ELSE regs[o].nicks \ {k}
             r == [regs[o] EXCEPT !.nicks = N]
  <2>1. /\ regs' = [regs EXCEPT ![o] = r] /\ users' = users
        /\ nicks' = [nicks EXCEPT ![k] = IF mine THEN regs[o].name ELSE NoName]
    BY <1>5 DEF SetNick
  <2>2. o \in Objs /\ regs[o].live /\ regs[o] \in UserReg
    BY <1>1 DEF Live
  <2>3. r.live /\ r.name = regs[o].name /\ r.nicks = N /\ RowOf(r) = RowOf(regs[o])
    BY <2>2 DEF UserReg, RowOf
  <2> HIDE DEF r
  <2>4. \/ /\ r.nicks = regs[o].nicks \cup {k} /\ nicks' = [nicks EXCEPT ![k] = regs[o].name]
           /\ \A p \in Objs : regs[p].live => k \notin regs[p].nicks
        \/ /\ r.nicks = regs[o].nicks \ {k} /\ nicks' = [nicks EXCEPT ![k] = NoName]
           /\ k \in regs[o].nicks
    BY <1>5, <2>1, <2>3, Zenon DEF find_nick_reg, Live
  <2> HIDE DEF N
  <2>5. Mirrored([regs EXCEPT ![o] = r], users, nicks')
    BY <1>0, <2>2, <2>3, <2>4, MirrorNick, Zenon
  <2> QED
    BY <2>1, <2>5 DEF M
<1>6. ASSUME \A o \in Objs : Alike(regs'[o], regs[o]), UNCHANGED <<users, nicks>> PROVE M
  BY <1>6, MirrorSame DEF M
<1>7. ASSUME NEW S \in SUBSET Clients, NEW C, Settle(Unlisted(S), C), UNCHANGED <<users, nicks>> PROVE M
  <2>1. ASSUME NEW o \in Objs PROVE Alike(Unlisted(S)[o], regs[o])
    <3>1. CASE o \in Live
      <4> DEFINE r == [regs[o] EXCEPT !.users = @ \ {c \in S : client[c].reg = o}]
      <4>1. regs[o] \in UserReg /\ Unlisted(S)[o] = r
        BY <1>1, <3>1 DEF Live, Unlisted
      <4>2. r.live = regs[o].live /\ r.name = regs[o].name /\ r.nicks = regs[o].nicks /\ RowOf(r) = RowOf(regs[o])
        BY <4>1 DEF UserReg, RowOf
      <4> HIDE DEF r
      <4> QED
        BY <4>1, <4>2 DEF Alike
    <3>2. CASE o \notin Live
      BY <3>2 DEF Unlisted, Alike
    <3> QED
      BY <3>1, <3>2
  <2>2. Mirrored(Unlisted(S), users, nicks)
    BY <2>1, MirrorSame
  <2> QED
    BY <1>7, <2>2, MirrorSettle DEF M
<1>8. ASSUME NEW c \in Clients, NEW n \in Names, s_user_register(c, n) PROVE M
  BY <1>3, <1>8, Zenon DEF s_user_register
<1>9. ASSUME NEW n \in Names, o_user_userregister(n) PROVE M
  BY <1>3, <1>9, Zenon DEF o_user_userregister
<1>10. ASSUME NEW c \in Clients, NEW n \in Names, s_user_activate(c, n) PROVE M
  <2>1. PICK o \in find_user_reg(n) : Write(o, [regs[o] EXCEPT !.never = FALSE])
    BY <1>10, Zenon DEF s_user_activate
  <2> DEFINE r == [regs[o] EXCEPT !.never = FALSE]
  <2>2. o \in Live /\ regs[o] \in UserReg /\ regs[o].live
    BY <1>1 DEF find_user_reg, Live
  <2>3. r \in UserReg /\ r.live = regs[o].live /\ r.name = regs[o].name /\ r.nicks = regs[o].nicks
    BY <2>2, Zenon DEF UserReg
  <2>4. Write(o, r) /\ UNCHANGED nicks
    BY <1>10, <2>1 DEF s_user_activate
  <2> HIDE DEF r
  <2> QED
    BY <1>2, <2>2, <2>3, <2>4, Zenon
<1>11. ASSUME NEW c \in Clients, NEW n \in Names, s_user_login(c, n) PROVE M
  <2>1. PICK o \in find_user_reg(n) : Write(o, [regs[o] EXCEPT !.suspend = "off", !.users = @ \cup {c}])
    BY <1>11, Zenon DEF s_user_login
  <2> DEFINE r == [regs[o] EXCEPT !.suspend = "off", !.users = @ \cup {c}]
  <2>2. o \in Live /\ regs[o] \in UserReg /\ regs[o].live
    BY <1>1 DEF find_user_reg, Live
  <2>3. r \in UserReg /\ r.live = regs[o].live /\ r.name = regs[o].name /\ r.nicks = regs[o].nicks
    BY <2>2, Zenon DEF UserReg, Suspension
  <2>4. Write(o, r) /\ UNCHANGED nicks
    BY <1>11, <2>1 DEF s_user_login
  <2> HIDE DEF r
  <2> QED
    BY <1>2, <2>2, <2>3, <2>4, Zenon
<1>12. ASSUME NEW o \in Objs, expire_user_suspend(o) \/ o_user_userunsuspend(o) PROVE M
  <2> DEFINE r == [regs[o] EXCEPT !.suspend = "off"]
  <2>1. o \in Live /\ Write(o, r) /\ UNCHANGED nicks
    BY <1>12 DEF expire_user_suspend, o_user_userunsuspend
  <2>2. regs[o] \in UserReg /\ regs[o].live
    BY <1>1, <2>1 DEF Live
  <2>3. r \in UserReg /\ r.live = regs[o].live /\ r.name = regs[o].name /\ r.nicks = regs[o].nicks
    BY <2>2, Zenon DEF UserReg, Suspension
  <2> HIDE DEF r
  <2> QED
    BY <1>2, <2>1, <2>2, <2>3, Zenon
<1>13. ASSUME NEW o \in Objs, NEW kind \in Suspension \ {"off"}, o_user_usersuspend(o, kind) PROVE M
  <2> DEFINE r == [regs[o] EXCEPT !.suspend = kind, !.users = {}]
  <2>1. o \in Live /\ Write(o, r) /\ UNCHANGED nicks
    BY <1>13 DEF o_user_usersuspend
  <2>2. regs[o] \in UserReg /\ regs[o].live
    BY <1>1, <2>1 DEF Live
  <2>3. r \in UserReg /\ r.live = regs[o].live /\ r.name = regs[o].name /\ r.nicks = regs[o].nicks
    BY <2>2, Zenon DEF UserReg
  <2> HIDE DEF r
  <2> QED
    BY <1>2, <2>1, <2>2, <2>3, Zenon
<1>14. ASSUME NEW o \in Objs, o_user_userdrop(o) \/ e_user_expire(o) PROVE M
  BY <1>4, <1>14 DEF o_user_userdrop, e_user_expire
<1>15. ASSUME NEW c \in Clients, s_user_logout(c) PROVE M
  <2> DEFINE o == client[c].reg
             r == [regs[o] EXCEPT !.users = @ \ {c}]
             R == [regs EXCEPT ![o] = r]
  <2>1. o \in Live /\ UNCHANGED <<users, nicks>> /\ Settle(R, [client EXCEPT ![c].reg = NoReg])
    BY <1>15 DEF s_user_logout, LoggedIn, Acting
  <2>2. o \in Objs /\ regs[o] \in UserReg
    BY <1>1, <2>1 DEF Live
  <2>3. r.live = regs[o].live /\ r.name = regs[o].name /\ r.nicks = regs[o].nicks /\ RowOf(r) = RowOf(regs[o])
    BY <2>2 DEF UserReg, RowOf
  <2> HIDE DEF r
  <2>4. \A p \in Objs : Alike(R[p], regs[p])
    BY <1>0, <2>2, <2>3 DEF Alike
  <2>5. Mirrored(R, users, nicks)
    BY <2>4, MirrorSame, Zenon
  <2> QED
    BY <2>1, <2>5, MirrorSettle DEF M
<1>16. ASSUME NEW c \in Clients, s_nick_register(c) PROVE M
  <2>1. client[c].reg \in Live /\ client[c].nick \in Nicks
    BY <1>16, Zenon DEF s_nick_register, LoggedIn, Acting, LoginInv, Good, Held
  <2> QED
    BY <1>5, <1>16, <2>1, Zenon DEF s_nick_register
<1>17. ASSUME NEW k \in Nicks, o_nick_nickdrop(k) \/ \E c \in Clients : s_nick_drop(c, k) PROVE M
  <2>1. PICK o \in find_nick_reg(k) : SetNick(o, k, FALSE)
    BY <1>17, Zenon DEF o_nick_nickdrop, s_nick_drop
  <2> QED
    BY <1>5, <2>1, Zenon DEF find_nick_reg
<1>18. ASSUME NEW c \in Clients, h_user_burst_login(c) PROVE M
  <2> DEFINE F == {o \in find_user_reg(suser[c]) : regs[o].suspend = "off"}
  <2>1. UNCHANGED <<users, nicks>>
    BY <1>18 DEF h_user_burst_login
  <2>2. CASE UNCHANGED regs
    BY <2>1, <2>2 DEF M
  <2>3. ASSUME NEW o \in F, regs' = [regs EXCEPT ![o].users = @ \cup {c}] PROVE M
    <3> DEFINE r == [regs[o] EXCEPT !.users = @ \cup {c}]
    <3>1. o \in Objs /\ regs[o] \in UserReg /\ regs' = [regs EXCEPT ![o] = r]
      BY <1>1, <2>3 DEF find_user_reg, Live
    <3>2. r.live = regs[o].live /\ r.name = regs[o].name /\ r.nicks = regs[o].nicks /\ RowOf(r) = RowOf(regs[o])
      BY <3>1 DEF UserReg, RowOf
    <3> HIDE DEF r
    <3>3. \A p \in Objs : Alike(regs'[p], regs[p])
      BY <1>0, <3>1, <3>2 DEF Alike
    <3> QED
      BY <1>6, <2>1, <3>3
  <2> QED
    BY <1>18, <2>2, <2>3 DEF h_user_burst_login
<1>19. ASSUME NEW c \in Clients, NEW k \in Nicks, s_nick_release(c, k) PROVE M
  <2>1. PICK d \in Clients : Exit({d})
    BY <1>19 DEF s_nick_release
  <2> QED
    BY <1>7, <1>19, <2>1 DEF s_nick_release, Exit
<1>20. ASSUME NEW c \in Clients, NEW k \in Nicks, c_uid(c, k) PROVE M
  <2> DEFINE old == {d \in Clients : client[d].nick = k}
             cl == [on |-> IF suser[c] = NoName THEN "on" ELSE "pending", nick |-> k, reg |-> NoReg]
  <2>1. Settle(Unlisted(old), [Gone(old) EXCEPT ![c] = cl]) /\ UNCHANGED <<users, nicks>>
    BY <1>20 DEF c_uid
  <2>2. old \in SUBSET Clients
    OBVIOUS
  <2> HIDE DEF old, cl
  <2> QED
    BY <1>7, <2>1, <2>2, SMTT(60)
<1>21. ASSUME NEW c \in Clients, c_quit(c) PROVE M
  BY <1>7, <1>21 DEF c_quit, Exit
<1>22. ASSUME Split PROVE M
  BY <1>7, <1>22 DEF Split, Exit
<1>23. ASSUME Connect \/ EndOfBurst \/ UNCHANGED userVars
              \/ (\E c \in Clients : LeaveUnseen(c) \/ \E k \in Nicks : c_nick(c, k))
       PROVE  M
  BY <1>23, SMTT(60) DEF Connect, EndOfBurst, userVars, LeaveUnseen, c_nick, M
<1>24. ASSUME Restart PROVE M
  BY <1>24, MirrorLoad, Zenon DEF Restart, Mirrored, M
<1>25. ASSUME NEW o \in Objs, NEW gone \in SUBSET Nicks, RestartInDrop(o, gone) PROVE M
  <2> DEFINE L == [k \in Nicks |-> IF k \in gone THEN NoName ELSE nicks[k]]
  <2>1. L \in [Nicks -> Names \cup {NoName}] /\ \A k \in Nicks : L[k] \in {nicks[k], NoName}
    BY DEF Mirrored
  <2>2. Load(users, L)
    BY <1>25 DEF RestartInDrop
  <2> HIDE DEF L
  <2> QED
    BY <2>1, <2>2, MirrorLoad DEF M
<1>26. UserNext => M
  <2> SUFFICES ASSUME UserNext PROVE M
    OBVIOUS
  <2>1. ASSUME NEW c \in Clients, NEW n \in Names,
               s_user_register(c, n) \/ s_user_activate(c, n) \/ s_user_login(c, n)
        PROVE  M
    BY <1>8, <1>10, <1>11, <2>1
  <2>2. ASSUME NEW c \in Clients,
               s_user_logout(c) \/ s_nick_register(c) \/ h_user_burst_login(c) \/ c_quit(c) \/ LeaveUnseen(c)
        PROVE  M
    BY <1>15, <1>16, <1>18, <1>21, <1>23, <2>2
  <2>3. ASSUME NEW c \in Clients, NEW k \in Nicks,
               s_nick_drop(c, k) \/ s_nick_release(c, k) \/ c_uid(c, k) \/ c_nick(c, k)
        PROVE  M
    BY <1>17, <1>19, <1>20, <1>23, <2>3
  <2>4. ASSUME NEW o \in Objs,
               \/ expire_user_suspend(o) \/ o_user_userdrop(o) \/ o_user_userunsuspend(o)
               \/ e_user_expire(o)
               \/ \E kind \in Suspension \ {"off"} : o_user_usersuspend(o, kind)
               \/ \E gone \in SUBSET Nicks : RestartInDrop(o, gone)
        PROVE  M
    BY <1>12, <1>13, <1>14, <1>25, <2>4
  <2> QED
    BY <1>9, <1>17, <1>22, <1>23, <1>24, <2>1, <2>2, <2>3, <2>4 DEF UserNext
<1> QED
  BY <1>23, <1>26, SMTT(60) DEF M

\* Names have one structure, and the tables hold what the structures hold: after
\* every command, expiry, split and collision, and after a restart that reads the
\* tables, one in the middle of a USERDROP too.
THEOREM Mirrors == UserSpec => []UserMirror
<1> DEFINE M == Mirrored(regs, users, nicks)
<1>1. UserInit => M
  BY Distinct DEF UserInit, Mirrored
<1>2. LoginInv /\ M /\ [UserNext]_userVars => M'
  BY MirrorStep
<1>3. LoginInv /\ M => UserMirror
  <2> SUFFICES ASSUME LoginInv, M PROVE UserMirror
    OBVIOUS
  <2>1. \A o \in Objs : regs[o].live => RowOf(regs[o]) # NoRow
    <3>1. \A o \in Objs : "suspend" \in DOMAIN RowOf(regs[o])
      BY DEF RowOf
    <3>2. "suspend" \notin DOMAIN NoRow
      BY DEF NoRow
    <3> QED
      BY <3>1, <3>2
  <2>2. ASSUME NEW n \in Names
        PROVE  {RowOf(regs[o]) : o \in find_user_reg(n)} = {users[n]} \ {NoRow}
    <3>1. \A o \in find_user_reg(n) : RowOf(regs[o]) = users[n] /\ users[n] # NoRow
      BY <2>1 DEF Mirrored, find_user_reg, Live
    <3>2. users[n] # NoRow => find_user_reg(n) # {}
      BY DEF Mirrored, find_user_reg, Live
    <3> QED
      BY <3>1, <3>2
  <2>3. ASSUME NEW n \in Names PROVE Cardinality(find_user_reg(n)) <= 1
    <3>1. \A o, p \in find_user_reg(n) : o = p
      BY DEF Mirrored, find_user_reg, Live
    <3>2. find_user_reg(n) = {} \/ \E o : find_user_reg(n) = {o}
      BY <3>1, Zenon
    <3>3. Cardinality(find_user_reg(n)) \in {0, 1}
      BY <3>2, FS_EmptySet, FS_Singleton, Zenon
    <3> QED
      BY <3>3
  <2>4. ASSUME NEW k \in Nicks
        PROVE  {regs[o].name : o \in find_nick_reg(k)} = {nicks[k]} \ {NoName}
    <3>1. \A o \in find_nick_reg(k) : regs[o].name = nicks[k] /\ nicks[k] # NoName
      <4>1. \A o \in Live : regs[o].name \in Names
        BY LiveReg, Fields, SMTT(60) DEF LoginInv, Good, Live
      <4> QED
        BY <4>1, UserNamesAssumption, SMTT(60) DEF Mirrored, find_nick_reg, Live
    <3>2. nicks[k] # NoName => find_nick_reg(k) # {}
      BY DEF Mirrored, find_nick_reg, Live
    <3> QED
      BY <3>1, <3>2, SMTT(60)
  <2> QED
    BY <2>2, <2>3, <2>4 DEF UserMirror
<1> QED
  BY <1>1, <1>2, <1>3, LoginInvHolds, PTL DEF UserSpec

-----------------------------------------------------------------------------
(* Memos.                                                                  *)

\* Ids are given once: every id in use, in either table, is one that was given,
\* and no two accounts share one.
MemoInv ==
  /\ ids \in [Holders -> Nat]
  /\ lastid \in [{"users", "memos"} -> 0 .. MaxId]
  /\ \A n \in Holders : ids[n] <= lastid["users"]
  /\ \A n, k \in Holders : ids[n] # 0 /\ ids[n] = ids[k] => n = k
  /\ memos \subseteq Memo
  /\ \A m \in memos : m.user_id <= lastid["users"]
  /\ MemoAddressee

\* The fields of a memo.
LEMMA MemoFields ==
  ASSUME NEW m \in Memo
  PROVE  /\ m.user_id \in Nat
         /\ \A s \in Holders \cup {"gone"} :
              /\ [m EXCEPT !.sentto = s] \in Memo
              /\ [m EXCEPT !.sentto = s].sentto = s
              /\ [m EXCEPT !.sentto = s].user_id = m.user_id
         /\ [m EXCEPT !.isread = TRUE] \in Memo
         /\ [m EXCEPT !.isread = TRUE].sentto = m.sentto
         /\ [m EXCEPT !.isread = TRUE].user_id = m.user_id
<1>1. m.user_id \in Nat
  BY MemoAssumption DEF Memo
<1>2. ASSUME NEW s \in Holders \cup {"gone"}
      PROVE  /\ [m EXCEPT !.sentto = s] \in Memo
             /\ [m EXCEPT !.sentto = s].sentto = s
             /\ [m EXCEPT !.sentto = s].user_id = m.user_id
  BY DEF Memo
<1>3. /\ [m EXCEPT !.isread = TRUE] \in Memo
      /\ [m EXCEPT !.isread = TRUE].sentto = m.sentto
      /\ [m EXCEPT !.isread = TRUE].user_id = m.user_id
  BY Zenon DEF Memo
<1> QED
  BY <1>1, <1>2, <1>3

\* An account is registered: its id was no memo's.
LEMMA RegisterHolderStep ==
  ASSUME AutoIncrement, MemoInv, NEW n \in Holders, RegisterHolder(n)
  PROVE  MemoInv'
<1> DEFINE id == lastid["users"] + 1
<1>1. /\ ids' = [ids EXCEPT ![n] = id] /\ lastid' = [lastid EXCEPT !["users"] = id]
      /\ UNCHANGED memos /\ id <= MaxId
  BY DEF RegisterHolder, NewId, Insert
<1>2. lastid["users"] \in 0 .. MaxId /\ \A k \in Holders : ids[k] \in Nat /\ ids[k] <= lastid["users"]
  BY DEF MemoInv
<1>3. ids' \in [Holders -> Nat] /\ lastid' \in [{"users", "memos"} -> 0 .. MaxId] /\ lastid'["users"] = id
  BY <1>1, <1>2, MemoAssumption DEF MemoInv
<1>4. ids'[n] = id /\ \A k \in Holders : k # n => ids'[k] = ids[k]
  BY <1>1 DEF MemoInv
<1>5. \A m \in memos : m.user_id \in Nat /\ m.user_id <= lastid["users"]
  BY MemoFields, Zenon DEF MemoInv
<1>6. \A k \in Holders : ids'[k] <= lastid'["users"]
  BY <1>2, <1>3, <1>4
<1>7. \A k, j \in Holders : ids'[k] # 0 /\ ids'[k] = ids'[j] => k = j
  BY <1>2, <1>4 DEF MemoInv
<1>8. \A m \in memos : m.user_id <= lastid'["users"] /\ m.user_id # id
  BY <1>2, <1>3, <1>5
<1>9. MemoAddressee'
  BY <1>1, <1>4, <1>8 DEF MemoAddressee, MemoInv
<1> QED
  BY <1>1, <1>3, <1>6, <1>7, <1>8, <1>9 DEF MemoInv

\* An account is freed: its memos are nobody's from now on.
LEMMA FreeHolderStep ==
  ASSUME MemoInv, NEW n \in Holders, FreeHolder(n)
  PROVE  MemoInv'
<1>1. /\ ids' = [ids EXCEPT ![n] = 0] /\ UNCHANGED lastid
      /\ memos' = {[m EXCEPT !.sentto = IF m.sentto = n THEN "gone" ELSE m.sentto] : m \in memos}
  BY DEF FreeHolder
<1>2. ids' \in [Holders -> Nat] /\ ids'[n] = 0 /\ \A k \in Holders : k # n => ids'[k] = ids[k]
  BY <1>1 DEF MemoInv
<1>3. \A k \in Holders : ids'[k] <= lastid["users"]
  BY <1>2 DEF MemoInv
<1>4. \A k, j \in Holders : ids'[k] # 0 /\ ids'[k] = ids'[j] => k = j
  BY <1>2 DEF MemoInv
<1>5. ASSUME NEW m \in memos'
      PROVE  /\ m \in Memo
             /\ \E old \in memos : m.user_id = old.user_id /\ (old.sentto # n => m.sentto = old.sentto)
  <2>1. PICK old \in memos : m = [old EXCEPT !.sentto = IF old.sentto = n THEN "gone" ELSE old.sentto]
    BY <1>1
  <2>2. old \in Memo /\ old.sentto \in Holders \cup {"gone"}
    BY DEF MemoInv, Memo
  <2> DEFINE s == IF old.sentto = n THEN "gone" ELSE old.sentto
  <2>3. s \in Holders \cup {"gone"} /\ m = [old EXCEPT !.sentto = s]
    BY <2>1, <2>2
  <2>4. old.sentto # n => s = old.sentto
    OBVIOUS
  <2> HIDE DEF s
  <2> QED
    BY <2>2, <2>3, <2>4, MemoFields, ZenonT(60)
<1>6. memos' \subseteq Memo /\ \A m \in memos' : m.user_id <= lastid["users"]
  BY <1>5 DEF MemoInv
<1>7. MemoAddressee'
  BY <1>2, <1>5 DEF MemoAddressee, MemoInv
<1> QED
  BY <1>1, <1>2, <1>3, <1>4, <1>6, <1>7 DEF MemoInv

\* Memos are sent, read and deleted.
LEMMA MemoCommands ==
  ASSUME AutoIncrement, MemoInv, NEW n \in Holders,
         s_memo_send(n) \/ \E S \in SUBSET memos : s_memo_read(n, S) \/ s_memo_delete(n, S)
  PROVE  MemoInv'
<1>1. UNCHANGED ids
  BY DEF s_memo_send, s_memo_read, s_memo_delete
<1>2. ASSUME lastid' \in [{"users", "memos"} -> 0 .. MaxId], lastid'["users"] = lastid["users"],
             \A m \in memos' :
               /\ m \in Memo
               /\ \/ \E old \in memos : m.user_id = old.user_id /\ m.sentto = old.sentto
                  \/ m.user_id = ids[n] /\ m.sentto = n
      PROVE  MemoInv'
  <2>1. memos' \subseteq Memo /\ \A m \in memos' : m.user_id <= lastid["users"]
    BY <1>2 DEF MemoInv
  <2>2. MemoAddressee'
    BY <1>1, <1>2 DEF MemoAddressee, MemoInv
  <2> QED
    BY <1>1, <1>2, <2>1, <2>2 DEF MemoInv
<1>3. ASSUME s_memo_send(n) PROVE MemoInv'
  <2> DEFINE id == lastid["memos"] + 1
             sent == [id |-> id, user_id |-> ids[n], sentto |-> n, isread |-> FALSE]
  <2>1. /\ ids[n] # 0 /\ id <= MaxId
        /\ lastid' = [lastid EXCEPT !["memos"] = id]
        /\ memos' = memos \cup {sent}
    BY <1>3, ZenonT(30) DEF s_memo_send, Insert, NewId
  <2>2. lastid' \in [{"users", "memos"} -> 0 .. MaxId] /\ lastid'["users"] = lastid["users"]
    BY <2>1 DEF MemoInv
  <2>3. id \in 1 .. MaxId /\ ids[n] \in 1 .. MaxId
    BY <2>1, MemoAssumption DEF MemoInv
  <2>4. sent \in Memo /\ sent.user_id = ids[n] /\ sent.sentto = n
    BY <2>3 DEF Memo
  <2> HIDE DEF sent
  <2> QED
    BY <1>2, <2>1, <2>2, <2>4 DEF MemoInv
<1>4. ASSUME NEW S \in SUBSET memos, s_memo_read(n, S) PROVE MemoInv'
  <2>1. memos' = (memos \ S) \cup {[m EXCEPT !.isread = TRUE] : m \in S} /\ UNCHANGED lastid
    BY <1>4 DEF s_memo_read
  <2>2. ASSUME NEW m \in S
        PROVE  /\ [m EXCEPT !.isread = TRUE] \in Memo
               /\ [m EXCEPT !.isread = TRUE].user_id = m.user_id
               /\ [m EXCEPT !.isread = TRUE].sentto = m.sentto
    BY MemoFields DEF MemoInv
  <2>3. ASSUME NEW m \in memos'
        PROVE  m \in Memo /\ \E old \in memos : m.user_id = old.user_id /\ m.sentto = old.sentto
    <3>1. CASE m \in memos
      BY <3>1 DEF MemoInv
    <3>2. CASE m \notin memos
      <4>1. PICK old \in S : m = [old EXCEPT !.isread = TRUE]
        BY <2>1, <3>2
      <4> QED
        BY <2>2, <4>1
    <3> QED
      BY <3>1, <3>2
  <2>4. lastid' \in [{"users", "memos"} -> 0 .. MaxId] /\ lastid'["users"] = lastid["users"]
    BY <2>1 DEF MemoInv
  <2> QED
    BY <1>2, <2>3, <2>4
<1>5. ASSUME NEW S \in SUBSET memos, s_memo_delete(n, S) PROVE MemoInv'
  <2>1. memos' = memos \ S /\ UNCHANGED lastid
    BY <1>5 DEF s_memo_delete
  <2> QED
    BY <1>2, <2>1 DEF MemoInv
<1> QED
  BY <1>3, <1>4, <1>5

\* With ids that are never given twice, LIST, READ and DELETE only ever reach the
\* memos sent to the account as it is registered now, however many accounts of its
\* name were dropped with memos left behind.
THEOREM Addressed == AutoIncrement /\ MemoSpec => []MemoAddressee
<1> SUFFICES ASSUME AutoIncrement PROVE MemoSpec => []MemoAddressee
  OBVIOUS
<1>1. MemoInit => MemoInv
  BY MemoAssumption DEF MemoInit, MemoInv, MemoAddressee
<1>2. MemoInv /\ [MemoNext]_memoVars => MemoInv'
  <2> SUFFICES ASSUME MemoInv, [MemoNext]_memoVars PROVE MemoInv'
    OBVIOUS
  <2>1. ASSUME NEW n \in Holders, SetNoMemos(n) PROVE MemoInv'
    BY <2>1 DEF SetNoMemos, MemoInv, MemoAddressee
  <2>2. CASE UNCHANGED memoVars
    BY <2>2 DEF memoVars, MemoInv, MemoAddressee
  <2> QED
    BY <2>1, <2>2, RegisterHolderStep, FreeHolderStep, MemoCommands DEF MemoNext
<1>3. MemoInv => MemoAddressee
  BY DEF MemoInv
<1> QED
  BY <1>1, <1>2, <1>3, PTL DEF MemoSpec
==============================================================================
