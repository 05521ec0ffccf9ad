------------------------------ MODULE UserServ ------------------------------
(***************************************************************************)
(* UserServ's accounts and who is logged in to them, with the nicknames    *)
(* NickServ keeps for an account and the database copy of both             *)
(* (src/s_userserv.c, src/s_nickserv.c, exit_user() of src/client.c).      *)
(*                                                                         *)
(* The network has its own idea of who is logged in, `suser': it is told   *)
(* by ENCAP SU, it survives a split and an end of the services, and the    *)
(* burst that follows repeats it.  One server stands for the network       *)
(* behind the link.  Accounts are structures, not names: a client may hold *)
(* a pointer to one that has been freed, and a name may be registered      *)
(* again.  Time is a choice: a temporary suspension or an unused account   *)
(* may or may not be old enough whenever the code looks.                   *)
(***************************************************************************)
EXTENDS Naturals, FiniteSets

CONSTANTS
  Names,        \* account names
  Clients,      \* users of the network
  Nicks,        \* nicknames
  MaxRegs,      \* bound: user_reg structures, freed ones still pointed at included
  MaxLogins,    \* userserv::max_logins, 0 for no limit
  MaxNicks      \* nickserv::max_nicks

NoName == "none"
NoReg == 0
Objs == 1 .. MaxRegs

ASSUME MaxRegsAssumption == MaxRegs \in Nat
ASSUME UserNamesAssumption == NoName \notin Names /\ NoName \notin Nicks

VARIABLES
  regs,         \* the user_reg structures, freed ones too while a client points at them
  client,       \* the users the services know of
  users,        \* the table users
  nicks,        \* the table nicks
  suser,        \* the account the network has each client logged in to
  link          \* the server's state: away, bursting, or past its end of burst

userVars == <<regs, client, users, nicks, suser, link>>

Suspension == {"off", "perm", "temp"}

\* never: US_FLAGS_NEVERLOGGEDIN; users: ureg_p->users; nicks: ureg_p->nicks.
UserReg == [live : BOOLEAN, name : Names, never : BOOLEAN, suspend : Suspension,
            users : SUBSET Clients, nicks : SUBSET Nicks]
Unused == [live |-> FALSE]

\* pending: introduced, the ENCAP LOGIN of the burst is the next line of this client.
Client == [on : {"off", "pending", "on"}, nick : Nicks \cup {NoName}, reg : Objs \cup {NoReg}]
Away == [on |-> "off", nick |-> NoName, reg |-> NoReg]

Row == [never : BOOLEAN, suspend : Suspension]
NoRow == [never |-> NoName]

UserInit ==
  /\ regs = [o \in Objs |-> Unused]
  /\ client = [c \in Clients |-> Away]
  /\ users = [n \in Names |-> NoRow]
  /\ nicks = [k \in Nicks |-> NoName]
  /\ suser = [c \in Clients |-> NoName]
  /\ link = "down"

-----------------------------------------------------------------------------
(* Structures and tables.                                                  *)

Live == {o \in Objs : regs[o].live}

\* find_user_reg: the structure of a registered name.
find_user_reg(n) == {o \in Live : regs[o].name = n}

\* The new structures and clients; a freed structure nobody points at is forgotten.
Settle(newregs, newclient) ==
  /\ client' = newclient
  /\ regs' = [o \in Objs |->
                IF newregs[o].live \/ \E c \in Clients : newclient[c].reg = o
                THEN newregs[o] ELSE Unused]

RowOf(r) == [never |-> r.never, suspend |-> r.suspend]

\* Change the structure and write its flags to the table.
Write(o, r) ==
  /\ regs' = [regs EXCEPT ![o] = r]
  /\ users' = [users EXCEPT ![r.name] = RowOf(r)]

\* The structure is allocated and its row inserted; its users are logged in.
add_user_reg(n, isnever, loggedin) ==
  \E o \in Objs :
    /\ regs[o] = Unused
    /\ \A p \in Objs : regs[p] = Unused => o <= p
    /\ LET r == [live |-> TRUE, name |-> n, never |-> isnever, suspend |-> "off",
                 users |-> loggedin, nicks |-> {}]
       IN /\ regs' = [regs EXCEPT ![o] = r]
          /\ client' = [c \in Clients |->
                          IF c \in loggedin THEN [client[c] EXCEPT !.reg = o] ELSE client[c]]
          /\ users' = [users EXCEPT ![n] = RowOf(r)]

\* Mutant: the rows of the nicknames stay.
FreeKeepsNicks(o, newclient) ==
  /\ Settle([regs EXCEPT ![o].live = FALSE], newclient)
  /\ users' = [users EXCEPT ![regs[o].name] = NoRow]
  /\ UNCHANGED nicks

\* free_user_reg: the nicknames and the rows go with the structure; the clients
\* that point at it are not looked at.
free_user_reg(o, newclient) ==
  /\ Settle([regs EXCEPT ![o].live = FALSE], newclient)
  /\ users' = [users EXCEPT ![regs[o].name] = NoRow]
  /\ nicks' = [k \in Nicks |-> IF k \in regs[o].nicks THEN NoName ELSE nicks[k]]

\* logout_user_reg: the clients of the list, each told to the network.
LoggedOut(o) ==
  [c \in Clients |-> IF c \in regs[o].users THEN [client[c] EXCEPT !.reg = NoReg] ELSE client[c]]
SuOut(o) == [c \in Clients |-> IF c \in regs[o].users THEN NoName ELSE suser[c]]

\* A user who can send commands; dereferencing a freed structure is not followed further.
Acting(c) == client[c].on = "on" /\ (client[c].reg = NoReg \/ client[c].reg \in Live)
LoggedIn(c) == Acting(c) /\ client[c].reg # NoReg

-----------------------------------------------------------------------------
(* Commands of users.                                                      *)

\* s_user_register, with or without uregister_verify; only the latter logs in.
s_user_register(c, n) ==
  /\ Acting(c) /\ client[c].reg = NoReg
  /\ find_user_reg(n) = {}
  /\ \/ /\ add_user_reg(n, TRUE, {})
        /\ UNCHANGED suser
     \/ /\ add_user_reg(n, FALSE, {c})
        /\ suser' = [suser EXCEPT ![c] = n]
  /\ UNCHANGED <<nicks, link>>

\* s_user_activate with the token of the mail.
s_user_activate(c, n) ==
  /\ Acting(c) /\ client[c].reg = NoReg
  /\ \E o \in find_user_reg(n) :
       /\ regs[o].never
       /\ Write(o, [regs[o] EXCEPT !.never = FALSE])
  /\ UNCHANGED <<client, nicks, suser, link>>

\* Mutant: a suspended account can be logged in to.
LoginSuspended(c, n) ==
  /\ Acting(c) /\ client[c].reg = NoReg
  /\ \E o \in find_user_reg(n) :
       /\ ~ regs[o].never
       /\ MaxLogins = 0 \/ Cardinality(regs[o].users) < MaxLogins
       /\ Write(o, [regs[o] EXCEPT !.users = @ \cup {c}])
       /\ client' = [client EXCEPT ![c].reg = o]
  /\ suser' = [suser EXCEPT ![c] = n]
  /\ UNCHANGED <<nicks, link>>

\* s_user_login with the right password; a suspension that has ended is lifted first.
s_user_login(c, n) ==
  /\ Acting(c) /\ client[c].reg = NoReg
  /\ \E o \in find_user_reg(n) :
       /\ regs[o].suspend # "perm"
       /\ ~ regs[o].never
       /\ MaxLogins = 0 \/ Cardinality(regs[o].users) < MaxLogins
       /\ Write(o, [regs[o] EXCEPT !.suspend = "off", !.users = @ \cup {c}])
       /\ client' = [client EXCEPT ![c].reg = o]
  /\ suser' = [suser EXCEPT ![c] = n]
  /\ UNCHANGED <<nicks, link>>

\* s_user_logout.
s_user_logout(c) ==
  /\ LoggedIn(c)
  /\ Settle([regs EXCEPT ![client[c].reg].users = @ \ {c}], [client EXCEPT ![c].reg = NoReg])
  /\ suser' = [suser EXCEPT ![c] = NoName]
  /\ UNCHANGED <<users, nicks, link>>

\* expire_user_suspend, from USERLIST, USERINFO, INFO, a refused LOGIN or the expiry.
expire_user_suspend(o) ==
  /\ o \in Live /\ regs[o].suspend = "temp"
  /\ Write(o, [regs[o] EXCEPT !.suspend = "off"])
  /\ UNCHANGED <<client, nicks, suser, link>>

-----------------------------------------------------------------------------
(* Commands of operators.                                                  *)

\* o_user_userregister, and dbh_user_register for a row of users_sync.
o_user_userregister(n) ==
  /\ find_user_reg(n) = {}
  /\ add_user_reg(n, FALSE, {})
  /\ UNCHANGED <<nicks, suser, link>>

\* o_user_userdrop.
o_user_userdrop(o) ==
  /\ o \in Live
  /\ free_user_reg(o, LoggedOut(o))
  /\ suser' = SuOut(o)
  /\ UNCHANGED link

\* o_user_usersuspend; a temporary suspension may be found expired and replaced.
o_user_usersuspend(o, kind) ==
  /\ o \in Live /\ regs[o].suspend # "perm"
  /\ client' = LoggedOut(o)
  /\ suser' = SuOut(o)
  /\ Write(o, [regs[o] EXCEPT !.suspend = kind, !.users = {}])
  /\ UNCHANGED <<nicks, link>>

\* o_user_userunsuspend.
o_user_userunsuspend(o) ==
  /\ o \in Live /\ regs[o].suspend # "off"
  /\ Write(o, [regs[o] EXCEPT !.suspend = "off"])
  /\ UNCHANGED <<client, nicks, suser, link>>

\* Mutant: an account is freed whoever is logged in to it.
ExpireInUse(o) ==
  /\ o \in Live
  /\ free_user_reg(o, client)
  /\ UNCHANGED <<suser, link>>

\* e_user_expire where it frees the account: an unverified one without a look
\* at who is logged in, any other one only when nobody is.
e_user_expire(o) ==
  /\ o \in Live
  /\ regs[o].never \/ regs[o].users = {}
  /\ free_user_reg(o, client)
  /\ UNCHANGED <<suser, link>>

-----------------------------------------------------------------------------
(* NickServ.                                                               *)

\* The list of the account and the row of the nickname.
SetNick(o, k, mine) ==
  /\ regs' = [regs EXCEPT ![o].nicks = IF mine THEN @ \cup {k} ELSE @ \ {k}]
  /\ nicks' = [nicks EXCEPT ![k] = IF mine THEN regs[o].name ELSE NoName]
  /\ UNCHANGED <<client, users, suser, link>>

\* find_nick_reg: the account a nickname is registered to.
find_nick_reg(k) == {o \in Live : k \in regs[o].nicks}

\* s_nick_register: the nickname the client has.
s_nick_register(c) ==
  /\ LoggedIn(c)
  /\ Cardinality(regs[client[c].reg].nicks) < MaxNicks
  /\ find_nick_reg(client[c].nick) = {}
  /\ SetNick(client[c].reg, client[c].nick, TRUE)

\* s_nick_drop by its owner.
s_nick_drop(c, k) ==
  /\ LoggedIn(c) /\ client[c].reg \in find_nick_reg(k)
  /\ SetNick(client[c].reg, k, FALSE)

\* o_nick_nickdrop.
o_nick_nickdrop(k) == \E o \in find_nick_reg(k) : SetNick(o, k, FALSE)

-----------------------------------------------------------------------------
(* The network.                                                            *)

\* Mutant: the client is freed and stays in the list of its account.
StaysListed(S) == regs

\* exit_user: the list of the account and the pointer.
Unlisted(S) ==
  [o \in Objs |->
     IF o \in Live THEN [regs[o] EXCEPT !.users = @ \ {c \in S : client[c].reg = o}] ELSE regs[o]]
Gone(S) == [c \in Clients |-> IF c \in S THEN Away ELSE client[c]]
Exit(S) == Settle(Unlisted(S), Gone(S))

\* s_nick_release and s_nick_regain: the other holder of the nickname is killed.
s_nick_release(c, k) ==
  /\ LoggedIn(c) /\ client[c].reg \in find_nick_reg(k)
  /\ \E d \in Clients \ {c} :
       /\ client[d].on # "off" /\ client[d].nick = k
       /\ Exit({d})
       /\ suser' = [suser EXCEPT ![d] = NoName]
  /\ UNCHANGED <<users, nicks, link>>

\* c_uid: a user of the burst, whose ENCAP LOGIN follows if it has an account,
\* or one that has just connected.  An older holder of the nickname, whom the
\* network has killed, is exited; a newer one's line has no effect.
c_uid(c, k) ==
  LET old == {d \in Clients : client[d].nick = k} IN
  /\ link # "down" /\ client[c].on = "off"
  /\ Settle(Unlisted(old),
            [Gone(old) EXCEPT ![c] =
               [on |-> IF suser[c] = NoName THEN "on" ELSE "pending", nick |-> k, reg |-> NoReg]])
  /\ suser' = [d \in Clients |-> IF d \in old THEN NoName ELSE suser[d]]
  /\ UNCHANGED <<users, nicks, link>>

\* Mutant: a login of the burst that is refused is not taken back from the network.
BurstLoginIgnored(c) ==
  /\ client[c].on = "pending"
  /\ LET S == {o \in find_user_reg(suser[c]) : regs[o].suspend = "off"}
     IN /\ client' = [client EXCEPT ![c].on = "on",
                                    ![c].reg = IF S = {} THEN @ ELSE CHOOSE o \in S : TRUE]
        /\ regs' = [o \in Objs |-> IF o \in S THEN [regs[o] EXCEPT !.users = @ \cup {c}] ELSE regs[o]]
  /\ UNCHANGED <<users, nicks, suser, link>>

\* c_encap LOGIN and h_user_burst_login.
h_user_burst_login(c) ==
  /\ client[c].on = "pending"
  /\ LET S == {o \in find_user_reg(suser[c]) : regs[o].suspend = "off"}
         cl == [client EXCEPT ![c].on = "on"]
     IN \/ /\ S = {}
           /\ client' = cl
           /\ suser' = [suser EXCEPT ![c] = NoName]
           /\ UNCHANGED regs
        \/ \E o \in S :
             /\ regs' = [regs EXCEPT ![o].users = @ \cup {c}]
             /\ client' = [cl EXCEPT ![c].reg = o]
             /\ UNCHANGED suser
  /\ UNCHANGED <<users, nicks, link>>

\* c_nick with two parameters.
c_nick(c, k) ==
  /\ client[c].on = "on"
  /\ \A d \in Clients : client[d].nick # k
  /\ client' = [client EXCEPT ![c].nick = k]
  /\ UNCHANGED <<regs, users, nicks, suser, link>>

\* c_quit or c_kill.
c_quit(c) ==
  /\ client[c].on = "on"
  /\ Exit({c})
  /\ suser' = [suser EXCEPT ![c] = NoName]
  /\ UNCHANGED <<users, nicks, link>>

\* A client leaves while the services do not hear of it.
LeaveUnseen(c) ==
  /\ link = "down" /\ suser[c] # NoName
  /\ suser' = [suser EXCEPT ![c] = NoName]
  /\ UNCHANGED <<regs, client, users, nicks, link>>

Connect ==
  /\ link = "down" /\ link' = "burst"
  /\ UNCHANGED <<regs, client, users, nicks, suser>>

\* The burst is over: every user with an account has been named.
EndOfBurst ==
  /\ link = "burst" /\ link' = "up"
  /\ \A c \in Clients : client[c].on # "pending" /\ (client[c].on = "off" => suser[c] = NoName)
  /\ UNCHANGED <<regs, client, users, nicks, suser>>

\* c_squit: exit_server() exits the users; they stay on their side of the network.
Split ==
  /\ link # "down" /\ link' = "down"
  /\ Exit(Clients)
  /\ UNCHANGED <<users, nicks, suser>>

\* init_s_userserv and init_s_nickserv in a new process: what the tables hold.
Load(newusers, newnicks) ==
  /\ users' = newusers /\ nicks' = newnicks
  /\ client' = [c \in Clients |-> Away]
  /\ link' = "down"
  /\ LET stored == {n \in Names : newusers[n] # NoRow}
     IN \E f \in [1 .. Cardinality(stored) -> stored] :
          /\ \A i, j \in DOMAIN f : i < j => f[i] # f[j]
          /\ regs' = [o \in Objs |->
                        IF o \in DOMAIN f
                        THEN [live |-> TRUE, name |-> f[o], never |-> newusers[f[o]].never,
                              suspend |-> newusers[f[o]].suspend, users |-> {},
                              nicks |-> {k \in Nicks : newnicks[k] = f[o]}]
                        ELSE Unused]
  /\ UNCHANGED suser

\* die() between two handlers, and a restart.
Restart == Load(users, nicks)

\* die() inside free_user_reg() of a USERDROP: some DELETEs have been executed,
\* the one of the account, which is the last, has not.
RestartInDrop(o, gone) ==
  /\ o \in Live /\ gone # {} /\ gone \subseteq regs[o].nicks
  /\ Load(users, [k \in Nicks |-> IF k \in gone THEN NoName ELSE nicks[k]])

UserNext ==
  \/ \E c \in Clients, n \in Names :
       s_user_register(c, n) \/ s_user_activate(c, n) \/ s_user_login(c, n)
  \/ \E c \in Clients :
       \/ s_user_logout(c) \/ s_nick_register(c)
       \/ h_user_burst_login(c) \/ c_quit(c) \/ LeaveUnseen(c)
  \/ \E c \in Clients, k \in Nicks :
       s_nick_drop(c, k) \/ s_nick_release(c, k) \/ c_uid(c, k) \/ c_nick(c, k)
  \/ \E n \in Names : o_user_userregister(n)
  \/ \E k \in Nicks : o_nick_nickdrop(k)
  \/ \E o \in Objs :
       \/ expire_user_suspend(o) \/ o_user_userdrop(o) \/ o_user_userunsuspend(o)
       \/ e_user_expire(o)
       \/ \E kind \in Suspension \ {"off"} : o_user_usersuspend(o, kind)
       \/ \E gone \in SUBSET Nicks : RestartInDrop(o, gone)
  \/ Connect \/ EndOfBurst \/ Split \/ Restart

UserSpec == UserInit /\ [][UserNext]_userVars

-----------------------------------------------------------------------------

\* Types, and nickserv::max_nicks.
UserTypeOK ==
  /\ regs \in [Objs -> UserReg \cup {Unused}]
  /\ \A o \in Live : Cardinality(regs[o].nicks) <= MaxNicks
  /\ client \in [Clients -> Client]
  /\ users \in [Names -> Row \cup {NoRow}]
  /\ nicks \in [Nicks -> Names \cup {NoName}]
  /\ suser \in [Clients -> Names \cup {NoName}]
  /\ link \in {"down", "burst", "up"}

\* A name has one structure, and the tables hold what the structures hold:
\* name, flags, and the owner of every nickname.
UserMirror ==
  /\ \A n \in Names : {RowOf(regs[o]) : o \in find_user_reg(n)} = {users[n]} \ {NoRow}
  /\ \A n \in Names : Cardinality(find_user_reg(n)) <= 1
  /\ \A k \in Nicks : {regs[o].name : o \in find_nick_reg(k)} = {nicks[k]} \ {NoName}

\* ureg_p->users is the inverse of client_p->user->user_reg.
LoginsInverse ==
  \A o \in Live : regs[o].users = {c \in Clients : client[c].reg = o}

\* A client points at a freed account only if that account had never been
\* verified: nothing else is freed under the people using it.
FreedUnderUser ==
  \A c \in Clients : client[c].reg \in Objs \ Live => regs[client[c].reg].never

\* Nobody uses a suspended account, however they came to it.
SuspendedUnused ==
  \A c \in Clients :
    client[c].reg \in Live => regs[client[c].reg].suspend = "off"

\* The network and the services agree on who is logged in to what, once the
\* burst has been read: every logout and every refused login reached the network.
NetworkAgrees ==
  \A c \in Clients :
    client[c].on = "on" /\ client[c].reg \notin Objs \ Live =>
      suser[c] = IF client[c].reg = NoReg THEN NoName ELSE regs[client[c].reg].name
=============================================================================
