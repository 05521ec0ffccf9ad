----------------------------- MODULE ChanAccess -----------------------------
(***************************************************************************)
(* ChanServ's registered channels and their access lists, together with    *)
(* the accounts they refer to and the database copy of both                *)
(* (src/s_chanserv.c, src/s_userserv.c, src/rsdb_sqlite3.c).               *)
(*                                                                         *)
(* The daemon is one process: a handler runs to its end before the next    *)
(* starts.  What it is not safe from is stopping in the middle, since      *)
(* rsdb_exec() calls die() on a database error and sig_term() calls die()  *)
(* from the signal handler.  So a handler is cut into steps at its SQL     *)
(* statements; `run' says where it is and only Crash can come between.     *)
(*   db    what the daemon's connection reads and writes                   *)
(*   disk  what a new process would load: equal to db outside a            *)
(*         transaction, the state at RSDB_TRANS_START inside one           *)
(***************************************************************************)
EXTENDS Integers, FiniteSets

CONSTANTS
  Chans,        \* channel names
  Accounts,     \* account names
  LevelArgs     \* the numbers given to ADDUSER, MODUSER and SUSPEND

ASSUME LevelArgsAssumption == LevelArgs \subseteq Int

NoName == "none"

ASSUME NoNameAssumption == NoName \notin Chans /\ NoName \notin Accounts

VARIABLES
  accounts,     \* user_reg_table: names of the registered accounts
  chans,        \* chan_reg_table: names of the registered channels
  csuspend,     \* CS_FLAGS_SUSPENDED and suspend_time of each channel
  members,      \* the member_reg structures
  db, disk, run

vars == <<accounts, chans, csuspend, members, db, disk, run>>

S_C_OWNER == 200
S_C_USERLIST == 150
S_C_SUSPEND == 100

\* "temp" has a suspend_time, which may or may not have passed when it is looked at.
Suspension == {"off", "perm", "temp"}

\* lastmod: who last changed the level or the suspension, NoName for an
\* oper or the services themselves.
Row == [chan : Chans, user : Accounts, level : 1 .. S_C_OWNER, suspend : 0 .. S_C_OWNER,
        lastmod : Accounts \cup {NoName}]

Tables == [accounts : SUBSET Accounts, chans : SUBSET Chans,
           csuspend : [Chans -> Suspension], members : SUBSET Row,
           dropowner : SUBSET Chans]

Ops == {"idle", "register", "delauth", "deluser", "chandrop", "userdrop",
        "chanexpire", "userexpire"}

\* op: the running handler; chan, user: its arguments; todo: the member_regs
\* it has yet to pass to free_member_reg(); freeing: the channel inside
\* free_channel_reg(), if any.
Run == [op : Ops, chan : Chans \cup {NoName}, user : Accounts \cup {NoName},
        todo : SUBSET Row, freeing : SUBSET Chans]

Idle == [op |-> "idle", chan |-> NoName, user |-> NoName, todo |-> {}, freeing |-> {}]

RowsOf(S, c) == {m \in S : m.chan = c}

InTransaction == run.op \in {"chanexpire", "userexpire"}

\* The access list is being walked: the next thing is to free a member_reg.
Walking == run.todo # {} /\ run.freeing = {}

\* Nothing of the current victim is left.
WalkDone == run.todo = {} /\ run.freeing = {}

-----------------------------------------------------------------------------

Init ==
  /\ accounts = {} /\ chans = {} /\ members = {}
  /\ csuspend = [c \in Chans |-> "off"]
  /\ db = [accounts |-> {}, chans |-> {}, csuspend |-> [c \in Chans |-> "off"],
           members |-> {}, dropowner |-> {}]
  /\ disk = db
  /\ run = Idle

\* One SQL statement, or several that nothing can come between.
Exec(tables) ==
  /\ db' = tables
  /\ disk' = IF InTransaction THEN disk ELSE tables

\* o_user_userregister, s_user_register: the account row.
UserRegister(u) ==
  /\ run = Idle
  /\ u \notin accounts
  /\ accounts' = accounts \cup {u}
  /\ Exec([db EXCEPT !.accounts = @ \cup {u}])
  /\ UNCHANGED <<chans, csuspend, members, run>>

\* s_chan_register and o_chan_chanregister up to init_channel_reg()'s INSERT.
ChanRegister(c, u) ==
  /\ run = Idle
  /\ c \notin chans
  /\ u \in accounts
  /\ chans' = chans \cup {c}
  /\ csuspend' = [csuspend EXCEPT ![c] = "off"]
  /\ Exec([db EXCEPT !.chans = @ \cup {c}, !.csuspend[c] = "off"])
  /\ run' = [Idle EXCEPT !.op = "register", !.chan = c, !.user = u]
  /\ UNCHANGED <<accounts, members>>

\* make_member_reg() and write_member_db_entry() for the founder, who is their
\* own lastmod unless an oper registers the channel for them.
InsertOwner ==
  /\ run.op = "register"
  /\ \E by \in {run.user, NoName} :
       LET m == [chan |-> run.chan, user |-> run.user, level |-> S_C_OWNER, suspend |-> 0,
                 lastmod |-> by]
       IN /\ members' = members \cup {m}
          /\ Exec([db EXCEPT !.members = @ \cup {m}])
  /\ run' = Idle
  /\ UNCHANGED <<accounts, chans, csuspend>>

-----------------------------------------------------------------------------
(* Commands on the access list.                                            *)

\* verify_member_reg: the caller's access, if it is enough for the command.
\* A temporary suspension found expired is lifted by ExpireChanSuspend first.
verify_member_reg(c, u, level) ==
  {m \in RowsOf(members, c) :
     /\ c \in chans /\ csuspend[c] = "off"
     /\ u \in accounts /\ m.user = u
     /\ m.level >= level
     /\ m.suspend = 0}

\* expire_chan_suspend, from verify_member_reg(), o_chan_chansuspend() or
\* e_chanserv_expirechan().
ExpireChanSuspend(c) ==
  /\ run = Idle \/ (run.op = "chanexpire" /\ WalkDone)
  /\ c \in chans /\ csuspend[c] = "temp"
  /\ csuspend' = [csuspend EXCEPT ![c] = "off"]
  /\ Exec([db EXCEPT !.csuspend[c] = "off"])
  /\ UNCHANGED <<accounts, chans, members, run>>

\* UPDATE members SET ... WHERE chname = .. AND username = .., on both copies.
Update(old, new) ==
  /\ members' = (members \ {old}) \cup {new}
  /\ Exec([db EXCEPT !.members =
             {m \in @ : m.chan # old.chan \/ m.user # old.user}
               \cup {new : m \in {x \in @ : x.chan = old.chan /\ x.user = old.user}}])

s_chan_adduser(c, u, target, level) ==
  /\ run = Idle
  /\ \E actor \in verify_member_reg(c, u, S_C_USERLIST) :
        /\ target \in accounts
        /\ \A m \in RowsOf(members, c) : m.user # target
        /\ level >= 1 /\ level < actor.level
        /\ LET m == [chan |-> c, user |-> target, level |-> level, suspend |-> 0,
                  lastmod |-> u]
           IN /\ members' = members \cup {m}
              /\ Exec([db EXCEPT !.members = @ \cup {m}])
  /\ UNCHANGED <<accounts, chans, csuspend, run>>

s_chan_moduser(c, u, target, level) ==
  /\ run = Idle
  /\ \E actor \in verify_member_reg(c, u, S_C_USERLIST) :
       \E m \in RowsOf(members, c) :
        /\ m.user = target /\ target \in accounts
        /\ actor.level > m.level
        /\ level >= 1 /\ level < actor.level
        /\ Update(m, [m EXCEPT !.level = level, !.lastmod = u])
  /\ UNCHANGED <<accounts, chans, csuspend, run>>

\* Mutant: the suspension is not written to the database.
SuspendNotSaved(c, u, target, level) ==
  /\ run = Idle
  /\ \E actor \in verify_member_reg(c, u, S_C_SUSPEND) :
       \E m \in RowsOf(members, c) :
        /\ m.user = target /\ target \in accounts
        /\ actor.level > m.level
        /\ m.suspend <= actor.level
        /\ level >= 1 /\ level <= actor.level
        /\ members' = (members \ {m}) \cup {[m EXCEPT !.suspend = level, !.lastmod = u]}
  /\ UNCHANGED <<accounts, chans, csuspend, db, disk, run>>

s_chan_suspend(c, u, target, level) ==
  /\ run = Idle
  /\ \E actor \in verify_member_reg(c, u, S_C_SUSPEND) :
       \E m \in RowsOf(members, c) :
        /\ m.user = target /\ target \in accounts
        /\ actor.level > m.level
        /\ m.suspend <= actor.level
        /\ level >= 1 /\ level <= actor.level
        /\ Update(m, [m EXCEPT !.suspend = level, !.lastmod = u])
  /\ UNCHANGED <<accounts, chans, csuspend, run>>

\* Mutant: the level of the suspension is not compared.
UnsuspendAnything(c, u, target) ==
  /\ run = Idle
  /\ \E actor \in verify_member_reg(c, u, S_C_SUSPEND) :
       \E m \in RowsOf(members, c) :
        /\ m.user = target /\ target \in accounts
        /\ Update(m, [m EXCEPT !.suspend = 0, !.lastmod = u])
  /\ UNCHANGED <<accounts, chans, csuspend, run>>

s_chan_unsuspend(c, u, target) ==
  /\ run = Idle
  /\ \E actor \in verify_member_reg(c, u, S_C_SUSPEND) :
       \E m \in RowsOf(members, c) :
        /\ m.user = target /\ target \in accounts
        /\ m.suspend <= actor.level
        /\ Update(m, [m EXCEPT !.suspend = 0, !.lastmod = u])
  /\ UNCHANGED <<accounts, chans, csuspend, run>>

-----------------------------------------------------------------------------
(* Commands and events that remove: the rows go first, then each           *)
(* member_reg is freed in turn.                                            *)

\* Mutant: the rows stay in the database.
StartFreeKeepsRows(op, c, u, gone) ==
  /\ Exec(db)
  /\ run' = [op |-> op, chan |-> c, user |-> u, todo |-> gone, freeing |-> {}]
  /\ UNCHANGED <<chans, csuspend, members>>

\* DELETE FROM members for the rows of gone, and start freeing them.
StartFree(op, c, u, gone) ==
  /\ Exec([db EXCEPT !.members = @ \ gone])
  /\ run' = [op |-> op, chan |-> c, user |-> u, todo |-> gone, freeing |-> {}]
  /\ UNCHANGED <<chans, csuspend, members>>

\* Mutant: equals remove each other.
DelUserEqual(c, u, target) ==
  /\ run = Idle
  /\ \E actor \in verify_member_reg(c, u, S_C_USERLIST) :
       \E m \in RowsOf(members, c) :
        /\ m.user = target /\ target \in accounts
        /\ actor.level >= m.level
        /\ m.level # S_C_OWNER
        /\ StartFree("deluser", c, u, {m})
  /\ UNCHANGED accounts

s_chan_deluser(c, u, target) ==
  /\ run = Idle
  /\ \E actor \in verify_member_reg(c, u, S_C_USERLIST) :
       \E m \in RowsOf(members, c) :
        /\ m.user = target /\ target \in accounts
        /\ actor.level > m.level \/ actor = m
        /\ m.level # S_C_OWNER
        /\ StartFree("deluser", c, u, {m})
  /\ UNCHANGED accounts

\* s_chan_delowner without cemail_delowner.
s_chan_delowner(c, u) ==
  /\ run = Idle
  /\ \E m \in verify_member_reg(c, u, S_C_OWNER) : StartFree("deluser", c, u, {m})
  /\ UNCHANGED accounts

\* s_chan_delowner with cemail_delowner: the request stores a token ...
DelownerRequest(c, u) ==
  /\ run = Idle
  /\ verify_member_reg(c, u, S_C_OWNER) # {}
  /\ c \notin db.dropowner
  /\ Exec([db EXCEPT !.dropowner = @ \cup {c}])
  /\ UNCHANGED <<accounts, chans, csuspend, members, run>>

\* ... the confirmation deletes it ...
DelownerAuth(c, u) ==
  /\ run = Idle
  /\ verify_member_reg(c, u, S_C_OWNER) # {}
  /\ c \in db.dropowner
  /\ Exec([db EXCEPT !.dropowner = @ \ {c}])
  /\ run' = [Idle EXCEPT !.op = "delauth", !.chan = c, !.user = u]
  /\ UNCHANGED <<accounts, chans, csuspend, members>>

\* ... and goes on to remove the owner.
DelownerConfirmed ==
  /\ run.op = "delauth"
  /\ StartFree("deluser", run.chan, run.user,
               {m \in RowsOf(members, run.chan) : m.user = run.user})
  /\ UNCHANGED accounts

\* e_chanserv_expire_delowner: old requests go.
ExpireDelowner(S) ==
  /\ run = Idle
  /\ S # {} /\ S \subseteq db.dropowner
  /\ Exec([db EXCEPT !.dropowner = @ \ S])
  /\ UNCHANGED <<accounts, chans, csuspend, members, run>>

o_chan_chandrop(c) ==
  /\ run = Idle
  /\ c \in chans
  /\ StartFree("chandrop", c, NoName, RowsOf(members, c))
  /\ UNCHANGED accounts

o_chan_chansuspend(c, kind) ==
  /\ run = Idle
  /\ c \in chans /\ csuspend[c] = "off"
  /\ csuspend' = [csuspend EXCEPT ![c] = kind]
  /\ Exec([db EXCEPT !.csuspend[c] = kind])
  /\ UNCHANGED <<accounts, chans, members, run>>

o_chan_chanunsuspend(c) ==
  /\ run = Idle
  /\ c \in chans /\ csuspend[c] # "off"
  /\ csuspend' = [csuspend EXCEPT ![c] = "off"]
  /\ Exec([db EXCEPT !.csuspend[c] = "off"])
  /\ UNCHANGED <<accounts, chans, members, run>>

\* Mutant: the account row goes before the rows that refer to it.
UserDropRowFirst(u) ==
  /\ run = Idle
  /\ u \in accounts
  /\ accounts' = accounts \ {u}
  /\ Exec([db EXCEPT !.accounts = @ \ {u}])
  /\ run' = [op |-> "userdrop", chan |-> NoName, user |-> u,
             todo |-> {m \in members : m.user = u}, freeing |-> {}]
  /\ UNCHANGED <<chans, csuspend, members>>

\* o_user_userdrop: free_user_reg() unlinks the account, then deletes its rows.
o_user_userdrop(u) ==
  /\ run = Idle
  /\ u \in accounts
  /\ accounts' = accounts \ {u}
  /\ StartFree("userdrop", NoName, u, {m \in members : m.user = u})

\* rsdb_transaction(RSDB_TRANS_START) of the two expiry events.
StartExpiry(op) ==
  /\ run = Idle
  /\ run' = [Idle EXCEPT !.op = op]
  /\ UNCHANGED <<accounts, chans, csuspend, members, db, disk>>

\* e_chanserv_expirechan reaches a channel that nobody used for long enough.
ExpireChan(c) ==
  /\ run.op = "chanexpire" /\ WalkDone
  /\ c \in chans
  /\ StartFree("chanexpire", c, NoName, RowsOf(members, c))
  /\ UNCHANGED accounts

\* e_user_expire reaches such an account.
ExpireUser(u) ==
  /\ run.op = "userexpire" /\ WalkDone /\ run.user = NoName
  /\ u \in accounts
  /\ accounts' = accounts \ {u}
  /\ StartFree("userexpire", NoName, u, {m \in members : m.user = u})

-----------------------------------------------------------------------------
(* The loop over free_member_reg().                                        *)

\* The candidates for promotion: the highest of those not suspended, or the
\* highest of all when everybody is.  The list order decides among equals.
Highest(S) ==
  LET active == {m \in S : m.suspend = 0}
      pool == IF active # {} THEN active ELSE S
  IN {m \in pool : \A n \in pool : n.level <= m.level}

\* Mutant: free_user_reg() passes 0 as well.
UpgradeNotForUser == run.op \notin {"chandrop", "chanexpire", "userdrop", "userexpire"}

\* destroy_channel_reg() passes upgrade = 0, free_user_reg() and the commands 1.
Upgrade == run.op \notin {"chandrop", "chanexpire"}

FreeMember(r) ==
  LET rest == RowsOf(members, r.chan) \ {r}
  IN
  /\ Walking /\ r \in run.todo
  /\ \/ /\ rest = {}        \* free_channel_reg(), up to its first DELETEs
        /\ members' = members \ {r}
        /\ Exec([db EXCEPT !.dropowner = @ \ {r.chan}])
        /\ run' = [run EXCEPT !.todo = @ \ {r}, !.freeing = {r.chan}]
     \/ /\ rest # {} /\ r.level = S_C_OWNER /\ Upgrade
        /\ \E p \in Highest(rest) :
             LET q == [p EXCEPT !.level = S_C_OWNER, !.suspend = 0, !.lastmod = NoName]
             IN /\ members' = (members \ {r, p}) \cup {q}
                /\ Exec([db EXCEPT !.members =
                           {m \in @ : m.chan # p.chan \/ m.user # p.user}
                             \cup {q : m \in {x \in @ : x.chan = p.chan /\ x.user = p.user}}])
        /\ run' = [run EXCEPT !.todo = @ \ {r}]
     \/ /\ rest # {} /\ ~(r.level = S_C_OWNER /\ Upgrade)
        /\ members' = members \ {r}
        /\ run' = [run EXCEPT !.todo = @ \ {r}]
        /\ UNCHANGED <<db, disk>>
  /\ UNCHANGED <<accounts, chans, csuspend>>

\* The rest of free_channel_reg(): the channel itself.
FreeChannel(c) ==
  /\ c \in run.freeing
  /\ chans' = chans \ {c}
  /\ csuspend' = [csuspend EXCEPT ![c] = "off"]
  /\ Exec([db EXCEPT !.chans = @ \ {c}, !.csuspend[c] = "off"])
  /\ run' = [run EXCEPT !.freeing = {}]
  /\ UNCHANGED <<accounts, members>>

\* free_user_reg()'s last statement: the account row.
FreeUser ==
  /\ run.op \in {"userdrop", "userexpire"} /\ WalkDone /\ run.user # NoName
  /\ Exec([db EXCEPT !.accounts = @ \ {run.user}])
  /\ run' = IF run.op = "userdrop" THEN Idle ELSE [Idle EXCEPT !.op = "userexpire"]
  /\ UNCHANGED <<accounts, chans, csuspend, members>>

\* The handler of DELUSER, DELOWNER or CHANDROP returns.
Return ==
  /\ run.op \in {"deluser", "chandrop"} /\ WalkDone
  /\ run' = Idle
  /\ UNCHANGED <<accounts, chans, csuspend, members, db, disk>>

\* rsdb_transaction(RSDB_TRANS_END).
Commit ==
  /\ InTransaction /\ WalkDone /\ run.user = NoName
  /\ disk' = db
  /\ run' = Idle
  /\ UNCHANGED <<accounts, chans, csuspend, members, db>>

\* The process ends wherever it is, and the next one loads what is on disk:
\* user_db_callback, channel_db_callback and member_db_callback, the last of
\* which skips a row whose channel or account is missing.
Crash ==
  /\ accounts' = disk.accounts
  /\ chans' = disk.chans
  /\ csuspend' = disk.csuspend
  /\ members' = {m \in disk.members : m.chan \in disk.chans /\ m.user \in disk.accounts}
  /\ db' = disk
  /\ run' = Idle
  /\ UNCHANGED disk

Command ==
  \/ \E u \in Accounts : UserRegister(u) \/ o_user_userdrop(u)
  \/ \E c \in Chans, u \in Accounts :
       ChanRegister(c, u) \/ s_chan_delowner(c, u) \/ DelownerRequest(c, u) \/ DelownerAuth(c, u)
  \/ \E c \in Chans, u, t \in Accounts : s_chan_unsuspend(c, u, t) \/ s_chan_deluser(c, u, t)
  \/ \E c \in Chans, u, t \in Accounts, level \in LevelArgs :
       s_chan_adduser(c, u, t, level) \/ s_chan_moduser(c, u, t, level) \/ s_chan_suspend(c, u, t, level)
  \/ \E c \in Chans : o_chan_chandrop(c) \/ o_chan_chanunsuspend(c)
  \/ \E c \in Chans, kind \in {"perm", "temp"} : o_chan_chansuspend(c, kind)

Event ==
  \/ StartExpiry("chanexpire") \/ StartExpiry("userexpire")
  \/ \E c \in Chans : ExpireChan(c) \/ ExpireChanSuspend(c)
  \/ \E u \in Accounts : ExpireUser(u)
  \/ \E S \in SUBSET Chans : ExpireDelowner(S)

Continue ==
  \/ InsertOwner \/ DelownerConfirmed \/ FreeUser \/ Return \/ Commit
  \/ \E r \in run.todo : FreeMember(r)
  \/ \E c \in Chans : FreeChannel(c)

Next == Command \/ Event \/ Continue

Spec == Init /\ [][Next]_vars

CrashSpec == Init /\ [][Next \/ Crash]_vars

-----------------------------------------------------------------------------
(* Properties.                                                             *)

\* The types of memory, of the tables and of the handler that is running.
TypeOK ==
  /\ accounts \subseteq Accounts /\ chans \subseteq Chans
  /\ csuspend \in [Chans -> Suspension]
  /\ members \subseteq Row
  /\ db \in Tables /\ disk \in Tables
  /\ run \in Run

Owners(S, c) == {m \in S : m.chan = c /\ m.level = S_C_OWNER}

Keyed(S) == \A m, n \in S : m.chan = n.chan /\ m.user = n.user => m = n

SingleOwner(S) ==
  \A m, n \in S : m.chan = n.chan /\ m.level = S_C_OWNER /\ n.level = S_C_OWNER => m = n

ActiveOwner(S) == \A m \in S : m.level = S_C_OWNER => m.suspend = 0

Referenced(t) ==
  /\ \A m \in t.members : m.chan \in t.chans /\ m.user \in t.accounts
  /\ t.dropowner \subseteq t.chans

\* No account is on the access list of a channel twice, in memory or in the
\* members table, which declares no key: make_member_reg() and
\* write_member_db_entry() only append.
NoDuplicates == Keyed(members) /\ Keyed(db.members) /\ Keyed(disk.members)

\* Between two handlers every registered channel has one owner, who is not
\* suspended, however members, accounts and channels came and went: the
\* promotion of free_member_reg() never leaves a channel without one and no
\* command makes a second one.
OneOwner ==
  run = Idle =>
    \A c \in chans : \E m \in members :
      Owners(members, c) = {m} /\ m.suspend = 0

\* Between two handlers a restart would change nothing: what the process
\* holds is what is on disk.
Mirror ==
  run = Idle =>
    /\ disk = db
    /\ accounts = db.accounts /\ chans = db.chans
    /\ csuspend = db.csuspend /\ members = db.members

\* Even when the process ends between two statements of a handler, no
\* channel ever has two owners, in memory or on disk.
AtMostOneOwner ==
  SingleOwner(members) /\ SingleOwner(db.members) /\ SingleOwner(disk.members)

\* Nor is an owner suspended: verify_member_reg() would shut them out, and
\* nobody outranks them to lift it.
OwnerActive ==
  ActiveOwner(members) /\ ActiveOwner(db.members) /\ ActiveOwner(disk.members)

\* The FOREIGN KEYs of the schema, which SQLite does not enforce: at every
\* instant and whatever a crash leaves, a row of members or channels_dropowner
\* names a channel and an account that are there, so that a name registered
\* anew never inherits anything.
ReferentialIntegrity == Referenced(db) /\ Referenced(disk)

\* What holds of a row n of the next state: gains are given, promotions or foundations.
GrantJustified(n) ==
  LET old == {m \in members : m.chan = n.chan /\ m.user = n.user}
      giver == {a \in members : a.chan = n.chan /\ a.user = n.lastmod /\ a.suspend = 0}
      ownerLeft == \E r \in Owners(members, n.chan) : r \in run.todo /\ r \notin members'
      promoted == n.level = S_C_OWNER /\ n.lastmod = NoName /\ ownerLeft
      founded == old = {} /\ RowsOf(members, n.chan) = {} /\ n.level = S_C_OWNER
      raised == \A m \in old : m.level < n.level
      freed == \E m \in old : m.suspend > n.suspend
  IN /\ raised => promoted \/ founded
                    \/ \E a \in giver : a.level >= S_C_USERLIST /\ a.level > n.level
     /\ freed => promoted
                   \/ \E a \in giver, m \in old : a.level >= S_C_SUSPEND /\ a.level >= m.suspend

\* Whoever gains level, and whoever is freed from a suspension while they stay
\* on the list, has it from the one lastmod names, who is on the same list, is
\* not suspended, holds more than is given and has the suspension in their
\* power; or is promoted because the owner is going; or founded the channel.
\* A suspension that goes with its row, by DELUSER, is not meant: the row that
\* ADDUSER makes afterwards has none.
GrantsJustified == [][\A n \in members' : GrantJustified(n)]_vars

\* Account u is on the list of m's channel, in good standing, and above m or m itself.
Outranks(u, m) ==
  \E a \in members : a.chan = m.chan /\ a.user = u /\ a.suspend = 0 /\ (a.level > m.level \/ a = m)

\* What holds of a row m that is there before a step.
RemovalJustified(m) ==
  LET deleted == m \in members' /\ m \in db.members /\ m \notin db'.members
  IN /\ \A n \in members' :
          n.chan = m.chan /\ n.user = m.user /\ (n.suspend > m.suspend \/ n.level < m.level)
            => n.lastmod # m.user /\ Outranks(n.lastmod, m)
     /\ deleted => \/ run'.op \in {"chandrop", "chanexpire"} /\ run'.chan = m.chan
                   \/ m.user \notin accounts'
                   \/ Outranks(run'.user, m)

\* A member is suspended or lowered by somebody who outranks them, and their
\* row is deleted by such a one, by themselves, with their account or with
\* the channel; in each case the one who does it is not suspended.
RemovalsJustified == [][\A m \in members : RemovalJustified(m)]_vars

\* A channel that has members has an owner, since removing the owner
\* promotes one of the highest remaining users (help/en/chanserv/delowner).
OwnerSucceeded ==
  run = Idle => \A c \in chans : RowsOf(members, c) # {} => Owners(members, c) # {}

\* CHANDROP deregisters the channel (help/en/chanserv/chandrop): when its
\* handler returns, the channel is not registered any more.
DropDeregisters ==
  [][run.op = "chandrop" /\ run' = Idle => run.chan \notin chans']_vars

=============================================================================
