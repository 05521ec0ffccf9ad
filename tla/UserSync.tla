------------------------------- MODULE UserSync -------------------------------
(***************************************************************************)
(* The database hooks of the table users_sync (src/dbhook.c and the dbh_   *)
(* callbacks of src/s_userserv.c): another program, such as a web page,    *)
(* inserts rows, and rsdb_hook_call carries them out every 900 seconds.    *)
(*                                                                         *)
(* The other program may insert between any two statements of the hook,    *)
(* and the process may be killed between them.  The DELETEs and the        *)
(* scheduled statements are one transaction.  The callbacks have already   *)
(* changed the accounts in memory by then.                                 *)
(***************************************************************************)
EXTENDS Naturals, Sequences, FiniteSets

CONSTANTS
  SyncNames, Values,
  MaxRows,          \* bound: rows inserted
  MaxCrashes        \* bound: kills

\* 0 is the field of no account.
ASSUME SyncAssumption == 0 \notin Values /\ MaxRows \in Nat

VARIABLES
  queue,      \* users_sync, in the order of id
  users,      \* the users table
  mem,        \* the user_reg table
  nextid,     \* the id of the next row
  run,        \* the rsdb_hook_call in progress
  crashes

syncVars == <<queue, users, mem, nextid, run, crashes>>

Hook == INSTANCE HookQueue

NoUser == Hook!NoUser
SyncHooks == Hook!SyncHooks
Exists(tab, n) == Hook!Exists(tab, n)
RowsOf(h) == Hook!RowsOf(h)

\* pc: "count" has its SELECT COUNT(id) done, "commit" has run the callbacks.
\* sched is dbh_schedule_list, rows what the SELECT returned.
Idle == [pc |-> "idle", hook |-> "none", count |-> 0, rows |-> << >>, sched |-> << >>]

SyncInit ==
  /\ queue = << >>
  /\ users = [n \in SyncNames |-> NoUser]
  /\ mem = users
  /\ nextid = 1
  /\ run = Idle
  /\ crashes = 0

\* The other program's INSERT.
InsertRow(h, n, v) ==
  /\ nextid <= MaxRows
  /\ queue' = Append(queue, [id |-> nextid, hook |-> h, name |-> n, val |-> v])
  /\ nextid' = nextid + 1
  /\ UNCHANGED <<users, mem, run, crashes>>

\* Mutant: a hook with one row only is not called.
CountSeveral(h) ==
  /\ run = Idle
  /\ Len(RowsOf(h)) > 1
  /\ run' = [Idle EXCEPT !.pc = "count", !.hook = h, !.count = Len(RowsOf(h))]
  /\ UNCHANGED <<queue, users, mem, nextid, crashes>>

\* rsdb_hook_call up to the count.
CountRows(h) ==
  /\ run = Idle
  /\ RowsOf(h) # << >>
  /\ run' = [Idle EXCEPT !.pc = "count", !.hook = h, !.count = Len(RowsOf(h))]
  /\ UNCHANGED <<queue, users, mem, nextid, crashes>>

\* What a row makes of an account.
Changed(user, row) ==
  CASE row.hook = "REGISTER" -> [pass |-> row.val, email |-> row.val]
    [] row.hook = "SETPASS"  -> [user EXCEPT !.pass = row.val]
    [] row.hook = "SETEMAIL" -> [user EXCEPT !.email = row.val]

\* dbh_user_register, dbh_user_setpass, dbh_user_setemail: st is the memory and
\* the schedule.  A row that registers a name there is, or changes one there is
\* not, is used up without effect.  rb_dlinkAdd puts the statement at the HEAD.
Callback(st, row) ==
  IF (row.hook = "REGISTER") = Exists(st.mem, row.name)
  THEN st
  ELSE [mem |-> [st.mem EXCEPT ![row.name] = Changed(@, row)],
        sched |-> <<row>> \o st.sched]

Callbacks(rows) ==
  LET after[i \in 0 .. Len(rows)] ==
        IF i = 0 THEN [mem |-> mem, sched |-> << >>] ELSE Callback(after[i - 1], rows[i])
  IN after[Len(rows)]

\* SELECT id, data ... LIMIT count, and the callback for every row of it.
RunCallbacks ==
  /\ run.pc = "count"
  /\ LET rows == SubSeq(RowsOf(run.hook), 1, run.count)
         done == Callbacks(rows)
     IN /\ mem' = done.mem
        /\ run' = [run EXCEPT !.pc = "commit", !.rows = rows, !.sched = done.sched]
  /\ UNCHANGED <<queue, users, nextid, crashes>>

\* rsdb_hook_schedule_execute.
ScheduleExecute(sched) ==
  LET after[i \in 0 .. Len(sched)] ==
        IF i = 0 THEN users ELSE [after[i - 1] EXCEPT ![sched[i].name] = Changed(@, sched[i])]
  IN after[Len(sched)]

\* Mutant: every row of the hook is deleted, those inserted since the SELECT too.
CommitDeletesAll ==
  /\ run.pc = "commit"
  /\ queue' = Hook!Picked(queue, {row \in Hook!SyncRow : row.hook # run.hook})
  /\ users' = ScheduleExecute(run.sched)
  /\ run' = Idle
  /\ UNCHANGED <<mem, nextid, crashes>>

\* The transaction.
Commit ==
  /\ run.pc = "commit"
  /\ queue' = Hook!Without(run.rows)
  /\ users' = ScheduleExecute(run.sched)
  /\ run' = Idle
  /\ UNCHANGED <<mem, nextid, crashes>>

\* The process is killed, or dies on an error of the database, and is started again.
Crash ==
  /\ crashes < MaxCrashes
  /\ crashes' = crashes + 1
  /\ mem' = users
  /\ run' = Idle
  /\ UNCHANGED <<queue, users, nextid>>

\* Mutant: the row of the account stays.
UserDropInMemory(n) ==
  /\ run = Idle /\ Exists(mem, n)
  /\ mem' = [mem EXCEPT ![n] = NoUser]
  /\ UNCHANGED <<queue, users, nextid, run, crashes>>

\* o_user_userdrop, and s_user_set PASSWORD, of which both sides know.
UserDrop(n) ==
  /\ run = Idle /\ Exists(mem, n)
  /\ mem' = [mem EXCEPT ![n] = NoUser]
  /\ users' = [users EXCEPT ![n] = NoUser]
  /\ UNCHANGED <<queue, nextid, run, crashes>>

SetPassword(n, v) ==
  /\ run = Idle /\ Exists(mem, n)
  /\ mem' = [mem EXCEPT ![n].pass = v]
  /\ users' = [users EXCEPT ![n].pass = v]
  /\ UNCHANGED <<queue, nextid, run, crashes>>

SyncNext ==
  \/ \E h \in SyncHooks, n \in SyncNames, v \in Values : InsertRow(h, n, v)
  \/ \E h \in SyncHooks : CountRows(h)
  \/ RunCallbacks
  \/ Commit
  \/ Crash
  \/ \E n \in SyncNames : UserDrop(n) \/ \E v \in Values : SetPassword(n, v)

\* The event of each hook comes round for ever, and a call that started goes on
\* unless the process is killed.
SyncFairness ==
  /\ \A h \in SyncHooks : SF_syncVars(CountRows(h))
  /\ WF_syncVars(RunCallbacks)
  /\ WF_syncVars(Commit)

SyncSpec == SyncInit /\ [][SyncNext]_syncVars /\ SyncFairness

-----------------------------------------------------------------------------

\* Types; an account that exists has a password and an address.
SyncTypeOK ==
  /\ queue \in Seq(Hook!SyncRow)
  /\ users \in [SyncNames -> Hook!User] /\ mem \in [SyncNames -> Hook!User]
  /\ \A n \in SyncNames, tab \in {users, mem} : (tab[n].pass = 0) = (tab[n].email = 0)
  /\ nextid \in 1 .. MaxRows + 1
  /\ run.pc \in {"idle", "count", "commit"} /\ run.count \in 0 .. MaxRows
  /\ crashes \in 0 .. MaxCrashes

\* Between two calls the accounts in memory are those of the table, whatever
\* was queued for a name more than once and wherever the process was killed.
SyncNamesAgree ==
  run = Idle => \A n \in SyncNames : Exists(mem, n) <=> Exists(users, n)

\* To the other program the three statements of a call are one step that takes
\* some of the oldest rows of a hook and carries them out, or nothing at all if
\* the process is killed.
RowsTakenAtomically == Hook!QueueSpec

\* Every row inserted is used up, whatever else is in the table.
RowsUsedUp ==
  \A k \in 1 .. MaxRows :
    (\E i \in DOMAIN queue : queue[i].id = k) ~> (\A i \in DOMAIN queue : queue[i].id # k)
=============================================================================
