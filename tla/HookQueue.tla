------------------------------ MODULE HookQueue ------------------------------
(***************************************************************************)
(* What a database hook promises to whoever inserts rows in a sync table:  *)
(* the rows of a hook are taken in batches, oldest first, and taking a     *)
(* batch and doing what its rows ask of the users table is one step, in    *)
(* some order of the rows.  UserSync is shown to implement it.             *)
(***************************************************************************)
EXTENDS Naturals, Sequences

CONSTANTS SyncNames, Values, MaxRows

VARIABLES queue, users

NoUser == [pass |-> 0, email |-> 0]
User == [pass : {0} \cup Values, email : {0} \cup Values]
SyncHooks == {"REGISTER", "SETPASS", "SETEMAIL"}
SyncRow == [id : 1 .. MaxRows, hook : SyncHooks, name : SyncNames, val : Values]

Exists(tab, n) == tab[n] # NoUser

\* What one row asks of a table of users.
ApplyRow(tab, row) ==
  LET n == row.name IN
  IF row.hook = "REGISTER"
  THEN IF Exists(tab, n) THEN tab
       ELSE [tab EXCEPT ![n] = [pass |-> row.val, email |-> row.val]]
  ELSE IF ~ Exists(tab, n) THEN tab
       ELSE IF row.hook = "SETPASS" THEN [tab EXCEPT ![n].pass = row.val]
                                    ELSE [tab EXCEPT ![n].email = row.val]

ApplyRows(tab, rows) ==
  LET after[i \in 0 .. Len(rows)] ==
        IF i = 0 THEN tab ELSE ApplyRow(after[i - 1], rows[i])
  IN after[Len(rows)]

Orders(rows) ==
  {[i \in DOMAIN rows |-> rows[p[i]]] :
     p \in {f \in [DOMAIN rows -> DOMAIN rows] : \A i, j \in DOMAIN rows : f[i] = f[j] => i = j}}

\* The rows of a sequence that are in S.
Picked(rows, S) ==
  LET upto[i \in 0 .. Len(rows)] ==
        IF i = 0 THEN << >>
        ELSE IF rows[i] \in S THEN Append(upto[i - 1], rows[i]) ELSE upto[i - 1]
  IN upto[Len(rows)]

RowsOf(h) == Picked(queue, {row \in SyncRow : row.hook = h})
Without(rows) == Picked(queue, {row \in SyncRow : \A i \in DOMAIN rows : rows[i].id # row.id})

QueueInit ==
  /\ queue = << >>
  /\ users \in [SyncNames -> {NoUser}]

Enqueue ==
  \E row \in SyncRow : queue' = Append(queue, row) /\ UNCHANGED users

Take ==
  \E h \in SyncHooks : \E k \in 1 .. Len(RowsOf(h)) :
    LET rows == SubSeq(RowsOf(h), 1, k) IN
    /\ queue' = Without(rows)
    /\ \E order \in Orders(rows) : users' = ApplyRows(users, order)

\* A command or an operator changes an account.
Command == UNCHANGED queue /\ \E n \in SyncNames, u \in User : users' = [users EXCEPT ![n] = u]

QueueSpec == QueueInit /\ [][Enqueue \/ Take \/ Command]_<<queue, users>>
=============================================================================
