------------------------------ MODULE MemoServ ------------------------------
(***************************************************************************)
(* MemoServ's table of memos and the database ids of the accounts it is    *)
(* keyed by (src/s_memoserv.c, rsdb_exec_insert() of src/rsdb_sqlite3.c,   *)
(* free_user_reg() of src/s_userserv.c).  A memo names its account by      *)
(* users.id, and the account may be gone before the memo is.               *)
(***************************************************************************)
EXTENDS Naturals, FiniteSets, FiniteSetsExt

CONSTANTS
  Holders,        \* account names
  MaxMemos,       \* memoserv::max_memos
  AutoIncrement,  \* the id columns never give an id twice (MySQL, PostgreSQL)
  MaxId           \* bound: ids given in one behaviour

ASSUME MemoAssumption == AutoIncrement \in BOOLEAN /\ MaxId \in Nat

VARIABLES
  ids,            \* ureg_p->id of each registered account, 0 for a name not registered
  memos,          \* the table memos
  nomemos,        \* accounts with US_FLAGS_NOMEMOS
  lastid          \* the counters of the two id columns

memoVars == <<ids, memos, nomemos, lastid>>

\* user_id: the column; sentto: the name it was sent to while that registration
\* lives, "gone" from the moment the registration is deleted.
Memo == [id : 1 .. MaxId, user_id : 1 .. MaxId, sentto : Holders \cup {"gone"}, isread : BOOLEAN]

MemoInit ==
  /\ ids = [n \in Holders |-> 0]
  /\ memos = {}
  /\ nomemos = {}
  /\ lastid = [users |-> 0, memos |-> 0]

\* Mutant: the ids of deleted rows are given out again.
NewIdReused(table, used) == Max(used \cup {0}) + 1

\* rsdb_exec_insert: the id of a new row.  SQLite's INTEGER PRIMARY KEY gives
\* one more than the largest id in the table.
NewId(table, used) ==
  IF AutoIncrement THEN lastid[table] + 1 ELSE Max(used \cup {0}) + 1

Insert(table, id) ==
  /\ id <= MaxId
  /\ lastid' = [lastid EXCEPT ![table] = id]

\* s_user_register or o_user_userregister.
RegisterHolder(n) ==
  /\ ids[n] = 0
  /\ LET id == NewId("users", {ids[m] : m \in Holders})
     IN /\ Insert("users", id)
        /\ ids' = [ids EXCEPT ![n] = id]
  /\ UNCHANGED <<memos, nomemos>>

\* free_user_reg: the row of the account goes, its memos stay.
FreeHolder(n) ==
  /\ ids[n] # 0
  /\ ids' = [ids EXCEPT ![n] = 0]
  /\ nomemos' = nomemos \ {n}
  /\ memos' = {[m EXCEPT !.sentto = IF @ = n THEN "gone" ELSE @] : m \in memos}
  /\ UNCHANGED lastid

\* s_user_set NOMEMOS.
SetNoMemos(n) ==
  /\ ids[n] # 0
  /\ \E S \in {nomemos \cup {n}, nomemos \ {n}} : nomemos' = S
  /\ UNCHANGED <<ids, memos, lastid>>

MemosOf(id) == {m \in memos : m.user_id = id}

\* s_memo_send, by any user logged in to some account.
s_memo_send(n) ==
  /\ ids[n] # 0 /\ n \notin nomemos
  /\ Cardinality(MemosOf(ids[n])) < MaxMemos
  /\ LET id == NewId("memos", {m.id : m \in memos})
     IN /\ Insert("memos", id)
        /\ memos' = memos \cup
             {[id |-> id, user_id |-> ids[n], sentto |-> n, isread |-> FALSE]}
  /\ UNCHANGED <<ids, nomemos>>

\* s_memo_read of one memo or of all, by a user logged in to n.
s_memo_read(n, S) ==
  /\ ids[n] # 0 /\ S # {}
  /\ S = MemosOf(ids[n]) \/ \E m \in MemosOf(ids[n]) : S = {m}
  /\ memos' = (memos \ S) \cup {[m EXCEPT !.isread = TRUE] : m \in S}
  /\ UNCHANGED <<ids, nomemos, lastid>>

\* s_memo_delete of one memo or of all.
s_memo_delete(n, S) ==
  /\ ids[n] # 0 /\ S # {}
  /\ S = MemosOf(ids[n]) \/ \E m \in memos : m.user_id = ids[n] /\ S = {m}
  /\ memos' = memos \ S
  /\ UNCHANGED <<ids, nomemos, lastid>>

MemoNext ==
  \E n \in Holders :
    \/ RegisterHolder(n) \/ FreeHolder(n) \/ SetNoMemos(n) \/ s_memo_send(n)
    \/ \E S \in SUBSET memos : s_memo_read(n, S) \/ s_memo_delete(n, S)

MemoSpec == MemoInit /\ [][MemoNext]_memoVars

-----------------------------------------------------------------------------

\* Types; an id is the id of one row of its table, and no account has more memos
\* than memoserv::max_memos.
MemoTypeOK ==
  /\ ids \in [Holders -> 0 .. MaxId]
  /\ memos \subseteq Memo
  /\ nomemos \subseteq Holders
  /\ lastid \in [{"users", "memos"} -> 0 .. MaxId]
  /\ \A i \in 1 .. MaxId :
       /\ Cardinality({n \in Holders : ids[n] = i}) <= 1
       /\ Cardinality({m \in memos : m.id = i}) <= 1
       /\ Cardinality(MemosOf(i)) <= MaxMemos

\* LIST, READ and DELETE of an account show it the memos that were sent to it:
\* never those of an account that was deleted before it was registered.
MemoAddressee ==
  \A n \in Holders : \A m \in memos : ids[n] # 0 /\ m.user_id = ids[n] => m.sentto = n
=============================================================================
