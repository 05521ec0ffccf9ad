------------------------------- MODULE OperConf -------------------------------
(***************************************************************************)
(* Oper blocks and who holds them (src/conf.c, the oper block of           *)
(* src/newconf.c, OLOGIN and OLOGOUT in src/service.c, exit_user in        *)
(* src/client.c, dcc connections in src/io.c and src/ucommand.c).          *)
(*                                                                         *)
(* A block is counted by the clients logged in with it, by the dcc         *)
(* connections that have not given their password yet and by the entries   *)
(* kept for opers lost in a netsplit.  A rehash marks every block dead,    *)
(* revives those still in the file and frees the dead that nobody holds;   *)
(* a dead block that is held is freed by the last one to let go of it.     *)
(***************************************************************************)
EXTENDS Naturals, Sequences, FiniteSets

CONSTANTS
  Keys,         \* oper names, each with its user@host
  Privs,        \* sets of oper flags
  Blocks,       \* places for a struct conf_oper
  OpClients, Conns,
  MaxStored     \* bound: entries of client_oper_list

NoBlock == 0
NoPrivs == 0

ASSUME OperAssumption == Blocks \subseteq Nat \ {NoBlock} /\ Privs \subseteq Nat \ {NoPrivs}

VARIABLES
  file,         \* the oper blocks of the file as last read: a key's flags or NoPrivs
  blk,          \* each place: [mem, key, privs, dead, refcount]
  list,         \* conf_oper_list
  oper,         \* client->user->oper
  dcc,          \* conn->oper of dcc connections that have yet to log in
  stored        \* the blocks of client_oper_list, newest first

operVars == <<file, blk, list, oper, dcc, stored>>

Free == [mem |-> "free", key |-> CHOOSE k \in Keys : TRUE, privs |-> NoPrivs,
         dead |-> FALSE, refcount |-> 0]

\* The keys of a file, and places for new blocks of some keys.
In(f) == {k \in Keys : f[k] # NoPrivs}
Places(ks) == {at \in [ks -> Blocks] : \A k, l \in ks : at[k] = at[l] => k = l}

\* A block made by conf_end_oper.
NewBlock(k, privs) == [mem |-> "used", key |-> k, privs |-> privs, dead |-> FALSE, refcount |-> 0]

\* conf_parse(1), with the blocks at the places `at'.
Loaded(f, at) ==
  [b \in Blocks |-> IF \E k \in In(f) : at[k] = b
                   THEN LET k == CHOOSE x \in In(f) : at[x] = b IN NewBlock(k, f[k])
                   ELSE Free]

Nobody == [c \in OpClients |-> NoBlock]
NoConns == [d \in Conns |-> NoBlock]

OperInit ==
  /\ file \in [Keys -> Privs \cup {NoPrivs}]
  /\ \E at \in Places(In(file)) : list = {at[k] : k \in In(file)} /\ blk = Loaded(file, at)
  /\ oper = Nobody /\ dcc = NoConns /\ stored = << >>

\* find_conf_oper for a client that every block's user@host matches.
Found(b) == b \in list /\ ~ blk[b].dead

Hold(bs, b) == [bs EXCEPT ![b].refcount = @ + 1]

\* Mutant: a dead block is freed by whoever lets go of it first.
DeallocateAtOnce(bs, b) ==
  [bs EXCEPT ![b].refcount = @ - 1, ![b].mem = IF bs[b].dead THEN "freed" ELSE @]

\* deallocate_conf_oper: the place is freed, and the list is not touched.
deallocate_conf_oper(bs, b) ==
  LET left == bs[b].refcount - 1 IN
  [bs EXCEPT ![b].refcount = left,
             ![b].mem = IF bs[b].dead /\ left = 0 THEN "freed" ELSE @]

-----------------------------------------------------------------------------

\* handle_service OLOGIN with the right password.
OLogin(c, b) ==
  /\ oper[c] = NoBlock /\ Found(b)
  /\ oper' = [oper EXCEPT ![c] = b]
  /\ blk' = Hold(blk, b)
  /\ UNCHANGED <<file, list, dcc, stored>>

\* handle_service OLOGOUT, u_boot of this client, and exit_user of a client that quits.
OLogout(c) ==
  /\ oper[c] # NoBlock
  /\ blk' = deallocate_conf_oper(blk, oper[c])
  /\ oper' = [oper EXCEPT ![c] = NoBlock]
  /\ UNCHANGED <<file, list, dcc, stored>>

\* exit_user in a netsplit: store_client_oper, then the client's own count goes.
SplitOper(c) ==
  /\ oper[c] # NoBlock /\ Len(stored) < MaxStored
  /\ stored' = <<oper[c]>> \o stored
  /\ blk' = deallocate_conf_oper(Hold(blk, oper[c]), oper[c])
  /\ oper' = [oper EXCEPT ![c] = NoBlock]
  /\ UNCHANGED <<file, list, dcc>>

\* The blocks after the entries `gone' of client_oper_list are freed, one by one.
Released(gone) ==
  LET after[i \in 0 .. Len(gone)] ==
        IF i = 0 THEN blk ELSE deallocate_conf_oper(after[i - 1], gone[i])
  IN after[Len(gone)]

\* expire_client_oper: the oldest entries.
expire_client_oper(k) ==
  /\ k < Len(stored)
  /\ stored' = SubSeq(stored, 1, k)
  /\ blk' = Released(SubSeq(stored, k + 1, Len(stored)))
  /\ UNCHANGED <<file, list, oper, dcc>>

\* clear_client_oper_sid, when the burst of their server ends: every entry.
clear_client_oper_sid ==
  /\ stored # << >>
  /\ stored' = << >>
  /\ blk' = Released(stored)
  /\ UNCHANGED <<file, list, oper, dcc>>

\* connect_to_client and connect_from_client.
DccConnect(d, b) ==
  /\ dcc[d] = NoBlock /\ Found(b)
  /\ dcc' = [dcc EXCEPT ![d] = b]
  /\ blk' = Hold(blk, b)
  /\ UNCHANGED <<file, list, oper, stored>>

\* u_login with the right password, or signoff_client before it.
DccRelease(d) ==
  /\ dcc[d] # NoBlock
  /\ blk' = deallocate_conf_oper(blk, dcc[d])
  /\ dcc' = [dcc EXCEPT ![d] = NoBlock]
  /\ UNCHANGED <<file, list, oper, stored>>

-----------------------------------------------------------------------------
(* conf_parse(0).                                                          *)

\* Mutant: a block that is held is not looked for.
RevivedUnheld(k) == {b \in list : blk[b].mem = "used" /\ blk[b].key = k /\ blk[b].refcount = 0}

\* conf_end_oper finds a block of the key that clear_old_conf marked dead.  The
\* strings of a place that was freed while in the list are gone, and match nothing.
Revived(k) == {b \in list : blk[b].mem = "used" /\ blk[b].key = k}

\* clear_old_conf, conf_end_oper for every block of the file f, and
\* clear_old_conf_final.  `at' are the places taken for blocks not found.
Rehash(f, at) ==
  LET keep == UNION {Revived(k) : k \in In(f)}
      drop == {b \in list \ keep : blk[b].refcount = 0}
      made == {at[k] : k \in DOMAIN at}
  IN
  /\ DOMAIN at = {k \in In(f) : Revived(k) = {}}
  /\ \A b \in made : blk[b].mem # "used" /\ b \notin list
  /\ file' = f
  /\ list' = (list \ drop) \cup made
  /\ blk' = [b \in Blocks |->
               CASE b \in made -> LET k == CHOOSE x \in DOMAIN at : at[x] = b IN NewBlock(k, f[k])
                 [] b \in keep -> [blk[b] EXCEPT !.privs = f[blk[b].key], !.dead = FALSE]
                 [] b \in drop -> Free
                 [] b \in list \ (keep \cup drop) -> [blk[b] EXCEPT !.dead = TRUE]
                 [] OTHER -> blk[b]]
  /\ UNCHANGED <<oper, dcc, stored>>

\* The process ends, as it may when a place is freed twice in a rehash, and is
\* started again.
RestartOpers(f, at) ==
  /\ DOMAIN at = In(f)
  /\ file' = f /\ list' = {at[k] : k \in In(f)} /\ blk' = Loaded(f, at)
  /\ oper' = Nobody /\ dcc' = NoConns /\ stored' = << >>

OperNext ==
  \/ \E c \in OpClients : OLogout(c) \/ SplitOper(c) \/ \E b \in Blocks : OLogin(c, b)
  \/ \E d \in Conns : DccRelease(d) \/ \E b \in Blocks : DccConnect(d, b)
  \/ \E k \in 0 .. MaxStored : expire_client_oper(k)
  \/ clear_client_oper_sid
  \/ \E f \in [Keys -> Privs \cup {NoPrivs}] : \E ks \in SUBSET In(f) : \E at \in Places(ks) :
       Rehash(f, at) \/ RestartOpers(f, at)

OperSpec == OperInit /\ [][OperNext]_operVars

-----------------------------------------------------------------------------

\* Types; a count is never below zero.
OperTypeOK ==
  /\ file \in [Keys -> Privs \cup {NoPrivs}]
  /\ blk \in [Blocks -> [mem : {"free", "used", "freed"}, key : Keys, privs : Privs \cup {NoPrivs},
                         dead : BOOLEAN, refcount : Nat]]
  /\ list \subseteq Blocks
  /\ oper \in [OpClients -> Blocks \cup {NoBlock}]
  /\ dcc \in [Conns -> Blocks \cup {NoBlock}]
  /\ stored \in Seq(Blocks) /\ Len(stored) <= MaxStored

\* A block that somebody holds is not freed, and counts exactly those who hold
\* it: by whatever sequence of logins, splits and rehashes they came to hold it.
RefCounts ==
  \A b \in Blocks :
    LET held == Cardinality({c \in OpClients : oper[c] = b}) + Cardinality({d \in Conns : dcc[d] = b})
                  + Cardinality({i \in DOMAIN stored : stored[i] = b})
    IN /\ blk[b].refcount = held
       /\ held > 0 => blk[b].mem = "used"

\* Each key of the file has one block to log in with; a client that logged in
\* with an earlier reading of it has the flags the file gives now.
PrivsCurrent ==
  \A k \in In(file) :
    /\ Cardinality({b \in list : ~ blk[b].dead /\ blk[b].key = k}) = 1
    /\ \A c \in OpClients :
         oper[c] # NoBlock /\ blk[oper[c]].key = k =>
           Found(oper[c]) /\ blk[oper[c]].privs = file[k]

\* "cleaned up properly in clear_old_conf_final()": a block is in the list until
\* it is freed there.
ListedAllocated == \A b \in list : blk[b].mem = "used"
=============================================================================
