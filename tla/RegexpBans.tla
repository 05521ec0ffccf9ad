------------------------------ MODULE RegexpBans ------------------------------
(***************************************************************************)
(* BanServ's regular expressions (src/s_banserv.c): a client that matches  *)
(* one when it connects, or when it is added, is klined, unless one of the *)
(* expression's negations spares it.  An expression and its negations are  *)
(* rows of two tables and a list in memory that is loaded from them.       *)
(*                                                                         *)
(* An expression is a name for the clients it matches.  Its validity, the  *)
(* limit on its matches and who may add or remove one are refusals and     *)
(* left out.  The ids are SQLite's (tools/base/schema-sqlite.txt, INTEGER  *)
(* PRIMARY KEY): one more than the highest in the table, so the id of a    *)
(* deleted row comes back.                                                 *)
(***************************************************************************)
EXTENDS Naturals, Sequences, FiniteSets

CONSTANTS
  Users,
  Exprs, Hits,       \* expressions, and the clients each of them matches
  MaxAdds,           \* bound: expressions added
  MaxNegs            \* bound: ids of negations

VARIABLES
  regexp_list,       \* in memory, each with its negations
  rows,              \* operbans_regexp
  negrows,           \* operbans_regexp_neg
  adds,              \* history: expressions added; each carries its number
  lapsed,            \* the numbers of those whose hold is over
  user_list,
  klined             \* clients a kline was sent for

regexpVars == <<regexp_list, rows, negrows, adds, lapsed, user_list, klined>>

RegexpInit ==
  /\ regexp_list = << >> /\ rows = {} /\ negrows = {}
  /\ adds = 0 /\ lapsed = {}
  /\ user_list = {} /\ klined = {}

\* rsdb_exec_insert (external).
NextId(table) ==
  LET ids == {row.id : row \in table} \cup {0} IN
  (CHOOSE n \in ids : \A k \in ids : k <= n) + 1

\* A SELECT's rows come in the order of their ids (external): before the k-th there are
\* k - 1.
ById(table) ==
  [k \in 1 .. Cardinality(table) |->
     CHOOSE r \in table : Cardinality({s \in table : s.id <= r.id}) = k]

\* A list with only the elements at these places, in the order they had: rb_dlinkDelete
\* of the others.
Nth(places, k) == CHOOSE i \in places : Cardinality({j \in places : j <= i}) = k
KeepOnly(list, places) == [k \in 1 .. Cardinality(places) |-> list[Nth(places, k)]]

\* The first of these places in a list, or 0.
First(places) ==
  IF places = {} THEN 0 ELSE CHOOSE i \in places : \A j \in places : i <= j

\* regexp_callback and regexp_neg_callback, for the rows of the two tables.
LoadedRegexps(rs, ns) ==
  LET list == ById(rs) IN
  [i \in DOMAIN list |->
     [id |-> list[i].id, str |-> list[i].str, add |-> list[i].add,
      negations |-> ById({n \in ns : n.parent = list[i].id})]]

\* Mutant: the expression goes before its negations.
DeletesSwapped(id, both) ==
  /\ rows' = {r \in rows : r.id # id}
  /\ negrows' = IF both THEN {n \in negrows : n.parent # id} ELSE negrows

\* The two DELETEs of regexp_free, or the first of them.
Deletes(id, both) ==
  /\ negrows' = {n \in negrows : n.parent # id}
  /\ rows' = IF both THEN {r \in rows : r.id # id} ELSE rows

\* regexp_free of every expression in a set, one after another.
FreeAll(gone) ==
  /\ regexp_list' = KeepOnly(regexp_list, {i \in DOMAIN regexp_list : regexp_list[i] \notin gone})
  /\ rows' = {r \in rows : \A g \in gone : r.id # g.id}
  /\ negrows' = {n \in negrows : \A g \in gone : n.parent # g.id}

Listed == {regexp_list[i] : i \in DOMAIN regexp_list}
Negations(r) == {r.negations[k] : k \in DOMAIN r.negations}
Over(r) == r.add \in lapsed

\* Those who are here and match.
regexp_match(e) == Hits[e] \cap user_list

-----------------------------------------------------------------------------

\* o_banserv_addregexp, with a kline for everybody who matches.
o_banserv_addregexp(e) ==
  LET row == [id |-> NextId(rows), str |-> e, add |-> adds + 1] IN
  /\ adds < MaxAdds
  /\ \A r \in Listed : r.str # e
  /\ rows' = rows \cup {row}
  /\ regexp_list' = Append(regexp_list, [id |-> row.id, str |-> e, add |-> row.add,
                                         negations |-> << >>])
  /\ adds' = adds + 1
  /\ klined' = klined \cup regexp_match(e)
  /\ UNCHANGED <<negrows, lapsed, user_list>>

\* o_banserv_addregexpneg.  It is looked for among the negations by the expression's own
\* string.
o_banserv_addregexpneg(i, e) ==
  LET parent == regexp_list[i]
      neg == [id |-> NextId(negrows), parent |-> parent.id, str |-> e, add |-> parent.add]
  IN
  /\ neg.id <= MaxNegs
  /\ \A n \in Negations(parent) : parent.str # e
  /\ negrows' = negrows \cup {neg}
  /\ regexp_list' = [regexp_list EXCEPT ![i].negations = Append(@, neg)]
  /\ UNCHANGED <<rows, adds, lapsed, user_list, klined>>

\* o_banserv_delregexp.
o_banserv_delregexp(i) ==
  /\ Deletes(regexp_list[i].id, TRUE)
  /\ regexp_list' = KeepOnly(regexp_list, DOMAIN regexp_list \ {i})
  /\ UNCHANGED <<adds, lapsed, user_list, klined>>

\* o_banserv_delregexpneg, of the first negation with this string.
o_banserv_delregexpneg(i, e) ==
  LET negs == regexp_list[i].negations
      k == First({j \in DOMAIN negs : negs[j].str = e})
  IN
  /\ k # 0
  /\ negrows' = {n \in negrows : n.id # negs[k].id}
  /\ regexp_list' = [regexp_list EXCEPT ![i].negations = KeepOnly(@, DOMAIN negs \ {k})]
  /\ UNCHANGED <<rows, adds, lapsed, user_list, klined>>

\* e_banserv_expire; what it deletes of operbans is OperBans' expire_operbans.
e_banserv_expire ==
  /\ FreeAll({r \in Listed : Over(r)})
  /\ UNCHANGED <<adds, lapsed, user_list, klined>>

\* h_banserv_new_client, on connecting and in a burst.  The expressions are tried in
\* order up to the first that matches, the lapsed ones on the way freed.  Each of its
\* negations is "tested" by testing the expression again.
h_banserv_new_client(c) ==
  LET hit == First({i \in DOMAIN regexp_list :
                     ~ Over(regexp_list[i]) /\ c \in Hits[regexp_list[i].str]})
      tried == {regexp_list[i] : i \in {j \in DOMAIN regexp_list : hit = 0 \/ j <= hit}}
      spared == \E n \in Negations(regexp_list[hit]) : c \in Hits[regexp_list[hit].str]
  IN
  /\ c \notin user_list
  /\ user_list' = user_list \cup {c}
  /\ FreeAll({r \in tried : Over(r)})
  /\ klined' = IF hit # 0 /\ ~ spared THEN klined \cup {c} ELSE klined \ {c}
  /\ UNCHANGED <<adds, lapsed>>

UserExit(c) ==
  /\ c \in user_list
  /\ user_list' = user_list \ {c} /\ klined' = klined \ {c}
  /\ UNCHANGED <<regexp_list, rows, negrows, adds, lapsed>>

\* The hold of an expression passes.
LapseRegexp ==
  /\ \E r \in Listed : ~ Over(r) /\ lapsed' = lapsed \cup {r.add}
  /\ UNCHANGED <<regexp_list, rows, negrows, adds, user_list, klined>>

\* The process ends, perhaps between the two statements of a regexp_free, and loads the
\* tables again.
RestartRegexps ==
  /\ \/ UNCHANGED <<rows, negrows>>
     \/ \E r \in Listed : Deletes(r.id, FALSE)
  /\ regexp_list' = LoadedRegexps(rows', negrows')
  /\ user_list' = {} /\ klined' = {}
  /\ UNCHANGED <<adds, lapsed>>

RegexpNext ==
  \/ \E e \in Exprs : o_banserv_addregexp(e)
  \/ \E i \in DOMAIN regexp_list :
       \/ \E e \in Exprs : o_banserv_addregexpneg(i, e) \/ o_banserv_delregexpneg(i, e)
       \/ o_banserv_delregexp(i)
  \/ \E c \in Users : h_banserv_new_client(c) \/ UserExit(c)
  \/ e_banserv_expire
  \/ LapseRegexp
  \/ RestartRegexps

RegexpSpec == RegexpInit /\ [][RegexpNext]_regexpVars

-----------------------------------------------------------------------------

\* The list in memory is what a restart would load, and every negation, there or in its
\* table, is one that was given to that very expression: not to an earlier one that had
\* its id, wherever the process ended while that one was removed.
NegationsFollow ==
  /\ regexp_list = LoadedRegexps(rows, negrows)
  /\ \A n \in negrows : \E r \in rows : r.id = n.parent /\ r.add = n.add

\* "if any matches are found then a kline is issued on the users hostname"
\* (help/en/banserv/addregexp), but "if they match any of the expressions in the negation
\* list then they will not be klined" (help/en/banserv/addregexpneg).
MatchesKlined ==
  [][\A c \in user_list' \ user_list :
       (\E r \in Listed : ~ Over(r) /\ c \in Hits[r.str]
                            /\ \A n \in Negations(r) : c \notin Hits[n.str])
         => c \in klined']_regexpVars
===============================================================================
