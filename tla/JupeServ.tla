------------------------------ MODULE JupeServ ------------------------------
(***************************************************************************)
(* JupeServ: server names kept off the network, by decision of an          *)
(* administrator or by a vote of opers (src/s_jupeserv.c), with the part   *)
(* of the network it sees (src/client.c) and its table in the database.    *)
(* Every server but the uplink is directly behind the uplink.              *)
(***************************************************************************)
EXTENDS Integers, FiniteSets, Sequences

CONSTANTS
  Servers,       \* names of the servers of the network
  Uplinks,       \* those we have a connect block for
  admin_score, oper_score, jupe_score, unjupe_score,
  MaxInbox       \* bound on the lines that are on their way to us

ASSUME ScoreAssumption ==
  admin_score \in Nat /\ oper_score \in Nat /\ jupe_score \in Nat /\ unjupe_score \in Nat

ASSUME InboxAssumption == MaxInbox \in Nat

ASSUME UplinkAssumption == Uplinks \subseteq Servers

NoServer == "none"

ASSUME NoServerAssumption == NoServer \notin Servers

VARIABLES
  pending,       \* pending_jupes: votes under way
  active,        \* active_jupes
  jupes,         \* the jupes table
  uplink,        \* server_p->name
  link,          \* how far the connection server_p has come
  linked,        \* server_list
  inbox,         \* what the uplink sent and we have not read
  net,           \* the servers the network has
  held,          \* our jupes the network has
  crossed        \* names the network had given away when our jupe reached it

vars == <<pending, active, jupes, uplink, link, linked, inbox, net, held, crossed>>
network == <<uplink, link, linked, inbox, net, held, crossed>>

finished_bursting == link = "eob"

Vote == [name : Servers, add : BOOLEAN, points : Nat, servers : SUBSET Servers]

Message == [cmd : {"SID", "SQUIT", "PONG"}, server : Servers]

Pending(name) == {p \in pending : p.name = name}

Down ==
  /\ uplink' = NoServer /\ link' = "none" /\ linked' = {}
  /\ inbox' = <<>> /\ net' = {} /\ held' = {} /\ crossed' = {}

Init ==
  /\ pending = {} /\ active = {} /\ jupes = {}
  /\ uplink = NoServer /\ link = "none" /\ linked = {}
  /\ inbox = <<>> /\ net = {} /\ held = {} /\ crossed = {}

-----------------------------------------------------------------------------
(* What the network does: it sends to us in order, and what we send reaches *)
(* it after all that is in the inbox has left it.                           *)

Send(cmd, s) == inbox' = Append(inbox, [cmd |-> cmd, server |-> s])

Room == link \in {"burst", "eob"} /\ Len(inbox) < MaxInbox

\* A server joins the network; no server can take the name of a held jupe.
NetworkLink(s) ==
  /\ Room /\ s \notin net \cup held
  /\ net' = net \cup {s} /\ Send("SID", s)
  /\ UNCHANGED <<pending, active, jupes, uplink, link, linked, held, crossed>>

\* A server is split off, or somebody removes our jupe.
NetworkSplit(s) ==
  /\ Room /\ s \in (net \cup held) \ {uplink}
  /\ net' = net \ {s} /\ held' = held \ {s} /\ Send("SQUIT", s)
  /\ UNCHANGED <<pending, active, jupes, uplink, link, linked, crossed>>

\* The uplink answers our PING after its burst.
NetworkPong ==
  /\ Room /\ link = "burst" /\ ~\E i \in DOMAIN inbox : inbox[i].cmd = "PONG"
  /\ Send("PONG", uplink)
  /\ UNCHANGED <<pending, active, jupes, uplink, link, linked, net, held, crossed>>

\* The network reads "SQUIT s" for every s in S, then "SERVER j" for every j
\* in J, while rest is what is still on its way to us.
Deliver(S, J, rest) ==
  LET left == net \ (S \ {uplink})
      late == {rest[i].server : i \in {k \in DOMAIN rest : rest[k].cmd = "SID"}}
  IN /\ net' = left
     /\ held' = (held \ S) \cup (J \ left)
     /\ crossed' = (crossed \ S) \cup (J \cap (left \cup late))

-----------------------------------------------------------------------------
(* The connection and what is read from it.                                *)

\* connect_to_server: server_p names the uplink before it has answered.
connect_to_server(s) ==
  /\ link = "none"
  /\ uplink' = s /\ link' = "handshake" /\ net' = {s}
  /\ UNCHANGED <<pending, active, jupes, linked, inbox, held, crossed>>

\* c_server: the uplink introduces itself, and gets our PING.
c_server ==
  /\ link = "handshake"
  /\ link' = "burst" /\ linked' = {uplink}
  /\ UNCHANGED <<pending, active, jupes, uplink, inbox, net, held, crossed>>

\* signoff_server: all that was behind the connection is gone.
signoff_server ==
  /\ link # "none"
  /\ Down
  /\ UNCHANGED <<pending, active, jupes>>

\* The process ends and another starts: init_s_jupeserv loads the table
\* through jupe_db_callback.
Restart ==
  /\ pending' = {} /\ active' = jupes
  /\ Down
  /\ UNCHANGED jupes

\* exit_client of a server: those behind it go too, which is all of them if
\* it is the uplink.
exit_client(S) == linked' = IF uplink \in S THEN {} ELSE linked \ S

\* handle_scommand: a line whose source is unknown is dropped.
Read(cmd, s) ==
  /\ inbox # <<>> /\ Head(inbox) = [cmd |-> cmd, server |-> s]
  /\ inbox' = Tail(inbox)
  /\ UNCHANGED <<pending, active, jupes, uplink>>

Dropped(s) ==
  /\ \E cmd \in {"SID", "SQUIT", "PONG"} : Read(cmd, s)
  /\ uplink \notin linked
  /\ UNCHANGED <<link, linked, net, held, crossed>>

c_sid(s) ==
  /\ Read("SID", s) /\ uplink \in linked
  /\ linked' = linked \cup {s}
  /\ UNCHANGED <<link, net, held, crossed>>

\* Mutant: the SQUIT of a jupe is only logged.
SquitOnlyLogged(s) == UNCHANGED <<net, held, crossed>>

\* Mutant: any unknown name is introduced.
SquitRejupesAll(s) == Deliver({}, {s}, Tail(inbox))

\* h_jupeserv_squit: a jupe somebody removed is put back.
h_jupeserv_squit(s) == Deliver({}, {s} \cap active, Tail(inbox))

c_squit(s) ==
  /\ Read("SQUIT", s) /\ uplink \in linked
  /\ \/ /\ s \in linked
        /\ exit_client({s})
        /\ UNCHANGED <<net, held, crossed>>
     \/ /\ s \notin linked
        /\ h_jupeserv_squit(s)
        /\ UNCHANGED linked
  /\ UNCHANGED link

\* h_jupeserv_finburst: jupes set before or during the burst take effect, in
\* the order of active_jupes.  The servers that come after the uplink in it
\* are gone with the uplink and are not found.
h_jupeserv_finburst ==
  \E found \in SUBSET (active \cap linked) :
    /\ IF uplink \in active THEN uplink \in found ELSE found = active \cap linked
    /\ exit_client(found)
    /\ Deliver(found, active, Tail(inbox))

c_pong(s) ==
  /\ Read("PONG", s) /\ uplink \in linked
  /\ ~finished_bursting
  /\ link' = "eob"
  /\ h_jupeserv_finburst

-----------------------------------------------------------------------------
(* Commands.                                                               *)

valid_jupe(name) == uplink # name

\* add_jupe: the server of that name goes, if it is there, and the jupe takes
\* its place.
add_jupe(name) ==
  /\ active' = active \cup {name}
  /\ exit_client({name} \cap linked)
  /\ Deliver({name} \cap linked, IF finished_bursting THEN {name} ELSE {}, inbox)
  /\ UNCHANGED <<uplink, link, inbox>>

o_jupeserv_jupe(name) ==
  /\ valid_jupe(name)
  /\ name \notin active
  /\ pending' = pending \ Pending(name)
  /\ jupes' = jupes \cup {name}
  /\ add_jupe(name)

\* DELETE FROM jupes, "SQUIT name :Unjuped", and it leaves active_jupes.
RemoveJupe(name) ==
  /\ pending' = pending \ Pending(name)
  /\ jupes' = jupes \ {name}
  /\ active' = active \ {name}
  /\ Deliver({name}, {}, inbox)
  /\ UNCHANGED <<uplink, link, linked, inbox>>

o_jupeserv_unjupe(name) ==
  /\ name \in active
  /\ RemoveJupe(name)

\* The vote to which an oper's call adds: the pending one, or a new one.
VoteFor(name, add, points) ==
  IF Pending(name) # {} THEN Pending(name)
  ELSE {[name |-> name, add |-> add, points |-> points, servers |-> {}]}

\* Mutant: a server may vote again.
CallJupeAgain(name, from, score) ==
  /\ valid_jupe(name)
  /\ name \notin active
  /\ \E p \in VoteFor(name, TRUE, 0) :
       LET q == [p EXCEPT !.points = @ + score, !.servers = @ \cup {from}]
       IN /\ q.points < jupe_score
          /\ pending' = (pending \ {p}) \cup {q}
          /\ UNCHANGED <<active, jupes, network>>

\* An oper on server from calls for a jupe of name, with their score.
s_jupeserv_calljupe(name, from, score) ==
  /\ valid_jupe(name)
  /\ jupe_score # 0 /\ oper_score # 0 /\ admin_score # 0
  /\ name \notin active
  /\ \E p \in VoteFor(name, TRUE, 0) :
       /\ from \notin p.servers
       /\ LET q == [p EXCEPT !.points = @ + score, !.servers = @ \cup {from}]
          IN \/ /\ q.points >= jupe_score
                /\ pending' = pending \ {p}
                /\ jupes' = jupes \cup {name}
                /\ add_jupe(name)
             \/ /\ q.points < jupe_score
                /\ pending' = (pending \ {p}) \cup {q}
                /\ UNCHANGED <<active, jupes, network>>

s_jupeserv_callunjupe(name, from, score) ==
  /\ unjupe_score # 0 /\ oper_score # 0 /\ admin_score # 0
  /\ name \in active
  /\ \E p \in VoteFor(name, FALSE, unjupe_score) :
       /\ from \notin p.servers
       /\ LET q == [p EXCEPT !.points = @ - score, !.servers = @ \cup {from}]
          IN \/ /\ q.points <= 0
                /\ RemoveJupe(name)
             \/ /\ q.points > 0
                /\ pending' = (pending \ {p}) \cup {q}
                /\ UNCHANGED <<active, jupes, network>>

\* e_jupeserv_expire: the votes nobody joined for pending_time.
e_jupeserv_expire(S) ==
  /\ S # {} /\ S \subseteq pending
  /\ pending' = pending \ S
  /\ UNCHANGED <<active, jupes, network>>

Network ==
  \/ \E s \in Servers : NetworkLink(s) \/ NetworkSplit(s)
  \/ NetworkPong

Connection ==
  \/ \E s \in Uplinks : connect_to_server(s)
  \/ c_server \/ signoff_server \/ Restart
  \/ \E s \in Servers : Dropped(s) \/ c_sid(s) \/ c_squit(s) \/ c_pong(s)

Commands ==
  \/ \E name \in Servers : o_jupeserv_jupe(name) \/ o_jupeserv_unjupe(name)
  \/ \E name \in Servers, from \in linked, score \in {admin_score, oper_score} :
       s_jupeserv_calljupe(name, from, score) \/ s_jupeserv_callunjupe(name, from, score)
  \/ \E S \in SUBSET pending : e_jupeserv_expire(S)

Next == Network \/ Connection \/ Commands

Spec == Init /\ [][Next]_vars

-----------------------------------------------------------------------------
(* Properties.                                                             *)

\* The types of the votes, of the jupes, of the link and of the lines on their way.
TypeOK ==
  /\ pending \subseteq Vote
  /\ active \subseteq Servers /\ jupes \subseteq Servers
  /\ link \in {"none", "handshake", "burst", "eob"}
  /\ IF link = "none" THEN uplink = NoServer ELSE uplink \in Uplinks
  /\ linked \subseteq Servers /\ inbox \in Seq(Message)
  /\ net \subseteq Servers /\ held \subseteq Servers /\ crossed \subseteq Servers

\* active_jupes is the jupes table, so a restart forgets no jupe and revives
\* none, however it was set or lifted.
JupesPersist == active = jupes

\* At most one vote per name is under way, and it is for what is not the
\* case: to jupe a name that is not juped or to lift a jupe that is there.
\* JUPE, UNJUPE and a vote that succeeds must each cancel the other kind.
VotesMakeSense ==
  \A p \in pending : p.add = (p.name \notin active) /\ Pending(p.name) = {p}

MaxScore == IF admin_score > oper_score THEN admin_score ELSE oper_score

\* Each server votes once: what a vote has moved is at most the highest score
\* times the servers it came from, and a vote that reached its threshold is
\* not pending any more.
VotesCounted ==
  \A p \in pending :
    IF p.add
    THEN p.points > 0 /\ p.points < jupe_score
           /\ p.points <= MaxScore * Cardinality(p.servers)
    ELSE p.points > 0 /\ p.points < unjupe_score
           /\ p.points >= unjupe_score - MaxScore * Cardinality(p.servers)

\* After the uplink's burst, and once all it sent is read, every jupe holds:
\* no server of that name is linked and the network has our jupe, whatever
\* was set before, during or after the burst and whoever removed it.  The
\* exception is a name whose server was on its way when the jupe was set:
\* c_sid does not look at active_jupes.
JupesHold ==
  finished_bursting /\ inbox = <<>> /\ uplink \in linked =>
    /\ active \cap linked \subseteq crossed
    /\ active \subseteq held \cup crossed

\* The network never holds a name in our name that is not juped: a SQUIT that
\* crosses an UNJUPE does not bring the jupe back.
NothingElseHeld == held \subseteq active

\* "cant jupe our uplink" (valid_jupe): jupes never make us drop the server
\* we are linked to.
UplinkNotJuped == link \in {"burst", "eob"} => uplink \in linked

=============================================================================
