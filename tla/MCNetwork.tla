------------------------------ MODULE MCNetwork ------------------------------
(***************************************************************************)
(* The services network operators run: JupeServ, and ChanFix with its      *)
(* scores (ChanFix, ChanScores), on small instances.  They share no state: *)
(* a behaviour follows one of them and leaves the others as they started.  *)
(* JupeServ is followed on two instances: one where a jupe takes several   *)
(* votes and few lines are on their way, one where a single vote is enough *)
(* and more lines cross it.                                                *)
(***************************************************************************)
EXTENDS JupeServ, ChanFix, ChanScores

VARIABLE focus      \* the component this behaviour is about

Votes == INSTANCE JupeServ WITH Uplinks <- {"hub"}, MaxInbox <- 1
Crossing == INSTANCE JupeServ WITH jupe_score <- 1, unjupe_score <- 1

\* Every member has a user@host of its own.
MCHostOf == [m \in Members |-> m]

NetworkInit ==
  /\ focus \in {"votes", "crossing", "fix", "scores"}
  /\ Init /\ FixInit /\ ScoreInit

NetworkNext ==
  /\ UNCHANGED focus
  /\ \/ focus = "votes" /\ Votes!Next /\ UNCHANGED <<fixVars, scoreVars>>
     \/ focus = "crossing" /\ Crossing!Next /\ UNCHANGED <<fixVars, scoreVars>>
     \/ focus = "fix" /\ FixNext /\ UNCHANGED <<vars, scoreVars>>
     \/ focus = "scores" /\ ScoreNext /\ UNCHANGED <<vars, fixVars>>

NetworkSpec == NetworkInit /\ [][NetworkNext]_<<focus, vars, fixVars, scoreVars>>
=============================================================================
