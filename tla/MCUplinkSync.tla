---------------------------- MODULE MCUplinkSync ----------------------------
(***************************************************************************)
(* What services depend on outside: the connection to the uplink (Uplink)  *)
(* and the database hooks (UserSync), on small instances.  They share no   *)
(* state: a behaviour follows one of them and leaves the other as it       *)
(* started.  The uplink is followed in behaviours where writes may fail    *)
(* and in behaviours where none does.                                      *)
(***************************************************************************)
EXTENDS Uplink, UserSync

VARIABLE focus      \* the component this behaviour is about

Sure == INSTANCE Uplink WITH WriteErrors <- FALSE

OutsideInit == focus \in {"sure uplink", "uplink", "hooks"} /\ Init /\ SyncInit

OnUplink == focus \in {"sure uplink", "uplink"}

OutsideNext ==
  /\ UNCHANGED focus
  /\ \/ focus = "sure uplink" /\ Sure!Next /\ UNCHANGED syncVars
     \/ focus = "uplink" /\ Next /\ UNCHANGED syncVars
     \/ focus = "hooks" /\ SyncNext /\ UNCHANGED vars

\* Uplink's Fairness, in the behaviours that follow it.
UplinkFairness ==
  /\ WF_vars(OnUplink /\ ReadDone)
  /\ SF_vars(OnUplink /\ check_server_status)
  /\ SF_vars(OnUplink /\ connect_to_server)

OutsideSpec ==
  /\ OutsideInit
  /\ [][OutsideNext]_<<focus, vars, syncVars>>
  /\ UplinkFairness
  /\ SyncFairness

\* As long as no write fails and the process runs, whenever the connection is lost
\* another is tried (signoff_server, check_server_status and the one-time
\* connect_to_server event).
ReconnectsIfSent ==
  (focus = "sure uplink" /\ (conn = "null" \/ dead)) ~> conn \in {"connecting", "ended"}
=============================================================================
