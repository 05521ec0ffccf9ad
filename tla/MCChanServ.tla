----------------------------- MODULE MCChanServ -----------------------------
(* ChanServ on small instances: a manager and someone with less access.    *)
EXTENDS ChanServ, TLC

MCAccess == "a" :> S_C_MANAGER @@ "b" :> S_C_REGULAR

MCMatches == [m \in Masks |-> Clients]
=============================================================================
