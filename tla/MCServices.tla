----------------------------- MODULE MCServices -----------------------------
(***************************************************************************)
(* Accounts (UserServ), memos (MemoServ), the tokens of RESETPASS and      *)
(* RESETEMAIL (UserReset), the rate limits (RateLimits), the oper blocks   *)
(* (OperConf), BanServ (OperBans, RegexpBans) and the comparison of masks  *)
(* and users (MaskMatch) on small instances.  They share no state, so a    *)
(* behaviour follows one of them and leaves the others as they started:    *)
(* every behaviour of each one is there, and the states add up instead of  *)
(* multiplying.                                                            *)
(***************************************************************************)
EXTENDS UserServ, MemoServ, UserReset, RateLimits, OperConf, OperBans, RegexpBans,
        MaskMatch, TLC

CONSTANTS MaxMask, MaxName      \* bounds: the length of strings

VARIABLE focus      \* the component this behaviour is about

\* One mask of each type of ban.
MCBanType == [b \in Bans |-> b]

\* One expression matches everybody, another some.
MCHits == [e \in Exprs |-> IF e = "all" THEN Users ELSE {"u"}]

Strings(S, max) == UNION {[1 .. k -> S] : k \in 0 .. max}

MCToLower == "A" :> "a" @@ "a" :> "a" @@ "b" :> "b"

\* Strings without addresses, and short ones with addresses of one or two bytes.
Plain(f, s, t) ==
  [fn |-> f, mask |-> s, name |-> t, cidrlen |-> 0, mixed |-> FALSE, maskaddr |-> <<>>, ipaddr |-> <<>>]

MCInputs ==
  {Plain(f, s, t) : f \in {"collapse", "match"}, s \in Strings({"A", "b", "*", "?"}, MaxMask),
                    t \in Strings({"a", "b"}, MaxName)}
  \cup
  UNION {[fn : {"match_cidr"}, mask : {<<"*">>, <<"b">>}, name : {<<"a">>},
          cidrlen : 0 .. ByteBits * bytes + 1, mixed : BOOLEAN,
          maskaddr : [1 .. bytes -> 0 .. 2 ^ ByteBits - 1],
          ipaddr : [1 .. bytes -> 0 .. 2 ^ ByteBits - 1]] : bytes \in 1 .. 2}

ServicesInit ==
  /\ focus \in {"users", "memos", "resets", "limits", "opers", "bans", "regexps", "match"}
  /\ UserInit /\ MemoInit /\ ResetInit /\ LimitInit /\ OperInit /\ BanInit /\ RegexpInit
  /\ MatchInit
  /\ focus # "limits" => limit = CHOOSE l \in Limits : TRUE
  /\ focus # "opers" => file = [k \in Keys |-> NoPrivs]
  /\ focus # "bans" => workaround

ServicesNext ==
  /\ UNCHANGED focus
  /\ focus = "users" \/ UNCHANGED userVars
  /\ focus = "memos" \/ UNCHANGED memoVars
  /\ focus = "resets" \/ UNCHANGED resetVars
  /\ focus = "limits" \/ UNCHANGED limitVars
  /\ focus = "opers" \/ UNCHANGED operVars
  /\ focus = "bans" \/ UNCHANGED banVars
  /\ focus = "regexps" \/ UNCHANGED regexpVars
  /\ focus = "match" \/ UNCHANGED matchVars
  /\ \/ focus = "users" /\ UserNext
     \/ focus = "memos" /\ MemoNext
     \/ focus = "resets" /\ ResetNext
     \/ focus = "limits" /\ LimitNext
     \/ focus = "opers" /\ OperNext
     \/ focus = "bans" /\ BanNext
     \/ focus = "regexps" /\ RegexpNext
     \/ focus = "match" /\ MatchNext

ServicesSpec ==
  /\ ServicesInit
  /\ [][ServicesNext]_<<focus, userVars, memoVars, resetVars, limitVars,
                        operVars, banVars, regexpVars, matchVars>>
=============================================================================
