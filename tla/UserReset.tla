------------------------------ MODULE UserReset ------------------------------
(***************************************************************************)
(* UserServ's mails with a token: RESETPASS and the two halves of          *)
(* RESETEMAIL (src/s_userserv.c).                                          *)
(*                                                                         *)
(* A token is known from the mail it was sent in.  The tables              *)
(* users_resetpass and users_resetemail hold one row for a name; a row     *)
(* whose time is past the configured duration is not found by a SELECT and *)
(* stays until the hourly DELETE or the next request.  Whether a mail may  *)
(* be sent now is src/email.c's affair, and it may fail.                   *)
(*                                                                         *)
(* A request is also refused for a suspended account and for one that was  *)
(* registered too recently, RESETPASS to a client that is logged in.  They *)
(* are left out: the model allows a request whenever the code may.         *)
(***************************************************************************)
EXTENDS Naturals, Sequences

CONSTANTS
  Registrants,       \* account names
  Addrs,        \* mail addresses
  MaxMails,     \* bound: tokens made in one behaviour
  MaxRenewals   \* bound: registrations of one name

NoAddr == "none"
NoToken == 0

ASSUME ResetAssumption ==
  NoAddr \notin Addrs /\ MaxMails \in Nat /\ MaxRenewals \in Nat

VARIABLES
  acct,         \* address and registration number of each account
  resetpass,    \* users_resetpass
  resetemail,   \* users_resetemail
  mails,        \* what each token was made for, in order
  spent         \* the tokens a command was carried out for

resetVars == <<acct, resetpass, resetemail, mails, spent>>

\* reg counts the registrations of the name, live says whether there is one now.
Acct == [live : BOOLEAN, reg : 0 .. MaxRenewals, email : Addrs \cup {NoAddr}]

\* valid: time > now - duration; email: the column of that name.
ResetRow == [token : 0 .. MaxMails, valid : BOOLEAN, email : Addrs \cup {NoAddr}]
NoReset == [token |-> NoToken, valid |-> FALSE, email |-> NoAddr]

\* to: NoAddr for a mail that could not be sent.
Mail == [kind : {"pass", "confirm", "auth"}, name : Registrants, reg : 1 .. MaxRenewals,
         to : Addrs \cup {NoAddr}]

ResetInit ==
  /\ acct = [n \in Registrants |-> [live |-> FALSE, reg |-> 0, email |-> NoAddr]]
  /\ resetpass = [n \in Registrants |-> NoReset]
  /\ resetemail = [n \in Registrants |-> NoReset]
  /\ mails = << >>
  /\ spent = {}

-----------------------------------------------------------------------------
(* Accounts.                                                               *)

\* s_user_register, or o_user_userregister which may leave out the address.
RegisterOwner(n, a) ==
  /\ ~ acct[n].live /\ acct[n].reg < MaxRenewals
  /\ acct' = [acct EXCEPT ![n] = [live |-> TRUE, reg |-> @.reg + 1, email |-> a]]
  /\ UNCHANGED <<resetpass, resetemail, mails, spent>>

\* Mutant: the rows outlive the account.
FreeOwnerKeepsRows(n) ==
  /\ acct[n].live
  /\ acct' = [acct EXCEPT ![n].live = FALSE, ![n].email = NoAddr]
  /\ UNCHANGED <<resetpass, resetemail, mails, spent>>

\* free_user_reg: the rows go with the account.
FreeOwner(n) ==
  /\ acct[n].live
  /\ acct' = [acct EXCEPT ![n].live = FALSE, ![n].email = NoAddr]
  /\ resetpass' = [resetpass EXCEPT ![n] = NoReset]
  /\ resetemail' = [resetemail EXCEPT ![n] = NoReset]
  /\ UNCHANGED <<mails, spent>>

\* s_user_set EMAIL, o_user_usersetemail, dbh_user_setemail.
SetEmail(n, a) ==
  /\ acct[n].live
  /\ acct' = [acct EXCEPT ![n].email = a]
  /\ UNCHANGED <<resetpass, resetemail, mails, spent>>

-----------------------------------------------------------------------------
(* Requests.                                                               *)

\* get_password() and send_email(): the next token, in a mail to `a' if it can be sent.
SendToken(kind, n, a, sent) ==
  /\ Len(mails) < MaxMails
  /\ mails' = Append(mails, [kind |-> kind, name |-> n, reg |-> acct[n].reg,
                             to |-> IF sent THEN a ELSE NoAddr])

NewRow(a) == [token |-> Len(mails) + 1, valid |-> TRUE, email |-> a]

\* The token is the one of a row the SELECT finds, and somebody has read it.
Matches(row, t) == row.valid /\ row.token = t /\ mails[t].to # NoAddr

\* s_user_resetpass without a token.  The row is there even if the mail fails.
ResetPass(n, sent) ==
  /\ acct[n].live /\ acct[n].email # NoAddr
  /\ ~ resetpass[n].valid
  /\ resetpass' = [resetpass EXCEPT ![n] = NewRow(NoAddr)]
  /\ SendToken("pass", n, acct[n].email, sent)
  /\ UNCHANGED <<acct, resetemail, spent>>

\* s_user_resetpass with a token: the row goes and the password changes.
ResetPassAuth(n, t) ==
  /\ acct[n].live
  /\ Matches(resetpass[n], t)
  /\ resetpass' = [resetpass EXCEPT ![n] = NoReset]
  /\ spent' = spent \cup {t}
  /\ UNCHANGED <<acct, resetemail, mails>>

\* s_user_resetemail without parameters, by a user logged in to n.
ResetEmail(n, sent) ==
  /\ acct[n].live /\ acct[n].email # NoAddr
  /\ ~ resetemail[n].valid
  /\ resetemail' = [resetemail EXCEPT ![n] = NewRow(NoAddr)]
  /\ SendToken("confirm", n, acct[n].email, sent)
  /\ UNCHANGED <<acct, resetpass, spent>>

\* Mutant: the second mail goes to the address the account has.
ConfirmToOld(n, t, a, sent) ==
  /\ acct[n].live /\ acct[n].email # NoAddr
  /\ Matches(resetemail[n], t) /\ resetemail[n].email = NoAddr
  /\ SendToken("auth", n, acct[n].email, sent)
  /\ IF sent THEN /\ resetemail' = [resetemail EXCEPT ![n] = NewRow(a)]
                  /\ spent' = spent \cup {t}
             ELSE UNCHANGED <<resetemail, spent>>
  /\ UNCHANGED <<acct, resetpass>>

\* s_user_resetemail CONFIRM with the token sent to the old address: the row is
\* replaced by one with the new address, unless the mail to it fails.
ResetEmailConfirm(n, t, a, sent) ==
  /\ acct[n].live /\ acct[n].email # NoAddr
  /\ Matches(resetemail[n], t) /\ resetemail[n].email = NoAddr
  /\ SendToken("auth", n, a, sent)
  /\ IF sent THEN /\ resetemail' = [resetemail EXCEPT ![n] = NewRow(a)]
                  /\ spent' = spent \cup {t}
             ELSE UNCHANGED <<resetemail, spent>>
  /\ UNCHANGED <<acct, resetpass>>

\* s_user_resetemail AUTH with the token sent to the new address.
ResetEmailAuth(n, t) ==
  /\ acct[n].live /\ acct[n].email # NoAddr
  /\ Matches(resetemail[n], t) /\ resetemail[n].email # NoAddr
  /\ acct' = [acct EXCEPT ![n].email = resetemail[n].email]
  /\ resetemail' = [resetemail EXCEPT ![n] = NoReset]
  /\ spent' = spent \cup {t}
  /\ UNCHANGED <<resetpass, mails>>

\* uresetpass_duration or uresetemail_duration passes for a row.
Lapse(n) ==
  /\ \/ /\ resetpass[n].valid
        /\ resetpass' = [resetpass EXCEPT ![n].valid = FALSE]
        /\ UNCHANGED resetemail
     \/ /\ resetemail[n].valid
        /\ resetemail' = [resetemail EXCEPT ![n].valid = FALSE]
        /\ UNCHANGED resetpass
  /\ UNCHANGED <<acct, mails, spent>>

\* e_user_expire_reset: rows that have lapsed are deleted.
e_user_expire_reset ==
  /\ resetpass' = [n \in Registrants |-> IF resetpass[n].valid THEN resetpass[n] ELSE NoReset]
  /\ resetemail' = [n \in Registrants |-> IF resetemail[n].valid THEN resetemail[n] ELSE NoReset]
  /\ UNCHANGED <<acct, mails, spent>>

ResetNext ==
  \/ \E n \in Registrants :
       \/ FreeOwner(n) \/ Lapse(n)
       \/ \E a \in Addrs : SetEmail(n, a)
       \/ \E a \in Addrs \cup {NoAddr} : RegisterOwner(n, a)
       \/ \E sent \in BOOLEAN : ResetPass(n, sent) \/ ResetEmail(n, sent)
       \/ \E t \in 1 .. Len(mails) :
            \/ ResetPassAuth(n, t) \/ ResetEmailAuth(n, t)
            \/ \E a \in Addrs, sent \in BOOLEAN : ResetEmailConfirm(n, t, a, sent)
  \/ e_user_expire_reset

ResetSpec == ResetInit /\ [][ResetNext]_resetVars

-----------------------------------------------------------------------------

\* Types, and a token is carried out only if it was made.
ResetTypeOK ==
  /\ acct \in [Registrants -> Acct]
  /\ resetpass \in [Registrants -> ResetRow]
  /\ resetemail \in [Registrants -> ResetRow]
  /\ mails \in Seq(Mail)
  /\ spent \subseteq 1 .. Len(mails)

\* A token that can still be used was made for the account as it is registered
\* now, for the table it is in, and has not been used.
TokensCurrent ==
  \A n \in Registrants :
    LET current(row, kinds) ==
          row.token # NoToken =>
            /\ acct[n].live
            /\ mails[row.token].name = n /\ mails[row.token].reg = acct[n].reg
            /\ mails[row.token].kind \in kinds
            /\ row.token \notin spent
    IN /\ current(resetpass[n], {"pass"})
       /\ current(resetemail[n],
                  IF resetemail[n].email = NoAddr THEN {"confirm"} ELSE {"auth"})

\* RESETEMAIL gives an account an address only when a token mailed to the account
\* and then a token mailed to that very address have been given back, both
\* for this registration of the account.
AddressProven ==
  [][\A n \in Registrants :
       spent' # spent /\ acct'[n].email # acct[n].email =>
         \E t \in spent' \ spent, u \in spent :
           /\ u < t
           /\ mails[u].kind = "confirm" /\ mails[t].kind = "auth"
           /\ mails[t].to = acct'[n].email
           /\ \A x \in {t, u} : mails[x].name = n /\ mails[x].reg = acct[n].reg]_resetVars
=============================================================================
