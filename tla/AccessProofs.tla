---------------------------- MODULE AccessProofs ----------------------------
(***************************************************************************)
(* Who gets access to what: the tokens UserServ mails, for any number of   *)
(* mails (UserReset); and the access lists of channels, for any set of     *)
(* channels, accounts and levels (ChanAccess).                             *)
(***************************************************************************)
EXTENDS UserReset, ChanAccess, TLAPS

\* How a leaf that names no prover is tried.
USE SMT, Zenon, SMTT(20)

(* The tokens UserServ mails.                                              *)

\* A row that can be found has a token that was made, and an account a registration.
TokensMade(n) ==
  /\ acct[n].live => acct[n].reg # 0
  /\ resetpass[n].token \in 0 .. Len(mails) /\ (resetpass[n].valid => resetpass[n].token # NoToken)
  /\ resetemail[n].token \in 0 .. Len(mails) /\ (resetemail[n].valid => resetemail[n].token # NoToken)

\* TokensCurrent for one account and each of its rows.
PassCurrent(n) ==
  resetpass[n].token # NoToken =>
    LET t == resetpass[n].token IN
    /\ acct[n].live /\ mails[t].name = n /\ mails[t].reg = acct[n].reg
    /\ mails[t].kind = "pass" /\ t \notin spent

EmailCurrent(n) ==
  resetemail[n].token # NoToken =>
    LET t == resetemail[n].token IN
    /\ acct[n].live /\ mails[t].name = n /\ mails[t].reg = acct[n].reg
    /\ mails[t].kind = (IF resetemail[n].email = NoAddr THEN "confirm" ELSE "auth")
    /\ t \notin spent

\* The token of the second half of a RESETEMAIL was mailed to the new address, after
\* the token mailed to the account as it is registered now was given back.
Confirmed(n) ==
  resetemail[n].email # NoAddr =>
    LET t == resetemail[n].token IN
    /\ t # NoToken
    /\ mails[t].to = resetemail[n].email
    /\ \E u \in spent :
         /\ u < t /\ mails[u].kind = "confirm"
         /\ mails[u].name = n /\ mails[u].reg = acct[n].reg

Vouched(n) == TokensMade(n) /\ PassCurrent(n) /\ EmailCurrent(n) /\ Confirmed(n)

ResetInv == ResetTypeOK /\ \A n \in Registrants : Vouched(n)

-----------------------------------------------------------------------------

\* The invariant contains TokensCurrent.
LEMMA InvCurrent == ResetInv => TokensCurrent
BY ZenonT(60) DEF ResetInv, Vouched, TokensCurrent, PassCurrent, EmailCurrent

\* The row that stands for none is a row.
LEMMA NoResetRow == NoReset \in ResetRow
BY ResetAssumption DEF NoReset, ResetRow, NoToken

\* A row that lapses, or is deleted, is a row that is not found.
LEMMA LapsedRow ==
  ASSUME NEW row \in ResetRow, NEW new \in {row, [row EXCEPT !.valid = FALSE], NoReset}
  PROVE  /\ new \in ResetRow /\ new.token \in {row.token, NoToken}
         /\ new.valid => new = row
         /\ new = NoReset \/ (new.token = row.token /\ new.email = row.email)
<1>1. CASE new = row
  BY <1>1
<1>2. CASE new = [row EXCEPT !.valid = FALSE]
  BY <1>2, Zenon DEF ResetRow
<1>3. CASE new = NoReset
  BY <1>3, NoResetRow DEF NoReset
<1> QED
  BY <1>1, <1>2, <1>3

\* A mail more leaves the earlier ones as they were.
LEMMA OneMoreMail ==
  ASSUME ResetTypeOK, NEW kind \in {"pass", "confirm", "auth"}, NEW n \in Registrants,
         NEW a \in Addrs, NEW sent \in BOOLEAN, acct[n].live, acct[n].reg # 0,
         SendToken(kind, n, a, sent)
  PROVE  /\ mails' \in Seq(Mail) /\ Len(mails') = Len(mails) + 1 /\ Len(mails') <= MaxMails
         /\ \A t \in 1 .. Len(mails) : mails'[t] = mails[t]
         /\ mails'[Len(mails) + 1] = [kind |-> kind, name |-> n, reg |-> acct[n].reg,
                                      to |-> IF sent THEN a ELSE NoAddr]
<1> DEFINE m == [kind |-> kind, name |-> n, reg |-> acct[n].reg, to |-> IF sent THEN a ELSE NoAddr]
<1>1. mails' = Append(mails, m) /\ Len(mails) < MaxMails
  BY DEF SendToken
<1>2. acct[n].reg \in 1 .. MaxRenewals
  BY ResetAssumption DEF ResetTypeOK, Acct
<1>3. m \in Mail
  BY <1>2 DEF Mail
<1>4. mails \in Seq(Mail)
  BY DEF ResetTypeOK
<1> HIDE DEF m
<1>5. /\ mails' \in Seq(Mail) /\ Len(mails') = Len(mails) + 1
      /\ \A t \in 1 .. Len(mails) : mails'[t] = mails[t]
      /\ mails'[Len(mails) + 1] = m
  BY <1>1, <1>3, <1>4
<1> QED
  BY <1>1, <1>4, <1>5, ResetAssumption DEF m

\* The mails made so far stay what they were.
MailsKept ==
  /\ Len(mails) \in Nat /\ Len(mails') \in Nat /\ Len(mails) <= Len(mails')
  /\ \A t \in 1 .. Len(mails) : mails'[t] = mails[t]

\* An account whose rows a step leaves alone stays good, if the tokens that are spent
\* are other accounts'.
LEMMA Bystander ==
  ASSUME ResetInv, MailsKept, NEW n \in Registrants,
         acct'[n].live = acct[n].live, acct'[n].reg = acct[n].reg,
         resetpass'[n] = resetpass[n], resetemail'[n] = resetemail[n],
         spent \subseteq spent', \A t \in spent' \ spent : t \in 1 .. Len(mails) /\ mails[t].name # n
  PROVE  Vouched(n)'
<1>1. Vouched(n) /\ spent \subseteq 1 .. Len(mails)
  BY DEF ResetInv, ResetTypeOK
<1>2. TokensMade(n)'
  BY <1>1 DEF Vouched, TokensMade, MailsKept
<1>3. resetpass[n].token # NoToken => mails'[resetpass[n].token] = mails[resetpass[n].token]
  BY <1>1 DEF Vouched, TokensMade, MailsKept, NoToken
<1>4. resetemail[n].token # NoToken => mails'[resetemail[n].token] = mails[resetemail[n].token]
  BY <1>1 DEF Vouched, TokensMade, MailsKept, NoToken
<1>5. PassCurrent(n)'
  BY <1>1, <1>3, Zenon DEF Vouched, PassCurrent
<1>6. EmailCurrent(n)'
  BY <1>1, <1>4, Zenon DEF Vouched, EmailCurrent
<1>7. Confirmed(n)'
  BY <1>1, <1>4 DEF Vouched, Confirmed, MailsKept
<1> QED
  BY <1>2, <1>5, <1>6, <1>7 DEF Vouched

-----------------------------------------------------------------------------
(* Accounts.                                                               *)

\* A registration finds no rows of the name: they went with the account before.
LEMMA RegisterStep ==
  ASSUME ResetInv, NEW n \in Registrants, NEW a \in Addrs \cup {NoAddr}, RegisterOwner(n, a)
  PROVE  ResetInv'
<1>1. ResetTypeOK'
  BY ResetAssumption DEF RegisterOwner, ResetInv, ResetTypeOK, Acct
<1>2. MailsKept
  BY DEF RegisterOwner, MailsKept, ResetInv, ResetTypeOK
<1>3. ASSUME NEW m \in Registrants, m # n PROVE Vouched(m)'
  <2>1. acct'[m] = acct[m] /\ UNCHANGED <<resetpass, resetemail, spent>>
    BY <1>3 DEF RegisterOwner, ResetInv, ResetTypeOK
  <2> QED
    BY <1>2, <2>1, Bystander
<1>4. Vouched(n)'
  <2>1. Vouched(n) /\ ~ acct[n].live
    BY DEF ResetInv, RegisterOwner
  <2>2. resetpass[n].token = NoToken /\ resetemail[n].token = NoToken
    BY <2>1 DEF Vouched, PassCurrent, EmailCurrent
  <2>3. resetemail[n].email = NoAddr
    BY <2>1, <2>2 DEF Vouched, Confirmed
  <2>4. UNCHANGED <<resetpass, resetemail, mails, spent>>
    BY DEF RegisterOwner
  <2>5. acct'[n].reg # 0
    BY DEF RegisterOwner, ResetInv, ResetTypeOK, Acct
  <2> QED
    BY <2>1, <2>2, <2>3, <2>4, <2>5 DEF Vouched, TokensMade, PassCurrent, EmailCurrent, Confirmed
<1> QED
  BY <1>1, <1>3, <1>4 DEF ResetInv

\* free_user_reg takes the rows with it.
LEMMA FreeStep ==
  ASSUME ResetInv, NEW n \in Registrants, FreeOwner(n)
  PROVE  ResetInv'
<1>1. ResetTypeOK'
  BY NoResetRow, Zenon DEF FreeOwner, ResetInv, ResetTypeOK, Acct
<1>2. MailsKept
  BY DEF FreeOwner, MailsKept, ResetInv, ResetTypeOK
<1>3. ASSUME NEW m \in Registrants, m # n PROVE Vouched(m)'
  <2>1. acct'[m] = acct[m] /\ resetpass'[m] = resetpass[m] /\ resetemail'[m] = resetemail[m] /\ spent' = spent
    BY <1>3 DEF FreeOwner, ResetInv, ResetTypeOK
  <2> QED
    BY <1>2, <2>1, Bystander
<1>4. Vouched(n)'
  <2>1. resetpass'[n] = NoReset /\ resetemail'[n] = NoReset /\ ~ acct'[n].live
    BY DEF FreeOwner, ResetInv, ResetTypeOK, Acct
  <2>2. Len(mails') \in Nat
    BY DEF FreeOwner, ResetInv, ResetTypeOK
  <2> QED
    BY <2>1, <2>2 DEF Vouched, TokensMade, PassCurrent, EmailCurrent, Confirmed, NoReset, NoToken
<1> QED
  BY <1>1, <1>3, <1>4 DEF ResetInv

\* A new address leaves the rows as they are.
LEMMA SetEmailStep ==
  ASSUME ResetInv, NEW n \in Registrants, NEW a \in Addrs, SetEmail(n, a)
  PROVE  ResetInv'
<1>1. ResetTypeOK'
  BY SMTT(60) DEF SetEmail, ResetInv, ResetTypeOK, Acct
<1>2. MailsKept
  BY DEF SetEmail, MailsKept, ResetInv, ResetTypeOK
<1>3. ASSUME NEW m \in Registrants PROVE Vouched(m)'
  <2>1. acct'[m].live = acct[m].live /\ acct'[m].reg = acct[m].reg
    BY DEF SetEmail, ResetInv, ResetTypeOK, Acct
  <2> QED
    BY <1>2, <2>1, Bystander DEF SetEmail
<1> QED
  BY <1>1, <1>3 DEF ResetInv

\* Rows lapse, and lapsed rows are deleted.
LEMMA LapseStep ==
  ASSUME ResetInv, e_user_expire_reset \/ \E n \in Registrants : Lapse(n)
  PROVE  ResetInv'
<1>1. /\ UNCHANGED <<acct, mails, spent>>
      /\ \A m \in Registrants :
           /\ resetpass'[m] \in {resetpass[m], [resetpass[m] EXCEPT !.valid = FALSE], NoReset}
           /\ resetemail'[m] \in {resetemail[m], [resetemail[m] EXCEPT !.valid = FALSE], NoReset}
  BY DEF e_user_expire_reset, Lapse, ResetInv, ResetTypeOK
<1>2. ResetTypeOK'
  <2>1. \A m \in Registrants : resetpass'[m] \in ResetRow /\ resetemail'[m] \in ResetRow
    <3> TAKE m \in Registrants
    <3>1. resetpass[m] \in ResetRow /\ resetemail[m] \in ResetRow
      BY DEF ResetInv, ResetTypeOK
    <3> QED
      BY <1>1, <3>1, LapsedRow, Zenon
  <2>2. resetpass' \in [Registrants -> ResetRow] /\ resetemail' \in [Registrants -> ResetRow]
    BY <2>1 DEF e_user_expire_reset, Lapse, ResetInv, ResetTypeOK
  <2> QED
    BY <1>1, <2>2 DEF ResetInv, ResetTypeOK
<1>3. ASSUME NEW m \in Registrants PROVE Vouched(m)'
  <2>1. Vouched(m) /\ Len(mails) \in Nat /\ resetpass[m] \in ResetRow /\ resetemail[m] \in ResetRow
    BY DEF ResetInv, ResetTypeOK
  <2>2. /\ resetpass'[m].token \in {resetpass[m].token, NoToken}
        /\ resetpass'[m].valid => resetpass'[m] = resetpass[m]
        /\ resetemail'[m].token \in {resetemail[m].token, NoToken}
        /\ resetemail'[m].valid => resetemail'[m] = resetemail[m]
        /\ \/ resetemail'[m] = NoReset
           \/ resetemail'[m].token = resetemail[m].token /\ resetemail'[m].email = resetemail[m].email
    BY <1>1, <2>1, LapsedRow, Zenon
  <2>3. TokensMade(m)'
    BY <1>1, <2>1, <2>2 DEF Vouched, TokensMade, NoToken
  <2>4. PassCurrent(m)'
    BY <1>1, <2>1, <2>2 DEF Vouched, PassCurrent
  <2>5. EmailCurrent(m)' /\ Confirmed(m)'
    BY <1>1, <2>1, <2>2 DEF Vouched, EmailCurrent, Confirmed, NoReset
  <2> QED
    BY <2>3, <2>4, <2>5 DEF Vouched
<1> QED
  BY <1>2, <1>3 DEF ResetInv


-----------------------------------------------------------------------------
(* Requests.                                                               *)

\* The row of a request just made.
LEMMA NewRowMade ==
  ASSUME ResetTypeOK, Len(mails) < MaxMails, NEW a \in Addrs \cup {NoAddr}
  PROVE  /\ NewRow(a) \in ResetRow
         /\ NewRow(a).token = Len(mails) + 1 /\ NewRow(a).email = a
         /\ Len(mails) \in Nat /\ Len(mails) + 1 # NoToken /\ Len(mails) + 1 \notin spent
<1>1. Len(mails) \in Nat /\ spent \subseteq 1 .. Len(mails)
  BY DEF ResetTypeOK
<1> QED
  BY <1>1, ResetAssumption DEF NewRow, ResetRow, NoToken

\* s_user_resetpass without a token.
LEMMA ResetPassStep ==
  ASSUME ResetInv, NEW n \in Registrants, NEW sent \in BOOLEAN, ResetPass(n, sent)
  PROVE  ResetInv'
<1> DEFINE a == acct[n].email
<1>1. /\ ResetTypeOK /\ Vouched(n) /\ acct[n].live /\ acct[n].reg # 0 /\ a \in Addrs
      /\ SendToken("pass", n, a, sent) /\ Len(mails) < MaxMails
  BY DEF ResetInv, ResetTypeOK, ResetPass, Vouched, TokensMade, Acct, SendToken
<1>2. /\ mails' \in Seq(Mail) /\ Len(mails') = Len(mails) + 1
      /\ \A t \in 1 .. Len(mails) : mails'[t] = mails[t]
      /\ mails'[Len(mails) + 1] = [kind |-> "pass", name |-> n, reg |-> acct[n].reg,
                                   to |-> IF sent THEN a ELSE NoAddr]
  BY <1>1, OneMoreMail
<1>3. /\ resetpass' = [resetpass EXCEPT ![n] = NewRow(NoAddr)]
      /\ UNCHANGED <<acct, resetemail, spent>>
  BY DEF ResetPass
<1>4. /\ NewRow(NoAddr) \in ResetRow /\ NewRow(NoAddr).token = Len(mails) + 1
      /\ Len(mails) \in Nat /\ Len(mails) + 1 # NoToken /\ Len(mails) + 1 \notin spent
  BY <1>1, NewRowMade
<1>5. MailsKept
  BY <1>2, <1>4 DEF MailsKept
<1>6. ResetTypeOK'
  BY <1>1, <1>2, <1>3, <1>4 DEF ResetTypeOK
<1>7. ASSUME NEW m \in Registrants, m # n PROVE Vouched(m)'
  <2>1. resetpass'[m] = resetpass[m]
    BY <1>1, <1>3, <1>7 DEF ResetTypeOK
  <2> QED
    BY <1>3, <1>5, <2>1, Bystander
<1>8. Vouched(n)'
  <2>1. resetpass'[n] = NewRow(NoAddr)
    BY <1>1, <1>3 DEF ResetTypeOK
  <2>2. TokensMade(n)'
    BY <1>1, <1>2, <1>3, <1>4, <2>1 DEF Vouched, TokensMade
  <2>3. PassCurrent(n)'
    BY <1>1, <1>2, <1>3, <1>4, <2>1 DEF PassCurrent
  <2>4. resetemail[n].token # NoToken => mails'[resetemail[n].token] = mails[resetemail[n].token]
    BY <1>1, <1>5 DEF Vouched, TokensMade, MailsKept, NoToken
  <2>5. EmailCurrent(n)'
    BY <1>1, <1>3, <2>4 DEF Vouched, EmailCurrent
  <2>6. Confirmed(n)'
    BY <1>1, <1>3, <1>5, <2>4 DEF Vouched, Confirmed, MailsKept, ResetTypeOK
  <2> QED
    BY <2>2, <2>3, <2>5, <2>6 DEF Vouched
<1> QED
  BY <1>6, <1>7, <1>8 DEF ResetInv

\* s_user_resetemail without parameters.
LEMMA ResetEmailStep ==
  ASSUME ResetInv, NEW n \in Registrants, NEW sent \in BOOLEAN, ResetEmail(n, sent)
  PROVE  ResetInv'
<1> DEFINE a == acct[n].email
<1>1. /\ ResetTypeOK /\ Vouched(n) /\ acct[n].live /\ acct[n].reg # 0 /\ a \in Addrs
      /\ SendToken("confirm", n, a, sent) /\ Len(mails) < MaxMails
  BY DEF ResetInv, ResetTypeOK, ResetEmail, Vouched, TokensMade, Acct, SendToken
<1>2. /\ mails' \in Seq(Mail) /\ Len(mails') = Len(mails) + 1
      /\ \A t \in 1 .. Len(mails) : mails'[t] = mails[t]
      /\ mails'[Len(mails) + 1] = [kind |-> "confirm", name |-> n, reg |-> acct[n].reg,
                                   to |-> IF sent THEN a ELSE NoAddr]
  BY <1>1, OneMoreMail
<1>3. /\ resetemail' = [resetemail EXCEPT ![n] = NewRow(NoAddr)]
      /\ UNCHANGED <<acct, resetpass, spent>>
  BY DEF ResetEmail
<1>4. /\ NewRow(NoAddr) \in ResetRow /\ NewRow(NoAddr).token = Len(mails) + 1
      /\ NewRow(NoAddr).email = NoAddr
      /\ Len(mails) \in Nat /\ Len(mails) + 1 # NoToken /\ Len(mails) + 1 \notin spent
  BY <1>1, NewRowMade
<1>5. MailsKept
  BY <1>2, <1>4 DEF MailsKept
<1>6. ResetTypeOK'
  BY <1>1, <1>2, <1>3, <1>4 DEF ResetTypeOK
<1>7. ASSUME NEW m \in Registrants, m # n PROVE Vouched(m)'
  <2>1. resetemail'[m] = resetemail[m]
    BY <1>1, <1>3, <1>7 DEF ResetTypeOK
  <2> QED
    BY <1>3, <1>5, <2>1, Bystander
<1>8. Vouched(n)'
  <2>1. resetemail'[n] = NewRow(NoAddr)
    BY <1>1, <1>3 DEF ResetTypeOK
  <2>2. TokensMade(n)'
    BY <1>1, <1>2, <1>3, <1>4, <2>1 DEF Vouched, TokensMade
  <2>3. resetpass[n].token # NoToken => mails'[resetpass[n].token] = mails[resetpass[n].token]
    BY <1>1, <1>5 DEF Vouched, TokensMade, MailsKept, NoToken
  <2>4. PassCurrent(n)'
    BY <1>1, <1>3, <2>3 DEF Vouched, PassCurrent
  <2>5. EmailCurrent(n)' /\ Confirmed(n)'
    BY <1>1, <1>2, <1>3, <1>4, <2>1 DEF EmailCurrent, Confirmed
  <2> QED
    BY <2>2, <2>4, <2>5 DEF Vouched
<1> QED
  BY <1>6, <1>7, <1>8 DEF ResetInv


-----------------------------------------------------------------------------
(* Tokens given back.                                                      *)

\* s_user_resetpass with a token.
LEMMA ResetPassAuthStep ==
  ASSUME ResetInv, NEW n \in Registrants, NEW t \in 1 .. Len(mails), ResetPassAuth(n, t)
  PROVE  ResetInv'
<1>1. /\ ResetTypeOK /\ Vouched(n) /\ t = resetpass[n].token /\ t # NoToken
      /\ mails[t].name = n /\ mails[t].kind = "pass"
  BY DEF ResetInv, ResetPassAuth, Matches, Vouched, PassCurrent, NoToken
<1>2. /\ resetpass' = [resetpass EXCEPT ![n] = NoReset] /\ spent' = spent \cup {t}
      /\ UNCHANGED <<acct, resetemail, mails>>
  BY DEF ResetPassAuth
<1>3. ResetTypeOK'
  BY <1>1, <1>2, NoResetRow, Zenon DEF ResetTypeOK
<1>4. MailsKept
  BY <1>1, <1>2 DEF MailsKept, ResetTypeOK
<1>5. ASSUME NEW m \in Registrants, m # n PROVE Vouched(m)'
  <2>1. resetpass'[m] = resetpass[m]
    BY <1>1, <1>2, <1>5 DEF ResetTypeOK
  <2> QED
    BY <1>1, <1>2, <1>4, <1>5, <2>1, Bystander
<1>6. Vouched(n)'
  <2>1. resetpass'[n] = NoReset /\ Len(mails) \in Nat
    BY <1>1, <1>2 DEF ResetTypeOK
  <2>2. TokensMade(n)' /\ PassCurrent(n)'
    BY <1>1, <1>2, <2>1 DEF Vouched, TokensMade, PassCurrent, NoReset, NoToken
  <2>3. resetemail[n].token # NoToken => resetemail[n].token # t
    BY <1>1 DEF Vouched, EmailCurrent
  <2>4. EmailCurrent(n)' /\ Confirmed(n)'
    BY <1>1, <1>2, <2>3 DEF Vouched, EmailCurrent, Confirmed
  <2> QED
    BY <2>2, <2>4 DEF Vouched
<1> QED
  BY <1>3, <1>5, <1>6 DEF ResetInv

\* s_user_resetemail CONFIRM: the token given back is the one the next row rests on.
LEMMA ConfirmStep ==
  ASSUME ResetInv, NEW n \in Registrants, NEW t \in 1 .. Len(mails), NEW a \in Addrs,
         NEW sent \in BOOLEAN, ResetEmailConfirm(n, t, a, sent)
  PROVE  ResetInv'
<1>1. /\ ResetTypeOK /\ Vouched(n) /\ acct[n].live /\ acct[n].reg # 0
      /\ SendToken("auth", n, a, sent) /\ Len(mails) < MaxMails
      /\ t = resetemail[n].token /\ t # NoToken /\ resetemail[n].email = NoAddr
  <2>1. ResetTypeOK /\ Vouched(n)
    BY Zenon DEF ResetInv
  <2>2. /\ acct[n].live /\ Matches(resetemail[n], t) /\ resetemail[n].email = NoAddr
        /\ SendToken("auth", n, a, sent)
    BY Zenon DEF ResetEmailConfirm
  <2>3. resetemail[n].valid /\ resetemail[n].token = t
    BY <2>2, Zenon DEF Matches
  <2>4. t # NoToken /\ acct[n].reg # 0
    BY <2>1, <2>2, <2>3, Zenon DEF Vouched, TokensMade
  <2>5. Len(mails) < MaxMails
    BY <2>2, Zenon DEF SendToken
  <2> QED
    BY <2>1, <2>2, <2>3, <2>4, <2>5, Zenon
<1>2. /\ mails' \in Seq(Mail) /\ Len(mails') = Len(mails) + 1
      /\ \A x \in 1 .. Len(mails) : mails'[x] = mails[x]
      /\ mails'[Len(mails) + 1] = [kind |-> "auth", name |-> n, reg |-> acct[n].reg,
                                   to |-> IF sent THEN a ELSE NoAddr]
  BY <1>1, OneMoreMail
<1>3. mails[t].name = n /\ mails[t].kind = "confirm" /\ mails[t].reg = acct[n].reg
  BY <1>1 DEF Vouched, EmailCurrent
<1>4. UNCHANGED <<acct, resetpass>>
  BY DEF ResetEmailConfirm
<1>5. MailsKept
  BY <1>1, <1>2 DEF MailsKept, ResetTypeOK
<1>6. CASE ~ sent
  <2>1. UNCHANGED <<resetemail, spent>>
    BY <1>6 DEF ResetEmailConfirm
  <2>2. ResetTypeOK'
    <3>1. spent \subseteq 1 .. Len(mails')
      BY <1>1, <1>2 DEF ResetTypeOK
    <3> QED
      BY <1>1, <1>2, <1>4, <2>1, <3>1 DEF ResetTypeOK
  <2>3. \A m \in Registrants : Vouched(m)'
    BY <1>4, <1>5, <2>1, Bystander
  <2> QED
    BY <2>2, <2>3 DEF ResetInv
<1>7. CASE sent
  <2>1. resetemail' = [resetemail EXCEPT ![n] = NewRow(a)] /\ spent' = spent \cup {t}
    BY <1>7 DEF ResetEmailConfirm
  <2>2. /\ NewRow(a) \in ResetRow /\ NewRow(a).token = Len(mails) + 1 /\ NewRow(a).email = a
        /\ Len(mails) \in Nat /\ Len(mails) + 1 # NoToken /\ Len(mails) + 1 \notin spent
    BY <1>1, NewRowMade
  <2>3. ResetTypeOK'
    <3>1. spent \subseteq 1 .. Len(mails)
      BY <1>1 DEF ResetTypeOK
    <3>2. 1 .. Len(mails) \subseteq 1 .. Len(mails')
      BY <1>2, <2>2
    <3>3. spent \cup {t} \subseteq 1 .. Len(mails')
      BY <3>1, <3>2
    <3> QED
      BY <1>1, <1>2, <1>4, <2>1, <2>2, <3>3 DEF ResetTypeOK
  <2>4. ASSUME NEW m \in Registrants, m # n PROVE Vouched(m)'
    <3>1. resetemail'[m] = resetemail[m]
      BY <1>1, <2>1, <2>4 DEF ResetTypeOK
    <3> QED
      BY <1>3, <1>4, <1>5, <2>1, <2>4, <3>1, Bystander
  <2>5. Vouched(n)'
    <3>1. resetemail'[n] = NewRow(a)
      BY <1>1, <2>1 DEF ResetTypeOK
    <3>a. TokensMade(n) /\ PassCurrent(n) /\ EmailCurrent(n)
      BY <1>1, Zenon DEF Vouched
    <3>2. TokensMade(n)'
      <4>1. resetpass[n].token \in 0 .. Len(mails) + 1 /\ Len(mails) + 1 \in 0 .. Len(mails) + 1
        BY <2>2, <3>a DEF TokensMade
      <4>2. /\ resetemail'[n].token = Len(mails) + 1 /\ Len(mails') = Len(mails) + 1
            /\ resetpass' = resetpass /\ acct' = acct
        BY <1>2, <1>4, <2>2, <3>1
      <4> QED
        BY <2>2, <3>a, <4>1, <4>2 DEF TokensMade
    <3>3. resetpass[n].token # NoToken =>
            resetpass[n].token # t /\ mails'[resetpass[n].token] = mails[resetpass[n].token]
      <4> SUFFICES ASSUME resetpass[n].token # NoToken
                   PROVE  resetpass[n].token # t /\ mails'[resetpass[n].token] = mails[resetpass[n].token]
        OBVIOUS
      <4>1. resetpass[n].token \in 1 .. Len(mails)
        BY <2>2, <3>a DEF TokensMade, NoToken
      <4>2. mails[resetpass[n].token].kind = "pass"
        BY <3>a DEF PassCurrent
      <4> QED
        BY <1>2, <1>3, <4>1, <4>2
    <3>4. PassCurrent(n)'
      <4>1. UNCHANGED <<acct, resetpass>> /\ spent' = spent \cup {t}
        BY <1>4, <2>1
      <4> QED
        BY <3>a, <3>3, <4>1 DEF PassCurrent
    <3>5. EmailCurrent(n)'
      <4>1. resetemail'[n].token = Len(mails) + 1 /\ resetemail'[n].email = a /\ a # NoAddr
        BY <2>2, <3>1, ResetAssumption
      <4>2. Len(mails) + 1 \notin spent' /\ acct' = acct
        BY <1>1, <1>4, <2>1, <2>2
      <4> QED
        BY <1>1, <1>2, <4>1, <4>2 DEF EmailCurrent
    <3>6. mails'[t] = mails[t] /\ t < Len(mails) + 1
      BY <1>2, <2>2
    <3>7. Confirmed(n)'
      BY <1>2, <1>3, <1>4, <1>7, <2>1, <2>2, <3>1, <3>6 DEF Confirmed
    <3> QED
      BY <3>2, <3>4, <3>5, <3>7 DEF Vouched
  <2> QED
    BY <2>3, <2>4, <2>5 DEF ResetInv
<1> QED
  BY <1>6, <1>7

\* s_user_resetemail AUTH.
LEMMA ResetEmailAuthStep ==
  ASSUME ResetInv, NEW n \in Registrants, NEW t \in 1 .. Len(mails), ResetEmailAuth(n, t)
  PROVE  ResetInv'
<1>1. /\ ResetTypeOK /\ Vouched(n) /\ t = resetemail[n].token /\ t # NoToken
      /\ mails[t].name = n /\ resetemail[n].email # NoAddr /\ mails[t].kind = "auth"
  BY DEF ResetInv, ResetEmailAuth, Matches, Vouched, EmailCurrent, NoToken
<1>2. /\ acct' = [acct EXCEPT ![n].email = resetemail[n].email]
      /\ resetemail' = [resetemail EXCEPT ![n] = NoReset] /\ spent' = spent \cup {t}
      /\ UNCHANGED <<resetpass, mails>>
  BY DEF ResetEmailAuth
<1>3. ResetTypeOK'
  BY <1>1, <1>2, NoResetRow, ZenonT(60) DEF ResetTypeOK, Acct, ResetRow
<1>4. MailsKept
  BY <1>1, <1>2 DEF MailsKept, ResetTypeOK
<1>5. \A m \in Registrants : acct'[m].live = acct[m].live /\ acct'[m].reg = acct[m].reg
  BY <1>1, <1>2 DEF ResetTypeOK, Acct
<1>6. ASSUME NEW m \in Registrants, m # n PROVE Vouched(m)'
  <2>1. resetemail'[m] = resetemail[m]
    BY <1>1, <1>2, <1>6 DEF ResetTypeOK
  <2> QED
    BY <1>1, <1>2, <1>4, <1>5, <1>6, <2>1, Bystander
<1>7. Vouched(n)'
  <2>1. resetemail'[n] = NoReset /\ Len(mails) \in Nat
    BY <1>1, <1>2 DEF ResetTypeOK
  <2>2. TokensMade(n)' /\ EmailCurrent(n)' /\ Confirmed(n)'
    BY <1>1, <1>2, <1>5, <2>1 DEF Vouched, TokensMade, EmailCurrent, Confirmed, NoReset, NoToken
  <2>3. resetpass[n].token # NoToken => resetpass[n].token # t
    BY <1>1 DEF Vouched, PassCurrent
  <2>4. PassCurrent(n)'
    BY <1>1, <1>2, <1>5, <2>3 DEF Vouched, PassCurrent
  <2> QED
    BY <2>2, <2>4 DEF Vouched
<1> QED
  BY <1>3, <1>6, <1>7 DEF ResetInv


-----------------------------------------------------------------------------

\* ResetInv is inductive.
LEMMA ResetStep == ResetInv /\ [ResetNext]_resetVars => ResetInv'
<1> SUFFICES ASSUME ResetInv, [ResetNext]_resetVars PROVE ResetInv'
  OBVIOUS
<1>1. CASE \E n \in Registrants : FreeOwner(n) \/ \E a \in Addrs : SetEmail(n, a)
  BY <1>1, FreeStep, SetEmailStep
<1>2. CASE \E n \in Registrants, a \in Addrs \cup {NoAddr} : RegisterOwner(n, a)
  BY <1>2, RegisterStep
<1>3. CASE e_user_expire_reset \/ \E n \in Registrants : Lapse(n)
  BY <1>3, LapseStep
<1>4. CASE \E n \in Registrants, sent \in BOOLEAN : ResetPass(n, sent) \/ ResetEmail(n, sent)
  BY <1>4, ResetPassStep, ResetEmailStep
<1>5. CASE \E n \in Registrants, t \in 1 .. Len(mails) : ResetPassAuth(n, t) \/ ResetEmailAuth(n, t)
  BY <1>5, ResetPassAuthStep, ResetEmailAuthStep
<1>6. CASE \E n \in Registrants, t \in 1 .. Len(mails), a \in Addrs, sent \in BOOLEAN :
             ResetEmailConfirm(n, t, a, sent)
  BY <1>6, ConfirmStep
<1>7. CASE UNCHANGED resetVars
  BY <1>7 DEF resetVars, ResetInv, ResetTypeOK, Vouched, TokensMade, PassCurrent, EmailCurrent, Confirmed
<1> QED
  BY <1>1, <1>2, <1>3, <1>4, <1>5, <1>6, <1>7 DEF ResetNext

\* A behaviour starts without accounts, rows and mails.
LEMMA ResetStart == ResetInit => ResetInv
<1> SUFFICES ASSUME ResetInit PROVE ResetInv
  OBVIOUS
<1>1. ResetTypeOK
  BY NoResetRow, ResetAssumption DEF ResetInit, ResetTypeOK, Acct
<1>2. ASSUME NEW n \in Registrants PROVE Vouched(n)
  BY DEF ResetInit, Vouched, TokensMade, PassCurrent, EmailCurrent, Confirmed, NoReset, NoToken
<1> QED
  BY <1>1, <1>2 DEF ResetInv

\* The invariant holds throughout.
LEMMA ResetAlways == ResetSpec => []ResetInv
BY ResetStart, ResetStep, PTL DEF ResetSpec

\* No token outlives the registration it was made for, or is good for anything twice.
THEOREM Tokens == ResetSpec => []TokensCurrent
BY ResetAlways, InvCurrent, PTL

\* RESETEMAIL changes an address only after both mails were read.
THEOREM AddressChanges == ResetSpec => AddressProven
<1> DEFINE Proven ==
      \A n \in Registrants :
        spent' # spent /\ acct'[n].email # acct[n].email =>
          \E t \in spent' \ spent, u \in spent :
            /\ u < t
            /\ mails[u].kind = "confirm" /\ mails[t].kind = "auth"
            /\ mails[t].to = acct'[n].email
            /\ \A x \in {t, u} : mails[x].name = n /\ mails[x].reg = acct[n].reg
<1>1. ResetInv /\ [ResetNext]_resetVars => [Proven]_resetVars
  <2> SUFFICES ASSUME ResetInv, ResetNext, NEW n \in Registrants,
                      spent' # spent, acct'[n].email # acct[n].email
               PROVE  \E t \in spent' \ spent, u \in spent :
                        /\ u < t
                        /\ mails[u].kind = "confirm" /\ mails[t].kind = "auth"
                        /\ mails[t].to = acct'[n].email
                        /\ \A x \in {t, u} : mails[x].name = n /\ mails[x].reg = acct[n].reg
    OBVIOUS
  <2>1. PICK m \in Registrants, t \in 1 .. Len(mails) : ResetEmailAuth(m, t)
    BY Zenon DEF ResetNext, RegisterOwner, FreeOwner, SetEmail, Lapse, e_user_expire_reset,
           ResetPass, ResetEmail, ResetPassAuth, ResetEmailConfirm
  <2>2. m = n /\ acct'[n].email = resetemail[n].email /\ spent' = spent \cup {t}
    BY <2>1 DEF ResetEmailAuth, ResetInv, ResetTypeOK, Acct
  <2>3. t = resetemail[n].token /\ t # NoToken /\ resetemail[n].email # NoAddr /\ Vouched(n)
    BY <2>1, <2>2 DEF ResetEmailAuth, Matches, ResetInv, NoToken
  <2>4. mails[t].kind = "auth" /\ mails[t].name = n /\ mails[t].reg = acct[n].reg /\ t \notin spent
    BY <2>3 DEF Vouched, EmailCurrent
  <2>5. mails[t].to = resetemail[n].email
    BY <2>3 DEF Vouched, Confirmed
  <2>6. PICK u \in spent : u < t /\ mails[u].kind = "confirm" /\ mails[u].name = n /\ mails[u].reg = acct[n].reg
    BY <2>3 DEF Vouched, Confirmed
  <2>7. t \in spent' \ spent
    BY <2>2, <2>4
  <2> QED
    BY <2>2, <2>4, <2>5, <2>6, <2>7
<1>2. ResetSpec => [][Proven]_resetVars
  BY <1>1, ResetAlways, PTL DEF ResetSpec
<1> QED
  BY <1>2 DEF AddressProven

-----------------------------------------------------------------------------
(* Access lists.                                                           *)

\* free_user_reg() is between unlinking the account and deleting its row.
Dropping == run.op \in {"userdrop", "userexpire"} /\ run.user # NoName

\* What the handlers' local variables say of the state.
RunInv ==
  /\ run.op = "idle" => run = Idle
  /\ run.todo \subseteq members
  /\ run.op \in {"idle", "register", "delauth"} => run.todo = {} /\ run.freeing = {}
  /\ run.op = "register" =>
       run.chan \in chans /\ run.user \in accounts /\ RowsOf(members, run.chan) = {}
  /\ Upgrade => \A x, y \in run.todo : x.chan = y.chan => x = y
  /\ ~Upgrade /\ run.todo # {} => run.todo = RowsOf(members, run.chan)
  /\ Dropping => /\ run.user \notin accounts
                 /\ \A m \in members : m.user = run.user => m \in run.todo
  /\ \A c \in run.freeing :
       run.freeing = {c} /\ RowsOf(members, c) = {} /\ c \notin db.dropowner

\* Rows are deleted before the structures are freed; nothing else is out of step.
Sync ==
  /\ db.members = members \ run.todo
  /\ db.chans = chans
  /\ db.csuspend = csuspend
  /\ db.accounts = IF Dropping THEN accounts \cup {run.user} ELSE accounts

MemInv ==
  /\ Keyed(members) /\ SingleOwner(members) /\ ActiveOwner(members)
  /\ \A m \in members : m.chan \in chans /\ m.user \in db.accounts
  /\ db.dropowner \subseteq chans

Good(t) ==
  Keyed(t.members) /\ SingleOwner(t.members) /\ ActiveOwner(t.members) /\ Referenced(t)

DiskInv == (InTransaction \/ disk = db) /\ Good(disk)

\* The inductive invariant of CrashSpec.
IInv == TypeOK /\ RunInv /\ Sync /\ MemInv /\ DiskInv

\* What holds besides when no crash cuts a handler short: a channel has its
\* owner except while it is being registered or taken apart.
Owned ==
  \A c \in chans :
    \/ c \in run.freeing
    \/ run.op = "register" /\ run.chan = c
    \/ ~Upgrade /\ run.chan = c /\ run.todo # {}
    \/ Owners(members, c) # {}

Core == TypeOK /\ RunInv /\ Sync /\ MemInv

\* What the core of the invariant says of the tables the connection sees.
LEMMA CoreGood == Core => Good(db)
BY DEF Core, Sync, MemInv, Good, Keyed, SingleOwner, ActiveOwner, Referenced

\* A step that keeps Core and either writes through or stays inside a
\* transaction keeps the whole invariant.
LEMMA DiskStep ==
  ASSUME IInv, Core', disk' = db' \/ (disk' = disk /\ InTransaction')
  PROVE  IInv'
<1>1. Good(db)'
  BY CoreGood, PTL
<1>2. Good(disk)'
  BY <1>1 DEF IInv, DiskInv, Good
<1>3. QED
  BY <1>2 DEF IInv, DiskInv, Core

\* An empty database and an idle daemon.
LEMMA InitIInv == Init => IInv
BY NoNameAssumption DEF Init, IInv, TypeOK, RunInv, Sync, MemInv, DiskInv, Good, Keyed, SingleOwner,
   ActiveOwner, Referenced, Tables, Run, Idle, Ops, Suspension, Upgrade, Dropping, InTransaction,
   RowsOf

\* UserRegister adds an account to memory and to the table at once.
LEMMA UserRegisterStep ==
  ASSUME IInv, NEW u \in Accounts, UserRegister(u)
  PROVE  IInv'
<1> USE DEF IInv, UserRegister, Exec
<1>1. TypeOK'
  BY DEF TypeOK, Tables, Idle, InTransaction
<1>2. RunInv'
  BY DEF RunInv, Idle, RowsOf, Upgrade, Dropping
<1>3. Sync'
  BY DEF Sync, Idle, Dropping, TypeOK, Tables
<1>4. MemInv'
  BY DEF MemInv, Keyed, SingleOwner, ActiveOwner, TypeOK, Tables
<1>5. QED
  BY <1>1, <1>2, <1>3, <1>4, DiskStep DEF Core, InTransaction, Idle

\* ChanRegister leaves the channel for its founder's row.
LEMMA ChanRegisterStep ==
  ASSUME IInv, NEW c \in Chans, NEW u \in Accounts, ChanRegister(c, u)
  PROVE  IInv'
<1> USE DEF IInv, ChanRegister, Exec
<1>1. TypeOK'
  BY Zenon DEF TypeOK, Tables, Idle, InTransaction, Suspension, Run, Ops
<1>2. RunInv'
  BY DEF RunInv, Idle, RowsOf, Upgrade, Dropping, MemInv
<1>3. Sync'
  BY Zenon DEF Sync, Idle, Dropping, TypeOK, Tables
<1>4. MemInv'
  BY DEF MemInv, Keyed, SingleOwner, ActiveOwner, TypeOK, Tables
<1>5. QED
  BY <1>1, <1>2, <1>3, <1>4, DiskStep DEF Core, InTransaction, Idle

\* The founder's row is the first of its channel.
LEMMA InsertOwnerStep ==
  ASSUME IInv, InsertOwner
  PROVE  IInv'
<1> USE DEF IInv
<1>p. PICK by \in {run.user, NoName} :
        LET m == [chan |-> run.chan, user |-> run.user, level |-> S_C_OWNER, suspend |-> 0,
                  lastmod |-> by]
        IN members' = members \cup {m} /\ Exec([db EXCEPT !.members = @ \cup {m}])
  BY DEF InsertOwner
<1> DEFINE new == [chan |-> run.chan, user |-> run.user, level |-> S_C_OWNER, suspend |-> 0,
                   lastmod |-> by]
<1>q. /\ members' = members \cup {new} /\ Exec([db EXCEPT !.members = @ \cup {new}])
      /\ run.op = "register" /\ run' = Idle /\ UNCHANGED <<accounts, chans, csuspend>>
  BY <1>p DEF InsertOwner
<1> USE <1>q DEF Exec
<1>0. /\ new \in Row /\ run.chan \in chans /\ run.user \in accounts
      /\ \A m \in members : m.chan # run.chan
      /\ run.todo = {} /\ run.freeing = {} /\ ~InTransaction
  BY DEF TypeOK, Row, S_C_OWNER, RunInv, RowsOf, InTransaction
<1>1. TypeOK'
  BY <1>0 DEF TypeOK, Tables, Idle, Run, Ops
<1>2. RunInv'
  BY DEF RunInv, Idle, Upgrade, Dropping
<1>3. Sync'
  BY <1>0 DEF Sync, Idle, Dropping, TypeOK, Tables
<1>4. MemInv'
  <2>1. Keyed(members') /\ SingleOwner(members') /\ ActiveOwner(members')
    BY <1>0 DEF MemInv, Keyed, SingleOwner, ActiveOwner
  <2>2. db'.accounts = db.accounts /\ db'.dropowner = db.dropowner
    BY DEF TypeOK, Tables
  <2>3. run.user \in db.accounts
    BY <1>0 DEF Sync
  <2>4. QED
    BY <1>0, <2>1, <2>2, <2>3 DEF MemInv
<1>5. QED
  BY <1>0, <1>1, <1>2, <1>3, <1>4, DiskStep DEF Core

\* The three handlers that only set or clear the suspension of a channel.
LEMMA SuspensionStep ==
  ASSUME IInv, NEW c \in Chans, NEW kind \in Suspension,
         csuspend' = [csuspend EXCEPT ![c] = kind],
         Exec([db EXCEPT !.csuspend[c] = kind]),
         UNCHANGED <<accounts, chans, members, run>>
  PROVE  IInv'
<1> USE DEF IInv, Exec
<1>1. TypeOK'
  BY DEF TypeOK, Tables, Suspension
<1>2. RunInv'
  BY DEF RunInv, RowsOf, Upgrade, Dropping, TypeOK, Tables
<1>3. Sync'
  BY DEF Sync, Dropping, TypeOK, Tables
<1>4. MemInv'
  BY DEF MemInv, Keyed, SingleOwner, ActiveOwner, TypeOK, Tables
<1>5. QED
  BY <1>1, <1>2, <1>3, <1>4, DiskStep DEF Core, InTransaction

\* The handlers that only touch the table of DELOWNER requests.
LEMMA DropownerStep ==
  ASSUME IInv, run = Idle, NEW S \in SUBSET chans,
         Exec([db EXCEPT !.dropowner = S]),
         run' \in Run, run'.op \in {"idle", "delauth"},
         run'.todo = {}, run'.freeing = {}, run'.op = "idle" => run' = Idle,
         UNCHANGED <<accounts, chans, csuspend, members>>
  PROVE  IInv'
<1> USE DEF IInv, Exec
<1>0. ~InTransaction /\ ~Dropping /\ ~InTransaction' /\ ~Dropping'
  BY DEF InTransaction, Dropping, Idle
<1>1. TypeOK'
  BY <1>0 DEF TypeOK, Tables, Idle, Run, Ops
<1>2. RunInv'
  BY <1>0 DEF RunInv
<1>3. Sync'
  BY <1>0, Zenon DEF Sync, TypeOK, Tables, Idle
<1>4. MemInv'
  BY DEF MemInv, Keyed, SingleOwner, ActiveOwner, TypeOK, Tables
<1>5. QED
  BY <1>0, <1>1, <1>2, <1>3, <1>4, DiskStep DEF Core

\* A transaction begins: the disk keeps what it has.
LEMMA StartExpiryStep ==
  ASSUME IInv, NEW op \in {"chanexpire", "userexpire"}, StartExpiry(op)
  PROVE  IInv'
<1> USE DEF IInv, StartExpiry
<1>0. /\ ~InTransaction /\ ~Dropping /\ InTransaction' /\ ~Dropping'
      /\ run'.todo = {} /\ run'.freeing = {} /\ run'.op = op
  BY DEF InTransaction, Dropping, Idle
<1>1. TypeOK'
  BY DEF TypeOK, Idle, Run, Ops
<1>2. RunInv'
  BY <1>0 DEF RunInv
<1>3. Sync'
  BY <1>0 DEF Sync, Idle
<1>4. MemInv'
  BY DEF MemInv, Keyed, SingleOwner, ActiveOwner
<1>5. QED
  BY <1>0, <1>1, <1>2, <1>3, <1>4 DEF DiskInv, Good, Referenced, Keyed, SingleOwner, ActiveOwner

\* UPDATE members replaces exactly the one row that the structure mirrors.
LEMMA UpdateRow ==
  ASSUME NEW S, Keyed(S), NEW old \in S, NEW new
  PROVE  {m \in S : m.chan # old.chan \/ m.user # old.user}
           \cup {new : m \in {x \in S : x.chan = old.chan /\ x.user = old.user}}
         = (S \ {old}) \cup {new}
BY DEF Keyed

\* Replacing a row by one for the same member that makes no new owner.
LEMMA UpdateStep ==
  ASSUME IInv, run = Idle, NEW old \in members, NEW new \in Row,
         new.chan = old.chan, new.user = old.user,
         new.level = S_C_OWNER => old.level = S_C_OWNER /\ new.suspend = 0,
         Update(old, new), UNCHANGED <<accounts, chans, csuspend, run>>
  PROVE  IInv'
<1> USE DEF IInv
<1>0. /\ ~InTransaction /\ ~Dropping /\ run.todo = {} /\ run.freeing = {} /\ Upgrade
      /\ db.members = members
  BY DEF InTransaction, Dropping, Idle, Upgrade, Sync
<1>1. members' = (members \ {old}) \cup {new}
  BY DEF Update
<1>2. db' = [db EXCEPT !.members = members'] /\ disk' = db'
  <2>1. {m \in db.members : m.chan # old.chan \/ m.user # old.user}
          \cup {new : m \in {x \in db.members : x.chan = old.chan /\ x.user = old.user}}
        = members'
    BY <1>0, <1>1, UpdateRow DEF MemInv
  <2>2. QED
    BY <1>0, <2>1, Zenon DEF Update, Exec
<1>3. TypeOK'
  BY <1>1, <1>2 DEF TypeOK, Tables
<1>4. RunInv'
  BY <1>0 DEF RunInv, Upgrade, Dropping, Idle
<1>5. Sync'
  BY <1>0, <1>2 DEF Sync, Dropping, TypeOK, Tables
<1>6. MemInv'
  <2>1. Keyed(members')
    BY <1>1 DEF MemInv, Keyed
  <2>2. SingleOwner(members')
    BY <1>1 DEF MemInv, SingleOwner
  <2>3. ActiveOwner(members')
    BY <1>1 DEF MemInv, ActiveOwner
  <2>4. db'.accounts = db.accounts /\ db'.dropowner = db.dropowner
    BY <1>2 DEF TypeOK, Tables
  <2>5. QED
    BY <1>1, <2>1, <2>2, <2>3, <2>4 DEF MemInv
<1>7. QED
  BY <1>2, <1>3, <1>4, <1>5, <1>6, DiskStep DEF Core

\* ADDUSER adds a row of its own, below the owner.
LEMMA AdduserStep ==
  ASSUME IInv, NEW c \in Chans, NEW u \in Accounts, NEW t \in Accounts,
         NEW level \in LevelArgs, s_chan_adduser(c, u, t, level)
  PROVE  IInv'
<1> USE DEF IInv
<1> DEFINE new == [chan |-> c, user |-> t, level |-> level, suspend |-> 0, lastmod |-> u]
<1>1. PICK actor \in verify_member_reg(c, u, S_C_USERLIST) :
        /\ t \in accounts
        /\ \A m \in RowsOf(members, c) : m.user # t
        /\ level >= 1 /\ level < actor.level
        /\ members' = members \cup {new}
        /\ Exec([db EXCEPT !.members = @ \cup {new}])
  BY DEF s_chan_adduser
<1>2. /\ c \in chans /\ actor \in Row
      /\ run = Idle /\ UNCHANGED <<accounts, chans, csuspend, run>>
      /\ \A m \in members : m.chan = c => m.user # t
  BY <1>1 DEF verify_member_reg, s_chan_adduser, RowsOf, TypeOK
<1>3. new \in Row /\ level # S_C_OWNER
  BY <1>1, <1>2, LevelArgsAssumption DEF Row, S_C_OWNER
<1>0. /\ ~InTransaction /\ ~Dropping /\ run.todo = {} /\ run.freeing = {} /\ Upgrade
  BY <1>2 DEF InTransaction, Dropping, Idle, Upgrade
<1>4. TypeOK'
  BY <1>0, <1>1, <1>2, <1>3 DEF TypeOK, Tables, Exec
<1>5. RunInv'
  BY <1>0, <1>2, Zenon DEF RunInv, Upgrade, Dropping, Idle
<1>6. Sync'
  BY <1>0, <1>1, <1>2 DEF Sync, Dropping, TypeOK, Tables, Exec
<1>7. MemInv'
  <2>1. Keyed(members')
    BY <1>1, <1>2 DEF MemInv, Keyed
  <2>2. SingleOwner(members')
    BY <1>1, <1>3 DEF MemInv, SingleOwner
  <2>3. ActiveOwner(members')
    BY <1>1, <1>3 DEF MemInv, ActiveOwner
  <2>4. db'.accounts = accounts /\ db'.dropowner = db.dropowner
    BY <1>0, <1>1 DEF TypeOK, Tables, Exec, Sync
  <2>5. QED
    BY <1>0, <1>1, <1>2, <2>1, <2>2, <2>3, <2>4 DEF MemInv, Sync
<1>8. QED
  BY <1>0, <1>1, <1>4, <1>5, <1>6, <1>7, DiskStep DEF Core, Exec

\* DELETE FROM members, before the structures go.
LEMMA StartFreeStep ==
  ASSUME IInv, NEW op \in Ops \ {"idle", "register", "delauth"},
         NEW c \in Chans \cup {NoName}, NEW u \in Accounts \cup {NoName},
         NEW gone \in SUBSET members, StartFree(op, c, u, gone),
         WalkDone, run.op # "register", ~Dropping,
         InTransaction' <=> InTransaction,
         op \notin {"chandrop", "chanexpire"} =>
            \A x, y \in gone : x.chan = y.chan => x = y,
         op \in {"chandrop", "chanexpire"} => gone = RowsOf(members, c),
         op \notin {"userdrop", "userexpire"} => accounts' = accounts,
         op \in {"userdrop", "userexpire"} =>
            u # NoName /\ u \in accounts /\ accounts' = accounts \ {u}
              /\ gone = {m \in members : m.user = u}
  PROVE  IInv'
<1> USE DEF IInv
<1>0. run' = [op |-> op, chan |-> c, user |-> u, todo |-> gone, freeing |-> {}]
  BY DEF StartFree
<1>1. /\ db' = [db EXCEPT !.members = @ \ gone]
      /\ disk' = IF InTransaction THEN disk ELSE db'
      /\ UNCHANGED <<chans, csuspend, members>>
      /\ db.members = members /\ db.accounts = accounts
  BY DEF StartFree, Exec, WalkDone, Sync
<1>2. TypeOK'
  BY <1>0, <1>1 DEF TypeOK, Tables, Run
<1>3. RunInv'
  BY <1>0, <1>1 DEF RunInv, Upgrade, Dropping, RowsOf
<1>4. Sync'
  <2>1. db'.accounts = accounts /\ db'.chans = chans /\ db'.csuspend = csuspend
          /\ db'.members = members \ gone
    BY <1>1 DEF TypeOK, Tables, Sync
  <2>2. CASE op \notin {"userdrop", "userexpire"}
    BY <1>0, <1>1, <2>1, <2>2 DEF Sync, Dropping
  <2>3. CASE op \in {"userdrop", "userexpire"}
    <3>1. Dropping' /\ run'.user = u /\ run'.todo = gone
      BY <1>0, <2>3 DEF Dropping
    <3>2. accounts' \cup {u} = accounts
      BY <2>3
    <3>3. QED
      BY <1>1, <2>1, <3>1, <3>2 DEF Sync
  <2>4. QED
    BY <2>2, <2>3
<1>5. MemInv'
  BY <1>1 DEF MemInv, TypeOK, Tables
<1>6. QED
  BY <1>1, <1>2, <1>3, <1>4, <1>5, DiskStep DEF Core

\* A promoted member_reg is the same member's.
LEMMA PromotedRow ==
  ASSUME NEW p \in Row
  PROVE  LET q == [p EXCEPT !.level = S_C_OWNER, !.suspend = 0, !.lastmod = NoName]
         IN q \in Row /\ q.chan = p.chan /\ q.user = p.user
              /\ q.level = S_C_OWNER /\ q.suspend = 0
<1>1. S_C_OWNER \in 1 .. S_C_OWNER /\ 0 \in 0 .. S_C_OWNER
  BY DEF S_C_OWNER
<1>2. QED
  BY <1>1, ZenonT(60) DEF Row

\* free_member_reg() when the structure just goes: in the last two cases
\* below nothing else happens to the access list.
LEMMA FreeMemberStep ==
  ASSUME IInv, NEW r \in run.todo, FreeMember(r)
  PROVE  IInv'
<1> USE DEF IInv
<1> DEFINE rest == RowsOf(members, r.chan) \ {r}
<1>0. /\ r \in members /\ r \in Row /\ run.freeing = {}
      /\ run.op \notin {"idle", "register", "delauth"}
      /\ UNCHANGED <<accounts, chans, csuspend>>
  BY Zenon DEF FreeMember, Walking, RunInv, TypeOK
<1>1. ASSUME members' = members \ {r}, NEW F \in SUBSET {r.chan}, F # {} => rest = {},
             run' = [run EXCEPT !.todo = @ \ {r}, !.freeing = F],
             db' = [db EXCEPT !.dropowner = @ \ F],
             disk' = IF InTransaction THEN disk ELSE db'
      PROVE  IInv'
  <2> USE <1>0, <1>1
  <2>1. /\ run'.op = run.op /\ run'.user = run.user /\ run'.chan = run.chan
        /\ run'.todo = run.todo \ {r} /\ run'.freeing = F
        /\ Dropping' = Dropping /\ Upgrade' = Upgrade /\ InTransaction' = InTransaction
    BY DEF TypeOK, Run, Dropping, Upgrade, InTransaction
  <2>2. /\ db'.members = db.members /\ db'.chans = db.chans /\ db'.accounts = db.accounts
        /\ db'.csuspend = db.csuspend /\ db'.dropowner = db.dropowner \ F
    BY DEF TypeOK, Tables
  <2>3. TypeOK'
    BY Zenon DEF TypeOK, Tables, Run, Row
  <2>4. RunInv'
    BY <2>1, <2>2 DEF RunInv, RowsOf
  <2>5. Sync'
    BY <2>1, <2>2 DEF Sync
  <2>6. MemInv'
    BY <2>2 DEF MemInv, Keyed, SingleOwner, ActiveOwner
  <2>7. QED
    BY <2>1, <2>3, <2>4, <2>5, <2>6, DiskStep DEF Core
<1>2. CASE /\ rest = {}
           /\ members' = members \ {r}
           /\ Exec([db EXCEPT !.dropowner = @ \ {r.chan}])
           /\ run' = [run EXCEPT !.todo = @ \ {r}, !.freeing = {r.chan}]
  BY <1>1, <1>2, Zenon DEF Exec
<1>3. CASE /\ members' = members \ {r}
           /\ run' = [run EXCEPT !.todo = @ \ {r}]
           /\ UNCHANGED <<db, disk>>
  <2>1. run' = [run EXCEPT !.todo = @ \ {r}, !.freeing = {}]
    BY <1>0, <1>3, Zenon DEF TypeOK, Run
  <2>2. db' = [db EXCEPT !.dropowner = @ \ {}]
    BY <1>3 DEF TypeOK, Tables
  <2>3. disk' = IF InTransaction THEN disk ELSE db'
    BY <1>3 DEF DiskInv
  <2>4. QED
    BY <1>1, <1>3, <2>1, <2>2, <2>3, Zenon
<1>4. ASSUME NEW p \in Highest(rest), r.level = S_C_OWNER, Upgrade,
             members' = (members \ {r, p})
                          \cup {[p EXCEPT !.level = S_C_OWNER, !.suspend = 0, !.lastmod = NoName]},
             Exec([db EXCEPT !.members =
                     {m \in @ : m.chan # p.chan \/ m.user # p.user}
                       \cup {[p EXCEPT !.level = S_C_OWNER, !.suspend = 0, !.lastmod = NoName] :
                               m \in {x \in @ : x.chan = p.chan /\ x.user = p.user}}]),
             run' = [run EXCEPT !.todo = @ \ {r}]
      PROVE  IInv'
  <2> DEFINE q == [p EXCEPT !.level = S_C_OWNER, !.suspend = 0, !.lastmod = NoName]
  <2>1. p \in members /\ p # r /\ p.chan = r.chan /\ p \in Row
    BY <1>0 DEF Highest, RowsOf, TypeOK
  <2>2. q \in Row /\ q.chan = p.chan /\ q.user = p.user /\ q.level = S_C_OWNER /\ q.suspend = 0
    BY <2>1, PromotedRow, Zenon
  <2>3. p \notin run.todo /\ p.user # r.user
    BY <1>0, <1>4, <2>1 DEF RunInv, MemInv, Keyed
  <2> HIDE DEF q
  <2>4. db.members = members \ run.todo /\ Keyed(db.members) /\ p \in db.members
    BY <2>1, <2>3 DEF Sync, MemInv, Keyed
  <2>5. members' = (members \ {r, p}) \cup {q}
    BY <1>4 DEF q
  <2>6. /\ db' = [db EXCEPT !.members = (db.members \ {p}) \cup {q}]
        /\ disk' = IF InTransaction THEN disk ELSE db'
    <3>1. {m \in db.members : m.chan # p.chan \/ m.user # p.user}
            \cup {q : m \in {x \in db.members : x.chan = p.chan /\ x.user = p.user}}
          = (db.members \ {p}) \cup {q}
      BY <2>4, UpdateRow
    <3>2. QED
      BY <1>4, <3>1, Zenon DEF Exec, q
  <2>7. /\ run'.op = run.op /\ run'.user = run.user /\ run'.chan = run.chan
        /\ run'.todo = run.todo \ {r} /\ run'.freeing = {}
        /\ Dropping' = Dropping /\ Upgrade' = Upgrade /\ InTransaction' = InTransaction
    BY <1>0, <1>4 DEF TypeOK, Run, Dropping, Upgrade, InTransaction
  <2>8. /\ db'.members = (db.members \ {p}) \cup {q} /\ db'.chans = db.chans
        /\ db'.accounts = db.accounts
        /\ db'.csuspend = db.csuspend /\ db'.dropowner = db.dropowner
    BY <2>6 DEF TypeOK, Tables
  <2>9. TypeOK'
    BY <1>0, <1>4, <2>2, <2>5, <2>6 DEF TypeOK, Tables, Run
  <2>10. q \notin run.todo
    BY <2>1, <2>2, <2>3 DEF RunInv, MemInv, Keyed
  <2>11. RunInv'
    BY <1>0, <1>4, <2>1, <2>2, <2>3, <2>5, <2>7 DEF RunInv
  <2>12. Sync'
    <3>1. db'.members = members' \ run'.todo
      BY <2>3, <2>4, <2>5, <2>7, <2>8, <2>10
    <3>2. QED
      BY <1>0, <2>7, <2>8, <3>1 DEF Sync
  <2>13. MemInv'
    <3>1. Keyed(members')
      BY <2>1, <2>2, <2>5 DEF MemInv, Keyed
    <3>2. SingleOwner(members')
      BY <1>0, <1>4, <2>1, <2>2, <2>5 DEF MemInv, SingleOwner
    <3>3. ActiveOwner(members')
      BY <2>2, <2>5 DEF MemInv, ActiveOwner
    <3>4. QED
      BY <1>0, <2>1, <2>2, <2>5, <2>8, <3>1, <3>2, <3>3 DEF MemInv
  <2>14. QED
    BY <2>6, <2>7, <2>9, <2>11, <2>12, <2>13, DiskStep DEF Core
<1>5. QED
  BY <1>2, <1>3, <1>4, Zenon DEF FreeMember

\* free_channel_reg() deletes the channel after all that refers to it.
LEMMA FreeChannelStep ==
  ASSUME IInv, NEW c \in Chans, FreeChannel(c)
  PROVE  IInv'
<1> USE DEF IInv, FreeChannel, Exec
<1>0. /\ run'.op = run.op /\ run'.user = run.user /\ run'.chan = run.chan
      /\ run'.todo = run.todo /\ run'.freeing = {} /\ run.op \notin {"idle", "register", "delauth"}
      /\ Dropping' = Dropping /\ Upgrade' = Upgrade /\ InTransaction' = InTransaction
      /\ \A m \in members : m.chan # c
      /\ c \notin db.dropowner
  BY DEF TypeOK, Run, Dropping, Upgrade, InTransaction, RunInv, RowsOf
<1>1. /\ db'.members = db.members /\ db'.chans = chans' /\ db'.accounts = db.accounts
      /\ db'.csuspend = csuspend' /\ db'.dropowner = db.dropowner
  BY Zenon DEF TypeOK, Tables, Sync
<1>2. TypeOK'
  BY Zenon DEF TypeOK, Tables, Run, Suspension
<1>3. RunInv'
  BY <1>0, <1>1 DEF RunInv, RowsOf
<1>4. Sync'
  BY <1>0, <1>1 DEF Sync
<1>5. MemInv'
  BY <1>0, <1>1 DEF MemInv, Keyed, SingleOwner, ActiveOwner
<1>6. QED
  BY <1>0, <1>2, <1>3, <1>4, <1>5, DiskStep DEF Core

\* free_user_reg() deletes the account after all that refers to it.
LEMMA FreeUserStep ==
  ASSUME IInv, FreeUser
  PROVE  IInv'
<1> USE DEF IInv, FreeUser, Exec
<1>0. /\ Dropping /\ ~Dropping' /\ run'.todo = {} /\ run'.freeing = {}
      /\ run.todo = {} /\ run'.op \in {"idle", "userexpire"}
      /\ run'.op = "idle" => run' = Idle
      /\ InTransaction' = InTransaction
      /\ \A m \in members : m.user # run.user
      /\ db.accounts = accounts \cup {run.user} /\ run.user \notin accounts
  BY DEF Dropping, Idle, WalkDone, InTransaction, RunInv, Sync
<1>1. /\ db'.members = db.members /\ db'.chans = db.chans /\ db'.accounts = accounts
      /\ db'.csuspend = db.csuspend /\ db'.dropowner = db.dropowner
  BY <1>0 DEF TypeOK, Tables
<1>2. TypeOK'
  BY DEF TypeOK, Tables, Run, Idle, Ops
<1>3. RunInv'
  BY <1>0 DEF RunInv
<1>4. Sync'
  BY <1>0, <1>1 DEF Sync
<1>5. MemInv'
  BY <1>0, <1>1 DEF MemInv, Keyed, SingleOwner, ActiveOwner
<1>6. QED
  BY <1>0, <1>2, <1>3, <1>4, <1>5, DiskStep DEF Core

\* A handler returns, or the expiry events commit.
LEMMA EndStep ==
  ASSUME IInv, Return \/ Commit
  PROVE  IInv'
<1> USE DEF IInv
<1>0. /\ ~Dropping /\ ~Dropping' /\ run.todo = {} /\ run' = Idle /\ disk' = db
      /\ UNCHANGED <<accounts, chans, csuspend, members, db>>
  BY DEF Return, Commit, Dropping, Idle, WalkDone, DiskInv, InTransaction
<1>2. TypeOK'
  BY <1>0 DEF TypeOK, Run, Idle, Ops
<1>3. RunInv'
  BY <1>0 DEF RunInv, Idle
<1>4. Sync'
  BY <1>0 DEF Sync, Idle
<1>5. MemInv'
  BY <1>0 DEF MemInv
<1>6. QED
  BY <1>0, <1>2, <1>3, <1>4, <1>5, DiskStep DEF Core

\* What is on disk is good, so what is loaded from it is.
LEMMA CrashStep ==
  ASSUME IInv, Crash
  PROVE  IInv'
<1> USE DEF IInv
<1>0. /\ members' = disk.members /\ db' = disk /\ disk' = disk /\ run' = Idle
      /\ accounts' = disk.accounts /\ chans' = disk.chans /\ csuspend' = disk.csuspend
  BY DEF Crash, DiskInv, Good, Referenced
<1>1. ~Dropping' /\ ~InTransaction'
  BY <1>0 DEF Dropping, InTransaction, Idle
<1>2. TypeOK'
  BY <1>0 DEF TypeOK, Run, Idle, Ops, Tables
<1>3. RunInv'
  BY <1>0, <1>1 DEF RunInv, Idle
<1>4. Sync'
  BY <1>0, <1>1 DEF Sync, Idle
<1>5. MemInv'
  BY <1>0 DEF MemInv, DiskInv, Good, Referenced
<1>6. QED
  BY <1>0, <1>2, <1>3, <1>4, <1>5, DiskStep DEF Core

\* Whoever passes verify_member_reg() is a row of the access list.
LEMMA Verified ==
  ASSUME IInv, NEW c, NEW u, NEW level, NEW a \in verify_member_reg(c, u, level)
  PROVE  /\ a \in members /\ a \in Row /\ a.chan = c /\ a.user = u
         /\ c \in chans /\ u \in accounts /\ a.level >= level
BY DEF verify_member_reg, RowsOf, IInv, TypeOK

\* MODUSER and SUSPEND change a row below the owner.
LEMMA MemberCommandStep ==
  ASSUME IInv, NEW c \in Chans, NEW u \in Accounts, NEW t \in Accounts, NEW level \in LevelArgs,
         s_chan_moduser(c, u, t, level) \/ s_chan_suspend(c, u, t, level)
  PROVE  IInv'
<1>1. CASE s_chan_moduser(c, u, t, level)
  <2>1. PICK a \in verify_member_reg(c, u, S_C_USERLIST), m \in RowsOf(members, c) :
          /\ level >= 1 /\ level < a.level
          /\ Update(m, [m EXCEPT !.level = level, !.lastmod = u])
    BY <1>1, Zenon DEF s_chan_moduser
  <2>2. m \in members /\ m \in Row /\ a \in Row
    BY <2>1, Verified DEF RowsOf, IInv, TypeOK
  <2>3. level \in 1 .. S_C_OWNER /\ level # S_C_OWNER
    BY <2>1, <2>2, LevelArgsAssumption DEF Row, S_C_OWNER
  <2>4. /\ [m EXCEPT !.level = level, !.lastmod = u] \in Row
        /\ [m EXCEPT !.level = level, !.lastmod = u].chan = m.chan /\ [m EXCEPT !.level = level, !.lastmod = u].user = m.user
        /\ [m EXCEPT !.level = level, !.lastmod = u].level = level
    BY <2>2, <2>3, ZenonT(60) DEF Row
  <2>5. QED
    BY <1>1, <2>1, <2>2, <2>3, <2>4, UpdateStep, ZenonT(60) DEF s_chan_moduser
<1>2. CASE s_chan_suspend(c, u, t, level)
  <2>1. PICK a \in verify_member_reg(c, u, S_C_SUSPEND), m \in RowsOf(members, c) :
          /\ a.level > m.level /\ level >= 1 /\ level <= a.level
          /\ Update(m, [m EXCEPT !.suspend = level, !.lastmod = u])
    BY <1>2, Zenon DEF s_chan_suspend
  <2>2. m \in members /\ m \in Row /\ a \in Row
    BY <2>1, Verified DEF RowsOf, IInv, TypeOK
  <2>3. level \in 0 .. S_C_OWNER /\ m.level # S_C_OWNER
    BY <2>1, <2>2, LevelArgsAssumption DEF Row, S_C_OWNER
  <2>4. /\ [m EXCEPT !.suspend = level, !.lastmod = u] \in Row
        /\ [m EXCEPT !.suspend = level, !.lastmod = u].chan = m.chan /\ [m EXCEPT !.suspend = level, !.lastmod = u].user = m.user
        /\ [m EXCEPT !.suspend = level, !.lastmod = u].level = m.level
    BY <2>2, <2>3, Zenon DEF Row
  <2>5. QED
    BY <1>2, <2>1, <2>2, <2>3, <2>4, UpdateStep, Zenon DEF s_chan_suspend
<1>3. QED
  BY <1>1, <1>2, SMTT(60)

\* UNSUSPEND may also find the owner, who stays the owner.
LEMMA UnsuspendStep ==
  ASSUME IInv, NEW c \in Chans, NEW u \in Accounts, NEW t \in Accounts, s_chan_unsuspend(c, u, t)
  PROVE  IInv'
<1>1. PICK m \in RowsOf(members, c) : Update(m, [m EXCEPT !.suspend = 0, !.lastmod = u])
  BY Zenon DEF s_chan_unsuspend
<1>2. m \in members /\ m \in Row
  BY <1>1 DEF RowsOf, IInv, TypeOK
<1>3. 0 \in 0 .. S_C_OWNER
  BY DEF S_C_OWNER
<1>4. /\ [m EXCEPT !.suspend = 0, !.lastmod = u] \in Row
      /\ [m EXCEPT !.suspend = 0, !.lastmod = u].chan = m.chan /\ [m EXCEPT !.suspend = 0, !.lastmod = u].user = m.user
      /\ [m EXCEPT !.suspend = 0, !.lastmod = u].level = m.level /\ [m EXCEPT !.suspend = 0, !.lastmod = u].suspend = 0
  BY <1>2, <1>3, Zenon DEF Row
<1>5. QED
  BY <1>1, <1>2, <1>4, UpdateStep, Zenon DEF s_chan_unsuspend

\* The handlers that remove: each meets the conditions of StartFreeStep.
LEMMA DeluserStep ==
  ASSUME IInv, NEW c \in Chans, NEW u \in Accounts, NEW t \in Accounts,
         s_chan_deluser(c, u, t) \/ s_chan_delowner(c, u)
  PROVE  IInv'
<1>1. PICK m \in members : StartFree("deluser", c, u, {m})
  BY Verified, Zenon DEF s_chan_deluser, s_chan_delowner, RowsOf
<1>2. run = Idle /\ accounts' = accounts
  BY DEF s_chan_deluser, s_chan_delowner
<1>3. WalkDone /\ ~Dropping /\ run.op # "register" /\ ~InTransaction /\ ~InTransaction'
  BY <1>1, <1>2 DEF WalkDone, Dropping, Idle, InTransaction, StartFree
<1>4. QED
  BY <1>1, <1>2, <1>3, StartFreeStep DEF Ops

\* The confirmed DELOWNER removes the one row.
LEMMA DelownerConfirmedStep ==
  ASSUME IInv, DelownerConfirmed
  PROVE  IInv'
<1> DEFINE gone == {m \in RowsOf(members, run.chan) : m.user = run.user}
<1>1. /\ WalkDone /\ ~Dropping /\ run.op # "register" /\ ~InTransaction /\ ~InTransaction'
      /\ accounts' = accounts
  BY DEF WalkDone, Dropping, InTransaction, StartFree, RunInv, DelownerConfirmed, IInv
<1>2. run.chan \in Chans \cup {NoName} /\ run.user \in Accounts \cup {NoName}
  BY DEF TypeOK, Run, IInv
<1>3. gone \subseteq members /\ \A x, y \in gone : x.chan = y.chan => x = y
  BY DEF RowsOf, Keyed, IInv, MemInv
<1>4. StartFree("deluser", run.chan, run.user, gone)
  BY DEF DelownerConfirmed
<1> HIDE DEF gone
<1>5. QED
  BY <1>1, <1>2, <1>3, <1>4, StartFreeStep DEF Ops

\* CHANDROP and the expiry of a channel take all its rows.
LEMMA ChannelRemovalStep ==
  ASSUME IInv, NEW c \in Chans, o_chan_chandrop(c) \/ ExpireChan(c)
  PROVE  IInv'
<1>1. RowsOf(members, c) \subseteq members
  BY DEF RowsOf
<1>2. CASE o_chan_chandrop(c)
  <2>1. StartFree("chandrop", c, NoName, RowsOf(members, c)) /\ accounts' = accounts /\ run = Idle
    BY <1>2 DEF o_chan_chandrop
  <2>2. WalkDone /\ ~Dropping /\ run.op # "register" /\ (InTransaction' <=> InTransaction)
    BY <2>1 DEF WalkDone, Dropping, Idle, InTransaction, StartFree
  <2>3. QED
    BY <1>1, <2>1, <2>2, StartFreeStep DEF Ops
<1>3. CASE ExpireChan(c)
  <2>1. StartFree("chanexpire", c, NoName, RowsOf(members, c)) /\ accounts' = accounts
          /\ run.op = "chanexpire" /\ WalkDone
    BY <1>3 DEF ExpireChan
  <2>2. ~Dropping /\ (InTransaction' <=> InTransaction)
    BY <2>1 DEF Dropping, InTransaction, StartFree
  <2>3. QED
    BY <1>1, <2>1, <2>2, StartFreeStep DEF Ops
<1>4. QED
  BY <1>2, <1>3

\* USERDROP and the expiry of an account take all its rows.
LEMMA UserRemovalStep ==
  ASSUME IInv, NEW u \in Accounts, o_user_userdrop(u) \/ ExpireUser(u)
  PROVE  IInv'
<1> DEFINE gone == {m \in members : m.user = u}
<1>1. gone \subseteq members /\ (\A x, y \in gone : x.chan = y.chan => x = y) /\ u # NoName
  BY NoNameAssumption DEF Keyed, IInv, MemInv
<1>2. CASE o_user_userdrop(u)
  <2>1. StartFree("userdrop", NoName, u, gone) /\ accounts' = accounts \ {u} /\ u \in accounts
          /\ run = Idle
    BY <1>2 DEF o_user_userdrop
  <2>2. WalkDone /\ ~Dropping /\ run.op # "register" /\ (InTransaction' <=> InTransaction)
    BY <2>1 DEF WalkDone, Dropping, Idle, InTransaction, StartFree
  <2>3. QED
    BY <1>1, <2>1, <2>2, StartFreeStep DEF Ops
<1>3. CASE ExpireUser(u)
  <2>1. StartFree("userexpire", NoName, u, gone) /\ accounts' = accounts \ {u} /\ u \in accounts
          /\ run.op = "userexpire" /\ WalkDone /\ run.user = NoName
    BY <1>3 DEF ExpireUser
  <2>2. ~Dropping /\ (InTransaction' <=> InTransaction)
    BY <2>1 DEF Dropping, InTransaction, StartFree
  <2>3. QED
    BY <1>1, <2>1, <2>2, StartFreeStep DEF Ops
<1>4. QED
  BY <1>2, <1>3

\* DELOWNER's requests and confirmations touch channels_dropowner only.
LEMMA RequestStep ==
  ASSUME IInv, NEW c \in Chans, NEW u \in Accounts, DelownerRequest(c, u) \/ DelownerAuth(c, u)
  PROVE  IInv'
<1>0. run \in Run /\ db.dropowner \subseteq chans
  BY DEF IInv, TypeOK, MemInv
<1>1. CASE DelownerRequest(c, u)
  <2>1. c \in chans
    BY <1>1, Verified DEF DelownerRequest
  <2>2. db.dropowner \cup {c} \in SUBSET chans
    BY <1>0, <2>1
  <2>3. QED
    BY <1>0, <1>1, <2>2, DropownerStep, Zenon DEF DelownerRequest, Idle
<1>2. CASE DelownerAuth(c, u)
  <2>1. /\ run' \in Run /\ run'.op = "delauth" /\ run'.todo = {} /\ run'.freeing = {}
    BY <1>2, Zenon DEF DelownerAuth, Idle, Run, Ops
  <2>2. db.dropowner \ {c} \in SUBSET chans
    BY <1>0
  <2>3. QED
    BY <1>2, <2>1, <2>2, DropownerStep DEF DelownerAuth
<1>3. QED
  BY <1>1, <1>2

\* Requests expire.
LEMMA ExpireDelownerStep ==
  ASSUME IInv, NEW S \in SUBSET Chans, ExpireDelowner(S)
  PROVE  IInv'
<1>1. run \in Run /\ db.dropowner \ S \in SUBSET chans
  BY DEF IInv, TypeOK, MemInv
<1>2. QED
  BY <1>1, DropownerStep DEF ExpireDelowner, Idle

\* CHANSUSPEND changes the channel only.
LEMMA SuspendStep ==
  ASSUME IInv, NEW c \in Chans, NEW kind \in {"perm", "temp"}, o_chan_chansuspend(c, kind)
  PROVE  IInv'
<1>1. kind \in Suspension
  BY DEF Suspension
<1>2. QED
  BY <1>1, SuspensionStep, Zenon DEF o_chan_chansuspend

\* CHANUNSUSPEND and the expiry of a suspension do too.
LEMMA LiftStep ==
  ASSUME IInv, NEW c \in Chans, o_chan_chanunsuspend(c) \/ ExpireChanSuspend(c)
  PROVE  IInv'
<1>1. "off" \in Suspension
  BY DEF Suspension
<1>2. QED
  BY <1>1, SuspensionStep DEF o_chan_chanunsuspend, ExpireChanSuspend

\* Nothing happens.
LEMMA StutterStep ==
  ASSUME IInv, UNCHANGED vars
  PROVE  IInv'
BY ZenonT(30) DEF vars, IInv, TypeOK, RunInv, Sync, MemInv, DiskInv, Good, InTransaction, Upgrade, Dropping

\* Every step of the daemon, a crash included, keeps the invariant.
LEMMA NextStep ==
  ASSUME IInv, [Next \/ Crash]_vars
  PROVE  IInv'
<1>1. CASE Command
  <2> USE <1>1 DEF Command
  <2>1. ASSUME NEW u \in Accounts, UserRegister(u) PROVE IInv'
    BY <2>1, UserRegisterStep
  <2>2. ASSUME NEW u \in Accounts, o_user_userdrop(u) PROVE IInv'
    BY <2>2, UserRemovalStep
  <2>3. ASSUME NEW c \in Chans, NEW u \in Accounts, ChanRegister(c, u) PROVE IInv'
    BY <2>3, ChanRegisterStep
  <2>4. ASSUME NEW c \in Chans, NEW u \in Accounts, s_chan_delowner(c, u) PROVE IInv'
    BY <2>4, DeluserStep
  <2>5. ASSUME NEW c \in Chans, NEW u \in Accounts, DelownerRequest(c, u) \/ DelownerAuth(c, u)
        PROVE  IInv'
    BY <2>5, RequestStep
  <2>6. ASSUME NEW c \in Chans, NEW u \in Accounts, NEW t \in Accounts, s_chan_unsuspend(c, u, t)
        PROVE  IInv'
    BY <2>6, UnsuspendStep
  <2>7. ASSUME NEW c \in Chans, NEW u \in Accounts, NEW t \in Accounts, s_chan_deluser(c, u, t)
        PROVE  IInv'
    BY <2>7, DeluserStep
  <2>8. ASSUME NEW c \in Chans, NEW u \in Accounts, NEW t \in Accounts, NEW level \in LevelArgs,
               s_chan_adduser(c, u, t, level)
        PROVE  IInv'
    BY <2>8, AdduserStep
  <2>9. ASSUME NEW c \in Chans, NEW u \in Accounts, NEW t \in Accounts, NEW level \in LevelArgs,
               s_chan_moduser(c, u, t, level) \/ s_chan_suspend(c, u, t, level)
        PROVE  IInv'
    BY <2>9, MemberCommandStep
  <2>10. ASSUME NEW c \in Chans, o_chan_chandrop(c) PROVE IInv'
    BY <2>10, ChannelRemovalStep
  <2>11. ASSUME NEW c \in Chans, o_chan_chanunsuspend(c) PROVE IInv'
    BY <2>11, LiftStep
  <2>12. ASSUME NEW c \in Chans, NEW kind \in {"perm", "temp"}, o_chan_chansuspend(c, kind)
         PROVE  IInv'
    BY <2>12, SuspendStep
  <2>13. QED
    BY <2>1, <2>2, <2>3, <2>4, <2>5, <2>6, <2>7, <2>8, <2>9, <2>10, <2>11, <2>12
<1>2. CASE Event
  <2>1. ASSUME NEW op \in {"chanexpire", "userexpire"}, StartExpiry(op) PROVE IInv'
    BY <2>1, StartExpiryStep
  <2>2. ASSUME NEW c \in Chans, ExpireChan(c) PROVE IInv'
    BY <2>2, ChannelRemovalStep
  <2>3. ASSUME NEW c \in Chans, ExpireChanSuspend(c) PROVE IInv'
    BY <2>3, LiftStep
  <2>4. ASSUME NEW u \in Accounts, ExpireUser(u) PROVE IInv'
    BY <2>4, UserRemovalStep
  <2>5. ASSUME NEW S \in SUBSET Chans, ExpireDelowner(S) PROVE IInv'
    BY <2>5, ExpireDelownerStep
  <2>6. QED
    BY <1>2, <2>1, <2>2, <2>3, <2>4, <2>5 DEF Event
<1>3. CASE Continue
  <2>1. ASSUME NEW r \in run.todo, FreeMember(r) PROVE IInv'
    BY <2>1, FreeMemberStep
  <2>2. ASSUME NEW c \in Chans, FreeChannel(c) PROVE IInv'
    BY <2>2, FreeChannelStep
  <2>3. QED
    BY <1>3, <2>1, <2>2, InsertOwnerStep, DelownerConfirmedStep, FreeUserStep, EndStep DEF Continue
<1>4. CASE Crash
  BY <1>4, CrashStep
<1>5. CASE UNCHANGED vars
  BY <1>5, StutterStep
<1>6. QED
  BY <1>1, <1>2, <1>3, <1>4, <1>5 DEF Next

\* The database is consistent at every instant, whatever a crash leaves.
THEOREM CrashSafety == CrashSpec => [](AtMostOneOwner /\ OwnerActive /\ ReferentialIntegrity)
<1>1. IInv => AtMostOneOwner /\ OwnerActive /\ ReferentialIntegrity
  BY CoreGood DEF IInv, Core, DiskInv, Good, MemInv, AtMostOneOwner, OwnerActive,
     ReferentialIntegrity
<1>2. QED
  BY <1>1, InitIInv, NextStep, PTL DEF CrashSpec

\* No row of members or channels_dropowner outlives the channel or the account it
\* names, on disk or in the connection's view, wherever a crash falls.
THEOREM References == CrashSpec => []ReferentialIntegrity
BY CrashSafety, PTL

\* The access list and its table hold each account once per channel.
THEOREM Uniqueness == CrashSpec => [](TypeOK /\ NoDuplicates)
<1>1. IInv => TypeOK /\ NoDuplicates
  BY CoreGood DEF IInv, Core, DiskInv, Good, MemInv, NoDuplicates
<1>2. QED
  BY <1>1, InitIInv, NextStep, PTL DEF CrashSpec

\* Between two handlers memory and disk agree, also after crashes.
THEOREM Mirroring == CrashSpec => []Mirror
<1>1. IInv => Mirror
  BY DEF IInv, DiskInv, InTransaction, Mirror, Sync, Dropping, Idle
<1>2. QED
  BY <1>1, InitIInv, NextStep, PTL DEF CrashSpec

-----------------------------------------------------------------------------
(* Without crashes, every channel keeps its owner.                         *)

\* A step that leaves the owners, the channels and the handler's walk alone.
LEMMA OwnedKept ==
  ASSUME Owned, chans' \subseteq chans, run = Idle, run'.op # "register",
         Upgrade',
         \A m \in members : m.level = S_C_OWNER =>
            \E n \in members' : n.chan = m.chan /\ n.level = S_C_OWNER
  PROVE  Owned'
BY DEF Owned, Owners, Idle, Upgrade

\* A command leaves every channel its owner, or starts to remove them.
LEMMA OwnedCommand ==
  ASSUME IInv, Owned, Command
  PROVE  Owned'
<1>1. ASSUME NEW u \in Accounts, UserRegister(u) PROVE Owned'
  BY <1>1, OwnedKept DEF UserRegister, Idle, Upgrade
<1>2. ASSUME NEW u \in Accounts, o_user_userdrop(u) PROVE Owned'
  BY <1>2, OwnedKept DEF o_user_userdrop, StartFree, Upgrade
<1>3. ASSUME NEW c \in Chans, NEW u \in Accounts, ChanRegister(c, u) PROVE Owned'
  BY <1>3 DEF ChanRegister, Owned, Owners, Idle, Upgrade
<1>4. ASSUME NEW c \in Chans, NEW u \in Accounts, s_chan_delowner(c, u) PROVE Owned'
  BY <1>4, OwnedKept DEF s_chan_delowner, StartFree, Upgrade
<1>5. ASSUME NEW c \in Chans, NEW u \in Accounts, DelownerRequest(c, u) \/ DelownerAuth(c, u)
      PROVE  Owned'
  <2>1. run = Idle /\ UNCHANGED <<chans, members>>
    BY <1>5 DEF DelownerRequest, DelownerAuth
  <2>2. run'.op \in {"idle", "delauth"}
    <3>1. CASE DelownerRequest(c, u)
      BY <3>1 DEF DelownerRequest, Idle
    <3>2. CASE DelownerAuth(c, u)
      BY <3>2 DEF DelownerAuth, Idle
    <3>3. QED
      BY <1>5, <3>1, <3>2
  <2>3. QED
    BY <2>1, <2>2, OwnedKept DEF Upgrade
<1>6. ASSUME NEW old \in members, NEW new, run = Idle, Update(old, new),
             old.level # S_C_OWNER \/ (new.chan = old.chan /\ new.level = S_C_OWNER),
             UNCHANGED <<chans, run>>
      PROVE  Owned'
  BY <1>6, OwnedKept DEF Update, Idle, Upgrade
<1>7. ASSUME NEW c \in Chans, NEW u \in Accounts, NEW t \in Accounts, s_chan_unsuspend(c, u, t)
      PROVE  Owned'
  <2>1. PICK m \in RowsOf(members, c) : Update(m, [m EXCEPT !.suspend = 0, !.lastmod = u])
    BY <1>7, Zenon DEF s_chan_unsuspend
  <2>2. m \in members /\ m \in Row
    BY <2>1 DEF RowsOf, IInv, TypeOK
  <2>3. /\ [m EXCEPT !.suspend = 0, !.lastmod = u].chan = m.chan
        /\ [m EXCEPT !.suspend = 0, !.lastmod = u].level = m.level
    BY <2>2 DEF Row
  <2>4. QED
    BY <1>6, <1>7, <2>1, <2>2, <2>3, Zenon DEF s_chan_unsuspend
<1>8. ASSUME NEW c \in Chans, NEW u \in Accounts, NEW t \in Accounts, s_chan_deluser(c, u, t)
      PROVE  Owned'
  BY <1>8, OwnedKept DEF s_chan_deluser, StartFree, Upgrade
<1>9. ASSUME NEW c \in Chans, NEW u \in Accounts, NEW t \in Accounts, NEW level \in LevelArgs,
             s_chan_adduser(c, u, t, level)
      PROVE  Owned'
  <2>1. members \subseteq members'
    BY <1>9, SMTT(60) DEF s_chan_adduser
  <2>2. QED
    BY <1>9, <2>1, OwnedKept DEF s_chan_adduser, Idle, Upgrade
<1>10. ASSUME NEW c \in Chans, NEW u \in Accounts, NEW t \in Accounts, NEW level \in LevelArgs,
              s_chan_moduser(c, u, t, level) \/ s_chan_suspend(c, u, t, level)
       PROVE  Owned'
  <2>1. PICK a \in members, m \in members :
          /\ a.level > m.level
          /\ Update(m, [m EXCEPT !.level = level, !.lastmod = u]) \/ Update(m, [m EXCEPT !.suspend = level, !.lastmod = u])
    BY <1>10, Verified, Zenon DEF s_chan_moduser, s_chan_suspend, RowsOf
  <2>2. m.level # S_C_OWNER
    BY <2>1 DEF IInv, TypeOK, Row, S_C_OWNER
  <2>3. QED
    BY <1>6, <1>10, <2>1, <2>2, ZenonT(60) DEF s_chan_moduser, s_chan_suspend
<1>11. ASSUME NEW c \in Chans, o_chan_chandrop(c) PROVE Owned'
  <2>1. Owners(members, c) # {}
    BY <1>11 DEF o_chan_chandrop, Owned, Idle, Upgrade
  <2>2. run'.todo # {} /\ run'.chan = c /\ run'.op = "chandrop"
    BY <1>11, <2>1 DEF o_chan_chandrop, StartFree, Owners, RowsOf
  <2>3. QED
    BY <1>11, <2>2 DEF o_chan_chandrop, StartFree, Owned, Owners, Idle, Upgrade
<1>12. ASSUME NEW c \in Chans, o_chan_chanunsuspend(c) PROVE Owned'
  BY <1>12, OwnedKept DEF o_chan_chanunsuspend, Idle, Upgrade
<1>13. ASSUME NEW c \in Chans, NEW kind \in {"perm", "temp"}, o_chan_chansuspend(c, kind)
       PROVE  Owned'
  BY <1>13, OwnedKept DEF o_chan_chansuspend, Idle, Upgrade
<1>14. QED
  BY <1>1, <1>2, <1>3, <1>4, <1>5, <1>7, <1>8, <1>9, <1>10, <1>11, <1>12, <1>13 DEF Command

\* So does an event.
LEMMA OwnedEvent ==
  ASSUME IInv, Owned, Event
  PROVE  Owned'
<1>1. ASSUME NEW op \in {"chanexpire", "userexpire"}, StartExpiry(op) PROVE Owned'
  BY <1>1 DEF StartExpiry, Owned, Owners, Idle, Upgrade
<1>2. ASSUME NEW c \in Chans, ExpireChan(c) PROVE Owned'
  <2>1. \A d \in chans : Owners(members, d) # {}
    BY <1>2 DEF ExpireChan, WalkDone, Owned
  <2>2. run'.todo # {} /\ run'.chan = c /\ run'.op = "chanexpire"
    BY <1>2, <2>1 DEF ExpireChan, StartFree, Owners, RowsOf
  <2>3. QED
    BY <1>2, <2>1, <2>2 DEF ExpireChan, StartFree, Owned, Owners
<1>3. ASSUME NEW c \in Chans, ExpireChanSuspend(c) PROVE Owned'
  BY <1>3 DEF ExpireChanSuspend, Owned, Owners, Upgrade
<1>4. ASSUME NEW u \in Accounts, ExpireUser(u) PROVE Owned'
  <2>1. \A d \in chans : Owners(members, d) # {}
    BY <1>4 DEF ExpireUser, WalkDone, Owned
  <2>2. QED
    BY <1>4, <2>1 DEF ExpireUser, StartFree, Owned, Owners
<1>5. ASSUME NEW S \in SUBSET Chans, ExpireDelowner(S) PROVE Owned'
  BY <1>5, OwnedKept DEF ExpireDelowner, Idle, Upgrade
<1>6. QED
  BY <1>1, <1>2, <1>3, <1>4, <1>5 DEF Event

\* free_member_reg() of an owner promotes, or was told that the channel goes.
LEMMA OwnedFreeMember ==
  ASSUME IInv, Owned, NEW r \in run.todo, FreeMember(r)
  PROVE  Owned'
<1> DEFINE rest == RowsOf(members, r.chan) \ {r}
<1>0. /\ r \in members /\ r \in Row /\ run.freeing = {} /\ chans' = chans
      /\ run.op \notin {"idle", "register", "delauth"}
      /\ run'.op = run.op /\ run'.chan = run.chan /\ run'.todo = run.todo \ {r}
      /\ Upgrade' = Upgrade
  BY Zenon DEF FreeMember, Walking, RunInv, TypeOK, IInv, Run, Upgrade
<1>1. SUFFICES ASSUME NEW c \in chans, c \notin run'.freeing, ~(~Upgrade /\ run.chan = c /\ run'.todo # {})
               PROVE  Owners(members', c) # {}
  BY <1>0 DEF Owned
<1>2. CASE rest = {}
  <2>1. run'.freeing = {r.chan} /\ members' = members \ {r}
    BY <1>0, <1>2, Zenon DEF FreeMember, IInv, TypeOK, Run
  <2>2. c # r.chan
    BY <1>1, <2>1
  <2>3. ~Upgrade => run.chan = r.chan
    BY <1>0 DEF IInv, RunInv, RowsOf
  <2>4. Owners(members, c) # {}
    BY <1>0, <1>1, <2>2, <2>3 DEF Owned
  <2>5. QED
    BY <2>1, <2>2, <2>4, SMTT(60) DEF Owners
<1>3. CASE rest # {} /\ r.level = S_C_OWNER /\ Upgrade
  <2>1. PICK p \in Highest(rest) :
          members' = (members \ {r, p}) \cup {[p EXCEPT !.level = S_C_OWNER, !.suspend = 0, !.lastmod = NoName]}
    BY <1>3, Zenon DEF FreeMember
  <2>2. p \in members /\ p \in Row /\ p.chan = r.chan
    BY SMTT(60) DEF Highest, RowsOf, IInv, TypeOK
  <2> DEFINE q == [p EXCEPT !.level = S_C_OWNER, !.suspend = 0, !.lastmod = NoName]
  <2>3. q.chan = r.chan /\ q.level = S_C_OWNER
    BY <2>2, PromotedRow, Zenon
  <2> HIDE DEF q
  <2>4. members' = (members \ {r, p}) \cup {q}
    BY <2>1 DEF q
  <2>5. CASE c = r.chan
    BY <2>3, <2>4, <2>5 DEF Owners
  <2>6. CASE c # r.chan
    <3>1. Owners(members, c) # {}
      BY <1>0, <1>1, <1>3 DEF Owned
    <3>2. QED
      BY <2>2, <2>4, <2>6, <3>1 DEF Owners
  <2>7. QED
    BY <2>5, <2>6, SMTT(60)
<1>4. CASE rest # {} /\ ~(r.level = S_C_OWNER /\ Upgrade)
  <2>1. members' = members \ {r}
    BY <1>4, Zenon DEF FreeMember
  <2>2. CASE Upgrade
    <3>1. Owners(members, c) # {}
      BY <1>0, <1>1, <2>2 DEF Owned
    <3>2. QED
      BY <1>4, <2>1, <2>2, <3>1 DEF Owners
  <2>3. CASE ~Upgrade
    <3>1. run.todo = RowsOf(members, run.chan) /\ run.chan = r.chan
      BY <1>0, <2>3 DEF IInv, RunInv, RowsOf
    <3>2. run'.todo # {}
      BY <1>0, <1>4, <3>1
    <3>3. c # run.chan
      BY <1>1, <2>3, <3>2
    <3>4. Owners(members, c) # {}
      BY <1>0, <1>1, <3>3 DEF Owned
    <3>5. QED
      BY <2>1, <3>1, <3>3, <3>4 DEF Owners
  <2>4. QED
    BY <2>2, <2>3, SMTT(60)
<1>5. QED
  BY <1>2, <1>3, <1>4, SMTT(60)

\* And so does every other step of a handler.
LEMMA OwnedContinue ==
  ASSUME IInv, Owned, Continue
  PROVE  Owned'
<1>1. ASSUME InsertOwner PROVE Owned'
  <2>0. PICK by \in {run.user, NoName} :
          members' = members \cup {[chan |-> run.chan, user |-> run.user, level |-> S_C_OWNER,
                                    suspend |-> 0, lastmod |-> by]}
    BY <1>1 DEF InsertOwner
  <2> DEFINE new == [chan |-> run.chan, user |-> run.user, level |-> S_C_OWNER,
                     suspend |-> 0, lastmod |-> by]
  <2>1. members' = members \cup {new} /\ run' = Idle /\ chans' = chans
    BY <1>1, <2>0 DEF InsertOwner
  <2>2. run.freeing = {} /\ run.todo = {} /\ run.op = "register"
    BY <1>1 DEF InsertOwner, IInv, RunInv
  <2>3. ASSUME NEW c \in chans PROVE Owners(members', c) # {}
    <3>1. CASE c = run.chan
      <4>1. new \in Owners(members', c)
        BY <2>1, <3>1 DEF Owners
      <4>2. QED
        BY <4>1
    <3>2. CASE c # run.chan
      BY <2>1, <2>2, <3>2 DEF Owned, Owners
    <3>3. QED
      BY <3>1, <3>2
  <2>4. QED
    BY <2>1, <2>3, Zenon DEF Owned
<1>2. ASSUME DelownerConfirmed PROVE Owned'
  <2>1. \A c \in chans : Owners(members, c) # {}
    BY <1>2 DEF DelownerConfirmed, IInv, RunInv, Owned
  <2>2. QED
    BY <1>2, <2>1 DEF DelownerConfirmed, StartFree, Owned, Owners
<1>3. ASSUME FreeUser \/ Return \/ Commit PROVE Owned'
  <2>1. /\ run.op # "register" /\ run.freeing = {} /\ run.todo = {}
        /\ UNCHANGED <<chans, members>>
    BY <1>3 DEF FreeUser, Return, Commit, InTransaction, WalkDone
  <2>2. \A c \in chans : Owners(members, c) # {}
    BY <2>1 DEF Owned
  <2>3. QED
    BY <2>1, <2>2 DEF Owned, Owners
<1>4. ASSUME NEW r \in run.todo, FreeMember(r) PROVE Owned'
  BY <1>4, OwnedFreeMember
<1>5. ASSUME NEW c \in Chans, FreeChannel(c) PROVE Owned'
  <2>1. /\ run.freeing = {c} /\ run'.freeing = {} /\ run'.op = run.op
        /\ run'.chan = run.chan /\ run'.todo = run.todo /\ Upgrade' = Upgrade
        /\ chans' = chans \ {c} /\ members' = members
    BY <1>5 DEF FreeChannel, IInv, RunInv, TypeOK, Run, Upgrade
  <2>2. QED
    BY <2>1 DEF Owned, Owners
<1>6. QED
  BY <1>1, <1>2, <1>3, <1>4, <1>5 DEF Continue

\* As long as no crash cuts a handler short, a registered channel always has
\* one owner, in good standing.
THEOREM Ownership == Spec => []OneOwner
<1>1. Init => Owned
  BY DEF Init, Owned
<1>2. IInv /\ Owned /\ [Next]_vars => Owned'
  <2>1. ASSUME Owned, UNCHANGED vars PROVE Owned'
    BY <2>1 DEF vars, Owned, Owners, Upgrade
  <2>2. QED
    BY <2>1, OwnedCommand, OwnedEvent, OwnedContinue DEF Next
<1>3. IInv /\ [Next]_vars => IInv'
  BY NextStep
<1>4. IInv /\ Owned => OneOwner
  <2>1. SUFFICES ASSUME IInv, Owned, run = Idle, NEW c \in chans
                 PROVE  \E m \in members : Owners(members, c) = {m} /\ m.suspend = 0
    BY DEF OneOwner
  <2>2. PICK m \in members : m.chan = c /\ m.level = S_C_OWNER
    BY <2>1 DEF Owned, Owners, Idle, Upgrade
  <2>3. Owners(members, c) = {m}
    BY <2>1, <2>2 DEF Owners, IInv, MemInv, SingleOwner
  <2>4. m.suspend = 0
    BY <2>1, <2>2 DEF IInv, MemInv, ActiveOwner
  <2>5. QED
    BY <2>3, <2>4
<1>5. QED
  BY <1>1, <1>2, <1>3, <1>4, InitIInv, PTL DEF Spec

-----------------------------------------------------------------------------
(* Who may give and who may take.                                          *)

\* A successor is promoted while the owner's structure goes.
LEMMA GrantPromoted ==
  ASSUME NEW n, n.level = S_C_OWNER, n.lastmod = NoName,
         NEW r \in Owners(members, n.chan), r \in run.todo, r \notin members'
  PROVE  GrantJustified(n)
BY ZenonT(30) DEF GrantJustified

\* What a member a of good standing gives is given, if their level is enough for it.
LEMMA GrantGiven ==
  ASSUME NEW n, NEW a \in members, a.chan = n.chan, a.user = n.lastmod, a.suspend = 0,
         NEW m \in members, m.chan = n.chan, m.user = n.user,
         m.level < n.level => a.level >= S_C_USERLIST /\ a.level > n.level,
         \A x \in members : x.chan = n.chan /\ x.user = n.user /\ x.suspend > n.suspend
                            => a.level >= S_C_SUSPEND /\ a.level >= x.suspend
  PROVE  GrantJustified(n)
BY ZenonT(30) DEF GrantJustified

\* A row that was there before the step is not one somebody gained.
LEMMA GrantOld ==
  ASSUME IInv, NEW n \in members
  PROVE  GrantJustified(n)
<1>1. n \in Row /\ n.level \in Int /\ n.suspend \in Int
  BY DEF IInv, TypeOK, Row
<1>2. \A m \in members : m.chan = n.chan /\ m.user = n.user => m = n
  BY DEF IInv, MemInv, Keyed
<1>3. QED
  BY <1>1, <1>2 DEF GrantJustified

\* The founder's row is the first of its channel.
LEMMA GrantInsertOwner ==
  ASSUME IInv, InsertOwner, NEW n \in members'
  PROVE  GrantJustified(n)
<1>1. CASE n \in members
  BY <1>1, GrantOld
<1>2. CASE n \notin members
  <2>1. n.chan = run.chan /\ n.level = S_C_OWNER /\ RowsOf(members, n.chan) = {}
    BY <1>2 DEF InsertOwner, IInv, RunInv
  <2>2. QED
    BY <2>1 DEF GrantJustified, RowsOf
<1>3. QED
  BY <1>1, <1>2

\* ADDUSER gives less than its caller has.
LEMMA GrantAdduser ==
  ASSUME IInv, NEW c \in Chans, NEW u \in Accounts, NEW t \in Accounts, NEW level \in LevelArgs,
         s_chan_adduser(c, u, t, level), NEW n \in members'
  PROVE  GrantJustified(n)
<1>1. CASE n \in members
  BY <1>1, GrantOld
<1>2. CASE n \notin members
  <2>1. PICK a \in verify_member_reg(c, u, S_C_USERLIST) :
          /\ level < a.level
          /\ \A m \in RowsOf(members, c) : m.user # t
          /\ n = [chan |-> c, user |-> t, level |-> level, suspend |-> 0, lastmod |-> u]
    BY <1>2 DEF s_chan_adduser
  <2>2. /\ n.chan = c /\ n.user = t /\ n.level = level /\ n.lastmod = u
        /\ \A m \in members : m.chan = c => m.user # t
    BY <2>1 DEF RowsOf
  <2>3. /\ a \in members /\ a.chan = c /\ a.user = u /\ a.suspend = 0
        /\ a.level >= S_C_USERLIST /\ a.level \in Int /\ level \in Int /\ a.level > level
    BY <2>1, Verified, LevelArgsAssumption DEF verify_member_reg, Row
  <2>4. QED
    BY <2>2, <2>3 DEF GrantJustified
<1>3. QED
  BY <1>1, <1>2

\* MODUSER, SUSPEND and UNSUSPEND change the one row they name, in their caller's name.
LEMMA ChangedRow ==
  ASSUME IInv, NEW c \in Chans, NEW u \in Accounts, NEW t \in Accounts, NEW n,
         NEW m \in RowsOf(members, c), m.user = t,
         n.chan = m.chan, n.user = m.user
  PROVE  {x \in members : x.chan = n.chan /\ x.user = n.user} = {m}
BY SMTT(60) DEF IInv, MemInv, Keyed, RowsOf

\* MODUSER raises only below its caller.
LEMMA GrantModuser ==
  ASSUME IInv, NEW c \in Chans, NEW u \in Accounts, NEW t \in Accounts, NEW level \in LevelArgs,
         s_chan_moduser(c, u, t, level), NEW n \in members'
  PROVE  GrantJustified(n)
<1>1. CASE n \in members
  BY <1>1, GrantOld
<1>2. CASE n \notin members
  <2>1. PICK a \in verify_member_reg(c, u, S_C_USERLIST), m \in RowsOf(members, c) :
          /\ m.user = t /\ level < a.level
          /\ n = [m EXCEPT !.level = level, !.lastmod = u]
    BY <1>2, Zenon DEF s_chan_moduser, Update
  <2>2. m \in Row /\ m \in members
    BY DEF RowsOf, IInv, TypeOK
  <2>3. /\ n.chan = m.chan /\ n.user = m.user /\ n.level = level /\ n.lastmod = u
        /\ n.suspend = m.suspend /\ m.chan = c
    BY <2>1, <2>2 DEF Row, RowsOf
  <2>4. /\ a \in members /\ a.chan = c /\ a.user = u /\ a.suspend = 0
        /\ a.level >= S_C_USERLIST /\ a.level \in Int /\ level \in Int /\ a.level > level
    BY <2>1, Verified, LevelArgsAssumption DEF verify_member_reg, Row
  <2>5. {x \in members : x.chan = n.chan /\ x.user = n.user} = {m}
    BY <2>1, <2>3, ChangedRow
  <2>6. ~ (m.suspend > n.suspend)
    BY <2>2, <2>3 DEF Row
  <2>7. \A x \in members : x.chan = n.chan /\ x.user = n.user => x = m
    BY <2>5, Zenon
  <2>8. QED
    BY <2>2, <2>3, <2>4, <2>6, <2>7, GrantGiven, Zenon
<1>3. QED
  BY <1>1, <1>2

\* SUSPEND changes no level, and replaces a suspension its caller could have lifted.
LEMMA GrantSuspend ==
  ASSUME IInv, NEW c \in Chans, NEW u \in Accounts, NEW t \in Accounts, NEW level \in LevelArgs,
         s_chan_suspend(c, u, t, level), NEW n \in members'
  PROVE  GrantJustified(n)
<1>1. CASE n \in members
  BY <1>1, GrantOld
<1>2. CASE n \notin members
  <2>1. PICK a \in verify_member_reg(c, u, S_C_SUSPEND), m \in RowsOf(members, c) :
          /\ m.user = t /\ m.suspend <= a.level
          /\ n = [m EXCEPT !.suspend = level, !.lastmod = u]
    BY <1>2, Zenon DEF s_chan_suspend, Update
  <2>2. m \in Row /\ m \in members
    BY DEF RowsOf, IInv, TypeOK
  <2>3. /\ n.chan = m.chan /\ n.user = m.user /\ n.level = m.level /\ n.lastmod = u /\ m.chan = c
    BY <2>1, <2>2 DEF Row, RowsOf
  <2>4. /\ a \in members /\ a.chan = c /\ a.user = u /\ a.suspend = 0
        /\ a.level >= S_C_SUSPEND /\ a.level \in Int
    BY <2>1, Verified DEF verify_member_reg, Row
  <2>5. {x \in members : x.chan = n.chan /\ x.user = n.user} = {m}
    BY <2>1, <2>3, ChangedRow
  <2>6. m.suspend \in Int /\ m.level \in Int /\ a.level >= m.suspend
    BY <2>1, <2>2, <2>4 DEF Row
  <2>7. ~ (m.level < n.level)
    BY <2>3, <2>6
  <2>8. \A x \in members : x.chan = n.chan /\ x.user = n.user => x = m
    BY <2>5, Zenon
  <2>9. QED
    BY <2>2, <2>3, <2>4, <2>6, <2>7, <2>8, GrantGiven, Zenon
<1>3. QED
  BY <1>1, <1>2

\* UNSUSPEND lifts a suspension within its caller's level.
LEMMA GrantUnsuspend ==
  ASSUME IInv, NEW c \in Chans, NEW u \in Accounts, NEW t \in Accounts,
         s_chan_unsuspend(c, u, t), NEW n \in members'
  PROVE  GrantJustified(n)
<1>1. CASE n \in members
  BY <1>1, GrantOld
<1>2. CASE n \notin members
  <2>1. PICK a \in verify_member_reg(c, u, S_C_SUSPEND), m \in RowsOf(members, c) :
          /\ m.user = t /\ m.suspend <= a.level
          /\ n = [m EXCEPT !.suspend = 0, !.lastmod = u]
    BY <1>2, Zenon DEF s_chan_unsuspend, Update
  <2>2. m \in Row /\ m \in members
    BY DEF RowsOf, IInv, TypeOK
  <2>3. /\ n.chan = m.chan /\ n.user = m.user /\ n.level = m.level /\ n.lastmod = u /\ m.chan = c
    BY <2>1, <2>2 DEF Row, RowsOf
  <2>4. /\ a \in members /\ a.chan = c /\ a.user = u /\ a.suspend = 0
        /\ a.level >= S_C_SUSPEND /\ a.level \in Int
    BY <2>1, Verified DEF verify_member_reg, Row
  <2>5. {x \in members : x.chan = n.chan /\ x.user = n.user} = {m}
    BY <2>1, <2>3, ChangedRow
  <2>6. m.suspend \in Int /\ m.level \in Int /\ a.level >= m.suspend
    BY <2>1, <2>2, <2>4 DEF Row
  <2>7. ~ (m.level < n.level)
    BY <2>3, <2>6
  <2>8. \A x \in members : x.chan = n.chan /\ x.user = n.user => x = m
    BY <2>5, Zenon
  <2>9. QED
    BY <2>2, <2>3, <2>4, <2>6, <2>7, <2>8, GrantGiven, Zenon
<1>3. QED
  BY <1>1, <1>2

\* free_member_reg() promotes only when the owner's structure goes.
LEMMA GrantFreeMember ==
  ASSUME IInv, NEW r \in run.todo, FreeMember(r), NEW n \in members'
  PROVE  GrantJustified(n)
<1>1. CASE n \in members
  BY <1>1, GrantOld
<1>2. CASE n \notin members
  <2>1. PICK p \in Highest(RowsOf(members, r.chan) \ {r}) :
          /\ r.level = S_C_OWNER
          /\ members' = (members \ {r, p})
                          \cup {[p EXCEPT !.level = S_C_OWNER, !.suspend = 0, !.lastmod = NoName]}
    BY <1>2, Zenon DEF FreeMember
  <2>2. p \in members /\ p.chan = r.chan /\ p \in Row /\ r \in members
    BY DEF Highest, RowsOf, IInv, TypeOK, RunInv
  <2>3. n = [p EXCEPT !.level = S_C_OWNER, !.suspend = 0, !.lastmod = NoName]
    BY <1>2, <2>1
  <2>4. n.chan = r.chan /\ n.level = S_C_OWNER /\ n.lastmod = NoName
    BY <2>2, <2>3 DEF Row
  <2>5. r \in Owners(members, n.chan) /\ r \notin members'
    BY <1>2, <2>1, <2>2, <2>3, <2>4 DEF Owners
  <2>6. QED
    BY <2>2, <2>4, <2>5, GrantPromoted, Zenon
<1>3. QED
  BY <1>1, <1>2

\* Every other step leaves the access lists in memory alone.
LEMMA GrantOther ==
  ASSUME IInv, members' = members, NEW n \in members'
  PROVE  GrantJustified(n)
BY GrantOld

\* Nobody gains a level, or is freed from a suspension while their row stays, but by the
\* hand of a member who may give it, by founding the channel or by succeeding its owner.
THEOREM Grants == Spec => GrantsJustified
<1>1. IInv /\ [Next]_vars => [\A n \in members' : GrantJustified(n)]_vars
  <2> SUFFICES ASSUME IInv, Next, NEW n \in members'
               PROVE  GrantJustified(n)
    BY SMTT(60)
  <2>1. CASE Command
    <3>1. ASSUME NEW c \in Chans, NEW u \in Accounts, NEW t \in Accounts, NEW level \in LevelArgs,
                 s_chan_adduser(c, u, t, level) \/ s_chan_moduser(c, u, t, level)
                   \/ s_chan_suspend(c, u, t, level)
          PROVE  GrantJustified(n)
      BY <3>1, GrantAdduser, GrantModuser, GrantSuspend
    <3>2. ASSUME NEW c \in Chans, NEW u \in Accounts, NEW t \in Accounts,
                 s_chan_unsuspend(c, u, t)
          PROVE  GrantJustified(n)
      BY <3>2, GrantUnsuspend
    <3>3. QED
      BY <2>1, <3>1, <3>2, GrantOther, Zenon DEF Command, UserRegister, o_user_userdrop, ChanRegister,
         s_chan_delowner, DelownerRequest, DelownerAuth, s_chan_deluser, o_chan_chandrop,
         o_chan_chanunsuspend, o_chan_chansuspend, StartFree
  <2>2. CASE Event
    BY <2>2, GrantOther, Zenon DEF Event, StartExpiry, ExpireChan, ExpireChanSuspend, ExpireUser,
       ExpireDelowner, StartFree
  <2>3. CASE Continue
    <3>1. ASSUME NEW r \in run.todo, FreeMember(r) PROVE GrantJustified(n)
      BY <3>1, GrantFreeMember
    <3>2. QED
      BY <2>3, <3>1, GrantInsertOwner, GrantOther, Zenon DEF Continue, DelownerConfirmed, FreeUser, Return,
         Commit, FreeChannel, StartFree
  <2>4. QED
    BY <2>1, <2>2, <2>3 DEF Next
<1>2. IInv /\ [Next]_vars => IInv'
  BY NextStep
<1>3. QED
  BY <1>1, <1>2, InitIInv, PTL DEF Spec, GrantsJustified

\* DELOWNER's confirmation was read from an owner: nothing can come between its two
\* statements that would take their standing away.
Authorised ==
  run.op = "delauth" =>
    \A m \in members : m.chan = run.chan /\ m.user = run.user => m.suspend = 0

\* A command starts in an idle daemon, and ends there unless it has rows to delete.
LEMMA CommandRun ==
  ASSUME Command
  PROVE  /\ run = Idle
         /\ \/ run' = run
            \/ \E c \in Chans, u \in Accounts :
                 ChanRegister(c, u) \/ s_chan_delowner(c, u) \/ DelownerAuth(c, u)
            \/ \E c \in Chans, u, t \in Accounts : s_chan_deluser(c, u, t)
            \/ \E c \in Chans : o_chan_chandrop(c)
            \/ \E u \in Accounts : o_user_userdrop(u)
<1>1. ASSUME NEW u \in Accounts PROVE UserRegister(u) => run = Idle /\ run' = run
  BY Zenon DEF UserRegister
<1>2. ASSUME NEW u \in Accounts PROVE o_user_userdrop(u) => run = Idle
  BY Zenon DEF o_user_userdrop
<1>3. ASSUME NEW c \in Chans, NEW u \in Accounts
      PROVE  ChanRegister(c, u) \/ s_chan_delowner(c, u) \/ DelownerAuth(c, u) => run = Idle
  BY Zenon DEF ChanRegister, s_chan_delowner, DelownerAuth
<1>4. ASSUME NEW c \in Chans, NEW u \in Accounts
      PROVE  DelownerRequest(c, u) => run = Idle /\ run' = run
  BY Zenon DEF DelownerRequest
<1>5. ASSUME NEW c \in Chans, NEW u \in Accounts, NEW t \in Accounts
      PROVE  /\ s_chan_unsuspend(c, u, t) => run = Idle /\ run' = run
             /\ s_chan_deluser(c, u, t) => run = Idle
  BY Zenon DEF s_chan_unsuspend, s_chan_deluser
<1>6. ASSUME NEW c \in Chans, NEW u \in Accounts, NEW t \in Accounts, NEW level \in LevelArgs
      PROVE  s_chan_adduser(c, u, t, level) \/ s_chan_moduser(c, u, t, level)
               \/ s_chan_suspend(c, u, t, level) => run = Idle /\ run' = run
  BY Zenon DEF s_chan_adduser, s_chan_moduser, s_chan_suspend
<1>7. ASSUME NEW c \in Chans
      PROVE  /\ o_chan_chandrop(c) => run = Idle
             /\ o_chan_chanunsuspend(c) => run = Idle /\ run' = run
             /\ \A kind \in {"perm", "temp"} : o_chan_chansuspend(c, kind) => run = Idle /\ run' = run
  BY Zenon DEF o_chan_chandrop, o_chan_chanunsuspend, o_chan_chansuspend
<1>8. QED
  BY <1>1, <1>2, <1>3, <1>4, <1>5, <1>6, <1>7 DEF Command

\* A handler that starts to free structures is the one that started.
LEMMA OtherHandler ==
  ASSUME NEW op, NEW c, NEW u, NEW gone, StartFree(op, c, u, gone)
  PROVE  run'.op = op
BY DEF StartFree

\* The confirmation looks at the owner's row, and the handler goes on from there.
LEMMA AuthorisedStep ==
  ASSUME IInv, Authorised, [Next]_vars
  PROVE  Authorised'
<1>1. CASE run'.op # "delauth"
  BY <1>1 DEF Authorised
<1>2. CASE run'.op = "delauth" /\ run.op = "delauth"
  <2>1. run.todo = {} /\ run.freeing = {} /\ run # Idle /\ ~InTransaction
    BY <1>2 DEF IInv, RunInv, Idle, InTransaction
  <2>2. ~Command
    BY <2>1, CommandRun
  <2>3. ~Event
    BY <1>2, <2>1, Zenon DEF Event, StartExpiry, ExpireChan, ExpireChanSuspend, ExpireUser, ExpireDelowner
  <2>4. ~Continue
    BY <1>2, <2>1 DEF Continue, InsertOwner, DelownerConfirmed, StartFree, FreeUser, Return, Commit,
       FreeMember, FreeChannel
  <2>5. UNCHANGED vars
    BY <2>2, <2>3, <2>4 DEF Next
  <2>6. QED
    BY <2>5 DEF Authorised, vars
<1>3. CASE run'.op = "delauth" /\ run.op # "delauth"
  <2>1. PICK c \in Chans, u \in Accounts : DelownerAuth(c, u)
    <3>1. ~Event
      <4>1. \A op \in {"chanexpire", "userexpire"} : ~StartExpiry(op)
        BY <1>3 DEF StartExpiry, Idle
      <4>2. \A c \in Chans : ~ExpireChan(c) /\ ~ExpireChanSuspend(c)
        BY <1>3, OtherHandler DEF ExpireChan, ExpireChanSuspend
      <4>3. \A u \in Accounts : ~ExpireUser(u)
        BY <1>3, OtherHandler DEF ExpireUser
      <4>4. \A S \in SUBSET Chans : ~ExpireDelowner(S)
        BY <1>3 DEF ExpireDelowner
      <4>5. QED
        BY <4>1, <4>2, <4>3, <4>4 DEF Event
    <3>2. ~InsertOwner /\ ~DelownerConfirmed /\ ~FreeUser /\ ~Return /\ ~Commit
      BY <1>3 DEF InsertOwner, DelownerConfirmed, StartFree, FreeUser, Return, Commit, Idle
    <3>3. run \in Run
      BY SMTT(60) DEF IInv, TypeOK
    <3>4. ASSUME NEW r \in run.todo, FreeMember(r) PROVE FALSE
      BY <1>3, <3>3, <3>4, Zenon DEF FreeMember, Run
    <3>5. ASSUME NEW c \in Chans, FreeChannel(c) PROVE FALSE
      BY <1>3, <3>3, <3>5 DEF FreeChannel, Run
    <3>6. Command
      BY <1>3, <3>1, <3>2, <3>4, <3>5 DEF Next, Continue, vars
    <3>7. \A c \in Chans, u \in Accounts : ~ChanRegister(c, u) /\ ~s_chan_delowner(c, u)
      BY <1>3, OtherHandler, Zenon DEF ChanRegister, s_chan_delowner, Idle
    <3>8. \A c \in Chans, u, t \in Accounts : ~s_chan_deluser(c, u, t)
      BY <1>3, OtherHandler, Zenon DEF s_chan_deluser
    <3>9. \A c \in Chans : ~o_chan_chandrop(c)
      BY <1>3, OtherHandler DEF o_chan_chandrop
    <3>10. \A u \in Accounts : ~o_user_userdrop(u)
      BY <1>3, OtherHandler DEF o_user_userdrop
    <3>11. QED
      BY <1>3, <3>6, <3>7, <3>8, <3>9, <3>10, CommandRun
  <2>2. run'.chan = c /\ run'.user = u /\ members' = members
    BY <2>1 DEF DelownerAuth, Idle
  <2>3. PICK a \in verify_member_reg(c, u, S_C_OWNER) : TRUE
    BY <2>1 DEF DelownerAuth
  <2>4. a \in members /\ a.chan = c /\ a.user = u /\ a.suspend = 0
    BY <2>3, Verified DEF verify_member_reg
  <2>5. QED
    BY <2>2, <2>4 DEF Authorised, IInv, MemInv, Keyed
<1>4. QED
  BY <1>1, <1>2, <1>3

\* The first half of RemovalJustified: m is not suspended or lowered, or by one above.
Lowered(m, n) == n.chan = m.chan /\ n.user = m.user /\ (n.suspend > m.suspend \/ n.level < m.level)

\* A row that is not new is the same row.
LEMMA LoweredOld ==
  ASSUME IInv, NEW m \in members, NEW n \in members
  PROVE  ~Lowered(m, n)
<1>1. m.suspend \in Int /\ m.level \in Int
  BY DEF IInv, TypeOK, Row
<1>2. QED
  BY <1>1 DEF Lowered, IInv, MemInv, Keyed

\* MODUSER and SUSPEND lower somebody below their caller, who is somebody else.
LEMMA LoweredCommand ==
  ASSUME IInv, NEW c \in Chans, NEW u \in Accounts, NEW t \in Accounts, NEW level \in LevelArgs,
         s_chan_moduser(c, u, t, level) \/ s_chan_suspend(c, u, t, level),
         NEW m \in members, NEW n \in members', Lowered(m, n)
  PROVE  n.lastmod # m.user /\ Outranks(n.lastmod, m)
<1>1. n \notin members
  BY LoweredOld, SMTT(60)
<1>2. PICK a \in verify_member_reg(c, u, S_C_SUSPEND), x \in RowsOf(members, c) :
        /\ a.level > x.level
        /\ \/ n = [x EXCEPT !.level = level, !.lastmod = u]
           \/ n = [x EXCEPT !.suspend = level, !.lastmod = u]
  <2>1. CASE s_chan_moduser(c, u, t, level)
    <3>1. PICK a \in verify_member_reg(c, u, S_C_USERLIST), x \in RowsOf(members, c) :
            a.level > x.level /\ n = [x EXCEPT !.level = level, !.lastmod = u]
      BY <1>1, <2>1, Zenon DEF s_chan_moduser, Update
    <3>2. a \in verify_member_reg(c, u, S_C_SUSPEND)
      <4>1. a.level \in Int /\ a.level >= S_C_USERLIST
        BY <3>1, Verified DEF Row
      <4>2. a.level >= S_C_SUSPEND
        BY <4>1, SMTT(60) DEF S_C_USERLIST, S_C_SUSPEND
      <4>3. QED
        BY <3>1, <4>2 DEF verify_member_reg
    <3>3. QED
      BY <3>1, <3>2, ZenonT(60)
  <2>2. CASE s_chan_suspend(c, u, t, level)
    BY <1>1, <2>2, Zenon DEF s_chan_suspend, Update
  <2>3. QED
    BY <2>1, <2>2, ZenonT(60)
<1>3. x \in members /\ x \in Row /\ x.chan = c
  BY <1>2 DEF RowsOf, IInv, TypeOK
<1>4. n.chan = c /\ n.user = x.user /\ n.lastmod = u
  BY <1>2, <1>3, Zenon DEF Row
<1>5. m = x
  BY <1>3, <1>4, Zenon DEF Lowered, IInv, MemInv, Keyed
<1>6. a \in members /\ a.chan = c /\ a.user = u /\ a.suspend = 0 /\ a \in Row
  BY <1>2, Verified DEF verify_member_reg
<1>7. a # m /\ a.level > m.level
  BY <1>2, <1>3, <1>5, <1>6 DEF Row
<1>8. u # m.user
  BY <1>3, <1>5, <1>6, <1>7, ZenonT(30) DEF IInv, MemInv, Keyed
<1>9. QED
  BY <1>3, <1>4, <1>5, <1>6, <1>7, <1>8 DEF Outranks

\* The other steps that write to the access lists lower nobody.
LEMMA LoweredNever ==
  ASSUME IInv, NEW m \in members, NEW n \in members',
         \/ InsertOwner
         \/ \E c \in Chans, u, t \in Accounts, level \in LevelArgs : s_chan_adduser(c, u, t, level)
         \/ \E c \in Chans, u, t \in Accounts : s_chan_unsuspend(c, u, t)
         \/ \E r \in run.todo : FreeMember(r)
         \/ members' = members
  PROVE  ~Lowered(m, n)
<1> SUFFICES ASSUME n \notin members PROVE ~Lowered(m, n)
  BY LoweredOld
<1>0. m \in Row
  BY DEF IInv, TypeOK
<1>1. CASE InsertOwner
  <2>1. n.chan = run.chan /\ RowsOf(members, run.chan) = {}
    BY <1>1 DEF InsertOwner, IInv, RunInv
  <2>2. QED
    BY <2>1 DEF Lowered, RowsOf
<1>2. CASE \E c \in Chans, u, t \in Accounts, level \in LevelArgs : s_chan_adduser(c, u, t, level)
  <2>1. PICK c \in Chans, u \in Accounts, t \in Accounts, level \in LevelArgs :
          s_chan_adduser(c, u, t, level)
    BY <1>2
  <2>2. n.chan = c /\ n.user = t /\ \A x \in RowsOf(members, c) : x.user # t
    BY <2>1 DEF s_chan_adduser
  <2>3. QED
    BY <2>2 DEF Lowered, RowsOf
<1>3. CASE \E c \in Chans, u, t \in Accounts : s_chan_unsuspend(c, u, t)
  <2>1. PICK c \in Chans, u \in Accounts, t \in Accounts : s_chan_unsuspend(c, u, t)
    BY <1>3, Zenon
  <2>2. PICK x \in RowsOf(members, c) : n = [x EXCEPT !.suspend = 0, !.lastmod = u]
    BY <2>1, Zenon DEF s_chan_unsuspend, Update
  <2>3. x \in members /\ x \in Row
    BY <2>2 DEF RowsOf, IInv, TypeOK
  <2>4. n.chan = x.chan /\ n.user = x.user /\ n.level = x.level /\ n.suspend = 0
    BY <2>2, <2>3 DEF Row
  <2>5. Lowered(m, n) => m = x
    BY <2>3, <2>4, Zenon DEF Lowered, IInv, MemInv, Keyed
  <2>6. QED
    BY <1>0, <2>4, <2>5 DEF Lowered, Row
<1>4. CASE \E r \in run.todo : FreeMember(r)
  <2>1. PICK r \in run.todo : FreeMember(r)
    BY <1>4
  <2>2. PICK p \in Highest(RowsOf(members, r.chan) \ {r}) :
          n = [p EXCEPT !.level = S_C_OWNER, !.suspend = 0, !.lastmod = NoName]
    BY <2>1, Zenon DEF FreeMember
  <2>3. p \in members /\ p \in Row
    BY <2>2 DEF Highest, RowsOf, IInv, TypeOK
  <2>4. n.chan = p.chan /\ n.user = p.user /\ n.level = S_C_OWNER /\ n.suspend = 0
    BY <2>2, <2>3 DEF Row
  <2>5. Lowered(m, n) => m = p
    BY <2>3, <2>4, Zenon DEF Lowered, IInv, MemInv, Keyed
  <2>6. QED
    <3> SUFFICES ASSUME Lowered(m, n) PROVE FALSE
      OBVIOUS
    <3>1. m = p
      BY <2>5
    <3>2. n.suspend > m.suspend \/ n.level < m.level
      BY Zenon DEF Lowered
    <3> QED
      BY <1>0, <2>4, <3>1, <3>2 DEF Row, S_C_OWNER
<1>5. QED
  BY <1>1, <1>2, <1>3, <1>4

\* A handler that deletes rows remembers who it works for and why.
Answered(m) ==
  \/ run'.op \in {"chandrop", "chanexpire"} /\ run'.chan = m.chan
  \/ m.user \notin accounts'
  \/ Outranks(run'.user, m)

\* The rows a handler starts to delete.
LEMMA AnsweredStart ==
  ASSUME IInv, Authorised, Next, NEW m \in members, m \in run'.todo, m \notin run.todo
  PROVE  Answered(m)
<1>0. run \in Run
  BY DEF IInv, TypeOK
<1>1. ASSUME NEW c \in Chans, NEW u \in Accounts, NEW t \in Accounts, s_chan_deluser(c, u, t)
      PROVE  Answered(m)
  <2>1. PICK a \in verify_member_reg(c, u, S_C_USERLIST), x \in RowsOf(members, c) :
          (a.level > x.level \/ a = x) /\ StartFree("deluser", c, u, {x})
    BY <1>1, Zenon DEF s_chan_deluser
  <2>2. m = x /\ run'.user = u /\ m.chan = c
    BY <2>1 DEF StartFree, RowsOf
  <2>3. a \in members /\ a.chan = c /\ a.user = u /\ a.suspend = 0
    BY <2>1, Verified DEF verify_member_reg
  <2>4. QED
    BY <2>1, <2>2, <2>3 DEF Answered, Outranks
<1>2. ASSUME NEW c \in Chans, NEW u \in Accounts, s_chan_delowner(c, u)
      PROVE  Answered(m)
  <2>1. PICK a \in verify_member_reg(c, u, S_C_OWNER) : StartFree("deluser", c, u, {a})
    BY <1>2, Zenon DEF s_chan_delowner
  <2>2. m = a /\ run'.user = u
    BY <2>1 DEF StartFree
  <2>3. a \in members /\ a.chan = c /\ a.user = u /\ a.suspend = 0
    BY <2>1, Verified DEF verify_member_reg
  <2>4. QED
    BY <2>2, <2>3 DEF Answered, Outranks
<1>3. ASSUME DelownerConfirmed PROVE Answered(m)
  <2>1. m.chan = run.chan /\ m.user = run.user /\ run'.user = run.user /\ run.op = "delauth"
    BY <1>3 DEF DelownerConfirmed, StartFree, RowsOf
  <2>2. QED
    BY <2>1 DEF Authorised, Answered, Outranks
<1>4. ASSUME NEW c \in Chans, o_chan_chandrop(c) \/ ExpireChan(c) PROVE Answered(m)
  <2>1. m.chan = c /\ run'.chan = c /\ run'.op \in {"chandrop", "chanexpire"}
    BY <1>4 DEF o_chan_chandrop, ExpireChan, StartFree, RowsOf
  <2>2. QED
    BY <2>1 DEF Answered
<1>5. ASSUME NEW u \in Accounts, o_user_userdrop(u) \/ ExpireUser(u) PROVE Answered(m)
  <2>1. m.user = u /\ accounts' = accounts \ {u}
    BY <1>5 DEF o_user_userdrop, ExpireUser, StartFree
  <2>2. QED
    BY <2>1 DEF Answered
<1>6. CASE Command
  <2>1. \A c \in Chans, u \in Accounts : ~ChanRegister(c, u) /\ ~DelownerAuth(c, u)
    BY Zenon DEF ChanRegister, DelownerAuth, Idle
  <2>2. QED
    BY <1>1, <1>2, <1>4, <1>5, <1>6, <2>1, CommandRun
<1>7. CASE Event
  BY <1>4, <1>5, <1>7, Zenon DEF Event, StartExpiry, ExpireChanSuspend, ExpireDelowner, Idle
<1>8. CASE Continue
  <2>1. ASSUME NEW r \in run.todo, FreeMember(r) PROVE FALSE
    BY <1>0, <2>1, Zenon DEF FreeMember, Run
  <2>2. ASSUME NEW c \in Chans, FreeChannel(c) PROVE FALSE
    BY <1>0, <2>2 DEF FreeChannel, Run
  <2>3. QED
    BY <1>3, <1>8, <2>1, <2>2, SMTT(60) DEF Continue, InsertOwner, FreeUser, Return, Commit, Idle
<1>9. QED
  BY <1>6, <1>7, <1>8 DEF Next

\* Nobody is suspended, lowered or removed but by a member in good standing who outranks
\* them, by themselves, with their account or with the channel.
THEOREM Removals == Spec => RemovalsJustified
<1>1. IInv /\ Authorised /\ [Next]_vars => [\A m \in members : RemovalJustified(m)]_vars
  <2> SUFFICES ASSUME IInv, Authorised, Next, NEW m \in members
               PROVE  RemovalJustified(m)
    OBVIOUS
  <2>1. ASSUME NEW n \in members', Lowered(m, n)
        PROVE  n.lastmod # m.user /\ Outranks(n.lastmod, m)
    <3>1. CASE \E c \in Chans, u, t \in Accounts, level \in LevelArgs :
                 s_chan_moduser(c, u, t, level) \/ s_chan_suspend(c, u, t, level)
      BY <2>1, <3>1, LoweredCommand
    <3>2. CASE ~\E c \in Chans, u, t \in Accounts, level \in LevelArgs :
                 s_chan_moduser(c, u, t, level) \/ s_chan_suspend(c, u, t, level)
      <4>1. CASE Command
        BY <2>1, <3>2, <4>1, LoweredNever, Zenon DEF Command, UserRegister, o_user_userdrop, ChanRegister,
           s_chan_delowner, DelownerRequest, DelownerAuth, s_chan_deluser, o_chan_chandrop,
           o_chan_chanunsuspend, o_chan_chansuspend, StartFree
      <4>2. CASE Event
        BY <2>1, <4>2, LoweredNever, Zenon DEF Event, StartExpiry, ExpireChan, ExpireChanSuspend, ExpireUser,
           ExpireDelowner, StartFree
      <4>3. CASE Continue
        BY <2>1, <4>3, LoweredNever, Zenon DEF Continue, DelownerConfirmed, FreeUser, Return,
           Commit, FreeChannel, StartFree
      <4>4. QED
        BY <4>1, <4>2, <4>3, SMTT(60) DEF Next
    <3>3. QED
      BY <3>1, <3>2
  <2>2. ASSUME m \in members', m \in db.members, m \notin db'.members
        PROVE  Answered(m)
    <3>1. Sync /\ Sync'
      BY NextStep DEF IInv
    <3>2. m \in run'.todo /\ m \notin run.todo
      BY <2>2, <3>1 DEF Sync
    <3>3. QED
      BY <3>2, AnsweredStart
  <2>3. QED
    BY <2>1, <2>2 DEF RemovalJustified, Lowered, Answered
<1>2. Init => Authorised
  BY DEF Init, Authorised, Idle
<1>3. IInv /\ [Next]_vars => IInv'
  BY NextStep
<1>4. IInv /\ Authorised /\ [Next]_vars => Authorised'
  BY AuthorisedStep
<1>5. QED
  BY <1>1, <1>2, <1>3, <1>4, InitIInv, PTL DEF Spec, RemovalsJustified
==============================================================================
