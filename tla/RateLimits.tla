------------------------------ MODULE RateLimits ------------------------------
(***************************************************************************)
(* The limits in time: penalty points for commands (handle_service in      *)
(* src/service.c), registrations overall and from one host                 *)
(* (s_user_register in src/s_userserv.c, s_chan_register in                *)
(* src/s_chanserv.c, the host table of src/client.c) and mails             *)
(* (src/email.c).                                                          *)
(*                                                                         *)
(* All of them count in a window that begins at the first use after the    *)
(* last window; they differ in when a window is over and in what counts.   *)
(* The limits do not read one another's state, so a behaviour exercises    *)
(* the one chosen in Init.  `log' is what was let through, and when.       *)
(***************************************************************************)
EXTENDS Integers, Sequences, FiniteSets

CONSTANTS
  Limits,        \* which limits a behaviour may be about
  Amount,        \* flood_max, register_amount, host_register_amount, email_number
  Window,        \* flood_time, register_time, host_register_time, email_duration
  MaxIgnore,     \* client_flood_max_ignore
  IgnoreTime,    \* client_flood_ignore_time
  FloodGrace,    \* flood_grace of the service
  Costs,         \* points a command may cost
  MaxTime,       \* bound: seconds
  MaxScore       \* bound: points of one client in a window

\* A limit of registrations is there only if its amount and its time are not 0.
ASSUME LimitAssumption ==
  /\ Limits \subseteq {"flood", "register", "host", "email"}
  /\ Amount \in Nat /\ Window \in Nat /\ FloodGrace \in Nat
  /\ Costs \subseteq Nat /\ \E c \in Costs : \A d \in Costs : d <= c
  /\ {"register", "host"} \cap Limits # {} => Amount > 0 /\ Window > 0

VARIABLES
  limit,         \* the limit this behaviour is about
  now,           \* rb_time()
  window,        \* [start, count]: the window and what was counted in it
  load,          \* service->flood
  host,          \* the host's entry, or NoHost
  log,           \* what was let through: [time, who, cost]
  shut           \* when the client's score last passed MaxIgnore, -1 if it never did

limitVars == <<limit, now, window, load, host, log, shut>>

\* Expiry times of a fresh entry are zero, long before the first second here.
Start == Window + 1
NoHost == [uregister |-> 0, uregister_expire |-> 0, cregister_expire |-> 0]

LimitInit ==
  /\ limit \in Limits
  /\ now = Start
  /\ window = [start |-> 0, count |-> 0]
  /\ load = 0
  /\ host = NoHost
  /\ log = << >>
  /\ shut = -1

LetThrough(who, cost) == log' = Append(log, [time |-> now, who |-> who, cost |-> cost])

\* Mutant: the service is relieved of twice its grace.
TickTwice ==
  /\ now < MaxTime
  /\ now' = now + 1
  /\ load' = IF load > 2 * FloodGrace THEN load - 2 * FloodGrace ELSE 0
  /\ UNCHANGED <<limit, window, host, log, shut>>

\* A second passes, and update_service_floodcount runs.
Tick ==
  /\ now < MaxTime
  /\ now' = now + 1
  /\ load' = IF load > FloodGrace THEN load - FloodGrace ELSE 0
  /\ UNCHANGED <<limit, window, host, log, shut>>

-----------------------------------------------------------------------------
(* Commands.                                                               *)

\* The window of a limit that is over when start + duration < now.
Current == IF window.start + Window < now THEN [start |-> now, count |-> 0] ELSE window

\* handle_service, for a client without an oper block: too many points and it
\* is ignored, many points and it is told so, each for one point more.
handle_service(cost) ==
  LET w == Current
      ignored == w.count > MaxIgnore
      paced == load > Amount \/ w.count > Amount
      points == IF ignored \/ paced THEN 1 ELSE cost
  IN
  /\ limit = "flood" /\ w.count < MaxScore
  /\ window' = [w EXCEPT !.count = @ + points]
  /\ shut' = IF w.count <= MaxIgnore /\ w.count + points > MaxIgnore THEN now ELSE shut
  /\ IF ignored \/ paced THEN UNCHANGED <<load, log>>
                         ELSE load' = load + cost /\ LetThrough("one", cost)
  /\ UNCHANGED <<limit, now, host>>

\* Commands of other clients at the same service.
OtherCommand(cost) ==
  /\ limit = "flood"
  /\ load <= Amount
  /\ load' = load + cost
  /\ LetThrough("others", cost)
  /\ UNCHANGED <<limit, now, window, host, shut>>

-----------------------------------------------------------------------------
(* Registrations.                                                          *)

\* The overall limit of s_user_register and s_chan_register.
RegisterOverall ==
  /\ limit = "register"
  /\ IF window.start + Window < now
     THEN window' = [start |-> now, count |-> 1]
     ELSE window.count < Amount /\ window' = [window EXCEPT !.count = @ + 1]
  /\ LetThrough("one", 1)
  /\ UNCHANGED <<limit, now, load, host, shut>>

\* The limit of a host in s_user_register: the entry is found or made, and the
\* count goes up only when the mail with the token, if there is one, was sent.
RegisterFromHost(sent) ==
  /\ limit = "host"
  /\ ~ (host.uregister >= Amount /\ host.uregister_expire > now)
  /\ LET h == IF host.uregister_expire <= now
              THEN [host EXCEPT !.uregister_expire = now + Window, !.uregister = 0]
              ELSE host
     IN IF sent THEN host' = [h EXCEPT !.uregister = @ + 1] /\ LetThrough("one", 1)
                ELSE host' = h /\ UNCHANGED log
  /\ UNCHANGED <<limit, now, window, load, shut>>

\* The limit of a host in s_chan_register moves only the other expiry time.
ChannelFromHost ==
  /\ limit = "host"
  /\ host.cregister_expire <= now
  /\ host' = [host EXCEPT !.cregister_expire = now + Window]
  /\ UNCHANGED <<limit, now, window, load, log, shut>>

\* cleanup_host_table: the entry is forgotten once everything in it is over.
cleanup_host_table ==
  /\ limit = "host"
  /\ host.cregister_expire < now /\ host.uregister_expire < now
  /\ host' = NoHost
  /\ UNCHANGED <<limit, now, window, load, log, shut>>

-----------------------------------------------------------------------------
(* Mails.                                                                  *)

\* Mutant: email_number mails are not yet too many.
CanSendOneMore == window.start + Window < now \/ window.count <= Amount

\* can_send_email: the window is begun anew, or there is room in it.
can_send_email == window.start + Window < now \/ window.count < Amount

\* send_email.  A mail that fails after the count has been counted.
send_email(sent) ==
  /\ limit = "email"
  /\ can_send_email
  /\ window' = [Current EXCEPT !.count = @ + 1]
  /\ IF sent THEN LetThrough("one", 1) ELSE UNCHANGED log
  /\ UNCHANGED <<limit, now, load, host, shut>>

LimitNext ==
  \/ Tick
  \/ \E cost \in Costs : handle_service(cost) \/ OtherCommand(cost)
  \/ RegisterOverall
  \/ \E sent \in BOOLEAN : RegisterFromHost(sent) \/ send_email(sent)
  \/ ChannelFromHost
  \/ cleanup_host_table

LimitSpec == LimitInit /\ [][LimitNext]_limitVars

-----------------------------------------------------------------------------

\* Types; a host is never counted beyond its limit, and no time is in the future.
LimitTypeOK ==
  /\ limit \in Limits /\ now \in Start .. MaxTime
  /\ window.start \in 0 .. now /\ window.count \in Nat
  /\ load \in Nat
  /\ host.uregister \in 0 .. Amount
  /\ host.uregister_expire \in 0 .. now + Window /\ host.cregister_expire \in 0 .. now + Window
  /\ \A i \in DOMAIN log : log[i].time \in Start .. now
  /\ shut \in -1 .. now

\* The points of `who' let through from second `first' to second `last'.
PointsIn(who, first, last) ==
  LET upto[i \in 0 .. Len(log)] ==
        IF i = 0 THEN 0
        ELSE upto[i - 1] + (IF log[i].who \in who /\ log[i].time \in first .. last THEN log[i].cost ELSE 0)
  IN upto[Len(log)]

MostPoints == CHOOSE c \in Costs : \A d \in Costs : d <= c

\* Wherever a stretch as long as a window begins, no more than two windows' worth
\* is let through in it.  A mail may be sent in a window even if email_number
\* is 0, and the last command of a window may exceed the score by what it costs.
WindowBound ==
  \A t \in Start .. now :
    CASE limit = "flood"    -> PointsIn({"one"}, t, t + Window) <= 2 * (Amount + MostPoints)
      [] limit = "register" -> PointsIn({"one"}, t, t + Window) <= 2 * Amount
      [] limit = "host"     -> PointsIn({"one"}, t, t + Window - 1) <= 2 * Amount
      [] limit = "email"    -> PointsIn({"one"}, t, t + Window) <=
                                 2 * (IF Amount = 0 THEN 1 ELSE Amount)

\* Over any stretch of time a service carries out what its flood_max allows, what
\* it was relieved of second by second, and the excess of one command.
ServiceBound ==
  limit = "flood" =>
    \A first \in Start .. now :
      PointsIn({"one", "others"}, first, now) <= Amount + MostPoints + FloodGrace * (now - first)

\* "client flood ignore time: the duration for which we ignore a client"
IgnoredLongEnough ==
  limit = "flood" /\ shut # -1 =>
    \A i \in DOMAIN log : log[i].who = "one" /\ log[i].time > shut => log[i].time >= shut + IgnoreTime
=============================================================================
