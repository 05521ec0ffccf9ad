------------------------------- MODULE Uplink -------------------------------
(***************************************************************************)
(* The life of the connection to the uplink, server_p (src/io.c, with the  *)
(* handshake of src/scommand.c and src/client.c).  Time is counted in runs *)
(* of check_server_status(), which are 5 seconds apart.  A reading of the  *)
(* socket handles all the lines it got before anything else happens.  What *)
(* an event of a forgotten connection finds in freed memory is left out.   *)
(***************************************************************************)
EXTENDS Integers

CONSTANTS
  ping_time, reconnect_time,           \* of the configuration
  ConnectTimeout, HandshakeTimeout,    \* 30 and 60 seconds
  WriteErrors                          \* whether a write may fail

ASSUME TimeAssumption ==
  /\ ping_time \in Nat \ {0} /\ reconnect_time \in Nat
  /\ ConnectTimeout \in Nat \ {0} /\ HandshakeTimeout \in Nat \ {0}

ASSUME WriteAssumption == WriteErrors \in BOOLEAN

VARIABLES
  conn,        \* server_p: none, or how far it has come; ended: no process
  dead,        \* CONN_DEAD
  armed,       \* an event is registered on its socket: connected, or readable
  ts, ts6,     \* CONN_TS; whether PASS carried a valid sid
  client,      \* server_p->client_p
  sentping,    \* CONN_SENTPING
  age,         \* time since first_time and last_time were set
  quiet,       \* time since something was read
  timer,       \* the connect_to_server event: time left
  reading      \* inside read_server()

vars == <<conn, dead, armed, ts, ts6, client, sentping, age, quiet, timer, reading>>

None == -1

\* The times stop where no comparison can tell any more.
AgeBound == 2 * ping_time + ConnectTimeout + HandshakeTimeout

Later(n) == IF n < AgeBound THEN n + 1 ELSE n

Init ==
  /\ conn = "null" /\ dead = FALSE /\ armed = FALSE /\ ts = FALSE /\ ts6 = FALSE
  /\ client = "none" /\ sentping = FALSE /\ age = 0 /\ quiet = 0
  /\ timer = 0 /\ reading = FALSE

\* Mutant: no reconnection after a failed handshake.
SignoffNoRetry ==
  /\ dead' = TRUE
  /\ timer' = IF dead \/ client = "none" THEN timer ELSE reconnect_time
  /\ client' = IF ~dead /\ client = "alive" THEN "exited" ELSE client
  /\ armed' = (armed /\ dead)

\* signoff_server: nothing if it is dead already, else the reconnection is
\* scheduled, the uplink's client exits and the socket is closed.
signoff_server ==
  /\ dead' = TRUE
  /\ timer' = IF dead THEN timer ELSE reconnect_time
  /\ client' = IF ~dead /\ client = "alive" THEN "exited" ELSE client
  /\ armed' = (armed /\ dead)

\* Mutant: the event is a periodic one.
ConnectPeriodic ==
  /\ ~reading /\ timer = 0
  /\ timer' = reconnect_time
  /\ IF conn # "null"
     THEN UNCHANGED <<conn, dead, armed, ts, ts6, client, sentping, age, quiet>>
     ELSE /\ conn' = "connecting" /\ dead' = FALSE /\ armed' \in BOOLEAN /\ ts' = FALSE /\ ts6' = FALSE
          /\ client' = "none" /\ sentping' = FALSE /\ age' = 0 /\ quiet' = 0
  /\ UNCHANGED reading

\* connect_to_server, from its one-time event.  connect_to_generic() gives up
\* silently when there is no address or no socket.
connect_to_server ==
  /\ ~reading /\ timer = 0
  /\ timer' = None
  /\ IF conn # "null"
     THEN UNCHANGED <<conn, dead, armed, ts, ts6, client, sentping, age, quiet>>
     ELSE /\ conn' = "connecting" /\ dead' = FALSE /\ armed' \in BOOLEAN /\ ts' = FALSE /\ ts6' = FALSE
          /\ client' = "none" /\ sentping' = FALSE /\ age' = 0 /\ quiet' = 0
  /\ UNCHANGED reading

-----------------------------------------------------------------------------
(* check_server_status, every 5 seconds.                                   *)

\* The one-time event comes nearer.
Countdown == timer' = IF timer > 0 THEN timer - 1 ELSE timer

\* The flags of the uplink's client are read, also after it was freed.
LooksDead == client = "exited" \/ client = "freed"
LooksAlive == client # "exited"

\* Mutant: a handshake may take for ever.
TimedOutNotHandshake ==
  \/ conn = "connecting" /\ age >= ConnectTimeout
  \/ sentping /\ conn # "handshake" /\ age >= 2 * ping_time

TimedOut ==
  \/ conn = "connecting" /\ age >= ConnectTimeout
  \/ conn = "handshake" /\ age >= HandshakeTimeout
  \/ sentping /\ age >= 2 * ping_time

Quiet == conn = "null" /\ Countdown /\ UNCHANGED <<conn, dead, armed, client, sentping>>

\* Dead: forgotten.
Forget ==
  /\ conn # "null" /\ dead
  /\ conn' = "null" /\ dead' = FALSE /\ armed' = FALSE /\ client' = "none"
  /\ Countdown
  /\ UNCHANGED <<sentping>>

\* Alive, but not for long.
GiveUp ==
  /\ conn # "null" /\ ~dead
  /\ (client # "none" /\ LooksDead) \/ TimedOut
  /\ signoff_server
  /\ UNCHANGED <<conn, sentping>>

Ping ==
  /\ conn # "null" /\ ~dead
  /\ LooksAlive /\ ~TimedOut
  /\ sentping' = (sentping \/ age >= ping_time)
  /\ Countdown
  /\ UNCHANGED <<conn, dead, armed, client>>

check_server_status ==
  /\ ~reading /\ conn # "ended"
  /\ Quiet \/ Forget \/ GiveUp \/ Ping
  /\ age' = Later(age) /\ quiet' = Later(quiet)
  /\ UNCHANGED <<ts, ts6, reading>>

\* cleanup_exited_clients, every minute: what is on exited_list is freed.
cleanup_exited_clients ==
  /\ ~reading /\ client = "exited"
  /\ client' = "freed"
  /\ UNCHANGED <<conn, dead, armed, ts, ts6, sentping, age, quiet, timer, reading>>

-----------------------------------------------------------------------------
(* Reading.                                                                *)

Established == conn \notin {"null", "connecting", "ended"}

\* read_any: lines, or also the end of the stream behind them.  The event is
\* registered again only in the first case.  last_time is not set: the loop is
\* left by its returns only.
read_any ==
  \/ armed' = TRUE /\ UNCHANGED <<dead, timer, client>>
  \/ dead /\ armed' = FALSE /\ UNCHANGED <<dead, timer, client>>
  \/ ~dead /\ signoff_server

\* The start of read_server, which clears CONN_SENTPING.
StartReading == read_any /\ reading' = TRUE /\ sentping' = FALSE

read_server ==
  /\ ~reading /\ armed /\ Established
  /\ StartReading /\ quiet' = 0
  /\ UNCHANGED <<conn, ts, ts6, age>>

\* connect_callback: signon_server on success, which sends PASS and reads,
\* signoff_server on a timeout; any other failure is only logged.
connect_callback(status) ==
  /\ ~reading /\ armed /\ conn = "connecting"
  /\ \/ /\ status = "RB_OK" /\ ~dead
        /\ conn' = "handshake"
        /\ StartReading /\ quiet' \in {0, quiet}
     \/ /\ status = "RB_OK" /\ (dead \/ WriteErrors)
        /\ conn' = "handshake" /\ dead' = TRUE /\ armed' = FALSE
        /\ UNCHANGED <<timer, client, reading, sentping, quiet>>
     \/ /\ status = "RB_ERR_TIMEOUT" /\ ~dead
        /\ signoff_server
        /\ UNCHANGED <<conn, reading, sentping, quiet>>
     \/ /\ status = "RB_ERROR" \/ (status = "RB_ERR_TIMEOUT" /\ dead)
        /\ armed' = FALSE
        /\ UNCHANGED <<conn, dead, timer, client, reading, sentping, quiet>>
  /\ UNCHANGED <<ts, ts6, age>>

\* No line is left.  IsDead(conn_p), meant to stop earlier, looks at the flag
\* of a struct client: CONN_CONNECTING in a struct lconn.
ReadDone ==
  /\ reading /\ reading' = FALSE
  /\ UNCHANGED <<conn, dead, armed, ts, ts6, client, sentping, age, quiet, timer>>

\* c_pass: a wrong password, a server without TS6, or a good one.
c_pass(kind) ==
  /\ reading /\ client = "none"
  /\ ts' = (ts \/ kind # "mismatch")
  /\ ts6' = (ts6 \/ kind = "ts6")
  /\ IF kind = "ts6" THEN UNCHANGED <<dead, armed, timer, client>> ELSE signoff_server
  /\ UNCHANGED <<conn, sentping, age, quiet, reading>>

\* A copy from a null pointer ends the process, its timers included.
ProcessEnds ==
  /\ conn' = "ended" /\ dead' = TRUE /\ armed' = FALSE
  /\ client' = "none" /\ timer' = None /\ reading' = FALSE

\* c_server from the uplink itself, which copies server_p->sid once its two
\* checks are passed: there is none unless PASS carried it.
c_server(ours) ==
  /\ reading /\ client = "none"
  /\ \/ /\ ts /\ ours /\ ts6
        /\ conn' = "linked" /\ client' = "alive"
        /\ UNCHANGED <<dead, armed, timer, reading>>
     \/ /\ ts /\ ours /\ ~ts6
        /\ ProcessEnds
     \/ /\ ~(ts /\ ours)
        /\ signoff_server
        /\ UNCHANGED <<conn, reading>>
  /\ UNCHANGED <<ts, ts6, sentping, age, quiet>>

\* c_pong: the burst is over.
c_pong ==
  /\ reading /\ client = "alive" /\ conn = "linked"
  /\ conn' = "eob"
  /\ UNCHANGED <<dead, armed, ts, ts6, client, sentping, age, quiet, timer, reading>>

c_error ==
  /\ reading /\ client \in {"none", "alive"}
  /\ signoff_server
  /\ UNCHANGED <<conn, ts, ts6, sentping, age, quiet, reading>>

\* c_squit of the uplink, or h_jupeserv_finburst: exit_client(server_p->client_p).
UplinkExits ==
  /\ reading /\ client = "alive"
  /\ client' = "exited"
  /\ UNCHANGED <<conn, dead, armed, ts, ts6, sentping, age, quiet, timer, reading>>

\* u_connect: an admin reroutes.
u_connect ==
  /\ ~reading /\ conn # "null" /\ ~dead
  /\ signoff_server
  /\ UNCHANGED <<conn, ts, ts6, sentping, age, quiet, reading>>

\* send_queued: whatever handler is sending.  The socket stays open.
WriteError ==
  /\ WriteErrors /\ conn # "null" /\ ~dead
  /\ dead' = TRUE
  /\ UNCHANGED <<conn, armed, ts, ts6, client, sentping, age, quiet, timer, reading>>

\* There is nothing left to run.
Ended == conn = "ended" /\ UNCHANGED vars

Next ==
  \/ connect_to_server \/ check_server_status \/ cleanup_exited_clients
  \/ \E status \in {"RB_OK", "RB_ERR_TIMEOUT", "RB_ERROR"} : connect_callback(status)
  \/ read_server \/ ReadDone
  \/ \E kind \in {"mismatch", "ts5", "ts6"} : c_pass(kind)
  \/ \E ours \in BOOLEAN : c_server(ours)
  \/ c_pong \/ c_error \/ UplinkExits \/ u_connect \/ WriteError \/ Ended

\* A reading ends, and the event loop runs its events.
Fairness ==
  WF_vars(ReadDone) /\ SF_vars(check_server_status) /\ SF_vars(connect_to_server)

Spec == Init /\ [][Next]_vars /\ Fairness

-----------------------------------------------------------------------------
(* Properties.                                                             *)

\* The types of the connection and of the timers of io.c.
TypeOK ==
  /\ conn \in {"null", "connecting", "handshake", "linked", "eob", "ended"}
  /\ dead \in BOOLEAN /\ armed \in BOOLEAN /\ ts \in BOOLEAN /\ ts6 \in BOOLEAN
  /\ sentping \in BOOLEAN /\ reading \in BOOLEAN
  /\ client \in {"none", "alive", "exited", "freed"}
  /\ age \in 0 .. AgeBound /\ quiet \in 0 .. AgeBound
  /\ timer \in None .. reconnect_time
  /\ ts6 => ts

\* connect_to_server() is scheduled only while there is no connection or it is
\* dead: signoff_server() never schedules a second one.
OneTimer == timer # None => conn = "null" \/ dead

\* While the process runs without a connection, or with a dead one, a
\* reconnection is scheduled: signoff_server() adds the event.
NeverStranded == conn # "ended" /\ (conn = "null" \/ dead) => timer # None

\* So whenever the connection is lost connect_to_server() tries another, as
\* long as the process runs.
Reconnects == (conn = "null" \/ dead) ~> conn \in {"connecting", "ended"}

\* No connection stays half open, whatever the uplink sends or does not send.
HandshakeEnds == conn \in {"connecting", "handshake"} ~> conn \notin {"connecting", "handshake"}

\* "time duration to send PINGs after no data" (doc/example.conf).
PingsAfterSilence ==
  [][~sentping /\ sentping' => quiet >= ping_time]_vars

\* "This will also cover the TS6 check" (c_server): whoever gets past that
\* check has given a sid, be it that c_server() then links the uplink or that
\* the process ends at the copy of the sid.
TS6Checked == conn \in {"linked", "eob", "ended"} => ts6

=============================================================================
