--------------------------- MODULE NetworkProofs ----------------------------
(***************************************************************************)
(* The network and the database: the reconnection event of the uplink, for *)
(* any times of the configuration; and the database hooks, for any names,  *)
(* values, number of rows and of kills (UserSync).                         *)
(***************************************************************************)
EXTENDS Uplink, UserSync, WellFoundedInduction, TLAPS

\* How a leaf that names no prover is tried.
USE SMT, Zenon, SMTT(20)

(* Uplink.                                                                 *)

\* The configuration and the network under which nothing is lost: the event
\* fires after the next check_server_status() and no write fails.
Reliable == reconnect_time > 0 /\ ~WriteErrors

ReadsEstablished == reading => Established

\* A dead connection is forgotten before the event fires.
DeadWaits == dead /\ conn # "ended" => conn # "null" /\ timer > 0

IInv == TypeOK /\ ReadsEstablished /\ OneTimer /\ (Reliable => NeverStranded /\ DeadWaits)

\* The bounds are numbers.
LEMMA Bounds == AgeBound \in Nat /\ reconnect_time \in Nat /\ None = -1
BY TimeAssumption DEF AgeBound, None

\* The values that resets use are in range.
LEMMA Zeros ==
  /\ 0 \in 0 .. AgeBound
  /\ 0 \in None .. reconnect_time /\ None \in None .. reconnect_time
BY Bounds

\* At startup there is no connection and the event is due.
LEMMA Initial == Init => IInv
<1> SUFFICES ASSUME Init PROVE IInv
  OBVIOUS
<1>1. TypeOK
  BY Zeros, Zenon DEF Init, TypeOK
<1>2. ReadsEstablished /\ OneTimer /\ NeverStranded /\ DeadWaits
  BY Bounds DEF Init, ReadsEstablished, OneTimer, NeverStranded, DeadWaits
<1> QED
  BY <1>1, <1>2 DEF IInv

\* signoff_server: what it leaves of the invariant whatever else changes.
LEMMA Signoff ==
  ASSUME IInv, signoff_server, ~dead \/ conn # "ended"
  PROVE  /\ dead' = TRUE /\ armed' \in BOOLEAN
         /\ timer' \in None .. reconnect_time
         /\ client' \in {"none", "alive", "exited", "freed"}
         /\ Reliable => timer' > 0
BY Bounds DEF IInv, TypeOK, DeadWaits, signoff_server, Reliable

\* A later time is a time.
LEMMA LaterType == \A n \in 0 .. AgeBound : Later(n) \in 0 .. AgeBound
BY Bounds DEF Later

\* A step after which the connection is dead keeps the invariant, when the
\* reconnection is scheduled.
LEMMA DeadStep ==
  ASSUME TypeOK', ReadsEstablished', dead' = TRUE, conn' # "null", Reliable => timer' > 0
  PROVE  IInv'
BY DEF IInv, OneTimer, NeverStranded, DeadWaits, None

\* A step that leaves alone what the event depends on keeps the invariant.
LEMMA OtherStep ==
  ASSUME IInv, TypeOK', ReadsEstablished', UNCHANGED <<dead, timer>>,
         (conn' = "null") = (conn = "null"), (conn' = "ended") = (conn = "ended")
  PROVE  IInv'
BY DEF IInv, OneTimer, NeverStranded, DeadWaits

\* A reading may find the end of the stream.
LEMMA StartStep ==
  ASSUME IInv, StartReading, conn \notin {"null", "ended"}, Established',
         conn' \in {"handshake", "linked", "eob"},
         quiet' \in 0 .. AgeBound, UNCHANGED <<ts, ts6, age>>
  PROVE  IInv'
<1>1. ReadsEstablished'
  BY DEF ReadsEstablished
<1>2. CASE armed' \in BOOLEAN /\ UNCHANGED <<dead, timer, client>>
  BY <1>1, <1>2, OtherStep, Zenon DEF IInv, TypeOK, StartReading
<1>3. CASE ~dead /\ signoff_server
  BY <1>1, <1>3, Signoff, DeadStep, Zenon DEF IInv, TypeOK, StartReading
<1> QED
  BY <1>2, <1>3, Zenon DEF StartReading, read_any

\* check_server_status: it forgets a dead connection before the event fires.
LEMMA CheckStep == IInv /\ check_server_status => IInv'
<1> SUFFICES ASSUME IInv, check_server_status PROVE IInv'
  OBVIOUS
<1>0. age' \in 0 .. AgeBound /\ quiet' \in 0 .. AgeBound
  BY LaterType DEF IInv, TypeOK, check_server_status
<1>1. CASE Quiet
  <2>1. TypeOK' /\ ReadsEstablished'
    BY <1>0, <1>1, Bounds DEF IInv, TypeOK, ReadsEstablished, Established, Quiet, Countdown, check_server_status
  <2> QED
    BY <1>1, <2>1, Bounds DEF IInv, TypeOK, OneTimer, NeverStranded, DeadWaits, Quiet, Countdown
<1>2. CASE Forget
  <2>1. TypeOK' /\ ReadsEstablished'
    <3>1. timer' \in None .. reconnect_time
      BY <1>2, Bounds DEF IInv, TypeOK, Forget, Countdown
    <3> QED
      BY <1>0, <1>2, <3>1, Zenon DEF IInv, TypeOK, ReadsEstablished, Forget, check_server_status
  <2> QED
    BY <1>2, <2>1, Bounds
    DEF IInv, TypeOK, OneTimer, NeverStranded, DeadWaits, Forget, Countdown, check_server_status
<1>3. CASE GiveUp
  <2>1. TypeOK' /\ ReadsEstablished'
    BY <1>0, <1>3, Signoff, Zenon DEF IInv, TypeOK, ReadsEstablished, Established, GiveUp, check_server_status
  <2> QED
    BY <1>3, <2>1, Signoff, DeadStep DEF GiveUp
<1>4. CASE Ping
  <2>1. TypeOK' /\ ReadsEstablished'
    <3>1. sentping' \in BOOLEAN
      BY <1>4 DEF Ping
    <3> QED
      BY <1>0, <1>4, <3>1, Bounds DEF IInv, TypeOK, ReadsEstablished, Established, Ping, Countdown, check_server_status
  <2>2. timer' = None <=> timer = None
    BY <1>4, Bounds DEF IInv, TypeOK, Ping, Countdown
  <2> QED
    BY <1>4, <2>1, <2>2 DEF IInv, OneTimer, NeverStranded, DeadWaits, Ping
<1> QED
  BY <1>1, <1>2, <1>3, <1>4 DEF check_server_status

\* Every step keeps the invariant.
LEMMA Inductive == IInv /\ [Next]_vars => IInv'
<1> SUFFICES ASSUME IInv, [Next]_vars PROVE IInv'
  OBVIOUS
<1>1. CASE connect_to_server
  <2>1. TypeOK' /\ ReadsEstablished'
    BY <1>1, Zeros, Zenon DEF IInv, TypeOK, ReadsEstablished, Established, connect_to_server
  <2>2. OneTimer'
    BY <1>1 DEF connect_to_server, OneTimer
  <2>3. Reliable => NeverStranded' /\ DeadWaits'
    <3>1. CASE conn = "null"
      BY <1>1, <3>1 DEF connect_to_server, NeverStranded, DeadWaits
    <3>2. CASE conn # "null"
      BY <1>1, <3>2 DEF IInv, connect_to_server, NeverStranded, DeadWaits
    <3> QED
      BY <3>1, <3>2
  <2> QED
    BY <2>1, <2>2, <2>3 DEF IInv
<1>2. CASE check_server_status
  BY <1>2, CheckStep
<1>3. CASE cleanup_exited_clients
  BY <1>3, OtherStep DEF IInv, TypeOK, ReadsEstablished, Established, cleanup_exited_clients
<1>4. ASSUME NEW status \in {"RB_OK", "RB_ERR_TIMEOUT", "RB_ERROR"}, connect_callback(status)
      PROVE  IInv'
  <2>0. conn = "connecting"
    BY <1>4 DEF connect_callback
  <2>1. CASE status = "RB_OK" /\ ~dead /\ conn' = "handshake" /\ StartReading
             /\ quiet' \in {0, quiet} /\ UNCHANGED <<ts, ts6, age>>
    BY <2>0, <2>1, Zeros, StartStep DEF IInv, TypeOK, Established
  <2>2. CASE status = "RB_OK" /\ (dead \/ WriteErrors) /\ dead' = TRUE /\ armed' = FALSE
             /\ conn' = "handshake"
             /\ UNCHANGED <<ts, ts6, age, timer, client, reading, sentping, quiet>>
    <3>1. TypeOK' /\ ReadsEstablished'
      BY <2>0, <2>2, Zenon DEF IInv, TypeOK, ReadsEstablished, Established
    <3>2. Reliable => timer' > 0
      BY <2>0, <2>2 DEF IInv, Reliable, DeadWaits
    <3> QED
      BY <2>2, <3>1, <3>2, DeadStep
  <2>3. CASE status = "RB_ERR_TIMEOUT" /\ ~dead /\ signoff_server
             /\ UNCHANGED <<ts, ts6, age, conn, reading, sentping, quiet>>
    BY <2>0, <2>3, Signoff, DeadStep, Zenon DEF IInv, TypeOK, ReadsEstablished, Established
  <2>4. CASE armed' = FALSE
             /\ UNCHANGED <<ts, ts6, age, conn, dead, timer, client, reading, sentping, quiet>>
    BY <2>4, OtherStep, Zenon DEF IInv, TypeOK, ReadsEstablished, Established
  <2> QED
    BY <1>4, <2>1, <2>2, <2>3, <2>4, Zenon DEF connect_callback
<1>5. CASE read_server
  BY <1>5, Zeros, StartStep DEF IInv, TypeOK, Established, read_server
<1>6. CASE ReadDone
  BY <1>6, OtherStep, ZenonT(60) DEF IInv, TypeOK, ReadsEstablished, ReadDone
<1>7. ASSUME NEW kind \in {"mismatch", "ts5", "ts6"}, c_pass(kind) PROVE IInv'
  <2>0. ts' \in BOOLEAN /\ ts6' \in BOOLEAN /\ (ts6' => ts')
    BY <1>7 DEF IInv, TypeOK, c_pass
  <2>1. CASE kind = "ts6"
    BY <1>7, <2>0, <2>1, OtherStep DEF IInv, TypeOK, ReadsEstablished, Established, c_pass
  <2>2. CASE kind # "ts6"
    BY <1>7, <2>0, <2>2, Signoff, DeadStep, Zenon DEF IInv, TypeOK, ReadsEstablished, Established, c_pass
  <2> QED
    BY <2>1, <2>2
<1>8. ASSUME NEW ours \in BOOLEAN, c_server(ours) PROVE IInv'
  <2>0. conn \notin {"null", "ended"}
    BY <1>8 DEF IInv, ReadsEstablished, Established, c_server
  <2>1. CASE ts /\ ours /\ ts6
    BY <1>8, <2>0, <2>1, OtherStep DEF IInv, TypeOK, ReadsEstablished, Established, c_server
  <2>2. CASE ts /\ ours /\ ~ts6
    <3>1. ProcessEnds /\ UNCHANGED <<ts, ts6, sentping, age, quiet>>
      BY <1>8, <2>2, Zenon DEF c_server
    <3>2. TypeOK' /\ ReadsEstablished'
      BY <3>1, Zeros, Zenon DEF IInv, TypeOK, ReadsEstablished, ProcessEnds
    <3> QED
      BY <3>1, <3>2 DEF IInv, OneTimer, NeverStranded, DeadWaits, ProcessEnds
  <2>3. CASE ~(ts /\ ours)
    BY <1>8, <2>0, <2>3, Signoff, DeadStep, Zenon DEF IInv, TypeOK, ReadsEstablished, Established, c_server
  <2> QED
    BY <2>1, <2>2, <2>3
<1>9. CASE c_pong
  BY <1>9, OtherStep DEF IInv, TypeOK, ReadsEstablished, Established, c_pong
<1>10. CASE c_error
  BY <1>10, Signoff, DeadStep, Zenon DEF IInv, TypeOK, ReadsEstablished, Established, c_error
<1>11. CASE UplinkExits
  BY <1>11, OtherStep DEF IInv, TypeOK, ReadsEstablished, Established, UplinkExits
<1>12. CASE u_connect
  BY <1>12, Signoff, DeadStep, Zenon DEF IInv, TypeOK, ReadsEstablished, Established, u_connect
<1>13. CASE WriteError
  <2>1. ~Reliable
    BY <1>13 DEF WriteError, Reliable
  <2> QED
    BY <1>13, <2>1 DEF IInv, TypeOK, ReadsEstablished, Established, OneTimer, WriteError
<1>14. CASE UNCHANGED vars \/ Ended
  BY <1>14, OtherStep DEF IInv, TypeOK, ReadsEstablished, Established, Ended, vars
<1> QED
  BY <1>1, <1>2, <1>3, <1>4, <1>5, <1>6, <1>7, <1>8, <1>9, <1>10, <1>11, <1>12,
     <1>13, <1>14 DEF Next

\* At most one connect_to_server event is scheduled, and none while a
\* connection is alive, whatever the times are and whether writes fail.
THEOREM SingleReconnect == Spec => [](TypeOK /\ OneTimer)
<1>1. IInv => TypeOK /\ OneTimer
  BY DEF IInv
<1> QED
  BY <1>1, Initial, Inductive, PTL DEF Spec

\* If reconnect_time is longer than the period of check_server_status() and
\* no write fails, a reconnection is scheduled whenever the process runs and
\* there is no live connection.
THEOREM AlwaysRescheduled == Spec => [](Reliable => NeverStranded)
<1>1. IInv => (Reliable => NeverStranded)
  BY DEF IInv
<1> QED
  BY <1>1, Initial, Inductive, PTL DEF Spec

-----------------------------------------------------------------------------
(* UserSync.                                                               *)

\* Sets of natural numbers have a least element.
LEMMA LeastNat ==
  ASSUME NEW S \in SUBSET Nat, S # {}
  PROVE  \E n \in S : \A m \in S : n <= m
<1>1. PICK n \in S : \A m \in S : ~ (<<m, n>> \in OpToRel(<, Nat))
  BY NatLessThanWellFounded, WFMin, Zenon
<1>2. \A m \in S : ~ (m < n)
  BY <1>1, Zenon DEF OpToRel
<1> QED
  BY <1>2

\* Induction up to n: a set with 0, and with i whenever it has i - 1.
LEMMA UpTo ==
  ASSUME NEW n \in Nat, NEW S, 0 \in S, \A i \in 1 .. n : i - 1 \in S => i \in S
  PROVE  \A i \in 0 .. n : i \in S
<1> DEFINE Out == {i \in 0 .. n : i \notin S}
<1> SUFFICES ASSUME Out # {} PROVE FALSE
  OBVIOUS
<1>0. Out \in SUBSET Nat
  OBVIOUS
<1>1. PICK i \in Out : \A j \in Out : i <= j
  BY <1>0, LeastNat, Zenon
<1>2. i \in 1 .. n /\ i - 1 \in 0 .. n
  BY <1>1
<1>3. i - 1 \in S
  BY <1>1, <1>2
<1> QED
  BY <1>2, <1>3

\* The stages of the recursive functions: those of Picked.
PickStages(g, rows, S, n) ==
  g = [i \in 0 .. n |-> IF i = 0 THEN << >>
                        ELSE IF rows[i] \in S THEN Append(g[i - 1], rows[i]) ELSE g[i - 1]]

\* Picked, the rows of a set in their order, is the last of its stages.
LEMMA PickedStages ==
  ASSUME NEW rows, Len(rows) \in Nat, NEW S
  PROVE  \E g : PickStages(g, rows, S, Len(rows)) /\ Hook!Picked(rows, S) = g[Len(rows)]
<1> DEFINE T == {n \in Nat : \E g : PickStages(g, rows, S, n)}
<1>1. 0 \in T
  <2> DEFINE g == [i \in 0 .. 0 |-> << >>]
  <2>1. PickStages(g, rows, S, 0)
    BY DEF PickStages
  <2> QED
    BY <2>1
<1>2. ASSUME NEW n \in 1 .. Len(rows), n - 1 \in T PROVE n \in T
  <2>1. n - 1 \in Nat /\ n # 0 /\ n \in Nat
    OBVIOUS
  <2>2. PICK g : PickStages(g, rows, S, n - 1)
    BY <1>2
  <2> DEFINE last == IF rows[n] \in S THEN Append(g[n - 1], rows[n]) ELSE g[n - 1]
             h == [i \in 0 .. n |-> IF i = n THEN last ELSE g[i]]
  <2>3. \A i \in 0 .. n : h[i] = IF i = 0 THEN << >>
                                 ELSE IF rows[i] \in S THEN Append(h[i - 1], rows[i]) ELSE h[i - 1]
    <3> TAKE i \in 0 .. n
    <3>1. CASE i = n
      BY <2>1, <3>1
    <3>2. CASE i # n
      <4>1. i \in 0 .. n - 1 /\ h[i] = g[i] /\ (i # 0 => h[i - 1] = g[i - 1])
        BY <2>1, <3>2
      <4> HIDE DEF h, last
      <4> QED
        BY <2>2, <4>1, Zenon DEF PickStages
    <3> QED
      BY <3>1, <3>2
  <2>4. h = [i \in 0 .. n |-> h[i]]
    OBVIOUS
  <2> HIDE DEF h, last
  <2>5. PickStages(h, rows, S, n)
    BY <2>3, <2>4 DEF PickStages
  <2> QED
    BY <2>1, <2>5
<1> HIDE DEF T
<1>3. \A i \in 0 .. Len(rows) : i \in T
  BY <1>1, <1>2, UpTo, Zenon
<1>4. \E g : PickStages(g, rows, S, Len(rows))
  BY <1>3 DEF T
<1> DEFINE g == CHOOSE f : PickStages(f, rows, S, Len(rows))
<1>5. PickStages(g, rows, S, Len(rows))
  BY <1>4
<1>6. Hook!Picked(rows, S) = g[Len(rows)]
  BY DEF Hook!Picked, PickStages
<1> QED
  BY <1>5, <1>6, Zenon
\* Those of Callbacks, of ScheduleExecute and of ApplyRows.
CallStages(g, rows, n) ==
  g = [i \in 0 .. n |-> IF i = 0 THEN [mem |-> mem, sched |-> << >>] ELSE Callback(g[i - 1], rows[i])]

\* Callbacks, the callback of the hook once for each row, is the last of its
\* stages.
LEMMA CallbacksStages ==
  ASSUME NEW rows, Len(rows) \in Nat
  PROVE  \E g : CallStages(g, rows, Len(rows)) /\ Callbacks(rows) = g[Len(rows)]
<1> DEFINE T == {n \in Nat : \E g : CallStages(g, rows, n)}
<1>1. 0 \in T
  <2> DEFINE g == [i \in 0 .. 0 |-> [mem |-> mem, sched |-> << >>]]
  <2>1. CallStages(g, rows, 0)
    BY DEF CallStages
  <2> QED
    BY <2>1
<1>2. ASSUME NEW n \in 1 .. Len(rows), n - 1 \in T PROVE n \in T
  <2>1. n - 1 \in Nat /\ n # 0 /\ n \in Nat
    OBVIOUS
  <2>2. PICK g : CallStages(g, rows, n - 1)
    BY <1>2
  <2> DEFINE last == Callback(g[n - 1], rows[n])
             h == [i \in 0 .. n |-> IF i = n THEN last ELSE g[i]]
  <2>3. \A i \in 0 .. n : h[i] = IF i = 0 THEN [mem |-> mem, sched |-> << >>] ELSE Callback(h[i - 1], rows[i])
    <3> TAKE i \in 0 .. n
    <3>1. CASE i = n
      BY <2>1, <3>1
    <3>2. CASE i # n
      <4>1. i \in 0 .. n - 1 /\ h[i] = g[i] /\ (i # 0 => h[i - 1] = g[i - 1])
        BY <2>1, <3>2
      <4> HIDE DEF h, last
      <4> QED
        BY <2>2, <4>1 DEF CallStages
    <3> QED
      BY <3>1, <3>2
  <2>4. h = [i \in 0 .. n |-> h[i]]
    OBVIOUS
  <2> HIDE DEF h, last
  <2>5. CallStages(h, rows, n)
    BY <2>3, <2>4, Zenon DEF CallStages
  <2> QED
    BY <2>1, <2>5
<1> HIDE DEF T
<1>3. \A i \in 0 .. Len(rows) : i \in T
  BY <1>1, <1>2, UpTo, Zenon
<1>4. \E g : CallStages(g, rows, Len(rows))
  BY <1>3 DEF T
<1> DEFINE g == CHOOSE f : CallStages(f, rows, Len(rows))
<1>5. CallStages(g, rows, Len(rows))
  BY <1>4
<1>6. Callbacks(rows) = g[Len(rows)]
  BY DEF Callbacks, CallStages
<1> QED
  BY <1>5, <1>6, Zenon

After(tab, row) == [tab EXCEPT ![row.name] = Changed(@, row)]

ExecStages(g, rows, n) ==
  g = [i \in 0 .. n |-> IF i = 0 THEN users ELSE After(g[i - 1], rows[i])]

\* ScheduleExecute, one scheduled statement for each row, is the last of its
\* stages.
LEMMA ExecuteStages ==
  ASSUME NEW rows, Len(rows) \in Nat
  PROVE  \E g : ExecStages(g, rows, Len(rows)) /\ ScheduleExecute(rows) = g[Len(rows)]
<1> DEFINE T == {n \in Nat : \E g : ExecStages(g, rows, n)}
<1>1. 0 \in T
  <2> DEFINE g == [i \in 0 .. 0 |-> users]
  <2>1. ExecStages(g, rows, 0)
    BY DEF ExecStages
  <2> QED
    BY <2>1
<1>2. ASSUME NEW n \in 1 .. Len(rows), n - 1 \in T PROVE n \in T
  <2>1. n - 1 \in Nat /\ n # 0 /\ n \in Nat
    OBVIOUS
  <2>2. PICK g : ExecStages(g, rows, n - 1)
    BY <1>2
  <2> DEFINE last == After(g[n - 1], rows[n])
             h == [i \in 0 .. n |-> IF i = n THEN last ELSE g[i]]
  <2>3. \A i \in 0 .. n : h[i] = IF i = 0 THEN users ELSE After(h[i - 1], rows[i])
    <3> TAKE i \in 0 .. n
    <3>1. CASE i = n
      BY <2>1, <3>1
    <3>2. CASE i # n
      <4>1. i \in 0 .. n - 1 /\ h[i] = g[i] /\ (i # 0 => h[i - 1] = g[i - 1])
        BY <2>1, <3>2
      <4> HIDE DEF h, last
      <4> QED
        BY <2>2, <4>1 DEF ExecStages
    <3> QED
      BY <3>1, <3>2
  <2>4. h = [i \in 0 .. n |-> h[i]]
    OBVIOUS
  <2> HIDE DEF h, last
  <2>5. ExecStages(h, rows, n)
    BY <2>3, <2>4, Zenon DEF ExecStages
  <2> QED
    BY <2>1, <2>5
<1> HIDE DEF T
<1>3. \A i \in 0 .. Len(rows) : i \in T
  BY <1>1, <1>2, UpTo, Zenon
<1>4. \E g : ExecStages(g, rows, Len(rows))
  BY <1>3 DEF T
<1> DEFINE g == CHOOSE f : ExecStages(f, rows, Len(rows))
<1>5. ExecStages(g, rows, Len(rows))
  BY <1>4
<1>6. ScheduleExecute(rows) = g[Len(rows)]
  BY DEF ScheduleExecute, ExecStages, After
<1> QED
  BY <1>5, <1>6, Zenon

ApplyStages(g, tab, rows, n) ==
  g = [i \in 0 .. n |-> IF i = 0 THEN tab ELSE Hook!ApplyRow(g[i - 1], rows[i])]

\* ApplyRows, what the abstract queue does to the table, is the last of its
\* stages.
LEMMA AppliedStages ==
  ASSUME NEW rows, Len(rows) \in Nat, NEW tab
  PROVE  \E g : ApplyStages(g, tab, rows, Len(rows)) /\ Hook!ApplyRows(tab, rows) = g[Len(rows)]
<1> DEFINE T == {n \in Nat : \E g : ApplyStages(g, tab, rows, n)}
<1>1. 0 \in T
  <2> DEFINE g == [i \in 0 .. 0 |-> tab]
  <2>1. ApplyStages(g, tab, rows, 0)
    BY DEF ApplyStages
  <2> QED
    BY <2>1
<1>2. ASSUME NEW n \in 1 .. Len(rows), n - 1 \in T PROVE n \in T
  <2>1. n - 1 \in Nat /\ n # 0 /\ n \in Nat
    OBVIOUS
  <2>2. PICK g : ApplyStages(g, tab, rows, n - 1)
    BY <1>2
  <2> DEFINE last == Hook!ApplyRow(g[n - 1], rows[n])
             h == [i \in 0 .. n |-> IF i = n THEN last ELSE g[i]]
  <2>3. \A i \in 0 .. n : h[i] = IF i = 0 THEN tab ELSE Hook!ApplyRow(h[i - 1], rows[i])
    <3> TAKE i \in 0 .. n
    <3>1. CASE i = n
      BY <2>1, <3>1
    <3>2. CASE i # n
      <4>1. i \in 0 .. n - 1 /\ h[i] = g[i] /\ (i # 0 => h[i - 1] = g[i - 1])
        BY <2>1, <3>2
      <4> HIDE DEF h, last
      <4> QED
        BY <2>2, <4>1 DEF ApplyStages
    <3> QED
      BY <3>1, <3>2
  <2>4. h = [i \in 0 .. n |-> h[i]]
    OBVIOUS
  <2> HIDE DEF h, last
  <2>5. ApplyStages(h, tab, rows, n)
    BY <2>3, <2>4, SMTT(60) DEF ApplyStages
  <2> QED
    BY <2>1, <2>5
<1> HIDE DEF T
<1>3. \A i \in 0 .. Len(rows) : i \in T
  BY <1>1, <1>2, UpTo, Zenon
<1>4. \E g : ApplyStages(g, tab, rows, Len(rows))
  BY <1>3 DEF T
<1> DEFINE g == CHOOSE f : ApplyStages(f, tab, rows, Len(rows))
<1>5. ApplyStages(g, tab, rows, Len(rows))
  BY <1>4
<1>6. Hook!ApplyRows(tab, rows) = g[Len(rows)]
  BY DEF Hook!ApplyRows, ApplyStages
<1> QED
  BY <1>5, <1>6, Zenon

\* One stage of Picked appends the row or leaves it out.
LEMMA PickAt ==
  ASSUME NEW g, NEW rows, NEW S, NEW n \in Nat, PickStages(g, rows, S, n)
  PROVE  /\ g[0] = << >>
         /\ \A i \in 1 .. n : /\ rows[i] \in S => g[i] = Append(g[i - 1], rows[i])
                              /\ rows[i] \notin S => g[i] = g[i - 1]
<1>1. \A i \in 0 .. n : g[i] = IF i = 0 THEN << >>
                               ELSE IF rows[i] \in S THEN Append(g[i - 1], rows[i]) ELSE g[i - 1]
  BY DEF PickStages
<1>2. 0 \in 0 .. n /\ \A i \in 1 .. n : i \in 0 .. n /\ i # 0
  OBVIOUS
<1> QED
  BY <1>1, <1>2, Zenon

\* Picked rows are rows of the sequence that are in S.
LEMMA PickedRows ==
  ASSUME NEW R, NEW rows \in Seq(R), NEW S
  PROVE  Hook!Picked(rows, S) \in Seq(R \cap S)
<1>1. Len(rows) \in Nat /\ \A i \in 1 .. Len(rows) : rows[i] \in R
  OBVIOUS
<1>2. PICK g : PickStages(g, rows, S, Len(rows)) /\ Hook!Picked(rows, S) = g[Len(rows)]
  BY <1>1, PickedStages
<1> DEFINE T == {i \in 0 .. Len(rows) : g[i] \in Seq(R \cap S)}
<1>3. 0 \in T
  BY <1>1, <1>2 DEF PickStages
<1>4. ASSUME NEW i \in 1 .. Len(rows), i - 1 \in T PROVE i \in T
  <2>1. /\ rows[i] \in S => g[i] = Append(g[i - 1], rows[i])
        /\ rows[i] \notin S => g[i] = g[i - 1]
    BY <1>1, <1>2, PickAt
  <2>2. g[i - 1] \in Seq(R \cap S) /\ rows[i] \in R
    BY <1>1, <1>4
  <2>3. g[i] \in Seq(R \cap S)
    <3>1. CASE rows[i] \in S
      <4>1. rows[i] \in R \cap S
        BY <2>2, <3>1
      <4>2. Append(g[i - 1], rows[i]) \in Seq(R \cap S)
        BY <2>2, <4>1
      <4> QED
        BY <2>1, <3>1, <4>2, Zenon
    <3>2. CASE rows[i] \notin S
      BY <2>1, <2>2, <3>2
    <3> QED
      BY <3>1, <3>2
  <2> QED
    BY <1>1, <2>3
<1> HIDE DEF T
<1>5. \A i \in 0 .. Len(rows) : i \in T
  BY <1>1, <1>3, <1>4, UpTo, Zenon
<1> QED
  BY <1>1, <1>2, <1>5 DEF T

\* A row that comes last is picked last, and the others as before.
LEMMA PickedAppend ==
  ASSUME NEW R, NEW rows \in Seq(R), NEW row \in R, NEW S
  PROVE  Hook!Picked(Append(rows, row), S)
           = IF row \in S THEN Append(Hook!Picked(rows, S), row) ELSE Hook!Picked(rows, S)
<1> DEFINE more == Append(rows, row)
           n == Len(rows)
<1>1. /\ n \in Nat /\ Len(more) = n + 1 /\ Len(more) \in Nat /\ more[n + 1] = row
      /\ \A i \in 1 .. n : more[i] = rows[i]
  OBVIOUS
<1>2. PICK g : PickStages(g, rows, S, n) /\ Hook!Picked(rows, S) = g[n]
  BY <1>1, PickedStages
<1>3. PICK h : PickStages(h, more, S, n + 1) /\ Hook!Picked(more, S) = h[n + 1]
  BY <1>1, PickedStages, Zenon
<1> HIDE DEF more
<1> DEFINE T == {i \in 0 .. n : g[i] = h[i]}
<1>4. 0 \in T
  BY <1>1, <1>2, <1>3 DEF PickStages
<1>5. ASSUME NEW i \in 1 .. n, i - 1 \in T PROVE i \in T
  <2>1. /\ rows[i] \in S => g[i] = Append(g[i - 1], rows[i])
        /\ rows[i] \notin S => g[i] = g[i - 1]
    BY <1>1, <1>2, PickAt, Zenon
  <2>2. /\ more[i] \in S => h[i] = Append(h[i - 1], more[i])
        /\ more[i] \notin S => h[i] = h[i - 1]
    <3>1. n + 1 \in Nat /\ i \in 1 .. n + 1
      BY <1>1
    <3> QED
      BY <1>3, <3>1, PickAt
  <2>3. more[i] = rows[i] /\ g[i - 1] = h[i - 1] /\ i \in 0 .. n
    BY <1>1, <1>5
  <2> QED
    BY <2>1, <2>2, <2>3, Zenon
<1>6. h[n + 1] = IF row \in S THEN Append(h[n], row) ELSE h[n]
  <2>1. n + 1 \in Nat /\ n + 1 \in 1 .. n + 1 /\ (n + 1) - 1 = n
    BY <1>1
  <2>2. /\ more[n + 1] \in S => h[n + 1] = Append(h[(n + 1) - 1], more[n + 1])
        /\ more[n + 1] \notin S => h[n + 1] = h[(n + 1) - 1]
    BY <1>3, <2>1, PickAt
  <2>3. more[n + 1] = row
    BY <1>1
  <2> QED
    BY <2>1, <2>2, <2>3, Zenon
<1> HIDE DEF T
<1>7. \A i \in 0 .. n : i \in T
  BY <1>1, <1>4, <1>5, UpTo, Zenon
<1>8. g[n] = h[n]
  BY <1>1, <1>7 DEF T
<1> QED
  BY <1>2, <1>3, <1>6, <1>8 DEF more
-----------------------------------------------------------------------------

Tables == [SyncNames -> Hook!User]

\* Whether a row has an effect on a table.
Used(tab, row) == IF row.hook = "REGISTER" THEN ~ Exists(tab, row.name) ELSE Exists(tab, row.name)

\* An account that a row changes exists afterwards.
LEMMA ChangedUser ==
  ASSUME NEW user \in Hook!User, NEW row \in Hook!SyncRow
  PROVE  Changed(user, row) \in Hook!User /\ Changed(user, row) # NoUser
<1>1. /\ row.val \in Values /\ row.val # 0 /\ row.hook \in {"REGISTER", "SETPASS", "SETEMAIL"}
      /\ user.pass \in {0} \cup Values /\ user.email \in {0} \cup Values
  BY SyncAssumption DEF Hook!SyncRow, Hook!SyncHooks, Hook!User
<1>2. NoUser.pass = 0 /\ NoUser.email = 0
  BY DEF NoUser, Hook!NoUser
<1>3. CASE row.hook = "REGISTER"
  <2> DEFINE r == [pass |-> row.val, email |-> row.val]
  <2>1. r \in Hook!User /\ r.pass # 0
    BY <1>1 DEF Hook!User
  <2>2. Changed(user, row) = r
    BY <1>3 DEF Changed
  <2> HIDE DEF r
  <2> QED
    BY <1>2, <2>1, <2>2
<1>4. CASE row.hook = "SETPASS"
  <2> DEFINE r == [user EXCEPT !.pass = row.val]
  <2>1. r \in Hook!User /\ r.pass = row.val
    BY <1>1 DEF Hook!User
  <2>2. Changed(user, row) = r
    BY <1>4 DEF Changed
  <2> HIDE DEF r
  <2> QED
    BY <1>1, <1>2, <2>1, <2>2
<1>5. CASE row.hook = "SETEMAIL"
  <2> DEFINE r == [user EXCEPT !.email = row.val]
  <2>1. r \in Hook!User /\ r.email = row.val
    BY <1>1 DEF Hook!User
  <2>2. Changed(user, row) = r
    BY <1>5 DEF Changed
  <2> HIDE DEF r
  <2> QED
    BY <1>1, <1>2, <2>1, <2>2
<1> QED
  BY <1>1, <1>3, <1>4, <1>5

\* A row adds its name to a table and no other, and the abstract queue does
\* the same to it.
LEMMA RowEffect ==
  ASSUME NEW tab \in Tables, NEW row \in Hook!SyncRow
  PROVE  /\ After(tab, row) \in Tables /\ row.name \in SyncNames
         /\ \A n \in SyncNames : Exists(After(tab, row), n) <=> n = row.name \/ Exists(tab, n)
         /\ Used(tab, row) => Hook!ApplyRow(tab, row) = After(tab, row)
         /\ ~ Used(tab, row) => Hook!ApplyRow(tab, row) = tab
<1> DEFINE t == After(tab, row)
           u == Changed(tab[row.name], row)
<1>1. row.name \in SyncNames /\ row.hook \in {"REGISTER", "SETPASS", "SETEMAIL"}
  BY DEF Hook!SyncRow, Hook!SyncHooks
<1>2. tab[row.name] \in Hook!User
  BY <1>1 DEF Tables
<1>3. u \in Hook!User /\ u # NoUser
  BY <1>2, ChangedUser
<1>4. t = [tab EXCEPT ![row.name] = u]
  BY DEF After
<1>5. Used(tab, row) => Hook!ApplyRow(tab, row) = t
  <2>1. CASE row.hook = "REGISTER"
    BY <2>1 DEF Used, Hook!ApplyRow, After, Changed, Exists
  <2>2. CASE row.hook = "SETPASS"
    BY <2>2 DEF Used, Hook!ApplyRow, After, Changed, Exists
  <2>3. CASE row.hook = "SETEMAIL"
    BY <2>3 DEF Used, Hook!ApplyRow, After, Changed, Exists
  <2> QED
    BY <1>1, <2>1, <2>2, <2>3
<1>6. ~ Used(tab, row) => Hook!ApplyRow(tab, row) = tab
  BY DEF Used, Hook!ApplyRow, Exists
<1> HIDE DEF u, t
<1>7. t \in Tables /\ t[row.name] = u /\ \A n \in SyncNames : n # row.name => t[n] = tab[n]
  BY <1>1, <1>3, <1>4 DEF Tables
<1>8. \A n \in SyncNames : Exists(t, n) <=> n = row.name \/ Exists(tab, n)
  BY <1>1, <1>3, <1>7 DEF Exists, Hook!Exists, NoUser
<1> QED
  BY <1>1, <1>5, <1>6, <1>7, <1>8 DEF t
\* The sequence o is the first k rows in some order.
IsOrder(o, rows, k) ==
  \E p \in [1 .. k -> 1 .. k] :
    (\A i, j \in 1 .. k : p[i] = p[j] => i = j) /\ o = [i \in 1 .. k |-> rows[p[i]]]

\* An order of the first k rows with the next one in front is an order of k +
\* 1 rows.
LEMMA OrderFirst ==
  ASSUME NEW rows \in Seq(Hook!SyncRow), NEW k \in Nat, k + 1 <= Len(rows),
         NEW o \in Seq(Hook!SyncRow), Len(o) = k, IsOrder(o, rows, k)
  PROVE  IsOrder(<<rows[k + 1]>> \o o, rows, k + 1)
<1>1. PICK p \in [1 .. k -> 1 .. k] :
        (\A i, j \in 1 .. k : p[i] = p[j] => i = j) /\ o = [i \in 1 .. k |-> rows[p[i]]]
  BY Zenon DEF IsOrder
<1> DEFINE q == [i \in 1 .. k + 1 |-> IF i = 1 THEN k + 1 ELSE p[i - 1]]
           t == <<rows[k + 1]>> \o o
<1>2. \A i \in 2 .. k + 1 : i - 1 \in 1 .. k /\ p[i - 1] \in 1 .. k
  OBVIOUS
<1>3. q \in [1 .. k + 1 -> 1 .. k + 1]
  BY <1>2
<1>4. q[1] = k + 1 /\ \A i \in 2 .. k + 1 : q[i] = p[i - 1]
  OBVIOUS
<1>5. \A i, j \in 1 .. k + 1 : q[i] = q[j] => i = j
  <2> SUFFICES ASSUME NEW i \in 1 .. k + 1, NEW j \in 1 .. k + 1, q[i] = q[j] PROVE i = j
    OBVIOUS
  <2>1. (i = 1 \/ i \in 2 .. k + 1) /\ (j = 1 \/ j \in 2 .. k + 1)
    OBVIOUS
  <2> HIDE DEF q
  <2>2. CASE i \in 2 .. k + 1 /\ j \in 2 .. k + 1
    BY <1>1, <1>2, <1>4, <2>2
  <2> QED
    BY <1>2, <1>4, <2>1, <2>2, SMTT(60)
<1>6. DOMAIN t = 1 .. k + 1 /\ t[1] = rows[k + 1] /\ \A i \in 2 .. k + 1 : t[i] = o[i - 1]
  <2>1. DOMAIN t = 1 .. k + 1 /\ t[1] = rows[k + 1] /\ \A i \in 1 .. k : t[i + 1] = o[i]
    OBVIOUS
  <2> HIDE DEF t
  <2>2. \A i \in 2 .. k + 1 : i - 1 \in 1 .. k /\ (i - 1) + 1 = i
    OBVIOUS
  <2> QED
    BY <2>1, <2>2
<1>7. t = [i \in 1 .. k + 1 |-> t[i]]
  <2>1. t \in Seq(Hook!SyncRow)
    OBVIOUS
  <2> HIDE DEF t
  <2> QED
    BY <1>6, <2>1
<1>8. \A i \in 1 .. k + 1 : t[i] = rows[q[i]]
  <2> HIDE DEF t, q
  <2>1. \A i \in 2 .. k + 1 : o[i - 1] = rows[p[i - 1]]
    BY <1>1, <1>2
  <2>2. \A i \in 1 .. k + 1 : i = 1 \/ i \in 2 .. k + 1
    OBVIOUS
  <2> QED
    BY <1>4, <1>6, <2>1, <2>2, Zenon
<1> HIDE DEF t, q
<1>9. t = [i \in 1 .. k + 1 |-> rows[q[i]]]
  BY <1>7, <1>8
<1>10. IsOrder(t, rows, k + 1)
  BY <1>3, <1>5, <1>9, Zenon DEF IsOrder
<1> QED
  BY <1>10 DEF t

\* An order of the first k rows with the next one behind is an order of k + 1
\* rows.
LEMMA OrderLast ==
  ASSUME NEW rows \in Seq(Hook!SyncRow), NEW k \in Nat, k + 1 <= Len(rows),
         NEW o \in Seq(Hook!SyncRow), Len(o) = k, IsOrder(o, rows, k)
  PROVE  IsOrder(Append(o, rows[k + 1]), rows, k + 1)
<1>1. PICK p \in [1 .. k -> 1 .. k] :
        (\A i, j \in 1 .. k : p[i] = p[j] => i = j) /\ o = [i \in 1 .. k |-> rows[p[i]]]
  BY Zenon DEF IsOrder
<1> DEFINE q == [i \in 1 .. k + 1 |-> IF i = k + 1 THEN k + 1 ELSE p[i]]
           t == Append(o, rows[k + 1])
<1>2. \A i \in 1 .. k : p[i] \in 1 .. k
  OBVIOUS
<1>3. q \in [1 .. k + 1 -> 1 .. k + 1]
  BY <1>2
<1>4. q[k + 1] = k + 1 /\ \A i \in 1 .. k : q[i] = p[i]
  OBVIOUS
<1>5. \A i, j \in 1 .. k + 1 : q[i] = q[j] => i = j
  <2> SUFFICES ASSUME NEW i \in 1 .. k + 1, NEW j \in 1 .. k + 1, q[i] = q[j] PROVE i = j
    OBVIOUS
  <2>1. (i = k + 1 \/ i \in 1 .. k) /\ (j = k + 1 \/ j \in 1 .. k)
    OBVIOUS
  <2> HIDE DEF q
  <2>2. CASE i \in 1 .. k /\ j \in 1 .. k
    BY <1>1, <1>4, <2>2
  <2> QED
    BY <1>2, <1>4, <2>1, <2>2, ZenonT(60)
<1>6. DOMAIN t = 1 .. k + 1 /\ t[k + 1] = rows[k + 1] /\ \A i \in 1 .. k : t[i] = o[i]
  OBVIOUS
<1>7. t = [i \in 1 .. k + 1 |-> t[i]]
  BY <1>6
<1>8. \A i \in 1 .. k + 1 : t[i] = rows[q[i]]
  <2> HIDE DEF t, q
  <2>1. \A i \in 1 .. k : o[i] = rows[p[i]]
    BY <1>1
  <2>2. \A i \in 1 .. k + 1 : i = k + 1 \/ i \in 1 .. k
    OBVIOUS
  <2> QED
    BY <1>4, <1>6, <2>1, <2>2
<1> HIDE DEF t, q
<1>9. t = [i \in 1 .. k + 1 |-> rows[q[i]]]
  BY <1>7, <1>8
<1>10. IsOrder(t, rows, k + 1)
  BY <1>3, <1>5, <1>9, Zenon DEF IsOrder
<1> QED
  BY <1>10 DEF t
\* What the callbacks of hook h leave after k rows: the accounts m in memory, the
\* statements sched, and an order o of the rows that begins with those of sched.  Carried
\* out on the table in that order, the rows of sched have their effect and the others none.
Plan(h, sched, o, k, m) ==
  /\ sched \in Seq(Hook!SyncRow) /\ Len(sched) <= k
  /\ o \in Seq(Hook!SyncRow) /\ Len(o) = k
  /\ m \in Tables
  /\ \A j \in 1 .. Len(sched) : o[j] = sched[j]
  /\ \A j \in 1 .. k : o[j].hook = h
  /\ h = "REGISTER" =>
       /\ \A j \in 1 .. Len(sched) : ~ Exists(users, sched[j].name)
       /\ \A i, j \in 1 .. Len(sched) : sched[i].name = sched[j].name => i = j
       /\ \A j \in Len(sched) + 1 .. k : Exists(m, o[j].name)
       /\ \A n \in SyncNames :
            Exists(m, n) <=> Exists(users, n) \/ \E j \in 1 .. Len(sched) : sched[j].name = n
  /\ h # "REGISTER" =>
       /\ \A j \in 1 .. Len(sched) : Exists(users, sched[j].name)
       /\ \A j \in Len(sched) + 1 .. k : ~ Exists(users, o[j].name)
       /\ \A n \in SyncNames : Exists(m, n) <=> Exists(users, n)

\* A row before the others.
LEMMA Pushed ==
  ASSUME NEW R, NEW rows \in Seq(R), NEW row \in R, NEW t, t = <<row>> \o rows
  PROVE  /\ t \in Seq(R) /\ Len(t) = Len(rows) + 1 /\ t[1] = row /\ Len(rows) \in Nat
         /\ \A j \in 1 .. Len(rows) : j + 1 \in 1 .. Len(t) /\ t[j + 1] = rows[j]
         /\ \A j \in 1 .. Len(t) : j # 1 => j - 1 \in 1 .. Len(rows) /\ t[j] = rows[j - 1]
<1>1. t \in Seq(R) /\ Len(t) = Len(rows) + 1 /\ t[1] = row /\ Len(rows) \in Nat
  OBVIOUS
<1>2. \A j \in 1 .. Len(rows) : j + 1 \in 1 .. Len(t) /\ t[j + 1] = rows[j]
  OBVIOUS
<1>3. \A j \in 1 .. Len(t) : j # 1 => j - 1 \in 1 .. Len(rows) /\ (j - 1) + 1 = j
  BY <1>1
<1> QED
  BY <1>1, <1>2, <1>3

\* A row that the callback uses goes to the head of the statements.
LEMMA PlanUsed ==
  ASSUME NEW h, NEW sched, NEW o, NEW k \in Nat, NEW m, Plan(h, sched, o, k, m),
         NEW row \in Hook!SyncRow, row.hook = h, Used(m, row)
  PROVE  Plan(h, <<row>> \o sched, <<row>> \o o, k + 1, After(m, row))
<1> DEFINE s == <<row>> \o sched
           t == <<row>> \o o
           w == After(m, row)
<1>1. /\ sched \in Seq(Hook!SyncRow) /\ Len(sched) <= k /\ Len(sched) \in Nat
      /\ o \in Seq(Hook!SyncRow) /\ Len(o) = k /\ m \in Tables
      /\ (\A j \in 1 .. Len(sched) : o[j] = sched[j]) /\ (\A j \in 1 .. k : o[j].hook = h)
  BY DEF Plan
<1>2. /\ s \in Seq(Hook!SyncRow) /\ Len(s) = Len(sched) + 1 /\ s[1] = row
      /\ \A j \in 1 .. Len(sched) : j + 1 \in 1 .. Len(s) /\ s[j + 1] = sched[j]
      /\ \A j \in 1 .. Len(s) : j # 1 => j - 1 \in 1 .. Len(sched) /\ s[j] = sched[j - 1]
  BY <1>1, Pushed
<1>3. /\ t \in Seq(Hook!SyncRow) /\ Len(t) = k + 1 /\ t[1] = row
      /\ \A j \in 1 .. k : j + 1 \in 1 .. Len(t) /\ t[j + 1] = o[j]
      /\ \A j \in 1 .. k + 1 : j # 1 => j - 1 \in 1 .. k /\ t[j] = o[j - 1]
  <2>1. /\ t \in Seq(Hook!SyncRow) /\ Len(t) = Len(o) + 1 /\ t[1] = row
        /\ \A j \in 1 .. Len(o) : j + 1 \in 1 .. Len(t) /\ t[j + 1] = o[j]
        /\ \A j \in 1 .. Len(t) : j # 1 => j - 1 \in 1 .. Len(o) /\ t[j] = o[j - 1]
    BY <1>1, Pushed
  <2> HIDE DEF t
  <2> QED
    BY <1>1, <2>1
<1> HIDE DEF s, t
<1>4. /\ w \in Tables /\ row.name \in SyncNames
      /\ \A n \in SyncNames : Exists(w, n) <=> n = row.name \/ Exists(m, n)
  BY <1>1, RowEffect
<1> HIDE DEF w
<1>7. \A j \in 1 .. Len(s) : t[j] = s[j]
  <2> TAKE j \in 1 .. Len(s)
  <2>1. CASE j = 1
    BY <1>2, <1>3, <2>1
  <2>2. CASE j # 1
    <3>1. j - 1 \in 1 .. Len(sched) /\ s[j] = sched[j - 1]
      BY <1>2, <2>2
    <3>2. j \in 1 .. k + 1
      BY <1>1, <1>2
    <3>3. t[j] = o[j - 1]
      BY <1>3, <2>2, <3>2
    <3> QED
      BY <1>1, <3>1, <3>3
  <2> QED
    BY <2>1, <2>2
<1>8. \A j \in 1 .. k + 1 : t[j].hook = h
  BY <1>1, <1>3
<1>9. \A j \in Len(s) + 1 .. k + 1 : j - 1 \in Len(sched) + 1 .. k /\ t[j] = o[j - 1]
  <2> TAKE j \in Len(s) + 1 .. k + 1
  <2>1. j \in 1 .. k + 1 /\ j # 1 /\ j - 1 \in Len(sched) + 1 .. k
    BY <1>1, <1>2
  <2> QED
    BY <1>3, <2>1
<1>10. \A j \in 1 .. k : o[j].name \in SyncNames
  <2>1. \A r \in Hook!SyncRow : r.name \in SyncNames
    BY DEF Hook!SyncRow
  <2>2. \A j \in 1 .. k : o[j] \in Hook!SyncRow
    BY <1>1, SMTT(60)
  <2> QED
    BY <2>1, <2>2
<1>11. ASSUME h = "REGISTER" PROVE Plan(h, s, t, k + 1, w)
  <2>1. /\ \A j \in 1 .. Len(sched) : ~ Exists(users, sched[j].name)
        /\ \A i, j \in 1 .. Len(sched) : sched[i].name = sched[j].name => i = j
        /\ \A j \in Len(sched) + 1 .. k : Exists(m, o[j].name)
        /\ \A n \in SyncNames :
             Exists(m, n) <=> Exists(users, n) \/ \E j \in 1 .. Len(sched) : sched[j].name = n
    BY <1>11 DEF Plan
  <2>2. ~ Exists(m, row.name)
    BY <1>11 DEF Used
  <2>3. ~ Exists(users, row.name) /\ \A j \in 1 .. Len(sched) : sched[j].name # row.name
    BY <1>4, <2>1, <2>2
  <2>4. \A j \in 1 .. Len(s) : ~ Exists(users, s[j].name)
    BY <1>2, <2>1, <2>3
  <2>5. \A i, j \in 1 .. Len(s) : s[i].name = s[j].name => i = j
    <3> SUFFICES ASSUME NEW i \in 1 .. Len(s), NEW j \in 1 .. Len(s), s[i].name = s[j].name PROVE i = j
      OBVIOUS
    <3>1. /\ i = 1 \/ (i - 1 \in 1 .. Len(sched) /\ s[i] = sched[i - 1])
          /\ j = 1 \/ (j - 1 \in 1 .. Len(sched) /\ s[j] = sched[j - 1])
      BY <1>2
    <3>2. CASE i # 1 /\ j # 1
      <4>1. i - 1 = j - 1
        BY <2>1, <3>1, <3>2, SMTT(60)
      <4> QED
        BY <1>1, <1>2, <4>1, SMTT(60)
    <3> QED
      BY <1>2, <2>3, <3>1, <3>2, SMTT(60)
  <2>6. \A j \in Len(s) + 1 .. k + 1 : Exists(w, t[j].name)
    <3> TAKE j \in Len(s) + 1 .. k + 1
    <3>1. j - 1 \in Len(sched) + 1 .. k /\ t[j] = o[j - 1] /\ j - 1 \in 1 .. k
      BY <1>1, <1>9, SMTT(60)
    <3> QED
      BY <1>4, <1>10, <2>1, <3>1
  <2>7. \A n \in SyncNames : Exists(w, n) <=> Exists(users, n) \/ \E j \in 1 .. Len(s) : s[j].name = n
    <3> TAKE n \in SyncNames
    <3>1. (\E j \in 1 .. Len(s) : s[j].name = n)
            <=> n = row.name \/ \E j \in 1 .. Len(sched) : sched[j].name = n
      <4>1. ASSUME NEW j \in 1 .. Len(s), s[j].name = n
            PROVE  n = row.name \/ \E i \in 1 .. Len(sched) : sched[i].name = n
        BY <1>2, <4>1
      <4>2. ASSUME NEW j \in 1 .. Len(sched), sched[j].name = n PROVE \E i \in 1 .. Len(s) : s[i].name = n
        <5>1. j + 1 \in 1 .. Len(s) /\ s[j + 1] = sched[j]
          BY <1>1, <1>2
        <5> QED
          BY <4>2, <5>1
      <4>3. 1 \in 1 .. Len(s)
        BY <1>1, <1>2, SMTT(60)
      <4> QED
        BY <1>2, <4>1, <4>2, <4>3
    <3> QED
      BY <1>4, <2>1, <3>1
  <2> QED
    BY <1>1, <1>2, <1>3, <1>4, <1>7, <1>8, <1>11, <2>4, <2>5, <2>6, <2>7, SMTT(60) DEF Plan
<1>12. ASSUME h # "REGISTER" PROVE Plan(h, s, t, k + 1, w)
  <2>1. /\ \A j \in 1 .. Len(sched) : Exists(users, sched[j].name)
        /\ \A j \in Len(sched) + 1 .. k : ~ Exists(users, o[j].name)
        /\ \A n \in SyncNames : Exists(m, n) <=> Exists(users, n)
    BY <1>12 DEF Plan
  <2>2. Exists(users, row.name)
    BY <1>4, <1>12, <2>1 DEF Used
  <2>3. \A j \in 1 .. Len(s) : Exists(users, s[j].name)
    BY <1>2, <2>1, <2>2, Zenon
  <2>4. \A j \in Len(s) + 1 .. k + 1 : ~ Exists(users, t[j].name)
    BY <1>9, <2>1
  <2>5. \A n \in SyncNames : Exists(w, n) <=> Exists(users, n)
    BY <1>4, <2>1, <2>2
  <2> QED
    BY <1>1, <1>2, <1>3, <1>4, <1>7, <1>8, <1>12, <2>3, <2>4, <2>5, SMTT(90) DEF Plan
<1>13. Plan(h, s, t, k + 1, w)
  BY <1>11, <1>12
<1> QED
  BY <1>13 DEF s, t, w
\* A row that the callback does not use goes to the end of the order.
LEMMA PlanSkipped ==
  ASSUME NEW h, NEW sched, NEW o, NEW k \in Nat, NEW m, Plan(h, sched, o, k, m),
         NEW row \in Hook!SyncRow, row.hook = h, ~ Used(m, row)
  PROVE  Plan(h, sched, Append(o, row), k + 1, m)
<1> DEFINE t == Append(o, row)
<1>1. /\ sched \in Seq(Hook!SyncRow) /\ Len(sched) <= k /\ Len(sched) \in Nat
      /\ o \in Seq(Hook!SyncRow) /\ Len(o) = k /\ m \in Tables
      /\ (\A j \in 1 .. Len(sched) : o[j] = sched[j]) /\ (\A j \in 1 .. k : o[j].hook = h)
  BY SMTT(60) DEF Plan
<1>2. /\ t \in Seq(Hook!SyncRow) /\ Len(t) = k + 1 /\ t[k + 1] = row /\ \A j \in 1 .. k : t[j] = o[j]
  BY <1>1
<1> HIDE DEF t
<1>3. row.name \in SyncNames
  BY DEF Hook!SyncRow
<1>4. \A j \in 1 .. Len(sched) : t[j] = sched[j]
  BY <1>1, <1>2
<1>5. \A j \in 1 .. k + 1 : j = k + 1 \/ j \in 1 .. k
  OBVIOUS
<1>6. \A j \in 1 .. k + 1 : t[j].hook = h
  BY <1>1, <1>2, <1>5
<1>7. \A j \in Len(sched) + 1 .. k + 1 : j = k + 1 \/ (j \in Len(sched) + 1 .. k /\ t[j] = o[j])
  BY <1>1, <1>2, SMTT(60)
<1>8. ASSUME h = "REGISTER" PROVE Plan(h, sched, t, k + 1, m)
  <2>1. Exists(m, row.name)
    BY <1>8 DEF Used
  <2>2. \A j \in Len(sched) + 1 .. k + 1 : Exists(m, t[j].name)
    <3>1. \A j \in Len(sched) + 1 .. k : Exists(m, o[j].name)
      BY <1>8, SMTT(60) DEF Plan
    <3> QED
      BY <1>2, <1>7, <2>1, <3>1
  <2> QED
    BY <1>1, <1>2, <1>4, <1>6, <1>8, <2>2 DEF Plan
<1>9. ASSUME h # "REGISTER" PROVE Plan(h, sched, t, k + 1, m)
  <2>1. ~ Exists(users, row.name)
    BY <1>3, <1>9 DEF Used, Plan
  <2>2. \A j \in Len(sched) + 1 .. k + 1 : ~ Exists(users, t[j].name)
    <3>1. \A j \in Len(sched) + 1 .. k : ~ Exists(users, o[j].name)
      BY <1>9, SMTT(60) DEF Plan
    <3> QED
      BY <1>2, <1>7, <2>1, <3>1, SMTT(60)
  <2> QED
    BY <1>1, <1>2, <1>4, <1>6, <1>9, <2>2, SMTT(30) DEF Plan
<1> QED
  BY <1>8, <1>9 DEF t

\* The names that exist after the first j statements.
Has(h, sched, j, n) ==
  Exists(users, n) \/ (h = "REGISTER" /\ \E i \in 1 .. j : sched[i].name = n)

\* The statements make of the table what the rows do one by one, in that order, and the
\* accounts that exist then are those in memory.
LEMMA PlanDone ==
  ASSUME NEW h, NEW sched, NEW o, NEW k \in Nat, NEW m, Plan(h, sched, o, k, m), users \in Tables
  PROVE  /\ ScheduleExecute(sched) = Hook!ApplyRows(users, o)
         /\ ScheduleExecute(sched) \in Tables
         /\ \A n \in SyncNames : Exists(ScheduleExecute(sched), n) <=> Exists(m, n)
<1> DEFINE l == Len(sched)
<1>1. /\ sched \in Seq(Hook!SyncRow) /\ l <= k /\ l \in Nat
      /\ o \in Seq(Hook!SyncRow) /\ Len(o) = k /\ m \in Tables
      /\ (\A j \in 1 .. l : o[j] = sched[j]) /\ (\A j \in 1 .. k : o[j].hook = h)
  BY SMTT(60) DEF Plan
<1>2. PICK e : ExecStages(e, sched, l) /\ ScheduleExecute(sched) = e[l]
  BY <1>1, ExecuteStages
<1>3. PICK a : ApplyStages(a, users, o, k) /\ Hook!ApplyRows(users, o) = a[k]
  BY <1>1, AppliedStages
<1>4. e[0] = users /\ \A j \in 1 .. l : e[j] = After(e[j - 1], sched[j])
  BY <1>1, <1>2 DEF ExecStages
<1>5. a[0] = users /\ \A j \in 1 .. k : a[j] = Hook!ApplyRow(a[j - 1], o[j])
  BY <1>3 DEF ApplyStages
<1>6. \A j \in 1 .. k : o[j] \in Hook!SyncRow /\ o[j].name \in SyncNames
  <2>1. \A r \in Hook!SyncRow : r.name \in SyncNames
    BY DEF Hook!SyncRow
  <2>2. \A j \in 1 .. k : o[j] \in Hook!SyncRow
    BY <1>1, SMTT(60)
  <2> QED
    BY <2>1, <2>2
<1> DEFINE T == {j \in 0 .. l : /\ e[j] = a[j] /\ e[j] \in Tables
                                /\ \A n \in SyncNames : Exists(e[j], n) <=> Has(h, sched, j, n)}
<1>7. 0 \in T
  BY <1>1, <1>4, <1>5, SMTT(60) DEF Has
<1>8. ASSUME NEW j \in 1 .. l, j - 1 \in T PROVE j \in T
  <2>1. /\ e[j - 1] = a[j - 1] /\ e[j - 1] \in Tables /\ j \in 0 .. l /\ j \in 1 .. k
        /\ \A n \in SyncNames : Exists(e[j - 1], n) <=> Has(h, sched, j - 1, n)
    BY <1>1, <1>8
  <2> DEFINE tab == e[j - 1]
             row == sched[j]
  <2>2. row = o[j] /\ row \in Hook!SyncRow /\ row.name \in SyncNames /\ row.hook = h
    BY <1>1, <1>6, <2>1, SMTT(60)
  <2>3. e[j] = After(tab, row) /\ a[j] = Hook!ApplyRow(tab, row)
    BY <1>4, <1>5, <2>1, <2>2
  <2> HIDE DEF T
  <2>4. Used(tab, row)
    <3>1. CASE h = "REGISTER"
      <4>1. ~ Exists(users, row.name) /\ \A i \in 1 .. j - 1 : sched[i].name # row.name
        <5>1. ~ Exists(users, row.name) /\ \A i \in 1 .. l : sched[i].name = row.name => i = j
          BY <3>1 DEF Plan
        <5>2. \A i \in 1 .. j - 1 : i \in 1 .. l /\ i # j
          BY <1>1, SMTT(60)
        <5> QED
          BY <5>1, <5>2
      <4> QED
        BY <2>1, <2>2, <3>1, <4>1 DEF Used, Has
    <3>2. CASE h # "REGISTER"
      BY <2>1, <2>2, <3>2, SMTT(60) DEF Used, Has, Plan
    <3> QED
      BY <3>1, <3>2, SMTT(60)
  <2>5. /\ After(tab, row) \in Tables /\ Hook!ApplyRow(tab, row) = After(tab, row)
        /\ \A n \in SyncNames : Exists(After(tab, row), n) <=> n = row.name \/ Exists(tab, n)
    BY <2>1, <2>2, <2>4, RowEffect, Zenon
  <2>6. \A n \in SyncNames : Has(h, sched, j, n) <=> n = row.name \/ Has(h, sched, j - 1, n)
    <3> TAKE n \in SyncNames
    <3>1. (\E i \in 1 .. j : sched[i].name = n)
            <=> n = row.name \/ \E i \in 1 .. j - 1 : sched[i].name = n
      <4>1. \A i \in 1 .. j : i = j \/ i \in 1 .. j - 1
        BY <1>1
      <4>2. j \in 1 .. j /\ \A i \in 1 .. j - 1 : i \in 1 .. j
        BY <1>1, SMTT(60)
      <4> QED
        BY <4>1, <4>2
    <3>2. h # "REGISTER" => Exists(users, row.name)
      BY SMTT(60) DEF Plan
    <3> QED
      BY <3>1, <3>2 DEF Has
  <2>7. \A n \in SyncNames : Exists(e[j], n) <=> Has(h, sched, j, n)
    BY <2>1, <2>3, <2>5, <2>6, Zenon
  <2> QED
    BY <2>1, <2>3, <2>5, <2>7, SMTT(60) DEF T
<1> HIDE DEF T
<1>9. \A j \in 0 .. l : j \in T
  BY <1>1, <1>7, <1>8, UpTo, ZenonT(60)
<1>10. /\ e[l] = a[l] /\ e[l] \in Tables
       /\ \A n \in SyncNames : Exists(e[l], n) <=> Has(h, sched, l, n)
  BY <1>1, <1>9, SMTT(60) DEF T
<1>11. \A n \in SyncNames : Exists(e[l], n) <=> Exists(m, n)
  BY <1>10, Zenon DEF Plan, Has
<1> DEFINE V == {d \in 0 .. k - l : a[l + d] = a[l]}
<1>12. 0 \in V
  BY <1>1, SMTT(60)
<1>13. ASSUME NEW d \in 1 .. k - l, d - 1 \in V PROVE d \in V
  <2> DEFINE j == l + d
  <2>1. j \in 1 .. k /\ j \in l + 1 .. k /\ j - 1 = l + (d - 1) /\ a[j - 1] = a[l] /\ d \in 0 .. k - l
    BY <1>1, <1>13, SMTT(60)
  <2> HIDE DEF j, V
  <2>2. a[j] = Hook!ApplyRow(e[l], o[j]) /\ o[j] \in Hook!SyncRow /\ o[j].name \in SyncNames /\ o[j].hook = h
    BY <1>1, <1>5, <1>6, <1>10, <2>1, Zenon
  <2>3. ~ Used(e[l], o[j])
    <3>1. CASE h = "REGISTER"
      <4>1. Exists(m, o[j].name)
        BY <2>1, <3>1, SMTT(60) DEF Plan
      <4> QED
        BY <1>11, <2>2, <3>1, <4>1, SMTT(60) DEF Used
    <3>2. CASE h # "REGISTER"
      <4>1. ~ Exists(users, o[j].name)
        BY <2>1, <3>2, SMTT(60) DEF Plan
      <4> QED
        BY <1>10, <2>2, <3>2, <4>1, SMTT(60) DEF Used, Has
    <3> QED
      BY <3>1, <3>2, SMTT(60)
  <2>4. a[j] = e[l]
    BY <1>10, <2>2, <2>3, RowEffect, Zenon
  <2> QED
    BY <1>10, <2>1, <2>4, ZenonT(60) DEF V, j
<1> HIDE DEF V
<1>14. \A d \in 0 .. k - l : d \in V
  <2>1. k - l \in Nat
    BY <1>1
  <2> QED
    BY <1>12, <1>13, <2>1, UpTo, Zenon
<1>15. a[k] = a[l]
  <2>1. k - l \in 0 .. k - l /\ l + (k - l) = k
    BY <1>1
  <2> QED
    BY <1>14, <2>1 DEF V
<1> QED
  BY <1>2, <1>3, <1>10, <1>11, <1>15
\* The callbacks of the rows of one hook leave such a plan.
LEMMA CallbacksPlan ==
  ASSUME NEW rows \in Seq(Hook!SyncRow), NEW h, \A i \in 1 .. Len(rows) : rows[i].hook = h,
         mem \in Tables, \A n \in SyncNames : Exists(mem, n) <=> Exists(users, n)
  PROVE  \E o : /\ Plan(h, Callbacks(rows).sched, o, Len(rows), Callbacks(rows).mem)
                /\ IsOrder(o, rows, Len(rows))
<1> DEFINE n == Len(rows)
<1>1. n \in Nat /\ \A i \in 1 .. n : rows[i] \in Hook!SyncRow
  OBVIOUS
<1>2. PICK g : CallStages(g, rows, n) /\ Callbacks(rows) = g[n]
  BY <1>1, CallbacksStages
<1>3. g[0] = [mem |-> mem, sched |-> << >>] /\ \A i \in 1 .. n : g[i] = Callback(g[i - 1], rows[i])
  BY <1>1, <1>2, SMTT(60) DEF CallStages
<1> DEFINE T == {i \in 0 .. n : \E o : Plan(h, g[i].sched, o, i, g[i].mem) /\ IsOrder(o, rows, i)}
<1>4. 0 \in T
  <2>1. g[0].sched = << >> /\ g[0].mem = mem
    BY <1>3
  <2>2. Plan(h, << >>, << >>, 0, mem)
    BY DEF Plan
  <2>3. IsOrder(<< >>, rows, 0)
    <3> DEFINE p == [i \in 1 .. 0 |-> i]
    <3>1. p \in [1 .. 0 -> 1 .. 0] /\ \A i, j \in 1 .. 0 : p[i] = p[j] => i = j
      OBVIOUS
    <3>2. << >> = [i \in 1 .. 0 |-> rows[p[i]]]
      OBVIOUS
    <3> HIDE DEF p
    <3> QED
      BY <3>1, <3>2, ZenonT(60) DEF IsOrder
  <2> QED
    BY <1>1, <2>1, <2>2, <2>3, SMTT(60)
<1>5. ASSUME NEW i \in 1 .. n, i - 1 \in T PROVE i \in T
  <2> DEFINE st == g[i - 1]
             row == rows[i]
             k == i - 1
  <2>1. PICK o : Plan(h, st.sched, o, k, st.mem) /\ IsOrder(o, rows, k)
    BY <1>5
  <2>2. k \in Nat /\ k + 1 = i /\ i \in 0 .. n /\ k + 1 <= Len(rows) /\ row = rows[k + 1]
    BY <1>1
  <2>3. row \in Hook!SyncRow /\ row.hook = h /\ g[i] = Callback(st, row)
    BY <1>1, <1>3, SMTT(60)
  <2>4. o \in Seq(Hook!SyncRow) /\ Len(o) = k
    BY <2>1 DEF Plan
  <2> HIDE DEF st, row, k, T
  <2>5. CASE Used(st.mem, row)
    <3>1. g[i] = [mem |-> After(st.mem, row), sched |-> <<row>> \o st.sched]
      <4>1. (row.hook = "REGISTER") # Exists(st.mem, row.name)
        BY <2>5, SMTT(60) DEF Used, Exists, Hook!Exists
      <4> QED
        BY <2>3, <4>1 DEF Callback, After
    <3>2. g[i].sched = <<row>> \o st.sched /\ g[i].mem = After(st.mem, row)
      BY <3>1
    <3>3. Plan(h, <<row>> \o st.sched, <<row>> \o o, k + 1, After(st.mem, row))
      BY <2>1, <2>2, <2>3, <2>5, PlanUsed
    <3>4. IsOrder(<<row>> \o o, rows, k + 1)
      BY <2>1, <2>2, <2>4, OrderFirst
    <3>5. Plan(h, g[i].sched, <<row>> \o o, i, g[i].mem) /\ IsOrder(<<row>> \o o, rows, i)
      BY <2>2, <3>2, <3>3, <3>4
    <3> QED
      BY <2>2, <3>5 DEF T
  <2>6. CASE ~ Used(st.mem, row)
    <3>1. g[i] = st
      <4>1. (row.hook = "REGISTER") = Exists(st.mem, row.name)
        BY <2>6 DEF Used, Exists, Hook!Exists
      <4> QED
        BY <2>3, <4>1 DEF Callback
    <3>3. Plan(h, st.sched, Append(o, row), k + 1, st.mem)
      BY <2>1, <2>2, <2>3, <2>6, PlanSkipped
    <3>4. IsOrder(Append(o, row), rows, k + 1)
      BY <2>1, <2>2, <2>4, OrderLast
    <3>5. Plan(h, g[i].sched, Append(o, row), i, g[i].mem) /\ IsOrder(Append(o, row), rows, i)
      BY <2>2, <3>1, <3>3, <3>4
    <3> QED
      BY <2>2, <3>5 DEF T
  <2> QED
    BY <2>5, <2>6
<1> HIDE DEF T
<1>6. \A i \in 0 .. n : i \in T
  BY <1>1, <1>4, <1>5, UpTo, Zenon
<1>7. n \in T
  BY <1>1, <1>6
<1> QED
  BY <1>2, <1>7 DEF T

-----------------------------------------------------------------------------

\* The names of memory are those of the table.
Agree == \A n \in SyncNames : Exists(mem, n) <=> Exists(users, n)

SyncTypes ==
  /\ queue \in Seq(Hook!SyncRow) /\ users \in Tables /\ mem \in Tables /\ nextid \in Nat \ {0}
  /\ run \in [pc : {"idle", "count", "commit"}, hook : SyncHooks \cup {"none"}, count : Nat,
              rows : Seq(Hook!SyncRow), sched : Seq(Hook!SyncRow)]

\* A call that has counted its rows: the table has at least as many.
Counted(r) == r.hook \in SyncHooks /\ r.count \in 1 .. Len(RowsOf(r.hook))

\* A call that has run the callbacks: the rows it read are still the oldest of
\* the hook, and what it scheduled carries them out in some order.
Planned(r) ==
  /\ r.hook \in SyncHooks
  /\ Len(r.rows) \in 1 .. Len(RowsOf(r.hook)) /\ r.rows = SubSeq(RowsOf(r.hook), 1, Len(r.rows))
  /\ \E o : Plan(r.hook, r.sched, o, Len(r.rows), mem) /\ IsOrder(o, r.rows, Len(r.rows))

\* The inductive invariant.
SyncInv ==
  /\ SyncTypes
  /\ run.pc = "idle" => run = Idle
  /\ run.pc # "commit" => Agree
  /\ run.pc = "count" => Counted(run)
  /\ run.pc = "commit" => Planned(run)

\* The idle call.
LEMMA IdleFields ==
  /\ Idle.pc = "idle" /\ Idle.hook = "none" /\ Idle.count = 0
  /\ Idle.rows = << >> /\ Idle.sched = << >>
  /\ Idle \in [pc : {"idle", "count", "commit"}, hook : SyncHooks \cup {"none"}, count : Nat,
               rows : Seq(Hook!SyncRow), sched : Seq(Hook!SyncRow)]
BY DEF Idle

\* What a hook reads are its own rows of the table.
LEMMA RowsOfHook ==
  ASSUME queue \in Seq(Hook!SyncRow), NEW h
  PROVE  /\ RowsOf(h) \in Seq(Hook!SyncRow) /\ Len(RowsOf(h)) \in Nat
         /\ \A i \in 1 .. Len(RowsOf(h)) : RowsOf(h)[i].hook = h
<1> DEFINE S == {row \in Hook!SyncRow : row.hook = h}
<1>1. RowsOf(h) = Hook!Picked(queue, S)
  BY DEF RowsOf, Hook!RowsOf
<1> DEFINE q == Hook!Picked(queue, S)
<1>2. q \in Seq(Hook!SyncRow \cap S)
  BY PickedRows
<1> HIDE DEF q
<1>3. q \in Seq(S) /\ \A i \in 1 .. Len(q) : q[i] \in S
  BY <1>2
<1> QED
  BY <1>1, <1>3 DEF q

\* Nothing is in the table at startup.
LEMMA SyncInitial == SyncInit => SyncInv
<1> SUFFICES ASSUME SyncInit PROVE SyncInv
  OBVIOUS
<1>1. users \in Tables /\ mem \in Tables
  BY DEF SyncInit, Tables, NoUser, Hook!NoUser, Hook!User
<1>2. SyncTypes
  BY <1>1, IdleFields DEF SyncInit, SyncTypes
<1>3. Agree
  BY DEF SyncInit, Agree
<1> QED
  BY <1>2, <1>3, IdleFields DEF SyncInit, SyncInv

\* The other program's rows come after those of the call.
LEMMA InsertKeeps ==
  ASSUME SyncInv, NEW h \in SyncHooks, NEW n \in SyncNames, NEW v \in Values, InsertRow(h, n, v)
  PROVE  /\ SyncInv'
         /\ Hook!Enqueue
<1> DEFINE row == [id |-> nextid, hook |-> h, name |-> n, val |-> v]
<1>1. queue \in Seq(Hook!SyncRow) /\ nextid \in Nat \ {0} /\ nextid <= MaxRows /\ MaxRows \in Nat
      /\ queue' = Append(queue, row) /\ nextid' = nextid + 1
      /\ users' = users /\ mem' = mem /\ run' = run
  BY SyncAssumption DEF SyncInv, SyncTypes, InsertRow
<1>2. row \in Hook!SyncRow
  BY <1>1, SMTT(60) DEF Hook!SyncRow, SyncHooks
<1> HIDE DEF row
<1>3. SyncTypes'
  <2>1. queue' \in Seq(Hook!SyncRow) /\ nextid' \in Nat \ {0}
    BY <1>1, <1>2
  <2> QED
    BY <1>1, <2>1 DEF SyncInv, SyncTypes
<1>4. Agree <=> Agree'
  BY <1>1 DEF Agree
<1>5. ASSUME NEW e
      PROVE  /\ Len(RowsOf(e)) \in Nat /\ Len(RowsOf(e)') \in Nat /\ Len(RowsOf(e)') >= Len(RowsOf(e))
             /\ \A k \in 0 .. Len(RowsOf(e)) : SubSeq(RowsOf(e)', 1, k) = SubSeq(RowsOf(e), 1, k)
  <2> DEFINE S == {r \in Hook!SyncRow : r.hook = e}
             old == Hook!Picked(queue, S)
             new == Hook!Picked(Append(queue, row), S)
  <2>1. RowsOf(e) = old /\ RowsOf(e)' = new
    BY <1>1, Zenon DEF RowsOf, Hook!RowsOf
  <2>2. old \in Seq(Hook!SyncRow)
    BY <1>1, <2>1, RowsOfHook
  <2>3. new = IF row \in S THEN Append(old, row) ELSE old
    BY <1>1, <1>2, PickedAppend
  <2> HIDE DEF S, old, new
  <2>4. CASE row \in S
    <3>1. new = Append(old, row)
      BY <2>3, <2>4
    <3> QED
      BY <1>2, <2>1, <2>2, <3>1
  <2>5. CASE row \notin S
    <3>1. new = old
      BY <2>3, <2>5
    <3> QED
      BY <2>1, <2>2, <3>1
  <2> QED
    BY <2>4, <2>5, SMTT(60)
<1>6. PICK c : c = run.hook
  BY SMTT(60)
<1>7. RowsOf(run.hook) = RowsOf(c) /\ RowsOf(run.hook)' = RowsOf(c)'
  BY <1>1, <1>6, SMTT(60) DEF RowsOf, Hook!RowsOf
<1> DEFINE old == RowsOf(run.hook)
           new == RowsOf(run.hook)'
<1>8. Len(old) \in Nat /\ Len(new) \in Nat /\ Len(new) >= Len(old)
       /\ \A j \in 0 .. Len(old) : SubSeq(new, 1, j) = SubSeq(old, 1, j)
  BY <1>5, <1>7
<1>9. Counted(run) => Counted(run)'
  BY <1>1, <1>8 DEF Counted
<1>10. Planned(run) => Planned(run)'
  <2> SUFFICES ASSUME Planned(run) PROVE Planned(run)'
    OBVIOUS
  <2> DEFINE k == Len(run.rows)
  <2>1. run.hook \in SyncHooks /\ k \in 1 .. Len(old) /\ run.rows = SubSeq(old, 1, k)
    BY DEF Planned
  <2>3. k \in 1 .. Len(new) /\ run.rows = SubSeq(new, 1, k)
    <3> HIDE DEF k, old, new
    <3> QED
      BY <2>1, <1>8
  <2>4. PICK o : Plan(run.hook, run.sched, o, k, mem) /\ IsOrder(o, run.rows, k)
    BY SMTT(60) DEF Planned
  <2>5. Plan(run.hook, run.sched, o, k, mem)'
    BY <1>1, <2>4, Zenon DEF Plan
  <2>6. IsOrder(o, run.rows, k)'
    BY <1>1, <2>4
  <2>7. (Len(run.rows) \in 1 .. Len(RowsOf(run.hook)) /\ run.rows = SubSeq(RowsOf(run.hook), 1, Len(run.rows)))'
    BY <1>1, <2>3
  <2> QED
    BY <1>1, <2>1, <2>5, <2>6, <2>7 DEF Planned
<1>11. SyncInv'
  BY <1>1, <1>3, <1>4, <1>9, <1>10 DEF SyncInv
<1>12. Hook!Enqueue
  BY <1>1, <1>2 DEF Hook!Enqueue
<1> QED
  BY <1>11, <1>12, SMTT(60)

\* The count is of rows that are there.
LEMMA CountKeeps ==
  ASSUME SyncInv, NEW h \in SyncHooks, CountRows(h)
  PROVE  SyncInv'
<1>1. run = Idle /\ RowsOf(h) # << >> /\ queue' = queue /\ users' = users /\ mem' = mem
      /\ nextid' = nextid /\ run' = [Idle EXCEPT !.pc = "count", !.hook = h, !.count = Len(RowsOf(h))]
  BY DEF CountRows
<1>2. RowsOf(h) \in Seq(Hook!SyncRow) /\ Len(RowsOf(h)) \in Nat
  BY RowsOfHook DEF SyncInv, SyncTypes
<1>3. Len(RowsOf(h)) \in 1 .. Len(RowsOf(h))
  BY <1>1, <1>2
<1>4. run' = [pc |-> "count", hook |-> h, count |-> Len(RowsOf(h)), rows |-> << >>, sched |-> << >>]
  BY <1>1, Zenon DEF Idle
<1>5. SyncTypes'
  BY <1>1, <1>2, <1>4, Zenon DEF SyncInv, SyncTypes
<1>6. Agree'
  BY <1>1, IdleFields DEF SyncInv, Agree
<1>7. RowsOf(run.hook)' = RowsOf(h)
  BY <1>1, <1>4 DEF RowsOf, Hook!RowsOf
<1>8. Counted(run)'
  BY <1>3, <1>4, <1>7 DEF Counted
<1>9. run'.pc = "count"
  BY <1>4, SMTT(60)
<1> QED
  BY <1>5, <1>6, <1>8, <1>9 DEF SyncInv

\* The callbacks plan the rows that the SELECT returned.
LEMMA CallbacksKeep ==
  ASSUME SyncInv, RunCallbacks
  PROVE  SyncInv'
<1> DEFINE h == run.hook
           k == run.count
           all == RowsOf(h)
           rows == SubSeq(all, 1, k)
           done == Callbacks(rows)
<1>1. run.pc = "count" /\ queue' = queue /\ users' = users /\ nextid' = nextid
      /\ mem' = done.mem /\ run' = [run EXCEPT !.pc = "commit", !.rows = rows, !.sched = done.sched]
  BY DEF RunCallbacks
<1>2. h \in SyncHooks /\ k \in 1 .. Len(all) /\ Agree /\ SyncTypes
  BY <1>1 DEF SyncInv, Counted
<1>3. all \in Seq(Hook!SyncRow) /\ Len(all) \in Nat /\ \A i \in 1 .. Len(all) : all[i].hook = h
  BY <1>2, RowsOfHook DEF SyncTypes
<1>4. rows \in Seq(Hook!SyncRow) /\ Len(rows) = k /\ \A i \in 1 .. k : rows[i] = all[i]
  <2> HIDE DEF all, k
  <2> QED
    BY <1>2, <1>3
<1>5. k \in Nat /\ \A i \in 1 .. Len(rows) : rows[i].hook = h
  <2> HIDE DEF all, k, rows, h
  <2> QED
    BY <1>2, <1>3, <1>4, SMTT(60)
<1>6. PICK o : Plan(h, done.sched, o, Len(rows), done.mem) /\ IsOrder(o, rows, Len(rows))
  <2> HIDE DEF rows, h
  <2> QED
    BY <1>2, <1>4, <1>5, CallbacksPlan, Zenon DEF SyncTypes, Agree
<1>7. run' = [pc |-> "commit", hook |-> h, count |-> k, rows |-> rows, sched |-> done.sched]
  <2> HIDE DEF rows, done
  <2> QED
    BY <1>1, <1>2, ZenonT(60) DEF SyncTypes
<1>8. run'.pc = "commit" /\ run'.hook = h /\ run'.rows = rows /\ run'.sched = done.sched
  <2> HIDE DEF rows, done
  <2> QED
    BY <1>7, SMTT(60)
<1>9. done.mem \in Tables /\ done.sched \in Seq(Hook!SyncRow)
  BY <1>6, Zenon DEF Plan
<1>10. SyncTypes'
  <2> HIDE DEF rows, done, h, k
  <2> QED
    BY <1>1, <1>2, <1>4, <1>5, <1>7, <1>9, Zenon DEF SyncTypes
<1>11. RowsOf(run.hook)' = all
  BY <1>1, <1>8 DEF RowsOf, Hook!RowsOf
<1>12. Plan(run.hook, run.sched, o, Len(run.rows), mem)'
  <2> HIDE DEF rows, done, h
  <2>1. Plan(h, done.sched, o, Len(rows), done.mem)
    BY <1>6, SMTT(60)
  <2> QED
    BY <2>1, <1>1, <1>8 DEF Plan
<1>13. IsOrder(o, run.rows, Len(run.rows))'
  <2> HIDE DEF rows
  <2> QED
    BY <1>6, <1>8
<1>14. Planned(run)'
  <2>1. run'.hook \in SyncHooks
    BY <1>2, <1>8
  <2>2. Len(run'.rows) \in 1 .. Len(RowsOf(run.hook)')
        /\ run'.rows = SubSeq(RowsOf(run.hook)', 1, Len(run'.rows))
    <3>1. Len(rows) \in 1 .. Len(all) /\ rows = SubSeq(all, 1, Len(rows))
      BY <1>2, <1>4
    <3> HIDE DEF rows, all
    <3> QED
      BY <1>8, <1>11, <3>1
  <2> QED
    BY <2>1, <2>2, <1>12, <1>13, SMTT(60) DEF Planned
<1> QED
  BY <1>8, <1>10, <1>14 DEF SyncInv

\* The transaction is one step of the queue.
LEMMA CommitKeeps ==
  ASSUME SyncInv, Commit
  PROVE  SyncInv' /\ Hook!Take
<1> DEFINE h == run.hook
           rows == run.rows
           all == RowsOf(h)
<1>1. run.pc = "commit" /\ queue' = Hook!Without(rows) /\ users' = ScheduleExecute(run.sched)
      /\ run' = Idle /\ mem' = mem /\ nextid' = nextid
  BY DEF Commit
<1>2. SyncTypes /\ h \in SyncHooks /\ Len(rows) \in 1 .. Len(all) /\ rows = SubSeq(all, 1, Len(rows))
  BY <1>1 DEF SyncInv, Planned
<1>3. PICK o : Plan(h, run.sched, o, Len(rows), mem) /\ IsOrder(o, rows, Len(rows))
  BY <1>1 DEF SyncInv, Planned
<1>4. rows \in Seq(Hook!SyncRow) /\ Len(rows) \in Nat /\ DOMAIN rows = 1 .. Len(rows)
  BY <1>2, SMTT(60) DEF SyncTypes
<1>5. /\ users' = Hook!ApplyRows(users, o)
      /\ users' \in Tables
      /\ \A n \in SyncNames : Exists(users', n) <=> Exists(mem, n)
  <2>1. users \in Tables
    BY <1>2 DEF SyncTypes
  <2> QED
    BY <2>1, <1>1, <1>3, <1>4, PlanDone, Zenon
<1>6. queue' \in Seq(Hook!SyncRow)
  <2> DEFINE S == {row \in Hook!SyncRow : \A i \in DOMAIN rows : rows[i].id # row.id}
  <2>1. queue' = Hook!Picked(queue, S)
    BY <1>1 DEF Hook!Without
  <2>2. queue \in Seq(Hook!SyncRow)
    BY <1>2 DEF SyncTypes
  <2> HIDE DEF S
  <2>3. queue' \in Seq(Hook!SyncRow \cap S)
    BY <2>1, <2>2, PickedRows, SMTT(60)
  <2> QED
    BY <2>3
<1>7. SyncTypes' /\ Agree'
  BY <1>1, <1>2, <1>5, <1>6, IdleFields, ZenonT(60) DEF SyncTypes, Agree
<1>8. SyncInv'
  BY <1>1, <1>7, IdleFields, SMTT(60) DEF SyncInv
<1>9. o \in Hook!Orders(rows)
  <2> DEFINE D == 1 .. Len(rows)
  <2>1. PICK p \in [D -> D] :
          (\A i, j \in D : p[i] = p[j] => i = j) /\ o = [i \in D |-> rows[p[i]]]
    BY <1>3, <1>4, SMTT(60) DEF IsOrder
  <2>2. Hook!Orders(rows)
          = {[i \in D |-> rows[f[i]]] : f \in {f \in [D -> D] : \A i, j \in D : f[i] = f[j] => i = j}}
    <3>1. DOMAIN rows = D
      BY <1>4
    <3> HIDE DEF D, rows
    <3> QED
      BY <3>1, Zenon DEF Hook!Orders
  <2> HIDE DEF D, rows
  <2>3. p \in {f \in [D -> D] : \A i, j \in D : f[i] = f[j] => i = j}
    BY <2>1
  <2> QED
    BY <2>1, <2>2, <2>3, SMTT(60)
<1>10. Hook!Take
  <2>1. h \in Hook!SyncHooks /\ RowsOf(h) = Hook!RowsOf(h)
    BY <1>2 DEF SyncHooks, RowsOf
  <2>2. Len(rows) \in 1 .. Len(Hook!RowsOf(h)) /\ rows = SubSeq(Hook!RowsOf(h), 1, Len(rows))
    BY <1>2, <2>1
  <2>3. queue' = Hook!Without(SubSeq(Hook!RowsOf(h), 1, Len(rows)))
    BY <1>1, <2>2, Zenon
  <2>4. o \in Hook!Orders(SubSeq(Hook!RowsOf(h), 1, Len(rows)))
    BY <1>9, <2>2, Zenon
  <2> HIDE DEF h, rows
  <2> QED
    BY <1>5, <2>1, <2>2, <2>3, <2>4 DEF Hook!Take
<1> QED
  BY <1>8, <1>10

\* A killed process starts from the table.
LEMMA CrashKeeps ==
  ASSUME SyncInv, Crash
  PROVE  SyncInv' /\ UNCHANGED <<queue, users>>
<1>1. mem' = users /\ run' = Idle /\ queue' = queue /\ users' = users /\ nextid' = nextid
  BY SMTT(60) DEF Crash
<1>2. SyncTypes' /\ Agree'
  BY <1>1, IdleFields DEF SyncInv, SyncTypes, Agree
<1> QED
  BY <1>1, <1>2, IdleFields DEF SyncInv

\* A command changes both sides.
LEMMA CommandKeeps ==
  ASSUME SyncInv, NEW n \in SyncNames, UserDrop(n) \/ \E v \in Values : SetPassword(n, v)
  PROVE  SyncInv' /\ Hook!Command
<1>1. run = Idle /\ run' = Idle /\ queue' = queue /\ nextid' = nextid
      /\ users \in Tables /\ mem \in Tables /\ SyncTypes /\ Agree
  BY IdleFields DEF SyncInv, SyncTypes, UserDrop, SetPassword
<1>2. ASSUME NEW u \in Hook!User, users' = [users EXCEPT ![n] = u],
             NEW w \in Hook!User, mem' = [mem EXCEPT ![n] = w], u = NoUser <=> w = NoUser
      PROVE  SyncInv' /\ Hook!Command
  <2>1. users' \in Tables /\ mem' \in Tables
    BY <1>1, <1>2 DEF Tables
  <2>2. users'[n] = u /\ mem'[n] = w
        /\ \A a \in SyncNames : a # n => users'[a] = users[a] /\ mem'[a] = mem[a]
    BY <1>1, <1>2 DEF Tables
  <2>3. Agree'
    BY <1>1, <1>2, <2>2, SMTT(60) DEF Agree, Exists, Hook!Exists, NoUser
  <2>4. SyncTypes'
    BY <1>1, <2>1, IdleFields DEF SyncTypes
  <2>5. Hook!Command
    BY <1>1, <1>2, Zenon DEF Hook!Command
  <2> QED
    BY <1>1, <2>3, <2>4, <2>5, IdleFields DEF SyncInv
<1>3. CASE UserDrop(n)
  <2>1. NoUser \in Hook!User
    BY DEF NoUser, Hook!NoUser, Hook!User
  <2> QED
    BY <1>2, <1>3, <2>1, Zenon DEF UserDrop
<1>4. ASSUME NEW v \in Values, SetPassword(n, v) PROVE SyncInv' /\ Hook!Command
  <2> DEFINE u == [users[n] EXCEPT !.pass = v]
             w == [mem[n] EXCEPT !.pass = v]
  <2>1. users[n] \in Hook!User /\ mem[n] \in Hook!User /\ v # 0
    BY <1>1, SyncAssumption DEF Tables
  <2>2. u \in Hook!User /\ w \in Hook!User /\ u.pass = v /\ w.pass = v
    BY <2>1 DEF Hook!User
  <2>3. NoUser.pass = 0
    BY DEF NoUser, Hook!NoUser
  <2>4. u # NoUser /\ w # NoUser
    BY <2>1, <2>2, <2>3, Zenon
  <2>5. users' = [users EXCEPT ![n] = u] /\ mem' = [mem EXCEPT ![n] = w]
    BY <1>1, <1>4 DEF SetPassword, Tables
  <2> HIDE DEF u, w
  <2> QED
    BY <1>2, <2>2, <2>4, <2>5, Zenon
<1> QED
  BY <1>3, <1>4

\* A step keeps the invariant and is a step of the queue, or none.
LEMMA SyncStep ==
  ASSUME SyncInv, [SyncNext]_syncVars
  PROVE  SyncInv' /\ [Hook!Enqueue \/ Hook!Take \/ Hook!Command]_<<queue, users>>
<1>1. CASE \E h \in SyncHooks, n \in SyncNames, v \in Values : InsertRow(h, n, v)
  BY <1>1, InsertKeeps, SMTT(60)
<1>2. CASE \E h \in SyncHooks : CountRows(h)
  BY <1>2, CountKeeps, Zenon DEF CountRows
<1>3. CASE RunCallbacks
  BY <1>3, CallbacksKeep DEF RunCallbacks
<1>4. CASE Commit
  BY <1>4, CommitKeeps
<1>5. CASE Crash
  BY <1>5, CrashKeeps
<1>6. CASE \E n \in SyncNames : UserDrop(n) \/ \E v \in Values : SetPassword(n, v)
  BY <1>6, CommandKeeps
<1>7. CASE UNCHANGED syncVars
  <2>1. queue' = queue /\ users' = users /\ mem' = mem /\ nextid' = nextid /\ run' = run
    BY <1>7, SMTT(60) DEF syncVars
  <2>2. SyncTypes' /\ (Agree <=> Agree') /\ (Counted(run) <=> Counted(run)')
    BY <2>1, SMTT(60) DEF SyncInv, SyncTypes, Agree, Counted, RowsOf, Hook!RowsOf
  <2>3. Planned(run) => Planned(run)'
    BY <2>1, ZenonT(60) DEF Planned, Plan, RowsOf, Hook!RowsOf
  <2> QED
    BY <2>1, <2>2, <2>3 DEF SyncInv
<1> QED
  BY <1>1, <1>2, <1>3, <1>4, <1>5, <1>6, <1>7 DEF SyncNext

\* dbhook.c and the dbh_ callbacks: between two calls of rsdb_hook_call the
\* accounts in memory are those of the table users, for any names, any number of
\* rows and of kills.
THEOREM NamesAgree == SyncSpec => []SyncNamesAgree
<1>1. SyncInv => SyncNamesAgree
  BY IdleFields DEF SyncInv, SyncNamesAgree, Agree
<1> QED
  BY <1>1, SyncInitial, SyncStep, PTL DEF SyncSpec

\* rsdb_hook_call implements the queue: the other program sees every call as one
\* step that carries out the oldest rows of one hook in some order, or nothing.
THEOREM HookAtomic == SyncSpec => RowsTakenAtomically
<1>1. SyncInit => Hook!QueueInit
  BY DEF SyncInit, Hook!QueueInit, NoUser
<1> QED
  BY <1>1, SyncInitial, SyncStep, PTL DEF SyncSpec, RowsTakenAtomically, Hook!QueueSpec
=============================================================================
