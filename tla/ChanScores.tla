------------------------------ MODULE ChanScores ------------------------------
(***************************************************************************)
(* The tables behind the ChanFix scores of one user@host on one channel    *)
(* (src/s_chanfix.c): what e_chanfix_score_channels and                    *)
(* e_chanfix_collate_history move from cf_temp_score to cf_score and on    *)
(* to cf_score_history, one statement at a time, with the services ending  *)
(* between any two of them.                                                *)
(*                                                                         *)
(* A sample is known by its timestamp, counted in runs of the scoring      *)
(* event; PerDay of them make a day (288 in the program).                  *)
(***************************************************************************)
EXTENDS Integers, FiniteSets, FiniteSetsExt

CONSTANTS
  PerDay, CF_DAYSAMPLES,
  MaxRounds,       \* of the loop in either event: 5 and 10 in the program
  MaxSamples,      \* bound: runs of the scoring event
  MaxCrashes       \* bound

\* A day of one run has no midnight between two runs; the loops move at least the timestamp and
\* the two days that a run finds while nothing goes wrong.
ASSUME SamplesAssumption ==
  /\ PerDay \in Nat /\ PerDay >= 2
  /\ CF_DAYSAMPLES \in Nat /\ CF_DAYSAMPLES >= 2
  /\ MaxRounds \in Nat /\ MaxRounds >= 2
  /\ MaxSamples \in Nat \ {0}
  /\ MaxCrashes \in Nat

VARIABLES
  time,                \* timestamp of the next run of e_chanfix_score_channels
  due,                 \* the day e_chanfix_collate_history is to run on
  cf_temp_score,       \* the timestamps in it
  cf_score,            \* of each sample of the user@host, the number of its rows
  cf_score_history,    \* of each day, the sum over its rows
  job,                 \* the event that is running
  taken,               \* history: the samples of the user@host
  crashes              \* history

scoreVars == <<time, due, cf_temp_score, cf_score, cf_score_history, job, taken, crashes>>

Times == 0 .. MaxSamples - 1
Day(t) == t \div PerDay
Days == 0 .. Day(MaxSamples)
Today == Day(time)

\* i counts the rounds of the loop, delete is what its DELETE is for.
Running(event, i) == [event |-> event, i |-> i, delete |-> {}]
Idle == Running("none", 0)
Runs(event) == job.event = event

\* f[0] + ... + f[n - 1]
SumTo(f, n) ==
  LET upto[i \in 0 .. n] == IF i = 0 THEN 0 ELSE upto[i - 1] + f[i - 1]
  IN  upto[n]

\* Once it holds a timestamp cf_temp_score always holds one: the newest is never moved.
ScoreInit ==
  /\ time = 1 /\ due = 1
  /\ cf_temp_score = {0}
  /\ cf_score = [t \in Times |-> 0]
  /\ cf_score_history = [d \in Days |-> 0]
  /\ job = Idle
  /\ taken = {} /\ crashes = 0

-----------------------------------------------------------------------------
(* e_chanfix_score_channels.                                               *)

\* Samples are taken: of this user@host, or of others, or none.  The event is run every 300
\* seconds and the other one 30 seconds after midnight: at most one run comes before it.
Sample ==
  /\ job = Idle /\ time < MaxSamples
  /\ time % PerDay = 0 \/ due > Today
  /\ \/ taken' = taken \cup {time} /\ cf_temp_score' = cf_temp_score \cup {time}
     \/ taken' = taken /\ cf_temp_score' \in {cf_temp_score, cf_temp_score \cup {time}}
  /\ time' = time + 1
  /\ job' = Running("score", 0)
  /\ UNCHANGED <<due, cf_score, cf_score_history, crashes>>

\* INSERT INTO cf_score, for the oldest timestamp of several.
MoveScore ==
  /\ Runs("score") /\ job.delete = {}
  /\ job.i < MaxRounds /\ Cardinality(cf_temp_score) > 1
  /\ LET min_ts == Min(cf_temp_score) IN
     /\ cf_score' = IF min_ts \in taken THEN [cf_score EXCEPT ![min_ts] = @ + 1] ELSE cf_score
     /\ job' = [job EXCEPT !.delete = {min_ts}]
  /\ UNCHANGED <<time, due, cf_temp_score, cf_score_history, taken, crashes>>

\* DELETE FROM cf_temp_score.
DeleteTemp ==
  /\ Runs("score") /\ job.delete # {}
  /\ cf_temp_score' = cf_temp_score \ job.delete
  /\ job' = Running("score", job.i + 1)
  /\ UNCHANGED <<time, due, cf_score, cf_score_history, taken, crashes>>

ScoreDone ==
  /\ Runs("score") /\ job.delete = {}
  /\ job.i = MaxRounds \/ Cardinality(cf_temp_score) = 1
  /\ job' = Idle
  /\ UNCHANGED <<time, due, cf_temp_score, cf_score, cf_score_history, taken, crashes>>

-----------------------------------------------------------------------------
(* e_chanfix_collate_history.                                              *)

Midnight ==
  /\ job = Idle /\ due = Today /\ time % PerDay <= 1
  /\ job' = Running("collate", 0)
  /\ UNCHANGED <<time, due, cf_temp_score, cf_score, cf_score_history, taken, crashes>>

\* The days before today that have rows in cf_score.
Uncollated == {Day(t) : t \in {t \in Times : cf_score[t] > 0 /\ Day(t) # Today}}
RowsOf(day) == {t \in Times : Day(t) = day}
CountOf(day) == SumTo([t \in Times |-> IF Day(t) = day THEN cf_score[t] ELSE 0], MaxSamples)

\* INSERT INTO cf_score_history, for the oldest day.
CollateDay ==
  /\ Runs("collate") /\ job.delete = {}
  /\ job.i < MaxRounds /\ Uncollated # {}
  /\ LET min_dayts == Min(Uncollated) IN
     /\ cf_score_history' = [cf_score_history EXCEPT ![min_dayts] = @ + CountOf(min_dayts)]
     /\ job' = [job EXCEPT !.delete = RowsOf(min_dayts)]
  /\ UNCHANGED <<time, due, cf_temp_score, cf_score, taken, crashes>>

\* DELETE FROM cf_score.
DeleteDay ==
  /\ Runs("collate") /\ job.delete # {}
  /\ cf_score' = [t \in Times |-> IF t \in job.delete THEN 0 ELSE cf_score[t]]
  /\ job' = Running("collate", job.i + 1)
  /\ UNCHANGED <<time, due, cf_temp_score, cf_score_history, taken, crashes>>

\* Mutant: one day too many.
DropDaysEarly ==
  /\ Runs("collate") /\ job.delete = {}
  /\ job.i = MaxRounds \/ Uncollated = {}
  /\ cf_score_history' = [d \in Days |-> IF d <= Today - CF_DAYSAMPLES + 1 THEN 0 ELSE cf_score_history[d]]
  /\ due' = Today + 1
  /\ job' = Idle
  /\ UNCHANGED <<time, cf_temp_score, cf_score, taken, crashes>>

\* DELETE FROM cf_score_history of the days that are too old.
DropDays ==
  /\ Runs("collate") /\ job.delete = {}
  /\ job.i = MaxRounds \/ Uncollated = {}
  /\ cf_score_history' = [d \in Days |-> IF d < Today - CF_DAYSAMPLES + 1 THEN 0 ELSE cf_score_history[d]]
  /\ due' = Today + 1
  /\ job' = Idle
  /\ UNCHANGED <<time, cf_temp_score, cf_score, taken, crashes>>

-----------------------------------------------------------------------------
\* The services end, and start before the next run would have been: init_s_chanfix runs the
\* second event at the midnight that comes then.
ScoreCrash ==
  /\ crashes < MaxCrashes
  /\ crashes' = crashes + 1
  /\ due' \in {Today + 1} \cup IF time % PerDay = 0 /\ ~ Runs("collate") /\ due = Today THEN {Today} ELSE {}
  /\ job' = Idle
  /\ UNCHANGED <<time, cf_temp_score, cf_score, cf_score_history, taken>>

ScoreNext ==
  \/ Sample
  \/ MoveScore
  \/ DeleteTemp
  \/ ScoreDone
  \/ Midnight
  \/ CollateDay
  \/ DeleteDay
  \/ DropDays
  \/ ScoreCrash

ScoreSpec == ScoreInit /\ [][ScoreNext]_scoreVars

-----------------------------------------------------------------------------
\* The score of the user@host, as fetch_cf_scores sums it up.
Score == SumTo(cf_score, MaxSamples) + SumTo(cf_score_history, Day(MaxSamples) + 1)

SamplesOf(d) == {t \in taken : Day(t) = d}
Doubled(n) ==
  LET times[i \in 0 .. n] == IF i = 0 THEN 1 ELSE 2 * times[i - 1]
  IN  times[n]

\* Between two runs of events every sample of the last CF_DAYSAMPLES days is counted, however the
\* events were cut short: in cf_temp_score, in cf_score or in cf_score_history.  It is counted
\* once, or twice as often with every crash; without one no score is above a point for every
\* sample of CF_DAYSAMPLES days, the maximum that the limits of a fix are fractions of.
SamplesCounted ==
  job = Idle =>
    /\ \A d \in {d \in Days : Today - CF_DAYSAMPLES < d /\ d <= Today} :
         LET counted == Cardinality(SamplesOf(d) \cap cf_temp_score) + cf_score_history[d] + CountOf(d)
         IN  /\ counted >= Cardinality(SamplesOf(d))
             /\ counted <= Cardinality(SamplesOf(d)) * Doubled(crashes)
    /\ crashes = 0 => Score <= PerDay * CF_DAYSAMPLES
=============================================================================
