--------------------------- MODULE Scheduler --------------------------
(***************************************************************************)
(* Server.runScheduler: one goroutine that runs the registered periodic    *)
(* jobs one after the other.  Times are relative: a job is due in so many  *)
(* ticks, and 0 is due or overdue.                                         *)
(***************************************************************************)
EXTENDS Naturals

CONSTANTS
    Jobs,       \* number of registered jobs
    Every       \* the interval of each

VARIABLES
    pc,         \* "scan" the entries from i on, "run" job i, "wait", "stopped"
    i,
    due,        \* ticks until nextFire of each entry
    batch,      \* the entries whose nextFire was not after now when the scan began
    timer,      \* ticks until the timer fires
    cancelled,  \* ctx is cancelled
    rested      \* history: ticks since each job ended (or since the start), up to Every

schedulerVars == <<pc, i, due, batch, timer, cancelled, rested>>

Job == 1 .. Jobs

SchedulerTypeOK ==
    /\ pc \in {"wait", "scan", "run", "stopped"}
    /\ i \in 1 .. Jobs + 1
    /\ due \in [Job -> Nat]
    /\ batch \in SUBSET Job
    /\ timer \in Nat
    /\ cancelled \in BOOLEAN
    /\ rested \in [Job -> Nat]

\* The loop computes the earliest nextFire and sleeps until then.
Earliest(d) == CHOOSE x \in {d[j] : j \in Job} : \A j \in Job : x <= d[j]

SchedulerInit ==
    /\ pc = "wait"
    /\ i = 1
    /\ due = Every
    /\ batch = {}
    /\ timer = Earliest(Every)
    /\ cancelled = FALSE
    /\ rested = [j \in Job |-> 0]

Before(n) == IF n = 0 THEN 0 ELSE n - 1

\* Time passes, also while a job runs.
Tick ==
    /\ due' = [j \in Job |-> Before(due[j])]
    /\ timer' = Before(timer)
    /\ rested' = [j \in Job |-> IF (pc = "run" /\ i = j) \/ rested[j] = Every[j] THEN rested[j]
                                ELSE rested[j] + 1]
    /\ UNCHANGED <<pc, i, batch, cancelled>>

Cancel ==
    /\ cancelled' = TRUE
    /\ UNCHANGED <<pc, i, due, batch, timer, rested>>

\* The timer's case of the select; now is read once for the whole scan.
Wake ==
    /\ pc = "wait"
    /\ timer = 0
    /\ pc' = "scan"
    /\ i' = 1
    /\ batch' = {j \in Job : due[j] = 0}
    /\ UNCHANGED <<due, timer, cancelled, rested>>

\* The other case; when both are ready Go takes either.
Stop ==
    /\ pc = "wait"
    /\ cancelled
    /\ pc' = "stopped"
    /\ UNCHANGED <<i, due, batch, timer, cancelled, rested>>

\* Mutation: the first entry is taken for the earliest.
SleepFirst ==
    /\ pc = "scan"
    /\ i = Jobs + 1
    /\ timer' = due[1]
    /\ pc' = "wait"
    /\ batch' = {}
    /\ UNCHANGED <<i, due, cancelled, rested>>

Sleep ==
    /\ pc = "scan"
    /\ i = Jobs + 1
    /\ timer' = Earliest(due)
    /\ pc' = "wait"
    /\ batch' = {}
    /\ UNCHANGED <<i, due, cancelled, rested>>

Scan ==
    /\ pc = "scan"
    /\ i <= Jobs
    /\ IF i \in batch THEN pc' = "run" /\ i' = i ELSE pc' = "scan" /\ i' = i + 1
    /\ UNCHANGED <<due, batch, timer, cancelled, rested>>

\* Mutation: one job is run per wake-up.
ReturnsOnce ==
    /\ pc = "run"
    /\ due' = [due EXCEPT ![i] = Every[i]]
    /\ rested' = [rested EXCEPT ![i] = 0]
    /\ pc' = "scan"
    /\ i' = Jobs + 1
    /\ UNCHANGED <<batch, timer, cancelled>>

\* The job returns, with or without an error, and is due again Every later.
Returns ==
    /\ pc = "run"
    /\ due' = [due EXCEPT ![i] = Every[i]]
    /\ rested' = [rested EXCEPT ![i] = 0]
    /\ pc' = "scan"
    /\ i' = i + 1
    /\ UNCHANGED <<batch, timer, cancelled>>

Step == Wake \/ Sleep \/ Scan \/ Returns

SchedulerNext == Tick \/ Cancel \/ Step \/ Stop

SchedulerSpec == SchedulerInit /\ [][SchedulerNext]_schedulerVars

\* Time passes, the goroutine runs, jobs return, and a select that finds ctx done
\* again and again takes it in the end.
FairScheduler == SchedulerSpec /\ WF_schedulerVars(Tick) /\ WF_schedulerVars(Step) /\ SF_schedulerVars(Stop)

-----------------------------------------------------------------------
(* Properties.                                                           *)

\* A job runs only after its interval has passed since it ended last (it rests until it
\* starts), however long the jobs before it in the scan took and whatever time their scan
\* began.
NeverEarly == pc = "run" => rested[i] = Every[i]

\* The goroutine never sleeps past the moment some job is due.
WakesForTheEarliest == SchedulerTypeOK /\ (pc = "wait" => \A j \in Job : timer <= due[j])

\* The inductive invariant: what is left of an interval is at most the time until the job is
\* due, and the jobs of a scan that are still to come stay due.
SchedulerInv ==
    /\ WakesForTheEarliest
    /\ \A j \in Job : rested[j] <= Every[j] /\ Every[j] <= rested[j] + due[j]
    /\ pc \in {"scan", "run"} => \A j \in batch : i <= j => due[j] = 0
    /\ pc = "run" => i \in batch

\* The goroutine never sleeps past the moment some job is due, and a job starts only when
\* its interval has passed since it ended last.
JobsAreOnTime == WakesForTheEarliest /\ NeverEarly /\ SchedulerInv

SchedulerAssumption == Jobs \in Nat \ {0} /\ Every \in [1 .. Jobs -> Nat]

\* Every job runs again and again until the server stops, also next to one that is
\* due all the time.
EveryJobRuns == \A j \in Job : []<>(pc = "run" /\ i = j) \/ <>cancelled

\* After the cancellation the goroutine ends, although its timer may be ready
\* whenever it looks.
StopsWhenCancelled == cancelled ~> pc = "stopped"
========================================================================
