------------------------------ MODULE Signals ------------------------------
(***************************************************************************)
(* The wait for one required check after a review: _check_signals,         *)
(* _has_active_replacement and readiness of src/loopzero/github.py polled  *)
(* by _wait_for_checks of src/loopzero/cli.py, against workflow runs,      *)
(* their reruns, check runs and commit statuses that GitHub lists on one   *)
(* head.                                                                   *)
(*                                                                         *)
(* A poll reads them in separate calls while they change.  Times are whole *)
(* seconds on one clock, the operator's and GitHub's.                      *)
(***************************************************************************)
EXTENDS Integers, Sequences, FiniteSets

CONSTANTS
    Workflow,      \* workflows that run on the head
    ReviewAt,      \* submission of the head's review
    MissingGrace,  \* MISSING_RUN_GRACE
    StaleGrace,    \* STALE_VERDICT_GRACE
    MaxTime, MaxRuns, MaxStatuses, MaxSteps   \* bounds

ASSUME TimesAssumption == {ReviewAt, MissingGrace, StaleGrace, MaxTime, MaxSteps} \subseteq Nat

VARIABLES
    now, steps,    \* the time, and GitHub's steps so far
    runs,          \* workflow runs: of, created, attempt, started, active
    checks,        \* the check's runs by id: run, attempt, begun, ended, state
    statuses,      \* commit statuses of the name, oldest first: state, at
    poll           \* the waiter: pc, age, the check run seen (if any), the
                   \*   statuses there were, verdict;
                   \*   history: what there was when the poll began, and active
                   \*   runs when it ended

sgvars == <<now, steps, runs, checks, statuses, poll>>

NoTime == -1
Pending == {"in_progress", "pending"}
Active == {<<r, runs[r].attempt>> : r \in {r \in DOMAIN runs : runs[r].active}}

Fresh == [pc |-> "review", age |-> NoTime, seen |-> <<>>, status |-> 0,
          verdict |-> "none", checks0 |-> 0, statuses0 |-> 0]

SignalsInit ==
    /\ now = 0 /\ steps = 0
    /\ runs = <<>> /\ checks = <<>> /\ statuses = <<>>
    /\ poll = Fresh

-----------------------------------------------------------------------------
(* GitHub.                                                                 *)

Tick ==
    /\ now < MaxTime
    /\ now' = now + 1
    /\ UNCHANGED <<steps, runs, checks, statuses, poll>>

Step == steps < MaxSteps /\ steps' = steps + 1 /\ UNCHANGED now

Begun(r, attempt) == [run |-> r, attempt |-> attempt, begun |-> now, ended |-> NoTime,
                      state |-> "in_progress"]

\* A run is queued without a check run, or starts the check at once.
Trigger(workflow) ==
    /\ Len(runs) < MaxRuns
    /\ runs' = Append(runs, [of |-> workflow, created |-> now, attempt |-> 1,
                             started |-> now, active |-> TRUE])
    /\ checks' \in {checks, Append(checks, Begun(Len(runs) + 1, 1))}
    /\ Step /\ UNCHANGED <<statuses, poll>>

StartCheck(r) ==
    /\ runs[r].active
    /\ ~\E i \in DOMAIN checks : checks[i].run = r /\ checks[i].attempt = runs[r].attempt
    /\ checks' = Append(checks, Begun(r, runs[r].attempt))
    /\ Step /\ UNCHANGED <<runs, statuses, poll>>

\* The run ends with its check, or goes on with other jobs.
FinishCheck(i, conclusion) ==
    /\ checks[i].state = "in_progress"
    /\ checks' = [checks EXCEPT ![i].state = conclusion, ![i].ended = now]
    /\ runs' \in {runs, [runs EXCEPT ![checks[i].run].active = FALSE]}
    /\ Step /\ UNCHANGED <<statuses, poll>>

EndRun(r) ==
    /\ runs[r].active
    /\ ~\E i \in DOMAIN checks : checks[i].run = r /\ checks[i].state = "in_progress"
    /\ runs' = [runs EXCEPT ![r].active = FALSE]
    /\ Step /\ UNCHANGED <<checks, statuses, poll>>

\* Not in the second its check ended.
Rerun(r) ==
    /\ ~runs[r].active /\ runs[r].attempt = 1
    /\ \A i \in DOMAIN checks : checks[i].run = r => checks[i].ended < now
    /\ runs' = [runs EXCEPT ![r].attempt = 2, ![r].started = now, ![r].active = TRUE]
    /\ checks' \in {checks, Append(checks, Begun(r, 2))}
    /\ Step /\ UNCHANGED <<statuses, poll>>

PostStatus(state) ==
    /\ Len(statuses) < MaxStatuses
    /\ statuses' = Append(statuses, [state |-> state, at |-> now])
    /\ Step /\ UNCHANGED <<runs, checks, poll>>

-----------------------------------------------------------------------------
(* One poll.                                                               *)

\* The review and its age; the wait is for a reviewed head.
ReadReview ==
    /\ poll.pc = "review" /\ now >= ReviewAt
    /\ poll' = [Fresh EXCEPT !.pc = "checks", !.age = now - ReviewAt,
                             !.checks0 = Len(checks), !.statuses0 = Len(statuses)]
    /\ UNCHANGED <<now, steps, runs, checks, statuses>>

\* Mutant: the check run that ended last is the latest.
LatestEnded ==
    CHOOSE i \in DOMAIN checks : \A j \in DOMAIN checks : checks[j].ended <= checks[i].ended

\* _check_run_order: by id.
Latest == Len(checks)

ReadCheckRuns ==
    /\ poll.pc = "checks"
    /\ poll' = [poll EXCEPT !.pc = "statuses",
                            !.seen = IF checks = <<>> THEN <<>> ELSE <<checks[Latest]>>]
    /\ UNCHANGED <<now, steps, runs, checks, statuses>>

ReadStatuses ==
    /\ poll.pc = "statuses"
    /\ poll' = [poll EXCEPT !.pc = "judge", !.status = Len(statuses)]
    /\ UNCHANGED <<now, steps, runs, checks, statuses>>

\* The states and times of the signal's check run and status.
OfCheck  == {[state |-> c.state, at |-> IF c.ended # NoTime THEN c.ended ELSE c.begun] :
                c \in {poll.seen[i] : i \in DOMAIN poll.seen}}
OfStatus == IF poll.status = 0 THEN {} ELSE {statuses[poll.status]}
Values   == OfCheck \cup OfStatus
Failing  == {v \in Values : v.state \notin Pending \cup {"success"}}

\* Mutant: a run never replaces itself.
ReplacedByNewer(c) ==
    \E r \in DOMAIN runs :
        runs[r].active /\ runs[r].of = runs[c.run].of /\ r > c.run

\* _has_active_replacement: a newer run of the same workflow, or a rerun.
Replaced(c) ==
    \E r \in DOMAIN runs :
        /\ runs[r].active /\ runs[r].of = runs[c.run].of
        /\ \/ runs[r].created > runs[c.run].created
           \/ runs[r].created = runs[c.run].created /\ r > c.run
           \/ r = c.run /\ runs[r].attempt > 1 /\ runs[r].started > c.ended

\* Mutant: a verdict from before the review is waited on for ever.
StaleForEver ==
    /\ \A v \in Failing : v.at < ReviewAt
    /\ \A v \in Values : v.state # "success" => v.at < ReviewAt

\* A failure from before the review, while a new one is about to come.
Stale ==
    \/ /\ \A v \in Failing : v.at < ReviewAt
       /\ \/ poll.age < MissingGrace
          \/ \E v \in Values : v.state \in Pending /\ v.at >= ReviewAt
    \/ /\ poll.age < StaleGrace
       /\ \A v \in Values : v.state # "success" => v.at < ReviewAt

\* The workflow runs are read now, and only for a failed check run.
Judge ==
    /\ poll.pc = "judge"
    /\ LET replaced == /\ poll.seen # <<>> /\ poll.seen[1].state = "failure"
                       /\ ~\E v \in OfStatus : v \in Failing
                       /\ Replaced(poll.seen[1])
           waitable == Stale \/ poll.age < MissingGrace \/ replaced
           verdict  == IF Values = {} THEN "missing"
                       ELSE IF \A v \in Values : v.state = "success" THEN "green"
                       ELSE IF Failing = {} THEN "pending"
                       ELSE IF waitable THEN "stale" ELSE "failed"
       IN  poll' = IF verdict \in {"green", "failed"}
                   THEN [poll EXCEPT !.pc = "ended", !.verdict = verdict]
                   ELSE IF verdict = "missing" /\ now - ReviewAt >= MissingGrace
                   THEN [poll EXCEPT !.pc = "missing"]
                   ELSE Fresh
    /\ UNCHANGED <<now, steps, runs, checks, statuses>>

\* A check that has not appeared in time, counted from the review here, ends the
\* wait unless it is pending by now; the two reads are one.
Diagnose ==
    /\ poll.pc = "missing"
    /\ LET newest == {checks[i].state : i \in DOMAIN checks \cap {Len(checks)}}
                     \cup {statuses[i].state : i \in DOMAIN statuses \cap {Len(statuses)}}
           pending == newest \cap Pending # {} /\ newest \subseteq Pending \cup {"success"}
       IN  poll' = IF pending THEN Fresh
                   ELSE [poll EXCEPT !.pc = "ended", !.verdict = "unscheduled"]
    /\ UNCHANGED <<now, steps, runs, checks, statuses>>

Poll == ReadReview \/ ReadCheckRuns \/ ReadStatuses \/ Judge \/ Diagnose

GitHub ==
    \/ Tick
    \/ \E workflow \in Workflow : Trigger(workflow)
    \/ \E r \in DOMAIN runs : StartCheck(r) \/ EndRun(r) \/ Rerun(r)
    \/ \E i \in DOMAIN checks, conclusion \in {"success", "failure"} : FinishCheck(i, conclusion)
    \/ \E state \in {"pending", "success", "failure"} : PostStatus(state)

\* What GitHub does after the wait's end is no longer followed.
SignalsNext == Poll \/ (poll.pc # "ended" /\ GitHub)

SignalsSpec == SignalsInit /\ [][SignalsNext]_sgvars

\* The command polls on, and time passes; GitHub need not do anything.
SignalsFairness == WF_sgvars(Poll) /\ WF_sgvars(poll.pc # "ended" /\ Tick)

-----------------------------------------------------------------------------
(* Properties.                                                             *)

SignalsTypeOK ==
    /\ now \in 0..MaxTime /\ steps \in 0..MaxSteps
    /\ \A r \in DOMAIN runs : runs[r].started >= runs[r].created /\ runs[r].started <= now
    /\ \A i \in DOMAIN checks : checks[i].run \in DOMAIN runs /\ checks[i].ended <= now
    /\ poll.pc \in {"review", "checks", "statuses", "judge", "missing", "ended"}
    /\ Len(poll.seen) <= 1 /\ poll.status \in 0..Len(statuses)
    /\ poll.pc = "ended" <=> poll.verdict \in {"green", "failed", "unscheduled"}

\* A green answer: each check run and status there was when the poll began, and
\* that is no success, has a newer one that is, however late the older one ended.
GreenOutranks ==
    poll.verdict = "green" =>
        /\ \A i \in 1..poll.checks0 : checks[i].state # "success" =>
             \E j \in DOMAIN checks : j > i /\ checks[j].state = "success"
        /\ \A i \in 1..poll.statuses0 : statuses[i].state # "success" =>
             \E j \in DOMAIN statuses : j > i /\ statuses[j].state = "success"

\* A failed check run does not end the wait while its replacement, a newer run
\* of its workflow or its rerun, is active.
FailureIsFinal ==
    (poll.verdict = "failed" /\ ~\E v \in OfStatus : v \in Failing) =>
        \A a \in Active :
            LET c == poll.seen[1]
            IN  ~ /\ runs[a[1]].of = runs[c.run].of
                  /\ \/ a[1] > c.run
                     \/ a[1] = c.run /\ a[2] > c.attempt

\* Nothing is waited for that no longer comes: once no run of the reviewed head is
\* active, no check is in progress and no status pending, the wait ends, whether
\* a check ever appeared or not.
Settled ==
    /\ \A r \in DOMAIN runs : ~runs[r].active
    /\ \A i \in DOMAIN checks : checks[i].state # "in_progress"
    /\ \A i \in DOMAIN statuses : i = Len(statuses) => statuses[i].state # "pending"
SettledEnds == <>[]Settled => <>(poll.pc = "ended")
=============================================================================
