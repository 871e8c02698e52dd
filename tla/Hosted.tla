------------------------------- MODULE Hosted -------------------------------
(***************************************************************************)
(* The hosted eligibility status of one source PR: hosted._run and         *)
(* eligibility.evaluate, started by the events of                          *)
(* .github/workflows/eligibility.yml, read by GitHub's required checks.    *)
(*                                                                         *)
(* GitHub runs one workflow of the PR's concurrency group at a time and    *)
(* lets one more wait; a newer one takes the place of the one that waits.  *)
(***************************************************************************)
EXTENDS Naturals, FiniteSets

CONSTANTS
    MaxHead,    \* heads that can be pushed to the PR (bound)
    MaxMoves,   \* changes people may make to the PR (bound)
    Displaces,  \* TRUE: a title or body is edited while a refresh waits
    Lands       \* TRUE: GitHub may merge a PR whose status is green

ASSUME BoundsAssumption == MaxHead \in Nat \ {0} /\ MaxMoves \in Nat
ASSUME SwitchAssumption == Displaces \in BOOLEAN /\ Lands \in BOOLEAN

VARIABLES
    head, pr,            \* the PR: its head, and "open", "merged" or "closed"
    reviewed, blocked,   \* heads with an eligible review, with an open finding
    status,              \* `Loop-zero Eligibility` on each head
    notice,              \* a `review event` run has yet to complete
    waiting,             \* the run that waits in the concurrency group
    run,                 \* the run in progress
    failed,              \* the last refresh ended in an error, red in Actions
    moves

source == <<head, pr, reviewed, blocked>>
vars   == <<source, status, notice, waiting, run, failed, moves>>

Heads  == 1..MaxHead
States == {"none", "pending", "success", "failure"}
Waiting == {"none", "refresh", "skip"}   \* skip: its job's `if` is false
Pc == {"idle", "read", "pending", "view", "reviews", "threads", "recheck", "final",
       "publish", "fail"}
Reasons == {"state", "review", "finding", "moved"}
Run == [pc : Pc, at : Heads, why : SUBSET Reasons]

GoTo(label) == run' = [run EXCEPT !.pc = label]
\* One read of evaluate: on to the next, with the reason it gave, if any.
Note(reason, holds, next) ==
    run' = [run EXCEPT !.pc = next, !.why = IF holds THEN @ \cup {reason} ELSE @]

-----------------------------------------------------------------------------
(* One refresh.                                                            *)

\* Mutant: the status of a head is left alone once it is green.
BeginUnlessGreen ==
    /\ run.pc = "idle" /\ waiting # "none"
    /\ waiting' = "none"
    /\ run' = [pc |-> IF waiting = "refresh" /\ status[head] # "success"
                      THEN "read" ELSE "idle", at |-> head, why |-> {}]
    /\ failed' = (failed /\ waiting = "skip")
    /\ UNCHANGED <<source, status, notice, moves>>

\* The waiting run starts; one whose job is skipped is over at once.
Begin ==
    /\ run.pc = "idle" /\ waiting # "none"
    /\ waiting' = "none"
    /\ run' = [pc |-> IF waiting = "refresh" THEN "read" ELSE "idle",
               at |-> head, why |-> {}]
    /\ failed' = (failed /\ waiting = "skip")
    /\ UNCHANGED <<source, status, notice, moves>>

\* The PR's head is captured; a landed PR publishes nothing.
ReadPr ==
    /\ run.pc = "read"
    /\ run' = [run EXCEPT !.at = head, !.pc = IF pr = "merged" THEN "idle" ELSE "pending"]
    /\ UNCHANGED <<source, status, notice, waiting, failed, moves>>

PublishPending ==
    /\ run.pc = "pending"
    /\ status' = [status EXCEPT ![run.at] = "pending"]
    /\ GoTo("view")
    /\ UNCHANGED <<source, notice, waiting, failed, moves>>

\* evaluate: the PR, its reviews, its threads, the PR again, each on its own.
View ==
    /\ run.pc = "view"
    /\ IF head # run.at THEN Note("moved", TRUE, "final")
                        ELSE Note("state", pr # "open", "reviews")
    /\ UNCHANGED <<source, status, notice, waiting, failed, moves>>

ReadReviews ==
    /\ run.pc = "reviews"
    /\ Note("review", run.at \notin reviewed, "threads")
    /\ UNCHANGED <<source, status, notice, waiting, failed, moves>>

ReadThreads ==
    /\ run.pc = "threads"
    /\ Note("finding", run.at \in blocked, "recheck")
    /\ UNCHANGED <<source, status, notice, waiting, failed, moves>>

\* A moved head replaces the other reasons.
RecheckHead ==
    /\ run.pc = "recheck"
    /\ run' = [run EXCEPT !.pc = "final", !.why = IF head # run.at THEN {"moved"} ELSE @]
    /\ UNCHANGED <<source, status, notice, waiting, failed, moves>>

Final ==
    /\ run.pc = "final"
    /\ GoTo(IF head # run.at THEN "fail" ELSE "publish")
    /\ UNCHANGED <<source, status, notice, waiting, failed, moves>>

\* A head that lacks nothing but its review stays pending.
Publish ==
    /\ run.pc = "publish"
    /\ status' = [status EXCEPT ![run.at] =
         IF run.why = {} THEN "success" ELSE IF run.why = {"review"} THEN "pending" ELSE "failure"]
    /\ GoTo("idle")
    /\ UNCHANGED <<source, notice, waiting, failed, moves>>

\* A call fails.  Until `pending` is published that ends the run, after it
\* the failure is published.
Fail ==
    /\ run.pc \notin {"idle", "fail"}
    /\ GoTo(IF run.pc \in {"read", "pending"} THEN "idle" ELSE "fail")
    /\ failed' = TRUE
    /\ UNCHANGED <<source, status, notice, waiting, moves>>

\* Mutant: GitHub's fourth status state, which the readers do not know.
PublishError ==
    /\ run.pc = "fail"
    /\ status' \in {status, [status EXCEPT ![run.at] = "error"]}
    /\ GoTo("idle")
    /\ UNCHANGED <<source, notice, waiting, failed, moves>>

\* Best effort; a runner that dies publishes nothing either.
PublishFailure ==
    /\ run.pc = "fail"
    /\ status' \in {status, [status EXCEPT ![run.at] = "failure"]}
    /\ GoTo("idle")
    /\ UNCHANGED <<source, notice, waiting, failed, moves>>

-----------------------------------------------------------------------------
(* Events.                                                                 *)

Move == moves < MaxMoves /\ moves' = moves + 1 /\ UNCHANGED <<status, run, failed>>

\* `opened`, `synchronize`, `edited` with a new base, ...: a run enters the
\* group and takes the place of the one that waits.
Enqueue(kind) == waiting' = kind /\ UNCHANGED notice

\* Review events reach the group through a workflow_run notification.
Notify == notice' = TRUE /\ UNCHANGED waiting

Deliver ==
    /\ notice /\ notice' = FALSE
    /\ waiting' = "refresh"
    /\ UNCHANGED <<source, status, run, failed, moves>>

PushHead ==
    /\ Move /\ pr = "open" /\ head < MaxHead
    /\ head' = head + 1
    /\ Enqueue("refresh")
    /\ UNCHANGED <<pr, reviewed, blocked>>

\* A review is submitted, perhaps with blocking findings; it is dismissed; a
\* blocking comment is added.
ReviewEvent ==
    /\ Move /\ pr = "open"
    /\ \/ reviewed' = reviewed \cup {head} /\ blocked' \in {blocked, blocked \cup {head}}
       \/ head \in reviewed /\ reviewed' = reviewed \ {head} /\ UNCHANGED blocked
       \/ head \notin blocked /\ blocked' = blocked \cup {head} /\ UNCHANGED reviewed
    /\ Notify
    /\ UNCHANGED <<head, pr>>

\* Resolving a thread starts no workflow.
Resolve ==
    /\ Move /\ pr = "open" /\ head \in blocked
    /\ blocked' = blocked \ {head}
    /\ UNCHANGED <<head, pr, reviewed, notice, waiting>>

\* A new title or body, such as the one `loopzero check` writes: its run enters
\* the group, and only then is its job skipped.  With none in progress the one
\* that waits starts first.
EditText ==
    /\ Move /\ pr = "open" /\ (Displaces \/ waiting # "refresh")
    /\ Enqueue(IF run.pc = "idle" THEN waiting ELSE "skip")
    /\ UNCHANGED source

Close ==
    /\ Move /\ pr = "open" /\ pr' = "closed"
    /\ UNCHANGED <<head, reviewed, blocked, notice, waiting>>

Reopen ==
    /\ Move /\ pr = "closed" /\ pr' = "open"
    /\ Enqueue("refresh")
    /\ UNCHANGED <<head, reviewed, blocked>>

\* GitHub requires the status.
Merge ==
    /\ Lands /\ pr = "open" /\ status[head] = "success"
    /\ pr' = "merged"
    /\ UNCHANGED <<head, reviewed, blocked, status, notice, waiting, run, failed, moves>>

-----------------------------------------------------------------------------
Init ==
    /\ head = 1 /\ pr = "open" /\ reviewed = {} /\ blocked = {}
    /\ status = [h \in Heads |-> "none"] /\ notice = FALSE /\ waiting = "refresh"
    /\ run = [pc |-> "idle", at |-> 1, why |-> {}]
    /\ failed = FALSE /\ moves = 0

Refresh == Begin \/ ReadPr \/ PublishPending \/ View \/ ReadReviews \/ ReadThreads
           \/ RecheckHead \/ Final \/ Publish \/ Fail \/ PublishFailure
People  == PushHead \/ ReviewEvent \/ Resolve \/ EditText \/ Close \/ Reopen \/ Merge

Next == Refresh \/ Deliver \/ People
Spec == Init /\ [][Next]_vars

-----------------------------------------------------------------------------
TypeOK ==
    /\ head \in Heads /\ pr \in {"open", "merged", "closed"}
    /\ reviewed \subseteq Heads /\ blocked \subseteq Heads
    /\ status \in [Heads -> States] /\ notice \in BOOLEAN
    /\ waiting \in Waiting /\ run \in Run /\ failed \in BOOLEAN
    /\ moves \in 0..MaxMoves

\* When no refresh runs, waits or is about to be asked for, and the last one
\* did not end in an error, a green status is true: the head has its review
\* and no blocking finding, in whatever order reviews, dismissals, pushes and
\* the reads of earlier refreshes came.  The workflow's comment says of the
\* events it skips that "the head's existing status stays authoritative"
\* (.github/workflows/eligibility.yml:20-22).
GreenIsTrue ==
    run.pc = "idle" /\ waiting = "none" /\ ~notice /\ ~failed /\ pr = "open" =>
        (status[head] = "success" => head \in reviewed /\ head \notin blocked)

\* "A merged source PR publishes nothing, so a late refresh cannot turn its
\* landed head red" (docs/ARCHITECTURE.md:268; hosted.py:47).
LandedNotRed == pr = "merged" => status[head] # "failure"
=============================================================================
