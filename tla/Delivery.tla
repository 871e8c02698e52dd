------------------------------ MODULE Delivery ------------------------------
(***************************************************************************)
(* One task branch and its pull request: the commands `loopzero check`,    *)
(* `pr`, `ready` and `merge` (src/loopzero/cli.py) run by several sessions *)
(* in one task clone, against a GitHub whose review, findings, checks and  *)
(* queue move between any two reads the commands make.                     *)
(*                                                                         *)
(* A commit is a value of Commit; `anc` holds its ancestors.  One required *)
(* check stands for all of them: the code only asks whether every reason   *)
(* that blocks is one it may wait for.                                     *)
(***************************************************************************)
EXTENDS Naturals, FiniteSets

CONSTANTS
    Commit,     \* commits that can ever exist on the task branch (bound)
    NoCommit,   \* an absent ref or lease
    Session,    \* shells in which an operator runs commands
    Runs,       \* Runs[s]: the commands session s may run (bound)
    WaitModes,  \* the --wait options tried (bound)
    MaxMoves,   \* changes the worker and people on GitHub may make before the
                \*   PR is merged (bound)
    Queue       \* TRUE: delivery.merge = "queue"; FALSE: squash/merge/rebase

Command == {"check", "pr", "ready", "merge"}
Waits   == {"none", "zero", "positive"}     \* no --wait, --wait=0, --wait[=SECONDS]

ASSUME CommitAssumption == NoCommit \notin Commit
ASSUME RunsAssumption   == Runs \in [Session -> SUBSET Command]
ASSUME WaitAssumption   == WaitModes \subseteq Waits
ASSUME MovesAssumption  == MaxMoves \in Nat
ASSUME QueueAssumption  == Queue \in BOOLEAN

VARIABLES
    head, dirty, clone,   \* the clone: HEAD, uncommitted changes, its existence
    known,                \* commits whose objects the clone has
    receipt,              \* .loopzero/checks.json
    anc,                  \* ancestors of each commit, itself included; {} = not made
    stale,                \* commits that do not contain the current base branch
    remote,               \* the branch on GitHub
    pr,                   \* the latest pull request of the branch
    queued,               \* GitHub holds the PR in its merge queue
    reviewed,             \* heads with an eligible review
    blocked,              \* heads with an open critical/important finding
    ci,                   \* state of the required check on each head
    run,                  \* run[s]: the command session s is running
    moves,                \* changes counted so far, by anyone but a command
    held, accepted,       \* history: gates seen true by anyone, see Track
    marked                \* history: sessions whose command has activated the PR

local  == <<head, dirty, clone, known, receipt>>
github == <<remote, pr, queued>>
people == <<stale, reviewed, blocked, ci>>
vars   == <<local, github, people, anc, run, moves, held, accepted, marked>>

-----------------------------------------------------------------------------
(* Readiness: six gates, each read by its own call, in the order of        *)
(* cli._readiness and github.readiness.                                    *)

Gates == {"open", "current", "review", "findings", "ci", "receipt"}

CiState   == {"missing", "pending", "success", "failure", "skipped"}
\* Mutant: a truncated report is accepted without its results.
TruncatedReceipt == [head |-> NoCommit, clean |-> FALSE]

NoReceipt == [head |-> NoCommit, clean |-> FALSE, ok |-> FALSE]
Receipt   == [head : Commit \cup {NoCommit}, clean : BOOLEAN, ok : BOOLEAN]
PullRequest == [state : {"none", "open", "closed", "merged"}, draft : BOOLEAN,
                head : Commit \cup {NoCommit}]

Reading == {"pr", "review", "findings", "ci", "receipt", "decide"}
Pc == Reading \cup {"idle", "check", "push", "create", "kick", "merge",
                    "look", "queue", "relook", "cleanup", "remove"}
Exits == {"none", "ready", "left"}

RunState ==
    [pc : Pc, cmd : Command \cup {"none"}, wait : Waits,
     at : Commit \cup {NoCommit},   \* the head the command captured
     waiting : BOOLEAN,             \* inside _wait_for_checks
     kicked : BOOLEAN,              \* this command marked the draft ready
     late : BOOLEAN,                \* its --wait deadline has passed
     seen : SUBSET Gates,           \* gates this poll read as satisfied
     draft : BOOLEAN, ci : CiState, grace : BOOLEAN,   \* what else it read
     lease : Commit \cup {NoCommit}, fresh : BOOLEAN,  \* of `pr`
     exit : Exits]

Idle == [pc |-> "idle", cmd |-> "none", wait |-> "none", at |-> NoCommit,
         waiting |-> FALSE, kicked |-> FALSE, late |-> FALSE, seen |-> {},
         draft |-> FALSE, ci |-> "missing", grace |-> FALSE,
         lease |-> NoCommit, fresh |-> FALSE, exit |-> "none"]

\* The gates that hold at this instant for commit c.  A PR with another base, or
\* with conflicts, is not current; of the receipt, Checks has the list of commands.
Holding(c) ==
    {g \in Gates :
        CASE g = "open"     -> pr.state = "open" /\ pr.head = c
          [] g = "current"  -> c \notin stale
          [] g = "review"   -> c \in reviewed
          [] g = "findings" -> c \notin blocked
          [] g = "ci"       -> c \in Commit /\ ci[c] = "success"
          [] g = "receipt"  -> receipt = [head |-> c, clean |-> TRUE, ok |-> TRUE]}

Made == {c \in Commit : anc[c] # {}}

\* Mutant: activates a draft whatever else blocks it.
ActivateAnyDraft(r) == r.draft /\ r.ci \in {"missing", "skipped"}

\* _draft_checks_waiting: the draft is blocked by nothing but a required
\* check that is missing or skipped.
DraftChecksWaiting(r) ==
    /\ r.draft
    /\ r.seen = Gates \ {"ci"}
    /\ r.ci \in {"missing", "skipped"}

\* _pending_checks: every blocker is a required check that may still turn green.
Pending(r) ==
    /\ r.seen = Gates \ {"ci"}
    /\ \/ r.ci \in {"missing", "pending"}
       \/ r.ci = "skipped" /\ r.kicked
       \/ r.ci \in {"failure", "skipped"} /\ r.grace

\* Mutant: open findings do not block.
ReadyDespiteFindings(r) == Gates \ {"findings"} \subseteq r.seen

Ready(r) == r.seen = Gates

Become(s, r) == run' = [run EXCEPT ![s] = r]
At(s, label) == run[s].pc = label
GoTo(s, label) == Become(s, [run[s] EXCEPT !.pc = label])
\* The command ends.  Of its outcomes the model keeps the two that make a
\* claim about the PR: `ready` exits 0, a waiter reports the queue left.
Return(s) == Become(s, Idle)
Exit(s, code) == Become(s, [Idle EXCEPT !.exit = code])

-----------------------------------------------------------------------------
(* loopzero check: sandbox.run_checks and cmd_check.                       *)

CheckStart(s) ==
    /\ At(s, "idle") /\ clone /\ "check" \in Runs[s]
    /\ Become(s, [Idle EXCEPT !.pc = "check", !.cmd = "check", !.at = head,
                              !.draft = dirty])
    /\ UNCHANGED <<local, github, people, anc>>

\* HEAD and dirtiness are read again at the end; a difference adds a failing
\* result and marks the report dirty.  Checks has the four reads apart.
CheckFinish(s) ==
    /\ At(s, "check") /\ clone
    /\ \E ok \in BOOLEAN :
         LET same == head = run[s].at /\ dirty = run[s].draft
         IN  /\ receipt' = [head |-> run[s].at, ok |-> ok /\ same,
                            clean |-> same /\ ~run[s].draft]
             /\ Return(s)
    /\ UNCHANGED <<head, dirty, clone, known, github, people, anc>>

-----------------------------------------------------------------------------
(* loopzero pr: look the PR up, push, create the draft.                    *)

PrLookup(s) ==
    /\ At(s, "idle") /\ clone /\ ~dirty /\ "pr" \in Runs[s]
    /\ pr.state # "merged"
    /\ LET force == pr.state = "open" /\ pr.head \notin anc[head]
       IN  /\ force => pr.head \in known
           /\ Become(s, [Idle EXCEPT !.pc = "push", !.cmd = "pr",
                           !.lease = IF force THEN pr.head ELSE NoCommit,
                           !.fresh = pr.state # "open"])
    /\ UNCHANGED <<local, github, people, anc>>

\* Mutant: --force instead of --force-with-lease.
PushForced(s) == run[s].lease # NoCommit \/ remote = NoCommit \/ remote \in anc[head]

\* Git pushes the branch as it is now, not the head looked up before.
PushAccepted(s) ==
    IF run[s].lease # NoCommit THEN remote = run[s].lease
    ELSE remote = NoCommit \/ remote \in anc[head]

Push(s) ==
    /\ At(s, "push") /\ clone
    /\ IF PushAccepted(s)
       THEN /\ remote' = head
            /\ pr' = IF pr.state = "open" THEN [pr EXCEPT !.head = head] ELSE pr
            /\ queued' = (queued /\ pr.head = head)
            /\ IF run[s].fresh THEN GoTo(s, "create") ELSE Return(s)
       ELSE Return(s) /\ UNCHANGED github
    /\ UNCHANGED <<local, people, anc>>

\* GitHub refuses a second open PR for the branch, or one without a ref.
CreateDraft(s) ==
    /\ At(s, "create")
    /\ IF pr.state = "open" \/ remote = NoCommit
       THEN Return(s) /\ UNCHANGED pr
       ELSE /\ pr' = [state |-> "open", draft |-> TRUE, head |-> remote]
            /\ Return(s)
    /\ UNCHANGED <<local, remote, queued, people, anc>>

-----------------------------------------------------------------------------
(* loopzero ready and merge: the shared poll of the pull request's gates.  *)

Begin(s) ==
    /\ At(s, "idle") /\ clone
    /\ \E c \in {"ready", "merge"} \cap Runs[s], w \in WaitModes :
         Become(s, [Idle EXCEPT !.pc = "pr", !.cmd = c, !.wait = w, !.at = head,
                                !.late = (w = "zero")])
    /\ UNCHANGED <<local, github, people, anc>>

\* _require_pr and _require_pushed on entry, the head check of every later
\* poll.  A merged PR leaves the gates to `merge`, which goes on to verify it;
\* a closed one is refused on entry, and on a later poll it is one more reason.
ReadPr(s) ==
    /\ At(s, "pr")
    /\ IF \/ pr.state = "none" \/ pr.head # run[s].at
          \/ ~run[s].waiting /\ pr.state = "closed"
          \/ ~run[s].waiting /\ pr.state = "merged" /\ run[s].cmd = "ready"
       THEN Return(s)
       ELSE IF ~run[s].waiting /\ pr.state = "merged"
       THEN GoTo(s, "relook")
       ELSE Become(s, [run[s] EXCEPT !.pc = "review", !.draft = pr.draft,
                         !.seen = Holding(run[s].at) \cap {"open", "current"}])
    /\ UNCHANGED <<local, github, people, anc>>

ReadGate(s, gate, next) ==
    Become(s, [run[s] EXCEPT !.pc = next,
                 !.seen = @ \cup (Holding(run[s].at) \cap {gate})])

ReadReview(s) ==
    /\ At(s, "review")
    /\ ReadGate(s, "review", "findings")
    /\ UNCHANGED <<local, github, people, anc>>

ReadFindings(s) ==
    /\ At(s, "findings")
    /\ ReadGate(s, "findings", "ci")
    /\ UNCHANGED <<local, github, people, anc>>

\* Mutant: a pending check counts as green.
ReadChecksPendingGreen(s) ==
    /\ At(s, "ci")
    /\ Become(s, [run[s] EXCEPT !.pc = "receipt", !.ci = ci[run[s].at],
         !.seen = @ \cup IF ci[run[s].at] \in {"pending", "success"} THEN {"ci"} ELSE {}])
    /\ UNCHANGED <<local, github, people, anc>>

\* A verdict other than success that predates a recent review is waited for,
\* under --wait.
ReadChecks(s) ==
    /\ At(s, "ci")
    /\ \E grace \in IF run[s].wait # "none" /\ ci[run[s].at] \in {"failure", "skipped"}
                    THEN BOOLEAN ELSE {FALSE} :
         Become(s, [run[s] EXCEPT !.pc = "receipt", !.ci = ci[run[s].at],
                      !.grace = grace,
                      !.seen = @ \cup (Holding(run[s].at) \cap {"ci"})])
    /\ UNCHANGED <<local, github, people, anc>>

ReadReceipt(s) ==
    /\ At(s, "receipt") /\ clone
    /\ ReadGate(s, "receipt", "decide")
    /\ UNCHANGED <<local, github, people, anc>>

\* Before any wait, and again after one, `ready` marks a draft that passed.
Conclude(s) ==
    LET r == run[s]
    IN  IF ~Ready(r) THEN Return(s)
        ELSE IF r.cmd = "ready"
             THEN IF r.draft /\ ~r.kicked THEN GoTo(s, "kick") ELSE Exit(s, "ready")
             ELSE IF r.wait = "positive" /\ r.late THEN Return(s)
                  ELSE GoTo(s, "merge")

\* The readiness computed on entry, before any waiting.
DecideFirst(s) ==
    /\ At(s, "decide") /\ ~run[s].waiting
    /\ LET r == run[s]
       IN  IF r.cmd = "ready" /\ DraftChecksWaiting(r) THEN GoTo(s, "kick")
           ELSE IF r.wait # "none" /\ Pending(r)
           THEN Become(s, [r EXCEPT !.pc = "pr", !.waiting = TRUE, !.seen = {}])
           ELSE Conclude(s)
    /\ UNCHANGED <<local, github, people, anc>>

\* Mutant: a green poll counts whenever it ends.
DecideWaitingLate(s) ==
    /\ At(s, "decide") /\ run[s].waiting
    /\ LET r == run[s]
       IN  IF ~r.kicked /\ DraftChecksWaiting(r) THEN GoTo(s, "kick")
           ELSE IF ~Pending(r) THEN Conclude(s)
           ELSE IF r.late THEN Return(s)
           ELSE Become(s, [r EXCEPT !.pc = "pr", !.seen = {}])
    /\ UNCHANGED <<local, github, people, anc>>

\* One turn of _wait_for_checks.  A check still missing after two minutes,
\* with none pending by then, ends the command with a diagnosis.
DecideWaiting(s) ==
    /\ At(s, "decide") /\ run[s].waiting
    /\ LET r == run[s]
       IN  IF ~r.kicked /\ DraftChecksWaiting(r) THEN GoTo(s, "kick")
           ELSE IF r.kicked /\ Ready(r) /\ r.wait = "positive" /\ r.late
           THEN Return(s)
           ELSE IF ~Pending(r) THEN Conclude(s)
           ELSE \/ r.late /\ Return(s)
                \/ ~r.late /\ Become(s, [r EXCEPT !.pc = "pr", !.seen = {}])
                \/ /\ r.ci = "missing" /\ ci[r.at] # "pending"
                   /\ Return(s)
    /\ UNCHANGED <<local, github, people, anc>>

\* Mutant: the activation is forgotten while waiting.
MarkReadyForgotten(s) ==
    /\ At(s, "kick") /\ pr.state = "open"
    /\ pr' = [pr EXCEPT !.draft = FALSE]
    /\ IF run[s].wait = "none" THEN Return(s)
       ELSE Become(s, [run[s] EXCEPT !.pc = "pr", !.waiting = TRUE, !.seen = {}])
    /\ UNCHANGED <<local, remote, queued, people, anc>>

\* `gh pr ready`, then back to polling under --wait within the same deadline.
\* Without --wait an activated draft exits 3, one that passed exits 0.
MarkReady(s) ==
    /\ At(s, "kick")
    /\ IF pr.state = "open"
       THEN /\ pr' = [pr EXCEPT !.draft = FALSE]
            /\ LET r == run[s]
               IN  IF r.wait = "none"
                   THEN IF Ready(r) THEN Exit(s, "ready") ELSE Return(s)
                   ELSE Become(s, [r EXCEPT !.pc = "pr", !.waiting = TRUE,
                                            !.kicked = TRUE, !.seen = {}])
       ELSE Return(s) /\ UNCHANGED pr
    /\ UNCHANGED <<local, remote, queued, people, anc>>

-----------------------------------------------------------------------------
(* github.merge, _wait_for_merge and the cleanup of cmd_merge.             *)

\* Mutant: gh pr merge without --match-head-commit.
MergeAnyHead(s) == pr.state = "open" /\ ~pr.draft

\* `gh pr merge --match-head-commit`.  GitHub refuses a draft, a PR that is
\* not open and another head.  The reply to an accepted request may be lost:
\* a write is never retried, so the command ends there.
MergePossible(s) == pr.state = "open" /\ ~pr.draft /\ pr.head = run[s].at

RequestMerge(s) ==
    /\ At(s, "merge")
    /\ IF MergePossible(s)
       THEN /\ IF Queue THEN queued' = TRUE /\ UNCHANGED pr
                        ELSE /\ pr' = [pr EXCEPT !.state = "merged"]
                             /\ UNCHANGED queued
            /\ \/ Become(s, [run[s] EXCEPT !.pc = "look", !.waiting = FALSE])
               \/ Return(s)
       ELSE Return(s) /\ UNCHANGED <<pr, queued>>
    /\ UNCHANGED <<local, remote, people, anc>>

\* Mutant: the test merge of an open PR is taken for its merge commit.
MergedShaTestMerge(s, merged, open) ==
    IF pr.head # run[s].at THEN Return(s) ELSE merged

\* merged_sha: another head, or a PR closed unmerged, ends the command.
MergedSha(s, merged, open) ==
    IF pr.head # run[s].at \/ pr.state \notin {"open", "merged"}
    THEN Return(s)
    ELSE IF pr.state = "merged" THEN merged ELSE open

Look(s) ==
    /\ At(s, "look")
    /\ MergedSha(s, GoTo(s, "cleanup"), GoTo(s, "queue"))
    /\ UNCHANGED <<local, github, people, anc>>

\* Mutant: one look before concluding that the PR left the queue.
ReadQueueOnce(s) ==
    /\ At(s, "queue")
    /\ IF ~queued THEN Exit(s, "left") ELSE GoTo(s, "look")
    /\ UNCHANGED <<local, github, people, anc>>

\* Mutant: the queue is followed past the deadline.
ReadQueueForever(s) ==
    /\ At(s, "queue")
    /\ GoTo(s, IF queued THEN "look" ELSE "relook")
    /\ UNCHANGED <<local, github, people, anc>>

\* merge_pending.  The first look belongs to github.merge, the later ones to
\* _wait_for_merge, which `waiting` marks here.
ReadQueue(s) ==
    /\ At(s, "queue")
    /\ LET r == run[s]
       IN  IF ~queued THEN GoTo(s, "relook")
           ELSE IF r.wait = "none" THEN Return(s)
           ELSE IF r.waiting /\ r.late THEN Return(s)
           ELSE Become(s, [r EXCEPT !.pc = "look", !.waiting = TRUE])
    /\ UNCHANGED <<local, github, people, anc>>

\* The queue may have landed the PR between the two reads: look once more.
Relook(s) ==
    /\ At(s, "relook")
    /\ MergedSha(s, GoTo(s, "cleanup"), Exit(s, "left"))
    /\ UNCHANGED <<local, github, people, anc>>

\* Deleting the remote branch is best effort.
DeleteRemoteBranch(s) ==
    /\ At(s, "cleanup")
    /\ remote' \in {remote, NoCommit}
    /\ GoTo(s, "remove")
    /\ UNCHANGED <<local, pr, queued, people, anc>>

\* Mutant: the clone is removed with what is in it.
RemoveCloneForced(s) ==
    /\ At(s, "remove")
    /\ clone' \in {clone, FALSE}
    /\ Return(s)
    /\ UNCHANGED <<head, dirty, known, receipt, github, people, anc>>

\* worktree.cleanup refuses a dirty clone, and _cleanup keeps one that holds
\* native review receipts; either only warns.
RemoveClone(s) ==
    /\ At(s, "remove")
    /\ clone' \in {clone, clone /\ dirty}
    /\ Return(s)
    /\ UNCHANGED <<head, dirty, known, receipt, github, people, anc>>

\* The next command in a clone another session removed fails.
CloneGone(s) ==
    /\ ~clone
    /\ run[s].pc \in {"check", "push", "receipt"}
    /\ Return(s)
    /\ UNCHANGED <<local, github, people, anc>>

\* An API call that fails, or a killed shell.
Abort(s) ==
    /\ ~At(s, "idle")
    /\ Return(s)
    /\ UNCHANGED <<local, github, people, anc>>

Deadline(s) ==
    /\ run[s].wait = "positive" /\ ~run[s].late
    /\ Become(s, [run[s] EXCEPT !.late = TRUE])
    /\ UNCHANGED <<local, github, people, anc>>

-----------------------------------------------------------------------------
(* The worker editing the clone.                                           *)

Edit ==
    /\ clone /\ ~dirty /\ dirty' = TRUE
    /\ UNCHANGED <<head, clone, known, receipt, github, people, anc, run>>

Discard ==
    /\ clone /\ dirty /\ dirty' = FALSE
    /\ UNCHANGED <<head, clone, known, receipt, github, people, anc, run>>

\* A commit on top of HEAD, or an amend/rebase that leaves HEAD behind.
\* A rebase may bring the branch up to date with the base.
NewCommit(c) ==
    /\ clone /\ dirty /\ c \notin Made
    /\ \/ /\ anc' = [anc EXCEPT ![c] = anc[head] \cup {c}]
          /\ stale' = IF head \in stale THEN stale \cup {c} ELSE stale
       \/ /\ anc' = [anc EXCEPT ![c] = (anc[head] \ {head}) \cup {c}]
          /\ stale' \in {stale, stale \ {c}}
    /\ head' = c /\ dirty' = FALSE /\ known' = known \cup {c}
    /\ UNCHANGED <<clone, receipt, github, reviewed, blocked, ci, run>>

\* `git fetch`, and a fast-forward to what it brought.
Fetch ==
    /\ clone /\ remote # NoCommit
    /\ known' = known \cup {remote}
    /\ head' \in {head} \cup (IF ~dirty /\ head \in anc[remote] THEN {remote} ELSE {})
    /\ UNCHANGED <<dirty, clone, receipt, github, people, anc, run>>

-----------------------------------------------------------------------------
(* GitHub and the people on it.                                            *)

\* Another writer pushes a commit on top of the branch.
OtherPush(c) ==
    /\ remote # NoCommit /\ c \notin Made
    /\ anc' = [anc EXCEPT ![c] = anc[remote] \cup {c}]
    /\ stale' = IF remote \in stale THEN stale \cup {c} ELSE stale
    /\ remote' = c
    /\ pr' = IF pr.state = "open" THEN [pr EXCEPT !.head = c] ELSE pr
    /\ queued' = FALSE
    /\ UNCHANGED <<local, reviewed, blocked, ci, run>>

BaseMoves ==
    /\ stale' = Made
    /\ UNCHANGED <<local, github, reviewed, blocked, ci, anc, run>>

\* A review of the PR head lands, with or without blocking findings; a
\* review is dismissed; a finding is opened or resolved.
Review(c) ==
    /\ pr.state = "open" /\ c = pr.head
    /\ \/ reviewed' = reviewed \cup {c} /\ blocked' \in {blocked, blocked \cup {c}}
       \/ reviewed' = reviewed \ {c} /\ UNCHANGED blocked
       \/ UNCHANGED reviewed /\ blocked' = blocked \ {c}
    /\ UNCHANGED <<local, github, stale, ci, anc, run>>

\* The required check: skipped on a draft or started, and then finished.
CheckRun(c) ==
    /\ pr.state = "open" /\ c = pr.head
    /\ \E to \in CiState :
         /\ ci' = [ci EXCEPT ![c] = to]
         /\ to \in IF ci[c] = "pending" THEN {"success", "failure"}
                   ELSE {"pending"} \cup (IF pr.draft THEN {"skipped"} ELSE {})
    /\ UNCHANGED <<local, github, stale, reviewed, blocked, anc, run>>

\* A person converts the PR back to a draft, or closes it.
Withdraw ==
    /\ pr.state = "open"
    /\ \/ pr' = [pr EXCEPT !.draft = TRUE]
       \/ pr' = [pr EXCEPT !.state = "closed"]
    /\ queued' = FALSE
    /\ UNCHANGED <<local, remote, people, anc, run>>

\* The queue lands the head it holds, or ejects it.
QueueLands ==
    /\ queued /\ queued' = FALSE
    /\ pr' \in {pr, [pr EXCEPT !.state = "merged"]}
    /\ UNCHANGED <<local, remote, people, anc, run>>

-----------------------------------------------------------------------------
\* `held[s]`: the gates that were true, for the head s captured, at some
\* instant of its present poll; a poll begins when it reads the PR.
\* `accepted`: the heads for which some poll saw all six so.  `marked`: a
\* command left `kick` for another poll, so it has marked the PR ready.
Polling(r) == r.pc \in (Reading \ {"pr"}) \cup {"kick", "merge"}

Track ==
    /\ held' = [s \in Session |->
          IF Polling(run'[s])
          THEN (IF run[s].pc = "pr" THEN {} ELSE held[s]) \cup Holding(run[s].at)'
          ELSE {}]
    /\ accepted' = accepted \cup {run'[s].at : s \in {t \in Session : held'[t] = Gates}}
    /\ marked' = {s \in Session :
          /\ run'[s].pc # "idle"
          /\ s \in marked \/ (At(s, "kick") /\ run'[s].pc = "pr")}

Init ==
    /\ head \in Commit /\ dirty = FALSE /\ clone = TRUE
    /\ known = {head} /\ receipt = NoReceipt
    /\ anc = [c \in Commit |-> IF c = head THEN {c} ELSE {}]
    /\ stale = {} /\ remote = NoCommit /\ queued = FALSE
    /\ pr = [state |-> "none", draft |-> FALSE, head |-> NoCommit]
    /\ reviewed = {} /\ blocked = {} /\ ci = [c \in Commit |-> "missing"]
    /\ run = [s \in Session |-> Idle] /\ moves = 0
    /\ held = [s \in Session |-> {}] /\ accepted = {} /\ marked = {}

Poll(s) == ReadPr(s) \/ ReadReview(s) \/ ReadFindings(s) \/ ReadChecks(s)
           \/ ReadReceipt(s) \/ DecideFirst(s) \/ DecideWaiting(s)

Land(s) == MarkReady(s) \/ RequestMerge(s) \/ Look(s) \/ ReadQueue(s)
           \/ Relook(s) \/ DeleteRemoteBranch(s) \/ RemoveClone(s)

Continue(s) == CheckFinish(s) \/ Push(s) \/ CreateDraft(s) \/ Poll(s)
               \/ Land(s) \/ CloneGone(s)

CommandStep(s) == CheckStart(s) \/ PrLookup(s) \/ Begin(s) \/ Continue(s)
               \/ Abort(s) \/ Deadline(s)

Worker == Edit \/ Discard \/ Fetch \/ \E c \in Commit : NewCommit(c)

Outside == BaseMoves \/ Withdraw \/ QueueLands
           \/ \E c \in Commit : OtherPush(c) \/ Review(c) \/ CheckRun(c)

\* Moves are counted until the PR is merged: the commits bound what follows.
Moves ==
    /\ \/ moves < MaxMoves /\ moves' = moves + 1
       \/ pr.state = "merged" /\ UNCHANGED moves
    /\ Worker \/ Outside

Step == \/ Moves
        \/ UNCHANGED moves /\ \E s \in Session : CommandStep(s)
Next == Step /\ Track

Spec == Init /\ [][Next]_vars

\* A command keeps running (every call it makes is bounded by a timeout) and
\* its monotonic clock reaches the deadline.
Fairness == \A s \in Session :
    /\ WF_vars(Continue(s) /\ UNCHANGED moves /\ Track)
    /\ WF_vars(Deadline(s) /\ UNCHANGED moves /\ Track)

FairSpec == Spec /\ Fairness

-----------------------------------------------------------------------------
(* Properties.                                                             *)

TypeOK ==
    /\ head \in Commit /\ dirty \in BOOLEAN /\ clone \in BOOLEAN
    /\ known \subseteq Commit /\ receipt \in Receipt
    /\ anc \in [Commit -> SUBSET Commit] /\ stale \subseteq Commit
    /\ remote \in Commit \cup {NoCommit} /\ pr \in PullRequest
    /\ queued \in BOOLEAN
    /\ reviewed \subseteq Commit /\ blocked \subseteq Commit
    /\ ci \in [Commit -> CiState] /\ run \in [Session -> RunState]
    /\ moves \in 0..MaxMoves
    /\ held \in [Session -> SUBSET Gates]
    /\ accepted \subseteq Commit \cup {NoCommit} /\ marked \subseteq Session

\* What GitHub lands, or holds to land, is a head for which one poll of one
\* command saw all six gates true: the review, findings, check and receipt of
\* that very head, none of them older than the poll (cmd_merge, github.merge).
LandedGated ==
    pr.state = "merged" \/ queued => pr.head \in accepted

\* A command activates a draft only after a poll in which every gate but the
\* required check held on its head: `gh pr ready` never precedes a review.
ActivationGated ==
    \A s \in Session : At(s, "kick") => Gates \ {"ci"} \subseteq held[s]

\* A command marks the PR ready at most once: a draft a person restored after
\* that is left a draft (kicked, cmd_ready and _wait_for_checks).
OneActivation ==
    \A s \in Session : At(s, "kick") => s \notin marked

\* `ready` exits 0 only if all six gates held on its head during its last
\* poll, or during the one before it marked the draft ready; a command that has
\* marked it ready is granted nothing by a poll that ends after its deadline.
ReadyMeansGated ==
    [][\A s \in Session : run'[s].exit = "ready" /\ run[s].exit # "ready" =>
          /\ held[s] = Gates
          /\ ~(s \in marked /\ run[s].wait = "positive" /\ run[s].late)]_vars

\* No command reports the PR out of the queue and unmerged when GitHub had
\* already landed it, however the two reads of _wait_for_merge interleave.
LeftMeansUnmerged ==
    [][\A s \in Session : run'[s].exit = "left" /\ run[s].exit # "left"
                            => pr.state # "merged"]_vars

\* Branch and clone are deleted only once GitHub has merged the head the
\* deleting command captured, and a clone only when it has nothing uncommitted.
CleanupAfterLanding ==
    [][/\ remote # NoCommit /\ remote' = NoCommit => pr.state = "merged"
       /\ clone /\ ~clone' =>
            /\ pr.state = "merged" /\ ~dirty
            /\ \E s \in Session : At(s, "remove") /\ run[s].at = pr.head]_vars

\* A push by `loopzero pr` never drops from the branch a commit whose objects
\* the clone does not have, whoever pushed since the PR was looked up.
NoForeignCommitLost ==
    [][(remote # NoCommit /\ remote' # NoCommit /\ remote \notin anc'[remote'])
         => remote \in known]_vars

\* With a deadline, or none, every command returns.
Termination == \A s \in Session : ~At(s, "idle") ~> At(s, "idle")
=============================================================================
