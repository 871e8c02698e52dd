# loop-zero, specified in TLA+

loop-zero takes one branch from a task clone to a landed pull request. Its CLI
(`src/src/loopzero/cli.py`) composes small modules that run checks in a sandbox,
publish model reviews, poll GitHub and ask GitHub or Mergify to land the change;
two GitHub workflows publish an eligibility status with the same rules. Nothing in
it is a server: every command is a short sequence of reads followed by one write,
run by people and agents in several shells at once, against remote state that moves
between any two of those calls. That is what the modules here are about.

Paths below are relative to the repository; `cli.py` and its siblings are in
`src/loopzero/`.

## 1. Inventory

### Components

| component | state it keeps | operations | modelled in |
|---|---|---|---|
| delivery commands (`cli.py`, `worktree.py`, `github.py`) | clone (HEAD, dirtiness, objects), branch and PR on GitHub, receipt file | `start`, `check`, `pr`, `ready [--wait]`, `merge [--wait]`, cleanup | `Delivery` |
| review publication (`cli.py`, `github.py`, `eligibility.py`) | `.loopzero/review-<head>-<kind>.json`, reviews of the PR | `review`, `review --repost`, recovery after a failed post | `Review`, `Budget` |
| sandboxed checks (`sandbox.py`, `types.py`) | `.loopzero/checks.json` | run the pinned list, compare HEAD and dirtiness, write the receipt | `Checks` |
| Mergify admission (`mergify.py`, `cli.py`) | marker comments on the PR, the Mergify queue | request, confirm, wait, cancel | `Mergify` |
| hosted eligibility (`hosted.py`, `eligibility.py`, two workflows) | the commit status `Loop-zero Eligibility`, the concurrency group | refresh and publish | `Hosted` |
| candidate attestation (`candidate.py`, `hosted.py`) | none of its own: two passes over GitHub and Mergify | lineage, source snapshots, policy, tree, retries | `Candidate` |
| GitHub transport and check signals (`github.py`, `_proc.py`) | none: the deadline of a read-back, the retries of a call | send, retry, page, post a review, resolve a finding; check runs and statuses of a head | `Transport`, `Signals` |
| reviewer selection and runners (`runners.py`, `cli.py`) | the saved result | author families, candidates, a call or a split into parts, merging, validation, evidence of a native session | `Reviewers`, `SplitDiff`, `CodexCall` |
| native review pair (`native_pair.py`, `cli.py`) | attempt file, sidecars, receipt | reserve, dispatch, capture, compose, hold, repost, retain | `NativePair` |
| configuration (`config.py`) | none | TOML validation | not modelled: stateless |
| account switching (`scripts/ai-accounts`) | credential pool and lock file | select, refresh, report | not modelled: a separate tool |

### How they interact

`ready` and `merge` share one readiness (`_readiness`, `github.readiness`): six
gates, read by six calls. `check` writes the receipt that one of them reads;
`review` publishes what another reads; people and GitHub Actions move the rest.
`merge` then takes one of three ways: a direct merge pinned to the head, GitHub's
merge queue, or Mergify, whose queue command is an ordinary PR comment that doubles
as the tool's memory. The hosted workflow recomputes the review and finding gates on GitHub
events and publishes a status that branch protection reads; for a Mergify candidate
it attests all source PRs of the batch. The shared state is thus the clone, two kinds of
files in it, the PR with its reviews and comments, and the status of each head.

A review itself is a chain of its own: `_run_review` picks a family that wrote none of
the PR, calls its CLI in a sandbox, splits the diff if the call rejects it, takes the
next family if a call fails, and saves what it merged. A Codex result is published only
with evidence taken from the session's event stream; under an operator's grant two Codex
models review one head, once, through files that outlive the command.

### What is hard

* Reads that belong together are made one after the other: gates, review lists,
  batch lineage. Anything may change in between.
* Writes are never retried, so the outcome of a failed one is unknown. The tool
  reconciles from what it saved (`--repost`) or from the markers it reads back.
* Commands are killed, and several run at once in one clone without a lock.
* Waits follow a queue that may never move, with a monotonic deadline.
* GitHub's concurrency groups drop all waiting runs but one.
* A check's failure may belong to a run that is being replaced, or to the time before the
  review; runs, checks and statuses are read in different calls.
* A model's session is reported twice, as a stream and as a file, by a process that may
  stop anywhere.
* Mergify reports membership of a PR and not of a head, and its batches are rebuilt
  while they are being attested.

`PROJECT.json` lists each hazard with the line at which it bites, and the property
that covers it or the reason none does.

### What makes each component correct

* Delivery: nothing lands, is queued, activated or reported ready unless its gates
  held; foreign commits survive a push; cleanup follows a landing; commands return.
* Review: one primary and at most one delta per lineage; a published result is always
  reconcilable with a saved file; a confirmed publication really was live.
* Checks: an accepted receipt was earned on the very tree it names, or the code could not
  have seen that it was not.
* Mergify: one request per head; no false confirmation or false `left the queue`.
* Hosted: a green status is true once the group is quiet; landed heads stay green.
* Candidate: success attests one instant, and one attempt's verdicts.
* Transport: no write is sent twice; no thread is resolved before its reply is there;
  a command's calls end.
* Signals: green is not an older verdict's; a failure that ends the wait is not being
  replaced; the wait ends once nothing more comes.
* Reviewers: a saved review is one independent family's reading of the whole diff, and its
  verdict is no better than any answer; a saved result can be loaded.
* Codex call: what is posted is the session's last word, and `verified` means that HEAD and
  the diff were read before it.
* Native pair: each model is started at most once for a head; a disagreement is never
  published unreconciled; cleanup's scan finds what was started before it.

## 2. Modules

Each command is a record in `run[s]` (`ses[s]` in Review) with a program counter
`pc`; each API call or file access is one action, so any other session, GitHub or
the worker may act between two calls. Where several are one action here, the module's paragraph
says so. HEAD and status are two git calls: Checks has each apart; in the rechecks of Review and
NativePair they are one action, since a commit between them is there like one right after them.
`Abort` ends a command between any two steps: a failed call and a killed shell look the same.
Definitions carry the names of the functions they model, and `map` in `PROJECT.json` names their
lines.
A definition whose comment starts with `Mutant` is not part of the model: it is a
plausible bug in the code, written to see that a property notices it.

* **Delivery** has the clone, the PR, the gates of each head (`reviewed`, `blocked`,
  `ci`, `stale`, the receipt) and the commands. A PR on another base, or with conflicts, is
  one that is not `current`; the receipt has its head, dirtiness and verdict here, and its list of
  commands in Checks. `ReadPr` .. `ReadReceipt` are the six
  gate reads of `_readiness`, `DecideFirst` is `cmd_ready`/`cmd_merge` after the first
  poll and `DecideWaiting` one turn of `_wait_for_checks`. `MarkReady` activates a
  draft; `RequestMerge`, `Look`, `ReadQueue` and `Relook` are `github.merge` and
  `_wait_for_merge`; `DeleteRemoteBranch` and `RemoveClone` the cleanup. `held[s]`,
  `accepted` and `marked` are history: the gates that truly held at some instant of
  the present poll, the heads of polls for which all six did, and the commands that have
  activated the PR. The merge queue
  holds a head (`queued`) and may land it or never move. One required check
  stands for all, as the code only asks whether all blockers may still turn green; a verdict that
  may be stale is waited for a grace, whatever it is.
* **Budget** is the abstract specification of the review budget: a review may be
  added only when every lineage that holds its head allows it. **Review** is the
  detailed one (decide, run, recheck, save, post, reply, read back, confirm) and
  implements it with `published` read off the PR's reviews. A request in flight is in
  `wire`, and may land or be lost, with its reply heard or not; `Delayed` lets it land
  after the command took it for failed. A save that is killed after it truncated the file
  leaves one that `--repost` refuses (`SaveTorn`); that several commands read or write such a file
  at once is left to Checks and NativePair.
* **Checks** refines the check step of Delivery: several runs in one clone, a worker
  who edits and commits, a base that changes the check list, and a receipt file that is truncated
  before it is written. The list may be empty, and a preparation (`uv sync`) runs before it
  and is reported only when it fails. HEAD and status are two git calls at the start and two at the
  end, each an action (`ReadHead`, `ReadStatus`, `FinalHead`, `FinalStatus`). `on` is the history of the
  trees the commands read, `torn` of a HEAD that moved between the last two calls. A command accepts
  the receipt for the head it follows and the list it loaded at its start. (In
  Delivery a check is one start and one finish with an atomic receipt.)
* **Mergify** has the marker comments as a sequence, what Mergify has handled of it,
  membership, and the steps of `_merge_with_mergify` and `_wait_for_mergify`. A comment whose
  call failed is there, is not, or is stored by GitHub later (`flight`, `StoreLate`). It starts
  where Delivery has accepted readiness. The check of Mergify's own configuration
  is among the failures of `Abort`.
* **Hosted** has the heads of one PR with their status, the concurrency group as one
  run in progress and one that waits, the pending `review event` notice, and the
  reads of `hosted._run` and `eligibility.evaluate`. `Displaces` lets a title or body
  be edited while a refresh waits; `Lands` lets GitHub merge a green PR.
* **Candidate** has two passes of `_attest_candidate_once` with the retry loop of
  `attest_candidate` around it. The verification of a merge tree is one step that
  succeeds or fails. `truth` and `passed` are history.
* **Signals** has one required check: workflow runs with their reruns, check runs by id,
  statuses, and whole seconds. `ReadReview`, `ReadCheckRuns`, `ReadStatuses` and `Judge` are
  the four reads of one poll; `Judge` reads the workflow runs, as the code does, only for a
  failed check run. `Stale` and `Replaced` decide what is waited for, and `Diagnose` ends a
  wait for a check that never appeared. It is the detail
  behind Delivery's `ci` and `stale`.
* **Transport** has the calls of one command (`read`, `resolve`, `review`, and the
  read-back `confirm` that follows a failed review), the writes GitHub has performed
  (`landed`), those it may still perform (`flight`), and the retries, pages and
  remaining seconds of the read-back.
* **SplitDiff** is `split_diff` on texts whose characters are their lengths in bytes. Its
  loops are recursive functions over the units, lines or blocks done so far.
  **Reviewers** is `_run_review` around it, with the answers as the environment's choice.
  `Validates` keeps of `validate_runner_result` what differs between a merged and
  a single result: the shape of the usages, the verdict and the findings. What it asks of the
  envelopes beyond what their adapters asked (of Codex `_codex_evidence`, of Claude that nothing
  surrounds an envelope of type `result`) is their being `sound`, which the environment chooses.
  A block is `marked` as deleted by its text; a deleted file's always is, and so is a changed file's to
  which a line `++ /dev/null` is added (`runners.py:1415`): it is summarised unseen.
* **CodexCall** has the session itself (`proc`), its two reports (`stream`, `file`) and
  the caller. Losing, repeating or mixing a report costs one of `MaxFaults`. `WholeTurn` is
  the part of `_codex_evidence` about one turn, `Inspected` is `_native_inspection`.
* **NativePair** has the files of one head and kind, the sessions' steps on them, and the
  clone up to its removal. A receipt being written may be torn; `cleanup` retains the
  clone for anything it cannot read. Its scan of the files is one step, and its removal another.
  An ordinary review, whose steps are Review's, is one step here.
* **DeliveryProofs, ReviewProofs, BudgetProofs, MergifyProofs, HostedProofs, ReviewersProofs**
  hold the theorems of the module they are named after (ReviewersProofs those of SplitDiff too),
  **GithubProofs** those of Candidate, Signals and Transport, **CloneProofs** those of Checks,
  NativePair and CodexCall, and of the clone that MCClone composes;
  **MC...** hold the constants and symmetry sets of the runs. **MCClone** and **MCGithub**
  each put modules that share no state side by side: `part` says which one runs, the
  others stay as they began, and a property speaks of its own module.

### Assumptions of the models

* A commit is made once: no head comes back in Review, Mergify, Hosted and Candidate
  (an amend, rebase or squash makes a new commit). A worker who resets the
  branch to an earlier commit while a review command runs is outside Review.
* The worker may return the clone to an earlier state while a check command runs
  only in Checks with `Returns = TRUE`. The code compares two snapshots and cannot
  see it; `ReceiptHonest` needs `Returns = FALSE` and fails without it. This limit of
  the code is recorded as a hazard.
* A commit made between the two git calls of the last snapshot (`sandbox.py:95-96`) is not seen
  either: HEAD is the one of the first snapshot, the status is clean again, and the commands read
  the edits in between. `ReceiptHonest` states exactly that exception: with `torn` they may have read
  edits on top of the receipt's head, and no other head. Reading the status before HEAD would
  close it. No assumption excludes it, and it is recorded as a hazard too.
* Outside Transport a read returns what GitHub has at that instant, or the command ends:
  its retries and pages are Transport's. Authentication and JSON are outside.
* Signals: the operator's clock and GitHub's agree (the code subtracts one from the
  other); the graces are scaled to 1 and 2 seconds, and that of a check that never appeared
  is counted from the review, as if the wait began with it; a run is not rerun in the very second its
  check ended, since `_has_active_replacement` compares whole seconds with `>`.
* Transport: a listing has at most `MaxPages` pages; that it ends is GitHub's, since `_paged` reads
  on until a page is short. Only a call that timed out can be performed later; time is counted only
  in the read-back, whose deadline is the one shared by several calls.
* SplitDiff: a character has one to four bytes and fits the budget (`WorksAssumption`), whose least
  value in `config.py` is 4096. The text that replaces a marked block is some text
  (`SummaryAssumption`).
* CodexCall: `MaxFaults` is at most 1 in the runs and theorems. Two faults that agree (the stream
  loses the last message and the file holds the earlier one) cannot be told from a session without
  it; nor can a stream that lost its own thread's report and holds another's, since the adapter
  takes whatever thread it finds (`OneSession`).
* NativePair: the two models are distinct sessions on one prompt. That
  `native_pair.evidence` also compares their bindings is not needed then.
* NativePair: `EvidenceKept` is about cleanup's scan. A model that another session
  starts between the scan and the removal is not counted: no lock keeps them apart.
* Mergify: of each head one comment at most is stored late, of `MaxDelayed` heads.
* Candidate: a source that was closed stays closed, and its title and body, once edited, do not
  return to what they were; closed and opened again around the second lineage read it would pass
  `candidate.py:575-589`.
* Only trusted reviewers' reviews are in `reviews` and `reviewed`.

## 3. Runs

| run | instance | what it shows |
|---|---|---|
| `delivery_direct` | 3 commits, 1 session, all commands, all `--wait` forms, 4 outside moves, direct merge | `TypeOK`, `LandedGated`, `ActivationGated`, `OneActivation`, `ReadyMeansGated`, `NoForeignCommitLost` |
| `delivery_queue` | 2 commits, 1 session, `check`, `pr` and `merge --wait`, 4 outside moves, merge queue, fairness | `LandedGated`, `LeftMeansUnmerged`, `CleanupAfterLanding`, `Termination` |
| `review_one` | 3 commits, 1 session, 3 results, 3 posts, 1 dismissal | `SavedBeforePosted`, `ConfirmedIsLive`, `ImplementsBudget` |
| `review_budget_two` | 2 commits, 2 sessions | **violates** `BudgetKept` (finding) |
| `clone` | checks: 2 commits, 2 sessions, an empty check list and one of two, 3 moves; reviews: every diff of up to 2 blocks of 2 lines and 14 bytes with a budget of 4, every 2 commits by two families or neither, all orders of reviewers; one session of up to 6 events with a fault; a pair and 2 shells | `CloneTypeOK`, `ReceiptHonest`; `WholeReviewed`, `VerdictHonest`; `PostedIsSaid`, `VerifiedInspected`; `DispatchedOnce`, `DisagreementHeld`, `EvidenceKept` |
| `one_chunk` | two diffs within the budget | **violates** `SavedLoads` (finding) |
| `mergify_one` | 2 heads, 1 session, all `--wait` forms, 1 requeue, a late comment, fairness | `RequestedOnce`, `ConfirmedEntered`, `LeftMeansUnmerged`, `Termination` |
| `mergify_twice` | 1 head, 2 sessions | **violates** `RequestedOnce` (finding) |
| `hosted_quiet` | 3 heads, 6 changes, `Lands` | `GreenIsTrue` |
| `hosted_edits` | the same with `Displaces` | **violates** `GreenIsTrue` (finding) |
| `hosted_landed` | 3 heads, 6 changes, `Lands` | **violates** `LandedNotRed` (finding) |
| `github` | attestation: 2 sources, 2 moves of the world; the wait: 1 workflow, 2 runs with a rerun, 1 status, 4 steps in 3 seconds; calls: 3 retries, 2 pages, 3 seconds of read-back; fairness | `GithubTypeOK`, `AttestedInstant`, `AttestedPolicy`, `AttestationEnds`; `GreenOutranks`, `FailureIsFinal`, `CheckWaitEnds`; `WriteOnce`, `ResolvedAfterReply`, `CallsEnd` |

Bounds. Commits and heads: two are enough for a command that captured one head while another becomes
current; three for a push with a lost, a kept and a new commit, and for a lineage of a primary, a
delta and their amended successor. Outside moves (`MaxMoves`) count everything the worker, people,
CI and the merge queue do until the PR is merged; after it the worker may still edit the clone that
a cleanup is about to remove. A review takes one and a check two (it starts, it finishes), so four
leave one for the queue's landing or for a disturbance at any point: a push, a new base, a
dismissal, a finding, a draft restored. `ready` is left out of the queue run, since it ends before
the queue; it has the poll of `merge`. One requeue is the operator's own after an ejection. Results
and posts: three are a primary, a delta and the one too many. Two sessions are enough for the races
in question, since each is of one command's write with another's stale read. The diffs hold lines
below, at and over the budget, characters of one to three bytes, and deleted blocks, so that a part
is closed by a file, by a line, and within a line. A reviewer's envelopes are sound or not. Six
events are a thread, a command's start and end, two messages and a turn, or two commands and a
message; the budget of a fault lets any one of them be lost or doubled. Two shells are one that was
killed and one that tries again, or two at once. Four steps of GitHub in three seconds are a run,
its failure, a rerun or a second run and its success, with the review before, among or after them.
Two sources and two moves let a batch be rebuilt while a source is touched. Symmetry is used for
commits and sessions only in runs without liveness; Checks' and Review's `CHOOSE`s pick positions in
lists and not commits.

Deadlock is not checked where the system may really stop: bounds used up, a
PR merged, a clone removed, a command ended. Checks and Review can always return to a
command, edit or restart, so deadlock is checked in `review_one` and `clone`, where the
parts that end stutter.

### Fairness

`Termination` (and `AttestationEnds` in `github`) assumes weak fairness of a command's next step
(every call it makes has a timeout in `_proc.run` or the transport, and afterwards succeeds or
raises) and of its deadline (`time.monotonic` in `_poll_until`, and the two deadlines of
`attest_candidate`). Nothing is assumed of people, GitHub Actions, the merge queue or Mergify: a
queue that never moves, or a batch never listed again, must still let every command return. Starting
a command is not fair.

`CheckWaitEnds` assumes that the waiter polls (`Poll`, `_poll_until`) and that time
passes (`Tick`); GitHub is owed nothing, so the property is about heads on which GitHub has
come to rest. `CallsEnd` assumes that a call's attempt ends, as its timeout sees to,
and that a delay passes (`Command`); what GitHub answers is free.

### Findings

Each is a run that must violate the stated property, with the line of the repository
that promises otherwise quoted in `PROJECT.json`.

1. Two `loopzero review` processes at one head both read an empty budget and
   both publish a primary (`review_budget_two`). There is no check between
   reading the markers and posting.
2. Two `loopzero merge` processes both read no request marker and both post the queue
   command (`mergify_twice`).
3. A title or body edit enqueues a workflow run that takes the place of the refresh
   waiting in the concurrency group, and then skips its own job. A head whose review was
   dismissed meanwhile keeps its green status (`hosted_edits`).
4. A PR that lands after a refresh read it as open gets `failure` on its landed
   head (`hosted_landed`): `merged` is tested on the first read only, and
   `evaluate` takes "not open" for a reason to fail.
5. A reviewer rejects the full diff and `split_diff` gives it back as one part, because it is
   within the budget or is after marked blocks are summarised. `merge_reviews` then
   stores the usages as a list of one, `validate_runner_result` expects the bare
   value, and the runner's own result does not validate (`one_chunk`): a Codex review is held
   for ever, and `--repost` refuses a saved Claude review whose post failed.

## 4. Proofs

TLAPS checks these for every value of the constants that the named assumptions of
the modules allow: any set of commits, any number of sessions, heads and moves.

* **DeliveryProofs**: `TypeCorrect`, `LandedGatedHolds`, `ActivationGatedHolds`,
  `OneActivationHolds`. The safety properties are not inductive: that a merge is gated follows from
  what the command read in earlier steps. `DeliveryInv` therefore adds, per session, `RecordOK`: a
  command that polls has captured a commit; every gate in `seen` is in the history `held`; a command
  about to merge has all six gates in `held`, so its head is in `accepted`; one about to activate
  has all but the check. `MarkedInv` says that a command knows of its own activation. `QueuedOpen`
  says that a queued PR is open, and `MergePossible` pins the merge to the captured head. Each
  action preserves the part it can disturb; the rest is monotone (`TrackGrows`).
  `ReadyMeansGatedHolds` has two halves: the gates, and that a timed wait which activated the draft
  says `ready` only before its deadline (`DecideWaiting` looks at the clock before the gates). It,
  `LeftMeansUnmergedHolds` and `NoForeignCommitLostHolds` are action properties, for any number of
  sessions. The last needs two more invariants: `HistoryInv` (every commit is its own ancestor, HEAD
  and the branch are commits) and `LeaseInv` (a push that may rewrite the branch holds a lease on a
  commit the clone has). `CleanupAfterLandingHolds` is for one session (`\A s, t \in Session : s =
  t`): `CleanupInv` says that a command about to delete has captured the head GitHub merged. With
  two sessions TLC finds the second opening a new draft on the branch that the first is about to
  delete, since the deletion is not conditional on what the branch holds.
* **ReviewProofs**: `TypeCorrect` and `ConfirmedLive`. `review_one` checks one session
  whose requests are decided in time; the theorem covers any number of sessions and
  `Delayed`. `_confirm_review` reads the reviews twice, then the PR, then
  the clone, and no read locks anything. The invariant `Good` has the reason that
  suffices: from the comparison on, if the clone is still on the reviewed commit, so
  is the PR, since only a push moves the PR, and it moves it to the clone's head.
  Hence the second read of the list was of a live publication unless the clone has left
  the commit, which the last read detects. It follows that the read of the PR
  in between is not needed for this property. `SavedInv` (a saved file without a result
  is no file, or a torn one) is needed for the type of what `--repost` sends.
  `SavedBeforePostedHolds`, `BudgetImplemented` and `BudgetKeptHolds` assume one session and
  `~Delayed`, as `review_one` does; with two sessions finding 1
  refutes the budget, and the second may save over the file of a review that is published. `OneInv`, which
  TLC checked on that run's instance, says why one is enough: at most one request is on its way, its
  session waits for it and its file is saved (`Awaited`); no review came between a head and
  the commits made on it (`Newest`), so what `_decide_kind` found free in one lineage is free in
  all (`Budgeted`, `LineageInv`). The refinement is then step by step: a request that lands is Budget's
  `Publish`, a commit its `NewCommit`, every other step a stutter. `BudgetKeptHolds` carries
  `BudgetHolds` over by `INSTANCE BudgetProofs WITH published <- Published`.
* **BudgetProofs**: `BudgetHolds`. The guards of the abstract budget keep one primary
  and one delta in every lineage. A new commit's lineage holds only reviews of the
  commit it is made from, because a review is of a commit that exists.
* **MergifyProofs**: `MergifyTypeCorrect`, `MergifyConfirmedEntered`, `MergifyLeftMeansUnmerged` for
  any number of sessions; `MergifyRequestedOnce` for one, as finding 2 requires, and for heads
  without a late comment: a command that reads the markers before GitHub stores it requests the head
  again. `EntryInv`: membership that was read holds of the command's head if that is still the PR's
  when the head is read again, which is why `_merge_with_mergify` reads it again. `OnceInv`: markers
  that were not found are still absent when the request is posted.
* **HostedProofs**: `TypeCorrect` and `GreenTrue` under `~Displaces`, which finding 3
  shows to be needed. `HostedInv` says: a run that works on another head than the PR's is
  followed by one more; one that works on the PR's head has already taken its green
  away; and what it has read so far still holds unless another refresh is due.
* **GithubProofs**: `GithubTypeCorrect`, for each part its safety properties, and two bounds.
  *Transport*: `TransportWriteOnce`, `TransportResolvedAfterReply`. `UnsentInv` has what is not sent yet
  by the place in the command; `EitherInv` that the comment is sent only after the verdict was
  refused for good; `ReplyInv` that an accepted reply is there. `TransportCallsBounded`: `StepsLeft`
  weighs the calls, pages and retries left, so that what a new call or page may retry is paid
  for by the one it replaces, and a read-back by the review that failed; the pages are GitHub's
  (see the assumptions). *Candidate*:
  `CandidateAttestedInstant`, `CandidateAttestedPolicy`, for any finite set of sources and any
  number of moves. `Ages`: versions only grow and nothing reopens, so a source that reads the same
  before and after the second lineage read was the same at it (`InstantInv`). `CandidateStepsBounded`:
  `AttemptsLeft` falls along an attempt, by the sources left in each pass, and from one attempt to
  the next. *Signals*:
  `SignalsGreenOutranks`, `SignalsFailureIsFinal`, for any workflows, statuses and times.
  `RunsInv` relates check runs to the attempts of their runs, and `SeenInv` says that a poll's
  reads, though made one after the other, hold everything there was when it began and what
  had ended by then.
* **ReviewersProofs**: `PartsCoverDiff` says of any diff, and of any budget that holds a
  character, that the parts `split_diff` makes hold the whole diff in order, the blocks marked as
  deleted summarised at most, and that none is over the budget. The argument follows the code from inside out: closing a piece, adding a unit to it,
  packing units (`Closed`, `Added`, `Packed`), cutting a line between its characters (`LineCut`),
  adding a line that is whole or cut (`LineAdded`), a block (`SplitBytesCovers`), the diff. What is
  kept at every step is `Content`: the pieces closed so far, then the one being filled. It rests on
  lemmas about `FlattenSeq`: it distributes over concatenation, and two levels may be flattened
  from either side.
  These are inductions over data. The library's induction theorems take an operator and cannot be
  used, so `PrefixInduction` is derived from the least element of a set (`WFMin`), and
  `PrefixRecursion` from it: a recursion over the prefixes of a sequence has a solution. A recursive
  function is the chosen solution of its equation, and whatever solves it agrees with it on every
  prefix.
  `ReviewsWhole` and `ReviewsVerdictHonest` then follow from `ReviewsInv`: the answers a command
  holds are the last ones read, each by the family that runs, each for its own prompt (`Held`); a
  failure drops them with the family (`CallFails`); a result that is saved has one answer for every
  prompt (`Reviewed`); and no candidate wrote one of the commits (`Reader`). `ReviewsLoad` delimits
  finding 5: a saved result, of a whole or a split diff, validates exactly when its envelopes are sound
  and, if it was split, the diff did not come in one part.
* **CloneProofs**. *Checks*: `TypeCorrect`, and `ReceiptIsHonest` under `~Returns` (see above). A
  check has read its own tree only, or the clone has left that tree for good (`RunHonest`, `Left`):
  HEAD has another commit or there are edits, and neither undoes itself unseen. When the last
  `rev-parse` answers the first head, the commands have read that head, with edits on top of it or
  none; when the last status is clean too and HEAD is still the same, no edits were ever there. If
  HEAD moved between the two calls, the edits may have gone into the new commit: that is `torn`.
  *NativePair*, for any number of shells: `PairDispatchedOnce` (the attempt file is made once, by
  exclusive creation, and never removed, so one session is past it: `ReservedInv`),
  `PairDisagreementHeld` (a saved pair holds what was captured: `SpokenInv`, `GotInv`) and
  `PairEvidenceKept`. *CodexCall*, for a session of any length: `CodexVerifiedInspected` and
  `CodexPostedIsSaid` for `MaxFaults \in 0..1`. What the session's own thread reports as read was
  read, by the time it reports so (`SeenInv`), and with one fault at most a stream of one thread is
  that session's; one fault leaves one of the two reports right (`ReportInv`), and the code compares
  them. With two TLC finds the violation described under the assumptions. *The clone*: a step of
  `CloneSpec` is for every part a step of its own or none (`CloneSteps`), so that a behaviour of the
  clone is one of each part (`CloneRuns`) and keeps its types (`CloneTypeCorrect`) and its
  properties (`CloneCorrect`).

The assumptions on constants are types and bounds (`Nat`, finite sets, `Lists` of strings,
`NoCommit` is no commit), and TLC evaluates them in the runs. Where a theorem has a hypothesis
(one session, `~Delayed`, `~Returns`, `~Displaces`, one fault) it is named in its statement, and a
run or an experiment above shows what happens without it.

Only model-checked: liveness (`Termination` in two runs, `AttestationEnds`, `CheckWaitEnds`,
`CallsEnd`), since fairness and `ENABLED` are beyond the prover. The half of `CallsEnd` and of
`AttestationEnds` that needs neither is proved: no command and no attestation can go on for
ever, since each of its steps lowers a natural number (`StepsLeft`, `AttemptsLeft`); that it is
not left waiting is what TLC checks. Every invariant and action property
that a passing run checks is also a theorem. No module here declares a recursive operator.

## 5. Not modelled

`status`, PR titles and bodies, evidence encoding, redaction, rate-limit diagnosis and wording: no
property is about them. The bubblewrap argument list, the reviewers' argument lists, TOML validation
(`config.py`, read once per command and without state) and prompt text are stateless. `start` is an
initial state. The summary appended to a PR's body after a review (`cli.py:702`) is a read and a
write without a comparison, and two sessions can lose one of two summaries; nothing else reads it.
Adjudicated recovery receipts and reviews of a fatal startup (`cli.py:225-227`), which do not count
against the budget, are left out. `scripts/ai-accounts` and `scripts/record_gh.py` are separate
tools that loopzero does not call.

## 6. Plan

Written in this order, the most important behaviour first: Delivery with its proofs;
Review over Budget; Checks; Mergify; Hosted with its proofs; Candidate; then Signals,
Transport, SplitDiff with Reviewers, CodexCall and NativePair, with the proofs of each. Left:

1. `Accounts`: selection under the lock of `scripts/ai-accounts`.
2. The public form of a native pair and of a result's evidence (`valid_public`), as the conversion it is.
