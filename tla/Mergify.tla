------------------------------- MODULE Mergify -------------------------------
(***************************************************************************)
(* `loopzero merge [--wait]` with delivery.merge = "mergify", from the     *)
(* moment its readiness was accepted (Delivery): _merge_with_mergify and   *)
(* _wait_for_mergify of src/loopzero/cli.py over the comments and the      *)
(* membership reads of mergify.py, against a queue that reads the same     *)
(* comments in its own time, ejects, lands, and a person who requeues.     *)
(*                                                                         *)
(* Heads are numbered in the order in which they are pushed.               *)
(***************************************************************************)
EXTENDS Naturals, Sequences, FiniteSets

CONSTANTS
    Session,      \* shells in which an operator runs merge
    Waits,        \* the --wait options tried: subset of {"none", "zero", "positive"}
    MaxHead,      \* heads that can be pushed (bound)
    MaxRequeues,  \* requeue comments the operator may write (bound)
    MaxDelayed    \* heads one of whose comments GitHub may store late (bound)

ASSUME WaitsAssumption  == Waits \subseteq {"none", "zero", "positive"}
ASSUME BoundsAssumption == MaxHead \in Nat \ {0} /\ MaxRequeues \in Nat /\ MaxDelayed \in Nat

VARIABLES
    head, pr,      \* the PR: its head and "open", "merged" or "closed"
    comments,      \* the operator's comments on the PR, oldest first
    flight,        \* comments of calls that timed out, which GitHub stores later
    delayed,       \* history: heads one of whose comments was ever in flight
    handled,       \* how many of them Mergify has acted on
    member,        \* the PR is in the Mergify queue
    entered,       \* history: heads that were in the queue
    run            \* the command each session is running

github == <<head, pr>>
queue  == <<handled, member, entered>>
board  == <<comments, flight, delayed>>
vars   == <<github, board, queue, run>>

Heads    == 1..MaxHead
Comment  == [kind : {"request", "confirmed", "requeue"}, head : Heads]
Pc == {"idle", "markers", "member", "recheck", "request",
       "sha", "state", "resha", "mark", "left"}
RunState == [pc : Pc, at : Heads, wait : {"none", "zero", "positive"}, late : BOOLEAN,
             requested : BOOLEAN, confirmed : BOOLEAN,   \* the markers read
             in : BOOLEAN,           \* the membership read
             following : BOOLEAN,    \* inside _wait_for_mergify
             exit : {"none", "landed", "left"}]

Become(s, r) == run' = [run EXCEPT ![s] = r]
At(s, label) == run[s].pc = label
GoTo(s, label) == Become(s, [run[s] EXCEPT !.pc = label])

\* The command ends.  `landed` has the merge commit; `left` reports the PR out
\* of the queue and unmerged; every other outcome makes no claim.
Exit(s, outcome) ==
    Become(s, [pc |-> "idle", at |-> run[s].at, wait |-> "none", late |-> FALSE,
               requested |-> FALSE, confirmed |-> FALSE, in |-> FALSE,
               following |-> FALSE, exit |-> outcome])
Return(s) == Exit(s, "none")

-----------------------------------------------------------------------------
(* The markers: a fold over the operator's comments.  The request itself   *)
(* starts with the queue command, so it counts as one.                     *)

\* Mutant: the marker does not name the head.
MarkerOfAnyHead(kind, h) == [kind |-> kind]

Marker(kind, h) == [kind |-> kind, head |-> h]
Queues(c) == c.kind \in {"request", "requeue"}

\* h was confirmed in the queue by the first n comments, and not queued again since.
Confirmed(h, n) ==
    \E i \in 1..n : /\ comments[i] = Marker("confirmed", h)
                    /\ \A j \in (i + 1)..n : ~Queues(comments[j])

\* Mutant: only the tool's own request counts, not the operator's requeue.
RequestedByTool(h, n) == \E i \in 1..n : comments[i] = Marker("request", h)

Requested(h, n) ==
    \E i \in 1..n : \/ comments[i] = Marker("request", h)
                    \/ Queues(comments[i]) /\ Confirmed(h, i - 1)

\* A comment is posted; or the call fails, without effect, with its reply lost,
\* or with the comment stored after the command has ended.  Writes are never
\* retried, so a failure ends the command.
PostComment(s, kind, next) ==
    LET c == Marker(kind, run[s].at)
    IN  \/ /\ comments' = Append(comments, c) /\ UNCHANGED <<flight, delayed>>
           /\ next \/ Return(s)
        \/ UNCHANGED board /\ Return(s)
        \/ /\ c.head \notin delayed /\ Cardinality(delayed) < MaxDelayed
           /\ flight' = flight \cup {c} /\ delayed' = delayed \cup {c.head}
           /\ UNCHANGED comments /\ Return(s)

\* Into the wait loop, or done when the command does not wait.
Follow(s, confirmed) ==
    IF run[s].wait = "none" THEN Return(s)
    ELSE Become(s, [run[s] EXCEPT !.pc = "sha", !.following = TRUE,
                                  !.confirmed = confirmed])

\* One more turn of _poll_until, unless the deadline has passed.
Poll(s, confirmed) ==
    IF run[s].late THEN Return(s) ELSE Follow(s, confirmed)

\* github.merged_sha: another head, or a PR closed unmerged, ends the command.
MergedSha(s, open) ==
    IF head # run[s].at \/ pr = "closed" THEN Return(s)
    ELSE IF pr = "merged" THEN Exit(s, "landed") ELSE open

-----------------------------------------------------------------------------
(* Admission: _merge_with_mergify.                                         *)

\* --wait=0 observes once, and bounds no admission.
Begin(s) ==
    /\ At(s, "idle") /\ pr = "open"
    /\ \E w \in Waits :
         Become(s, [run[s] EXCEPT !.pc = "markers", !.at = head, !.wait = w,
                                  !.late = (w = "zero"), !.exit = "none"])
    /\ UNCHANGED <<github, board, queue>>

ReadMarkers(s) ==
    /\ At(s, "markers")
    /\ Become(s, [run[s] EXCEPT !.pc = "member",
                    !.requested = Requested(run[s].at, Len(comments)),
                    !.confirmed = Confirmed(run[s].at, Len(comments))])
    /\ UNCHANGED <<github, board, queue>>

ReadMember(s) ==
    /\ At(s, "member")
    /\ Become(s, [run[s] EXCEPT !.pc = "recheck", !.in = member])
    /\ UNCHANGED <<github, board, queue>>

\* Mutant: what the membership was of is not asked.
RecheckSkipped(s) ==
    /\ At(s, "recheck")
    /\ LET r == run[s]
       IN  IF r.in /\ ~r.confirmed THEN GoTo(s, "mark")
           ELSE IF r.in THEN Follow(s, TRUE)
           ELSE IF r.confirmed THEN GoTo(s, "left")
           ELSE IF r.requested THEN Follow(s, FALSE)
           ELSE IF r.late /\ r.wait = "positive" THEN Return(s)
           ELSE GoTo(s, "request")
    /\ UNCHANGED <<github, board, queue>>

\* The PR is read again: membership is of the PR, not of a head.  Then: in
\* the queue, mark it; confirmed once but out of it, it left; neither
\* confirmed nor requested, request it unless the deadline has passed.
Recheck(s) ==
    /\ At(s, "recheck")
    /\ LET r == run[s]
       IN  IF head # r.at \/ pr = "closed" THEN Return(s)
           ELSE IF r.in /\ ~r.confirmed THEN GoTo(s, "mark")
           ELSE IF r.in THEN Follow(s, TRUE)
           ELSE IF r.confirmed THEN GoTo(s, "left")
           ELSE IF r.requested THEN Follow(s, FALSE)
           ELSE IF r.late /\ r.wait = "positive" THEN Return(s)
           ELSE GoTo(s, "request")
    /\ UNCHANGED <<github, board, queue>>

Request(s) ==
    /\ At(s, "request")
    /\ PostComment(s, "request", Follow(s, FALSE))
    /\ UNCHANGED <<github, queue>>

MarkConfirmed(s) ==
    /\ At(s, "mark")
    /\ PostComment(s, "confirmed",
         IF run[s].following THEN Poll(s, TRUE) ELSE Follow(s, TRUE))
    /\ UNCHANGED <<github, queue>>

\* Mutant: out of the queue is taken for unmerged.
LeftAtOnce(s) ==
    /\ At(s, "left")
    /\ Exit(s, "left")
    /\ UNCHANGED <<github, board, queue>>

\* The queue may have landed the PR since membership was read: look once more.
Left(s) ==
    /\ At(s, "left")
    /\ MergedSha(s, Exit(s, "left"))
    /\ UNCHANGED <<github, board, queue>>

-----------------------------------------------------------------------------
(* The wait: one turn of _wait_for_mergify.                                *)

WaitSha(s) ==
    /\ At(s, "sha")
    /\ MergedSha(s, GoTo(s, "state"))
    /\ UNCHANGED <<github, board, queue>>

WaitState(s) ==
    /\ At(s, "state")
    /\ Become(s, [run[s] EXCEPT !.pc = "resha", !.in = member])
    /\ UNCHANGED <<github, board, queue>>

\* Mutant: the deadline is not looked at while the PR is queued.
WaitDecideForever(s) ==
    /\ At(s, "resha")
    /\ LET r == run[s]
       IN  MergedSha(s, IF r.in /\ ~r.confirmed THEN GoTo(s, "mark")
                        ELSE IF ~r.in /\ r.confirmed THEN GoTo(s, "left")
                        ELSE Follow(s, r.confirmed))
    /\ UNCHANGED <<github, board, queue>>

WaitDecide(s) ==
    /\ At(s, "resha")
    /\ LET r == run[s]
       IN  MergedSha(s, IF r.in /\ ~r.confirmed THEN GoTo(s, "mark")
                        ELSE IF ~r.in /\ r.confirmed THEN GoTo(s, "left")
                        ELSE Poll(s, r.confirmed))
    /\ UNCHANGED <<github, board, queue>>

Deadline(s) ==
    /\ run[s].wait = "positive" /\ ~run[s].late
    /\ Become(s, [run[s] EXCEPT !.late = TRUE])
    /\ UNCHANGED <<github, board, queue>>

\* A read that fails, a queue configuration found unsafe, or a killed shell.
Abort(s) ==
    /\ ~At(s, "idle")
    /\ Return(s)
    /\ UNCHANGED <<github, board, queue>>

\* `loopzero merge --cancel`, from any other shell.
Cancel ==
    /\ pr = "open" /\ member
    /\ member' = FALSE
    /\ UNCHANGED <<github, board, handled, entered, run>>

-----------------------------------------------------------------------------
(* Mergify, the operator and the worker.                                   *)

\* GitHub stores a comment whose call has timed out.
StoreLate ==
    \E c \in flight :
        /\ comments' = Append(comments, c) /\ flight' = flight \ {c}
        /\ UNCHANGED <<github, delayed, queue, run>>

\* Mergify acts on the next comment.  The command names no head: what it
\* admits is the PR as it is by then, if the queue's conditions hold.
Handle ==
    /\ handled < Len(comments)
    /\ handled' = handled + 1
    /\ member' \in IF Queues(comments[handled + 1]) /\ pr = "open"
                   THEN {member, TRUE} ELSE {member}
    /\ entered' = IF member' THEN entered \cup {head} ELSE entered
    /\ UNCHANGED <<github, board, run>>

\* The queue lands the head it holds, or ejects it.
Finish ==
    /\ member /\ member' = FALSE
    /\ pr' \in {pr, "merged"}
    /\ UNCHANGED <<head, board, handled, entered, run>>

\* The operator asks for admission by a comment of their own.
Requeue ==
    /\ pr = "open"
    /\ Cardinality({i \in DOMAIN comments : comments[i].kind = "requeue"}) < MaxRequeues
    /\ comments' = Append(comments, Marker("requeue", head))
    /\ UNCHANGED <<github, flight, delayed, queue, run>>

\* A new head leaves the queue.
PushHead ==
    /\ pr = "open" /\ head < MaxHead
    /\ head' = head + 1 /\ member' = FALSE
    /\ UNCHANGED <<pr, board, handled, entered, run>>

Close ==
    /\ pr = "open" /\ pr' = "closed" /\ member' = FALSE
    /\ UNCHANGED <<head, board, handled, entered, run>>

-----------------------------------------------------------------------------
Init ==
    /\ head = 1 /\ pr = "open" /\ comments = << >> /\ flight = {} /\ delayed = {}
    /\ handled = 0 /\ member = FALSE /\ entered = {}
    /\ run = [s \in Session |-> [pc |-> "idle", at |-> 1, wait |-> "none",
          late |-> FALSE, requested |-> FALSE, confirmed |-> FALSE, in |-> FALSE,
          following |-> FALSE, exit |-> "none"]]

Continue(s) ==
    \/ ReadMarkers(s) \/ ReadMember(s) \/ Recheck(s) \/ Request(s)
    \/ MarkConfirmed(s) \/ Left(s) \/ WaitSha(s) \/ WaitState(s) \/ WaitDecide(s)

Next ==
    \/ \E s \in Session : Begin(s) \/ Continue(s) \/ Deadline(s) \/ Abort(s)
    \/ Cancel \/ StoreLate \/ Handle \/ Finish \/ Requeue \/ PushHead \/ Close

Spec == Init /\ [][Next]_vars

\* Every call a command makes is bounded by a timeout, and its monotonic clock
\* reaches the deadline.  Nothing is assumed of Mergify or of people.
FairSpec ==
    Spec /\ \A s \in Session : WF_vars(Continue(s)) /\ WF_vars(Deadline(s))

-----------------------------------------------------------------------------
TypeOK ==
    /\ head \in Heads /\ pr \in {"open", "merged", "closed"}
    /\ comments \in Seq(Comment) /\ flight \subseteq Comment /\ delayed \subseteq Heads
    /\ handled \in 0..Len(comments)
    /\ member \in BOOLEAN /\ entered \subseteq Heads
    /\ run \in [Session -> RunState]

\* The queue command is posted "once for the current source head" (SETUP.md:306)
\* and never again by itself after an ejection or a cancellation: no request
\* of a head follows a request or a confirmation of that head, whichever of
\* the command's steps it was killed or failed at.  Only a comment that GitHub
\* stored after its call had timed out can bring a second request of its head.
RequestedOnce ==
    \A i, j \in DOMAIN comments :
        /\ i < j /\ comments[j].kind = "request" /\ comments[j].head \notin delayed
        => comments[i] \notin {Marker("request", comments[j].head),
                               Marker("confirmed", comments[j].head)}

\* A head is marked confirmed only if that head was in the queue: not because
\* another head of the PR was, between two reads.
ConfirmedEntered ==
    \A i \in DOMAIN comments :
        comments[i].kind = "confirmed" => comments[i].head \in entered

\* No command reports the PR out of the queue and unmerged when GitHub had
\* merged it by then, however queue and command interleave.
LeftMeansUnmerged ==
    [][\A s \in Session : run'[s].exit = "left" /\ run[s].exit # "left"
                            => pr # "merged"]_vars

\* Every command returns, whatever Mergify does with the request.
Termination == \A s \in Session : ~At(s, "idle") ~> At(s, "idle")
=============================================================================
