----------------------------- MODULE NativePair -----------------------------
(***************************************************************************)
(* The native review pair: two models review one head once, under an       *)
(* operator's grant.  native_pair.run, compose and evidence of             *)
(* src/loopzero/native_pair.py with _run_native_pair, cmd_review and       *)
(* _cleanup of src/loopzero/cli.py, for one head and kind of one clone.    *)
(*                                                                         *)
(* The clone's files are shared by sessions that may be killed or          *)
(* interrupted between any two steps, and started again.                   *)
(***************************************************************************)
EXTENDS Naturals, Sequences, FiniteSets

CONSTANT Shell    \* shells in which an operator runs loopzero

Model == {1, 2}    \* in the order they are dispatched
Reply == {"approve", "request", "other"}   \* two different requests for changes

VARIABLES
    files,     \* attempt, native and last (each model's sidecars), receipt
    ps,        \* ps[s]: the session's command: pc, model, got (members), note
    checkout,  \* the clone: tree (as at the start, edited, or HEAD moved), landed,
               \*   scanned (cleanup found no evidence), removed
    posts,     \* reviews posted on the PR
    dispatched,\* history: how often each model was started
    said,      \* history: what each model said
    lost       \* history: a model had been started when cleanup's scan began

npvars == <<files, ps, checkout, posts, dispatched, said, lost>>

NoReceipt == [kind |-> "none"]
Torn      == [kind |-> "torn"]
Ordinary  == [kind |-> "ordinary"]
Pair(got, note, sent) == [kind |-> "pair", got |-> got, note |-> note, sent |-> sent]

Idle == [pc |-> "idle", model |-> 1, got |-> <<>>, note |-> FALSE]

PairInit ==
    /\ files = [attempt |-> "none", native |-> {}, last |-> {}, receipt |-> NoReceipt]
    /\ ps = [s \in Shell |-> Idle]
    /\ checkout = [tree |-> "same", landed |-> FALSE, scanned |-> FALSE, removed |-> FALSE]
    /\ posts = {}
    /\ dispatched = [m \in Model |-> 0]
    /\ said = [m \in Model |-> "nothing"]
    /\ lost = FALSE

OnStep(s, label) == ps[s].pc = label /\ ~checkout.removed
ToStep(s, label) == ps' = [ps EXCEPT ![s].pc = label]
Quiet == UNCHANGED <<checkout, posts, dispatched, said, lost>>

Disagree(got) == got[1] # got[2]
PairVerdict(got) == IF got = <<"approve", "approve">> THEN "approve" ELSE "request_changes"

-----------------------------------------------------------------------------
(* loopzero review with the operator's grant.                              *)

\* A clean clone at the open PR's head, with budget for a primary.
BeginPair(s) ==
    /\ OnStep(s, "idle") /\ checkout.tree = "same" /\ ~checkout.landed /\ posts = {}
    /\ ToStep(s, "look")
    /\ UNCHANGED files /\ Quiet

LookForAttempt(s) ==
    /\ OnStep(s, "look")
    /\ ToStep(s, IF files.receipt # NoReceipt \/ files.native # {} THEN "idle" ELSE "reserve")
    /\ UNCHANGED files /\ Quiet

\* Mutant: the attempt file is created or truncated.
ReserveAny(s) ==
    /\ OnStep(s, "reserve")
    /\ ToStep(s, "start") /\ files' = [files EXCEPT !.attempt = "empty"]
    /\ Quiet

\* O_CREAT | O_EXCL.
Reserve(s) ==
    /\ OnStep(s, "reserve")
    /\ IF files.attempt = "none"
       THEN ToStep(s, "start") /\ files' = [files EXCEPT !.attempt = "empty"]
       ELSE ToStep(s, "idle") /\ UNCHANGED files
    /\ Quiet

\* update("started"), before the first dispatch.
Started(s) ==
    /\ OnStep(s, "start")
    /\ files' = [files EXCEPT !.attempt = "started"]
    /\ ToStep(s, "dispatch")
    /\ Quiet

Dispatch(s) ==
    /\ OnStep(s, "dispatch")
    /\ dispatched' = [dispatched EXCEPT ![ps[s].model] = @ + 1]
    /\ ToStep(s, "running")
    /\ UNCHANGED <<files, checkout, posts, said, lost>>

\* The streams are written at once to a new file, whatever they hold.
CaptureStreams(s) ==
    /\ OnStep(s, "running") /\ ps[s].model \notin files.native
    /\ files' = [files EXCEPT !.native = @ \cup {ps[s].model}]
    /\ \E reply \in Reply : said' = [said EXCEPT ![ps[s].model] = reply]
    /\ ToStep(s, "snapshot")
    /\ UNCHANGED <<checkout, posts, dispatched, lost>>

\* The last message is written; then member_evidence and run's comparison with
\* the full input: one whole call of the model asked for, with verified inspection.
Member(s) ==
    /\ OnStep(s, "snapshot")
    /\ files' = [files EXCEPT !.last = @ \cup {ps[s].model}]
    /\ ps' = [ps EXCEPT ![s].got = Append(@, said[ps[s].model]),
                        ![s].pc = IF ps[s].model = 1 THEN "dispatch" ELSE "compose",
                        ![s].model = 2]
    /\ Quiet

\* Any exception of run, an interrupt among them, is recorded in the attempt.
PairFails(s) ==
    /\ OnStep(s, "running") \/ OnStep(s, "snapshot") \/ OnStep(s, "compose")
    /\ \E state \in {"failed", "interrupted"},
          last \in {files.last} \cup (IF OnStep(s, "snapshot") THEN {files.last \cup {ps[s].model}} ELSE {}) :
         files' = [files EXCEPT !.attempt = state, !.last = last]
    /\ ps' = [ps EXCEPT ![s] = Idle]
    /\ Quiet

Compose(s) ==
    /\ OnStep(s, "compose")
    /\ files' = [files EXCEPT !.attempt = "complete"]
    /\ ToStep(s, "recheck")
    /\ Quiet

\* The pair is dropped when the clone has changed; its sidecars remain.
RecheckClone(s) ==
    /\ OnStep(s, "recheck")
    /\ IF checkout.tree # "same" THEN ps' = [ps EXCEPT ![s] = Idle] ELSE ToStep(s, "save")
    /\ UNCHANGED files /\ Quiet

-----------------------------------------------------------------------------
(* Saving and publishing, by the pair's command or by --repost.            *)

\* loopzero review --repost with the grant, and a note or none.
BeginRepost(s, note) ==
    /\ OnStep(s, "idle") /\ checkout.tree = "same" /\ ~checkout.landed
    /\ files.receipt.kind = "pair"
    /\ LET r == files.receipt
       IN  IF r.sent /\ \E p \in posts : p.pair /\ p.got = r.got
           THEN UNCHANGED ps                       \* confirmed by read-back
           ELSE /\ posts = {}                      \* the budget for a primary
                /\ ps' = [ps EXCEPT ![s] = [pc |-> "save", model |-> 2, got |-> r.got,
                                            note |-> note \/ r.note]]
    /\ UNCHANGED files /\ Quiet

\* Mutant: only a disagreement on the verdict is held.
SavePairVerdicts(s) ==
    /\ OnStep(s, "save")
    /\ LET got == ps[s].got
           open == \E i, j \in Model : got[i] = "approve" /\ got[j] # "approve"
           held == open /\ ~ps[s].note
       IN  /\ files' = [files EXCEPT !.receipt = Pair(got, ps[s].note, ~held)]
           /\ ps' = IF held THEN [ps EXCEPT ![s] = Idle] ELSE [ps EXCEPT ![s].pc = "post"]
    /\ Quiet

\* Without a note on a disagreement the pair is saved and not published.
SavePair(s) ==
    /\ OnStep(s, "save")
    /\ LET held == Disagree(ps[s].got) /\ ~ps[s].note
       IN  /\ files' = [files EXCEPT !.receipt = Pair(ps[s].got, ps[s].note, ~held)]
           /\ ps' = IF held THEN [ps EXCEPT ![s] = Idle] ELSE [ps EXCEPT ![s].pc = "post"]
    /\ Quiet

\* The post goes through or not, and its reply is not needed here.
PostPair(s) ==
    /\ OnStep(s, "post")
    /\ LET post == [pair |-> TRUE, got |-> ps[s].got, note |-> ps[s].note,
                    verdict |-> PairVerdict(ps[s].got)]
       IN  posts' \in {posts, posts \cup {post}}
    /\ ps' = [ps EXCEPT ![s] = Idle]
    /\ UNCHANGED <<files, checkout, dispatched, said, lost>>

\* An ordinary review of the head, whose steps are Review's, saves its result
\* over the receipt.
OrdinaryReview ==
    /\ ~checkout.removed /\ checkout.tree = "same" /\ ~checkout.landed /\ posts = {}
    /\ files' = [files EXCEPT !.receipt = Ordinary]
    /\ posts' \in {posts, {[pair |-> FALSE]}}
    /\ UNCHANGED <<ps, checkout, dispatched, said, lost>>

-----------------------------------------------------------------------------
(* Death, landing and cleanup.                                             *)

\* Killed anywhere; in the middle of a save the receipt is torn.
Kill(s) ==
    /\ ps[s].pc # "idle"
    /\ ps' = [ps EXCEPT ![s] = Idle]
    /\ files' \in {files} \cup
         (IF OnStep(s, "save") THEN {[files EXCEPT !.receipt = Torn]} ELSE {})
    /\ Quiet

Change ==
    /\ ~checkout.removed
    /\ \E tree \in {"same", "edited", "moved"} : checkout' = [checkout EXCEPT !.tree = tree]
    /\ UNCHANGED <<files, ps, posts, dispatched, said, lost>>

Land ==
    /\ ~checkout.landed
    /\ checkout' = [checkout EXCEPT !.landed = TRUE]
    /\ UNCHANGED <<files, ps, posts, dispatched, said, lost>>

\* Mutant: receipts and sidecars are evidence, the attempt file is not.
EvidenceInResults == files.native # {} \/ files.last # {} \/ files.receipt.kind \in {"pair", "torn"}

\* A file that cannot be read, as a torn or still empty one, retains the clone.
Evidence ==
    \/ files.attempt # "none"
    \/ files.native # {} \/ files.last # {}
    \/ files.receipt.kind \in {"pair", "torn"}

\* The files are listed and read in one step.
CleanupScan ==
    /\ checkout.landed /\ ~checkout.removed /\ ~checkout.scanned
    /\ ~Evidence
    /\ checkout' = [checkout EXCEPT !.scanned = TRUE]
    /\ lost' = \E m \in Model : dispatched[m] > 0
    /\ UNCHANGED <<files, ps, posts, dispatched, said>>

\* worktree.cleanup refuses a clone with edits.
CleanupRemove ==
    /\ checkout.scanned /\ ~checkout.removed /\ checkout.tree # "edited"
    /\ checkout' = [checkout EXCEPT !.removed = TRUE]
    /\ UNCHANGED <<files, ps, posts, dispatched, said, lost>>

PairNext ==
    \/ \E s \in Shell :
         \/ BeginPair(s) \/ LookForAttempt(s) \/ Reserve(s) \/ Started(s) \/ Dispatch(s)
         \/ CaptureStreams(s) \/ Member(s) \/ PairFails(s)
         \/ Compose(s) \/ RecheckClone(s) \/ SavePair(s) \/ PostPair(s) \/ Kill(s)
         \/ \E note \in BOOLEAN : BeginRepost(s, note)
    \/ OrdinaryReview \/ Change \/ Land \/ CleanupScan \/ CleanupRemove

PairSpec == PairInit /\ [][PairNext]_npvars

-----------------------------------------------------------------------------
(* Properties.                                                             *)

PairTypeOK ==
    /\ files.attempt \in {"none", "empty", "started", "failed", "interrupted", "complete"}
    /\ files.native \subseteq Model /\ files.last \subseteq files.native
    /\ files.receipt.kind \in {"none", "torn", "ordinary", "pair"}
    /\ \A s \in Shell : ps[s].got \in Seq(Reply) /\ Len(ps[s].got) <= 2

\* Each model is started at most once for the head, over all sessions, kills
\* and restarts.
DispatchedOnce == \A m \in Model : dispatched[m] <= 1

\* A posted pair: it is what the two models said; where they differ, in the
\* verdict or in a finding, an operator's note was given; and it approves only
\* when both did.
DisagreementHeld ==
    \A p \in posts : p.pair =>
        /\ p.got = <<said[1], said[2]>>
        /\ p.got[1] # p.got[2] => p.note
        /\ p.verdict = "approve" <=> (said[1] = "approve" /\ said[2] = "approve")

\* cleanup's scan never finds the clone free of evidence when a model had been
\* started in it before, however the session that started it ended.  Of a model
\* that is started between the scan and the removal, which no lock keeps apart,
\* it says nothing.
EvidenceKept == ~lost
=============================================================================
