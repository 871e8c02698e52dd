----------------------------- MODULE Reviewers -----------------------------
(***************************************************************************)
(* Selecting an independent reviewer and getting one review from it:       *)
(* _run_review of src/loopzero/cli.py with author_families, parse_review,  *)
(* merge_reviews and validate_runner_result of src/loopzero/runners.py,    *)
(* and the saved result that --repost loads.                               *)
(*                                                                         *)
(* What a reviewer says is the environment's choice; a call may also fail  *)
(* (no CLI, no login, usage limit, timeout, output that is no review) or   *)
(* reject the prompt as too long.                                          *)
(***************************************************************************)
EXTENDS SplitDiff, FiniteSets

CONSTANTS
    Family,    \* reviewer families
    Works      \* the reviews that may be asked for

\* A character always fits a part: config.py refuses a budget below 4096.
ASSUME WorksAssumption ==
    \A w \in Works : /\ w.reviewers \in Seq(Family)
                     /\ w.diff \in Seq(Block) /\ w.budget \in Nat /\ 4 <= w.budget

VARIABLES
    work,      \* the review asked for: commits (their trailer and whether they
               \*   merge the base), since (how many were reviewed before),
               \*   reviewers (configured, in order), barred (families whose
               \*   effort is not allowed), diff and budget
    rv,        \* the command: pc, todo (candidates left, the first one running),
               \*   parts and answers (of a split review), result
    saved,     \* the saved result
    read       \* history: what was answered, in order: family, text, answer

revars == <<work, rv, saved, read>>

Unknown == "unknown"
Answer == [verdict : {"approve", "request_changes"}, blocking : BOOLEAN]
ReviewResult ==
    [family : Family, verdict : {"approve", "request_changes"}, blocking : BOOLEAN,
     calls : Seq(Answer),   \* one provider envelope per call
     listed : BOOLEAN,      \* provenance holds usages as a list
     sound : BOOLEAN]       \* the envelopes pass the checks that no adapter made
None == [none |-> TRUE]

Done == {"published", "held", "unposted", "unavailable", "refused"}

\* Every recognised contributor from the base to HEAD, whatever was reviewed.
Authors == {work.commits[i].by : i \in DOMAIN work.commits} \cap Family
Candidates ==
    FlattenSeq([i \in DOMAIN work.reviewers |->
        IF work.reviewers[i] \in Authors THEN <<>> ELSE <<work.reviewers[i]>>])

-----------------------------------------------------------------------------

\* Mutant: a blocking finding leaves an approval an approval.
VerdictAsSaid(answer) == answer.verdict

\* parse_review.
VerdictOf(answer) == IF answer.blocking THEN "request_changes" ELSE answer.verdict

AnyRequest(calls) ==
    IF \E i \in DOMAIN calls : VerdictOf(calls[i]) = "request_changes"
    THEN "request_changes" ELSE "approve"
AnyBlocking(calls) == \E i \in DOMAIN calls : calls[i].blocking

\* What one call's adapter or merge_reviews returns.
ResultOf(family, calls, merged, sound) ==
    [family |-> family, verdict |-> AnyRequest(calls), blocking |-> AnyBlocking(calls),
     calls |-> calls, listed |-> merged, sound |-> sound]

\* validate_runner_result.  One envelope is expected to have one usage.  What it
\* asks of the envelopes is what their adapters asked, and more: of Codex, one
\* whole turn of one session per call (_codex_evidence; see CodexCall), of Claude,
\* nothing on stdout around an envelope of type "result".
Validates(r) ==
    /\ r.sound
    /\ r.listed = (Len(r.calls) # 1)
    /\ r.verdict = AnyRequest(r.calls) /\ r.blocking = AnyBlocking(r.calls)

-----------------------------------------------------------------------------

ReviewersInit ==
    /\ work \in Works
    /\ rv = [pc |-> "select", todo |-> <<>>, parts |-> <<>>, answers |-> <<>>, result |-> None]
    /\ saved = None
    /\ read = <<>>

\* A merge of the base since the reviewed head, or a candidate with an effort
\* that is not allowed, refuses before any reviewer is launched.
Select ==
    /\ rv.pc = "select"
    /\ LET merged == work.since > 0
                     /\ \E i \in (work.since + 1)..Len(work.commits) : work.commits[i].merge
           barred == \E i \in DOMAIN Candidates : Candidates[i] \in work.barred
       IN  rv' = [rv EXCEPT !.todo = Candidates,
                            !.pc = IF merged THEN "refused"
                                   ELSE IF Candidates = <<>> THEN "unavailable"
                                   ELSE IF barred THEN "refused" ELSE "full"]
    /\ UNCHANGED <<work, saved, read>>

Answered(text, answer) ==
    read' = Append(read, [family |-> Head(rv.todo), text |-> text, answer |-> answer])
Got(calls, merged, sound) ==
    rv' = [rv EXCEPT !.pc = "save", !.answers = calls,
                     !.result = ResultOf(Head(rv.todo), calls, merged, sound)]

CallFull(answer, sound) ==
    /\ rv.pc = "full"
    /\ Answered(WholeDiff(work.diff), answer)
    /\ Got(<<answer>>, FALSE, sound)
    /\ UNCHANGED <<work, saved>>

TooLong ==
    /\ rv.pc = "full"
    /\ rv' = [rv EXCEPT !.pc = "chunk", !.parts = Parts(work.diff, work.budget)]
    /\ UNCHANGED <<work, saved, read>>

CallChunk(answer) ==
    /\ rv.pc = "chunk" /\ Len(rv.answers) < Len(rv.parts)
    /\ Answered(rv.parts[Len(rv.answers) + 1], answer)
    /\ rv' = [rv EXCEPT !.answers = Append(@, answer)]
    /\ UNCHANGED <<work, saved>>

\* An envelope with text around it cannot be merged, and ends the command.
MergeReviews(sound) ==
    /\ rv.pc = "chunk" /\ Len(rv.answers) = Len(rv.parts)
    /\ \/ Got(rv.answers, TRUE, sound)
       \/ ~sound /\ Head(rv.todo) = "claude" /\ rv' = [rv EXCEPT !.pc = "refused"]
    /\ UNCHANGED <<work, saved, read>>

\* Mutant: the answers of the failed family count for the next one.
CallFailsKeeping ==
    /\ rv.pc \in {"full", "chunk"}
    /\ rv' = IF Len(rv.todo) = 1 THEN [rv EXCEPT !.pc = "unavailable"]
             ELSE [rv EXCEPT !.todo = Tail(@)]
    /\ UNCHANGED <<work, saved, read>>

\* Any failure, of a part too: the next candidate reviews everything.
CallFails ==
    /\ rv.pc \in {"full", "chunk"}
    /\ rv' = IF Len(rv.todo) = 1 THEN [rv EXCEPT !.pc = "unavailable"]
             ELSE [rv EXCEPT !.pc = "full", !.todo = Tail(@), !.parts = <<>>, !.answers = <<>>]
    /\ UNCHANGED <<work, saved, read>>

\* Codex evidence that does not validate is saved and not posted; a post may fail.
Save ==
    /\ rv.pc = "save"
    /\ saved' = rv.result
    /\ \E out \in IF rv.result.family = "codex" /\ ~Validates(rv.result) THEN {"held"}
                  ELSE {"published", "unposted"} :
         rv' = [rv EXCEPT !.pc = out]
    /\ UNCHANGED <<work, read>>

\* --repost loads the saved result, which must validate.
Repost ==
    /\ rv.pc \in {"held", "unposted"} /\ saved # None
    /\ rv' = [rv EXCEPT !.pc = IF Validates(saved) THEN "published" ELSE "refused"]
    /\ UNCHANGED <<work, saved, read>>

ReviewersNext ==
    \/ Select \/ TooLong \/ CallFails \/ Save \/ Repost
    \/ \E sound \in BOOLEAN : MergeReviews(sound) \/ \E answer \in Answer : CallFull(answer, sound)
    \/ \E answer \in Answer : CallChunk(answer)

-----------------------------------------------------------------------------
(* Properties.                                                             *)

\* The parts and the saved result have their shapes.
ReviewersTypeOK ==
    /\ rv.pc \in {"select", "full", "chunk", "save"} \cup Done
    /\ \A i \in DOMAIN rv.todo : rv.todo[i] \in Family
    /\ rv.answers \in Seq(Answer) /\ Len(rv.answers) <= Len(rv.parts) + 1
    /\ saved \in ReviewResult \cup {None}

\* A saved review was read by one family, which wrote none of the PR's commits
\* (a delta's earlier ones included); what its calls were given is the whole
\* diff in order, and no part of a split diff is over the budget; at most the
\* blocks marked as deleted are summarised.
WholeReviewed ==
    saved # None =>
        LET n    == Len(saved.calls)
            last == SubSeq(read, Len(read) - n + 1, Len(read))
            text == FlattenSeq([i \in DOMAIN last |-> last[i].text])
        IN  /\ \A i \in DOMAIN work.commits : work.commits[i].by # saved.family
            /\ \A i \in DOMAIN last : last[i].family = saved.family
            /\ IF ~saved.listed THEN text = WholeDiff(work.diff)
               ELSE /\ text = WholeDiff(Summarized(work.diff, work.budget))
                    /\ \A i \in DOMAIN last : Bytes(last[i].text) <= work.budget

\* A saved or published approval: no part was answered with a request for
\* changes or with a blocking finding.
VerdictHonest ==
    (saved # None /\ saved.verdict = "approve") =>
        \A i \in (Len(read) - Len(saved.calls) + 1)..Len(read) :
            read[i].answer.verdict = "approve" /\ ~read[i].answer.blocking

\* What the runner saved from sound envelopes agrees with them, which is what
\* validate_runner_result says it returns, and so --repost loads it.
SavedLoads == saved # None /\ saved.sound => Validates(saved)
=============================================================================
