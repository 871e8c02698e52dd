------------------------------ MODULE Candidate ------------------------------
(***************************************************************************)
(* Attestation of one Mergify candidate: attest_candidate and              *)
(* _attest_candidate_once of src/loopzero/candidate.py with the source     *)
(* policy hosted._run gives it, while sources are pushed, edited, reviewed *)
(* and landed, main moves, and Mergify rebuilds its batches.               *)
(*                                                                         *)
(* Heads, descriptions, main and batches are numbered: none comes back     *)
(* once it has been replaced.                                              *)
(***************************************************************************)
EXTENDS Naturals, FiniteSets

CONSTANTS
    Source,    \* numbers of the source PRs that can be in a batch
    MaxMoves   \* changes on GitHub and Mergify (bound)

ASSUME SourceAssumption == Source \subseteq Nat /\ IsFiniteSet(Source)
ASSUME MovesAssumption  == MaxMoves \in Nat

Attempts == 3

VARIABLES
    src,       \* src[n]: the source PR: head, description, state, and whether
               \*   the policy (eligibility.evaluate) passes it
    batch,     \* the candidate's batch: id, sources, and live: exactly one match
               \*   with or without parents the queue no longer lists
    cand,      \* the candidate PR: open, and its head still that of the event
    main,      \* main's head
    att,       \* the attestation
    moves,
    truth,     \* history: the sources at the second read of the lineage
    passed     \* history: <<attempt, source, head>> for which the policy passed

world == <<src, batch, cand, main, moves>>
vars  == <<world, att, truth, passed>>

Version == 0..MaxMoves
PullReq == [head : Version, text : Version, state : {"open", "merged", "closed"},
            eligible : BOOLEAN]
Batch   == [id : Version, of : SUBSET Source, live : BOOLEAN, orphan : BOOLEAN]

Pc == {"identity", "lineage", "main", "source", "policy", "landed", "tree", "remain",
       "relineage", "candidate", "final", "race", "attested", "failed"}
Attestation ==
    [pc : Pc, attempt : 1..Attempts, late : BOOLEAN, out : BOOLEAN,
     batch : Batch, main : Version, todo : SUBSET Source, snap : [Source -> PullReq]]

Done == {"attested", "failed"}
At(label) == att.pc = label
GoTo(label) == att' = [att EXCEPT !.pc = label]
Go(label, r) == att' = [r EXCEPT !.pc = label]

\* The source read next: they are taken in ascending order.
Next1 == CHOOSE n \in att.todo : \A m \in att.todo : n <= m
\* On to the next source, or past the last one.
Rest(again, past) ==
    LET todo == att.todo \ {Next1}
    IN  Go(IF todo = {} THEN past ELSE again, [att EXCEPT !.todo = todo])

Genuine == cand.open /\ cand.current

-----------------------------------------------------------------------------
(* One attempt.                                                            *)

\* The app, the bot and the candidate PR; a superseded one is not retried.
ReadCandidate ==
    /\ At("identity")
    /\ GoTo(IF Genuine THEN "lineage" ELSE "failed")
    /\ UNCHANGED <<world, truth, passed>>

\* _candidate_lineage: the batch's sources, and whether a parent is missing.
ReadLineage ==
    /\ At("lineage") /\ batch.live
    /\ Go(IF batch.orphan THEN "main" ELSE "source",
          [att EXCEPT !.batch = batch, !.todo = batch.of])
    /\ UNCHANGED <<world, truth, passed>>

\* Mutant: the wait has no deadline.
WaitForBatchForever ==
    /\ (At("lineage") \/ At("relineage")) /\ ~batch.live
    /\ ~Genuine
    /\ GoTo("failed")
    /\ UNCHANGED <<world, truth, passed>>

\* No unique live batch: the candidate is checked again around a pause, until
\* the 90 seconds shared by every wait of every attempt are over.
WaitForBatch ==
    /\ (At("lineage") \/ At("relineage")) /\ ~batch.live
    /\ ~Genuine \/ att.out
    /\ GoTo("failed")
    /\ UNCHANGED <<world, truth, passed>>

ReadMain ==
    /\ At("main")
    /\ Go("source", [att EXCEPT !.main = main])
    /\ UNCHANGED <<world, truth, passed>>

\* _attest_source: open, and contained in the candidate; a landed source that
\* the batch still lists is a race.  A head pushed since the batch was made may
\* not be contained.  `snap` is the fingerprint.
ReadSource ==
    /\ At("source")
    /\ LET s == src[Next1]
       IN  \/ s.state = "merged" /\ GoTo("race")
           \/ s.state = "closed" /\ GoTo("failed")
           \/ /\ s.state = "open"
              /\ \/ Go("policy", [att EXCEPT !.snap[Next1] = s])
                 \/ s.head > 0 /\ GoTo("failed")
    /\ UNCHANGED <<world, truth, passed>>

\* The policy reads the PR itself, and fails on another head or a landed PR.
Policy ==
    /\ At("policy")
    /\ LET s == src[Next1]
       IN  IF s.eligible /\ s.state = "open" /\ s.head = att.snap[Next1].head
           THEN /\ passed' = passed \cup {<<att.attempt, Next1, s.head>>}
                /\ Rest("source", IF att.batch.orphan THEN "tree" ELSE "relineage")
           ELSE GoTo("landed") /\ UNCHANGED passed
    /\ UNCHANGED <<world, truth>>

\* Its failure is a race only if the source has landed at the same head.
ReadLanded ==
    /\ At("landed")
    /\ GoTo(IF src[Next1].state = "merged" /\ src[Next1].head = att.snap[Next1].head
            THEN "race" ELSE "failed")
    /\ UNCHANGED <<world, truth, passed>>

\* _verify_tree: main with the sources merged in is the candidate's tree, or not.
VerifyTree ==
    /\ At("tree")
    /\ GoTo("remain") \/ GoTo("failed")
    /\ UNCHANGED <<world, truth, passed>>

ReadMainAgain ==
    /\ At("remain")
    /\ GoTo(IF main = att.main THEN "relineage" ELSE "race")
    /\ UNCHANGED <<world, truth, passed>>

ReadLineageAgain ==
    /\ At("relineage") /\ batch.live
    /\ Go(IF batch = att.batch THEN "candidate" ELSE "race", [att EXCEPT !.todo = batch.of])
    /\ truth' = src
    /\ UNCHANGED <<world, passed>>

ReadCandidateAgain ==
    /\ At("candidate")
    /\ GoTo(IF Genuine THEN "final" ELSE "failed")
    /\ UNCHANGED <<world, truth, passed>>

\* Mutant: only the head is compared.
FinalHeadOnly ==
    /\ At("final")
    /\ IF src[Next1].head # att.snap[Next1].head THEN GoTo("failed")
       ELSE Rest("final", "attested")
    /\ UNCHANGED <<world, truth, passed>>

\* Every source is read once more: another head is final, other metadata a race.
Final ==
    /\ At("final")
    /\ LET s == src[Next1]
           t == att.snap[Next1]
       IN  IF s.head # t.head THEN GoTo("failed")
           ELSE IF s.text # t.text \/ s.state # t.state THEN GoTo("race")
           ELSE Rest("final", "attested")
    /\ UNCHANGED <<world, truth, passed>>

-----------------------------------------------------------------------------
(* Retries.                                                                *)

\* Mutant: the attempts are not counted.
RetryUncounted ==
    /\ At("race")
    /\ IF att.late THEN GoTo("failed")
       ELSE Go("identity", [att EXCEPT !.attempt = @ + 1, !.todo = {}])
    /\ UNCHANGED <<world, truth, passed>>

\* Mutant: an attempt resumes where the race was seen.
RetryResumes ==
    /\ At("race")
    /\ IF att.late \/ att.attempt = Attempts THEN GoTo("failed")
       ELSE Go("relineage", [att EXCEPT !.attempt = @ + 1, !.batch = batch])
    /\ UNCHANGED <<world, truth, passed>>

\* A race is tried again from nothing, three times in all, while the window of
\* 30 seconds admits it.
Retry ==
    /\ At("race")
    /\ IF att.late \/ att.attempt = Attempts THEN GoTo("failed")
       ELSE Go("identity", [att EXCEPT !.attempt = @ + 1, !.todo = {}])
    /\ UNCHANGED <<world, truth, passed>>

\* Another call fails, or the answer is malformed: nothing is retried.
Fail ==
    /\ att.pc \notin Done
    /\ GoTo("failed")
    /\ UNCHANGED <<world, truth, passed>>

WindowCloses ==
    /\ att.pc \notin Done /\ ~att.late
    /\ att' = [att EXCEPT !.late = TRUE]
    /\ UNCHANGED <<world, truth, passed>>

BatchDeadline ==
    /\ att.pc \notin Done /\ ~att.out
    /\ att' = [att EXCEPT !.out = TRUE, !.late = TRUE]
    /\ UNCHANGED <<world, truth, passed>>

-----------------------------------------------------------------------------
(* GitHub, people and Mergify.                                             *)

Move == moves < MaxMoves /\ moves' = moves + 1 /\ UNCHANGED <<att, truth, passed>>

\* A push, an edited description or a new verdict on the source.
TouchSource(n) ==
    /\ Move /\ src[n].state = "open"
    /\ \/ src' = [src EXCEPT ![n].head = moves + 1, ![n].eligible = FALSE]
       \/ src' = [src EXCEPT ![n].text = moves + 1]
       \/ src' = [src EXCEPT ![n].eligible = ~@]
       \/ src' = [src EXCEPT ![n].state = "closed"]
    /\ UNCHANGED <<batch, cand, main>>

\* The queue lands a source: an earlier batch's, or this candidate's.
LandSource(n) ==
    /\ Move /\ src[n].state = "open"
    /\ src' = [src EXCEPT ![n].state = "merged"]
    /\ main' = moves + 1
    /\ UNCHANGED <<batch, cand>>

\* Something else reaches main.
MoveMain ==
    /\ Move /\ main' = moves + 1
    /\ UNCHANGED <<src, batch, cand>>

\* Mergify drops the batch for a while, rebuilds it, or retires a parent.
Rebuild ==
    /\ Move
    /\ \/ batch' = [batch EXCEPT !.live = FALSE]
       \/ \E of \in (SUBSET Source) \ {{}}, orphan \in BOOLEAN :
            batch' = [id |-> moves + 1, of |-> of, live |-> TRUE, orphan |-> orphan]
       \/ batch' = [batch EXCEPT !.live = TRUE]
       \/ batch' = [batch EXCEPT !.orphan = TRUE]
    /\ UNCHANGED <<src, cand, main>>

\* The candidate is closed, or its branch gets another head.
Supersede ==
    /\ Move
    /\ cand' \in {[cand EXCEPT !.open = FALSE], [cand EXCEPT !.current = FALSE]}
    /\ UNCHANGED <<src, batch, main>>

-----------------------------------------------------------------------------
Init ==
    /\ src = [n \in Source |-> [head |-> 0, text |-> 0, state |-> "open", eligible |-> TRUE]]
    /\ batch \in {b \in Batch : b.id = 0 /\ b.of # {} /\ b.live}
    /\ cand = [open |-> TRUE, current |-> TRUE] /\ main = 0 /\ moves = 0
    /\ att = [pc |-> "identity", attempt |-> 1, late |-> FALSE, out |-> FALSE,
              batch |-> batch, main |-> 0, todo |-> {}, snap |-> src]
    /\ truth = src /\ passed = {}

Continue ==
    \/ ReadCandidate \/ ReadLineage \/ WaitForBatch \/ ReadMain \/ ReadSource
    \/ Policy \/ ReadLanded \/ VerifyTree \/ ReadMainAgain \/ ReadLineageAgain
    \/ ReadCandidateAgain \/ Final \/ Retry

Outside == \/ \E n \in Source : TouchSource(n) \/ LandSource(n)
           \/ MoveMain \/ Rebuild \/ Supersede

Next == Continue \/ Fail \/ WindowCloses \/ BatchDeadline \/ Outside
Spec == Init /\ [][Next]_vars

\* Calls return, and the monotonic clock reaches both deadlines.
FairSpec == Spec /\ WF_vars(Continue) /\ WF_vars(BatchDeadline)

-----------------------------------------------------------------------------
TypeOK ==
    /\ src \in [Source -> PullReq] /\ batch \in Batch
    /\ cand \in [open : BOOLEAN, current : BOOLEAN] /\ main \in Version
    /\ att \in Attestation /\ moves \in 0..MaxMoves
    /\ truth \in [Source -> PullReq]
    /\ passed \subseteq (1..Attempts) \X Source \X Version

\* Success attests one instant: when the lineage was read for the second time
\* every source of the batch was open, with the very head and description that
\* are attested, though each was read on its own before and after.
AttestedInstant ==
    At("attested") =>
        \A n \in att.batch.of :
            /\ truth[n].state = "open"
            /\ truth[n].head = att.snap[n].head /\ truth[n].text = att.snap[n].text

\* No verdict survives a failed attempt (docs/ARCHITECTURE.md:262): success
\* needs every source of the batch to have passed the policy, at the attested
\* head, in the very attempt that succeeds.
AttestedPolicy ==
    At("attested") =>
        \A n \in att.batch.of : <<att.attempt, n, att.snap[n].head>> \in passed

\* Attestation ends, whatever Mergify's batches do.
Termination == <>(att.pc \in Done)
=============================================================================
