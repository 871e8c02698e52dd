---------------------------- MODULE DeliveryProofs ----------------------------
(***************************************************************************)
(* Safety of Delivery for every set of commits and sessions.               *)
(***************************************************************************)
EXTENDS Delivery, TLAPS

\* While it polls, a command has captured a commit.
AtCommit ==
    \A s \in Session : run[s].pc \in Reading \cup {"kick"} => run[s].at \in Commit

LEMMA IdleType == ASSUME NEW code \in Exits
                  PROVE Idle \in RunState /\ [Idle EXCEPT !.exit = code] \in RunState
  BY DEF Idle, RunState, Pc, Reading, Command, Waits, Gates, CiState, Exits

LEMMA HoldingGates == \A c : Holding(c) \subseteq Gates /\ Holding(c)' \subseteq Gates
  BY DEF Holding

\* A command's own record is all that an assignment of `run` changes.
LEMMA BecomeType ==
    ASSUME NEW s \in Session, NEW r \in RunState, run \in [Session -> RunState],
           Become(s, r)
    PROVE  /\ run' \in [Session -> RunState] /\ run'[s] = r
           /\ \A t \in Session : t # s => run'[t] = run[t]
  BY DEF Become

\* The history variables stay well typed whatever the step does to `run`.
LEMMA TrackType ==
    ASSUME TypeOK, run' \in [Session -> RunState], Track
    PROVE  held' \in [Session -> SUBSET Gates]
           /\ accepted' \subseteq Commit \cup {NoCommit} /\ marked' \subseteq Session
  <1>1. \A s \in Session : (run'[s]).at \in Commit \cup {NoCommit}
    BY DEF RunState
  <1>2. accepted' \subseteq Commit \cup {NoCommit}
    <2>1. accepted \subseteq Commit \cup {NoCommit}
      BY DEF TypeOK
    <2>2. accepted' = accepted \cup
            {run'[s].at : s \in {t \in Session : held'[t] = Gates}}
      BY Zenon DEF Track
    <2>3. {run'[s].at : s \in {t \in Session : held'[t] = Gates}}
             \subseteq Commit \cup {NoCommit}
      BY <1>1
    <2>4. QED BY <2>1, <2>2, <2>3, Zenon
  <1>3. \A s \in Session : held[s] \subseteq Gates
    BY DEF TypeOK
  <1>4. held' \in [Session -> SUBSET Gates]
    BY <1>3, HoldingGates DEF Track
  <1>5. marked' \subseteq Session
    BY DEF Track
  <1>6. QED BY <1>2, <1>4, <1>5

-----------------------------------------------------------------------------
(* Type correctness.                                                       *)

\* TypeOK without the bound counter and the history variables.
StateOK ==
    /\ head \in Commit /\ dirty \in BOOLEAN /\ clone \in BOOLEAN
    /\ known \subseteq Commit /\ receipt \in Receipt
    /\ anc \in [Commit -> SUBSET Commit] /\ stale \subseteq Commit
    /\ remote \in Commit \cup {NoCommit} /\ pr \in PullRequest
    /\ queued \in BOOLEAN
    /\ reviewed \subseteq Commit /\ blocked \subseteq Commit
    /\ ci \in [Commit -> CiState]

Captured(r) == r.pc \in Reading \cup {"kick"} => r.at \in Commit

LEMMA BecomeKeeps ==
    ASSUME run \in [Session -> RunState], AtCommit, NEW s \in Session,
           NEW r \in RunState, Captured(r), Become(s, r)
    PROVE  run' \in [Session -> RunState] /\ AtCommit'
  <1>1. /\ run' \in [Session -> RunState] /\ run'[s] = r
        /\ \A t \in Session : t # s => run'[t] = run[t]
    BY BecomeType
  <1>2. AtCommit'
    BY <1>1 DEF AtCommit, Captured
  <1>3. QED BY <1>1, <1>2

LEMMA ReturnKeeps ==
    ASSUME run \in [Session -> RunState], AtCommit, NEW s \in Session,
           NEW code \in Exits, Return(s) \/ Exit(s, code)
    PROVE  run' \in [Session -> RunState] /\ AtCommit'
  <1>1. Captured(Idle) /\ Captured([Idle EXCEPT !.exit = code])
    BY DEF Captured, Idle, Reading
  <1>2. CASE Return(s)
    BY <1>1, <1>2, IdleType, BecomeKeeps DEF Return
  <1>3. CASE Exit(s, code)
    BY <1>1, <1>3, IdleType, BecomeKeeps DEF Exit
  <1>4. QED BY <1>2, <1>3

LEMMA GoToKeeps ==
    ASSUME run \in [Session -> RunState], AtCommit, NEW s \in Session,
           NEW label \in Pc, GoTo(s, label),
           label \in Reading \cup {"kick"} => run[s].at \in Commit
    PROVE  run' \in [Session -> RunState] /\ AtCommit'
  <1> DEFINE r == [run[s] EXCEPT !.pc = label]
  <1>1. run[s] \in RunState
    OBVIOUS
  <1>2. r \in RunState /\ r.pc = label /\ r.at = run[s].at
    BY <1>1 DEF RunState
  <1>3. Captured(r)
    BY <1>2 DEF Captured
  <1>4. Become(s, r)
    BY DEF GoTo
  <1> HIDE DEF r
  <1>5. QED BY <1>2, <1>3, <1>4, BecomeKeeps

\* What the poll, the merge and the cleanup do to a command's own record.
LEMMA PollType ==
    ASSUME StateOK, run \in [Session -> RunState], AtCommit,
           NEW s \in Session, Poll(s)
    PROVE  run' \in [Session -> RunState] /\ AtCommit' /\ StateOK'
  <1> DEFINE r == run[s]
  <1>r. r \in RunState
    OBVIOUS
  <1>s. StateOK'
    BY DEF Poll, StateOK, ReadPr, ReadReview, ReadFindings, ReadChecks, ReadReceipt,
           DecideFirst, DecideWaiting, local, github, people
  <1>a. r.pc \in Reading => r.at \in Commit
    BY DEF AtCommit
  <1>p. Reading \subseteq Pc /\ {"kick", "merge", "relook"} \subseteq Pc
    BY DEF Pc, Reading
  <1>x. {"none", "ready", "left"} \subseteq Exits
    BY DEF Exits
  <1>1. CASE ReadPr(s)
    <2>1. r.at \in Commit
      BY <1>1, <1>a DEF ReadPr, At, Reading
    <2>2. CASE Return(s)
      BY <2>2, <1>s, <1>x, ReturnKeeps
    <2>3. CASE GoTo(s, "relook")
      BY <2>3, <1>s, <1>p, <2>1, GoToKeeps
    <2>4. CASE Become(s, [run[s] EXCEPT !.pc = "review", !.draft = pr.draft,
                            !.seen = Holding(run[s].at) \cap {"open", "current"}])
      <3> DEFINE q == [run[s] EXCEPT !.pc = "review", !.draft = pr.draft,
                         !.seen = Holding(run[s].at) \cap {"open", "current"}]
      <3>1. pr.draft \in BOOLEAN
        BY DEF StateOK, PullRequest
      <3>2. q \in RunState /\ Captured(q)
        BY <1>r, <3>1, <2>1, HoldingGates DEF RunState, Captured, Pc, Reading
      <3> HIDE DEF q
      <3>3. QED BY <2>4, <3>2, <1>s, BecomeKeeps DEF q
    <2>5. QED BY <1>1, <2>2, <2>3, <2>4 DEF ReadPr
  <1>2. ASSUME NEW gate \in Gates, NEW next \in Reading, r.at \in Commit,
               ReadGate(s, gate, next)
        PROVE  run' \in [Session -> RunState] /\ AtCommit'
    <2> DEFINE q == [run[s] EXCEPT !.pc = next,
                       !.seen = @ \cup (Holding(run[s].at) \cap {gate})]
    <2>1. q \in RunState /\ Captured(q)
      BY <1>r, <1>2, <1>p, HoldingGates DEF RunState, Captured
    <2> HIDE DEF q
    <2>2. QED BY <1>2, <2>1, BecomeKeeps DEF q, ReadGate
  <1>3. CASE ReadReview(s) \/ ReadFindings(s) \/ ReadReceipt(s)
    <2>1. r.at \in Commit
      BY <1>3, <1>a DEF ReadReview, ReadFindings, ReadReceipt, At, Reading
    <2>2. {"review", "findings", "receipt"} \subseteq Gates
          /\ {"findings", "ci", "decide"} \subseteq Reading
      BY DEF Gates, Reading
    <2>3. QED BY <1>2, <1>3, <1>s, <2>1, <2>2 DEF ReadReview, ReadFindings, ReadReceipt
  <1>4. CASE ReadChecks(s)
    <2>1. r.at \in Commit
      BY <1>4, <1>a DEF ReadChecks, At, Reading
    <2>2. PICK grace \in BOOLEAN :
            Become(s, [run[s] EXCEPT !.pc = "receipt", !.ci = ci[run[s].at],
                      !.grace = grace,
                      !.seen = @ \cup (Holding(run[s].at) \cap {"ci"})])
      BY <1>4 DEF ReadChecks
    <2> DEFINE q == [run[s] EXCEPT !.pc = "receipt", !.ci = ci[run[s].at],
                      !.grace = grace,
                      !.seen = @ \cup (Holding(run[s].at) \cap {"ci"})]
    <2>3. ci[run[s].at] \in CiState
      BY <2>1 DEF StateOK
    <2>4. q \in RunState /\ Captured(q)
      BY <1>r, <2>1, <2>3, HoldingGates DEF RunState, Captured, Pc, Reading
    <2> HIDE DEF q
    <2>5. QED BY <2>2, <2>4, <1>s, BecomeKeeps DEF q
  <1>5. CASE DecideFirst(s) \/ DecideWaiting(s)
    <2>1. r.at \in Commit
      BY <1>5, <1>a DEF DecideFirst, DecideWaiting, At, Reading
    <2>2. Conclude(s) => \/ Return(s) \/ Exit(s, "ready")
                         \/ GoTo(s, "kick") \/ GoTo(s, "merge")
      BY DEF Conclude
    <2> DEFINE q1 == [r EXCEPT !.pc = "pr", !.waiting = TRUE, !.seen = {}]
               q2 == [r EXCEPT !.pc = "pr", !.seen = {}]
    <2>3. \/ Return(s) \/ Exit(s, "ready") \/ GoTo(s, "kick") \/ GoTo(s, "merge")
          \/ Become(s, q1) \/ Become(s, q2)
      BY <1>5, <2>2 DEF DecideFirst, DecideWaiting
    <2>4. q1 \in RunState /\ Captured(q1) /\ q2 \in RunState /\ Captured(q2)
      BY <1>r, <2>1 DEF RunState, Captured, Pc, Reading
    <2> HIDE DEF q1, q2
    <2>5. CASE Return(s) \/ Exit(s, "ready")
      BY <2>5, <1>s, <1>x, ReturnKeeps
    <2>6. CASE GoTo(s, "kick") \/ GoTo(s, "merge")
      BY <2>6, <2>1, <1>p, <1>s, GoToKeeps
    <2>7. CASE Become(s, q1) \/ Become(s, q2)
      BY <2>7, <2>4, <1>s, BecomeKeeps
    <2>8. QED BY <2>3, <2>5, <2>6, <2>7
  <1>6. QED BY <1>1, <1>3, <1>4, <1>5 DEF Poll

LEMMA LandType ==
    ASSUME StateOK, run \in [Session -> RunState], AtCommit,
           NEW s \in Session, Land(s)
    PROVE  run' \in [Session -> RunState] /\ AtCommit' /\ StateOK'
  <1> DEFINE r == run[s]
  <1>r. r \in RunState
    OBVIOUS
  <1>p. {"look", "queue", "relook", "cleanup", "remove"} \subseteq Pc \ Reading
        /\ "kick" \notin {"look", "queue", "relook", "cleanup", "remove"}
    BY DEF Pc, Reading
  <1>x. {"none", "ready", "left"} \subseteq Exits
    BY DEF Exits
  <1>s. StateOK'
    <2>1. pr' \in PullRequest
      BY DEF Land, StateOK, MarkReady, RequestMerge, Look, ReadQueue, Relook,
             DeleteRemoteBranch, RemoveClone, github, PullRequest
    <2>2. queued' \in BOOLEAN
      BY DEF Land, StateOK, MarkReady, RequestMerge, Look, ReadQueue, Relook,
             DeleteRemoteBranch, RemoveClone, github
    <2>3. remote' \in Commit \cup {NoCommit} /\ clone' \in BOOLEAN
      BY DEF Land, StateOK, MarkReady, RequestMerge, Look, ReadQueue, Relook,
             DeleteRemoteBranch, RemoveClone, github, local
    <2>4. UNCHANGED <<head, dirty, known, receipt, people, anc>>
      BY DEF Land, MarkReady, RequestMerge, Look, ReadQueue, Relook,
             DeleteRemoteBranch, RemoveClone, local
    <2>5. QED BY <2>1, <2>2, <2>3, <2>4 DEF StateOK, people
  <1> DEFINE q1 == [r EXCEPT !.pc = "pr", !.waiting = TRUE, !.kicked = TRUE, !.seen = {}]
             q2 == [r EXCEPT !.pc = "look", !.waiting = FALSE]
             q3 == [r EXCEPT !.pc = "look", !.waiting = TRUE]
  <1>2. \/ Return(s) \/ Exit(s, "ready") \/ Exit(s, "left")
        \/ \E l \in {"look", "queue", "relook", "cleanup", "remove"} : GoTo(s, l)
        \/ (At(s, "kick") /\ Become(s, q1)) \/ Become(s, q2) \/ Become(s, q3)
    <2>1. CASE MarkReady(s)
      BY <2>1 DEF MarkReady
    <2>2. CASE RequestMerge(s)
      BY <2>2 DEF RequestMerge
    <2>3. CASE Look(s) \/ Relook(s)
      BY <2>3 DEF Look, Relook, MergedSha
    <2>4. CASE ReadQueue(s)
      BY <2>4 DEF ReadQueue
    <2>5. CASE DeleteRemoteBranch(s) \/ RemoveClone(s)
      BY <2>5 DEF DeleteRemoteBranch, RemoveClone
    <2>6. QED BY <2>1, <2>2, <2>3, <2>4, <2>5 DEF Land
  <1>3. At(s, "kick") => q1 \in RunState /\ Captured(q1)
    BY <1>r DEF RunState, Captured, Pc, Reading, AtCommit, At
  <1>4. q2 \in RunState /\ Captured(q2) /\ q3 \in RunState /\ Captured(q3)
    <2>1. q2 \in RunState /\ q3 \in RunState
      BY <1>r DEF RunState, Pc
    <2>2. q2.pc = "look" /\ q3.pc = "look"
      BY <1>r DEF RunState
    <2>3. QED BY <2>1, <2>2 DEF Captured, Reading
  <1> HIDE DEF q1, q2, q3
  <1>5. CASE Return(s) \/ Exit(s, "ready") \/ Exit(s, "left")
    BY <1>5, <1>s, <1>x, ReturnKeeps
  <1>6. CASE \E l \in {"look", "queue", "relook", "cleanup", "remove"} : GoTo(s, l)
    BY <1>6, <1>s, <1>p, GoToKeeps
  <1>7. CASE (At(s, "kick") /\ Become(s, q1)) \/ Become(s, q2) \/ Become(s, q3)
    BY <1>7, <1>3, <1>4, <1>s, BecomeKeeps
  <1>8. QED BY <1>2, <1>5, <1>6, <1>7

LEMMA PublishType ==
    ASSUME StateOK, run \in [Session -> RunState], AtCommit, NEW s \in Session,
           \/ CheckStart(s) \/ CheckFinish(s) \/ PrLookup(s) \/ Push(s)
           \/ CreateDraft(s) \/ Begin(s) \/ CloneGone(s) \/ Abort(s) \/ Deadline(s)
    PROVE  run' \in [Session -> RunState] /\ AtCommit' /\ StateOK'
  <1> DEFINE r == run[s]
  <1>r. r \in RunState
    OBVIOUS
  <1>p. "create" \in Pc \ Reading /\ "create" # "kick" /\ "none" \in Exits
    BY DEF Pc, Reading, Exits
  <1>0. head \in Commit /\ dirty \in BOOLEAN /\ pr \in PullRequest
    BY DEF StateOK
  <1>1. CASE CheckStart(s)
    <2> DEFINE q == [Idle EXCEPT !.pc = "check", !.cmd = "check", !.at = head,
                                 !.draft = dirty]
    <2>1. q \in RunState /\ Captured(q)
      BY <1>0 DEF Idle, RunState, Captured, Pc, Reading, Command, Waits, Gates,
                  CiState, Exits
    <2>2. Become(s, q) /\ UNCHANGED <<local, github, people, anc>>
      BY <1>1 DEF CheckStart
    <2> HIDE DEF q
    <2>3. QED BY <2>1, <2>2, BecomeKeeps DEF StateOK, local, github, people
  <1>2. CASE CheckFinish(s)
    <2>1. r.at \in Commit \cup {NoCommit} /\ r.draft \in BOOLEAN
      BY <1>r DEF RunState
    <2>2. receipt' \in Receipt
      BY <1>2, <2>1, <1>0 DEF CheckFinish, Receipt
    <2>3. Return(s) /\ UNCHANGED <<head, dirty, clone, known, github, people, anc>>
      BY <1>2 DEF CheckFinish
    <2>4. QED BY <1>p, <2>2, <2>3, ReturnKeeps DEF StateOK, github, people
  <1>3. CASE PrLookup(s)
    <2>1. PICK lease \in Commit \cup {NoCommit}, fresh \in BOOLEAN :
            Become(s, [Idle EXCEPT !.pc = "push", !.cmd = "pr", !.lease = lease,
                                   !.fresh = fresh])
      BY <1>3, <1>0 DEF PrLookup, PullRequest
    <2> DEFINE q == [Idle EXCEPT !.pc = "push", !.cmd = "pr", !.lease = lease,
                                 !.fresh = fresh]
    <2>2. q \in RunState /\ Captured(q)
      BY DEF Idle, RunState, Captured, Pc, Reading, Command, Waits, Gates, CiState, Exits
    <2>3. UNCHANGED <<local, github, people, anc>>
      BY <1>3 DEF PrLookup
    <2> HIDE DEF q
    <2>4. QED BY <2>1, <2>2, <2>3, BecomeKeeps DEF StateOK, local, github, people, q
  <1>4. CASE Push(s)
    <2>1. UNCHANGED <<local, people, anc>> /\ (GoTo(s, "create") \/ Return(s))
      BY <1>4 DEF Push
    <2>2. remote' \in Commit \cup {NoCommit} /\ pr' \in PullRequest /\ queued' \in BOOLEAN
      BY <1>4 DEF Push, StateOK, github, PullRequest
    <2>3. StateOK'
      BY <2>1, <2>2 DEF StateOK, local, people
    <2>4. CASE GoTo(s, "create")
      BY <2>4, <2>3, <1>p, GoToKeeps DEF Pc
    <2>5. CASE Return(s)
      BY <2>5, <2>3, <1>p, ReturnKeeps
    <2>6. QED BY <2>1, <2>4, <2>5
  <1>5. CASE CreateDraft(s)
    <2>1. Return(s) /\ UNCHANGED <<local, remote, queued, people, anc>>
      BY <1>5 DEF CreateDraft
    <2>2. pr' \in PullRequest
      <3>1. remote \in Commit \cup {NoCommit} /\ pr \in PullRequest
        BY DEF StateOK
      <3>2. CASE pr.state = "open" \/ remote = NoCommit
        BY <1>5, <3>1, <3>2 DEF CreateDraft
      <3>3. CASE ~(pr.state = "open" \/ remote = NoCommit)
        <4>1. pr' = [state |-> "open", draft |-> TRUE, head |-> remote]
          BY <1>5, <3>3 DEF CreateDraft
        <4>2. QED BY <3>1, <4>1 DEF PullRequest
      <3>4. QED BY <3>2, <3>3
    <2>3. QED BY <1>p, <2>1, <2>2, ReturnKeeps DEF StateOK, local, people
  <1>6. CASE Begin(s)
    <2>1. PICK c \in {"ready", "merge"}, w \in Waits :
            Become(s, [Idle EXCEPT !.pc = "pr", !.cmd = c, !.wait = w, !.at = head,
                                   !.late = (w = "zero")])
      BY <1>6, WaitAssumption DEF Begin
    <2> DEFINE q == [Idle EXCEPT !.pc = "pr", !.cmd = c, !.wait = w, !.at = head,
                                 !.late = (w = "zero")]
    <2>2. q \in RunState /\ Captured(q)
      BY <1>0 DEF Idle, RunState, Captured, Pc, Reading, Command, Waits, Gates,
                  CiState, Exits
    <2>3. UNCHANGED <<local, github, people, anc>>
      BY <1>6 DEF Begin
    <2> HIDE DEF q
    <2>4. QED BY <2>1, <2>2, <2>3, BecomeKeeps DEF StateOK, local, github, people, q
  <1>7. CASE CloneGone(s) \/ Abort(s)
    <2>1. Return(s) /\ UNCHANGED <<local, github, people, anc>>
      BY <1>7 DEF CloneGone, Abort
    <2>2. QED BY <1>p, <2>1, ReturnKeeps DEF StateOK, local, github, people
  <1>8. CASE Deadline(s)
    <2> DEFINE q == [r EXCEPT !.late = TRUE]
    <2>1. q \in RunState /\ Captured(q)
      BY <1>r DEF RunState, Captured, AtCommit
    <2>2. Become(s, q) /\ UNCHANGED <<local, github, people, anc>>
      BY <1>8 DEF Deadline
    <2> HIDE DEF q
    <2>3. QED BY <2>1, <2>2, BecomeKeeps DEF StateOK, local, github, people
  <1>9. QED BY <1>1, <1>2, <1>3, <1>4, <1>5, <1>6, <1>7, <1>8

LEMMA MovesType ==
    ASSUME StateOK, Worker \/ Outside
    PROVE  run' = run /\ StateOK'
  <1>1. CASE Edit \/ Discard \/ Fetch
    BY <1>1 DEF Edit, Discard, Fetch, StateOK, github, people
  <1>2. CASE \E c \in Commit : NewCommit(c)
    <2>1. PICK c \in Commit : NewCommit(c)
      BY <1>2
    <2>2. anc[head] \subseteq Commit /\ anc' \in [Commit -> SUBSET Commit]
      BY <2>1 DEF NewCommit, StateOK
    <2>3. stale' \subseteq Commit /\ known' \subseteq Commit /\ head' \in Commit
          /\ dirty' \in BOOLEAN
      BY <2>1 DEF NewCommit, StateOK
    <2>4. UNCHANGED <<clone, receipt, remote, pr, queued, reviewed, blocked, ci, run>>
      BY <2>1 DEF NewCommit, github
    <2>5. QED BY <2>2, <2>3, <2>4 DEF StateOK
  <1>3. CASE \E c \in Commit : OtherPush(c)
    <2>1. pr' \in PullRequest
      BY <1>3 DEF OtherPush, StateOK, PullRequest
    <2>2. PICK c \in Commit : OtherPush(c)
      BY <1>3
    <2>3. anc' \in [Commit -> SUBSET Commit]
      BY <2>2 DEF OtherPush, StateOK
    <2>4. stale' \subseteq Commit /\ remote' \in Commit /\ queued' \in BOOLEAN
      BY <2>2 DEF OtherPush, StateOK
    <2>5. UNCHANGED <<local, reviewed, blocked, ci, run>>
      BY <2>2 DEF OtherPush
    <2>6. QED BY <2>1, <2>3, <2>4, <2>5 DEF StateOK, local
  <1>4. CASE \E c \in Commit : Review(c) \/ CheckRun(c)
    BY <1>4 DEF Review, CheckRun, StateOK, local, github
  <1>5. CASE BaseMoves
    BY <1>5 DEF BaseMoves, Made, StateOK, local, github
  <1>6. CASE Withdraw \/ QueueLands
    <2>1. pr' \in PullRequest
      BY <1>6 DEF Withdraw, QueueLands, StateOK, PullRequest
    <2>2. QED BY <1>6, <2>1 DEF Withdraw, QueueLands, StateOK, local, people
  <1>7. QED BY <1>1, <1>2, <1>3, <1>4, <1>5, <1>6 DEF Worker, Outside

LEMMA TypeStep ==
    ASSUME TypeOK, AtCommit, [Next]_vars
    PROVE  TypeOK' /\ AtCommit'
  <1>0. StateOK /\ run \in [Session -> RunState] /\ moves \in 0..MaxMoves
    BY DEF TypeOK, StateOK
  <1>1. CASE Next
    <2>1. Track
      BY <1>1 DEF Next
    <2>2. run' \in [Session -> RunState] /\ AtCommit' /\ StateOK' /\ moves' \in 0..MaxMoves
      <3>1. CASE Moves
        <4>1. run' = run /\ StateOK'
          BY <1>0, <3>1, MovesType DEF Moves
        <4>2. moves' \in 0..MaxMoves
          BY <1>0, <3>1, MovesAssumption DEF Moves
        <4>3. QED BY <1>0, <4>1, <4>2 DEF AtCommit
      <3>2. ASSUME NEW s \in Session, CommandStep(s), UNCHANGED moves
            PROVE  run' \in [Session -> RunState] /\ AtCommit' /\ StateOK'
                   /\ moves' \in 0..MaxMoves
        <4>1. \/ Poll(s) \/ Land(s)
              \/ CheckStart(s) \/ CheckFinish(s) \/ PrLookup(s) \/ Push(s)
              \/ CreateDraft(s) \/ Begin(s) \/ CloneGone(s) \/ Abort(s) \/ Deadline(s)
          BY <3>2 DEF CommandStep, Continue
        <4>2. QED BY <1>0, <3>2, <4>1, PollType, LandType, PublishType
      <3>3. QED BY <1>1, <3>1, <3>2 DEF Next, Step
    <2>3. /\ held' \in [Session -> SUBSET Gates]
          /\ accepted' \subseteq Commit \cup {NoCommit} /\ marked' \subseteq Session
      BY <2>1, <2>2, TrackType
    <2>4. QED BY <2>2, <2>3 DEF TypeOK, StateOK
  <1>2. CASE UNCHANGED vars
    BY <1>2 DEF vars, local, github, people, TypeOK, AtCommit
  <1>3. QED BY <1>1, <1>2

-----------------------------------------------------------------------------
(* Only gated heads land.                                                  *)

\* What a command's record says of the gates, and of its one activation.
RecordOK(s) ==
    /\ Polling(run[s]) => run[s].seen \subseteq held[s]
    /\ held[s] = Gates => run[s].at \in accepted
    /\ At(s, "merge") => run[s].seen = Gates
    /\ At(s, "kick") => Gates \ {"ci"} \subseteq run[s].seen /\ ~run[s].kicked
    /\ run[s].pc \in Reading /\ ~run[s].waiting => ~run[s].kicked

\* A command knows that it has marked the PR ready.
MarkedInv == \A s \in Session : s \in marked => run[s].kicked /\ run[s].pc # "idle"

QueuedOpen == queued => pr.state = "open" /\ Queue

\* The inductive invariant.
DeliveryInv ==
    /\ TypeOK /\ AtCommit
    /\ \A s \in Session : RecordOK(s)
    /\ MarkedInv /\ QueuedOpen /\ LandedGated

\* Heads once accepted stay so, and a poll only adds to the gates it holds.
LEMMA TrackGrows ==
    ASSUME Track, NEW s \in Session
    PROVE  /\ accepted \subseteq accepted'
           /\ held'[s] = Gates => run'[s].at \in accepted'
           /\ Polling(run'[s]) => Holding(run[s].at)' \subseteq held'[s]
           /\ Polling(run'[s]) /\ run[s].pc # "pr" => held[s] \subseteq held'[s]
  <1>1. /\ accepted' = accepted \cup
              {run'[t].at : t \in {u \in Session : held'[u] = Gates}}
        /\ held' = [t \in Session |->
              IF Polling(run'[t])
              THEN (IF run[t].pc = "pr" THEN {} ELSE held[t]) \cup Holding(run[t].at)'
              ELSE {}]
    BY Zenon DEF Track
  <1>2. accepted \subseteq accepted' /\ (held'[s] = Gates => run'[s].at \in accepted')
    <2>1. held'[s] = Gates => s \in {u \in Session : held'[u] = Gates}
      OBVIOUS
    <2>2. QED BY <1>1, <2>1, Zenon
  <1>3. held'[s] = IF Polling(run'[s])
                   THEN (IF run[s].pc = "pr" THEN {} ELSE held[s]) \cup Holding(run[s].at)'
                   ELSE {}
    BY <1>1, Zenon
  <1>4. QED BY <1>2, <1>3

\* A command whose place, gates and flags a step leaves alone keeps what its
\* record says: another command's step, a move of a person, the deadline.
LEMMA OthersKeep ==
    ASSUME Track, NEW t \in Session, RecordOK(t),
           run'[t].pc = run[t].pc, run'[t].seen = run[t].seen, run'[t].at = run[t].at,
           run'[t].kicked = run[t].kicked, run'[t].waiting = run[t].waiting
    PROVE  RecordOK(t)'
  <1>1. Polling(run[t]) => run[t].pc # "pr"
    BY DEF Polling, Reading
  <1>2. Polling(run'[t]) <=> Polling(run[t])
    BY DEF Polling
  <1>3. /\ held'[t] = Gates => run'[t].at \in accepted'
        /\ Polling(run'[t]) /\ run[t].pc # "pr" => held[t] \subseteq held'[t]
    BY TrackGrows
  <1>4. (Polling(run[t]) => run[t].seen \subseteq held[t])'
    BY <1>1, <1>2, <1>3 DEF RecordOK, Polling
  <1>5. QED BY <1>3, <1>4 DEF RecordOK, At

LEMMA HoldingSame ==
    ASSUME NEW s \in Session, run'[s].at = run[s].at,
           UNCHANGED <<pr, stale, reviewed, blocked, ci, receipt>>
    PROVE  Holding(run[s].at)' = Holding(run[s].at)
  BY DEF Holding

\* A read of a gate records it as seen only if it holds at that instant.
LEMMA PollRecord ==
    ASSUME TypeOK, Track, NEW s \in Session, Poll(s), RecordOK(s)
    PROVE  RecordOK(s)'
  <1> DEFINE r == run[s]
  <1>r. r \in RunState /\ run \in [Session -> RunState]
    BY DEF TypeOK
  <1>t. /\ held'[s] = Gates => run'[s].at \in accepted'
        /\ Polling(run'[s]) => Holding(run[s].at)' \subseteq held'[s]
        /\ Polling(run'[s]) /\ run[s].pc # "pr" => held[s] \subseteq held'[s]
    BY TrackGrows
  <1>u. UNCHANGED <<pr, stale, reviewed, blocked, ci, receipt>>
    BY DEF Poll, ReadPr, ReadReview, ReadFindings, ReadChecks, ReadReceipt,
           DecideFirst, DecideWaiting, local, github, people
  <1>i. ASSUME run'[s].pc = "idle" PROVE RecordOK(s)'
    BY <1>i, <1>t DEF RecordOK, At, Polling, Reading
  <1>j. ASSUME NEW code \in Exits, Return(s) \/ Exit(s, code) PROVE RecordOK(s)'
    BY <1>i, <1>j, <1>r DEF Return, Exit, Become, Idle
  <1>1. CASE ReadPr(s)
    <2>1. CASE GoTo(s, "relook")
      BY <2>1, <1>r, <1>t DEF RecordOK, At, Polling, Reading, GoTo, Become
    <2>2. CASE Become(s, [run[s] EXCEPT !.pc = "review", !.draft = pr.draft,
                            !.seen = Holding(run[s].at) \cap {"open", "current"}])
      <3>1. /\ run'[s].pc = "review" /\ run'[s].at = r.at /\ run'[s].kicked = r.kicked
            /\ run'[s].waiting = r.waiting /\ r.pc = "pr"
            /\ run'[s].seen = Holding(r.at) \cap {"open", "current"}
        BY <2>2, <1>1, <1>r DEF Become, RunState, ReadPr, At
      <3>2. Holding(run[s].at)' = Holding(run[s].at)
        BY <3>1, <1>u, HoldingSame
      <3>3. QED BY <3>1, <3>2, <1>t DEF RecordOK, At, Polling, Reading
    <2>3. QED BY <1>1, <1>j, <2>1, <2>2 DEF ReadPr, Exits
  <1>2. ASSUME NEW gates, NEW next \in Reading, next # "pr", r.pc \in Reading \ {"pr"},
               run'[s].pc = next, run'[s].at = r.at, run'[s].kicked = r.kicked,
               run'[s].waiting = r.waiting,
               run'[s].seen = r.seen \cup (Holding(r.at) \cap gates)
        PROVE  RecordOK(s)'
    <2>1. Holding(run[s].at)' = Holding(run[s].at)
      BY <1>2, <1>u, HoldingSame
    <2>2. r.seen \subseteq held[s]
      BY <1>2 DEF RecordOK, Polling
    <2>3. QED BY <1>2, <2>1, <2>2, <1>t DEF RecordOK, At, Polling, Reading
  <1>3. ASSUME NEW gate, NEW next \in Reading, next # "pr", r.pc \in Reading \ {"pr"},
               ReadGate(s, gate, next)
        PROVE  RecordOK(s)'
    <2>1. /\ run'[s].pc = next /\ run'[s].at = r.at /\ run'[s].kicked = r.kicked
          /\ run'[s].waiting = r.waiting
          /\ run'[s].seen = r.seen \cup (Holding(r.at) \cap {gate})
      BY <1>3, <1>r DEF ReadGate, Become, RunState
    <2>2. QED BY <2>1, <1>2, <1>3
  <1>4. CASE ReadReview(s) \/ ReadFindings(s) \/ ReadReceipt(s)
    BY <1>4, <1>3 DEF ReadReview, ReadFindings, ReadReceipt, At, Reading
  <1>5. CASE ReadChecks(s)
    <2>1. /\ run'[s].pc = "receipt" /\ run'[s].at = r.at /\ run'[s].kicked = r.kicked
          /\ run'[s].waiting = r.waiting
          /\ run'[s].seen = r.seen \cup (Holding(r.at) \cap {"ci"})
      BY <1>5, <1>r DEF ReadChecks, Become, RunState
    <2>2. r.pc \in Reading \ {"pr"} /\ "receipt" \in Reading
      BY <1>5 DEF ReadChecks, At, Reading
    <2>3. QED BY <2>1, <2>2, <1>2
  <1>6. CASE DecideFirst(s) \/ DecideWaiting(s)
    <2>1. r.pc = "decide" /\ r.seen \subseteq held[s]
          /\ (~r.waiting => ~r.kicked)
      BY <1>6 DEF DecideFirst, DecideWaiting, At, RecordOK, Polling, Reading
    <2> DEFINE Kick  == GoTo(s, "kick") /\ ~r.kicked /\ Gates \ {"ci"} \subseteq r.seen
               Merge == GoTo(s, "merge") /\ r.seen = Gates
               Again == run'[s].pc = "pr" /\ run'[s].waiting
    <2>2. Conclude(s) => Return(s) \/ Exit(s, "ready") \/ Kick \/ Merge
      BY DEF Conclude, Ready
    <2>3. DraftChecksWaiting(r) => Gates \ {"ci"} \subseteq r.seen
      BY DEF DraftChecksWaiting
    <2> DEFINE q1 == [r EXCEPT !.pc = "pr", !.waiting = TRUE, !.seen = {}]
               q2 == [r EXCEPT !.pc = "pr", !.seen = {}]
    <2>a. /\ Become(s, q1) => Again
          /\ r.waiting /\ Become(s, q2) => Again
      <3>1. /\ q1.pc = "pr" /\ q1.waiting /\ q2.pc = "pr"
            /\ q2.waiting = r.waiting
        BY <1>r DEF RunState
      <3> HIDE DEF q1, q2
      <3>2. \A q : Become(s, q) => run'[s] = q
        BY <1>r DEF Become
      <3>3. QED BY <3>1, <3>2
    <2> HIDE DEF q1, q2, Kick, Merge, Again
    <2>4. DecideFirst(s) => Return(s) \/ Exit(s, "ready") \/ Kick \/ Merge \/ Again
      <3> SUFFICES ASSUME DecideFirst(s)
                   PROVE  Return(s) \/ Exit(s, "ready") \/ Kick \/ Merge \/ Again
        OBVIOUS
      <3>1. \/ GoTo(s, "kick") /\ DraftChecksWaiting(r) /\ ~r.kicked
            \/ Become(s, q1) \/ Conclude(s)
        BY <2>1 DEF DecideFirst, q1
      <3>2. QED BY <3>1, <2>2, <2>3, <2>a DEF Kick
    <2>5. DecideWaiting(s) => Return(s) \/ Exit(s, "ready") \/ Kick \/ Merge \/ Again
      <3> SUFFICES ASSUME DecideWaiting(s)
                   PROVE  Return(s) \/ Exit(s, "ready") \/ Kick \/ Merge \/ Again
        OBVIOUS
      <3>1. \/ GoTo(s, "kick") /\ DraftChecksWaiting(r) /\ ~r.kicked
            \/ Become(s, q2) /\ r.waiting
            \/ Conclude(s) \/ Return(s)
        BY <2>1 DEF DecideWaiting, q2
      <3>2. QED BY <3>1, <2>2, <2>3, <2>a DEF Kick
    <2>6. CASE Return(s) \/ Exit(s, "ready")
      BY <2>6, <1>j DEF Exits
    <2>7. CASE Kick \/ Merge
      <3>1. /\ run'[s].seen = r.seen /\ run'[s].kicked = r.kicked /\ run'[s].at = r.at
            /\ \/ run'[s].pc = "kick" /\ Gates \ {"ci"} \subseteq r.seen /\ ~r.kicked
               \/ run'[s].pc = "merge" /\ r.seen = Gates
        BY <2>7, <1>r DEF GoTo, Become, RunState, Kick, Merge
      <3>2. QED BY <3>1, <2>1, <1>t DEF RecordOK, At, Polling, Reading
    <2>8. CASE Again
      BY <2>8, <1>t DEF RecordOK, At, Polling, Reading, Again
    <2>9. QED BY <1>6, <2>4, <2>5, <2>6, <2>7, <2>8
  <1>7. QED BY <1>1, <1>4, <1>5, <1>6 DEF Poll

\* Outside a poll the record claims nothing but the one activation.
LEMMA OtherRecord ==
    ASSUME TypeOK, Track, NEW s \in Session, CommandStep(s), ~Poll(s), RecordOK(s)
    PROVE  RecordOK(s)'
  <1>r. run[s] \in RunState /\ run \in [Session -> RunState]
    BY DEF TypeOK
  <1>b. \A q : Become(s, q) => run'[s] = q
    BY <1>r DEF Become
  <1>i. ASSUME \/ run'[s].pc \notin Reading \cup {"kick", "merge"}
               \/ run'[s].pc = "pr" /\ (run'[s].waiting \/ ~run'[s].kicked)
        PROVE RecordOK(s)'
    <2>1. held'[s] = Gates => run'[s].at \in accepted'
      BY TrackGrows
    <2>2. ~Polling(run'[s])
      BY <1>i DEF Polling
    <2>3. QED BY <1>i, <2>1, <2>2 DEF RecordOK, At, Polling, Reading
  <1>1. CASE Return(s) \/ Exit(s, "ready") \/ Exit(s, "left")
    BY <1>1, <1>b, <1>i DEF Return, Exit, Idle, Reading
  <1>2. CASE \E l \in {"look", "queue", "relook", "cleanup", "remove", "create"} : GoTo(s, l)
    <2>1. run'[s].pc \in {"look", "queue", "relook", "cleanup", "remove", "create"}
      BY <1>2, <1>b, <1>r DEF GoTo, RunState
    <2>2. QED BY <2>1, <1>i DEF Reading
  <1>3. CASE CheckStart(s) \/ PrLookup(s)
    <2>1. \/ \E h, d : Become(s, [Idle EXCEPT !.pc = "check", !.cmd = "check",
                                              !.at = h, !.draft = d])
          \/ \E l, f : Become(s, [Idle EXCEPT !.pc = "push", !.cmd = "pr",
                                              !.lease = l, !.fresh = f])
      BY <1>3 DEF CheckStart, PrLookup
    <2>2. run'[s].pc \in {"check", "push"}
      BY <2>1, <1>b DEF Idle
    <2>3. QED BY <2>2, <1>i DEF Reading
  <1>4. CASE Begin(s)
    <2>1. \E c, w, h, l : Become(s, [Idle EXCEPT !.pc = "pr", !.cmd = c, !.wait = w,
                                                 !.at = h, !.late = l])
      BY <1>4 DEF Begin
    <2>2. run'[s].pc = "pr" /\ ~run'[s].kicked
      BY <2>1, <1>b DEF Idle
    <2>3. QED BY <2>2, <1>i
  <1>5. CASE MarkReady(s)
    <2>1. CASE Become(s, [run[s] EXCEPT !.pc = "pr", !.waiting = TRUE,
                                        !.kicked = TRUE, !.seen = {}])
      BY <2>1, <1>b, <1>i, <1>r DEF RunState
    <2>2. QED BY <1>1, <1>5, <2>1 DEF MarkReady
  <1>6. CASE RequestMerge(s) \/ ReadQueue(s)
    <2>1. CASE \E w \in BOOLEAN :
                 Become(s, [run[s] EXCEPT !.pc = "look", !.waiting = w])
      BY <2>1, <1>b, <1>i, <1>r DEF RunState, Reading
    <2>2. QED BY <1>1, <1>2, <1>6, <2>1 DEF RequestMerge, ReadQueue
  <1>7. CASE Deadline(s)
    <2>1. run'[s] = [run[s] EXCEPT !.late = TRUE]
      BY <1>7, <1>b DEF Deadline
    <2>2. QED BY <2>1, <1>r, OthersKeep DEF RunState
  <1>8. CASE CheckFinish(s) \/ Push(s) \/ CreateDraft(s) \/ CloneGone(s) \/ Abort(s)
    BY <1>1, <1>2, <1>8 DEF CheckFinish, Push, CreateDraft, CloneGone, Abort
  <1>9. CASE Look(s) \/ Relook(s) \/ DeleteRemoteBranch(s) \/ RemoveClone(s)
    BY <1>1, <1>2, <1>9 DEF Look, Relook, MergedSha, DeleteRemoteBranch, RemoveClone
  <1>10. QED BY <1>3, <1>4, <1>5, <1>6, <1>7, <1>8, <1>9 DEF CommandStep, Continue, Land

\* A command changes its own record only.
LEMMA OwnRecordOnly ==
    ASSUME NEW s \in Session, CommandStep(s), run \in [Session -> RunState],
           NEW t \in Session, t # s
    PROVE  run'[t] = run[t]
  <1>1. ASSUME NEW q, Become(s, q) PROVE run'[t] = run[t]
    BY <1>1 DEF Become
  <1>2. CASE Poll(s)
    BY <1>1, <1>2 DEF Poll, ReadPr, ReadReview, ReadFindings, ReadChecks, ReadReceipt,
         DecideFirst, DecideWaiting, Conclude, ReadGate, Return, Exit, GoTo
  <1>3. CASE Land(s)
    BY <1>1, <1>3 DEF Land, MarkReady, RequestMerge, Look, ReadQueue, Relook, MergedSha,
         DeleteRemoteBranch, RemoveClone, Return, Exit, GoTo
  <1>4. CASE CheckStart(s) \/ CheckFinish(s) \/ PrLookup(s) \/ Push(s) \/ CreateDraft(s)
             \/ Begin(s) \/ CloneGone(s) \/ Abort(s) \/ Deadline(s)
    BY <1>1, <1>4 DEF CheckStart, CheckFinish, PrLookup, Push, CreateDraft, Begin,
         CloneGone, Abort, Deadline, Return, GoTo
  <1>5. QED BY <1>2, <1>3, <1>4 DEF CommandStep, Continue

\* A command forgets an activation only by ending.
LEMMA KickedKept ==
    ASSUME run \in [Session -> RunState], NEW s \in Session, CommandStep(s),
           run[s].pc # "idle", run'[s].pc # "idle"
    PROVE  /\ run[s].kicked => run'[s].kicked
           /\ At(s, "kick") /\ run'[s].pc = "pr" => run'[s].kicked
  <1>r. run[s] \in RunState
    OBVIOUS
  <1>b. \A q : Become(s, q) => run'[s] = q
    BY DEF Become
  <1>e. \A code : ~Return(s) /\ ~Exit(s, code)
    BY <1>b DEF Return, Exit, Idle
  <1>g. \A label : GoTo(s, label) => run'[s].kicked = run[s].kicked /\ run'[s].pc = label
    BY <1>b, <1>r DEF GoTo, RunState
  <1>1. CASE Poll(s)
    <2>1. ~At(s, "kick")
      BY <1>1 DEF Poll, ReadPr, ReadReview, ReadFindings, ReadChecks, ReadReceipt,
             DecideFirst, DecideWaiting, At
    <2>2. run'[s].kicked = run[s].kicked
      <3>1. CASE ReadPr(s)
        BY <3>1, <1>b, <1>e, <1>g, <1>r DEF ReadPr, RunState
      <3>2. CASE ReadReview(s) \/ ReadFindings(s) \/ ReadReceipt(s)
        BY <3>2, <1>b, <1>r DEF ReadReview, ReadFindings, ReadReceipt, ReadGate, RunState
      <3>3. CASE ReadChecks(s)
        BY <3>3, <1>b, <1>r DEF ReadChecks, RunState
      <3>4. CASE DecideFirst(s)
        BY <3>4, <1>b, <1>e, <1>g, <1>r DEF DecideFirst, Conclude, RunState
      <3>5. CASE DecideWaiting(s)
        BY <3>5, <1>b, <1>e, <1>g, <1>r DEF DecideWaiting, Conclude, RunState
      <3>6. QED BY <1>1, <3>1, <3>2, <3>3, <3>4, <3>5 DEF Poll
    <2>3. QED BY <2>1, <2>2
  <1>2. CASE MarkReady(s)
    BY <1>2, <1>b, <1>e, <1>r DEF MarkReady, RunState
  <1>3. CASE RequestMerge(s)
    BY <1>3, <1>b, <1>e, <1>r DEF RequestMerge, At, RunState
  <1>4. CASE ReadQueue(s)
    BY <1>4, <1>b, <1>e, <1>g, <1>r DEF ReadQueue, At, RunState
  <1>5. CASE Look(s) \/ Relook(s) \/ DeleteRemoteBranch(s) \/ RemoveClone(s)
    BY <1>5, <1>e, <1>g DEF Look, Relook, MergedSha, DeleteRemoteBranch, RemoveClone
  <1>6. CASE CheckFinish(s) \/ Push(s) \/ CreateDraft(s) \/ CloneGone(s) \/ Abort(s)
    BY <1>6, <1>e, <1>g DEF CheckFinish, Push, CreateDraft, CloneGone, Abort
  <1>7. CASE Deadline(s)
    BY <1>7, <1>b, <1>r DEF Deadline, At, RunState
  <1>8. CASE CheckStart(s) \/ PrLookup(s) \/ Begin(s)
    BY <1>8 DEF CheckStart, PrLookup, Begin, At
  <1>9. QED BY <1>1, <1>2, <1>3, <1>4, <1>5, <1>6, <1>7, <1>8
          DEF CommandStep, Continue, Land

LEMMA MarkedStep ==
    ASSUME TypeOK, MarkedInv, Next
    PROVE  MarkedInv'
  <1> SUFFICES ASSUME NEW t \in Session, t \in marked'
               PROVE  run'[t].kicked /\ run'[t].pc # "idle"
    BY DEF MarkedInv
  <1>1. /\ run'[t].pc # "idle"
        /\ t \in marked \/ (At(t, "kick") /\ run'[t].pc = "pr")
    BY DEF Next, Track
  <1>2. run[t].pc # "idle" /\ (t \in marked => run[t].kicked)
    BY <1>1 DEF MarkedInv, At
  <1>3. CASE run'[t] = run[t]
    BY <1>1, <1>2, <1>3 DEF At
  <1>4. CASE CommandStep(t)
    BY <1>1, <1>2, <1>4, KickedKept DEF TypeOK
  <1>5. run'[t] = run[t] \/ CommandStep(t)
    <2>1. CASE Moves
      BY <2>1, MovesType DEF Moves, TypeOK, StateOK
    <2>2. ASSUME NEW s \in Session, CommandStep(s) PROVE run'[t] = run[t] \/ CommandStep(t)
      BY <2>2, OwnRecordOnly DEF TypeOK
    <2>3. QED BY <2>1, <2>2 DEF Next, Step
  <1>6. QED BY <1>3, <1>4, <1>5

\* The PR stays at an accepted head from the request to the landing.
LEMMA LandedStep ==
    ASSUME TypeOK, QueuedOpen, LandedGated, \A t \in Session : RecordOK(t), Next
    PROVE  QueuedOpen' /\ LandedGated'
  <1>1. Track /\ Step
    BY DEF Next
  <1>2. accepted \subseteq accepted'
    BY <1>1, Zenon DEF Track
  <1>3. ASSUME UNCHANGED <<pr, queued>> PROVE QueuedOpen' /\ LandedGated'
    BY <1>2, <1>3 DEF QueuedOpen, LandedGated
  <1>4. ASSUME queued' = FALSE, pr'.state = "merged" => pr'.head \in accepted
        PROVE  QueuedOpen' /\ LandedGated'
    BY <1>2, <1>4 DEF QueuedOpen, LandedGated
  <1>p. pr \in PullRequest /\ queued \in BOOLEAN
    BY DEF TypeOK
  <1>5. CASE Moves
    <2>1. CASE Worker \/ BaseMoves \/ \E c \in Commit : Review(c) \/ CheckRun(c)
      BY <1>3, <2>1 DEF Worker, Edit, Discard, Fetch, NewCommit, BaseMoves, Review,
         CheckRun, github
    <2>2. CASE \E c \in Commit : OtherPush(c)
      BY <1>4, <2>2, <1>p DEF OtherPush, LandedGated, PullRequest
    <2>3. CASE Withdraw \/ QueueLands
      BY <1>4, <2>3, <1>p DEF Withdraw, QueueLands, LandedGated, PullRequest
    <2>4. QED BY <1>5, <2>1, <2>2, <2>3 DEF Moves, Outside
  <1>6. ASSUME NEW s \in Session, CommandStep(s) PROVE QueuedOpen' /\ LandedGated'
    <2>1. CASE Push(s)
      <3>1. CASE ~UNCHANGED github
        <4>1. /\ pr' = IF pr.state = "open" THEN [pr EXCEPT !.head = head] ELSE pr
              /\ queued' = (queued /\ pr.head = head)
          BY <2>1, <3>1 DEF Push
        <4>2. CASE pr.state = "open"
          <5>1. pr'.state = "open" /\ (queued' => queued /\ pr'.head = pr.head)
            BY <1>p, <4>1, <4>2 DEF PullRequest
          <5>2. QED BY <1>2, <5>1 DEF QueuedOpen, LandedGated
        <4>3. CASE pr.state # "open"
          <5>1. pr' = pr /\ queued' = FALSE
            BY <4>1, <4>3 DEF QueuedOpen
          <5>2. QED BY <1>4, <5>1 DEF LandedGated
        <4>4. QED BY <4>2, <4>3
      <3>2. QED BY <1>3, <3>1 DEF github
    <2>2. CASE CreateDraft(s)
      <3>1. \/ UNCHANGED pr /\ UNCHANGED queued
            \/ pr'.state = "open" /\ pr.state # "open" /\ UNCHANGED queued
        <4>1. \/ UNCHANGED pr
              \/ pr.state # "open"
                 /\ pr' = [state |-> "open", draft |-> TRUE, head |-> remote]
          BY <2>2, Zenon DEF CreateDraft
        <4>2. UNCHANGED queued
          BY <2>2, Zenon DEF CreateDraft
        <4>3. [state |-> "open", draft |-> TRUE, head |-> remote].state = "open"
          OBVIOUS
        <4>4. QED BY <4>1, <4>2, <4>3, Zenon
      <3>2. CASE UNCHANGED pr /\ UNCHANGED queued
        BY <1>3, <3>2
      <3>3. CASE pr'.state = "open" /\ pr.state # "open" /\ UNCHANGED queued
        <4>1. queued' = FALSE
          BY <1>p, <3>3 DEF QueuedOpen
        <4>2. QED BY <1>4, <3>3, <4>1
      <3>4. QED BY <3>1, <3>2, <3>3
    <2>3. CASE MarkReady(s)
      BY <1>2, <1>3, <1>p, <2>3 DEF MarkReady, QueuedOpen, LandedGated, PullRequest
    <2>4. CASE RequestMerge(s)
      <3>1. run[s].at \in accepted
        <4>1. At(s, "merge") /\ Polling(run[s])
          BY <2>4 DEF RequestMerge, Polling, At
        <4>2. held[s] = Gates
          BY <4>1 DEF RecordOK, TypeOK
        <4>3. QED BY <4>2 DEF RecordOK
      <3>2. CASE MergePossible(s)
        <4>1. pr'.head = run[s].at
          BY <2>4, <3>2, <1>p DEF RequestMerge, MergePossible, PullRequest
        <4>2. queued' => pr'.state = "open" /\ Queue
          BY <2>4, <3>2 DEF RequestMerge, MergePossible, QueuedOpen
        <4>3. QED BY <1>2, <3>1, <4>1, <4>2 DEF QueuedOpen, LandedGated
      <3>3. CASE ~MergePossible(s)
        BY <1>3, <2>4, <3>3 DEF RequestMerge
      <3>4. QED BY <3>2, <3>3
    <2>5. CASE Poll(s)
      BY <1>3, <2>5 DEF Poll, ReadPr, ReadReview, ReadFindings, ReadChecks, ReadReceipt,
         DecideFirst, DecideWaiting, github
    <2>6. CASE \/ CheckStart(s) \/ CheckFinish(s) \/ PrLookup(s) \/ Begin(s)
               \/ CloneGone(s) \/ Abort(s) \/ Deadline(s) \/ Look(s) \/ ReadQueue(s)
               \/ Relook(s) \/ DeleteRemoteBranch(s) \/ RemoveClone(s)
      BY <1>3, <2>6 DEF CheckStart, CheckFinish, PrLookup, Begin, CloneGone, Abort,
         Deadline, Look, ReadQueue, Relook, DeleteRemoteBranch, RemoveClone, github
    <2>7. QED BY <1>6, <2>1, <2>2, <2>3, <2>4, <2>5, <2>6 DEF CommandStep, Continue, Land
  <1>7. QED BY <1>1, <1>5, <1>6 DEF Step

LEMMA InvInit == Init => DeliveryInv
  <1> SUFFICES ASSUME Init PROVE DeliveryInv
    OBVIOUS
  <1>1. Idle \in RunState /\ Captured(Idle)
    BY IdleType DEF Exits, Captured, Idle, Reading
  <1>2. run \in [Session -> RunState] /\ AtCommit
    BY <1>1 DEF Init, AtCommit, Captured
  <1>3. StateOK
    BY DEF Init, StateOK, NoReceipt, Receipt, PullRequest, CiState
  <1>4. moves \in 0..MaxMoves /\ held \in [Session -> SUBSET Gates]
        /\ accepted \subseteq Commit \cup {NoCommit} /\ marked \subseteq Session
    BY MovesAssumption DEF Init
  <1>5. TypeOK
    BY <1>2, <1>3, <1>4 DEF TypeOK, StateOK
  <1>6. \A s \in Session : RecordOK(s)
    BY DEF Init, RecordOK, At, Idle, Polling, Reading, Gates
  <1>7. MarkedInv /\ QueuedOpen /\ LandedGated
    BY DEF Init, MarkedInv, QueuedOpen, LandedGated
  <1>8. QED BY <1>2, <1>5, <1>6, <1>7 DEF DeliveryInv

LEMMA InvStep == DeliveryInv /\ [Next]_vars => DeliveryInv'
  <1> SUFFICES ASSUME DeliveryInv, [Next]_vars PROVE DeliveryInv'
    OBVIOUS
  <1>1. TypeOK' /\ AtCommit'
    BY TypeStep DEF DeliveryInv
  <1>2. CASE Next
    <2>1. Track /\ run \in [Session -> RunState]
      BY <1>2 DEF Next, DeliveryInv, TypeOK
    <2>2. ASSUME NEW t \in Session, run'[t] = run[t] PROVE RecordOK(t)'
      BY <2>1, <2>2, OthersKeep DEF DeliveryInv
    <2>3. CASE Moves
      <3>1. run' = run
        BY <2>3, MovesType DEF Moves, DeliveryInv, TypeOK, StateOK
      <3>2. QED BY <1>1, <1>2, <2>2, <3>1, MarkedStep, LandedStep DEF DeliveryInv
    <2>4. ASSUME NEW s \in Session, CommandStep(s) PROVE DeliveryInv'
      <3>1. RecordOK(s)'
        BY <2>1, <2>4, PollRecord, OtherRecord DEF DeliveryInv
      <3>2. \A t \in Session : t # s => run'[t] = run[t]
        BY <2>1, <2>4, OwnRecordOnly
      <3>3. QED BY <1>1, <1>2, <2>2, <3>1, <3>2, MarkedStep, LandedStep DEF DeliveryInv
    <2>5. QED BY <1>2, <2>3, <2>4 DEF Next, Step
  <1>3. CASE UNCHANGED vars
    BY <1>1, <1>3 DEF vars, local, github, people, DeliveryInv, RecordOK, MarkedInv,
       QueuedOpen, LandedGated, At, Polling
  <1>4. QED BY <1>2, <1>3

\* Every state of every run is well typed, whatever the commits, the sessions
\* and the bounds (the commands of src/loopzero/cli.py and their data).
THEOREM TypeCorrect == Spec => []TypeOK
  <1>1. DeliveryInv => TypeOK
    BY DEF DeliveryInv
  <1>2. QED BY InvInit, InvStep, <1>1, PTL DEF Spec

\* However many sessions, commits and people move, GitHub lands or queues only
\* a head for which one poll of one command saw every gate true.
THEOREM LandedGatedHolds == Spec => []LandedGated
  <1>1. DeliveryInv => LandedGated
    BY DEF DeliveryInv
  <1>2. QED BY InvInit, InvStep, <1>1, PTL DEF Spec

\* No command marks a draft ready before one poll saw every gate but the
\* required check true on its head.
THEOREM ActivationGatedHolds == Spec => []ActivationGated
  <1>1. DeliveryInv => ActivationGated
    BY DEF DeliveryInv, RecordOK, ActivationGated, At, Polling
  <1>2. QED BY InvInit, InvStep, <1>1, PTL DEF Spec

\* No command marks its pull request ready twice.
THEOREM OneActivationHolds == Spec => []OneActivation
  <1>1. DeliveryInv => OneActivation
    BY DEF DeliveryInv, RecordOK, MarkedInv, OneActivation
  <1>2. QED BY InvInit, InvStep, <1>1, PTL DEF Spec

-----------------------------------------------------------------------------
(* What a step may never do.  These follow from where the commands are.    *)

\* A command that is about to delete the branch or the clone has captured the
\* head GitHub has merged.
CleanupInv ==
    \A s \in Session : run[s].pc \in {"cleanup", "remove"} =>
        pr.state = "merged" /\ pr.head = run[s].at

\* The clone has the commit a forced push is allowed to replace.
LeaseInv ==
    \A s \in Session : At(s, "push") /\ run[s].lease # NoCommit => run[s].lease \in known

\* HEAD and the branch are commits, and a commit is its own ancestor.
HistoryInv ==
    /\ head \in Made /\ remote \in Made \cup {NoCommit}
    /\ \A c \in Made : c \in anc[c]

\* A command that waits with its draft activated decides before its deadline.
InTime(r) ==
    r.pc = "decide" /\ r.waiting /\ r.kicked /\ r.wait = "positive" => ~r.late

\* The only ways to report, to push with a lease, and to clean up.
LEMMA PlaceStep ==
    ASSUME TypeOK, NEW s \in Session, CommandStep(s)
    PROVE  /\ run'[s].exit = "ready" /\ run[s].exit # "ready" =>
                run[s].pc \in {"decide", "kick"} /\ Ready(run[s]) /\ InTime(run[s])
           /\ run'[s].exit = "left" /\ run[s].exit # "left" => pr.state = "open"
           /\ run'[s].pc \in {"cleanup", "remove"} =>
                /\ UNCHANGED pr /\ run'[s].at = run[s].at
                /\ \/ pr.state = "merged" /\ pr.head = run[s].at
                   \/ run[s].pc \in {"cleanup", "remove"}
           /\ run'[s].pc = "push" /\ run'[s].lease # NoCommit =>
                \/ run'[s].lease \in known
                \/ At(s, "push") /\ run'[s].lease = run[s].lease
  <1> DEFINE Reports == /\ run'[s].exit = "ready" /\ run[s].exit # "ready" =>
                             /\ run[s].pc \in {"decide", "kick"} /\ Ready(run[s])
                             /\ InTime(run[s])
                        /\ run'[s].exit = "left" /\ run[s].exit # "left" => pr.state = "open"
             Quiet   == run'[s].exit \in {"none", run[s].exit}
             Away    == run'[s].pc \notin {"cleanup", "remove", "push"}
  <1>r. run[s] \in RunState /\ run \in [Session -> RunState]
    BY DEF TypeOK
  <1>b. \A q : Become(s, q) => run'[s] = q
    BY <1>r DEF Become
  <1>q. Quiet => Reports
    OBVIOUS
  <1>e. Return(s) => Quiet /\ Away
    BY <1>b DEF Return, Idle
  <1>x. \A code : Exit(s, code) => run'[s].exit = code /\ Away
    BY <1>b DEF Exit, Idle
  <1>g. \A label : GoTo(s, label) =>
            run'[s].exit = run[s].exit /\ run'[s].pc = label /\ run'[s].at = run[s].at
    BY <1>b, <1>r DEF GoTo, RunState
  <1>1. CASE ReadPr(s) \/ ReadReview(s) \/ ReadFindings(s) \/ ReadChecks(s) \/ ReadReceipt(s)
    <2>1. CASE ReadPr(s)
      <3> DEFINE q == [run[s] EXCEPT !.pc = "review", !.draft = pr.draft,
                         !.seen = Holding(run[s].at) \cap {"open", "current"}]
      <3>1. Return(s) \/ GoTo(s, "relook") \/ Become(s, q)
        BY <2>1 DEF ReadPr
      <3>2. q.pc = "review" /\ q.exit = run[s].exit
        BY <1>r DEF RunState
      <3> HIDE DEF q
      <3>3. Quiet /\ Away
        BY <3>1, <3>2, <1>b, <1>e, <1>g
      <3>4. QED BY <3>3
    <2>2. CASE ReadReview(s) \/ ReadFindings(s) \/ ReadReceipt(s)
      BY <2>2, <1>b, <1>r DEF ReadReview, ReadFindings, ReadReceipt, ReadGate, RunState
    <2>3. CASE ReadChecks(s)
      BY <2>3, <1>b, <1>r DEF ReadChecks, RunState
    <2>4. QED BY <1>1, <2>1, <2>2, <2>3
  <1>2. CASE DecideFirst(s) \/ DecideWaiting(s)
    <2>1. run[s].pc = "decide"
      BY <1>2 DEF DecideFirst, DecideWaiting, At
    <2>2. Conclude(s) /\ (Ready(run[s]) => InTime(run[s])) => Reports /\ Away
      BY <2>1, <1>e, <1>x, <1>g DEF Conclude
    <2>3. CASE DecideFirst(s)
      <3>1. \/ GoTo(s, "kick") \/ Conclude(s)
            \/ Become(s, [run[s] EXCEPT !.pc = "pr", !.waiting = TRUE, !.seen = {}])
        BY <2>3 DEF DecideFirst
      <3>0. InTime(run[s])
        BY <2>3 DEF DecideFirst, InTime
      <3>2. Become(s, [run[s] EXCEPT !.pc = "pr", !.waiting = TRUE, !.seen = {}])
              => Quiet /\ Away
        BY <1>b, <1>r DEF RunState
      <3>3. QED BY <3>0, <3>1, <3>2, <2>2, <1>g
    <2>4. CASE DecideWaiting(s)
      <3>1. \/ GoTo(s, "kick") \/ Return(s)
            \/ Conclude(s) /\ (Ready(run[s]) => InTime(run[s]))
            \/ Become(s, [run[s] EXCEPT !.pc = "pr", !.seen = {}])
        BY <2>4 DEF DecideWaiting, InTime
      <3>2. Become(s, [run[s] EXCEPT !.pc = "pr", !.seen = {}]) => Quiet /\ Away
        BY <1>b, <1>r DEF RunState
      <3>3. QED BY <3>1, <3>2, <2>2, <1>e, <1>g
    <2>5. QED BY <1>2, <2>3, <2>4
  <1>3. CASE MarkReady(s)
    <2>1. run[s].pc = "kick"
      BY <1>3 DEF MarkReady, At
    <2>2. \/ Exit(s, "ready") /\ Ready(run[s])
          \/ Return(s)
          \/ Become(s, [run[s] EXCEPT !.pc = "pr", !.waiting = TRUE, !.kicked = TRUE,
                                      !.seen = {}])
      BY <1>3 DEF MarkReady
    <2>3. Become(s, [run[s] EXCEPT !.pc = "pr", !.waiting = TRUE, !.kicked = TRUE,
                                   !.seen = {}]) => Quiet /\ Away
      BY <1>b, <1>r DEF RunState
    <2>4. InTime(run[s])
      BY <2>1 DEF InTime
    <2>5. QED BY <2>1, <2>2, <2>3, <2>4, <1>e, <1>x
  <1>4. CASE RequestMerge(s) \/ ReadQueue(s)
    <2>1. ASSUME NEW w, Become(s, [run[s] EXCEPT !.pc = "look", !.waiting = w])
          PROVE  Quiet /\ Away
      BY <2>1, <1>b, <1>r DEF RunState
    <2>2. CASE Return(s) \/ GoTo(s, "relook")
      BY <2>2, <1>e, <1>g
    <2>3. QED BY <1>4, <2>1, <2>2 DEF RequestMerge, ReadQueue
  <1>5. CASE Look(s) \/ Relook(s)
    <2>1. UNCHANGED pr
      BY <1>5 DEF Look, Relook, github
    <2>2. \/ Return(s) \/ GoTo(s, "queue")
          \/ GoTo(s, "cleanup") /\ pr.state = "merged" /\ pr.head = run[s].at
          \/ Exit(s, "left") /\ pr.state = "open"
      BY <1>5 DEF Look, Relook, MergedSha
    <2>3. QED BY <2>1, <2>2, <1>e, <1>x, <1>g
  <1>6. CASE DeleteRemoteBranch(s)
    BY <1>6, <1>g DEF DeleteRemoteBranch, At
  <1>7. CASE Deadline(s)
    <2>1. run'[s] = [run[s] EXCEPT !.late = TRUE] /\ UNCHANGED pr
      BY <1>7, <1>b DEF Deadline, github
    <2>2. QED BY <2>1, <1>r DEF RunState, At
  <1>8. CASE PrLookup(s)
    <2>1. PICK lease, fresh :
            /\ lease # NoCommit => lease \in known
            /\ Become(s, [Idle EXCEPT !.pc = "push", !.cmd = "pr", !.lease = lease,
                                      !.fresh = fresh])
      BY <1>8 DEF PrLookup
    <2>2. run'[s].pc = "push" /\ run'[s].exit = "none" /\ run'[s].lease = lease
      BY <2>1, <1>b DEF Idle
    <2>3. QED BY <2>1, <2>2
  <1>9. CASE CheckStart(s) \/ Begin(s)
    <2>1. \/ Become(s, [Idle EXCEPT !.pc = "check", !.cmd = "check", !.at = head,
                                    !.draft = dirty])
          \/ \E c, w, l : Become(s, [Idle EXCEPT !.pc = "pr", !.cmd = c, !.wait = w,
                                                 !.at = head, !.late = l])
      BY <1>9 DEF CheckStart, Begin
    <2>2. Quiet /\ Away
      BY <2>1, <1>b DEF Idle
    <2>3. QED BY <2>2
  <1>10. CASE CheckFinish(s) \/ Push(s) \/ CreateDraft(s) \/ CloneGone(s) \/ Abort(s)
              \/ RemoveClone(s)
    <2>1. Return(s) \/ GoTo(s, "create")
      BY <1>10 DEF CheckFinish, Push, CreateDraft, CloneGone, Abort, RemoveClone
    <2>2. QED BY <2>1, <1>e, <1>g
  <1>11. QED BY <1>1, <1>2, <1>3, <1>4, <1>5, <1>6, <1>7, <1>8, <1>9, <1>10
           DEF CommandStep, Continue, Poll, Land

\* What a step of another command, or of anyone else, leaves of this one.
LEMMA StepOf ==
    ASSUME TypeOK, Next, NEW s \in Session
    PROVE  run'[s] = run[s] \/ CommandStep(s)
  <1>1. CASE Moves
    BY <1>1, MovesType DEF Moves, TypeOK, StateOK
  <1>2. ASSUME NEW t \in Session, CommandStep(t)
        PROVE  run'[s] = run[s] \/ CommandStep(s)
    BY <1>2, OwnRecordOnly DEF TypeOK
  <1>3. QED BY <1>1, <1>2 DEF Next, Step

\* What the clone has fetched it keeps; commits once made stay as they are.
LEMMA CommitsKept ==
    ASSUME TypeOK, Next
    PROVE  /\ known \subseteq known'
           /\ \A c \in Made : c \in Made' /\ anc'[c] = anc[c]
  <1>a. anc \in [Commit -> SUBSET Commit]
    BY DEF TypeOK
  <1>1. ASSUME UNCHANGED <<known, anc>>
        PROVE  known \subseteq known' /\ \A c \in Made : c \in Made' /\ anc'[c] = anc[c]
    BY <1>1 DEF Made
  <1>2. CASE Moves
    <2>1. CASE Edit \/ Discard \/ BaseMoves \/ Withdraw \/ QueueLands
               \/ \E c \in Commit : Review(c) \/ CheckRun(c)
      BY <1>1, <2>1 DEF Edit, Discard, BaseMoves, Withdraw, QueueLands, Review, CheckRun,
         local
    <2>2. CASE Fetch
      BY <2>2 DEF Fetch, Made
    <2>3. ASSUME NEW c \in Commit, NEW S, c \notin Made, known \subseteq known',
                 anc' = [anc EXCEPT ![c] = S]
          PROVE  known \subseteq known' /\ \A d \in Made : d \in Made' /\ anc'[d] = anc[d]
      BY <1>a, <2>3 DEF Made
    <2>4. CASE \E c \in Commit : NewCommit(c)
      BY <2>3, <2>4 DEF NewCommit
    <2>5. CASE \E c \in Commit : OtherPush(c)
      BY <2>3, <2>5 DEF OtherPush, local
    <2>6. QED BY <1>2, <2>1, <2>2, <2>4, <2>5 DEF Moves, Worker, Outside
  <1>3. ASSUME NEW s \in Session, CommandStep(s) PROVE UNCHANGED <<known, anc>>
    <2>1. CASE Poll(s)
      BY <2>1 DEF Poll, ReadPr, ReadReview, ReadFindings, ReadChecks, ReadReceipt,
         DecideFirst, DecideWaiting, local
    <2>2. CASE Land(s)
      BY <2>2 DEF Land, MarkReady, RequestMerge, Look, ReadQueue, Relook,
         DeleteRemoteBranch, RemoveClone, local
    <2>3. CASE CheckStart(s) \/ CheckFinish(s) \/ PrLookup(s) \/ Push(s) \/ CreateDraft(s)
               \/ Begin(s) \/ CloneGone(s) \/ Abort(s) \/ Deadline(s)
      BY <2>3 DEF CheckStart, CheckFinish, PrLookup, Push, CreateDraft, Begin, CloneGone,
         Abort, Deadline, local
    <2>4. QED BY <1>3, <2>1, <2>2, <2>3 DEF CommandStep, Continue
  <1>4. QED BY <1>1, <1>2, <1>3 DEF Next, Step

\* HEAD and the branch only ever come to a commit that is made.
LEMMA HistoryStep ==
    ASSUME TypeOK, HistoryInv, Next
    PROVE  HistoryInv'
  <1>a. anc \in [Commit -> SUBSET Commit] /\ NoCommit \notin Made
    BY CommitAssumption DEF TypeOK, Made
  <1>k. \A c \in Made : c \in Made' /\ anc'[c] = anc[c]
    BY CommitsKept
  <1>1. ASSUME anc' = anc, head' \in {head, remote} \cap Made, remote' \in {head, remote, NoCommit}
        PROVE  HistoryInv'
    BY <1>1 DEF HistoryInv, Made
  <1>2. ASSUME NEW c \in Commit, NEW S, c \notin Made, anc' = [anc EXCEPT ![c] = S \cup {c}],
               head' \in {head, c}, remote' \in {remote, c}
        PROVE  HistoryInv'
    <2>1. Made' = Made \cup {c} /\ c \in anc'[c]
      BY <1>a, <1>2 DEF Made
    <2>2. QED BY <1>2, <1>k, <2>1 DEF HistoryInv
  <1>3. CASE Moves
    <2>1. CASE Edit \/ Discard \/ BaseMoves \/ Withdraw \/ QueueLands
               \/ \E c \in Commit : Review(c) \/ CheckRun(c)
      BY <1>1, <2>1 DEF Edit, Discard, BaseMoves, Withdraw, QueueLands, Review, CheckRun,
         local, github, HistoryInv
    <2>2. CASE Fetch
      BY <1>1, <2>2 DEF Fetch, github, HistoryInv
    <2>3. CASE \E c \in Commit : NewCommit(c)
      BY <1>2, <2>3 DEF NewCommit, github
    <2>4. CASE \E c \in Commit : OtherPush(c)
      BY <1>2, <2>4 DEF OtherPush, local
    <2>5. QED BY <1>3, <2>1, <2>2, <2>3, <2>4 DEF Moves, Worker, Outside
  <1>4. ASSUME NEW s \in Session, CommandStep(s) PROVE HistoryInv'
    <2>0. head \in {head, remote} \cap Made
      BY DEF HistoryInv
    <2>1. CASE Poll(s)
      BY <1>1, <2>0, <2>1 DEF Poll, ReadPr, ReadReview, ReadFindings, ReadChecks,
         ReadReceipt, DecideFirst, DecideWaiting, local, github
    <2>2. CASE Land(s)
      BY <1>1, <2>0, <2>2 DEF Land, MarkReady, RequestMerge, Look, ReadQueue, Relook,
         DeleteRemoteBranch, RemoveClone, local, github
    <2>3. CASE CheckStart(s) \/ CheckFinish(s) \/ PrLookup(s) \/ Push(s) \/ CreateDraft(s)
               \/ Begin(s) \/ CloneGone(s) \/ Abort(s) \/ Deadline(s)
      BY <1>1, <2>0, <2>3 DEF CheckStart, CheckFinish, PrLookup, Push, CreateDraft, Begin,
         CloneGone, Abort, Deadline, local, github
    <2>4. QED BY <1>4, <2>1, <2>2, <2>3 DEF CommandStep, Continue
  <1>5. QED BY <1>3, <1>4 DEF Next, Step

LEMMA LeaseStep ==
    ASSUME TypeOK, LeaseInv, Next
    PROVE  LeaseInv'
  <1> SUFFICES ASSUME NEW s \in Session, run'[s].pc = "push", run'[s].lease # NoCommit
               PROVE  run'[s].lease \in known'
    BY DEF LeaseInv, At
  <1>1. known \subseteq known'
    BY CommitsKept
  <1>2. CASE run'[s] = run[s]
    BY <1>1, <1>2 DEF LeaseInv, At
  <1>3. CASE CommandStep(s)
    BY <1>1, <1>3, PlaceStep DEF LeaseInv
  <1>4. QED BY <1>2, <1>3, StepOf

-----------------------------------------------------------------------------
\* DeliveryInv with what the action properties need besides.
ActionInv == DeliveryInv /\ HistoryInv /\ LeaseInv

LEMMA ActionInvInit == Init => ActionInv
  <1> SUFFICES ASSUME Init PROVE ActionInv
    OBVIOUS
  <1>1. HistoryInv
    BY DEF Init, HistoryInv, Made
  <1>2. LeaseInv
    BY DEF Init, LeaseInv, At, Idle
  <1>3. QED BY <1>1, <1>2, InvInit DEF ActionInv

LEMMA ActionInvStep == ActionInv /\ [Next]_vars => ActionInv'
  <1> SUFFICES ASSUME ActionInv, [Next]_vars PROVE ActionInv'
    OBVIOUS
  <1>1. DeliveryInv' /\ TypeOK
    BY InvStep DEF ActionInv, DeliveryInv
  <1>2. CASE Next
    BY <1>1, <1>2, HistoryStep, LeaseStep DEF ActionInv
  <1>3. CASE UNCHANGED vars
    BY <1>1, <1>3 DEF vars, local, github, people, ActionInv, HistoryInv, LeaseInv, Made, At
  <1>4. QED BY <1>2, <1>3

\* `ready` exits 0 only on the strength of a poll in which all six gates held, and
\* never of one that ended after the deadline of a command that had activated the
\* draft, for any number of sessions and outside moves (cmd_ready,
\* _wait_for_checks).
THEOREM ReadyMeansGatedHolds == Spec => ReadyMeansGated
  <1> DEFINE A == \A s \in Session : run'[s].exit = "ready" /\ run[s].exit # "ready" =>
                    /\ held[s] = Gates
                    /\ ~(s \in marked /\ run[s].wait = "positive" /\ run[s].late)
  <1>1. DeliveryInv /\ [Next]_vars => [A]_vars
    <2> SUFFICES ASSUME DeliveryInv, Next, NEW s \in Session,
                        run'[s].exit = "ready", run[s].exit # "ready"
                 PROVE  /\ held[s] = Gates
                        /\ ~(s \in marked /\ run[s].wait = "positive" /\ run[s].late)
      OBVIOUS
    <2>1. TypeOK /\ RecordOK(s)
      BY DEF DeliveryInv
    <2>2. run[s].pc \in {"decide", "kick"} /\ Ready(run[s]) /\ InTime(run[s])
      BY <2>1, PlaceStep, StepOf
    <2>3. Polling(run[s])
      BY <2>2 DEF Polling, Reading
    <2>4. held[s] \subseteq Gates /\ run[s].seen = Gates
      BY <2>1, <2>2 DEF TypeOK, Ready
    <2>5. s \in marked => run[s].kicked
      BY DEF DeliveryInv, MarkedInv
    <2>6. run[s].kicked => run[s].pc = "decide" /\ run[s].waiting
      BY <2>1, <2>2 DEF RecordOK, At, Reading
    <2>7. ~(s \in marked /\ run[s].wait = "positive" /\ run[s].late)
      BY <2>2, <2>5, <2>6 DEF InTime
    <2>8. QED BY <2>1, <2>3, <2>4, <2>7 DEF RecordOK
  <1>2. QED BY InvInit, InvStep, <1>1, PTL DEF Spec, ReadyMeansGated

\* A command that says the PR left the queue unmerged says so of a PR GitHub has
\* not landed, with any number of waiters (github.merge, _wait_for_merge).
THEOREM LeftMeansUnmergedHolds == Spec => LeftMeansUnmerged
  <1> DEFINE A == \A s \in Session : run'[s].exit = "left" /\ run[s].exit # "left"
                                       => pr.state # "merged"
  <1>1. DeliveryInv /\ [Next]_vars => [A]_vars
    <2> SUFFICES ASSUME DeliveryInv, Next, NEW s \in Session,
                        run'[s].exit = "left", run[s].exit # "left"
                 PROVE  pr.state # "merged"
      OBVIOUS
    <2>1. TypeOK
      BY DEF DeliveryInv
    <2>2. QED BY <2>1, PlaceStep, StepOf
  <1>2. QED BY InvInit, InvStep, <1>1, PTL DEF Spec, LeftMeansUnmerged

\* The lease of a forced push is a commit the clone has, and a plain push only
\* adds, so no push by any session drops a commit it did not know (cmd_pr).
THEOREM NoForeignCommitLostHolds == Spec => NoForeignCommitLost
  <1> DEFINE A == (remote # NoCommit /\ remote' # NoCommit /\ remote \notin anc'[remote'])
                    => remote \in known
  <1>1. ActionInv /\ [Next]_vars => [A]_vars
    <2> SUFFICES ASSUME ActionInv, Next, remote # NoCommit, remote' # NoCommit,
                        remote \notin anc'[remote']
                 PROVE  remote \in known
      OBVIOUS
    <2>1. TypeOK /\ HistoryInv /\ LeaseInv
      BY DEF ActionInv, DeliveryInv
    <2>2. remote \in Made /\ remote \in anc'[remote] /\ head \in Made /\ anc'[head] = anc[head]
      BY <2>1, CommitsKept DEF HistoryInv
    <2>3. ~UNCHANGED remote
      BY <2>2
    <2>4. CASE Moves
      <3>1. PICK c \in Commit : OtherPush(c)
        BY <2>3, <2>4 DEF Moves, Worker, Outside, Edit, Discard, Fetch, NewCommit, BaseMoves,
           Withdraw, QueueLands, Review, CheckRun, github
      <3>2. remote' = c /\ anc'[c] = anc[remote] \cup {c}
        BY <2>1, <3>1 DEF OtherPush, TypeOK
      <3>3. QED BY <2>1, <2>2, <3>2 DEF HistoryInv
    <2>5. ASSUME NEW s \in Session, CommandStep(s) PROVE remote \in known
      <3>1. CASE Push(s)
        <4>1. PushAccepted(s) /\ remote' = head /\ At(s, "push")
          BY <2>3, <3>1 DEF Push, github
        <4>2. QED BY <2>1, <2>2, <4>1 DEF PushAccepted, LeaseInv
      <3>2. CASE DeleteRemoteBranch(s)
        BY <2>3, <3>2 DEF DeleteRemoteBranch
      <3>3. CASE Poll(s)
        BY <2>3, <3>3 DEF Poll, ReadPr, ReadReview, ReadFindings, ReadChecks, ReadReceipt,
           DecideFirst, DecideWaiting, github
      <3>4. CASE MarkReady(s) \/ RequestMerge(s) \/ Look(s) \/ ReadQueue(s) \/ Relook(s)
                 \/ RemoveClone(s)
        BY <2>3, <3>4 DEF MarkReady, RequestMerge, Look, ReadQueue, Relook, RemoveClone, github
      <3>5. CASE CheckStart(s) \/ CheckFinish(s) \/ PrLookup(s) \/ CreateDraft(s)
                 \/ Begin(s) \/ CloneGone(s) \/ Abort(s) \/ Deadline(s)
        BY <2>3, <3>5 DEF CheckStart, CheckFinish, PrLookup, CreateDraft, Begin, CloneGone,
           Abort, Deadline, github
      <3>6. QED BY <2>5, <3>1, <3>2, <3>3, <3>4, <3>5 DEF CommandStep, Continue, Land
    <2>6. QED BY <2>4, <2>5 DEF Next, Step
  <1>2. QED BY ActionInvInit, ActionInvStep, <1>1, PTL DEF Spec, NoForeignCommitLost

-----------------------------------------------------------------------------
(* With one session nothing reopens the branch behind a cleanup.           *)

LEMMA CleanupStep ==
    ASSUME TypeOK, QueuedOpen, CleanupInv, Next, \A s, t \in Session : s = t
    PROVE  CleanupInv'
  <1> SUFFICES ASSUME NEW s \in Session, run'[s].pc \in {"cleanup", "remove"}
               PROVE  pr'.state = "merged" /\ pr'.head = run'[s].at
    BY DEF CleanupInv
  <1>1. CASE Moves
    <2>1. run' = run
      BY <1>1, MovesType DEF Moves, TypeOK, StateOK
    <2>2. pr.state = "merged" /\ pr.head = run[s].at
      BY <2>1 DEF CleanupInv
    <2>3. UNCHANGED pr
      BY <1>1, <2>2 DEF Moves, Worker, Outside, Edit, Discard, Fetch, NewCommit, BaseMoves,
         OtherPush, Withdraw, QueueLands, QueuedOpen, Review, CheckRun, github
    <2>4. QED BY <2>1, <2>2, <2>3
  <1>2. CASE \E t \in Session : CommandStep(t)
    <2>1. CommandStep(s)
      BY <1>2
    <2>2. QED BY <2>1, PlaceStep DEF CleanupInv
  <1>3. QED BY <1>1, <1>2 DEF Next, Step

\* In one session, the branch and the clone are deleted only once GitHub has
\* merged the head the command captured, and a dirty clone is kept (cmd_merge,
\* _cleanup).  Of two, one may open a new draft of the branch while the other
\* is about to delete it.
THEOREM CleanupAfterLandingHolds ==
    ASSUME \A s, t \in Session : s = t
    PROVE  Spec => CleanupAfterLanding
  <1> DEFINE Inv == DeliveryInv /\ CleanupInv
             A == /\ remote # NoCommit /\ remote' = NoCommit => pr.state = "merged"
                  /\ clone /\ ~clone' =>
                       /\ pr.state = "merged" /\ ~dirty
                       /\ \E s \in Session : At(s, "remove") /\ run[s].at = pr.head
  <1>1. Init => Inv
    <2>1. Init => CleanupInv
      BY DEF Init, CleanupInv, Idle
    <2>2. QED BY <2>1, InvInit
  <1>2. Inv /\ [Next]_vars => Inv'
    <2> SUFFICES ASSUME Inv, [Next]_vars PROVE CleanupInv'
      BY InvStep
    <2>1. CASE Next
      BY <2>1, CleanupStep DEF DeliveryInv
    <2>2. CASE UNCHANGED vars
      BY <2>2 DEF vars, github, CleanupInv
    <2>3. QED BY <2>1, <2>2
  <1>3. Inv /\ [Next]_vars => [A]_vars
    <2> SUFFICES ASSUME Inv, Next PROVE A
      OBVIOUS
    <2>0. TypeOK /\ CleanupInv /\ NoCommit \notin Commit
      BY CommitAssumption DEF DeliveryInv
    <2>1. CASE Moves
      BY <2>0, <2>1 DEF Moves, Worker, Outside, Edit, Discard, Fetch, NewCommit, BaseMoves,
         OtherPush, Withdraw, QueueLands, Review, CheckRun, local, github
    <2>2. ASSUME NEW s \in Session, CommandStep(s) PROVE A
      <3>1. CASE Push(s)
        <4>1. UNCHANGED clone /\ (remote' = head \/ UNCHANGED remote)
          BY <3>1 DEF Push, local, github
        <4>2. QED BY <2>0, <4>1 DEF TypeOK
      <3>2. CASE DeleteRemoteBranch(s)
        BY <2>0, <3>2 DEF DeleteRemoteBranch, CleanupInv, At, local
      <3>3. CASE RemoveClone(s)
        BY <2>0, <3>3 DEF RemoveClone, CleanupInv, At, github
      <3>4. CASE Poll(s)
        <4>1. UNCHANGED <<clone, remote>>
          BY <3>4 DEF Poll, ReadPr, ReadReview, ReadFindings, ReadChecks, ReadReceipt,
             DecideFirst, DecideWaiting, local, github
        <4>2. QED BY <4>1
      <3>5. CASE MarkReady(s) \/ RequestMerge(s) \/ Look(s) \/ ReadQueue(s) \/ Relook(s)
        <4>1. UNCHANGED <<clone, remote>>
          BY <3>5 DEF MarkReady, RequestMerge, Look, ReadQueue, Relook, local, github
        <4>2. QED BY <4>1
      <3>6. CASE CheckStart(s) \/ CheckFinish(s) \/ PrLookup(s) \/ CreateDraft(s)
                 \/ Begin(s) \/ CloneGone(s) \/ Abort(s) \/ Deadline(s)
        <4>1. UNCHANGED <<clone, remote>>
          BY <3>6 DEF CheckStart, CheckFinish, PrLookup, CreateDraft, Begin, CloneGone,
             Abort, Deadline, local, github
        <4>2. QED BY <4>1
      <3>7. QED BY <2>2, <3>1, <3>2, <3>3, <3>4, <3>5, <3>6 DEF CommandStep, Continue, Land
    <2>3. QED BY <2>1, <2>2 DEF Next, Step
  <1>4. QED BY <1>1, <1>2, <1>3, PTL DEF Spec, CleanupAfterLanding

===============================================================================
