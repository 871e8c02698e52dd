---------------------------- MODULE HostedProofs ----------------------------
(***************************************************************************)
(* Proofs about Hosted: the type invariant, and GreenIsTrue for any number *)
(* of heads and changes, as long as no skipped run displaces a refresh.    *)
(***************************************************************************)
EXTENDS Hosted, TLAPS

\* A refresh is on its way that has read nothing yet.
Asked == notice \/ waiting = "refresh"

\* The head has all a green status claims.
Deserved == head \in reviewed /\ head \notin blocked

\* The last word on the head is true, unless it is about to be revised.
SettledInv ==
    run.pc = "idle" /\ ~Asked /\ ~failed /\ pr = "open" /\ status[head] = "success"
        => Deserved

\* A refresh that works on another head than the PR's is followed by one more,
\* and one that works on the PR's head has taken its green away.
CurrentInv ==
    /\ run.pc \notin {"idle", "read"} /\ ~Asked => run.at = head
    /\ run.pc \notin {"idle", "read", "pending"} /\ ~Asked => status[head] # "success"

\* What the refresh has read so far still holds, or is about to be read again.
ReadInv ==
    /\ run.pc = "threads" /\ run.why = {} /\ ~Asked => head \in reviewed
    /\ run.pc \in {"recheck", "final", "publish"} /\ run.why = {} /\ ~Asked => Deserved

HostedInv == TypeOK /\ SettledInv /\ CurrentInv /\ ReadInv

-----------------------------------------------------------------------------
\* The reasons a read can give.
LEMMA ReasonsNamed == {"state", "review", "finding", "moved"} = Reasons
  BY DEF Reasons

\* A noted read leaves a run of its type (eligibility.evaluate).
LEMMA NoteType ==
    ASSUME run \in Run, NEW reason \in Reasons, NEW holds, NEW next \in Pc,
           Note(reason, holds, next)
    PROVE  run' \in Run
<1>1. run.why \cup {reason} \in SUBSET Reasons
  BY DEF Run
<1>2. CASE holds
  BY <1>1, <1>2 DEF Note, Run
<1>3. CASE ~holds
  BY <1>3 DEF Note, Run
<1>4. QED
  BY <1>2, <1>3

\* Each step keeps the types.
LEMMA TypeStep == TypeOK /\ [Next]_vars => TypeOK'
<1> USE BoundsAssumption DEF TypeOK, Heads, States, Waiting, Pc
<1> SUFFICES ASSUME TypeOK, [Next]_vars PROVE TypeOK'
  OBVIOUS
<1>1. CASE Begin
  <2>1. run' \in Run
    BY <1>1 DEF Begin, Run
  <2>2. QED
    BY <1>1, <2>1 DEF Begin, source
<1>2. CASE ReadPr
  <2>1. run' \in Run
    BY <1>2 DEF ReadPr, Run
  <2>2. QED
    BY <1>2, <2>1 DEF ReadPr, source
<1>3. CASE PublishPending
  BY <1>3 DEF PublishPending, source, GoTo, Run
<1>4. CASE View
  <2>1. run' \in Run
    BY <1>4, NoteType, ReasonsNamed DEF View
  <2>2. QED
    BY <1>4, <2>1 DEF View, source
<1>5. CASE ReadReviews
  <2>1. run' \in Run
    BY <1>5, NoteType, ReasonsNamed DEF ReadReviews
  <2>2. QED
    BY <1>5, <2>1 DEF ReadReviews, source
<1>6. CASE ReadThreads
  <2>1. "finding" \in Reasons /\ "recheck" \in Pc
    BY ReasonsNamed
  <2>2. run' \in Run
    BY <1>6, <2>1, NoteType, Zenon DEF ReadThreads
  <2>3. QED
    BY <1>6, <2>2 DEF ReadThreads, source
<1>7. CASE RecheckHead
  <2>1. {"moved"} \in SUBSET Reasons
    BY ReasonsNamed
  <2>2. run' \in Run
    BY <1>7, <2>1 DEF RecheckHead, Run
  <2>3. QED
    BY <1>7, <2>2 DEF RecheckHead, source
<1>8. CASE Final
  <2>1. run' \in Run
    BY <1>8 DEF Final, GoTo, Run
  <2>2. QED
    BY <1>8, <2>1 DEF Final, source
<1>9. CASE Publish
  <2>1. run' \in Run
    BY <1>9 DEF Publish, GoTo, Run
  <2>2. status' \in [Heads -> States]
    BY <1>9 DEF Publish
  <2>3. QED
    BY <1>9, <2>1, <2>2 DEF Publish, source
<1>10. CASE Fail
  <2>1. run' \in Run
    BY <1>10 DEF Fail, GoTo, Run
  <2>2. QED
    BY <1>10, <2>1 DEF Fail, source
<1>11. CASE PublishFailure
  <2>1. run' \in Run
    BY <1>11 DEF PublishFailure, GoTo, Run
  <2>2. status' \in [Heads -> States]
    BY <1>11 DEF PublishFailure
  <2>3. QED
    BY <1>11, <2>1, <2>2 DEF PublishFailure, source
<1>12. CASE Deliver
  BY <1>12 DEF Deliver, source
<1>13. CASE PushHead
  BY <1>13 DEF PushHead, Move, Enqueue
<1>14. CASE ReviewEvent
  <2>1. reviewed' \subseteq Heads /\ blocked' \subseteq Heads
    BY <1>14 DEF ReviewEvent
  <2>2. QED
    BY <1>14, <2>1 DEF ReviewEvent, Move, Notify
<1>15. CASE Resolve
  BY <1>15 DEF Resolve, Move
<1>16. CASE EditText
  BY <1>16 DEF EditText, Move, Enqueue, source
<1>17. CASE Close
  BY <1>17 DEF Close, Move
<1>18. CASE Reopen
  BY <1>18 DEF Reopen, Move, Enqueue
<1>19. CASE Merge
  BY <1>19 DEF Merge
<1>20. CASE UNCHANGED vars
  BY <1>20 DEF vars, source
<1>21. QED
  BY <1>1, <1>2, <1>3, <1>4, <1>5, <1>6, <1>7, <1>8, <1>9, <1>10, <1>11, <1>12, <1>13,
     <1>14, <1>15, <1>16, <1>17, <1>18, <1>19, <1>20 DEF Next, Refresh, People

\* The initial state has its type.
LEMMA InitTypes == Init => TypeOK
<1> USE BoundsAssumption DEF TypeOK, Heads, States, Waiting, Pc
<1> SUFFICES ASSUME Init PROVE TypeOK
  OBVIOUS
<1>1. run \in Run
  BY DEF Init, Run
<1>2. status \in [Heads -> States]
  BY DEF Init
<1>3. head \in Heads /\ moves \in 0..MaxMoves
  BY DEF Init
<1>4. QED
  BY <1>1, <1>2, <1>3, Zenon DEF Init

\* Every reachable state has its type: one status per head, one run at most in
\* progress and one waiting (hosted._run, eligibility.yml).
THEOREM TypeCorrect == Spec => []TypeOK
  BY InitTypes, TypeStep, PTL DEF Spec

-----------------------------------------------------------------------------
\* Only the run that begins takes a request away: a skipped run never displaces
\* a refresh that waits (eligibility.yml's concurrency group).
LEMMA AskedKept ==
    ASSUME ~Displaces, TypeOK, [Next]_vars, ~Begin, Asked
    PROVE  Asked'
<1> USE DEF Asked, Next, Refresh, People
<1>1. CASE UNCHANGED vars
  BY <1>1 DEF vars
<1>2. CASE Refresh
  BY <1>2 DEF ReadPr, PublishPending, View, ReadReviews, ReadThreads, RecheckHead, Final,
              Publish, Fail, PublishFailure
<1>3. CASE Deliver
  BY <1>3 DEF Deliver
<1>4. CASE PushHead \/ ReviewEvent \/ Reopen
  BY <1>4 DEF PushHead, ReviewEvent, Reopen, Enqueue, Notify
<1>5. CASE Resolve \/ Close \/ Merge
  BY <1>5 DEF Resolve, Close, Merge
<1>6. CASE EditText
  BY <1>6 DEF EditText, Enqueue, Move
<1>7. QED
  BY <1>1, <1>2, <1>3, <1>4, <1>5, <1>6

\* HostedInv holds of the first run, which waits to read the PR.
LEMMA InitHosted == Init => HostedInv
<1> SUFFICES ASSUME Init PROVE SettledInv /\ CurrentInv /\ ReadInv
  BY InitTypes DEF HostedInv
<1>1. run.pc = "idle"
  BY DEF Init
<1>2. Asked
  BY DEF Init, Asked
<1>3. QED
  BY <1>1, <1>2 DEF SettledInv, CurrentInv, ReadInv

\* HostedInv is inductive as long as no skipped run displaces a refresh.
LEMMA HostedStep ==
    ASSUME ~Displaces, HostedInv, [Next]_vars
    PROVE  HostedInv'
<1>1. TypeOK /\ TypeOK'
  BY TypeStep DEF HostedInv
<1>2. SettledInv /\ CurrentInv /\ ReadInv
  BY DEF HostedInv
<1>3. run \in [pc : Pc, at : Heads, why : SUBSET Reasons]
  BY <1>1 DEF TypeOK, Run
<1>4. status \in [Heads -> States] /\ run.at \in Heads /\ head \in Heads
  BY <1>1, <1>3 DEF TypeOK
<1> DEFINE Parts == SettledInv /\ CurrentInv /\ ReadInv
<1> SUFFICES Parts'
  BY <1>1 DEF HostedInv
<1>5. CASE Begin
  <2>1. CASE waiting = "refresh"
    <3>1. run'.pc = "read"
      BY <1>5, <2>1 DEF Begin
    <3>2. QED
      BY <3>1 DEF SettledInv, CurrentInv, ReadInv
  <2>2. CASE waiting # "refresh"
    <3>1. run'.pc = "idle" /\ run.pc = "idle"
      BY <1>5, <2>2 DEF Begin
    <3>2. Asked' <=> Asked
      BY <1>5, <2>2 DEF Begin, Asked
    <3>3. waiting = "skip"
      BY <1>1, <1>5, <2>2 DEF Begin, TypeOK, Waiting
    <3>4. Deserved' <=> Deserved
      BY <1>5 DEF Begin, source, Deserved
    <3>5. (~failed' => ~failed) /\ pr' = pr /\ status' = status /\ head' = head
      BY <1>5, <3>3 DEF Begin, source
    <3>6. QED
      BY <1>2, <3>1, <3>2, <3>4, <3>5 DEF SettledInv, CurrentInv, ReadInv
  <2>3. QED
    BY <2>1, <2>2
<1>6. CASE ~Begin /\ Asked
  <2>1. Asked'
    BY <1>1, <1>6, AskedKept
  <2>2. QED
    BY <2>1 DEF SettledInv, CurrentInv, ReadInv
<1>7. CASE ~Begin /\ ~Asked
  <2> USE <1>2, <1>3, <1>4, <1>7
  <2>1. CASE ReadPr
    <3>1. head' = head /\ pr' = pr /\ (Asked' <=> Asked)
      BY <2>1 DEF ReadPr, source, Asked
    <3>2. run'.at = head
      BY <2>1 DEF ReadPr
    <3>3. run'.pc = "pending" \/ (run'.pc = "idle" /\ pr # "open")
      BY <2>1 DEF ReadPr
    <3>4. QED
      BY <3>1, <3>2, <3>3 DEF SettledInv, CurrentInv, ReadInv
  <2>2. CASE PublishPending
    <3>1. head' = head /\ run.at = head
      BY <2>2 DEF PublishPending, source, CurrentInv
    <3>2. run'.pc = "view" /\ run'.at = run.at
      BY <2>2 DEF PublishPending, GoTo
    <3>3. status'[head] = "pending"
      BY <2>2, <3>1 DEF PublishPending
    <3>4. QED
      BY <3>1, <3>2, <3>3 DEF SettledInv, CurrentInv, ReadInv
  <2>3. CASE View
    <3>1. run.at = head /\ status[head] # "success" /\ head' = head /\ status' = status
      BY <2>3 DEF View, source, CurrentInv
    <3>2. run'.pc = "reviews" /\ run'.at = run.at
      BY <2>3, <3>1 DEF View, Note
    <3>3. QED
      BY <3>1, <3>2 DEF SettledInv, CurrentInv, ReadInv
  <2>4. CASE ReadReviews
    <3>1. run.at = head /\ status[head] # "success" /\ head' = head /\ status' = status
          /\ reviewed' = reviewed
      BY <2>4 DEF ReadReviews, source, CurrentInv
    <3>2. run'.pc = "threads" /\ run'.at = run.at
      BY <2>4 DEF ReadReviews, Note
    <3>3. run'.why = {} => head \in reviewed
      BY <2>4, <3>1 DEF ReadReviews, Note
    <3>4. QED
      BY <3>1, <3>2, <3>3 DEF SettledInv, CurrentInv, ReadInv
  <2>5. CASE ReadThreads
    <3>1. run.at = head /\ status[head] # "success" /\ head' = head /\ status' = status
          /\ (Deserved' <=> Deserved)
      BY <2>5 DEF ReadThreads, source, CurrentInv, Deserved
    <3>2. run'.pc = "recheck" /\ run'.at = run.at
      BY <2>5 DEF ReadThreads, Note
    <3>3. run'.why = {} => run.why = {} /\ head \notin blocked
      BY <2>5, <3>1 DEF ReadThreads, Note
    <3>4. run'.why = {} => Deserved
      BY <2>5, <3>3 DEF ReadThreads, ReadInv, Deserved
    <3>5. QED
      BY <3>1, <3>2, <3>4 DEF SettledInv, CurrentInv, ReadInv
  <2>6. CASE RecheckHead
    <3>1. run.at = head /\ status[head] # "success" /\ head' = head /\ status' = status
          /\ (Deserved' <=> Deserved)
      BY <2>6 DEF RecheckHead, source, CurrentInv, Deserved
    <3>2. run'.pc = "final" /\ run'.at = run.at /\ run'.why = run.why
      BY <2>6, <3>1 DEF RecheckHead
    <3>3. run.why = {} => Deserved
      BY <2>6 DEF RecheckHead, ReadInv
    <3>4. QED
      BY <3>1, <3>2, <3>3 DEF SettledInv, CurrentInv, ReadInv
  <2>7. CASE Final
    <3>1. run.at = head /\ status[head] # "success" /\ head' = head /\ status' = status
          /\ (Deserved' <=> Deserved)
      BY <2>7 DEF Final, source, CurrentInv, Deserved
    <3>2. run'.pc = "publish" /\ run'.at = run.at /\ run'.why = run.why
      BY <2>7, <3>1 DEF Final, GoTo
    <3>3. run.why = {} => Deserved
      BY <2>7 DEF Final, ReadInv
    <3>4. QED
      BY <3>1, <3>2, <3>3 DEF SettledInv, CurrentInv, ReadInv
  <2>8. CASE Publish
    <3>1. run.at = head /\ head' = head /\ (Deserved' <=> Deserved)
      BY <2>8 DEF Publish, source, CurrentInv, Deserved
    <3>2. run'.pc = "idle"
      BY <2>8 DEF Publish, GoTo
    <3>3. run.why = {} => Deserved
      BY <2>8 DEF Publish, ReadInv
    <3>4. status'[head] = "success" => run.why = {}
      BY <2>8, <3>1 DEF Publish
    <3>5. QED
      BY <3>1, <3>2, <3>3, <3>4 DEF SettledInv, CurrentInv, ReadInv
  <2>9. CASE Fail
    <3>1. failed' /\ status' = status /\ head' = head
      BY <2>9 DEF Fail, source
    <3>2. run'.at = run.at /\ (run'.pc = "idle" \/
            (run'.pc = "fail" /\ run.pc \notin {"idle", "read", "pending"}))
      BY <2>9 DEF Fail, GoTo
    <3>3. QED
      BY <3>1, <3>2 DEF SettledInv, CurrentInv, ReadInv, Asked
  <2>10. CASE PublishFailure
    <3>1. run.at = head /\ status[head] # "success" /\ head' = head
      BY <2>10 DEF PublishFailure, source, CurrentInv
    <3>2. run'.pc = "idle" /\ status'[head] # "success"
      BY <2>10, <3>1 DEF PublishFailure, GoTo
    <3>3. QED
      BY <3>1, <3>2 DEF SettledInv, CurrentInv, ReadInv
  <2>11. CASE Deliver \/ PushHead \/ ReviewEvent \/ Reopen
    <3>1. Asked'
      BY <2>11 DEF Deliver, PushHead, ReviewEvent, Reopen, Enqueue, Notify, Asked
    <3>2. QED
      BY <3>1 DEF SettledInv, CurrentInv, ReadInv
  <2>12. CASE Resolve
    <3>1. run' = run /\ status' = status /\ failed' = failed /\ head' = head
          /\ pr' = pr /\ reviewed' = reviewed /\ (Asked' <=> Asked)
      BY <2>12 DEF Resolve, Move, Asked
    <3>2. Deserved => Deserved'
      BY <2>12 DEF Resolve, Move, Deserved
    <3>3. QED
      BY <3>1, <3>2 DEF SettledInv, CurrentInv, ReadInv
  <2>13. CASE EditText \/ Close \/ Merge \/ UNCHANGED vars
    <3>1. run' = run /\ status' = status /\ failed' = failed /\ head' = head
          /\ reviewed' = reviewed /\ blocked' = blocked
      BY <2>13 DEF EditText, Close, Merge, Move, vars, source
    <3>2. pr' = "open" => pr = "open"
      BY <2>13 DEF EditText, Close, Merge, vars, source
    <3>3. QED
      BY <3>1, <3>2 DEF SettledInv, CurrentInv, ReadInv, Deserved
  <2>14. QED
    BY <2>1, <2>2, <2>3, <2>4, <2>5, <2>6, <2>7, <2>8, <2>9, <2>10, <2>11, <2>12, <2>13
       DEF Next, Refresh, People
<1>8. QED
  BY <1>5, <1>6, <1>7

\* Without displaced refreshes a green status that nothing is about to revise
\* is true, whatever the number of pushes, reviews and failed calls
\* (hosted._run, eligibility.evaluate).
THEOREM GreenTrue == ASSUME ~Displaces PROVE Spec => []GreenIsTrue
<1>1. HostedInv /\ [Next]_vars => HostedInv'
  BY HostedStep
<1>2. HostedInv => GreenIsTrue
  BY DEF HostedInv, SettledInv, GreenIsTrue, Asked, Deserved
<1>3. QED
  BY <1>1, <1>2, InitHosted, PTL DEF Spec
=============================================================================
