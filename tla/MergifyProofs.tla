---------------------------- MODULE MergifyProofs ----------------------------
(***************************************************************************)
(* Proofs about `merge` through the Mergify queue, for any number of       *)
(* sessions, heads and requeues: a head is marked confirmed only if it was *)
(* in the queue, no command reports a merged PR as left, and one session   *)
(* posts the queue command once for each head.                             *)
(***************************************************************************)
EXTENDS Mergify, SequenceTheorems, WellFoundedInduction, TLAPS

\* A membership read holds of the command's head if that is still the PR's.
Entry(r) ==
    /\ r.at <= head
    /\ r.pc \in {"recheck", "resha"} /\ r.in /\ r.at = head => r.at \in entered
    /\ r.pc = "mark" => r.at \in entered
EntryInv ==
    /\ member => head \in entered
    /\ \A s \in Session : Entry(run[s])

\* No comment requests or confirms the head.
Unmarked(h) ==
    \A i \in DOMAIN comments : comments[i] \notin {Marker("request", h), Marker("confirmed", h)}

\* Markers that were not found are still absent when the request is written, but
\* for those that were on their way.
Unasked(r) ==
    /\ r.pc \in {"member", "recheck"} /\ ~r.requested /\ ~r.confirmed =>
         r.at \in delayed \/ Unmarked(r.at)
    /\ r.pc = "request" => r.at \in delayed \/ Unmarked(r.at)
OnceInv ==
    /\ RequestedOnce /\ \A s \in Session : Unasked(run[s])
    /\ \A c \in flight : c.head \in delayed

\* What is on its way to GitHub is true too.
FlightInv == \A c \in flight : c.kind = "confirmed" => c.head \in entered

Outcome == {"none", "landed", "left"}

-----------------------------------------------------------------------------
(* Sessions.                                                               *)

\* A command ends, or waits on: it has no question open.
LEMMA RestType ==
    ASSUME TypeOK, NEW s \in Session, NEW confirmed \in BOOLEAN, NEW outcome \in Outcome,
           Exit(s, outcome) \/ Follow(s, confirmed) \/ Poll(s, confirmed)
    PROVE  \E r \in RunState : /\ Become(s, r) /\ r.at = run[s].at /\ r.pc \in {"idle", "sha"}
                               /\ r.exit \in {run[s].exit, outcome, "none"}
<1>1. run[s] \in RunState
  BY DEF TypeOK
<1>2. ASSUME NEW o \in Outcome, Exit(s, o)
      PROVE  \E r \in RunState : /\ Become(s, r) /\ r.at = run[s].at /\ r.pc \in {"idle", "sha"}
                                 /\ r.exit = o
  <2> DEFINE r == [pc |-> "idle", at |-> run[s].at, wait |-> "none", late |-> FALSE,
                   requested |-> FALSE, confirmed |-> FALSE, in |-> FALSE,
                   following |-> FALSE, exit |-> o]
  <2>1. r \in RunState /\ r.at = run[s].at /\ r.pc = "idle" /\ r.exit = o
    BY <1>1 DEF RunState, Pc, Outcome
  <2>2. Become(s, r)
    BY <1>2 DEF Exit
  <2> HIDE DEF r
  <2>3. QED
    BY <2>1, <2>2
<1>3. CASE Become(s, [run[s] EXCEPT !.pc = "sha", !.following = TRUE, !.confirmed = confirmed])
  <2> DEFINE r == [run[s] EXCEPT !.pc = "sha", !.following = TRUE, !.confirmed = confirmed]
  <2>1. r \in RunState /\ r.at = run[s].at /\ r.pc = "sha" /\ r.exit = run[s].exit
    BY <1>1 DEF RunState, Pc
  <2> HIDE DEF r
  <2>2. QED
    BY <1>3, <2>1 DEF r
<1>4. QED
  BY <1>2, <1>3 DEF Follow, Poll, Return, Outcome

\* The command goes on to another place.
LEMMA GoToType ==
    ASSUME TypeOK, NEW s \in Session, NEW label \in Pc, GoTo(s, label)
    PROVE  \E r \in RunState :
             /\ Become(s, r) /\ r.pc = label /\ r.at = run[s].at /\ r.exit = run[s].exit
             /\ r.in = run[s].in /\ r.requested = run[s].requested /\ r.confirmed = run[s].confirmed
<1>1. run[s] \in RunState
  BY DEF TypeOK
<1>2. QED
  BY <1>1 DEF GoTo, RunState

\* What one step of a session may do to what it knows: it rests, asks a further
\* question, or writes what the last answer calls for.
Steps(s, r) ==
    \/ r.pc \in {"idle", "sha", "left", "state"} /\ r.at = run[s].at
    \/ At(s, "idle") /\ r.pc = "markers" /\ r.at = head
    \/ /\ At(s, "markers") /\ r.pc = "member" /\ r.at = run[s].at
       /\ r.requested = Requested(r.at, Len(comments))
       /\ r.confirmed = Confirmed(r.at, Len(comments))
    \/ /\ At(s, "member") /\ r.pc = "recheck" /\ r.at = run[s].at /\ r.in = member
       /\ r.requested = run[s].requested /\ r.confirmed = run[s].confirmed
    \/ /\ At(s, "recheck") /\ r.pc = "request" /\ r.at = run[s].at
       /\ ~run[s].requested /\ ~run[s].confirmed
    \/ At(s, "state") /\ r.pc = "resha" /\ r.at = run[s].at /\ r.in = member
    \/ /\ run[s].pc \in {"recheck", "resha"} /\ r.pc = "mark" /\ r.at = run[s].at
       /\ run[s].in /\ head = run[s].at
    \/ /\ UNCHANGED board /\ r.pc = run[s].pc /\ r.at = run[s].at /\ r.in = run[s].in
       /\ r.requested = run[s].requested /\ r.confirmed = run[s].confirmed

\* What it may write.
Calls(s, kind) ==
    \/ kind = "request" /\ At(s, "request")
    \/ kind = "confirmed" /\ At(s, "mark")
Stores(c) == comments' = Append(comments, c) /\ UNCHANGED <<flight, delayed>>
Sends(c) == flight' = flight \cup {c} /\ delayed' = delayed \cup {c.head} /\ UNCHANGED comments
Writes(s) ==
    \/ UNCHANGED board
    \/ \E kind \in {"request", "confirmed"} :
         /\ Calls(s, kind)
         /\ \/ Stores(Marker(kind, run[s].at))
            \/ Sends(Marker(kind, run[s].at))

\* Only a look at an unmerged PR reports it left.
Reports(s, r) == r.exit = "left" /\ run[s].exit # "left" => pr # "merged"

Command(s) == Begin(s) \/ Continue(s) \/ Deadline(s) \/ Abort(s)

LEMMA CommandSteps ==
    ASSUME TypeOK, NEW s \in Session, Command(s)
    PROVE  /\ UNCHANGED <<github, queue>> /\ Writes(s)
           /\ \E r \in RunState : /\ Become(s, r) /\ Steps(s, r) /\ Reports(s, r)
                                  /\ r.pc \in {"idle", "sha"} \/ UNCHANGED board
<1>1. run[s] \in RunState /\ head \in Heads /\ member \in BOOLEAN
  BY DEF TypeOK
<1> DEFINE Goes == /\ UNCHANGED <<github, queue>> /\ Writes(s)
                   /\ \E r \in RunState : /\ Become(s, r) /\ Steps(s, r) /\ Reports(s, r)
                                          /\ r.pc \in {"idle", "sha"} \/ UNCHANGED board
\* A command that rests.
<1>2. ASSUME NEW confirmed \in BOOLEAN, NEW outcome \in Outcome,
             outcome = "left" => pr # "merged",
             Exit(s, outcome) \/ Follow(s, confirmed) \/ Poll(s, confirmed),
             UNCHANGED <<github, queue>>, Writes(s)
      PROVE  Goes
  <2>1. PICK r \in RunState : /\ Become(s, r) /\ r.at = run[s].at /\ r.pc \in {"idle", "sha"}
                              /\ r.exit \in {run[s].exit, outcome, "none"}
    BY <1>2, RestType
  <2>2. Steps(s, r) /\ Reports(s, r)
    BY <1>2, <2>1 DEF Steps, Reports
  <2>3. QED
    BY <1>2, <2>1, <2>2
<1>3. ASSUME Return(s), UNCHANGED <<github, queue>>, Writes(s) PROVE Goes
  BY <1>2, <1>3 DEF Return, Outcome
\* A command that goes on to another question.
<1>4. ASSUME NEW label \in Pc, GoTo(s, label), UNCHANGED <<github, board, queue>>,
             \/ label \in {"left", "state"}
             \/ label = "request" /\ At(s, "recheck") /\ ~run[s].requested /\ ~run[s].confirmed
             \/ label = "mark" /\ run[s].pc \in {"recheck", "resha"} /\ run[s].in /\ head = run[s].at
      PROVE  Goes
  <2>1. PICK r \in RunState : Become(s, r) /\ r.pc = label /\ r.at = run[s].at /\ r.exit = run[s].exit
    BY <1>4, GoToType
  <2>2. Steps(s, r) /\ Reports(s, r) /\ Writes(s)
    BY <1>4, <2>1 DEF Steps, Reports, Writes
  <2>3. QED
    BY <1>4, <2>1, <2>2
<1>5. ASSUME Begin(s) PROVE Goes
  <2>1. PICK w \in Waits :
          Become(s, [run[s] EXCEPT !.pc = "markers", !.at = head, !.wait = w,
                                   !.late = (w = "zero"), !.exit = "none"])
    BY <1>5 DEF Begin
  <2> DEFINE r == [run[s] EXCEPT !.pc = "markers", !.at = head, !.wait = w,
                                 !.late = (w = "zero"), !.exit = "none"]
  <2>2. r \in RunState /\ r.pc = "markers" /\ r.at = head /\ r.exit = "none"
    BY <1>1, WaitsAssumption DEF RunState, Pc
  <2>3. Become(s, r) /\ At(s, "idle") /\ UNCHANGED <<github, board, queue>>
    BY <1>5, <2>1 DEF Begin
  <2> HIDE DEF r
  <2>4. QED
    BY <2>2, <2>3 DEF Steps, Reports, Writes
<1>6. ASSUME ReadMarkers(s) PROVE Goes
  <2>1. Requested(run[s].at, Len(comments)) \in BOOLEAN /\ Confirmed(run[s].at, Len(comments)) \in BOOLEAN
    BY DEF Requested, Confirmed
  <2> DEFINE r == [run[s] EXCEPT !.pc = "member",
                    !.requested = Requested(run[s].at, Len(comments)),
                    !.confirmed = Confirmed(run[s].at, Len(comments))]
  <2>2. /\ r \in RunState /\ r.pc = "member" /\ r.at = run[s].at /\ r.exit = run[s].exit
        /\ r.requested = Requested(r.at, Len(comments))
        /\ r.confirmed = Confirmed(r.at, Len(comments))
    BY <1>1, <2>1 DEF RunState, Pc
  <2>3. Become(s, r) /\ At(s, "markers") /\ UNCHANGED <<github, board, queue>>
    BY <1>6 DEF ReadMarkers
  <2> HIDE DEF r
  <2>4. QED
    BY <2>2, <2>3 DEF Steps, Reports, Writes
<1>7. ASSUME ReadMember(s) PROVE Goes
  <2> DEFINE r == [run[s] EXCEPT !.pc = "recheck", !.in = member]
  <2>1. /\ r \in RunState /\ r.pc = "recheck" /\ r.at = run[s].at /\ r.exit = run[s].exit
        /\ r.in = member /\ r.requested = run[s].requested /\ r.confirmed = run[s].confirmed
    BY <1>1 DEF RunState, Pc
  <2>2. Become(s, r) /\ At(s, "member") /\ UNCHANGED <<github, board, queue>>
    BY <1>7 DEF ReadMember
  <2> HIDE DEF r
  <2>3. QED
    BY <2>1, <2>2 DEF Steps, Reports, Writes
<1>8. ASSUME Recheck(s) PROVE Goes
  <2>1. At(s, "recheck") /\ UNCHANGED <<github, board, queue>> /\ Writes(s)
    BY <1>8 DEF Recheck, Writes
  <2>2. CASE Return(s) \/ Follow(s, TRUE) \/ Follow(s, FALSE)
    BY <1>2, <1>3, <2>1, <2>2 DEF Outcome
  <2>3. CASE GoTo(s, "left")
    BY <1>4, <2>1, <2>3 DEF Pc
  <2>4. CASE GoTo(s, "mark") /\ run[s].in /\ head = run[s].at
    BY <1>4, <2>1, <2>4 DEF Pc, At
  <2>5. CASE GoTo(s, "request") /\ ~run[s].requested /\ ~run[s].confirmed
    BY <1>4, <2>1, <2>5 DEF Pc
  <2>6. QED
    BY <1>8, <2>2, <2>3, <2>4, <2>5 DEF Recheck
<1>9. ASSUME Request(s) PROVE Goes
  <2>1. At(s, "request") /\ UNCHANGED <<github, queue>> /\ Writes(s)
    BY <1>9 DEF Request, PostComment, Writes, Calls, Stores, Sends, board
  <2>2. Follow(s, FALSE) \/ Return(s)
    BY <1>9 DEF Request, PostComment
  <2>3. QED
    BY <1>2, <1>3, <2>1, <2>2 DEF Outcome
<1>10. ASSUME MarkConfirmed(s) PROVE Goes
  <2>1. At(s, "mark") /\ UNCHANGED <<github, queue>> /\ Writes(s)
    BY <1>10 DEF MarkConfirmed, PostComment, Writes, Calls, Stores, Sends, board
  <2>2. Follow(s, TRUE) \/ Poll(s, TRUE) \/ Return(s)
    BY <1>10 DEF MarkConfirmed, PostComment
  <2>3. QED
    BY <1>2, <1>3, <2>1, <2>2 DEF Outcome
<1>11. ASSUME Left(s) \/ WaitSha(s) \/ WaitDecide(s) PROVE Goes
  <2>1. UNCHANGED <<github, board, queue>> /\ Writes(s)
    BY <1>11 DEF Left, WaitSha, WaitDecide, Writes
  <2>2. CASE Return(s) \/ Exit(s, "landed") \/ (pr # "merged" /\ Exit(s, "left"))
    BY <1>2, <1>3, <2>1, <2>2 DEF Outcome
  <2>3. CASE GoTo(s, "state") \/ GoTo(s, "left")
    BY <1>4, <2>1, <2>3 DEF Pc
  <2>4. CASE At(s, "resha") /\ GoTo(s, "mark") /\ run[s].in /\ head = run[s].at
    BY <1>4, <2>1, <2>4 DEF Pc, At
  <2>5. CASE Poll(s, run[s].confirmed)
    <3>1. run[s].confirmed \in BOOLEAN
      BY <1>1 DEF RunState
    <3>2. QED
      BY <1>2, <2>1, <2>5, <3>1 DEF Outcome
  <2>6. QED
    BY <1>11, <2>2, <2>3, <2>4, <2>5 DEF Left, WaitSha, WaitDecide, MergedSha
<1>12. ASSUME WaitState(s) PROVE Goes
  <2> DEFINE r == [run[s] EXCEPT !.pc = "resha", !.in = member]
  <2>1. /\ r \in RunState /\ r.pc = "resha" /\ r.at = run[s].at /\ r.exit = run[s].exit
        /\ r.in = member
    BY <1>1 DEF RunState, Pc
  <2>2. Become(s, r) /\ At(s, "state") /\ UNCHANGED <<github, board, queue>>
    BY <1>12 DEF WaitState
  <2> HIDE DEF r
  <2>3. QED
    BY <2>1, <2>2 DEF Steps, Reports, Writes
<1>13. ASSUME Deadline(s) PROVE Goes
  <2> DEFINE r == [run[s] EXCEPT !.late = TRUE]
  <2>1. /\ r \in RunState /\ r.pc = run[s].pc /\ r.at = run[s].at /\ r.exit = run[s].exit
        /\ r.in = run[s].in /\ r.requested = run[s].requested /\ r.confirmed = run[s].confirmed
    BY <1>1 DEF RunState
  <2>2. Become(s, r) /\ UNCHANGED <<github, board, queue>>
    BY <1>13 DEF Deadline
  <2> HIDE DEF r
  <2>3. QED
    BY <2>1, <2>2 DEF Steps, Reports, Writes
<1>14. ASSUME Abort(s) PROVE Goes
  BY <1>3, <1>14 DEF Abort, Writes
<1>15. QED
  BY <1>5, <1>6, <1>7, <1>8, <1>9, <1>10, <1>11, <1>12, <1>13, <1>14 DEF Command, Continue

-----------------------------------------------------------------------------
(* Types.                                                                  *)

Outside == Cancel \/ StoreLate \/ Handle \/ Finish \/ Requeue \/ PushHead \/ Close

\* A comment more.
LEMMA OneMore ==
    ASSUME TypeOK, NEW c \in Comment, comments' = Append(comments, c)
    PROVE  /\ comments' \in Seq(Comment) /\ Len(comments') = Len(comments) + 1
           /\ DOMAIN comments' = 1..(Len(comments) + 1) /\ DOMAIN comments = 1..Len(comments)
           /\ Len(comments) \in Nat
           /\ \A i \in 1..Len(comments) : comments'[i] = comments[i]
           /\ comments'[Len(comments) + 1] = c
BY AppendProperties DEF TypeOK

\* The comments that are written.
LEMMA Written ==
    ASSUME TypeOK, NEW s \in Session, Writes(s)
    PROVE  UNCHANGED board \/ \E c \in Comment : Stores(c) \/ Sends(c)
<1>1. run[s].at \in Heads
  BY DEF TypeOK, RunState
<1>2. Marker("request", run[s].at) \in Comment /\ Marker("confirmed", run[s].at) \in Comment
  BY <1>1 DEF Marker, Comment
<1>3. QED
  BY <1>2 DEF Writes

LEMMA TypeStep == TypeOK /\ [Next]_vars => TypeOK'
<1> SUFFICES ASSUME TypeOK, [Next]_vars PROVE TypeOK'
  OBVIOUS
<1>1. /\ head \in Heads /\ comments \in Seq(Comment) /\ Len(comments) \in Nat
      /\ handled \in 0..Len(comments) /\ member \in BOOLEAN /\ entered \subseteq Heads
      /\ run \in [Session -> RunState] /\ pr \in {"open", "merged", "closed"}
      /\ flight \subseteq Comment /\ delayed \subseteq Heads
  BY DEF TypeOK
<1>2. ASSUME \/ UNCHANGED board
             \/ \E c \in Comment : Stores(c) \/ Sends(c)
             \/ \E c \in Comment : /\ comments' = Append(comments, c)
                                   /\ flight' = flight \ {c} /\ UNCHANGED delayed,
             UNCHANGED handled
      PROVE  /\ comments' \in Seq(Comment) /\ handled' \in 0..Len(comments')
             /\ flight' \subseteq Comment /\ delayed' \subseteq Heads
  <2> DEFINE More == /\ comments' \in Seq(Comment) /\ handled' \in 0..Len(comments')
                     /\ flight' \subseteq Comment /\ delayed' \subseteq Heads
  <2>1. ASSUME NEW c \in Comment, comments' = Append(comments, c)
        PROVE  comments' \in Seq(Comment) /\ handled' \in 0..Len(comments')
    BY <1>1, <1>2, <2>1, OneMore
  <2>2. \A c \in Comment : c.head \in Heads
    BY DEF Comment
  <2>3. CASE UNCHANGED board
    BY <1>1, <1>2, <2>3 DEF board
  <2>4. ASSUME NEW c \in Comment, Stores(c) PROVE More
    BY <1>1, <2>1, <2>4 DEF Stores
  <2>5. ASSUME NEW c \in Comment, Sends(c) PROVE More
    BY <1>1, <1>2, <2>2, <2>5 DEF Sends
  <2>6. ASSUME NEW c \in Comment, comments' = Append(comments, c), flight' = flight \ {c},
               UNCHANGED delayed
        PROVE  More
    BY <1>1, <2>1, <2>6
  <2>7. QED
    BY <1>2, <2>3, <2>4, <2>5, <2>6
<1>3. ASSUME NEW s \in Session, Command(s) PROVE TypeOK'
  <2>1. UNCHANGED <<head, pr, handled, member, entered>> /\ Writes(s)
    BY <1>3, CommandSteps DEF github, queue
  <2>2. PICK r \in RunState : Become(s, r)
    BY <1>3, CommandSteps
  <2>3. run' \in [Session -> RunState]
    BY <1>1, <2>2 DEF Become
  <2>4. QED
    BY <1>1, <1>2, <2>1, <2>3, Written DEF TypeOK
<1>4. CASE Requeue
  <2>1. Marker("requeue", head) \in Comment
    BY <1>1 DEF Marker, Comment
  <2>2. Stores(Marker("requeue", head)) /\ UNCHANGED <<github, queue, run>>
    BY <1>4 DEF Requeue, Stores
  <2>3. /\ comments' \in Seq(Comment) /\ handled' \in 0..Len(comments')
        /\ flight' \subseteq Comment /\ delayed' \subseteq Heads
    BY <1>2, <2>1, <2>2 DEF queue
  <2>4. QED
    BY <1>1, <2>2, <2>3 DEF TypeOK, github, queue
<1>10. CASE StoreLate
  <2>1. /\ comments' \in Seq(Comment) /\ handled' \in 0..Len(comments')
        /\ flight' \subseteq Comment /\ delayed' \subseteq Heads
    BY <1>1, <1>2, <1>10 DEF StoreLate, queue
  <2>2. QED
    BY <1>1, <1>10, <2>1 DEF StoreLate, TypeOK, github, queue
<1>5. CASE Handle
  <2>1. handled' \in 0..Len(comments) /\ UNCHANGED <<head, pr, board, run>>
    BY <1>1, <1>5 DEF Handle, github
  <2>2. member' \in BOOLEAN
    BY <1>1, <1>5 DEF Handle
  <2>3. entered' \subseteq Heads
    BY <1>1, <1>5 DEF Handle
  <2>4. QED
    BY <1>1, <2>1, <2>2, <2>3 DEF TypeOK, board
<1>6. CASE PushHead
  <2>1. head + 1 \in Heads
    BY <1>1, <1>6, BoundsAssumption DEF PushHead, Heads
  <2>2. QED
    BY <1>1, <1>6, <2>1 DEF PushHead, TypeOK, board
<1>7. CASE Cancel \/ Finish \/ Close
  BY <1>1, <1>7 DEF Cancel, Finish, Close, TypeOK, github, board
<1>8. CASE UNCHANGED vars
  BY <1>1, <1>8 DEF vars, github, queue, board, TypeOK
<1>9. QED
  BY <1>3, <1>4, <1>5, <1>6, <1>7, <1>8, <1>10 DEF Next, Command

-----------------------------------------------------------------------------
(* The membership of a head.                                               *)

LEMMA EntryStep == TypeOK /\ EntryInv /\ [Next]_vars => EntryInv'
<1> SUFFICES ASSUME TypeOK, EntryInv, [Next]_vars PROVE EntryInv'
  OBVIOUS
<1>1. /\ head \in Nat /\ member \in BOOLEAN /\ run \in [Session -> RunState]
      /\ \A s \in Session : run[s].at \in Nat
  BY DEF TypeOK, Heads, RunState
<1>2. ASSUME NEW s \in Session, Command(s) PROVE EntryInv'
  <2>1. UNCHANGED <<head, pr, handled, member, entered>>
    BY <1>2, CommandSteps DEF github, queue
  <2>2. PICK r \in RunState : Become(s, r) /\ Steps(s, r)
    BY <1>2, CommandSteps
  <2>3. Entry(run[s]) /\ (member => head \in entered)
    BY DEF EntryInv
  <2>4. Entry(r)
    BY <1>1, <2>2, <2>3 DEF Steps, Entry, At
  <2>5. run'[s] = r /\ \A t \in Session : t # s => run'[t] = run[t]
    BY <1>1, <2>2 DEF Become
  <2>6. QED
    BY <2>1, <2>4, <2>5 DEF EntryInv, Entry
<1>3. CASE Handle
  <2>1. /\ UNCHANGED <<head, run>> /\ entered \subseteq entered'
        /\ member' => head \in entered'
    BY <1>3 DEF Handle, github
  <2>2. QED
    BY <2>1 DEF EntryInv, Entry
<1>4. CASE PushHead
  <2>1. head' = head + 1 /\ ~member' /\ UNCHANGED <<entered, run>>
    BY <1>4 DEF PushHead
  <2>2. ASSUME NEW s \in Session PROVE Entry(run[s])'
    <3>1. run[s].at <= head /\ (run[s].pc = "mark" => run[s].at \in entered)
      BY DEF EntryInv, Entry
    <3>2. run[s].at <= head + 1 /\ run[s].at # head + 1
      BY <1>1, <3>1
    <3>3. QED
      BY <2>1, <3>1, <3>2 DEF Entry
  <2>3. QED
    BY <2>1, <2>2 DEF EntryInv
<1>5. CASE Cancel \/ Finish \/ Close
  BY <1>5 DEF Cancel, Finish, Close, github, EntryInv, Entry
<1>6. CASE Requeue \/ StoreLate \/ UNCHANGED vars
  BY <1>6 DEF Requeue, StoreLate, vars, github, queue, EntryInv, Entry
<1>7. QED
  BY <1>2, <1>3, <1>4, <1>5, <1>6 DEF Next, Command

LEMMA ConfirmedStep ==
    TypeOK /\ EntryInv /\ FlightInv /\ ConfirmedEntered /\ [Next]_vars
        => FlightInv' /\ ConfirmedEntered'
<1> SUFFICES ASSUME TypeOK, EntryInv, FlightInv, ConfirmedEntered, [Next]_vars
             PROVE  FlightInv' /\ ConfirmedEntered'
  OBVIOUS
<1>1. ASSUME NEW c \in Comment, comments' = Append(comments, c), flight' \subseteq flight,
             entered' = entered, c.kind = "confirmed" => c.head \in entered
      PROVE  FlightInv' /\ ConfirmedEntered'
  BY <1>1, OneMore DEF ConfirmedEntered, FlightInv
<1>2. ASSUME NEW s \in Session, Command(s) PROVE FlightInv' /\ ConfirmedEntered'
  <2>1. entered' = entered /\ Writes(s)
    BY <1>2, CommandSteps DEF queue
  <2>2. run[s].at \in Heads /\ Entry(run[s])
    BY DEF TypeOK, RunState, EntryInv
  <2>3. CASE UNCHANGED board
    BY <2>1, <2>3 DEF ConfirmedEntered, FlightInv, board
  <2>4. ASSUME NEW kind \in {"request", "confirmed"}, Calls(s, kind),
               NEW c, c = Marker(kind, run[s].at), Stores(c) \/ Sends(c)
        PROVE  FlightInv' /\ ConfirmedEntered'
    <3>1. c \in Comment /\ c.kind = kind /\ c.head = run[s].at
      BY <2>2, <2>4 DEF Marker, Comment
    <3>2. c.kind = "confirmed" => c.head \in entered
      BY <2>2, <2>4, <3>1 DEF Calls, Entry, At
    <3>3. CASE Stores(c)
      BY <1>1, <2>1, <3>1, <3>2, <3>3 DEF Stores
    <3>4. CASE Sends(c)
      BY <2>1, <3>2, <3>4 DEF Sends, FlightInv, ConfirmedEntered
    <3>5. QED
      BY <2>4, <3>3, <3>4
  <2>5. QED
    BY <2>1, <2>3, <2>4 DEF Writes
<1>3. CASE Requeue
  <2>1. PICK c \in Comment : c = Marker("requeue", head)
    BY DEF Marker, Comment, TypeOK
  <2>2. QED
    BY <1>1, <1>3, <2>1 DEF Requeue, Marker, queue
<1>4. CASE StoreLate
  <2>1. PICK c \in flight : /\ comments' = Append(comments, c) /\ flight' = flight \ {c}
                            /\ UNCHANGED queue
    BY <1>4 DEF StoreLate
  <2>2. c \in Comment /\ (c.kind = "confirmed" => c.head \in entered)
    BY DEF TypeOK, FlightInv
  <2>3. QED
    BY <1>1, <2>1, <2>2 DEF queue
<1>5. CASE Cancel \/ Handle \/ Finish \/ PushHead \/ Close \/ UNCHANGED vars
  <2>1. UNCHANGED <<comments, flight>> /\ entered \subseteq entered'
    BY <1>5 DEF Cancel, Handle, Finish, PushHead, Close, vars, queue, board
  <2>2. QED
    BY <2>1 DEF ConfirmedEntered, FlightInv
<1>6. QED
  BY <1>2, <1>3, <1>4, <1>5 DEF Next, Command

-----------------------------------------------------------------------------
(* One session.                                                            *)

\* Numbers have a first one.
LEMMA First ==
    ASSUME NEW T, T \subseteq Nat, T # {}
    PROVE  \E n \in T : \A m \in T : n <= m
<1>1. PICK n \in T : \A m \in T : ~(<<m, n>> \in OpToRel(<, Nat))
  BY WFMin, NatLessThanWellFounded
<1>2. ASSUME NEW m \in T, m < n PROVE <<m, n>> \in OpToRel(<, Nat)
  BY <1>2 DEF OpToRel
<1>3. \A m \in T : ~(m < n)
  BY <1>1, <1>2
<1>4. QED
  BY <1>3

\* A head that the fold calls neither requested nor confirmed has no marker: a
\* confirmation is forgotten only for a later queue command, which is a request.
LEMMA NoMarkerRead ==
    ASSUME TypeOK, NEW h, ~Requested(h, Len(comments)), ~Confirmed(h, Len(comments))
    PROVE  Unmarked(h)
<1>1. DOMAIN comments = 1..Len(comments) /\ Len(comments) \in Nat
  BY DEF TypeOK
<1>2. \A i \in DOMAIN comments : comments[i] # Marker("request", h)
  BY <1>1 DEF Requested
<1>3. ASSUME NEW i \in DOMAIN comments, comments[i] = Marker("confirmed", h) PROVE FALSE
  <2> DEFINE T == {j \in (i + 1)..Len(comments) : Queues(comments[j])}
  <2>1. T # {} /\ T \subseteq Nat
    BY <1>1, <1>3 DEF Confirmed
  <2>2. PICK j \in T : \A m \in T : j <= m
    BY <2>1, First
  <2>3. i \in 1..(j - 1) /\ j \in 1..Len(comments) /\ Queues(comments[j])
    BY <1>1, <2>2
  <2>4. \A m \in (i + 1)..(j - 1) : ~Queues(comments[m])
    BY <1>1, <2>2, <2>3
  <2>5. Confirmed(h, j - 1)
    BY <1>3, <2>3, <2>4 DEF Confirmed
  <2>6. Requested(h, Len(comments))
    BY <2>3, <2>5 DEF Requested
  <2>7. QED
    BY <2>6
<1>4. QED
  BY <1>2, <1>3 DEF Unmarked

LEMMA OnceStep ==
    ASSUME \A s, t \in Session : s = t
    PROVE  TypeOK /\ OnceInv /\ [Next]_vars => OnceInv'
<1> SUFFICES ASSUME TypeOK, OnceInv, [Next]_vars PROVE OnceInv'
  OBVIOUS
<1>1. /\ DOMAIN comments = 1..Len(comments) /\ Len(comments) \in Nat
      /\ run \in [Session -> RunState]
  BY DEF TypeOK
<1>2. ASSUME NEW s \in Session, Command(s) PROVE OnceInv'
  <2>1. PICK r \in RunState : /\ Become(s, r) /\ Steps(s, r)
                              /\ r.pc \in {"idle", "sha"} \/ UNCHANGED board
    BY <1>2, CommandSteps
  <2>2. Writes(s) /\ Unasked(run[s])
    BY <1>2, CommandSteps DEF OnceInv
  <2>3. RequestedOnce' /\ (\A c \in flight : c.head \in delayed)'
    <3>1. CASE UNCHANGED board
      BY <3>1 DEF OnceInv, RequestedOnce, board
    <3>2. ASSUME NEW kind \in {"request", "confirmed"}, Calls(s, kind),
                 NEW c, c = Marker(kind, run[s].at), Stores(c) \/ Sends(c)
          PROVE  RequestedOnce' /\ (\A d \in flight : d.head \in delayed)'
      <4>1. c \in Comment /\ c.kind = kind /\ c.head = run[s].at
        BY <3>2 DEF TypeOK, RunState, Marker, Comment
      <4>2. CASE Sends(c)
        BY <4>2 DEF Sends, OnceInv, RequestedOnce
      <4>3. CASE Stores(c)
        <5>1. /\ DOMAIN comments' = 1..(Len(comments) + 1)
              /\ \A i \in 1..Len(comments) : comments'[i] = comments[i]
              /\ comments'[Len(comments) + 1] = c
          BY <4>1, <4>3, OneMore DEF Stores
        <5>2. c.kind = "request" => c.head \in delayed \/ Unmarked(c.head)
          BY <2>2, <3>2, <4>1 DEF Calls, Unasked, At
        <5>3. UNCHANGED <<flight, delayed>>
          BY <4>3 DEF Stores
        <5>4. QED
          BY <1>1, <5>1, <5>2, <5>3 DEF OnceInv, RequestedOnce, Unmarked
      <4>4. QED
        BY <3>2, <4>2, <4>3
    <3>3. QED
      BY <2>2, <3>1, <3>2 DEF Writes
  <2>4. run'[s] = r /\ \A t \in Session : t = s
    BY <1>1, <2>1 DEF Become
  <2>5. Unasked(r)'
    <3>1. CASE r.pc \in {"idle", "sha"}
      BY <3>1 DEF Unasked
    <3>2. CASE UNCHANGED board
      <4>1. Unasked(r)
        <5>1. ASSUME r.pc = "member", ~r.requested, ~r.confirmed, At(s, "markers") PROVE Unmarked(r.at)
          BY <2>1, <5>1, NoMarkerRead DEF Steps, At
        <5>2. QED
          BY <2>1, <2>2, <5>1 DEF Steps, Unasked, At
      <4>2. QED
        BY <3>2, <4>1 DEF Unasked, Unmarked, board
    <3>3. QED
      BY <2>1, <3>1, <3>2
  <2>6. QED
    BY <2>3, <2>4, <2>5 DEF OnceInv
<1>3. CASE Requeue
  <2>1. PICK c \in Comment : c = Marker("requeue", head)
    BY DEF Marker, Comment, TypeOK
  <2>2. c.kind = "requeue" /\ UNCHANGED <<flight, delayed, run>>
    BY <1>3, <2>1 DEF Requeue, Marker
  <2>3. /\ DOMAIN comments' = 1..(Len(comments) + 1)
        /\ \A i \in 1..Len(comments) : comments'[i] = comments[i]
        /\ comments'[Len(comments) + 1] = c
    BY <1>3, <2>1, OneMore DEF Requeue
  <2>4. \A h : Unmarked(h) => Unmarked(h)'
    BY <1>1, <2>2, <2>3 DEF Unmarked, Marker
  <2>5. RequestedOnce'
    BY <1>1, <2>2, <2>3 DEF OnceInv, RequestedOnce
  <2>6. QED
    BY <2>2, <2>4, <2>5 DEF OnceInv, Unasked
<1>4. CASE StoreLate
  <2>1. PICK c \in flight : /\ comments' = Append(comments, c) /\ flight' = flight \ {c}
                            /\ UNCHANGED <<delayed, run>>
    BY <1>4 DEF StoreLate
  <2>2. c \in Comment /\ c.head \in delayed
    BY DEF TypeOK, OnceInv
  <2>3. /\ DOMAIN comments' = 1..(Len(comments) + 1)
        /\ \A i \in 1..Len(comments) : comments'[i] = comments[i]
        /\ comments'[Len(comments) + 1] = c
    BY <2>1, <2>2, OneMore
  <2>4. \A h : Unmarked(h) => h = c.head \/ Unmarked(h)'
    BY <1>1, <2>3 DEF Unmarked, Marker
  <2>5. RequestedOnce'
    BY <1>1, <2>1, <2>2, <2>3 DEF OnceInv, RequestedOnce
  <2>6. QED
    BY <2>1, <2>2, <2>4, <2>5 DEF OnceInv, Unasked
<1>5. CASE Cancel \/ Handle \/ Finish \/ PushHead \/ Close \/ UNCHANGED vars
  <2>1. UNCHANGED <<comments, flight, delayed, run>>
    BY <1>5 DEF Cancel, Handle, Finish, PushHead, Close, vars, queue, board
  <2>2. QED
    BY <2>1 DEF OnceInv, RequestedOnce, Unasked, Unmarked
<1>6. QED
  BY <1>2, <1>3, <1>4, <1>5 DEF Next, Command

-----------------------------------------------------------------------------
LEMMA Initial == Init => TypeOK /\ EntryInv /\ FlightInv /\ ConfirmedEntered /\ OnceInv
<1> SUFFICES ASSUME Init PROVE TypeOK /\ EntryInv /\ FlightInv /\ ConfirmedEntered /\ OnceInv
  OBVIOUS
<1> DEFINE r0 == [pc |-> "idle", at |-> 1, wait |-> "none",
          late |-> FALSE, requested |-> FALSE, confirmed |-> FALSE, in |-> FALSE,
          following |-> FALSE, exit |-> "none"]
<1>1. 1 \in Heads
  BY BoundsAssumption DEF Heads
<1>2. r0 \in RunState /\ r0.pc = "idle" /\ r0.at = 1
  BY <1>1 DEF RunState, Pc
<1>3. run = [s \in Session |-> r0] /\ comments = << >> /\ head = 1 /\ ~member /\ flight = {}
  BY DEF Init
<1> HIDE DEF r0
<1>4. \A s \in Session : run[s] \in RunState /\ run[s].pc = "idle" /\ run[s].at = 1
  BY <1>2, <1>3
<1>5. DOMAIN comments = {} /\ Len(comments) = 0 /\ comments \in Seq(Comment)
  BY <1>3
<1>6. run \in [Session -> RunState]
  BY <1>2, <1>3
<1>7. TypeOK
  <2>1. handled = 0 /\ handled \in 0..Len(comments)
    BY <1>5 DEF Init
  <2>2. QED
    BY <1>1, <1>5, <1>6, <2>1 DEF TypeOK, Init
<1>8. EntryInv
  BY <1>3, <1>4 DEF EntryInv, Entry
<1>9. FlightInv /\ ConfirmedEntered /\ OnceInv
  BY <1>3, <1>4, <1>5 DEF FlightInv, ConfirmedEntered, OnceInv, RequestedOnce, Unasked
<1>10. QED
  BY <1>7, <1>8, <1>9

\* Every reachable state of admission and waiting has its type
\* (_merge_with_mergify, _wait_for_mergify).
THEOREM MergifyTypeCorrect == Spec => []TypeOK
BY Initial, TypeStep, PTL DEF Spec

\* A head is marked confirmed only if that head was in the queue, although
\* membership is of the PR and is read before the head is looked at again
\* (_merge_with_mergify).
THEOREM MergifyConfirmedEntered == Spec => []ConfirmedEntered
<1> DEFINE Inv == TypeOK /\ EntryInv /\ FlightInv /\ ConfirmedEntered
<1>1. Init => Inv
  BY Initial
<1>2. Inv /\ [Next]_vars => Inv'
  BY TypeStep, EntryStep, ConfirmedStep
<1>3. QED
  BY <1>1, <1>2, PTL DEF Spec

\* One session posts the queue command once for each head, whichever step it was
\* killed or failed at and whatever the operator requeued (mergify.markers), but
\* for a head one of whose comments GitHub stored after the call had timed out.
THEOREM MergifyRequestedOnce ==
    ASSUME \A s, t \in Session : s = t
    PROVE  Spec => []RequestedOnce
<1>1. TypeOK /\ OnceInv /\ [Next]_vars => TypeOK' /\ OnceInv'
  BY TypeStep, OnceStep
<1>2. OnceInv => RequestedOnce
  BY DEF OnceInv
<1>3. QED
  BY <1>1, <1>2, Initial, PTL DEF Spec

\* No command reports the PR out of the queue and unmerged when GitHub had
\* merged it by then: the last look is the one that decides (_merge_with_mergify).
THEOREM MergifyLeftMeansUnmerged == Spec => LeftMeansUnmerged
<1> DEFINE Unmerged == \A s \in Session : run'[s].exit = "left" /\ run[s].exit # "left" => pr # "merged"
<1>1. ASSUME TypeOK, Next PROVE Unmerged
  <2>1. ASSUME NEW s \in Session, Command(s) PROVE Unmerged
    <3>1. PICK r \in RunState : Become(s, r) /\ Reports(s, r)
      BY <1>1, <2>1, CommandSteps
    <3>2. run'[s] = r /\ \A t \in Session : t # s => run'[t] = run[t]
      BY <1>1, <3>1 DEF Become, TypeOK
    <3>3. QED
      BY <3>1, <3>2 DEF Reports
  <2>2. CASE Outside
    BY <2>2 DEF Outside, Cancel, StoreLate, Handle, Finish, Requeue, PushHead, Close, queue
  <2>3. QED
    BY <1>1, <2>1, <2>2 DEF Next, Command, Outside
<1>2. TypeOK /\ [Next]_vars => [Unmerged]_vars
  BY <1>1
<1>3. QED
  BY <1>2, MergifyTypeCorrect, PTL DEF Spec, LeftMeansUnmerged
=============================================================================
