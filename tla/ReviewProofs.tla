----------------------------- MODULE ReviewProofs -----------------------------
(***************************************************************************)
(* What a confirmed publication means, for every set of commits and        *)
(* sessions and whether or not failed requests still land.                 *)
(* Then, for one session whose failed requests never land: its reviews     *)
(* are saved before they are posted, and Review implements Budget.         *)
(***************************************************************************)
EXTENDS Review, SequenceTheorems, TLAPS

-----------------------------------------------------------------------------
(* Type correctness.                                                       *)

\* TypeOK without the sessions.
GlobalOK ==
    /\ head \in Commit /\ prHead \in Commit /\ dirty \in BOOLEAN
    /\ anc \in [Commit -> SUBSET Commit] /\ saved \in [Commit \X Kinds -> File]
    /\ reviews \in Seq(Posted) /\ wire \subseteq Request
    /\ results \in 0..MaxResults /\ posts \in 0..MaxPosts
    /\ dismissals \in 0..MaxDismissals

LEMMA TypeSplit == TypeOK <=> GlobalOK /\ ses \in [Session -> Record]
  BY DEF TypeOK, GlobalOK

\* A command's own record is all that an assignment of `ses` changes.
LEMMA BecomeType ==
    ASSUME NEW s \in Session, NEW r \in Record, ses \in [Session -> Record],
           Become(s, r)
    PROVE  /\ ses' \in [Session -> Record] /\ ses'[s] = r
           /\ \A t \in Session : t # s => ses'[t] = ses[t]
  BY DEF Become

LEMMA GoToType ==
    ASSUME NEW s \in Session, NEW label \in Pc, ses \in [Session -> Record],
           GoTo(s, label)
    PROVE  /\ ses' \in [Session -> Record]
           /\ ses'[s] = [ses[s] EXCEPT !.pc = label]
           /\ \A t \in Session : t # s => ses'[t] = ses[t]
  <1>1. ses[s] \in Record
    OBVIOUS
  <1>2. [ses[s] EXCEPT !.pc = label] \in Record
    BY <1>1 DEF Record
  <1>3. QED BY <1>2, BecomeType DEF GoTo

LEMMA EmptyRead == << >> \in Seq(Posted)
  OBVIOUS

\* A command that ends keeps nothing but a claim it makes.
LEMMA ExitType ==
    ASSUME BoundsAssumption, NEW s \in Session, NEW outcome \in {"none", "confirmed"},
           ses \in [Session -> Record], Exit(s, outcome)
    PROVE  /\ ses' \in [Session -> Record] /\ ses'[s].pc = "idle"
           /\ ses'[s].outcome = outcome
           /\ ses'[s].live = (ses[s].live /\ outcome = "confirmed")
           /\ \A t \in Session : t # s => ses'[t] = ses[t]
  <1> DEFINE r == [ses[s] EXCEPT !.pc = "idle", !.repost = FALSE, !.kind = "primary",
                     !.result = 0, !.post = 0, !.read = << >>, !.outcome = outcome,
                     !.live = @ /\ outcome = "confirmed"]
  <1>1. ses[s] \in Record
    OBVIOUS
  <1>2. 0 \in 0..MaxResults /\ 0 \in 0..MaxPosts
    BY DEF BoundsAssumption
  <1>3. r \in Record
    BY <1>1, <1>2, EmptyRead DEF Record, Pc, Kinds
  <1>4. r.pc = "idle" /\ r.outcome = outcome
        /\ r.live = (ses[s].live /\ outcome = "confirmed")
    BY <1>1 DEF Record
  <1>5. Become(s, r)
    BY DEF Exit
  <1> HIDE DEF r
  <1>6. QED BY <1>3, <1>4, <1>5, BecomeType

\* A deciding command is given a kind of the model.
LEMMA DecideKinds == \A list, h : Decide(list, h) \subseteq Kinds
  BY DEF Decide, Kinds

\* What a command writes to its own record has its type.
LEMMA CommandSes ==
    ASSUME TypeOK, NEW s \in Session, Command(s)
    PROVE  ses' \in [Session -> Record]
  <1> DEFINE r == ses[s]
  <1>r. r \in Record /\ ses \in [Session -> Record] /\ GlobalOK
    BY TypeSplit
  <1>b. 0 \in 0..MaxResults /\ 0 \in 0..MaxPosts
    BY BoundsAssumption DEF BoundsAssumption
  <1>e. CASE Return(s) \/ Exit(s, "confirmed")
    BY <1>e, <1>r, ExitType, BoundsAssumption DEF Return
  <1>g. CASE \E label \in Pc : GoTo(s, label)
    BY <1>g, <1>r, GoToType
  <1>1. CASE Begin(s)
    <2> DEFINE q == [r EXCEPT !.pc = "decide", !.at = head, !.live = FALSE,
                       !.outcome = "none"]
    <2>1. q \in Record
      BY <1>r DEF Record, Pc, GlobalOK
    <2>2. Become(s, q)
      BY <1>1 DEF Begin
    <2> HIDE DEF q
    <2>3. QED BY <2>1, <2>2, <1>r, BecomeType
  <1>2. CASE DecideKind(s)
    <2>1. CASE Return(s)
      BY <2>1, <1>e
    <2>2. ASSUME NEW kind \in Decide(reviews, r.at),
                 Become(s, [r EXCEPT !.pc = "run", !.kind = kind])
          PROVE  ses' \in [Session -> Record]
      <3>1. kind \in Kinds
        BY <2>2, DecideKinds
      <3>2. [r EXCEPT !.pc = "run", !.kind = kind] \in Record
        BY <3>1, <1>r DEF Record, Pc
      <3>3. QED BY <2>2, <3>2, <1>r, BecomeType
    <2>3. QED BY <1>2, <2>1, <2>2 DEF DecideKind
  <1>3. CASE RunReview(s)
    <2> DEFINE q == [r EXCEPT !.pc = "recheck", !.result = results + 1]
    <2>1. results + 1 \in 0..MaxResults
      BY <1>3, <1>r, BoundsAssumption DEF RunReview, GlobalOK, BoundsAssumption
    <2>2. q \in Record
      BY <2>1, <1>r DEF Record, Pc
    <2>3. Become(s, q)
      BY <1>3 DEF RunReview
    <2> HIDE DEF q
    <2>4. QED BY <2>2, <2>3, <1>r, BecomeType
  <1>4. CASE Recheck(s)
    BY <1>4, <1>e, <1>g DEF Recheck, Pc
  <1>5. CASE Save(s) \/ SaveTorn(s)
    BY <1>5, <1>e, <1>g DEF Save, SaveTorn, Pc
  <1>6. CASE Post(s)
    <2> DEFINE q == [r EXCEPT !.pc = "reply", !.post = posts + 1]
    <2>1. posts + 1 \in 0..MaxPosts
      BY <1>6, <1>r, BoundsAssumption DEF Post, GlobalOK, BoundsAssumption
    <2>2. q \in Record
      BY <2>1, <1>r DEF Record, Pc
    <2>3. Become(s, q)
      BY <1>6 DEF Post
    <2> HIDE DEF q
    <2>4. QED BY <2>2, <2>3, <1>r, BecomeType
  <1>7. CASE Succeed(s) \/ FailReply(s)
    BY <1>7, <1>e, <1>g DEF Succeed, FailReply, Pc
  <1>8. CASE Recover(s)
    <2> DEFINE q == [r EXCEPT !.pc = "confirm", !.read = reviews]
    <2>1. q \in Record
      BY <1>r DEF Record, Pc, GlobalOK
    <2>2. Become(s, q)
      BY <1>8 DEF Recover
    <2> HIDE DEF q
    <2>3. QED BY <2>1, <2>2, <1>r, BecomeType
  <1>9. CASE Confirm(s)
    BY <1>9, <1>e, <1>g DEF Confirm, Pc
  <1>10. CASE RereadReviews(s)
    <2> DEFINE q == [r EXCEPT !.pc = "repr", !.live = Live(r)]
    <2>1. Live(r) \in BOOLEAN
      BY DEF Live
    <2> HIDE DEF Live
    <2>2. q \in Record
      BY <2>1, <1>r DEF Record, Pc
    <2>3. Become(s, q) \/ Return(s)
      BY <1>10 DEF RereadReviews
    <2> HIDE DEF q
    <2>4. QED BY <2>2, <2>3, <1>r, <1>e, BecomeType
  <1>11. CASE RereadPr(s) \/ RereadClone(s)
    BY <1>11, <1>e, <1>g DEF RereadPr, RereadClone, Pc
  <1>12. CASE BeginRepost(s)
    <2>1. PICK kind \in Kinds :
            Become(s, [r EXCEPT
                    !.pc = IF saved[<<head, kind>>].published THEN "recover" ELSE "budget",
                    !.repost = TRUE, !.at = head, !.kind = kind,
                    !.result = saved[<<head, kind>>].result,
                    !.read = IF saved[<<head, kind>>].published THEN << >> ELSE reviews,
                    !.live = FALSE, !.outcome = "none"])
      BY <1>12 DEF BeginRepost
    <2> DEFINE file == saved[<<head, kind>>]
               q == [r EXCEPT !.pc = IF file.published THEN "recover" ELSE "budget",
                       !.repost = TRUE, !.at = head, !.kind = kind, !.result = file.result,
                       !.read = IF file.published THEN << >> ELSE reviews,
                       !.live = FALSE, !.outcome = "none"]
    <2>2. file.result \in 0..MaxResults
      BY <1>r DEF GlobalOK, File
    <2>3. (IF file.published THEN << >> ELSE reviews) \in Seq(Posted)
      BY <1>r, EmptyRead DEF GlobalOK
    <2>4. head \in Commit
      BY <1>r DEF GlobalOK
    <2>5. Become(s, q)
      BY <2>1
    <2> HIDE DEF file
    <2>6. q \in Record
      BY <1>r, <2>2, <2>3, <2>4 DEF Record, Pc
    <2> HIDE DEF q
    <2>7. QED BY <2>5, <2>6, <1>r, BecomeType
  <1>13. CASE CheckBudget(s)
    <2>1. [r EXCEPT !.pc = "save", !.read = << >>] \in Record
      BY <1>r, EmptyRead DEF Record, Pc
    <2>2. QED BY <1>13, <2>1, <1>r, <1>e, BecomeType DEF CheckBudget
  <1>14. CASE Abort(s)
    BY <1>14, <1>e DEF Abort
  <1>15. QED BY <1>1, <1>2, <1>3, <1>4, <1>5, <1>6, <1>7, <1>8, <1>9, <1>10, <1>11,
                <1>12, <1>13, <1>14 DEF Command

-----------------------------------------------------------------------------
(* The invariant.                                                          *)

\* The list r read holds the saved result for r's head, and nothing else.
Matches(r) ==
    LET evidence == {i \in DOMAIN r.read : r.read[i].head = r.at}
    IN  /\ evidence # {}
        /\ \A i \in evidence : r.read[i].result = r.result /\ r.read[i].live

\* A command reviews a commit that exists and carries a result once it has
\* one.  From the comparison on, if the clone is still on that commit, so is
\* the PR: only a push moves the PR, and it moves it to the clone's head, which
\* a new commit never makes an old one again.  Hence the second read of the
\* list was of a live publication unless the clone has left the commit.
Good(r) ==
    /\ r.pc # "idle" => anc[r.at] # {} /\ r.outcome = "none"
    /\ r.pc \notin {"idle", "decide", "run"} => r.result # 0
    /\ r.pc \in {"reread", "repr", "reclone"} /\ head = r.at => prHead = r.at
    /\ r.pc = "reread" => Matches(r)
    /\ r.pc \in {"repr", "reclone"} /\ head = r.at => r.live
    /\ r.outcome = "confirmed" => r.live

SavedInv == \A f \in Commit \X Kinds : saved[f].result = 0 => saved[f] \in {NoFile, Torn}

ReviewInv ==
    /\ TypeOK /\ SavedInv /\ anc[head] # {}
    /\ \A s \in Session : Good(ses[s])

\* What a command writes outside it: a saved result, a request, a counter.
\* A save replaces the file of its head and kind, by a result or by a torn one.
LEMMA SaveFile ==
    ASSUME NEW s \in Session, ses[s] \in Record, Save(s) \/ SaveTorn(s)
    PROVE  \E file \in File :
             /\ file.result = ses[s].result \/ file = Torn
             /\ saved' = [saved EXCEPT ![<<ses[s].at, ses[s].kind>>] = file]
  <1> DEFINE r == ses[s]
  <1>1. CASE Save(s)
    <2>1. PICK publishable \in BOOLEAN :
            saved' = [saved EXCEPT ![<<r.at, r.kind>>] =
                        [[result |-> r.result, published |-> TRUE]
                           EXCEPT !.published = publishable]]
      BY <1>1 DEF Save
    <2> DEFINE file == [[result |-> r.result, published |-> TRUE]
                           EXCEPT !.published = publishable]
    <2>2. file \in File /\ file.result = r.result
      BY DEF Record, File
    <2> HIDE DEF file
    <2>3. QED BY <2>1, <2>2 DEF file
  <1>2. CASE SaveTorn(s)
    <2>1. Torn \in File
      BY BoundsAssumption DEF Torn, File, BoundsAssumption
    <2>2. QED BY <1>2, <2>1 DEF SaveTorn
  <1>3. QED BY <1>1, <1>2

LEMMA CommandGlobal ==
    ASSUME TypeOK, NEW s \in Session, Good(ses[s]), Command(s)
    PROVE  GlobalOK'
  <1> DEFINE r == ses[s]
  <1>r. r \in Record /\ GlobalOK
    BY TypeSplit
  <1>1. CASE UNCHANGED <<clone, saved, reviews, wire, counts>>
    BY <1>1, <1>r DEF GlobalOK, clone, counts
  <1>2. CASE RunReview(s)
    <2>1. results' \in 0..MaxResults
      BY <1>2, <1>r, BoundsAssumption DEF RunReview, GlobalOK, BoundsAssumption
    <2>2. UNCHANGED <<clone, saved, reviews, wire, posts, dismissals>>
      BY <1>2 DEF RunReview
    <2>3. QED BY <2>1, <2>2, <1>r DEF GlobalOK, clone
  <1>3. CASE Save(s) \/ SaveTorn(s)
    <2>1. PICK file \in File : saved' = [saved EXCEPT ![<<r.at, r.kind>>] = file]
      BY <1>3, <1>r, SaveFile
    <2>2. <<r.at, r.kind>> \in Commit \X Kinds
      BY <1>r DEF Record
    <2>3. saved' \in [Commit \X Kinds -> File]
      BY <2>1, <2>2, <1>r DEF GlobalOK
    <2>4. UNCHANGED <<clone, reviews, wire, counts>>
      BY <1>3 DEF Save, SaveTorn
    <2>5. QED BY <2>3, <2>4, <1>r DEF GlobalOK, clone, counts
  <1>4. CASE Post(s)
    <2>0. r.pc = "post" /\ posts < MaxPosts /\ posts' = posts + 1
      BY <1>4 DEF Post, At
    <2>1. posts + 1 \in 1..MaxPosts /\ posts' \in 0..MaxPosts
      BY <2>0, <1>r, BoundsAssumption DEF GlobalOK, BoundsAssumption
    <2> DEFINE m == [post |-> posts + 1, result |-> r.result, head |-> r.at, kind |-> r.kind]
    <2>2. wire' = wire \cup {m}
      BY <1>4 DEF Post
    <2>3. r.result \in 1..MaxResults
      <3>1. r.result \in 0..MaxResults
        BY <1>r DEF Record
      <3>2. r.result # 0
        BY <2>0 DEF Good
      <3>3. QED BY <3>1, <3>2, BoundsAssumption DEF BoundsAssumption
    <2>4. m \in Request
      BY <2>1, <2>3, <1>r DEF Request, Record
    <2>5. UNCHANGED <<clone, saved, reviews, results, dismissals>>
      BY <1>4 DEF Post
    <2> HIDE DEF m
    <2>6. QED BY <2>1, <2>2, <2>4, <2>5, <1>r DEF GlobalOK, clone
  <1>5. QED
    BY <1>1, <1>2, <1>3, <1>4
       DEF Command, Begin, DecideKind, Recheck, Succeed, FailReply, Recover, Confirm,
           RereadReviews, RereadPr, RereadClone, BeginRepost, CheckBudget, Abort

\* Every command leaves its own record as the invariant asks.
LEMMA CommandGood ==
    ASSUME ReviewInv, NEW s \in Session, Command(s)
    PROVE  Good(ses'[s])
  <1> DEFINE r == ses[s]
  <1>r. r \in Record /\ ses \in [Session -> Record] /\ GlobalOK /\ Good(r)
    BY TypeSplit DEF ReviewInv
  <1>e. CASE Return(s)
    <2>1. ses'[s].pc = "idle" /\ ses'[s].outcome = "none"
      BY <1>e, <1>r, ExitType, BoundsAssumption DEF Return
    <2>2. QED BY <2>1 DEF Good
  <1>g. ASSUME NEW label \in Pc \ {"idle", "reread", "repr", "reclone"}, GoTo(s, label),
               r.pc # "idle", label \in {"decide", "run"} \/ r.result # 0
        PROVE  Good(ses'[s])
    <2>1. ses'[s] = [r EXCEPT !.pc = label]
      BY <1>g, <1>r, GoToType
    <2>2. /\ ses'[s].pc = label /\ ses'[s].at = r.at /\ ses'[s].outcome = r.outcome
          /\ ses'[s].result = r.result
      BY <2>1, <1>r DEF Record
    <2>3. QED BY <2>2, <1>g, <1>r DEF Good
  <1>1. CASE Begin(s)
    <2> DEFINE q == [r EXCEPT !.pc = "decide", !.at = head, !.live = FALSE,
                       !.outcome = "none"]
    <2>1. q.pc = "decide" /\ q.at = head /\ q.outcome = "none"
      BY <1>r DEF Record
    <2>2. ses'[s] = q
      BY <1>1, <1>r DEF Begin, Become
    <2> HIDE DEF q
    <2>3. QED BY <2>1, <2>2 DEF Good, ReviewInv
  <1>2. CASE DecideKind(s)
    <2>1. ASSUME NEW kind \in Decide(reviews, r.at),
                 Become(s, [r EXCEPT !.pc = "run", !.kind = kind])
          PROVE  Good(ses'[s])
      <3>1. ses'[s] = [r EXCEPT !.pc = "run", !.kind = kind]
        BY <2>1, <1>r DEF Become
      <3>2. ses'[s].pc = "run" /\ ses'[s].at = r.at /\ ses'[s].outcome = r.outcome
        BY <3>1, <1>r DEF Record
      <3>3. r.pc # "idle"
        BY <1>2 DEF DecideKind, At
      <3>4. QED BY <3>2, <3>3, <1>r DEF Good
    <2>2. QED BY <1>2, <2>1, <1>e DEF DecideKind
  <1>3. CASE RunReview(s)
    <2>1. ses'[s] = [r EXCEPT !.pc = "recheck", !.result = results + 1]
      BY <1>3, <1>r DEF RunReview, Become
    <2>2. /\ ses'[s].pc = "recheck" /\ ses'[s].at = r.at /\ ses'[s].outcome = r.outcome
          /\ ses'[s].result = results + 1
      BY <2>1, <1>r DEF Record
    <2>3. r.pc # "idle" /\ results + 1 # 0
      BY <1>3, <1>r DEF RunReview, At, GlobalOK
    <2>4. QED BY <2>2, <2>3, <1>r DEF Good
  <1>4. CASE Recheck(s) \/ Save(s) \/ SaveTorn(s) \/ FailReply(s)
    <2>1. r.pc \in {"recheck", "save", "reply"}
      BY <1>4 DEF Recheck, Save, SaveTorn, FailReply, At
    <2>2. r.pc # "idle" /\ r.result # 0
      BY <2>1, <1>r DEF Good
    <2>3. Return(s) \/ GoTo(s, "save") \/ GoTo(s, "post") \/ GoTo(s, "recover")
      BY <1>4 DEF Recheck, Save, SaveTorn, FailReply
    <2>4. QED BY <2>2, <2>3, <1>e, <1>g DEF Pc
  <1>5. CASE Post(s)
    <2>1. ses'[s] = [r EXCEPT !.pc = "reply", !.post = posts + 1]
      BY <1>5, <1>r DEF Post, Become
    <2>2. /\ ses'[s].pc = "reply" /\ ses'[s].at = r.at /\ ses'[s].outcome = r.outcome
          /\ ses'[s].result = r.result
      BY <2>1, <1>r DEF Record
    <2>3. r.pc = "post"
      BY <1>5 DEF Post, At
    <2>4. QED BY <2>2, <2>3, <1>r DEF Good
  <1>6. CASE Succeed(s) \/ Abort(s)
    BY <1>6, <1>e DEF Succeed, Abort
  <1>7. CASE Recover(s)
    <2>1. ses'[s] = [r EXCEPT !.pc = "confirm", !.read = reviews]
      BY <1>7, <1>r DEF Recover, Become
    <2>2. /\ ses'[s].pc = "confirm" /\ ses'[s].at = r.at /\ ses'[s].outcome = r.outcome
          /\ ses'[s].result = r.result
      BY <2>1, <1>r DEF Record
    <2>3. r.pc = "recover"
      BY <1>7 DEF Recover, At
    <2>4. QED BY <2>2, <2>3, <1>r DEF Good
  <1>8. CASE Confirm(s)
    <2>1. r.pc = "confirm" /\ (Return(s) \/ GoTo(s, "budget") \/ GoTo(s, "reread"))
      BY <1>8 DEF Confirm, At
    <2>2. CASE GoTo(s, "reread")
      <3>1. ses'[s] = [r EXCEPT !.pc = "reread"]
        BY <2>2, <1>r, GoToType DEF Pc
      <3>2. /\ ses'[s].pc = "reread" /\ ses'[s].at = r.at /\ ses'[s].outcome = r.outcome
            /\ ses'[s].result = r.result /\ ses'[s].read = r.read
        BY <3>1, <1>r DEF Record
      <3>3. ~Return(s) /\ ~GoTo(s, "budget")
        <4>1. CASE Return(s)
          BY <4>1, <3>2, <1>r, ExitType, BoundsAssumption DEF Return
        <4>2. CASE GoTo(s, "budget")
          <5>1. ses'[s] = [r EXCEPT !.pc = "budget"]
            BY <4>2, <1>r, GoToType DEF Pc
          <5>2. QED BY <5>1, <3>2, <1>r DEF Record
        <4>3. QED BY <4>1, <4>2
      <3>4. prHead = r.at /\ Matches(r)
        BY <1>8, <3>3 DEF Confirm, Matches
      <3>5. Matches(ses'[s])
        BY <3>2, <3>4 DEF Matches
      <3>6. QED BY <3>2, <3>4, <3>5, <2>1, <1>r DEF Good
    <2>3. r.result # 0
      BY <2>1, <1>r DEF Good
    <2>4. QED BY <2>1, <2>2, <2>3, <1>e, <1>g DEF Pc
  <1>9. CASE RereadReviews(s)
    <2>0. r.pc = "reread"
      BY <1>9 DEF RereadReviews, At
    <2>1. ASSUME reviews = r.read, Become(s, [r EXCEPT !.pc = "repr", !.live = Live(r)])
          PROVE  Good(ses'[s])
      <3>1. ses'[s] = [r EXCEPT !.pc = "repr", !.live = Live(r)]
        BY <2>1, <1>r DEF Become
      <3>2. /\ ses'[s].pc = "repr" /\ ses'[s].at = r.at /\ ses'[s].outcome = r.outcome
            /\ ses'[s].result = r.result /\ ses'[s].live = Live(r)
        BY <3>1, <1>r DEF Record
      <3>3. head = r.at => prHead = r.at /\ Live(r)
        BY <2>0, <2>1, <1>r DEF Good, Matches, Live
      <3>4. QED BY <3>2, <3>3, <2>0, <1>r DEF Good
    <2>2. QED BY <1>9, <2>1, <1>e DEF RereadReviews
  <1>10. CASE RereadPr(s)
    <2>0. r.pc = "repr"
      BY <1>10 DEF RereadPr, At
    <2>1. CASE GoTo(s, "reclone")
      <3>1. ses'[s] = [r EXCEPT !.pc = "reclone"]
        BY <2>1, <1>r, GoToType DEF Pc
      <3>2. /\ ses'[s].pc = "reclone" /\ ses'[s].at = r.at /\ ses'[s].outcome = r.outcome
            /\ ses'[s].result = r.result /\ ses'[s].live = r.live
        BY <3>1, <1>r DEF Record
      <3>3. QED BY <3>2, <2>0, <1>r DEF Good
    <2>2. QED BY <1>10, <2>1, <1>e DEF RereadPr
  <1>11. CASE RereadClone(s)
    <2>1. CASE head = r.at /\ Exit(s, "confirmed")
      <3>1. r.live
        BY <1>11, <2>1, <1>r DEF RereadClone, At, Good
      <3>2. /\ ses'[s].pc = "idle"
            /\ ses'[s].live = (r.live /\ "confirmed" = "confirmed")
        BY <2>1, <1>r, ExitType, BoundsAssumption
      <3>3. QED BY <3>1, <3>2 DEF Good
    <2>2. QED BY <1>11, <2>1, <1>e DEF RereadClone
  <1>12. CASE BeginRepost(s)
    <2>1. PICK kind \in Kinds :
            /\ saved[<<head, kind>>] \notin {NoFile, Torn}
            /\ Become(s, [r EXCEPT
                    !.pc = IF saved[<<head, kind>>].published THEN "recover" ELSE "budget",
                    !.repost = TRUE, !.at = head, !.kind = kind,
                    !.result = saved[<<head, kind>>].result,
                    !.read = IF saved[<<head, kind>>].published THEN << >> ELSE reviews,
                    !.live = FALSE, !.outcome = "none"])
      BY <1>12 DEF BeginRepost
    <2> DEFINE file == saved[<<head, kind>>]
    <2>2. file.result # 0
      <3>1. <<head, kind>> \in Commit \X Kinds
        BY <1>r DEF GlobalOK
      <3>2. QED BY <2>1, <3>1 DEF ReviewInv, SavedInv
    <2>3. /\ ses'[s].pc \in {"recover", "budget"} /\ ses'[s].at = head
          /\ ses'[s].result = file.result /\ ses'[s].outcome = "none"
      BY <2>1, <1>r DEF Become, Record
    <2>4. QED BY <2>2, <2>3 DEF Good, ReviewInv
  <1>13. CASE CheckBudget(s)
    <2>1. CASE Become(s, [r EXCEPT !.pc = "save", !.read = << >>])
      <3>1. ses'[s] = [r EXCEPT !.pc = "save", !.read = << >>]
        BY <2>1, <1>r DEF Become
      <3>2. /\ ses'[s].pc = "save" /\ ses'[s].at = r.at /\ ses'[s].outcome = r.outcome
            /\ ses'[s].result = r.result
        BY <3>1, <1>r DEF Record
      <3>3. r.pc = "budget"
        BY <1>13 DEF CheckBudget, At
      <3>4. QED BY <3>2, <3>3, <1>r DEF Good
    <2>2. QED BY <1>13, <2>1, <1>e DEF CheckBudget
  <1>14. QED BY <1>1, <1>2, <1>3, <1>4, <1>5, <1>6, <1>7, <1>8, <1>9, <1>10, <1>11,
                <1>12, <1>13 DEF Command

LEMMA CommandKeeps ==
    ASSUME ReviewInv, NEW s \in Session, Command(s)
    PROVE  ReviewInv'
  <1> DEFINE r == ses[s]
  <1>r. r \in Record /\ ses \in [Session -> Record] /\ GlobalOK /\ Good(r) /\ TypeOK
    BY TypeSplit DEF ReviewInv
  <1>c. UNCHANGED clone
    BY DEF Command, Begin, DecideKind, RunReview, Recheck, Save, SaveTorn, Post, Succeed, FailReply,
           Recover, Confirm, RereadReviews, RereadPr, RereadClone, BeginRepost,
           CheckBudget, Abort
  <1>1. TypeOK'
    <2>1. GlobalOK' /\ ses' \in [Session -> Record]
      BY <1>r, CommandGlobal, CommandSes
    <2>2. QED BY <2>1 DEF TypeOK, GlobalOK
  <1>2. SavedInv'
    <2>1. CASE UNCHANGED saved
      BY <2>1 DEF ReviewInv, SavedInv
    <2>2. CASE Save(s) \/ SaveTorn(s)
      <3>1. PICK file \in File :
              /\ file.result = r.result \/ file = Torn
              /\ saved' = [saved EXCEPT ![<<r.at, r.kind>>] = file]
        BY <2>2, <1>r, SaveFile
      <3>2. r.result # 0
        BY <2>2, <1>r DEF Save, SaveTorn, At, Good
      <3>3. \A f \in Commit \X Kinds :
              \/ saved'[f] = saved[f]
              \/ saved'[f].result = r.result
              \/ saved'[f] = Torn
        BY <3>1, <1>r DEF GlobalOK
      <3>4. QED BY <3>2, <3>3 DEF ReviewInv, SavedInv
    <2>3. QED
      BY <2>1, <2>2
         DEF Command, Begin, DecideKind, RunReview, Recheck, Post, Succeed, FailReply,
             Recover, Confirm, RereadReviews, RereadPr, RereadClone, BeginRepost,
             CheckBudget, Abort
  <1>3. (anc[head] # {})'
    BY <1>c DEF ReviewInv, clone
  <1>4. ASSUME NEW t \in Session
        PROVE  Good(ses[t])'
    <2>1. Good(ses'[t])
      <3>1. CASE t = s
        BY <3>1, CommandGood
      <3>2. CASE t # s
        <4>1. ses'[t] = ses[t]
          BY <3>2, <1>r
             DEF Command, Begin, DecideKind, RunReview, Recheck, Save, SaveTorn, Post, Succeed,
                 FailReply, Recover, Confirm, RereadReviews, RereadPr, RereadClone,
                 BeginRepost, CheckBudget, Abort, Return, Exit, GoTo, Become
        <4>2. QED BY <4>1 DEF ReviewInv
      <3>3. QED BY <3>1, <3>2
    <2>2. QED BY <2>1, <1>c DEF Good, clone
  <1>5. QED BY <1>1, <1>2, <1>3, <1>4 DEF ReviewInv

\* GitHub, people and the worker.
LEMMA OutsideKeeps ==
    ASSUME ReviewInv,
           \/ \E m \in wire : Land(m)
           \/ \E i \in DOMAIN reviews : Dismiss(i)
           \/ Edit \/ Push \/ \E c \in Commit : NewCommit(c)
    PROVE  ReviewInv'
  <1>t. TypeOK /\ GlobalOK /\ ses \in [Session -> Record] /\ SavedInv
    BY TypeSplit DEF ReviewInv
  <1>u. UNCHANGED <<saved, ses>>
    BY DEF Land, Dismiss, Edit, Push, NewCommit
  <1>1. ASSUME NEW m \in wire, Land(m)
        PROVE  GlobalOK' /\ UNCHANGED clone
    <2> DEFINE p == [result |-> m.result, head |-> m.head, kind |-> m.kind, live |-> TRUE]
    <2>1. p \in Posted
      BY <1>t DEF GlobalOK, Request, Posted
    <2>2. reviews' = reviews \/ reviews' = Append(reviews, p)
      BY <1>1 DEF Land
    <2> HIDE DEF p
    <2>3. reviews' \in Seq(Posted)
      BY <2>1, <2>2, <1>t, AppendProperties DEF GlobalOK
    <2>4. wire' \subseteq Request
      BY <1>1, <1>t DEF Land, GlobalOK
    <2>5. UNCHANGED <<clone, saved, counts>>
      BY <1>1 DEF Land
    <2>6. QED BY <2>3, <2>4, <2>5, <1>t DEF GlobalOK, clone, counts
  <1>2. ASSUME NEW i \in DOMAIN reviews, Dismiss(i)
        PROVE  GlobalOK' /\ UNCHANGED clone
    <2> DEFINE p == [reviews[i] EXCEPT !.live = FALSE]
    <2>1. reviews \in Seq(Posted) /\ i \in 1..Len(reviews)
      BY <1>t DEF GlobalOK
    <2>2. reviews[i] \in Posted
      BY <2>1
    <2>3. p \in Posted
      BY <2>2 DEF Posted
    <2>4. reviews' = [reviews EXCEPT ![i] = p]
      BY <1>2 DEF Dismiss
    <2> HIDE DEF p
    <2>5. reviews' \in Seq(Posted)
      BY <2>1, <2>3, <2>4, ExceptSeq
    <2>6. dismissals' \in 0..MaxDismissals
      BY <1>2, <1>t, BoundsAssumption DEF Dismiss, GlobalOK, BoundsAssumption
    <2>7. UNCHANGED <<clone, saved, wire, results, posts>>
      BY <1>2 DEF Dismiss
    <2>8. QED BY <2>5, <2>6, <2>7, <1>t DEF GlobalOK, clone
  <1>3. CASE UNCHANGED clone /\ GlobalOK'
    <2>1. TypeOK'
      BY <1>3, <1>t, <1>u DEF TypeOK, GlobalOK
    <2>2. SavedInv'
      BY <1>t, <1>u DEF SavedInv
    <2>3. QED BY <2>1, <2>2, <1>3, <1>u DEF ReviewInv, Good, clone
  <1>4. CASE Edit
    <2>1. UNCHANGED <<head, prHead, anc, saved, reviews, wire, counts, ses>>
          /\ dirty' \in BOOLEAN
      BY <1>4, <1>t DEF Edit, GlobalOK
    <2>2. TypeOK'
      BY <2>1, <1>t DEF TypeOK, counts
    <2>3. QED BY <2>1, <2>2 DEF ReviewInv, Good, SavedInv
  <1>5. CASE Push
    <2>1. UNCHANGED <<head, dirty, anc, saved, reviews, wire, counts, ses>>
          /\ prHead' = head
      BY <1>5 DEF Push
    <2>2. TypeOK'
      BY <2>1, <1>t DEF TypeOK, counts
    <2>3. QED BY <2>1, <2>2 DEF ReviewInv, Good, SavedInv
  <1>6. ASSUME NEW c \in Commit, NewCommit(c)
        PROVE  ReviewInv'
    <2>1. /\ UNCHANGED <<prHead, saved, reviews, wire, counts, ses>>
          /\ head' = c /\ dirty' = FALSE /\ anc[c] = {}
      BY <1>6 DEF NewCommit
    <2>2. PICK below \in SUBSET Commit : anc' = [anc EXCEPT ![c] = below \cup {c}]
      BY <1>6, <1>t DEF NewCommit, GlobalOK
    <2>3. /\ anc' \in [Commit -> SUBSET Commit] /\ anc'[c] # {}
          /\ \A d \in Commit : anc[d] # {} => anc'[d] # {} /\ d # c
      BY <2>1, <2>2, <1>t DEF GlobalOK
    <2>4. TypeOK'
      BY <2>1, <2>3, <1>t DEF TypeOK, counts
    <2>5. SavedInv'
      BY <2>1, <1>t DEF SavedInv
    <2>6. ASSUME NEW s \in Session PROVE Good(ses[s])'
      <3>1. ses[s].at \in Commit /\ Good(ses[s]) /\ ses'[s] = ses[s]
        BY <2>1, <1>t DEF Record, ReviewInv
      <3>2. ses[s].pc # "idle" => anc'[ses[s].at] # {} /\ head' # ses[s].at
        BY <2>1, <2>3, <3>1 DEF Good
      <3>3. QED BY <3>1, <3>2 DEF Good
    <2>7. QED BY <2>1, <2>3, <2>4, <2>5, <2>6 DEF ReviewInv
  <1>7. QED BY <1>1, <1>2, <1>3, <1>4, <1>5, <1>6

LEMMA InitReview == Init => ReviewInv
  <1> SUFFICES ASSUME Init PROVE ReviewInv
    OBVIOUS
  <1>1. head \in Commit /\ anc[head] # {} /\ anc \in [Commit -> SUBSET Commit]
    BY DEF Init
  <1>2. NoFile \in File /\ SavedInv /\ saved \in [Commit \X Kinds -> File]
    BY BoundsAssumption DEF Init, SavedInv, NoFile, File, BoundsAssumption
  <1>3. GlobalOK
    <2>1. /\ prHead = head /\ dirty = FALSE /\ reviews = << >> /\ wire = {}
          /\ results = 0 /\ posts = 0 /\ dismissals = 0
      BY DEF Init
    <2>2. 0 \in 0..MaxResults /\ 0 \in 0..MaxPosts /\ 0 \in 0..MaxDismissals
      BY BoundsAssumption DEF BoundsAssumption
    <2>3. reviews \in Seq(Posted)
      BY <2>1, EmptyRead
    <2>4. QED BY <1>1, <1>2, <2>1, <2>2, <2>3, Zenon DEF GlobalOK
  <1> DEFINE r == [pc |-> "idle", repost |-> FALSE, at |-> head, kind |-> "primary",
                   result |-> 0, post |-> 0, read |-> << >>, live |-> FALSE,
                   outcome |-> "none"]
  <1>4. r \in Record
    BY <1>1, EmptyRead, BoundsAssumption DEF Record, Pc, Kinds, BoundsAssumption
  <1>5. Good(r)
    BY DEF Good
  <1>6. ses = [s \in Session |-> r]
    BY DEF Init
  <1> HIDE DEF r
  <1>7. ses \in [Session -> Record] /\ \A s \in Session : Good(ses[s])
    BY <1>4, <1>5, <1>6
  <1>8. QED BY <1>1, <1>2, <1>3, <1>7, TypeSplit DEF ReviewInv

LEMMA ReviewInvariant == Spec => []ReviewInv
  <1>1. ReviewInv /\ [Next]_vars => ReviewInv'
    <2> SUFFICES ASSUME ReviewInv, [Next]_vars PROVE ReviewInv'
      OBVIOUS
    <2>1. CASE UNCHANGED vars
      <3>1. UNCHANGED <<clone, saved, reviews, wire, counts, ses>>
        BY <2>1 DEF vars
      <3>2. TypeOK'
        BY <3>1 DEF ReviewInv, TypeOK, clone, counts
      <3>3. SavedInv' /\ (anc[head] # {})'
        BY <3>1 DEF ReviewInv, SavedInv, clone
      <3>4. \A s \in Session : Good(ses[s])'
        BY <3>1 DEF ReviewInv, Good, clone
      <3>5. QED BY <3>2, <3>3, <3>4 DEF ReviewInv
    <2>2. CASE Next
      BY <2>2, CommandKeeps, OutsideKeeps DEF Next
    <2>3. QED BY <2>1, <2>2
  <1>2. QED BY <1>1, InitReview, PTL DEF Spec

-----------------------------------------------------------------------------
\* Every state of Review has its type, whatever is posted, lost or dismissed.
THEOREM TypeCorrect == Spec => []TypeOK
  BY ReviewInvariant, PTL DEF ReviewInv

\* A confirmed publication was live at one instant (cli._confirm_review), for
\* any number of sessions, reviews and dismissals, with requests that may land
\* after their failure.
THEOREM ConfirmedLive == Spec => []ConfirmedIsLive
  <1>1. ReviewInv => ConfirmedIsLive
    BY DEF ReviewInv, Good, ConfirmedIsLive
  <1>2. QED BY <1>1, ReviewInvariant, PTL

-----------------------------------------------------------------------------
(* One session, and requests that are decided before it moves on: the       *)
(* budget is kept, and every post can be reconciled with its saved file.    *)

OneSession == \A s, t \in Session : s = t

\* The lineage of h has a review of this kind; it is free for a new one.
Has(kind, h) == \E i \in DOMAIN reviews : reviews[i].kind = kind /\ reviews[i].head \in anc[h]
Free(h, kind) == ~Has("delta", h) /\ (kind = "primary" <=> ~Has("primary", h))

\* The ancestors of an ancestor are ancestors, two commits are not each other's,
\* and nothing is above HEAD.
LineageInv ==
    /\ \A x \in Commit : anc[x] # {} => x \in anc[x]
    /\ \A x \in Commit : \A h \in anc[x] : anc[h] # {} /\ anc[h] \subseteq anc[x]
    /\ \A x \in Commit : \A h \in anc[x] : x \in anc[h] => x = h
    /\ \A x \in Commit : head \in anc[x] => x = head

\* Reviews are of commits that exist, and below a delta there is its primary.
PublishedInv ==
    \A i \in DOMAIN reviews :
        /\ anc[reviews[i].head] # {}
        /\ reviews[i].kind = "delta" => Has("primary", reviews[i].head)

\* A list that was read shows what GitHub shows, dismissals aside.
SameMarkers(list) ==
    /\ DOMAIN list = DOMAIN reviews
    /\ \A i \in DOMAIN list : list[i].head = reviews[i].head /\ list[i].kind = reviews[i].kind

\* No review came between commit h and those made on top of it.
Newest(h) ==
    \A x \in Commit : h \in anc[x] =>
        \A i \in DOMAIN reviews : reviews[i].head \in anc[x] => reviews[i].head \in anc[h]

\* What was decided is still allowed; what is about to be posted is saved.
Budgeted(r) ==
    /\ r.pc # "idle" => Newest(r.at)
    /\ r.pc \in {"run", "recheck", "save", "post"} => Free(r.at, r.kind)
    /\ r.pc \in {"confirm", "budget"} => SameMarkers(r.read)
    /\ r.pc = "post" =>
          saved[<<r.at, r.kind>>] = [result |-> r.result, published |-> TRUE]

\* A request on its way is the one its session waits for.
Awaited(m) ==
    /\ Free(m.head, m.kind)
    /\ \E s \in Session :
          /\ ses[s].pc = "reply" /\ ses[s].post = m.post
          /\ ses[s].at = m.head /\ ses[s].kind = m.kind /\ ses[s].result = m.result

OneInv ==
    /\ ReviewInv /\ LineageInv /\ PublishedInv /\ SavedBeforePosted
    /\ \A s \in Session : Budgeted(ses[s])
    /\ \A m \in wire : Awaited(m)

\* What the budget leaves is free in the lineage of the commit.
LEMMA DecideFree ==
    ASSUME ReviewInv, LineageInv, PublishedInv
    PROVE  \A list, h : \A kind \in Decide(list, h) :
              h \in Commit /\ SameMarkers(list) => Free(h, kind)
  <1> SUFFICES ASSUME NEW list, NEW h \in Commit, NEW kind \in Decide(list, h),
                      SameMarkers(list)
               PROVE  Free(h, kind)
    OBVIOUS
  <1>1. \A k : Has(k, h) <=> Markers(list, h, k) # {}
    BY DEF Has, Markers, SameMarkers
  <1>2. Has("delta", h) => Has("primary", h)
    <2> SUFFICES ASSUME NEW i \in DOMAIN reviews, reviews[i].kind = "delta",
                        reviews[i].head \in anc[h]
                 PROVE  Has("primary", h)
      BY DEF Has
    <2>1. Has("primary", reviews[i].head)
      BY DEF PublishedInv
    <2>2. anc[reviews[i].head] \subseteq anc[h]
      BY DEF LineageInv
    <2>3. QED BY <2>1, <2>2 DEF Has
  <1>3. CASE Markers(list, h, "primary") = {}
    <2>1. kind = "primary"
      BY <1>3 DEF Decide
    <2>2. QED BY <1>1, <1>2, <1>3, <2>1 DEF Free
  <1>4. CASE Markers(list, h, "primary") # {}
    <2>1. kind = "delta" /\ Markers(list, h, "delta") = {}
      BY <1>4 DEF Decide
    <2>2. QED BY <1>1, <1>4, <2>1 DEF Free
  <1>5. QED BY <1>3, <1>4

\* The one session moves on only when nothing is on its way.
LEMMA NoWire ==
    ASSUME OneInv, OneSession, ~Delayed, NEW s \in Session, Command(s)
    PROVE  wire = {}
  <1> SUFFICES ASSUME NEW m \in wire PROVE FALSE
    OBVIOUS
  <1>1. ses[s].pc = "reply" /\ ses[s].post = m.post
    BY DEF OneInv, Awaited, OneSession
  <1>2. InFlight(s)
    BY <1>1 DEF InFlight
  <1>3. QED
    BY <1>1, <1>2 DEF Command, Begin, DecideKind, RunReview, Recheck, Save, SaveTorn, Post, Succeed,
       FailReply, Recover, Confirm, RereadReviews, RereadPr, RereadClone, BeginRepost,
       CheckBudget, Abort, At

\* Every command leaves its own record as the invariant asks.
LEMMA CommandBudgeted ==
    ASSUME OneInv, NEW s \in Session, Command(s)
    PROVE  Budgeted(ses[s])'
  <1> DEFINE r == ses[s]
  <1>r. /\ r \in Record /\ ses \in [Session -> Record] /\ GlobalOK /\ Good(r)
        /\ Budgeted(r) /\ r.at \in Commit
    BY TypeSplit DEF OneInv, ReviewInv, Record
  <1>u. UNCHANGED <<clone, reviews>>
    BY DEF Command, Begin, DecideKind, RunReview, Recheck, Save, SaveTorn, Post, Succeed, FailReply,
           Recover, Confirm, RereadReviews, RereadPr, RereadClone, BeginRepost,
           CheckBudget, Abort
  <1>b. \A q : Become(s, q) => ses'[s] = q
    BY <1>r DEF Become
  <1>n. /\ \A h : Newest(h) => Newest(h)'
        /\ \A h, k : Free(h, k) => Free(h, k)'
        /\ \A list : SameMarkers(list) => SameMarkers(list)'
    BY <1>u DEF Newest, Free, Has, SameMarkers, clone
  <1>i. ASSUME ses'[s].pc = "idle" PROVE Budgeted(ses[s])'
    BY <1>i DEF Budgeted
  <1>e. CASE Return(s) \/ Exit(s, "confirmed")
    BY <1>e, <1>i, <1>r, ExitType, BoundsAssumption DEF Return
  <1>g. ASSUME NEW label \in Pc, GoTo(s, label)
        PROVE  /\ ses'[s].pc = label /\ ses'[s].at = r.at /\ ses'[s].kind = r.kind
               /\ ses'[s].read = r.read /\ ses'[s].result = r.result
    <2>1. ses'[s] = [r EXCEPT !.pc = label]
      BY <1>g, <1>r, GoToType
    <2>2. QED BY <2>1, <1>r DEF Record
  \* The commit stays, and nothing but that is claimed.
  <1>k. ASSUME r.pc # "idle", ses'[s].at = r.at,
               ses'[s].pc \notin {"run", "recheck", "save", "post", "confirm", "budget"}
        PROVE  Budgeted(ses[s])'
    BY <1>k, <1>r, <1>n DEF Budgeted
  <1>1. CASE Begin(s)
    <2>1. ses'[s].pc = "decide" /\ ses'[s].at = head
      BY <1>1, <1>r, <1>b DEF Begin, Record
    <2>2. Newest(head)
      BY DEF Newest, OneInv, LineageInv
    <2>3. QED BY <2>1, <2>2, <1>n DEF Budgeted
  <1>2. CASE DecideKind(s)
    <2>1. ASSUME NEW kind \in Decide(reviews, r.at),
                 Become(s, [r EXCEPT !.pc = "run", !.kind = kind])
          PROVE  Budgeted(ses[s])'
      <3>1. ses'[s] = [r EXCEPT !.pc = "run", !.kind = kind]
        BY <2>1, <1>b
      <3>2. ses'[s].pc = "run" /\ ses'[s].at = r.at /\ ses'[s].kind = kind
        BY <3>1, <1>r DEF Record
      <3>3. SameMarkers(reviews)
        BY DEF SameMarkers
      <3>4. Free(r.at, kind)
        BY <2>1, <3>3, <1>r, DecideFree DEF OneInv
      <3>5. r.pc # "idle"
        BY <1>2 DEF DecideKind, At
      <3>6. QED BY <3>2, <3>4, <3>5, <1>r, <1>n DEF Budgeted
    <2>2. QED BY <1>2, <2>1, <1>e DEF DecideKind
  <1>3. CASE RunReview(s)
    <2>1. ses'[s] = [r EXCEPT !.pc = "recheck", !.result = results + 1]
      BY <1>3, <1>b DEF RunReview
    <2>2. ses'[s].pc = "recheck" /\ ses'[s].at = r.at /\ ses'[s].kind = r.kind /\ r.pc = "run"
      BY <2>1, <1>r, <1>3 DEF Record, RunReview, At
    <2>3. QED BY <2>2, <1>r, <1>n DEF Budgeted
  <1>4. CASE Recheck(s)
    <2>1. r.pc = "recheck" /\ (Return(s) \/ GoTo(s, "save"))
      BY <1>4 DEF Recheck, At
    <2>2. CASE GoTo(s, "save")
      BY <2>1, <2>2, <1>g, <1>r, <1>n DEF Budgeted, Pc
    <2>3. QED BY <2>1, <2>2, <1>e
  <1>5. CASE Save(s)
    <2>1. PICK publishable \in BOOLEAN :
            /\ saved' = [saved EXCEPT ![<<r.at, r.kind>>] =
                           [[result |-> r.result, published |-> TRUE]
                              EXCEPT !.published = publishable]]
            /\ IF publishable THEN GoTo(s, "post") ELSE Return(s)
      BY <1>5 DEF Save
    <2>2. CASE publishable
      <3>1. <<r.at, r.kind>> \in Commit \X Kinds
        BY <1>r DEF Record
      <3>2. saved'[<<r.at, r.kind>>] = [result |-> r.result, published |-> TRUE]
        BY <2>1, <2>2, <3>1, <1>r DEF GlobalOK
      <3>3. /\ ses'[s].pc = "post" /\ ses'[s].at = r.at /\ ses'[s].kind = r.kind
            /\ ses'[s].result = r.result /\ r.pc = "save"
        BY <2>1, <2>2, <1>g, <1>5 DEF Save, At, Pc
      <3>4. QED BY <3>2, <3>3, <1>r, <1>n DEF Budgeted
    <2>3. QED BY <2>1, <2>2, <1>e
  <1>6. CASE Post(s)
    <2>1. ses'[s] = [r EXCEPT !.pc = "reply", !.post = posts + 1]
      BY <1>6, <1>b DEF Post
    <2>2. ses'[s].pc = "reply" /\ ses'[s].at = r.at /\ r.pc = "post"
      BY <2>1, <1>r, <1>6 DEF Record, Post, At
    <2>3. QED BY <2>2, <1>k
  <1>7. CASE Succeed(s) \/ SaveTorn(s) \/ Abort(s)
    BY <1>7, <1>e DEF Succeed, SaveTorn, Abort
  <1>8. CASE FailReply(s)
    <2>1. r.pc = "reply" /\ GoTo(s, "recover")
      BY <1>8 DEF FailReply, At
    <2>2. QED BY <2>1, <1>g, <1>k DEF Pc
  <1>9. CASE Recover(s)
    <2>1. ses'[s] = [r EXCEPT !.pc = "confirm", !.read = reviews]
      BY <1>9, <1>b DEF Recover
    <2>2. /\ ses'[s].pc = "confirm" /\ ses'[s].at = r.at /\ ses'[s].read = reviews
          /\ r.pc = "recover"
      BY <2>1, <1>r, <1>9 DEF Record, Recover, At
    <2>3. SameMarkers(ses[s].read)'
      BY <2>2, <1>u DEF SameMarkers
    <2>4. QED BY <2>2, <2>3, <1>r, <1>n DEF Budgeted
  <1>10. CASE Confirm(s)
    <2>1. r.pc = "confirm" /\ (Return(s) \/ GoTo(s, "budget") \/ GoTo(s, "reread"))
      BY <1>10 DEF Confirm, At
    <2>2. CASE GoTo(s, "budget")
      BY <2>1, <2>2, <1>g, <1>r, <1>n DEF Budgeted, Pc
    <2>3. CASE GoTo(s, "reread")
      BY <2>1, <2>3, <1>g, <1>k DEF Pc
    <2>4. QED BY <2>1, <2>2, <2>3, <1>e
  <1>11. CASE RereadReviews(s)
    <2> DEFINE q == [r EXCEPT !.pc = "repr", !.live = Live(r)]
    <2>1. r.pc = "reread" /\ (Return(s) \/ Become(s, q))
      BY <1>11 DEF RereadReviews, At
    <2>2. q.pc = "repr" /\ q.at = r.at
      BY <1>r DEF Record
    <2> HIDE DEF q
    <2>3. CASE Become(s, q)
      BY <2>1, <2>2, <2>3, <1>b, <1>k
    <2>4. QED BY <2>1, <2>3, <1>e
  <1>12. CASE RereadPr(s)
    <2>1. r.pc = "repr" /\ (Return(s) \/ GoTo(s, "reclone"))
      BY <1>12 DEF RereadPr, At
    <2>2. CASE GoTo(s, "reclone")
      BY <2>1, <2>2, <1>g, <1>k DEF Pc
    <2>3. QED BY <2>1, <2>2, <1>e
  <1>13. CASE RereadClone(s)
    BY <1>13, <1>e DEF RereadClone
  <1>14. CASE BeginRepost(s)
    <2>1. PICK label, kind, result, list :
            /\ label = "recover" \/ (label = "budget" /\ list = reviews)
            /\ Become(s, [r EXCEPT !.pc = label, !.repost = TRUE, !.at = head, !.kind = kind,
                            !.result = result, !.read = list, !.live = FALSE,
                            !.outcome = "none"])
      BY <1>14 DEF BeginRepost
    <2>2. ses'[s].pc = label /\ ses'[s].at = head /\ ses'[s].read = list
      BY <2>1, <1>b, <1>r DEF Record
    <2>3. Newest(head)
      BY DEF Newest, OneInv, LineageInv
    <2>4. ses'[s].read = reviews => SameMarkers(ses[s].read)'
      BY <1>u DEF SameMarkers
    <2>5. QED BY <2>1, <2>2, <2>3, <2>4, <1>n DEF Budgeted
  <1>15. CASE CheckBudget(s)
    <2>1. CASE r.kind \in Decide(r.read, r.at)
      <3>1. ses'[s] = [r EXCEPT !.pc = "save", !.read = << >>]
        BY <1>15, <2>1, <1>b DEF CheckBudget
      <3>2. ses'[s].pc = "save" /\ ses'[s].at = r.at /\ ses'[s].kind = r.kind /\ r.pc = "budget"
        BY <3>1, <1>r, <1>15 DEF Record, CheckBudget, At
      <3>3. Free(r.at, r.kind)
        BY <2>1, <3>2, <1>r, DecideFree DEF OneInv, Budgeted
      <3>4. QED BY <3>2, <3>3, <1>r, <1>n DEF Budgeted
    <2>2. QED BY <1>15, <2>1, <1>e DEF CheckBudget
  <1>16. QED BY <1>1, <1>2, <1>3, <1>4, <1>5, <1>6, <1>7, <1>8, <1>9, <1>10, <1>11,
                <1>12, <1>13, <1>14, <1>15 DEF Command

\* What the session sends is awaited, and what it saves displaces no review.
LEMMA CommandPosts ==
    ASSUME OneInv, OneSession, ~Delayed, NEW s \in Session, Command(s)
    PROVE  SavedBeforePosted' /\ \A m \in wire' : Awaited(m)'
  <1> DEFINE r == ses[s]
  <1>r. /\ r \in Record /\ ses \in [Session -> Record] /\ GlobalOK /\ Good(r)
        /\ Budgeted(r) /\ r.at \in Commit /\ r.kind \in Kinds
    BY TypeSplit DEF OneInv, ReviewInv, Record
  <1>w. wire = {}
    BY NoWire
  <1>1. CASE UNCHANGED <<saved, reviews, wire>>
    BY <1>1, <1>w DEF OneInv, SavedBeforePosted
  <1>2. CASE Save(s) \/ SaveTorn(s)
    <2>1. PICK file \in File : saved' = [saved EXCEPT ![<<r.at, r.kind>>] = file]
      BY <1>2, <1>r, SaveFile
    <2>2. r.pc = "save" /\ UNCHANGED <<reviews, wire>>
      BY <1>2 DEF Save, SaveTorn, At
    <2>3. r.at \in anc[r.at] /\ Free(r.at, r.kind)
      BY <2>2, <1>r DEF Good, Budgeted, OneInv, LineageInv
    <2>4. ASSUME NEW i \in DOMAIN reviews
          PROVE  saved'[<<reviews[i].head, reviews[i].kind>>]
                   = saved[<<reviews[i].head, reviews[i].kind>>]
      <3>1. ~(reviews[i].head = r.at /\ reviews[i].kind = r.kind)
        BY <2>3, <1>r DEF Free, Has, Kinds
      <3>2. <<reviews[i].head, reviews[i].kind>> # <<r.at, r.kind>>
        BY <3>1
      <3>3. reviews[i] \in Posted
        BY <1>r DEF GlobalOK
      <3>4. <<reviews[i].head, reviews[i].kind>> \in Commit \X Kinds
        BY <3>3 DEF Posted
      <3>5. QED BY <2>1, <3>2, <3>4, <1>r DEF GlobalOK
    <2>5. QED BY <1>w, <2>2, <2>4 DEF OneInv, SavedBeforePosted
  <1>3. CASE Post(s)
    <2>1. PICK m : m = [post |-> posts + 1, result |-> r.result, head |-> r.at, kind |-> r.kind]
      OBVIOUS
    <2>2. /\ r.pc = "post" /\ wire' = {m} /\ UNCHANGED <<clone, saved, reviews>>
          /\ ses' = [ses EXCEPT ![s] = [r EXCEPT !.pc = "reply", !.post = posts + 1]]
      BY <1>3, <1>w, <2>1 DEF Post, At, Become
    <2>3. /\ m.post = posts + 1 /\ m.head = r.at /\ m.kind = r.kind /\ m.result = r.result
          /\ Free(m.head, m.kind)
          /\ saved[<<m.head, m.kind>>] = [result |-> m.result, published |-> TRUE]
      BY <2>1, <2>2, <1>r DEF Budgeted
    <2>4. /\ ses'[s].pc = "reply" /\ ses'[s].post = m.post /\ ses'[s].at = m.head
          /\ ses'[s].kind = m.kind /\ ses'[s].result = m.result
      BY <2>2, <2>3, <1>r DEF Record
    <2>5. SavedBeforePosted'
      BY <2>2, <2>3 DEF OneInv, SavedBeforePosted
    <2>6. \A n \in wire' : Awaited(n)'
      <3>1. Free(m.head, m.kind)'
        BY <2>2, <2>3 DEF Free, Has, clone
      <3>2. QED BY <2>2, <2>4, <3>1 DEF Awaited
    <2>7. QED BY <2>5, <2>6
  <1>4. QED
    BY <1>1, <1>2, <1>3
       DEF Command, Begin, DecideKind, RunReview, Recheck, Succeed, FailReply, Recover,
           Confirm, RereadReviews, RereadPr, RereadClone, BeginRepost, CheckBudget, Abort

LEMMA CommandOne ==
    ASSUME OneInv, OneSession, ~Delayed, NEW s \in Session, Command(s)
    PROVE  OneInv'
  <1>u. UNCHANGED <<clone, reviews>>
    BY DEF Command, Begin, DecideKind, RunReview, Recheck, Save, SaveTorn, Post, Succeed, FailReply,
           Recover, Confirm, RereadReviews, RereadPr, RereadClone, BeginRepost,
           CheckBudget, Abort
  <1>1. ReviewInv'
    BY CommandKeeps DEF OneInv
  <1>2. LineageInv' /\ PublishedInv'
    BY <1>u DEF OneInv, LineageInv, PublishedInv, Has, clone
  <1>3. \A t \in Session : Budgeted(ses[t])'
    BY CommandBudgeted DEF OneSession
  <1>4. QED BY <1>1, <1>2, <1>3, CommandPosts DEF OneInv

-----------------------------------------------------------------------------
(* GitHub, people and the worker.                                          *)

\* What a request that lands adds, and where it comes from.
LEMMA LandShape ==
    ASSUME OneInv, OneSession, NEW m \in wire, Land(m)
    PROVE  /\ wire' = {} /\ UNCHANGED <<clone, saved, counts, ses>>
           /\ m \in Request /\ anc[m.head] # {} /\ Newest(m.head) /\ Free(m.head, m.kind)
           /\ \A s \in Session : ses[s].pc = "reply" /\ ses[s].at = m.head
           /\ reviews \in Seq(Posted)
           /\ saved[<<m.head, m.kind>>] = [result |-> m.result, published |-> TRUE]
  <1>t. wire \subseteq Request /\ reviews \in Seq(Posted)
    BY TypeSplit DEF OneInv, ReviewInv, GlobalOK
  <1>1. PICK s \in Session :
          /\ ses[s].pc = "reply" /\ ses[s].post = m.post
          /\ ses[s].at = m.head /\ ses[s].kind = m.kind /\ ses[s].result = m.result
    BY DEF OneInv, Awaited
  <1>2. \A n \in wire : n = m
    <2> SUFFICES ASSUME NEW n \in wire PROVE n = m
      OBVIOUS
    <2>1. /\ n.post = m.post /\ n.head = m.head /\ n.kind = m.kind /\ n.result = m.result
      BY <1>1 DEF OneInv, Awaited, OneSession
    <2>2. n \in Request /\ m \in Request
      BY <1>t
    <2>3. QED BY <2>1, <2>2 DEF Request
  <1>3. wire' = {} /\ UNCHANGED <<clone, saved, counts, ses>>
    BY <1>2 DEF Land
  <1>4. Good(ses[s]) /\ Budgeted(ses[s])
    BY DEF OneInv, ReviewInv
  <1>5. anc[m.head] # {} /\ Newest(m.head)
    BY <1>1, <1>4 DEF Good, Budgeted
  <1>6. Free(m.head, m.kind)
    BY DEF OneInv, Awaited
  <1>7. \A t \in Session : ses[t].pc = "reply" /\ ses[t].at = m.head
    BY <1>1 DEF OneSession
  <1>8. saved[<<m.head, m.kind>>] = [result |-> m.result, published |-> TRUE]
    BY DEF OneInv, SavedBeforePosted
  <1>9. QED BY <1>t, <1>3, <1>5, <1>6, <1>7, <1>8

LEMMA LandOne ==
    ASSUME OneInv, OneSession, NEW m \in wire, Land(m)
    PROVE  OneInv'
  <1>s. /\ wire' = {} /\ UNCHANGED <<clone, saved, counts, ses>>
        /\ m \in Request /\ anc[m.head] # {} /\ Newest(m.head) /\ Free(m.head, m.kind)
        /\ \A s \in Session : ses[s].pc = "reply" /\ ses[s].at = m.head
        /\ reviews \in Seq(Posted)
        /\ saved[<<m.head, m.kind>>] = [result |-> m.result, published |-> TRUE]
    BY LandShape
  <1> DEFINE p == [result |-> m.result, head |-> m.head, kind |-> m.kind, live |-> TRUE]
             n == Len(reviews)
  <1>m. m.head \in Commit /\ m.head \in anc[m.head]
    BY <1>s DEF Request, OneInv, LineageInv
  <1>1. ReviewInv'
    BY OutsideKeeps DEF OneInv
  <1>2. LineageInv'
    BY <1>s DEF OneInv, LineageInv, clone
  <1>3. CASE reviews' = reviews
    BY <1>s, <1>1, <1>2, <1>3 DEF OneInv, PublishedInv, Has, Budgeted, Newest,
       SavedBeforePosted, clone
  <1>4. CASE reviews' = Append(reviews, p)
    <2>1. p.head = m.head /\ p.kind = m.kind /\ p.result = m.result /\ p \in Posted
      BY <1>s DEF Posted, Request
    <2> HIDE DEF p
    <2>2. /\ DOMAIN reviews = 1..n /\ n \in Nat /\ DOMAIN reviews' = 1..(n + 1)
          /\ \A i \in 1..n : reviews'[i] = reviews[i]
          /\ reviews'[n + 1] = p
      BY <1>s, <1>4, <2>1, AppendProperties
    <2>3. DOMAIN reviews' = DOMAIN reviews \cup {n + 1}
      BY <2>2
    <2>4. UNCHANGED <<head, anc, saved, ses>>
      BY <1>s DEF clone
    <2> HIDE DEF n
    <2>5. \A k, h : Has(k, h) => \E i \in DOMAIN reviews' :
                       reviews'[i].kind = k /\ reviews'[i].head \in anc[h]
      BY <2>2, <2>3 DEF Has
    <2>6. PublishedInv'
      <3>1. p.kind = "delta" => Has("primary", p.head)
        BY <1>s, <2>1 DEF Free
      <3>2. \A i \in DOMAIN reviews' :
               /\ anc[reviews'[i].head] # {}
               /\ reviews'[i].kind = "delta" => Has("primary", reviews'[i].head)
        BY <1>s, <2>1, <2>2, <2>3, <3>1 DEF OneInv, PublishedInv
      <3>3. QED BY <2>4, <2>5, <3>2 DEF PublishedInv, Has
    <2>7. Newest(m.head)'
      BY <1>s, <1>m, <2>1, <2>2, <2>3, <2>4 DEF Newest, Request
    <2>8. \A s \in Session : Budgeted(ses[s])'
      BY <1>s, <2>4, <2>7 DEF Budgeted, Newest
    <2>9. SavedBeforePosted'
      <3>1. \A i \in DOMAIN reviews' :
               saved[<<reviews'[i].head, reviews'[i].kind>>]
                 = [result |-> reviews'[i].result, published |-> TRUE]
        BY <1>s, <2>1, <2>2, <2>3 DEF OneInv, SavedBeforePosted
      <3>2. QED BY <1>s, <2>4, <3>1 DEF SavedBeforePosted
    <2>10. QED BY <1>s, <1>1, <1>2, <2>6, <2>8, <2>9 DEF OneInv
  <1>5. QED BY <1>3, <1>4 DEF Land

\* A dismissal is no concern of the budget.
LEMMA DismissOne ==
    ASSUME OneInv, NEW i \in DOMAIN reviews, Dismiss(i)
    PROVE  OneInv'
  <1>1. ReviewInv' /\ reviews \in Seq(Posted)
    BY OutsideKeeps, TypeSplit DEF OneInv, ReviewInv, GlobalOK
  <1>2. /\ UNCHANGED <<clone, saved, wire, results, posts, ses>>
        /\ reviews' = [reviews EXCEPT ![i] = [@ EXCEPT !.live = FALSE]]
    BY DEF Dismiss
  <1>3. \A j \in DOMAIN reviews : reviews[j] \in Posted
    BY <1>1
  <1>4. /\ DOMAIN reviews' = DOMAIN reviews
        /\ \A j \in DOMAIN reviews : /\ reviews'[j].head = reviews[j].head
                                     /\ reviews'[j].kind = reviews[j].kind
                                     /\ reviews'[j].result = reviews[j].result
    BY <1>2, <1>3 DEF Posted
  <1>5. \A k, h : Has(k, h)' <=> Has(k, h)
    BY <1>2, <1>4 DEF Has, clone
  <1>6. LineageInv' /\ PublishedInv'
    BY <1>2, <1>4 DEF OneInv, LineageInv, PublishedInv, Has, clone
  <1>7. SavedBeforePosted'
    <2>1. \A j \in DOMAIN reviews' :
             saved[<<reviews'[j].head, reviews'[j].kind>>]
               = [result |-> reviews'[j].result, published |-> TRUE]
      BY <1>4 DEF OneInv, SavedBeforePosted
    <2>2. \A m \in wire :
             saved[<<m.head, m.kind>>] = [result |-> m.result, published |-> TRUE]
      BY DEF OneInv, SavedBeforePosted
    <2>3. QED BY <1>2, <2>1, <2>2 DEF SavedBeforePosted
  <1>8. \A s \in Session : Budgeted(ses[s])'
    BY <1>2, <1>4 DEF OneInv, Budgeted, Newest, Free, Has, SameMarkers, clone
  <1>9. \A m \in wire' : Awaited(m)'
    BY <1>2, <1>4 DEF OneInv, Awaited, Free, Has, clone
  <1>10. QED BY <1>1, <1>6, <1>7, <1>8, <1>9 DEF OneInv

\* A new commit is above HEAD, or takes its place; the lineages of those there
\* are stay as they were.
LEMMA NewCommitOne ==
    ASSUME OneInv, NEW c \in Commit, NewCommit(c)
    PROVE  OneInv'
  <1>t. /\ anc \in [Commit -> SUBSET Commit] /\ head \in Commit /\ GlobalOK
        /\ ses \in [Session -> Record]
    BY TypeSplit DEF OneInv, ReviewInv, GlobalOK
  <1>1. /\ UNCHANGED <<prHead, saved, reviews, wire, counts, ses>>
        /\ head' = c /\ anc[c] = {}
    BY DEF NewCommit
  <1>2. PICK below \in SUBSET Commit :
          /\ below \in {anc[head], anc[head] \ {head}}
          /\ anc' = [anc EXCEPT ![c] = below \cup {c}]
    BY <1>t DEF NewCommit
  <1>3. /\ anc'[c] = below \cup {c} /\ below \subseteq anc[head]
        /\ \A x \in Commit : x # c => anc'[x] = anc[x]
    BY <1>2, <1>t
  <1>a. \A x \in Commit : c \notin anc[x]
    BY <1>1 DEF OneInv, LineageInv
  <1>4. ReviewInv'
    BY OutsideKeeps DEF OneInv
  <1>5. LineageInv'
    <2>1. \A h \in below : anc[h] # {} /\ anc[h] \subseteq below /\ h # c /\ h \in Commit
      BY <1>1, <1>2, <1>t DEF OneInv, LineageInv
    <2>2. \A x \in Commit : anc'[x] # {} => x \in anc'[x]
      BY <1>3 DEF OneInv, LineageInv
    <2>3. \A x \in Commit : \A h \in anc'[x] : anc'[h] # {} /\ anc'[h] \subseteq anc'[x]
      <3> SUFFICES ASSUME NEW x \in Commit, NEW h \in anc'[x]
                   PROVE  anc'[h] # {} /\ anc'[h] \subseteq anc'[x]
        OBVIOUS
      <3>1. CASE x = c
        BY <3>1, <1>3, <2>1
      <3>2. CASE x # c
        <4>1. h \in anc[x] /\ h # c /\ h \in Commit
          BY <3>2, <1>3, <1>a, <1>t
        <4>2. QED BY <3>2, <4>1, <1>3 DEF OneInv, LineageInv
      <3>3. QED BY <3>1, <3>2
    <2>4. \A x \in Commit : \A h \in anc'[x] : x \in anc'[h] => x = h
      <3> SUFFICES ASSUME NEW x \in Commit, NEW h \in anc'[x], x \in anc'[h]
                   PROVE  x = h
        OBVIOUS
      <3>1. CASE x = c
        BY <3>1, <1>3, <1>a, <2>1
      <3>2. CASE x # c
        <4>1. h \in anc[x] /\ h # c /\ h \in Commit
          BY <3>2, <1>3, <1>a, <1>t
        <4>2. QED BY <3>2, <4>1, <1>3 DEF OneInv, LineageInv
      <3>3. QED BY <3>1, <3>2
    <2>5. \A x \in Commit : head' \in anc'[x] => x = head'
      BY <1>1, <1>3, <1>a
    <2>6. QED BY <2>2, <2>3, <2>4, <2>5 DEF LineageInv
  <1>6. \A i \in DOMAIN reviews : reviews[i].head \in Commit /\ reviews[i].head # c
    <2> SUFFICES ASSUME NEW i \in DOMAIN reviews
                 PROVE  reviews[i].head \in Commit /\ reviews[i].head # c
      OBVIOUS
    <2>1. reviews[i] \in Posted
      BY <1>t DEF GlobalOK
    <2>2. anc[reviews[i].head] # {}
      BY DEF OneInv, PublishedInv
    <2>3. QED BY <1>1, <2>1, <2>2 DEF Posted
  <1>7. \A k : \A h \in Commit : h # c => (Has(k, h)' <=> Has(k, h))
    BY <1>1, <1>3 DEF Has
  <1>8. PublishedInv'
    BY <1>1, <1>3, <1>6, <1>7 DEF OneInv, PublishedInv
  <1>9. \A h \in Commit : h # c /\ Newest(h) => Newest(h)'
    <2> SUFFICES ASSUME NEW h \in Commit, h # c, Newest(h), NEW x \in Commit, h \in anc'[x],
                        NEW i \in DOMAIN reviews, reviews[i].head \in anc'[x]
                 PROVE  reviews[i].head \in anc'[h]
      BY <1>1 DEF Newest
    <2>1. CASE x = c
      <3>1. h \in anc[head] /\ reviews[i].head \in anc[head]
        BY <2>1, <1>3, <1>6
      <3>2. QED BY <3>1, <1>3, <1>t DEF Newest
    <2>2. CASE x # c
      BY <2>2, <1>3 DEF Newest
    <2>3. QED BY <2>1, <2>2
  <1>10. ASSUME NEW s \in Session PROVE Budgeted(ses[s])'
    <2>1. /\ Budgeted(ses[s]) /\ Good(ses[s]) /\ ses[s].at \in Commit
      BY <1>t DEF OneInv, ReviewInv, Record
    <2>2. ses[s].pc # "idle" => ses[s].at # c
      BY <1>1, <2>1 DEF Good
    <2>3. QED BY <1>1, <1>7, <1>9, <2>1, <2>2 DEF Budgeted, Free, SameMarkers
  <1>11. ASSUME NEW m \in wire PROVE Awaited(m)'
    <2>1. PICK s \in Session :
          /\ ses[s].pc = "reply" /\ ses[s].post = m.post
          /\ ses[s].at = m.head /\ ses[s].kind = m.kind /\ ses[s].result = m.result
      BY DEF OneInv, Awaited
    <2>2. Good(ses[s]) /\ Free(m.head, m.kind) /\ m.head \in Commit
      BY <1>t, <2>1 DEF OneInv, ReviewInv, Awaited, Record
    <2>3. m.head # c
      BY <1>1, <2>1, <2>2 DEF Good
    <2>4. QED BY <1>1, <1>7, <2>1, <2>2, <2>3 DEF Awaited, Free
  <1>12. SavedBeforePosted'
    BY <1>1 DEF OneInv, SavedBeforePosted
  <1>13. QED BY <1>1, <1>4, <1>5, <1>8, <1>10, <1>11, <1>12 DEF OneInv

LEMMA InitOne == Init => OneInv
  <1> SUFFICES ASSUME Init PROVE OneInv
    OBVIOUS
  <1>1. ReviewInv
    BY InitReview
  <1>2. /\ head \in Commit /\ anc = [c \in Commit |-> IF c = head THEN {c} ELSE {}]
        /\ reviews = << >> /\ wire = {} /\ DOMAIN reviews = {}
    BY DEF Init
  <1>3. LineageInv
    BY <1>2 DEF LineageInv
  <1>4. PublishedInv /\ SavedBeforePosted
    BY <1>2 DEF PublishedInv, SavedBeforePosted
  <1>5. \A s \in Session : Budgeted(ses[s])
    BY DEF Init, Budgeted
  <1>6. QED BY <1>1, <1>2, <1>3, <1>4, <1>5 DEF OneInv

LEMMA NextOne ==
    ASSUME OneInv, OneSession, ~Delayed, [Next]_vars
    PROVE  OneInv'
  <1>1. CASE Edit \/ Push
    <2>1. ReviewInv'
      BY <1>1, OutsideKeeps DEF OneInv
    <2>2. UNCHANGED <<head, anc, saved, reviews, wire, ses>>
      BY <1>1 DEF Edit, Push
    <2>3. QED BY <2>1, <2>2 DEF OneInv, LineageInv, PublishedInv, SavedBeforePosted,
             Budgeted, Awaited, Newest, Free, Has, SameMarkers
  <1>2. CASE UNCHANGED vars
    <2>1. UNCHANGED <<clone, saved, reviews, wire, counts, ses>>
      BY <1>2 DEF vars
    <2>2. ReviewInv'
      <3>1. TypeOK'
        BY <2>1 DEF OneInv, ReviewInv, TypeOK, clone, counts
      <3>2. SavedInv' /\ (anc[head] # {})' /\ \A s \in Session : Good(ses[s])'
        BY <2>1 DEF OneInv, ReviewInv, SavedInv, Good, clone
      <3>3. QED BY <3>1, <3>2 DEF ReviewInv
    <2>3. QED BY <2>1, <2>2 DEF OneInv, LineageInv, PublishedInv, SavedBeforePosted,
             Budgeted, Awaited, Newest, Free, Has, SameMarkers, clone
  <1>3. QED BY <1>1, <1>2, CommandOne, LandOne, DismissOne, NewCommitOne DEF Next

LEMMA OneInvariant ==
    ASSUME OneSession, ~Delayed
    PROVE  Spec => []OneInv
  <1>1. OneInv /\ [Next]_vars => OneInv'
    BY NextOne
  <1>2. QED BY <1>1, InitOne, PTL DEF Spec

\* Whatever is killed, lost or dismissed, each review of one session on GitHub,
\* or on its way there, is the saved one of its head and kind (cmd_review,
\* _recover_review).  A second session may save over it.
THEOREM SavedBeforePostedHolds ==
    ASSUME OneSession, ~Delayed
    PROVE  Spec => []SavedBeforePosted
  <1>1. OneInv => SavedBeforePosted
    BY DEF OneInv
  <1>2. QED BY <1>1, OneInvariant, PTL

-----------------------------------------------------------------------------
(* Review implements Budget.                                               *)

LEMMA FreeIsAllowed ==
    \A h : \A kind \in Kinds : Free(h, kind) <=> Promise!Allowed(h, kind)
  <1>1. \A k, h : Promise!Of(k, h) # {} <=> Has(k, h)
    BY DEF Promise!Of, Published, Has
  <1>2. QED BY <1>1 DEF Free, Promise!Allowed

\* Only a request that lands adds to what the abstract specification sees.
LEMMA LandPublishes ==
    ASSUME OneInv, OneSession, NEW m \in wire, Land(m)
    PROVE  [Promise!Next]_<<Published, anc>>
  <1>s. /\ UNCHANGED clone /\ m \in Request /\ anc[m.head] # {} /\ Newest(m.head)
        /\ Free(m.head, m.kind) /\ reviews \in Seq(Posted)
    BY LandShape
  <1>m. m.head \in Commit /\ m.kind \in Kinds
    BY <1>s DEF Request
  <1> DEFINE p == [result |-> m.result, head |-> m.head, kind |-> m.kind, live |-> TRUE]
             e == [head |-> m.head, kind |-> m.kind]
  <1>1. CASE reviews' = reviews
    BY <1>1, <1>s DEF Published, clone
  <1>2. CASE reviews' = Append(reviews, p)
    <2>1. Published' = Append(Published, e)
      <3> DEFINE E == [head : Commit, kind : Kinds]
                 n == Len(reviews)
      <3>1. p \in Posted /\ e \in E
        BY <1>m, <1>s DEF Posted, Request
      <3>2. /\ n \in Nat /\ DOMAIN reviews = 1..n /\ DOMAIN reviews' = 1..(n + 1)
            /\ \A i \in 1..n : reviews[i] \in Posted /\ reviews'[i] = reviews[i]
            /\ reviews'[n + 1] = p
        <4> HIDE DEF p
        <4>1. /\ Append(reviews, p) \in Seq(Posted)
              /\ Len(Append(reviews, p)) = n + 1
              /\ \A i \in 1..n : Append(reviews, p)[i] = reviews[i]
              /\ Append(reviews, p)[n + 1] = p
          BY <1>s, <3>1, AppendProperties
        <4>2. QED BY <1>2, <1>s, <4>1
      <3>3. PICK P : P = Published
        OBVIOUS
      <3>4. /\ P \in Seq(E) /\ Len(P) = n
            /\ \A i \in 1..n : P[i] = [head |-> reviews[i].head, kind |-> reviews[i].kind]
        <4>1. /\ DOMAIN P = 1..n
              /\ \A i \in 1..n : P[i] = [head |-> reviews[i].head, kind |-> reviews[i].kind]
          BY <3>2, <3>3 DEF Published
        <4>2. \A i \in 1..n : P[i] \in E
          BY <3>2, <4>1 DEF Posted
        <4>3. P \in [1..n -> E]
          BY <3>2, <3>3, <4>1, <4>2 DEF Published
        <4>4. P \in Seq(E)
          BY <3>2, <4>3, SeqDef
        <4>5. Len(P) = n
          <5> HIDE DEF E, n
          <5>1. QED BY <3>2, <4>1, <4>4
        <4>6. QED BY <4>1, <4>4, <4>5
      <3>5. PICK Q : Q = Append(P, e)
        OBVIOUS
      <3>6. /\ Q \in Seq(E) /\ Len(Q) = n + 1 /\ Q[n + 1] = e
            /\ \A i \in 1..n : Q[i] = P[i]
        <4> HIDE DEF E, e, n
        <4>1. QED BY <3>1, <3>4, <3>5, AppendProperties
      <3>7. \A i \in 1..(n + 1) :
               Q[i] = [head |-> reviews'[i].head, kind |-> reviews'[i].kind]
        <4>1. reviews'[n + 1].head = m.head /\ reviews'[n + 1].kind = m.kind
          BY <3>2
        <4>2. \A i \in 1..n :
                 Q[i] = [head |-> reviews'[i].head, kind |-> reviews'[i].kind]
          BY <3>2, <3>4, <3>6
        <4>3. \A i \in 1..(n + 1) : i \in 1..n \/ i = n + 1
          BY <3>2
        <4>4. Q[n + 1] = [head |-> reviews'[n + 1].head, kind |-> reviews'[n + 1].kind]
          BY <3>6, <4>1
        <4> HIDE DEF E, n
        <4>5. QED BY <4>2, <4>3, <4>4
      <3>8. Q = [i \in 1..(n + 1) |-> Q[i]]
        <4> HIDE DEF E, e, n
        <4>1. Q \in [1..(n + 1) -> E]
          BY <3>6, LenProperties
        <4>2. QED BY <4>1
      <3>9. Q = Published'
        BY <3>2, <3>7, <3>8 DEF Published
      <3>10. QED BY <3>3, <3>5, <3>9
    <2>2. ASSUME NEW x \in Commit, m.head \in anc[x] PROVE Free(x, m.kind)
      <3>1. \A k : Has(k, x) <=> Has(k, m.head)
        <4>1. anc[m.head] \subseteq anc[x]
          BY <2>2 DEF OneInv, LineageInv
        <4>2. QED BY <4>1, <2>2, <1>s DEF Has, Newest
      <3>2. QED BY <3>1, <1>s DEF Free
    <2>3. Promise!Publish(m.head, m.kind)
      BY <1>s, <1>m, <2>1, <2>2, FreeIsAllowed DEF Promise!Publish, clone
    <2>4. QED BY <1>m, <2>3 DEF Promise!Next, Promise!Kinds, Kinds
  <1>3. QED BY <1>1, <1>2 DEF Land

LEMMA StepPublishes ==
    ASSUME OneInv, OneSession, [Next]_vars
    PROVE  [Promise!Next]_<<Published, anc>>
  <1>1. ASSUME UNCHANGED <<reviews, anc>> PROVE UNCHANGED <<Published, anc>>
    BY <1>1 DEF Published
  <1>2. ASSUME NEW s \in Session, Command(s) PROVE UNCHANGED <<reviews, anc>>
    BY <1>2 DEF Command, Begin, DecideKind, RunReview, Recheck, Save, SaveTorn, Post, Succeed,
       FailReply, Recover, Confirm, RereadReviews, RereadPr, RereadClone, BeginRepost,
       CheckBudget, Abort, clone
  <1>3. CASE Edit \/ Push \/ UNCHANGED vars
    BY <1>1, <1>3 DEF Edit, Push, vars, clone
  <1>4. ASSUME NEW i \in DOMAIN reviews, Dismiss(i) PROVE UNCHANGED <<Published, anc>>
    <2>1. reviews \in Seq(Posted)
      BY TypeSplit DEF OneInv, ReviewInv, GlobalOK
    <2>2. /\ UNCHANGED clone
          /\ reviews' = [reviews EXCEPT ![i] = [@ EXCEPT !.live = FALSE]]
      BY <1>4 DEF Dismiss
    <2>3. \A j \in DOMAIN reviews : reviews[j] \in Posted
      BY <2>1
    <2>4. /\ DOMAIN reviews' = DOMAIN reviews
          /\ \A j \in DOMAIN reviews : /\ reviews'[j].head = reviews[j].head
                                       /\ reviews'[j].kind = reviews[j].kind
      BY <2>2, <2>3 DEF Posted
    <2>5. QED BY <2>2, <2>4 DEF Published, clone
  <1>5. ASSUME NEW c \in Commit, NewCommit(c) PROVE [Promise!Next]_<<Published, anc>>
    <2>1. UNCHANGED reviews /\ anc[c] = {} /\ head \in Commit
          /\ anc \in [Commit -> SUBSET Commit]
      BY <1>5, TypeSplit DEF NewCommit, OneInv, ReviewInv, GlobalOK
    <2>2. PICK below \in SUBSET Commit :
            /\ below \in {anc[head], anc[head] \ {head}}
            /\ anc' = [anc EXCEPT ![c] = below \cup {c}]
      BY <1>5, <2>1 DEF NewCommit
    <2>3. UNCHANGED Published
      BY <2>1 DEF Published
    <2>4. Promise!NewCommit(c)
      BY <2>1, <2>2, <2>3 DEF Promise!NewCommit
    <2>5. QED BY <2>4 DEF Promise!Next
  <1>6. QED BY <1>1, <1>2, <1>3, <1>4, <1>5, LandPublishes DEF Next

\* The reviews one session publishes keep the budget of module Budget, step by
\* step, however often it is killed, repeated or answered with nothing: what
\* _decide_kind read is still so when the review lands.
THEOREM BudgetImplemented ==
    ASSUME OneSession, ~Delayed
    PROVE  Spec => ImplementsBudget
  <1>1. Init => Promise!Init
    <2> SUFFICES ASSUME Init PROVE Promise!Init
      OBVIOUS
    <2>1. Published = << >>
      BY DEF Init, Published
    <2>2. QED BY <2>1 DEF Init, Promise!Init
  <1>2. OneInv /\ [Next]_vars => [Promise!Next]_<<Published, anc>>
    BY StepPublishes
  <1>3. QED BY <1>1, <1>2, OneInvariant, PTL DEF Spec, ImplementsBudget, Promise!Spec

Kept == INSTANCE BudgetProofs WITH published <- Published

\* One primary and at most one delta per head lineage (core/CONTRACT.md:95), of
\* the reviews one session's commands publish: BudgetHolds, of what they
\* implement.  Two sessions break it (run review_budget_two).
THEOREM BudgetKeptHolds ==
    ASSUME OneSession, ~Delayed
    PROVE  Spec => []BudgetKept
  <1>1. Promise!Init <=> Kept!Init
    BY DEF Promise!Init, Kept!Init
  <1>2. [Promise!Next]_<<Published, anc>> <=> [Kept!Next]_<<Published, anc>>
    BY DEF Promise!Next, Kept!Next, Promise!NewCommit, Kept!NewCommit, Promise!Publish,
       Kept!Publish, Promise!Allowed, Kept!Allowed, Promise!Of, Kept!Of, Promise!Kinds, Kept!Kinds
  <1>3. Kept!BudgetKept <=> BudgetKept
    BY DEF Kept!BudgetKept, BudgetKept, Promise!BudgetKept
  <1>4. Kept!Spec => []Kept!BudgetKept
    BY Kept!BudgetHolds
  <1>5. QED BY <1>1, <1>2, <1>3, <1>4, BudgetImplemented, PTL
          DEF ImplementsBudget, Promise!Spec, Kept!Spec

=============================================================================
