----------------------------- MODULE CloneProofs -----------------------------
(***************************************************************************)
(* Proofs about what happens within one task clone.                        *)
(*                                                                         *)
(* The check receipt, for any number of sessions, commits and check lists: *)
(* as long as no earlier state of the clone comes back during a check, an  *)
(* accepted receipt is true.  The native pair, for any number of shells    *)
(* that run, kill and restart it: each model is dispatched once for a      *)
(* head, a published pair is what both models said, and cleanup never      *)
(* removes the trace of a dispatch.  One native call, of any length: what  *)
(* is posted is what was said.  Then the clone they and the reviewers of   *)
(* ReviewersProofs make up.                                                *)
(***************************************************************************)
EXTENDS MCClone, ReviewersProofs, SequenceTheorems, FiniteSetTheorems, TLAPS

-----------------------------------------------------------------------------
(* The check receipt (module Checks).                                      *)

Check == [pc : Checking \cup {"open", "write"}, list : Lists, seen : Commit, report : Report]

\* A check that goes on has a command left.
Runs(r) ==
    /\ r.pc = "status" => r.report.results = << >> /\ r.report.on = {}
    /\ r.pc = "run" => Len(r.report.results) < Len(r.list)

TypeInv ==
    /\ head \in made /\ made \subseteq Commit /\ dirty \in BOOLEAN
    /\ checks \in Lists /\ moves \in 0..MaxMoves
    /\ report = {} \/ \E r \in Report : report = {r}
    /\ run \in [Session -> Check \cup {NoCheck}] /\ \A s \in Session : Runs(run[s])

\* The commands of a report read its head only; if it is clean, its committed
\* tree only; and so a clean report may be written, unless it is torn.
Own(r) == r.on \subseteq {r.head} \X BOOLEAN
Clean(r) == ~r.dirty => r.on \subseteq {<<r.head, FALSE>>}
Honest(r) == ~r.dirty => r.on \subseteq {r.head} \X (IF r.torn THEN BOOLEAN ELSE {FALSE})

\* The clone is no longer as a check found it, and cannot be so again: HEAD is
\* another commit, or has edits that only a commit or a discard takes away.
Gone(r) == head # r.head
Left(r) == head # r.head \/ dirty

\* A check in progress has read its own head and tree only, or the clone has
\* left them; and when the last `rev-parse` found its head, it had read no other.
Undecided(r) == r.head \in made /\ (Own(r) \/ Gone(r)) /\ (Clean(r) \/ Left(r))
RunHonest(s) ==
    /\ run[s].pc \in Checking => Undecided(run[s].report)
    /\ run[s].pc = "finalStatus" /\ run[s].seen = run[s].report.head => Own(run[s].report)
    /\ run[s].pc \in {"open", "write"} => Honest(run[s].report)
ReceiptInv ==
    /\ \A r \in report : Honest(r)
    /\ \A s \in Session : RunHonest(s)

-----------------------------------------------------------------------------
\* A check list is a sequence of commands.
LEMMA ListTypes ==
    ASSUME NEW l \in Lists
    PROVE  l \in Seq(STRING) /\ Len(l) \in Nat /\ DOMAIN l = 1..Len(l)
           /\ \A i \in DOMAIN l : l[i] \in Command
<1>1. l \in Seq(STRING)
  BY ListsAssumption
<1>2. \A i \in DOMAIN l : l[i] \in Command
  BY DEF Command
<1>3. QED
  BY <1>1, <1>2

\* A session that is not idle has a check.
LEMMA HasCheck ==
    ASSUME TypeInv, NEW s \in Session
    PROVE  run[s].pc # "idle" => run[s] \in Check
  BY DEF TypeInv, NoCheck

\* Every initial state has its type.
LEMMA InitType == Init => TypeInv
<1> SUFFICES ASSUME Init PROVE TypeInv
  OBVIOUS
<1>1. run \in [Session -> Check \cup {NoCheck}] /\ \A s \in Session : run[s].pc = "idle"
  BY DEF Init, NoCheck
<1>2. moves \in 0..MaxMoves
  BY MovesAssumption DEF Init
<1>3. QED
  BY <1>1, <1>2 DEF Init, TypeInv, Runs

-----------------------------------------------------------------------------
(* What each step of run_checks makes of a session's check.                *)

\* HEAD and the list are read.
LEMMA ReadHeadStep ==
    ASSUME TypeInv, NEW s \in Session, ReadHead(s)
    PROVE  \E r \in Check : /\ Become(s, r) /\ r.pc = "status"
                            /\ r.report.head = head /\ r.report.on = {}
                            /\ r.report.results = << >>
<1> DEFINE q == [head |-> head, dirty |-> FALSE, results |-> << >>, on |-> {}, torn |-> FALSE]
           r == [pc |-> "status", list |-> checks, seen |-> head, report |-> q]
<1>1. << >> \in Seq(Result)
  OBVIOUS
<1>2. q \in Report
  BY <1>1 DEF Report, TypeInv
<1>3. r \in Check
  BY <1>2 DEF Check, Checking, Reading, TypeInv
<1>4. Become(s, r)
  BY DEF ReadHead
<1>5. QED
  BY <1>3, <1>4

\* Dirtiness is read.
LEMMA ReadStatusStep ==
    ASSUME TypeInv, NEW s \in Session, ReadStatus(s)
    PROVE  \E r \in Check : /\ Become(s, r) /\ r.pc \in {"run", "final"}
                            /\ r.report.head = run[s].report.head /\ r.report.on = {}
                            /\ r.pc = "run" => Len(r.report.results) < Len(r.list)
<1> DEFINE list == run[s].list
<1>1. run[s] \in Check /\ list \in Lists /\ run[s].report.results = << >> /\ run[s].report.on = {}
  BY HasCheck DEF ReadStatus, At, Check, TypeInv, Runs
<1>2. CASE Become(s, [run[s] EXCEPT !.report.dirty = dirty,
                        !.pc = IF list = << >> THEN "final" ELSE "run"])
  <2> DEFINE p == IF list = << >> THEN "final" ELSE "run"
             r == [run[s] EXCEPT !.report.dirty = dirty, !.pc = p]
  <2>1. list # << >> => Len(list) > 0
    BY <1>1, ListTypes, EmptySeq
  <2>2. p \in {"run", "final"} /\ (p = "run" => Len(list) > 0)
    BY <2>1
  <2>3. Become(s, r)
    BY <1>2
  <2> HIDE DEF p
  <2>4. r \in Check /\ r.pc = p /\ r.list = list /\ r.report.results = << >>
        /\ r.report.head = run[s].report.head /\ r.report.on = {}
    BY <1>1, <2>2 DEF Check, Report, Checking, TypeInv
  <2>5. Len(r.report.results) = 0
    BY <2>4
  <2> HIDE DEF r
  <2>6. QED
    BY <2>2, <2>3, <2>4, <2>5
<1>3. ASSUME NEW i \in DOMAIN list, NEW command \in {list[i], Prepare},
             Become(s, [run[s] EXCEPT !.report.dirty = dirty, !.pc = "final",
               !.report.results = <<[command |-> command, ok |-> FALSE]>>])
      PROVE  \E r \in Check : /\ Become(s, r) /\ r.pc = "final"
                              /\ r.report.head = run[s].report.head /\ r.report.on = {}
  <2> DEFINE result == [command |-> command, ok |-> FALSE]
             r == [run[s] EXCEPT !.report.dirty = dirty, !.pc = "final",
                     !.report.results = <<result>>]
  <2>1. result \in Result
    BY <1>1, ListTypes DEF Result
  <2>2. <<result>> \in Seq(Result)
    BY <2>1
  <2>3. Become(s, r)
    BY <1>3
  <2> HIDE DEF result
  <2>4. r \in Check /\ r.pc = "final"
        /\ r.report.head = run[s].report.head /\ r.report.on = {}
    BY <1>1, <2>2 DEF Check, Report, Checking, TypeInv
  <2> HIDE DEF r
  <2>5. QED
    BY <2>3, <2>4
<1>4. QED
  BY <1>2, <1>3 DEF ReadStatus

\* A command is run and reads the clone.
LEMMA RunOneStep ==
    ASSUME TypeInv, NEW s \in Session, RunOne(s)
    PROVE  \E r \in Check : /\ Become(s, r) /\ r.pc \in {"run", "final"}
                            /\ r.report.head = run[s].report.head
                            /\ r.report.dirty = run[s].report.dirty
                            /\ r.report.on = run[s].report.on \cup {<<head, dirty>>}
                            /\ r.pc = "run" => Len(r.report.results) < Len(r.list)
<1> DEFINE q == run[s].report  l == run[s].list  next == Len(q.results) + 1
<1>1. run[s] \in Check /\ q \in Report /\ l \in Lists /\ q.results \in Seq(Result)
  BY HasCheck DEF RunOne, At, Check, Report
<1>2. next \in DOMAIN l /\ Len(q.results) \in Nat
  BY <1>1, ListTypes DEF RunOne, At, TypeInv, Runs
<1>3. PICK ok \in BOOLEAN : Become(s, [run[s] EXCEPT
             !.pc = IF ok /\ next < Len(run[s].list) THEN "run" ELSE "final",
             !.report.results = Append(@, [command |-> run[s].list[next], ok |-> ok]),
             !.report.on = @ \cup {<<head, dirty>>}])
  BY DEF RunOne
<1> DEFINE result == [command |-> l[next], ok |-> ok]
           p == IF ok /\ next < Len(l) THEN "run" ELSE "final"
           x == Append(q.results, result)
           y == q.on \cup {<<head, dirty>>}
           r == [run[s] EXCEPT !.pc = p, !.report.results = x, !.report.on = y]
<1>4. Become(s, r)
  BY <1>3
<1>5. result \in Result
  BY <1>1, <1>2, ListTypes DEF Result
<1>6. x \in Seq(Result) /\ Len(x) = next
  BY <1>1, <1>5, AppendProperties
<1>7. y \in SUBSET Tree
  BY <1>1 DEF Report, Tree, TypeInv
<1>8. p \in {"run", "final"} /\ (p = "run" => next < Len(l))
  OBVIOUS
<1> HIDE DEF p, x, y
<1>9. /\ r \in Check /\ r.pc = p /\ r.list = l /\ r.report.results = x /\ r.report.on = y
      /\ r.report.head = q.head /\ r.report.dirty = q.dirty
  BY <1>1, <1>6, <1>7, <1>8 DEF Check, Report, Checking
<1> HIDE DEF r
<1>10. QED
  BY <1>4, <1>6, <1>8, <1>9 DEF y

\* HEAD is read for the last time.
LEMMA FinalHeadStep ==
    ASSUME TypeInv, NEW s \in Session, FinalHead(s)
    PROVE  \E r \in Check : /\ Become(s, r) /\ r.pc = "finalStatus"
                            /\ r.seen = head /\ r.report = run[s].report
<1>1. run[s] \in Check
  BY HasCheck DEF FinalHead, At
<1> DEFINE r == [run[s] EXCEPT !.pc = "finalStatus", !.seen = head]
<1>2. Become(s, r)
  BY DEF FinalHead
<1>3. r \in Check /\ r.pc = "finalStatus" /\ r.seen = head /\ r.report = run[s].report
  BY <1>1 DEF Check, Checking, Reading, TypeInv
<1> HIDE DEF r
<1>4. QED
  BY <1>2, <1>3

\* Dirtiness is read for the last time, and the two snapshots are compared.
LEMMA FinalStatusStep ==
    ASSUME TypeInv, NEW s \in Session, FinalStatus(s)
    PROVE  \E r \in Check :
             /\ Become(s, r) /\ r.pc = "open"
             /\ r.report.dirty \/ /\ run[s].seen = run[s].report.head
                                  /\ dirty = run[s].report.dirty
                                  /\ r.report = [run[s].report EXCEPT !.torn = (head # run[s].seen)]
<1>1. run[s] \in Check /\ run[s].report \in Report /\ run[s].report.results \in Seq(Result)
  BY HasCheck DEF FinalStatus, At, Check, Report
<1>2. CASE run[s].seen = run[s].report.head /\ dirty = run[s].report.dirty
  <2> DEFINE t == (head # run[s].seen)
             r == [run[s] EXCEPT !.pc = "open", !.report.torn = t]
  <2>1. Become(s, r)
    BY <1>2 DEF FinalStatus, Agree
  <2>2. t \in BOOLEAN
    OBVIOUS
  <2> HIDE DEF t
  <2>3. r \in Check /\ r.pc = "open" /\ r.report = [run[s].report EXCEPT !.torn = t]
    BY <1>1, <2>2 DEF Check, Report
  <2> HIDE DEF r
  <2>4. QED
    BY <1>2, <2>1, <2>3 DEF t
<1>3. CASE ~(run[s].seen = run[s].report.head /\ dirty = run[s].report.dirty)
  <2> DEFINE x == Append(run[s].report.results, [command |-> Changed, ok |-> FALSE])
             r == [run[s] EXCEPT !.pc = "open", !.seen = run[s].report.head,
                     !.report.dirty = TRUE, !.report.on = {}, !.report.results = x]
  <2>1. Become(s, r)
    BY <1>3 DEF FinalStatus, Differ
  <2>2. [command |-> Changed, ok |-> FALSE] \in Result
    BY DEF Result
  <2>3. x \in Seq(Result)
    BY <1>1, <2>2, AppendProperties
  <2> HIDE DEF x
  <2>4. r \in Check /\ r.pc = "open" /\ r.report.dirty
    BY <1>1, <2>3 DEF Check, Report
  <2> HIDE DEF r
  <2>5. QED
    BY <2>1, <2>4
<1>4. QED
  BY <1>2, <1>3

-----------------------------------------------------------------------------
\* Each step keeps the types.
LEMMA TypeStep == TypeInv /\ [Next]_vars => TypeInv'
<1> SUFFICES ASSUME TypeInv, [Next]_vars PROVE TypeInv'
  OBVIOUS
<1>1. ASSUME NEW s \in Session, NEW r \in Check \cup {NoCheck}, Become(s, r), UNCHANGED clone,
             Runs(r), report' = report \/ report' = {} \/ report' = {run[s].report},
             At(s, "write") \/ report' = report \/ report' = {}
      PROVE  TypeInv'
  <2>1. run' \in [Session -> Check \cup {NoCheck}] /\ \A t \in Session : Runs(run'[t])
    BY <1>1 DEF Become, TypeInv
  <2>2. report' = {} \/ \E q \in Report : report' = {q}
    <3>1. At(s, "write") => run[s].report \in Report
      BY HasCheck DEF At, Check
    <3>2. QED
      BY <1>1, <3>1 DEF TypeInv
  <2>3. QED
    BY <1>1, <2>1, <2>2 DEF TypeInv, clone
<1>2. ASSUME NEW s \in Session,
             ReadHead(s) \/ ReadStatus(s) \/ RunOne(s) \/ FinalHead(s) \/ FinalStatus(s)
      PROVE  TypeInv'
  <2>1. UNCHANGED <<clone, report>>
    BY <1>2 DEF ReadHead, ReadStatus, RunOne, FinalHead, FinalStatus
  <2>2. \E r \in Check : Become(s, r) /\ Runs(r)
    <3>1. CASE ReadHead(s)
      BY <3>1, ReadHeadStep DEF Runs
    <3>2. CASE ReadStatus(s)
      BY <3>2, ReadStatusStep DEF Runs
    <3>3. CASE RunOne(s)
      BY <3>3, RunOneStep DEF Runs
    <3>4. CASE FinalHead(s)
      BY <3>4, FinalHeadStep DEF Runs
    <3>5. CASE FinalStatus(s)
      BY <3>5, FinalStatusStep DEF Runs
    <3>6. QED
      BY <1>2, <3>1, <3>2, <3>3, <3>4, <3>5
  <2>3. QED
    BY <1>1, <2>1, <2>2
<1>3. ASSUME NEW s \in Session, OpenReport(s) PROVE TypeInv'
  <2>1. run[s] \in Check
    BY <1>3, HasCheck DEF OpenReport, At
  <2>2. [run[s] EXCEPT !.pc = "write"] \in Check /\ [run[s] EXCEPT !.pc = "write"].pc = "write"
    BY <2>1 DEF Check
  <2>3. QED
    BY <1>1, <1>3, <2>2 DEF OpenReport, GoTo, Runs
<1>4. ASSUME NEW s \in Session, WriteReport(s) \/ Abort(s) PROVE TypeInv'
  <2>1. Become(s, NoCheck) /\ Runs(NoCheck)
    BY <1>4 DEF WriteReport, Abort, Return, Runs, NoCheck
  <2>2. QED
    BY <1>1, <1>4, <2>1 DEF WriteReport, Abort
<1>5. CASE Edit \/ NewCommit \/ TakeBack \/ BaseMoves
  <2>1. UNCHANGED <<report, run>> /\ moves' \in 0..MaxMoves
    BY <1>5, MovesAssumption DEF Edit, NewCommit, TakeBack, BaseMoves, Move, TypeInv
  <2>2. head' \in made' /\ made' \subseteq Commit /\ dirty' \in BOOLEAN /\ checks' \in Lists
    BY <1>5 DEF Edit, NewCommit, TakeBack, BaseMoves, TypeInv
  <2>3. QED
    BY <2>1, <2>2 DEF TypeInv
<1>6. CASE UNCHANGED vars
  BY <1>6 DEF vars, clone, TypeInv
<1>7. QED
  BY <1>2, <1>3, <1>4, <1>5, <1>6 DEF Next

\* The types hold of every reachable state.
LEMMA TypeAlways == Spec => []TypeInv
  BY InitType, TypeStep, PTL DEF Spec

\* Every reachable state has its type: a receipt is absent or one whole report
\* (sandbox.run_checks, cli._save_report).
THEOREM TypeCorrect == Spec => []TypeOK
<1>1. TypeInv => TypeOK
  <2> SUFFICES ASSUME TypeInv PROVE TypeOK
    OBVIOUS
  <2>1. report \subseteq Report /\ Cardinality(report) <= 1
    <3>1. CASE report = {}
      BY <3>1, FS_EmptySet
    <3>2. ASSUME NEW r \in Report, report = {r} PROVE report \subseteq Report /\ Cardinality(report) <= 1
      <4>1. Cardinality({r}) = 1
        BY FS_Singleton
      <4>2. QED
        BY <3>2, <4>1
    <3>3. QED
      BY <3>1, <3>2 DEF TypeInv
  <2>2. ASSUME NEW s \in Session
        PROVE  \/ run[s] = NoCheck
               \/ /\ run[s].pc \in Checking \cup {"open", "write"}
                  /\ run[s].list \in Lists /\ run[s].seen \in Commit /\ run[s].report \in Report
    BY DEF TypeInv, Check
  <2>3. QED
    BY <2>1, <2>2 DEF TypeInv, TypeOK
<1>2. QED
  BY <1>1, TypeAlways, PTL

-----------------------------------------------------------------------------
\* While a check runs, a clone that has left its head or its tree stays away: no
\* commit is made twice, and nothing is taken back.
LEMMA LeftStays ==
    ASSUME ~Returns, NEW s \in Session, run[s].pc \in Checking,
           Edit \/ NewCommit \/ TakeBack \/ BaseMoves, NEW r, r.head \in made
    PROVE  (Gone(r) => Gone(r)') /\ (Left(r) => Left(r)')
<1> SUFFICES /\ head # r.head => head' # r.head
             /\ (head # r.head \/ dirty) => (head' # r.head \/ dirty')
  BY DEF Left, Gone
<1>1. CASE Edit \/ BaseMoves
  BY <1>1 DEF Edit, BaseMoves
<1>2. CASE NewCommit
  BY <1>2 DEF NewCommit
<1>3. ~TakeBack
  BY DEF TakeBack
<1>4. QED
  BY <1>1, <1>2, <1>3

\* What a check has recorded so far is true of its own head and tree, or will be
\* found to have changed; what is written is true (run_checks, _save_report).
LEMMA ReportStep ==
    ASSUME ~Returns, TypeInv, ReceiptInv, [Next]_vars
    PROVE  ReceiptInv'
<1>1. head \in made /\ dirty \in BOOLEAN /\ run \in [Session -> Check \cup {NoCheck}]
  BY DEF TypeInv
<1>2. ASSUME NEW s \in Session, NEW r, Become(s, r), UNCHANGED clone,
             r.pc \in Checking => Undecided(r.report),
             r.pc = "finalStatus" /\ r.seen = r.report.head => Own(r.report),
             r.pc \in {"open", "write"} => Honest(r.report),
             \A q \in report' : q \in report \/ Honest(q)
      PROVE  ReceiptInv'
  <2>1. run'[s] = r /\ \A t \in Session : t # s => run'[t] = run[t]
    BY <1>1, <1>2 DEF Become
  <2>2. head' = head /\ dirty' = dirty /\ made' = made
    BY <1>2 DEF clone
  <2>3. ASSUME NEW t \in Session PROVE RunHonest(t)'
    BY <1>2, <2>1, <2>2 DEF ReceiptInv, RunHonest, Undecided, Gone, Left, Own, Clean, Honest
  <2>4. QED
    BY <1>2, <2>3 DEF ReceiptInv, Honest
<1>3. ASSUME NEW s \in Session, ReadHead(s) PROVE ReceiptInv'
  <2>1. PICK r \in Check : /\ Become(s, r) /\ r.pc = "status"
                           /\ r.report.head = head /\ r.report.on = {}
    BY <1>3, ReadHeadStep
  <2>2. Undecided(r.report)
    BY <1>1, <2>1 DEF Undecided, Own, Clean
  <2>3. QED
    BY <1>2, <1>3, <2>1, <2>2 DEF ReadHead
<1>4. ASSUME NEW s \in Session, ReadStatus(s) PROVE ReceiptInv'
  <2>1. PICK r \in Check : /\ Become(s, r) /\ r.pc \in {"run", "final"}
                           /\ r.report.head = run[s].report.head /\ r.report.on = {}
    BY <1>4, ReadStatusStep
  <2>2. run[s].report.head \in made
    BY <1>4 DEF ReadStatus, At, ReceiptInv, RunHonest, Undecided, Checking, Reading
  <2>3. Undecided(r.report)
    BY <2>1, <2>2 DEF Undecided, Own, Clean
  <2>4. QED
    BY <1>2, <1>4, <2>1, <2>3 DEF ReadStatus
<1>5. ASSUME NEW s \in Session, RunOne(s) PROVE ReceiptInv'
  <2>1. PICK q : q = run[s].report
    OBVIOUS
  <2>2. Undecided(q)
    BY <1>5, <2>1 DEF RunOne, At, ReceiptInv, RunHonest, Checking
  <2>3. PICK r \in Check : /\ Become(s, r) /\ r.pc \in {"run", "final"}
                           /\ r.report.head = q.head /\ r.report.dirty = q.dirty
                           /\ r.report.on = q.on \cup {<<head, dirty>>}
    BY <1>5, <2>1, RunOneStep
  <2>4. Own(r.report) \/ Gone(r.report)
    BY <1>1, <2>2, <2>3 DEF Undecided, Own, Gone
  <2>5. Clean(r.report) \/ Left(r.report)
    BY <1>1, <2>2, <2>3 DEF Undecided, Clean, Left
  <2>6. Undecided(r.report)
    BY <2>2, <2>3, <2>4, <2>5 DEF Undecided
  <2>7. QED
    BY <1>2, <1>5, <2>3, <2>6 DEF RunOne
<1>6. ASSUME NEW s \in Session, FinalHead(s) PROVE ReceiptInv'
  <2>1. PICK r \in Check : /\ Become(s, r) /\ r.pc = "finalStatus"
                           /\ r.seen = head /\ r.report = run[s].report
    BY <1>6, FinalHeadStep
  <2>2. Undecided(r.report)
    BY <1>6, <2>1 DEF FinalHead, At, ReceiptInv, RunHonest, Checking
  <2>3. r.seen = r.report.head => Own(r.report)
    BY <2>1, <2>2 DEF Undecided, Gone
  <2>4. QED
    BY <1>2, <1>6, <2>1, <2>2, <2>3 DEF FinalHead
<1>7. ASSUME NEW s \in Session, FinalStatus(s) PROVE ReceiptInv'
  <2>1. PICK q : q = run[s].report
    OBVIOUS
  <2>2. PICK r \in Check :
          /\ Become(s, r) /\ r.pc = "open"
          /\ r.report.dirty \/ /\ run[s].seen = q.head /\ dirty = q.dirty
                               /\ r.report = [q EXCEPT !.torn = (head # run[s].seen)]
    BY <1>7, <2>1, FinalStatusStep
  <2>3. Undecided(q) /\ (run[s].seen = q.head => Own(q))
    BY <1>7, <2>1 DEF FinalStatus, At, ReceiptInv, RunHonest, Checking, Reading
  <2>4. Honest(r.report)
    <3>1. CASE r.report.dirty
      BY <3>1 DEF Honest
    <3>2. CASE ~r.report.dirty
      <4>1. q \in Report
        BY <1>7, <2>1, HasCheck DEF FinalStatus, At, Check
      <4>2. /\ run[s].seen = q.head /\ dirty = q.dirty
            /\ r.report.head = q.head /\ r.report.dirty = q.dirty /\ r.report.on = q.on
            /\ r.report.torn = (head # q.head)
        BY <2>2, <3>2, <4>1 DEF Report
      <4>3. Own(q) /\ (head = q.head => Clean(q))
        BY <2>3, <3>2, <4>2 DEF Undecided, Left
      <4>4. CASE head = q.head
        <5>1. ~r.report.torn /\ r.report.on \subseteq {<<r.report.head, FALSE>>}
          BY <3>2, <4>2, <4>3, <4>4 DEF Clean
        <5>2. {r.report.head} \X {FALSE} = {<<r.report.head, FALSE>>}
          OBVIOUS
        <5>3. QED
          BY <5>1, <5>2 DEF Honest
      <4>5. CASE head # q.head
        <5>1. r.report.torn /\ r.report.on \subseteq {r.report.head} \X BOOLEAN
          BY <4>2, <4>3, <4>5 DEF Own
        <5>2. QED
          BY <5>1 DEF Honest
      <4>6. QED
        BY <4>4, <4>5
    <3>3. QED
      BY <3>1, <3>2
  <2>5. QED
    BY <1>2, <1>7, <2>2, <2>4 DEF FinalStatus, Checking, Reading
<1>8. ASSUME NEW s \in Session, OpenReport(s) PROVE ReceiptInv'
  <2>1. PICK r : Become(s, r) /\ r.pc = "write" /\ r.report = run[s].report
    BY <1>8, HasCheck DEF OpenReport, GoTo, At, Check
  <2>2. Honest(r.report)
    BY <1>8, <2>1 DEF OpenReport, At, ReceiptInv, RunHonest
  <2>3. QED
    BY <1>2, <1>8, <2>1, <2>2 DEF OpenReport, Checking, Reading
<1>9. ASSUME NEW s \in Session, WriteReport(s) \/ Abort(s) PROVE ReceiptInv'
  <2>1. Become(s, NoCheck) /\ NoCheck.pc = "idle"
    BY <1>9 DEF WriteReport, Abort, Return, NoCheck
  <2>2. \A q \in report' : q \in report \/ Honest(q)
    BY <1>9 DEF WriteReport, Abort, At, ReceiptInv, RunHonest
  <2>3. QED
    BY <1>2, <1>9, <2>1, <2>2 DEF WriteReport, Abort, Checking, Reading
<1>10. CASE Edit \/ NewCommit \/ TakeBack \/ BaseMoves
  <2>1. UNCHANGED <<report, run>> /\ made \subseteq made'
    BY <1>10 DEF Edit, NewCommit, TakeBack, BaseMoves, Move
  <2>2. ASSUME NEW s \in Session PROVE RunHonest(s)'
    <3>1. CASE run[s].pc \in Checking
      <4>1. PICK q : q = run[s].report
        OBVIOUS
      <4>2. Undecided(q)
        BY <3>1, <4>1 DEF ReceiptInv, RunHonest
      <4>3. (Gone(q) => Gone(q)') /\ (Left(q) => Left(q)')
        BY <1>10, <3>1, <4>2, LeftStays DEF Undecided
      <4>4. Undecided(q)'
        BY <2>1, <4>2, <4>3 DEF Undecided, Own, Clean
      <4>5. QED
        BY <2>1, <3>1, <4>1, <4>4 DEF ReceiptInv, RunHonest, Own, Checking, Reading
    <3>2. CASE run[s].pc \notin Checking
      BY <2>1, <3>2 DEF ReceiptInv, RunHonest, Honest, Checking, Reading
    <3>3. QED
      BY <3>1, <3>2
  <2>3. QED
    BY <2>1, <2>2 DEF ReceiptInv, Honest
<1>11. CASE UNCHANGED vars
  BY <1>11 DEF vars, clone, ReceiptInv, RunHonest, Undecided, Own, Clean, Honest, Gone, Left
<1>12. QED
  BY <1>3, <1>4, <1>5, <1>6, <1>7, <1>8, <1>9, <1>10, <1>11 DEF Next

\* As long as no earlier state of the clone comes back during a check, a receipt
\* that readiness accepts for a head is true: every command of the list that
\* readiness holds passed, and each read that head's committed tree, or, when
\* HEAD moved between the two calls of the last snapshot, edits on top of it
\* (run_checks, _readiness).
THEOREM ReceiptIsHonest == ASSUME ~Returns PROVE Spec => []ReceiptHonest
<1>1. Init => ReceiptInv
  <2> SUFFICES ASSUME Init PROVE ReceiptInv
    OBVIOUS
  <2>1. \A s \in Session : run[s].pc = "idle"
    BY DEF Init, NoCheck
  <2>2. QED
    BY <2>1 DEF Init, ReceiptInv, RunHonest, Checking, Reading
<1>2. TypeInv /\ ReceiptInv /\ [Next]_vars => ReceiptInv'
  BY ReportStep
<1>3. TypeInv /\ ReceiptInv => ReceiptHonest
  <2> SUFFICES ASSUME TypeInv, ReceiptInv, NEW r \in report, NEW h \in Commit,
                      NEW list \in Lists, Accepts(r, h, list)
               PROVE  /\ r.results = [i \in DOMAIN list |-> [command |-> list[i], ok |-> TRUE]]
                      /\ r.on \subseteq {h} \X (IF r.torn THEN BOOLEAN ELSE {FALSE})
    BY DEF ReceiptHonest
  <2>1. r \in Report /\ r.results \in Seq(Result)
    BY DEF TypeInv, Report
  <2>2. r.on \subseteq {h} \X (IF r.torn THEN BOOLEAN ELSE {FALSE})
    BY DEF Accepts, ReceiptInv, Honest
  <2>3. DOMAIN list = DOMAIN r.results
        /\ \A i \in DOMAIN r.results : list[i] = r.results[i].command /\ r.results[i].ok
    <3>1. list = [i \in DOMAIN r.results |-> r.results[i].command]
      BY DEF Accepts, Commands
    <3>2. QED
      BY <3>1 DEF Accepts, Green
  <2>4. \A i \in DOMAIN r.results : r.results[i] \in Result
    BY <2>1
  <2>5. \A i \in DOMAIN r.results : r.results[i] = [command |-> list[i], ok |-> TRUE]
    BY <2>3, <2>4 DEF Result
  <2>6. r.results = [i \in DOMAIN r.results |-> r.results[i]]
    BY <2>1
  <2>7. r.results = [i \in DOMAIN list |-> [command |-> list[i], ok |-> TRUE]]
    BY <2>3, <2>5, <2>6
  <2>8. QED
    BY <2>2, <2>7
<1>4. QED
  BY <1>1, <1>2, <1>3, TypeAlways, PTL DEF Spec

-----------------------------------------------------------------------------
(* The native pair (module NativePair).                                    *)

AttemptState == {"none", "empty", "started", "failed", "interrupted", "complete"}
Words == Seq(Reply \cup {"nothing"})
Receipt == {NoReceipt, Torn, Ordinary}
           \cup {Pair(got, note, sent) : got \in Words, note \in BOOLEAN, sent \in BOOLEAN}
Files == [attempt : AttemptState, native : SUBSET Model, last : SUBSET Model, receipt : Receipt]

\* The steps of a session that has made the attempt file (native_pair.run).
Holding == {"start", "dispatch", "running", "snapshot", "compose", "recheck"}
Label == {"idle", "look", "reserve", "save", "post"} \cup Holding
PairSession == [pc : Label, model : Model, got : Words, note : BOOLEAN]
Checkout == [tree : {"same", "edited", "moved"}, landed : BOOLEAN, scanned : BOOLEAN,
             removed : BOOLEAN]

PairTyped ==
    /\ files \in Files
    /\ ps \in [Shell -> PairSession]
    /\ checkout \in Checkout
    /\ dispatched \in [Model -> Nat]
    /\ said \in [Model -> Reply \cup {"nothing"}]

\* The attempt file is made once and never removed: it admits one session, and
\* a model is started only by that session and in its turn.
Untouched(m) == dispatched[m] = 0
ReservedInv ==
    /\ files.attempt = "none" =>
         (\A m \in Model : Untouched(m)) /\ \A s \in Shell : ps[s].pc \notin Holding
    /\ \A s, t \in Shell : ps[s].pc \in Holding /\ ps[t].pc \in Holding => s = t
    /\ \A m \in Model : dispatched[m] <= 1
TurnInv ==
    \A s \in Shell :
        /\ ps[s].pc \in {"idle", "look", "reserve", "start"} => ps[s].model = 1
        /\ ps[s].pc \in {"start", "dispatch"} =>
             Untouched(2) /\ (ps[s].model = 1 => Untouched(1))
        /\ ps[s].pc \in {"running", "snapshot"} /\ ps[s].model = 1 => Untouched(2)

\* What both models said.
Heard == <<said[1], said[2]>>
AllCaptured == files.native = Model

\* A captured model has spoken; a session holds what was said so far; a saved
\* pair holds all of it.
SpokenInv ==
    /\ files.last \subseteq files.native
    /\ \A m \in files.native : said[m] \in Reply
    /\ files.receipt.kind = "pair" => AllCaptured /\ files.receipt.got = Heard
Recalls(s) ==
    /\ ps[s].pc \in {"idle", "look", "reserve", "start"} => ps[s].got = << >>
    /\ ps[s].pc \in {"dispatch", "running", "snapshot"} =>
         \/ ps[s].model = 1 /\ ps[s].got = << >>
         \/ ps[s].model = 2 /\ ps[s].got = <<said[1]>> /\ 1 \in files.native
    /\ ps[s].pc = "snapshot" => ps[s].model \in files.native
    /\ ps[s].pc \in {"compose", "recheck", "save", "post"} =>
         AllCaptured /\ ps[s].got = Heard
    /\ ps[s].pc = "post" /\ Disagree(Heard) => ps[s].note
GotInv == \A s \in Shell : Recalls(s)

\* A published pair was saved before.
PostedInv == \A p \in posts : p.pair => AllCaptured

PairInv ==
    /\ PairTyped /\ ReservedInv /\ TurnInv /\ SpokenInv /\ GotInv /\ PostedInv
    /\ DisagreementHeld /\ EvidenceKept
-----------------------------------------------------------------------------
\* The initial state satisfies every part.
LEMMA PairInitial == PairInit => PairInv
<1> SUFFICES ASSUME PairInit PROVE PairInv
  OBVIOUS
<1> USE DEF PairInit, Idle
<1>1. PairTyped
  BY DEF PairTyped, Files, AttemptState, Receipt, Checkout, PairSession, Label, Words, Model
<1>2. ReservedInv /\ TurnInv
  BY DEF ReservedInv, TurnInv, Untouched, Holding, Model
<1>3. SpokenInv /\ GotInv
  BY DEF SpokenInv, GotInv, Recalls, NoReceipt
<1>4. PostedInv /\ DisagreementHeld /\ EvidenceKept
  BY DEF PostedInv, DisagreementHeld, EvidenceKept
<1>5. QED
  BY <1>1, <1>2, <1>3, <1>4 DEF PairInv

\* A second word after the first.
LEMMA TwoWords == ASSUME NEW a, NEW b PROVE Append(<<a>>, b) = <<a, b>>
<1> DEFINE S == {a, b}  one == <<a>>  both == <<a, b>>
<1>1. one \in Seq(S) /\ both \in Seq(S) /\ b \in S /\ Len(one) = 1 /\ Len(both) = 2
  OBVIOUS
<1>2. Append(one, b) \in Seq(S) /\ Len(Append(one, b)) = 2
  BY <1>1, AppendProperties
<1>3. Append(one, b)[1] = a /\ Append(one, b)[2] = b
  BY <1>1, AppendProperties
<1>4. both[1] = a /\ both[2] = b
  OBVIOUS
<1> HIDE DEF one, both, S
<1>5. \A i \in 1..Len(both) : Append(one, b)[i] = both[i]
  BY <1>1, <1>3, <1>4
<1>6. Append(one, b) = both
  BY <1>1, <1>2, <1>5, SeqEqual
<1>7. QED
  BY <1>6 DEF one, both

\* A word is a sequence of replies when it is one of these.
LEMMA FewReplies ==
    ASSUME NEW word,
           \/ word = << >>
           \/ \E a \in Reply : word = <<a>>
           \/ \E a, b \in Reply : word = <<a, b>>
    PROVE  word \in Seq(Reply) /\ Len(word) <= 2
<1>1. CASE word = << >>
  BY <1>1
<1>2. CASE \E a \in Reply : word = <<a>>
  BY <1>2
<1>3. CASE \E a, b \in Reply : word = <<a, b>>
  BY <1>3
<1>4. QED
  BY <1>1, <1>2, <1>3

\* The receipts of a head, and what a saved pair holds.
LEMMA Receipts ==
    /\ NoReceipt \in Receipt /\ Torn \in Receipt /\ Ordinary \in Receipt
    /\ NoReceipt.kind # "pair" /\ Torn.kind # "pair" /\ Ordinary.kind # "pair"
    /\ \A got \in Words, note, sent \in BOOLEAN : Pair(got, note, sent) \in Receipt
    /\ \A r \in Receipt : r.kind = "pair" => r.got \in Words /\ r.note \in BOOLEAN
<1>1. NoReceipt \in Receipt /\ Torn \in Receipt /\ Ordinary \in Receipt
  BY DEF Receipt
<1>2. NoReceipt.kind # "pair" /\ Torn.kind # "pair" /\ Ordinary.kind # "pair"
  BY DEF NoReceipt, Torn, Ordinary
<1>3. \A got \in Words, note, sent \in BOOLEAN : Pair(got, note, sent) \in Receipt
  BY DEF Receipt
<1>4. ASSUME NEW r \in Receipt, r.kind = "pair" PROVE r.got \in Words /\ r.note \in BOOLEAN
  <2>1. PICK got \in Words, note \in BOOLEAN, sent \in BOOLEAN : r = Pair(got, note, sent)
    BY <1>2, <1>4 DEF Receipt
  <2>2. QED
    BY <2>1 DEF Pair
<1>5. QED
  BY <1>1, <1>2, <1>3, <1>4

\* Each step keeps the types.
LEMMA PairTypedStep == PairTyped /\ [PairNext]_npvars => PairTyped'
<1> SUFFICES ASSUME PairTyped, [PairNext]_npvars PROVE PairTyped'
  OBVIOUS
<1> USE DEF PairTyped, Quiet, OnStep, ToStep
<1>1. ASSUME NEW s \in Shell, NEW label \in Label, ToStep(s, label) PROVE ps' \in [Shell -> PairSession]
  BY <1>1 DEF PairSession
<1>2. Idle \in PairSession
  BY DEF Idle, PairSession, Label, Words, Model
<1>3. ASSUME NEW s \in Shell, BeginPair(s) \/ LookForAttempt(s) \/ Dispatch(s)
      PROVE  PairTyped'
  <2>1. dispatched' \in [Model -> Nat]
    BY <1>3 DEF BeginPair, LookForAttempt, Dispatch, PairSession
  <2>2. ps' \in [Shell -> PairSession]
    BY <1>3, <1>1 DEF BeginPair, LookForAttempt, Dispatch, Label, Holding
  <2>3. QED
    BY <1>3, <2>1, <2>2 DEF BeginPair, LookForAttempt, Dispatch
<1>4. ASSUME NEW s \in Shell, Reserve(s) \/ Started(s) \/ Compose(s)
      PROVE  PairTyped'
  <2>1. files' \in Files
    BY <1>4 DEF Reserve, Started, Compose, Files, AttemptState
  <2>2. QED
    BY <1>4, <2>1, <1>1 DEF Reserve, Started, Compose, Label, Holding
<1>5. ASSUME NEW s \in Shell, CaptureStreams(s)
      PROVE  PairTyped'
  <2>1. ps[s].model \in Model
    BY DEF PairSession
  <2>2. files' \in Files
    BY <1>5, <2>1 DEF CaptureStreams, Files
  <2>3. said' \in [Model -> Reply \cup {"nothing"}]
    BY <1>5, <2>1 DEF CaptureStreams
  <2>4. ps' \in [Shell -> PairSession]
    BY <1>5, <1>1 DEF CaptureStreams, Label, Holding
  <2>5. QED
    BY <1>5, <2>2, <2>3, <2>4 DEF CaptureStreams
<1>6. ASSUME NEW s \in Shell, Member(s)
      PROVE  PairTyped'
  <2>1. ps[s].model \in Model /\ ps[s].got \in Words
    BY DEF PairSession
  <2>2. Append(ps[s].got, said[ps[s].model]) \in Words
    BY <2>1 DEF Words
  <2>3. files' \in Files
    BY <1>6, <2>1 DEF Member, Files
  <2>4. ps' \in [Shell -> PairSession]
    BY <1>6, <2>2 DEF Member, PairSession, Label, Holding, Model
  <2>5. QED
    BY <1>6, <2>3, <2>4 DEF Member
<1>7. ASSUME NEW s \in Shell, PairFails(s)
      PROVE  PairTyped'
  <2>1. ps[s].model \in Model
    BY DEF PairSession
  <2>2. PICK state \in {"failed", "interrupted"}, last \in SUBSET Model :
          files' = [files EXCEPT !.attempt = state, !.last = last]
    BY <1>7, <2>1 DEF PairFails, Files
  <2>3. files' \in Files
    BY <2>2 DEF Files, AttemptState
  <2>4. QED
    BY <1>7, <2>3, <1>2 DEF PairFails
<1>8. ASSUME NEW s \in Shell, RecheckClone(s)
      PROVE  PairTyped'
  BY <1>8, <1>1, <1>2 DEF RecheckClone, Label
<1>9. ASSUME NEW s \in Shell, SavePair(s)
      PROVE  PairTyped'
  <2>1. ps' \in [Shell -> PairSession]
    BY <1>9, <1>1, <1>2 DEF SavePair, Label
  <2>2. ps[s].got \in Words /\ ps[s].note \in BOOLEAN
    BY DEF PairSession
  <2>3. PICK sent \in BOOLEAN : files' = [files EXCEPT !.receipt = Pair(ps[s].got, ps[s].note, sent)]
    BY <1>9 DEF SavePair
  <2>4. files' \in Files
    BY <2>2, <2>3, Receipts DEF Files
  <2>5. QED
    BY <1>9, <2>1, <2>4 DEF SavePair
<1>10. ASSUME NEW s \in Shell, PostPair(s)
      PROVE  PairTyped'
  BY <1>10, <1>2 DEF PostPair
<1>11. ASSUME NEW s \in Shell, Kill(s)
      PROVE  PairTyped'
  BY <1>11, <1>2, Receipts DEF Kill, Files
<1>12. ASSUME NEW s \in Shell, NEW note \in BOOLEAN, BeginRepost(s, note)
      PROVE  PairTyped'
  <2>1. files.receipt \in Receipt /\ files.receipt.kind = "pair"
    BY <1>12 DEF BeginRepost, Files
  <2>2. files.receipt.got \in Words /\ (note \/ files.receipt.note) \in BOOLEAN
    BY <2>1, Receipts
  <2>3. [pc |-> "save", model |-> 2, got |-> files.receipt.got,
         note |-> note \/ files.receipt.note] \in PairSession
    BY <2>2 DEF PairSession, Label, Model
  <2>4. ps' \in [Shell -> PairSession]
    BY <1>12, <2>3 DEF BeginRepost
  <2>5. QED
    BY <1>12, <2>4 DEF BeginRepost
<1>13. CASE OrdinaryReview
  BY <1>13, Receipts DEF OrdinaryReview, Files
<1>14. CASE Change \/ Land \/ CleanupScan \/ CleanupRemove
  BY <1>14 DEF Change, Land, CleanupScan, CleanupRemove, Checkout
<1>15. CASE UNCHANGED npvars
  BY <1>15 DEF npvars
<1>16. QED
  BY <1>3, <1>4, <1>5, <1>6, <1>7, <1>8, <1>9, <1>10, <1>11, <1>12, <1>13, <1>14, <1>15
     DEF PairNext
-----------------------------------------------------------------------------
\* Nobody but the session that made the attempt file starts a model, and the
\* file is never removed (native_pair.run, O_CREAT | O_EXCL).
LEMMA TurnStep ==
    ASSUME PairTyped, ReservedInv, TurnInv, [PairNext]_npvars
    PROVE  ReservedInv' /\ TurnInv'
<1>1. PairTyped'
  BY PairTypedStep
<1> USE DEF ReservedInv, TurnInv, Untouched, Holding, Quiet, OnStep, ToStep
<1>2. \A s \in Shell : ps[s].model \in Model /\ ps[s].pc \in Label
  BY DEF PairTyped, PairSession
<1>3. DOMAIN ps = Shell /\ \A s \in Shell : ps[s] \in PairSession
  BY DEF PairTyped
<1>4. ASSUME NEW s \in Shell, BeginPair(s) \/ LookForAttempt(s)
      PROVE  ReservedInv' /\ TurnInv'
  BY <1>4, <1>3 DEF BeginPair, LookForAttempt, PairSession
<1>5. ASSUME NEW s \in Shell, Reserve(s)
      PROVE  ReservedInv' /\ TurnInv'
  BY <1>5, <1>3 DEF Reserve, PairSession, PairTyped, Files, Model
<1>6. ASSUME NEW s \in Shell, Started(s)
      PROVE  ReservedInv' /\ TurnInv'
  BY <1>6, <1>3 DEF Started, PairSession, PairTyped, Files, Model
<1>7. ASSUME NEW s \in Shell, Dispatch(s)
      PROVE  ReservedInv' /\ TurnInv'
  BY <1>7, <1>2, <1>3 DEF Dispatch, PairSession, PairTyped, Model
<1>8. ASSUME NEW s \in Shell, CaptureStreams(s)
      PROVE  ReservedInv' /\ TurnInv'
  BY <1>8, <1>3 DEF CaptureStreams, PairSession, PairTyped, Files
<1>9. ASSUME NEW s \in Shell, Member(s)
      PROVE  ReservedInv' /\ TurnInv'
  <2>1. files'.attempt = files.attempt /\ dispatched' = dispatched
    BY <1>9 DEF Member, PairTyped, Files
  <2>2. ps[s].pc = "snapshot" /\ ps[s].model \in Model
    BY <1>9, <1>2 DEF Member
  <2>3. /\ \A t \in Shell : t # s => ps'[t] = ps[t]
        /\ ps'[s].pc = IF ps[s].model = 1 THEN "dispatch" ELSE "compose"
        /\ ps'[s].model = 2
    BY <1>9, <1>3 DEF Member, PairSession
  <2>4. ReservedInv'
    BY <2>1, <2>2, <2>3
  <2>5. TurnInv'
    BY <2>1, <2>2, <2>3
  <2>6. QED BY <2>4, <2>5
<1>10. ASSUME NEW s \in Shell, PairFails(s)
      PROVE  ReservedInv' /\ TurnInv'
  BY <1>10, <1>3 DEF PairFails, Idle, PairSession, PairTyped, Files
<1>11. ASSUME NEW s \in Shell, Compose(s)
      PROVE  ReservedInv' /\ TurnInv'
  BY <1>11, <1>3 DEF Compose, PairSession, PairTyped, Files
<1>12. ASSUME NEW s \in Shell, RecheckClone(s) \/ PostPair(s)
      PROVE  ReservedInv' /\ TurnInv'
  <2>1. files' = files /\ dispatched' = dispatched
    BY <1>12 DEF RecheckClone, PostPair
  <2>2. ps' = [ps EXCEPT ![s] = Idle] \/ ps' = [ps EXCEPT ![s].pc = "save"]
    BY <1>12 DEF RecheckClone, PostPair
  <2>3. QED
    BY <2>1, <2>2, <1>3 DEF Idle, PairSession
<1>13. ASSUME NEW s \in Shell, SavePair(s)
      PROVE  ReservedInv' /\ TurnInv'
  <2>1. files'.attempt = files.attempt
    BY <1>13 DEF SavePair, PairTyped, Files
  <2>2. ps' = [ps EXCEPT ![s] = Idle] \/ ps' = [ps EXCEPT ![s].pc = "post"]
    BY <1>13 DEF SavePair
  <2>3. QED
    BY <1>13, <2>1, <2>2, <1>3 DEF SavePair, Idle, PairSession
<1>14. ASSUME NEW s \in Shell, Kill(s)
      PROVE  ReservedInv' /\ TurnInv'
  BY <1>14, <1>3 DEF Kill, Idle, PairSession, PairTyped, Files
<1>15. ASSUME NEW s \in Shell, NEW note \in BOOLEAN, BeginRepost(s, note)
      PROVE  ReservedInv' /\ TurnInv'
  BY <1>15, <1>3 DEF BeginRepost, PairSession, PairTyped, Files
<1>16. CASE OrdinaryReview
  BY <1>16 DEF OrdinaryReview, PairTyped, Files
<1>17. CASE Change \/ Land \/ CleanupScan \/ CleanupRemove \/ UNCHANGED npvars
  BY <1>17 DEF Change, Land, CleanupScan, CleanupRemove, npvars
<1>18. QED
  BY <1>4, <1>5, <1>6, <1>7, <1>8, <1>9, <1>10, <1>11, <1>12, <1>13, <1>14, <1>15, <1>16,
     <1>17 DEF PairNext
-----------------------------------------------------------------------------
\* What a session holds, what is saved and what is published is what the two
\* models said: nothing speaks again once it is captured.
LEMMA SaidStep ==
    ASSUME PairTyped, ReservedInv, TurnInv, SpokenInv, GotInv, PostedInv, DisagreementHeld,
           [PairNext]_npvars
    PROVE  SpokenInv' /\ GotInv' /\ PostedInv' /\ DisagreementHeld'
<1> DEFINE Said == SpokenInv /\ GotInv /\ PostedInv /\ DisagreementHeld
<1> USE DEF Quiet, OnStep, ToStep
<1>1. DOMAIN ps = Shell /\ \A s \in Shell : ps[s] \in PairSession
  BY DEF PairTyped
<1>2. files \in Files
  BY DEF PairTyped
<1>3. ASSUME UNCHANGED <<posts, said, files.native>>
      PROVE  PostedInv' /\ DisagreementHeld'
  BY <1>3 DEF PostedInv, DisagreementHeld, AllCaptured
<1>kept. ASSUME NEW t \in Shell, ps'[t] = ps[t] \/ ps'[t] = Idle,
             said' = said, files'.native = files.native
      PROVE  Recalls(t)'
  BY <1>kept DEF GotInv, Recalls, AllCaptured, Heard, Idle
<1>4. ASSUME NEW s \in Shell,
             BeginPair(s) \/ LookForAttempt(s) \/ Reserve(s) \/ Started(s) \/ Dispatch(s)
      PROVE  Said'
  <2>1. files' = [files EXCEPT !.attempt = files'.attempt] /\ said' = said /\ posts' = posts
    BY <1>2, <1>4 DEF BeginPair, LookForAttempt, Reserve, Started, Dispatch, Files
  <2>2. files'.native = files.native /\ files'.last = files.last /\ files'.receipt = files.receipt
    BY <2>1, <1>2 DEF Files
  <2>3. SpokenInv'
    BY <2>1, <2>2 DEF SpokenInv, AllCaptured, Heard
  <2>4. GotInv'
    BY <1>1, <1>4, <2>1, <2>2
       DEF BeginPair, LookForAttempt, Reserve, Started, Dispatch, GotInv, Recalls, TurnInv, AllCaptured, Heard,
           PairSession
  <2>5. QED
    BY <1>3, <2>1, <2>2, <2>3, <2>4
<1>5. ASSUME NEW s \in Shell, CaptureStreams(s)
      PROVE  Said'
  <2>1. ps[s].model \in Model /\ ps[s].model \notin files.native
    BY <1>1, <1>5 DEF CaptureStreams, PairSession
  <2>2. PICK reply \in Reply : said' = [said EXCEPT ![ps[s].model] = reply]
    BY <1>5 DEF CaptureStreams
  <2>3. files'.native = files.native \cup {ps[s].model} /\ files'.last = files.last
        /\ files'.receipt = files.receipt
    BY <1>2, <1>5 DEF CaptureStreams, Files
  <2>4. \A m \in Model : m # ps[s].model => said'[m] = said[m]
    BY <2>2 DEF PairTyped
  <2>5. said'[ps[s].model] \in Reply
    BY <2>1, <2>2 DEF PairTyped
  <2>6. ~AllCaptured
    BY <2>1 DEF AllCaptured
  <2>7. SpokenInv'
    BY <1>2, <2>1, <2>3, <2>4, <2>5, <2>6 DEF SpokenInv, Files
  <2>8. GotInv'
    <3> SUFFICES ASSUME NEW t \in Shell PROVE Recalls(t)'
      BY DEF GotInv
    <3>1. Recalls(s) /\ Recalls(t) /\ ps[t].model \in Model
      BY <1>1 DEF GotInv, PairSession
    <3>2. ps[s].pc = "running" /\ ps' = [ps EXCEPT ![s].pc = "snapshot"]
      BY <1>5 DEF CaptureStreams
    <3>3. CASE t = s
      <4>1. ps'[t].pc = "snapshot" /\ ps'[t].model = ps[s].model /\ ps'[t].got = ps[s].got
        BY <1>1, <3>2, <3>3 DEF PairSession
      <4>2. ps[s].model = 2 => said'[1] = said[1]
        BY <2>4 DEF Model
      <4>3. QED
        BY <2>3, <3>1, <3>2, <4>1, <4>2 DEF Recalls
    <3>4. CASE t # s
      <4>1. ps'[t] = ps[t]
        BY <1>1, <3>2, <3>4
      <4>2. ps[t].pc \notin Holding
        BY <3>2, <3>4 DEF ReservedInv, Holding
      <4>3. ps[t].pc \notin {"save", "post"}
        BY <2>6, <3>1 DEF Recalls
      <4>4. QED
        BY <3>1, <4>1, <4>2, <4>3 DEF Recalls, Holding
    <3>5. QED
      BY <3>3, <3>4
  <2>9. PostedInv' /\ DisagreementHeld'
    BY <1>5, <2>6 DEF CaptureStreams, PostedInv, DisagreementHeld
  <2>10. QED
    BY <2>7, <2>8, <2>9
<1>6. ASSUME NEW s \in Shell, Member(s)
      PROVE  Said'
  <2>1. ps[s].pc = "snapshot" /\ ps[s].model \in Model /\ Recalls(s)
    BY <1>1, <1>6 DEF Member, PairSession, GotInv
  <2>2. files'.native = files.native /\ files'.last = files.last \cup {ps[s].model}
        /\ files'.receipt = files.receipt /\ said' = said /\ posts' = posts
    BY <1>2, <1>6 DEF Member, Files
  <2>3. SpokenInv'
    BY <2>1, <2>2 DEF SpokenInv, AllCaptured, Heard, Recalls
  <2>4. ASSUME NEW t \in Shell, t # s PROVE Recalls(t)'
    <3>1. Recalls(t) /\ ps'[t] = ps[t]
      BY <1>1, <1>6, <2>4 DEF GotInv, Member
    <3>2. QED
      BY <2>2, <3>1 DEF Recalls, AllCaptured, Heard
  <2>5. Recalls(s)'
    <3>1. CASE ps[s].model = 1
      <4>1. ps'[s].pc = "dispatch" /\ ps'[s].model = 2 /\ ps'[s].got = Append(<< >>, said[1])
        BY <1>1, <1>6, <2>1, <3>1 DEF Member, Recalls, PairSession
      <4>2. QED
        BY <2>1, <2>2, <3>1, <4>1 DEF Recalls
    <3>2. CASE ps[s].model = 2
      <4>1. ps'[s].pc = "compose" /\ ps'[s].got = Append(<<said[1]>>, said[2])
        BY <1>1, <1>6, <2>1, <3>2 DEF Member, Recalls, PairSession
      <4>2. 1 \in files.native /\ 2 \in files.native
        BY <2>1, <3>2 DEF Recalls
      <4>3. AllCaptured'
        BY <1>2, <2>2, <4>2 DEF AllCaptured, Files, Model
      <4>4. Append(<<said[1]>>, said[2]) = Heard /\ Heard' = Heard
        BY <2>2, TwoWords DEF Heard
      <4>5. QED
        BY <4>1, <4>3, <4>4 DEF Recalls
    <3>3. QED
      BY <2>1, <3>1, <3>2 DEF Model
  <2>6. QED
    BY <1>3, <2>2, <2>3, <2>4, <2>5 DEF GotInv
<1>7. ASSUME NEW s \in Shell, PairFails(s)
      PROVE  Said'
  <2>1. ps[s].model \in Model /\ Recalls(s)
    BY <1>1 DEF PairSession, GotInv
  <2>2. files'.native = files.native /\ files'.receipt = files.receipt
        /\ files'.last \subseteq files.native /\ said' = said /\ posts' = posts
    BY <1>2, <1>7, <2>1 DEF PairFails, Files, Recalls, SpokenInv
  <2>3. SpokenInv'
    BY <2>2 DEF SpokenInv, AllCaptured, Heard
  <2>4. ASSUME NEW t \in Shell PROVE Recalls(t)'
    <3>1. Recalls(t) /\ (ps'[t] = ps[t] \/ ps'[t] = Idle)
      BY <1>1, <1>7 DEF GotInv, PairFails
    <3>2. QED
      BY <2>2, <3>1 DEF Recalls, AllCaptured, Heard, Idle
  <2>5. QED
    BY <1>3, <2>2, <2>3, <2>4 DEF GotInv
<1>8. ASSUME NEW s \in Shell, Compose(s) \/ RecheckClone(s)
      PROVE  Said'
  <2>1. files'.native = files.native /\ files'.last = files.last
        /\ files'.receipt = files.receipt /\ said' = said /\ posts' = posts
    BY <1>2, <1>8 DEF Compose, RecheckClone, Files
  <2>2. SpokenInv'
    BY <2>1 DEF SpokenInv, AllCaptured, Heard
  <2>3. ASSUME NEW t \in Shell, t # s PROVE Recalls(t)'
    BY <1>1, <1>8, <1>kept, <2>1, <2>3 DEF Compose, RecheckClone
  <2>4. Recalls(s)'
    <3>1. ps[s].pc \in {"compose", "recheck"} /\ Recalls(s)
      BY <1>8 DEF Compose, RecheckClone, GotInv
    <3>2. ps'[s] = Idle \/ (ps'[s].pc \in {"recheck", "save"} /\ ps'[s].got = ps[s].got)
      BY <1>1, <1>8 DEF Compose, RecheckClone, PairSession
    <3>3. QED
      BY <1>kept, <2>1, <3>1, <3>2 DEF Recalls, AllCaptured, Heard
  <2>5. QED
    BY <1>3, <2>1, <2>2, <2>3, <2>4 DEF GotInv
<1>9. ASSUME NEW s \in Shell, SavePair(s)
      PROVE  Said'
  <2>1. ps[s].pc = "save" /\ Recalls(s)
    BY <1>9 DEF SavePair, GotInv
  <2>2. ps[s].got = Heard /\ AllCaptured
    BY <2>1 DEF Recalls
  <2>3. PICK sent \in BOOLEAN : files' = [files EXCEPT !.receipt = Pair(Heard, ps[s].note, sent)]
    BY <1>9, <2>2 DEF SavePair
  <2>4. files'.native = files.native /\ files'.last = files.last /\ files'.receipt.got = Heard
        /\ said' = said /\ posts' = posts
    BY <1>2, <1>9, <2>3 DEF SavePair, Files, Pair
  <2>5. SpokenInv'
    BY <2>2, <2>4 DEF SpokenInv, AllCaptured, Heard
  <2>6. ASSUME NEW t \in Shell, t # s PROVE Recalls(t)'
    BY <1>1, <1>9, <1>kept, <2>4, <2>6 DEF SavePair
  <2>7. Recalls(s)'
    <3>1. CASE Disagree(Heard) /\ ~ps[s].note
      BY <1>1, <1>9, <1>kept, <2>2, <2>4, <3>1 DEF SavePair
    <3>2. CASE ~(Disagree(Heard) /\ ~ps[s].note)
      <4>1. ps'[s].pc = "post" /\ ps'[s].got = Heard /\ ps'[s].note = ps[s].note
        BY <1>1, <1>9, <2>2, <3>2 DEF SavePair, PairSession
      <4>2. QED
        BY <2>2, <2>4, <3>2, <4>1 DEF Recalls, AllCaptured, Heard
    <3>3. QED
      BY <3>1, <3>2
  <2>8. QED
    BY <1>3, <2>4, <2>5, <2>6, <2>7 DEF GotInv
<1>10. ASSUME NEW s \in Shell, PostPair(s)
      PROVE  Said'
  <2> DEFINE post == [pair |-> TRUE, got |-> ps[s].got, note |-> ps[s].note,
                      verdict |-> PairVerdict(ps[s].got)]
  <2>1. ps[s].pc = "post" /\ Recalls(s)
    BY <1>10 DEF PostPair, GotInv
  <2>2. files' = files /\ said' = said /\ posts' \subseteq posts \cup {post}
    BY <1>10 DEF PostPair
  <2>3. SpokenInv'
    BY <2>2 DEF SpokenInv, AllCaptured, Heard
  <2>4. GotInv'
    BY <1>1, <1>10, <1>kept, <2>2 DEF GotInv, PostPair
  <2>5. post.got = Heard /\ AllCaptured /\ (Disagree(Heard) => post.note)
    BY <2>1 DEF Recalls
  <2>6. post.verdict = "approve" <=> (said[1] = "approve" /\ said[2] = "approve")
    BY <2>5 DEF PairVerdict, Heard
  <2>7. PostedInv'
    BY <2>2, <2>5 DEF PostedInv, AllCaptured
  <2>8. DisagreementHeld'
    BY <2>2, <2>5, <2>6 DEF DisagreementHeld, Heard, Disagree
  <2>9. QED
    BY <2>3, <2>4, <2>7, <2>8
<1>11. ASSUME NEW s \in Shell, Kill(s)
      PROVE  Said'
  <2>1. files'.native = files.native /\ files'.last = files.last
        /\ (files'.receipt = files.receipt \/ files'.receipt = Torn)
        /\ said' = said /\ posts' = posts
    BY <1>2, <1>11 DEF Kill, Files
  <2>2. SpokenInv'
    BY <2>1, Receipts DEF SpokenInv, AllCaptured, Heard
  <2>3. GotInv'
    BY <1>1, <1>11, <1>kept, <2>1 DEF GotInv, Kill
  <2>4. QED
    BY <1>3, <2>1, <2>2, <2>3
<1>12. ASSUME NEW s \in Shell, NEW note \in BOOLEAN, BeginRepost(s, note)
      PROVE  Said'
  <2>1. files' = files /\ said' = said /\ posts' = posts
    BY <1>12 DEF BeginRepost
  <2>2. SpokenInv'
    BY <2>1 DEF SpokenInv, AllCaptured, Heard
  <2>3. AllCaptured /\ files.receipt.got = Heard
    BY <1>12 DEF BeginRepost, SpokenInv
  <2>4. ASSUME NEW t \in Shell PROVE Recalls(t)'
    <3>1. ps'[t] = ps[t] \/ (ps'[t].pc = "save" /\ ps'[t].got = Heard)
      BY <1>1, <1>12, <2>3 DEF BeginRepost
    <3>2. QED
      BY <1>kept, <2>1, <2>3, <3>1 DEF Recalls, AllCaptured, Heard
  <2>5. QED
    BY <1>3, <2>1, <2>2, <2>4 DEF GotInv
<1>13. CASE OrdinaryReview
  <2>1. files'.native = files.native /\ files'.last = files.last
        /\ files'.receipt = Ordinary /\ said' = said /\ ps' = ps
    BY <1>2, <1>13 DEF OrdinaryReview, Files
  <2>2. \A p \in posts' : p \in posts \/ ~p.pair
    BY <1>13 DEF OrdinaryReview
  <2>3. SpokenInv'
    BY <2>1, Receipts DEF SpokenInv
  <2>4. GotInv'
    BY <1>kept, <2>1 DEF GotInv
  <2>5. PostedInv' /\ DisagreementHeld'
    BY <2>1, <2>2 DEF PostedInv, DisagreementHeld, AllCaptured
  <2>6. QED
    BY <2>3, <2>4, <2>5
<1>14. CASE Change \/ Land \/ CleanupScan \/ CleanupRemove \/ UNCHANGED npvars
  <2>1. files' = files /\ said' = said /\ ps' = ps /\ posts' = posts
    BY <1>14 DEF Change, Land, CleanupScan, CleanupRemove, npvars
  <2>2. SpokenInv' /\ GotInv'
    BY <1>kept, <2>1 DEF SpokenInv, GotInv, AllCaptured, Heard
  <2>3. QED
    BY <1>3, <2>1, <2>2
<1>15. QED
  BY <1>4, <1>5, <1>6, <1>7, <1>8, <1>9, <1>10, <1>11, <1>12, <1>13, <1>14 DEF PairNext

\* Cleanup finds evidence of every dispatch: the attempt file (native_pair.evidence).
LEMMA KeptStep ==
    ASSUME ReservedInv, EvidenceKept, [PairNext]_npvars
    PROVE  EvidenceKept'
<1>1. CASE CleanupScan
  <2>1. files.attempt = "none"
    BY <1>1 DEF CleanupScan, Evidence
  <2>2. \A m \in Model : dispatched[m] = 0
    BY <2>1 DEF ReservedInv, Untouched
  <2>3. QED
    BY <1>1, <2>2 DEF CleanupScan, EvidenceKept
<1>2. CASE ~CleanupScan
  BY <1>2 DEF PairNext, npvars, EvidenceKept, Quiet, BeginPair, LookForAttempt, Reserve, Started,
     Dispatch, CaptureStreams, Member, PairFails, Compose, RecheckClone, SavePair, PostPair,
     Kill, BeginRepost, OrdinaryReview, Change, Land, CleanupRemove
<1>3. QED
  BY <1>1, <1>2

\* All parts together hold of every reachable state.
LEMMA PairAlways == PairSpec => []PairInv
<1>1. PairInv /\ [PairNext]_npvars => PairInv'
  BY PairTypedStep, TurnStep, SaidStep, KeptStep DEF PairInv
<1>2. QED
  BY <1>1, PairInitial, PTL DEF PairSpec

-----------------------------------------------------------------------------
\* Every reachable state has its type, and a model's last message is never
\* there without its streams.
THEOREM PairTypeCorrect == PairSpec => []PairTypeOK
<1>1. PairInv => PairTypeOK
  <2> SUFFICES ASSUME PairInv PROVE PairTypeOK
    OBVIOUS
  <2>1. files \in Files /\ files.receipt.kind \in {"none", "torn", "ordinary", "pair"}
    BY DEF PairInv, PairTyped, Files, Receipt, NoReceipt, Torn, Ordinary, Pair
  <2>2. ASSUME NEW s \in Shell PROVE ps[s].got \in Seq(Reply) /\ Len(ps[s].got) <= 2
    <3>1. Recalls(s) /\ ps[s].pc \in Label /\ SpokenInv
      BY DEF PairInv, GotInv, PairTyped, PairSession
    <3>2. \/ ps[s].got = << >>
          \/ ps[s].got = <<said[1]>> /\ 1 \in files.native
          \/ ps[s].got = <<said[1], said[2]>> /\ 1 \in files.native /\ 2 \in files.native
      BY <3>1 DEF Recalls, AllCaptured, Heard, Label, Holding, Model
    <3>3. ps[s].got = << >> \/ (\E a \in Reply : ps[s].got = <<a>>)
          \/ (\E a, b \in Reply : ps[s].got = <<a, b>>)
      BY <3>1, <3>2 DEF SpokenInv
    <3>4. QED
      BY <3>3, FewReplies
  <2>3. QED
    BY <2>1, <2>2 DEF PairInv, SpokenInv, PairTypeOK, Files, AttemptState
<1>2. QED
  BY <1>1, PairAlways, PTL

\* Each model is started at most once for a head, over any number of sessions,
\* kills, interrupts and restarts (native_pair.run).
THEOREM PairDispatchedOnce == PairSpec => []DispatchedOnce
<1>1. PairInv => DispatchedOnce
  BY DEF PairInv, ReservedInv, DispatchedOnce
<1>2. QED
  BY <1>1, PairAlways, PTL

\* A published pair is what the two models said; where they differ the operator
\* gave a note; it approves only when both did (native_pair.compose, cmd_review).
THEOREM PairDisagreementHeld == PairSpec => []DisagreementHeld
<1>1. PairInv => DisagreementHeld
  BY DEF PairInv
<1>2. QED
  BY <1>1, PairAlways, PTL

\* A clone in which a model was started before cleanup's scan is never found free
\* of evidence by it (cli._cleanup, native_pair.evidence).
THEOREM PairEvidenceKept == PairSpec => []EvidenceKept
<1>1. PairInv => EvidenceKept
  BY DEF PairInv
<1>2. QED
  BY <1>1, PairAlways, PTL

-----------------------------------------------------------------------------
(* One native call (module CodexCall), for any length of the session.      *)

CodexSpec == CodexInit /\ [][CodexNext]_cxvars

Process == [running : Nat, asks : SUBSET Reads, saw : SUBSET Reads,
            said : Says \cup {"nothing"}, sawBefore : SUBSET Reads, turn : BOOLEAN,
            next : Nat, faults : Nat]
Caller == [pc : {"running", "result", "posted", "held", "failed"},
           verdict : {"none", "approve", "request_changes"},
           inspection : {"none", "verified", "unknown"}]

CodexTyped ==
    /\ stream \in Seq(Event) /\ proc \in Process /\ cc \in Caller
    /\ file \in Says \cup {"unusable"}

\* The last message the stream reports.
IsLast(l) == l \in Indices("message") /\ \A i \in Indices("message") : i <= l
LastIsSaid == \A l \in DOMAIN stream : IsLast(l) => stream[l].says = proc.said

\* Without a fault the last message of the stream is the last one said.
StreamInv ==
    /\ Indices("turn") # {} => proc.turn
    /\ Indices("message") # {} => \E l \in DOMAIN stream : IsLast(l)
    /\ proc.faults = 0 => LastIsSaid

\* One fault, at most, leaves one of the two reports right.
OneFault == MaxFaults \in 0..1
ReportInv ==
    cc.pc \in {"result", "posted", "held"} =>
        /\ file \in Says /\ cc.verdict = CodexVerdict(file)
        /\ OneFault => file = proc.said \/ LastIsSaid

\* What one thread reports as read was read, and by the time it reports so.
Good(i) == stream[i].kind = "done" /\ stream[i].ok
SeenInv ==
    Indices("alien") = {} =>
        \A i \in DOMAIN stream : Good(i) =>
            /\ stream[i].reads \subseteq proc.saw
            /\ \A j \in Indices("message") : i < j => stream[i].reads \subseteq proc.sawBefore

\* The only thread that is reported to start is another one than the session's
\* when there were two faults: its own start is lost, and the other reported.
ThreadInv ==
    /\ Indices("message") # {} => proc.next > 1
    /\ Indices("alien") # {} => proc.faults >= 1
    /\ proc.next > 1 /\ Indices("thread") = {} =>
         proc.faults >= 1 /\ (Indices("alien") # {} => proc.faults >= 2)
    /\ OneFault => proc.faults <= 1

CodexInv ==
    /\ CodexTyped /\ StreamInv /\ ReportInv /\ SeenInv /\ ThreadInv
    /\ OneFault => PostedIsSaid /\ VerifiedInspected

\* A report leaves what the stream held before it; the process goes on.
LEMMA EmitShape ==
    \A next : \A event \in Event :
        CodexTyped /\ Emit(next, event) =>
            /\ stream' \in Seq(Event) /\ cc' = cc /\ file' = file /\ cc.pc = "running"
            /\ Len(stream) \in Nat /\ Len(stream') \in Nat /\ Len(stream) <= Len(stream')
            /\ \A i \in 1..Len(stream) : stream'[i] = stream[i]
            /\ \A i \in (Len(stream) + 1)..Len(stream') : stream'[i] = event
            /\ \/ proc' = next /\ Len(stream') = Len(stream) + 1
               \/ proc.faults < MaxFaults /\ proc' = [next EXCEPT !.faults = @ + 1]
<1> SUFFICES ASSUME NEW next, NEW event \in Event, CodexTyped, Emit(next, event)
             PROVE  /\ stream' \in Seq(Event) /\ cc' = cc /\ file' = file /\ cc.pc = "running"
                    /\ Len(stream) \in Nat /\ Len(stream') \in Nat
                    /\ Len(stream) <= Len(stream')
                    /\ \A i \in 1..Len(stream) : stream'[i] = stream[i]
                    /\ \A i \in (Len(stream) + 1)..Len(stream') : stream'[i] = event
                    /\ \/ proc' = next /\ Len(stream') = Len(stream) + 1
                       \/ /\ proc.faults < MaxFaults
                          /\ proc' = [next EXCEPT !.faults = @ + 1]
  OBVIOUS
<1>1. stream \in Seq(Event) /\ Len(stream) \in Nat
  BY DEF CodexTyped
<1>2. cc' = cc /\ file' = file /\ cc.pc = "running"
  BY DEF Emit, Running
<1>3. CASE stream' = Append(stream, event)
  BY <1>1, <1>2, <1>3, AppendProperties DEF Emit
<1>4. CASE stream' = stream
  BY <1>1, <1>2, <1>4, stream # Append(stream, event) DEF Emit
<1>5. CASE stream' = stream \o <<event, event>>
  <2>1. <<event, event>> \in Seq(Event) /\ Len(<<event, event>>) = 2
        /\ \A i \in 1..2 : <<event, event>>[i] = event
    OBVIOUS
  <2> DEFINE twice == <<event, event>>
  <2> HIDE DEF twice
  <2>2. /\ stream' \in Seq(Event) /\ Len(stream') = Len(stream) + 2
        /\ \A i \in 1..Len(stream') :
             stream'[i] = IF i <= Len(stream) THEN stream[i] ELSE twice[i - Len(stream)]
    BY <1>1, <1>5, <2>1, ConcatProperties DEF twice
  <2>3. stream' # Append(stream, event)
    BY <1>1, <2>2, AppendProperties
  <2>4. \A i \in (Len(stream) + 1)..Len(stream') : stream'[i] = event
    BY <1>1, <2>1, <2>2 DEF twice
  <2>5. QED BY <1>1, <1>2, <2>2, <2>3, <2>4 DEF Emit
<1>6. QED BY <1>3, <1>4, <1>5 DEF Emit

\* A step of the process and what it reports agree.
Reports(next, event) ==
    /\ next \in Process /\ next.faults = proc.faults
    /\ event \in Event /\ event.kind # "alien"
    /\ proc.turn \/ event.kind = "turn" => next.turn
    /\ proc.saw \subseteq next.saw
    /\ event.kind = "done" /\ event.ok => event.reads \subseteq next.saw
    /\ IF event.kind = "message" THEN next.said = event.says /\ next.sawBefore = proc.saw
       ELSE next.said = proc.said /\ next.sawBefore = proc.sawBefore
    /\ event.kind = "message" => proc.next > 1
    /\ proc.next > 1 => next.next > 1
    /\ next.next > 1 => proc.next > 1 \/ (event.kind = "thread" /\ stream = << >>)

\* A report keeps count of the threads and the faults.
LEMMA EmitThreads ==
    ASSUME CodexInv, NEW next, NEW event, Reports(next, event), Emit(next, event)
    PROVE  ThreadInv'
<1> DEFINE n == Len(stream)
<1>1. PICK long : long = Len(stream')
  OBVIOUS
<1>2. /\ stream' \in Seq(Event) /\ n \in Nat /\ long \in Nat /\ n <= long
      /\ \A i \in 1..n : stream'[i] = stream[i]
      /\ \A i \in (n + 1)..long : stream'[i] = event
      /\ \/ proc' = next /\ long = n + 1
         \/ proc.faults < MaxFaults /\ proc' = [next EXCEPT !.faults = @ + 1]
  BY <1>1, EmitShape DEF CodexInv, Reports
<1>3. DOMAIN stream = 1..n /\ DOMAIN stream' = 1..long
  BY <1>1, <1>2 DEF CodexInv, CodexTyped
<1> HIDE DEF n
<1>4. /\ proc'.next = next.next /\ next.next \in Nat
      /\ proc.faults \in Nat /\ proc'.faults \in Nat
      /\ \/ proc'.faults = proc.faults /\ long = n + 1
         \/ proc'.faults = proc.faults + 1 /\ proc.faults < MaxFaults
  <2>1. proc \in Process /\ next \in Process /\ next.faults = proc.faults
    BY DEF CodexInv, CodexTyped, Reports
  <2>2. CASE proc' = next /\ long = n + 1
    BY <2>1, <2>2 DEF Process
  <2>3. CASE proc.faults < MaxFaults /\ proc' = [next EXCEPT !.faults = @ + 1]
    BY <2>1, <2>3 DEF Process
  <2>4. QED BY <1>2, <2>2, <2>3
<1>5. \A i \in DOMAIN stream : i \in DOMAIN stream' /\ stream'[i] = stream[i]
  BY <1>2, <1>3
<1>6. \A i \in DOMAIN stream' :
         (i \in DOMAIN stream /\ stream'[i] = stream[i]) \/ stream'[i] = event
  BY <1>2, <1>3
<1>7. long = n + 1 => n + 1 \in DOMAIN stream' /\ stream'[n + 1] = event
  BY <1>2, <1>3
<1>8. (Indices("message") # {} => proc.next > 1)'
  <2>1. Indices("message")' # {} => Indices("message") # {} \/ event.kind = "message"
    BY <1>6 DEF Indices
  <2>2. QED BY <1>4, <2>1 DEF CodexInv, ThreadInv, Reports
<1>9. Indices("alien")' # {} => Indices("alien") # {}
  BY <1>6 DEF Indices, Reports
<1>10. Indices("thread")' = {} => Indices("thread") = {}
  BY <1>5 DEF Indices
<1>11. ASSUME proc'.next > 1, Indices("thread")' = {}
       PROVE  proc'.faults >= 1 /\ (Indices("alien")' # {} => proc'.faults >= 2)
  <2>1. CASE proc.next > 1
    BY <1>4, <1>9, <1>10, <1>11, <2>1 DEF CodexInv, ThreadInv
  <2>2. CASE event.kind = "thread" /\ stream = << >>
    <3>1. long # n + 1
      BY <1>7, <1>11, <2>2 DEF Indices
    <3>2. Indices("alien") = {}
      BY <2>2 DEF Indices
    <3>3. QED BY <1>4, <1>9, <3>1, <3>2
  <2>3. QED BY <1>4, <1>11, <2>1, <2>2 DEF Reports
<1>12. (Indices("alien") # {} => proc.faults >= 1)'
  BY <1>4, <1>9 DEF CodexInv, ThreadInv
<1>13. OneFault => proc'.faults <= 1
  BY <1>4 DEF CodexInv, ThreadInv, OneFault
<1>14. QED BY <1>8, <1>11, <1>12, <1>13 DEF ThreadInv, OneFault

LEMMA EmitKeeps ==
    \A next, event :
        CodexInv /\ Reports(next, event) /\ Emit(next, event) => CodexInv'
<1> SUFFICES ASSUME NEW next, NEW event, CodexInv, Reports(next, event), Emit(next, event)
             PROVE  CodexInv'
  OBVIOUS
<1> DEFINE n == Len(stream)
<1>1. PICK long : long = Len(stream')
  OBVIOUS
<1>2. /\ stream' \in Seq(Event) /\ cc' = cc /\ file' = file /\ cc.pc = "running"
      /\ n \in Nat /\ long \in Nat /\ n <= long
      /\ \A i \in 1..n : stream'[i] = stream[i]
      /\ \A i \in (n + 1)..long : stream'[i] = event
      /\ \/ proc' = next /\ long = n + 1
         \/ proc' = [next EXCEPT !.faults = @ + 1]
  BY <1>1, EmitShape DEF CodexInv, Reports
<1>3. DOMAIN stream = 1..n /\ DOMAIN stream' = 1..long
  BY <1>1, <1>2 DEF CodexInv, CodexTyped
<1> HIDE DEF n
<1>4. /\ proc' \in Process /\ next \in Process /\ proc \in Process
      /\ proc'.said = next.said /\ proc'.saw = next.saw /\ proc'.sawBefore = next.sawBefore
      /\ proc'.turn = next.turn
      /\ proc'.faults = 0 => proc.faults = 0 /\ long = n + 1
  <2>1. proc \in Process /\ next \in Process /\ next.faults = proc.faults
    BY DEF CodexInv, CodexTyped, Reports
  <2>2. CASE proc' = next /\ long = n + 1
    BY <2>1, <2>2
  <2>3. CASE proc' = [next EXCEPT !.faults = @ + 1]
    BY <2>1, <2>3 DEF Process
  <2>4. QED BY <1>2, <2>1, <2>2, <2>3
<1>5. CodexTyped'
  BY <1>2, <1>4 DEF CodexInv, CodexTyped
<1>6. \A i \in DOMAIN stream' :
         \/ i \in DOMAIN stream /\ stream'[i] = stream[i]
         \/ i \notin DOMAIN stream /\ i > n /\ stream'[i] = event
  BY <1>2, <1>3
<1>7. \A i \in DOMAIN stream : i \in DOMAIN stream' /\ stream'[i] = stream[i] /\ i <= n
  BY <1>2, <1>3
<1>8. (Indices("turn") # {} => proc.turn)'
  BY <1>4, <1>6 DEF CodexInv, StreamInv, Reports, Indices, Process
<1>9. (Indices("message") # {} => \E l \in DOMAIN stream : IsLast(l))'
  <2> SUFFICES ASSUME NEW m \in DOMAIN stream', stream'[m].kind = "message"
               PROVE  \E l \in DOMAIN stream' : IsLast(l)'
    BY DEF Indices
  <2>1. CASE event.kind = "message" /\ long > n
    <3>1. IsLast(long)'
      BY <1>2, <1>3, <2>1 DEF IsLast, Indices
    <3>2. QED BY <1>2, <1>3, <2>1, <3>1
  <2>2. CASE ~(event.kind = "message" /\ long > n)
    <3>1. \A i : i \in Indices("message")' <=> i \in Indices("message")
      BY <1>2, <1>3, <1>6, <1>7, <2>2 DEF Indices
    <3>2. m \in Indices("message")
      BY <3>1 DEF Indices
    <3>3. PICK l \in DOMAIN stream : IsLast(l)
      BY <3>2 DEF CodexInv, StreamInv
    <3>4. IsLast(l)'
      BY <3>1, <3>3 DEF IsLast
    <3>5. QED BY <1>7, <3>3, <3>4
  <2>3. QED BY <2>1, <2>2
<1>10. (proc.faults = 0 => LastIsSaid)'
  <2> SUFFICES ASSUME proc'.faults = 0, NEW l \in DOMAIN stream', IsLast(l)'
               PROVE  stream'[l].says = proc'.said
    BY DEF LastIsSaid
  <2>1. proc.faults = 0 /\ long = n + 1
    BY <1>4
  <2>2. CASE event.kind = "message"
    <3>1. n + 1 \in Indices("message")' /\ stream'[n + 1] = event
      BY <1>2, <1>3, <2>1, <2>2 DEF Indices
    <3>2. l = n + 1
      BY <1>2, <1>3, <2>1, <3>1 DEF IsLast
    <3>3. QED BY <1>4, <2>2, <3>1, <3>2 DEF Reports
  <2>3. CASE event.kind # "message"
    <3>1. \A i : i \in Indices("message")' <=> i \in Indices("message")
      BY <1>6, <1>7, <2>3 DEF Indices
    <3>2. IsLast(l) /\ l \in DOMAIN stream
      BY <3>1 DEF IsLast, Indices
    <3>3. QED BY <1>4, <1>7, <2>1, <2>3, <3>2 DEF CodexInv, StreamInv, LastIsSaid, Reports
  <2>4. QED BY <2>2, <2>3
<1>11. SeenInv'
  <2> SUFFICES ASSUME Indices("alien")' = {}, NEW i \in DOMAIN stream', Good(i)'
               PROVE  /\ stream'[i].reads \subseteq proc'.saw
                      /\ \A j \in Indices("message")' :
                           i < j => stream'[i].reads \subseteq proc'.sawBefore
    BY DEF SeenInv
  <2>1. Indices("alien") = {}
    BY <1>7 DEF Indices
  <2>2. CASE i \in DOMAIN stream
    <3>1. Good(i) /\ stream'[i].reads = stream[i].reads
      BY <1>7, <2>2 DEF Good
    <3>2. /\ stream[i].reads \subseteq proc.saw
          /\ \A j \in Indices("message") : i < j => stream[i].reads \subseteq proc.sawBefore
      BY <2>1, <2>2, <3>1 DEF CodexInv, SeenInv
    <3>3. ASSUME NEW j \in Indices("message")', i < j
          PROVE  stream[i].reads \subseteq proc'.sawBefore
      BY <1>4, <1>6, <3>2, <3>3 DEF Indices, Reports
    <3>4. QED BY <1>4, <3>1, <3>2, <3>3 DEF Reports
  <2>3. CASE i \notin DOMAIN stream
    <3>1. stream'[i] = event /\ i > n
      BY <1>6, <2>3
    <3>2. event.kind = "done" /\ event.ok
      BY <3>1 DEF Good
    <3>3. ASSUME NEW j \in Indices("message")' PROVE ~(i < j)
      BY <1>2, <1>3, <1>6, <3>1, <3>2, <3>3 DEF Indices
    <3>4. QED BY <1>4, <3>1, <3>2, <3>3 DEF Reports
  <2>4. QED BY <2>2, <2>3
<1>12. (ReportInv /\ PostedIsSaid /\ VerifiedInspected)'
  BY <1>2 DEF ReportInv, PostedIsSaid, VerifiedInspected
<1>13. QED BY <1>5, <1>8, <1>9, <1>10, <1>11, <1>12, EmitThreads
              DEF CodexInv, StreamInv, OneFault

LEMMA EventTypes ==
    /\ \A kind \in {"thread", "turn", "failed", "fatal", "start", "done", "alien"} :
         Plain(kind) \in Event /\ Plain(kind).kind = kind
    /\ \A kind \in {"start", "done"}, id \in Nat, reads \in SUBSET Reads, ok \in BOOLEAN :
         /\ CommandEvent(kind, id, reads, ok) \in Event
         /\ CommandEvent(kind, id, reads, ok).kind = kind
         /\ CommandEvent(kind, id, reads, ok).reads = reads
         /\ CommandEvent(kind, id, reads, ok).ok = ok
    /\ \A says \in Says :
         Message(says) \in Event /\ Message(says).kind = "message" /\ Message(says).says = says
<1>1. \A kind \in {"thread", "turn", "failed", "fatal", "start", "done", "message", "alien"} :
         Plain(kind) \in Event /\ Plain(kind).kind = kind
  BY DEF Plain, Event, NoId
<1>2. ASSUME NEW kind \in {"start", "done"}, NEW id \in Nat, NEW reads \in SUBSET Reads,
             NEW ok \in BOOLEAN
      PROVE  /\ CommandEvent(kind, id, reads, ok) \in Event
             /\ CommandEvent(kind, id, reads, ok).kind = kind
             /\ CommandEvent(kind, id, reads, ok).reads = reads
             /\ CommandEvent(kind, id, reads, ok).ok = ok
  <2>1. Plain(kind) \in Event /\ Plain(kind).kind = kind
    BY <1>1
  <2> HIDE DEF Plain
  <2> DEFINE event == [Plain(kind) EXCEPT !.id = id, !.reads = reads, !.ok = ok]
  <2>2. /\ event \in Event /\ event.kind = kind /\ event.reads = reads
        /\ event.ok = ok
    BY <2>1 DEF Event
  <2>3. QED BY <2>2 DEF CommandEvent
<1>3. ASSUME NEW says \in Says
      PROVE  Message(says) \in Event /\ Message(says).kind = "message"
             /\ Message(says).says = says
  <2>1. Plain("message") \in Event /\ Plain("message").kind = "message"
    BY <1>1
  <2>2. QED BY <2>1 DEF Event, Message
<1>4. QED BY <1>1, <1>2, <1>3

LEMMA ProcessStep ==
    ASSUME CodexInv,
           \/ StartThread \/ FatalStartup
           \/ \E reads \in (SUBSET Reads) \ {{}} : StartCommand(reads)
           \/ \E ok \in BOOLEAN : EndCommand(ok)
           \/ \E says \in Says : Say(says)
           \/ \E kind \in {"turn", "failed"} : EndTurn(kind)
    PROVE  CodexInv'
<1>t. proc \in Process
  BY DEF CodexInv, CodexTyped
<1>1. CASE StartThread
  <2>1. Reports([proc EXCEPT !.next = 2], Plain("thread"))
    BY <1>t, <1>1, EventTypes DEF Reports, Process, StartThread
  <2>2. QED BY <1>1, <2>1, EmitKeeps DEF StartThread
<1>2. CASE FatalStartup
  <2>1. Reports(proc, Plain("fatal"))
    BY <1>t, EventTypes DEF Reports, Process
  <2>2. Emit(proc, Plain("fatal"))
    BY <1>2 DEF FatalStartup, Emit
  <2>3. QED BY <2>1, <2>2, EmitKeeps
<1>3. ASSUME NEW reads \in SUBSET Reads, StartCommand(reads) PROVE CodexInv'
  <2> DEFINE next == [proc EXCEPT !.running = proc.next, !.asks = reads, !.next = @ + 1]
             event == CommandEvent("start", proc.next, reads, FALSE)
  <2>1. event \in Event /\ event.kind = "start"
    <3>1. proc.next \in Nat
      BY <1>t DEF Process
    <3>2. Plain("start") \in Event /\ Plain("start").kind = "start"
      BY EventTypes
    <3>3. QED BY <3>1, <3>2 DEF CommandEvent, Event
  <2>2. /\ next \in Process /\ next.faults = proc.faults /\ next.turn = proc.turn
        /\ next.said = proc.said /\ next.sawBefore = proc.sawBefore /\ next.saw = proc.saw
        /\ proc.next > 1 /\ next.next > 1
    <3> DEFINE begun == [proc EXCEPT !.running = proc.next, !.asks = reads]
    <3>1. /\ begun \in Process /\ begun.next = proc.next /\ begun.faults = proc.faults
          /\ begun.turn = proc.turn /\ begun.said = proc.said
          /\ begun.sawBefore = proc.sawBefore /\ begun.saw = proc.saw
      BY <1>t DEF Process
    <3>2. next = [begun EXCEPT !.next = @ + 1]
      BY <1>t, <3>1 DEF Process
    <3>3. proc.next > 1
      BY <1>3 DEF StartCommand
    <3> HIDE DEF begun, next
    <3>4. QED BY <3>1, <3>2, <3>3 DEF Process
  <2> HIDE DEF next, event
  <2>3. Reports(next, event)
    BY <1>t, <2>1, <2>2 DEF Reports, Process
  <2>4. Emit(next, event)
    BY <1>3 DEF StartCommand, next, event
  <2>5. QED BY <2>3, <2>4, EmitKeeps
<1>4. ASSUME NEW ok \in BOOLEAN, EndCommand(ok) PROVE CodexInv'
  <2> DEFINE next == [proc EXCEPT !.running = NoId, !.asks = {},
                                  !.saw = IF ok THEN @ \cup proc.asks ELSE @]
             event == CommandEvent("done", proc.running, proc.asks, ok)
  <2>1. event \in Event /\ event.kind = "done" /\ event.reads = proc.asks /\ event.ok = ok
    BY <1>t, EventTypes DEF Process
  <2>2. /\ next \in Process /\ next.faults = proc.faults /\ next.turn = proc.turn
        /\ next.said = proc.said /\ next.sawBefore = proc.sawBefore
        /\ next.saw = IF ok THEN proc.saw \cup proc.asks ELSE proc.saw
        /\ next.next = proc.next
    BY <1>t DEF Process, NoId
  <2> HIDE DEF next, event
  <2>3. Reports(next, event)
    BY <1>t, <2>1, <2>2 DEF Reports, Process
  <2>4. Emit(next, event)
    BY <1>4 DEF EndCommand, next, event
  <2>5. QED BY <2>3, <2>4, EmitKeeps
<1>5. ASSUME NEW says \in Says, Say(says) PROVE CodexInv'
  <2>1. Reports([proc EXCEPT !.said = says, !.sawBefore = proc.saw], Message(says))
    BY <1>t, <1>5, EventTypes DEF Reports, Process, Say
  <2>2. QED BY <1>5, <2>1, EmitKeeps DEF Say
<1>6. ASSUME NEW kind \in {"turn", "failed"}, EndTurn(kind) PROVE CodexInv'
  <2>1. Reports([proc EXCEPT !.turn = (kind = "turn")], Plain(kind))
    BY <1>t, <1>6, EventTypes DEF Reports, Process, EndTurn
  <2>2. QED BY <1>6, <2>1, EmitKeeps DEF EndTurn
<1>7. QED BY <1>1, <1>2, <1>3, <1>4, <1>5, <1>6

\* The events of another thread leave the session as it was.
LEMMA AlienStep == CodexInv /\ AlienReport => CodexInv'
<1> SUFFICES ASSUME CodexInv, AlienReport PROVE CodexInv'
  OBVIOUS
<1> DEFINE n == Len(stream)
           more == <<Plain("alien"), CommandEvent("start", 90, Reads, FALSE),
                     CommandEvent("done", 90, Reads, TRUE)>>
<1>1. /\ more \in Seq(Event) /\ Len(more) = 3
      /\ more[1].kind = "alien" /\ more[2].kind = "start" /\ more[3].kind = "done"
  <2>1. Plain("alien") \in Event /\ Plain("alien").kind = "alien"
    BY EventTypes
  <2>2. /\ CommandEvent("start", 90, Reads, FALSE) \in Event
        /\ CommandEvent("start", 90, Reads, FALSE).kind = "start"
        /\ CommandEvent("done", 90, Reads, TRUE) \in Event
        /\ CommandEvent("done", 90, Reads, TRUE).kind = "done"
    <3>1. 90 \in Nat /\ Reads \in SUBSET Reads
      OBVIOUS
    <3>2. /\ Plain("start") \in Event /\ Plain("start").kind = "start"
          /\ Plain("done") \in Event /\ Plain("done").kind = "done"
      BY EventTypes
    <3>3. QED BY <3>1, <3>2 DEF CommandEvent, Event
  <2>3. \A a, b, c \in Event : <<a, b, c>> \in Seq(Event)
    OBVIOUS
  <2>4. QED BY <2>1, <2>2, <2>3 DEF CommandEvent
<1>2. /\ proc \in Process /\ stream \in Seq(Event) /\ cc' = cc /\ file' = file
      /\ cc.pc = "running" /\ proc' = [proc EXCEPT !.faults = @ + 1]
      /\ stream' = stream \o more
  BY DEF AlienReport, CodexInv, CodexTyped, Running
<1> HIDE DEF more
<1>3. /\ n \in Nat /\ DOMAIN stream = 1..n /\ DOMAIN stream' = 1..(n + 3)
      /\ stream' \in Seq(Event)
      /\ \A i \in 1..n : stream'[i] = stream[i]
      /\ stream'[n + 1] = more[1] /\ stream'[n + 2] = more[2] /\ stream'[n + 3] = more[3]
  <2>1. /\ stream' \in Seq(Event) /\ Len(stream') = n + 3 /\ n \in Nat
        /\ \A i \in 1..(n + 3) :
             stream'[i] = IF i <= n THEN stream[i] ELSE more[i - n]
    <3>1. /\ stream \o more \in Seq(Event) /\ Len(stream \o more) = n + 3
          /\ \A i \in 1..(n + 3) :
               (stream \o more)[i] = IF i <= n THEN stream[i] ELSE more[i - n]
      <4> HIDE DEF n
      <4>1. /\ stream \in Seq(Event) /\ more \in Seq(Event) /\ Len(more) = 3
            /\ n = Len(stream) /\ n \in Nat
        BY <1>1, <1>2 DEF n
      <4>2. PICK a \in Seq(Event), b \in Seq(Event) : a = stream /\ b = more
        BY <4>1
      <4>3. /\ a \o b \in Seq(Event) /\ Len(a \o b) = Len(a) + Len(b)
            /\ \A i \in 1..(Len(a) + Len(b)) :
                 (a \o b)[i] = IF i <= Len(a) THEN a[i] ELSE b[i - Len(a)]
        BY ConcatProperties
      <4>4. Len(a) = n /\ Len(a) + Len(b) = n + 3
        BY <4>1, <4>2
      <4>5. /\ a \o b \in Seq(Event) /\ Len(a \o b) = n + 3
            /\ \A i \in 1..(n + 3) :
                 (a \o b)[i] = IF i <= n THEN a[i] ELSE b[i - n]
        BY <4>3, <4>4, Zenon
      <4>6. QED BY <4>2, <4>5
    <3>2. QED BY <1>2, <3>1
  <2>2. DOMAIN stream = 1..n /\ DOMAIN stream' = 1..(n + 3)
    BY <1>2, <2>1
  <2> HIDE DEF n
  <2>3. /\ stream'[n + 1] = more[(n + 1) - n] /\ stream'[n + 2] = more[(n + 2) - n]
        /\ stream'[n + 3] = more[(n + 3) - n]
    BY <2>1
  <2>4. (n + 1) - n = 1 /\ (n + 2) - n = 2 /\ (n + 3) - n = 3
    BY <2>1
  <2>5. QED BY <2>1, <2>2, <2>3, <2>4
<1>4. /\ proc' \in Process /\ proc'.faults # 0 /\ proc'.turn = proc.turn
  BY <1>2 DEF Process
<1>5. \A i \in DOMAIN stream' :
         \/ i \in DOMAIN stream /\ stream'[i] = stream[i]
         \/ stream'[i].kind \in {"alien", "start", "done"}
  <2>1. \A i \in 1..(n + 3) : i \in 1..n \/ i = n + 1 \/ i = n + 2 \/ i = n + 3
    BY <1>3
  <2> HIDE DEF n
  <2>2. QED BY <1>1, <1>3, <2>1
<1>6. \A i \in DOMAIN stream : i \in DOMAIN stream' /\ stream'[i] = stream[i]
  BY <1>3
<1>7. n + 1 \in DOMAIN stream' /\ stream'[n + 1].kind = "alien"
  BY <1>1, <1>3
<1>8. CodexTyped'
  BY <1>2, <1>3, <1>4 DEF CodexInv, CodexTyped
<1> HIDE DEF n
<1>9. \A i : i \in Indices("message")' <=> i \in Indices("message")
  BY <1>5, <1>6 DEF Indices
<1>10. StreamInv'
  <2>1. (Indices("turn") # {} => proc.turn)'
    BY <1>4, <1>5 DEF CodexInv, StreamInv, Indices
  <2>2. (Indices("message") # {} => \E l \in DOMAIN stream : IsLast(l))'
    BY <1>6, <1>9 DEF CodexInv, StreamInv, IsLast
  <2>3. QED BY <1>4, <2>1, <2>2 DEF StreamInv
<1>11. SeenInv'
  BY <1>7 DEF SeenInv, Indices
<1>12. (ReportInv /\ PostedIsSaid /\ VerifiedInspected)'
  BY <1>2 DEF ReportInv, PostedIsSaid, VerifiedInspected
<1>13. ThreadInv'
  <2>1. proc'.faults = proc.faults + 1 /\ proc.faults \in Nat /\ proc'.next = proc.next
        /\ proc.faults < MaxFaults
    BY <1>2 DEF Process, AlienReport
  <2>2. Indices("thread")' = {} => Indices("thread") = {}
    BY <1>6 DEF Indices
  <2>3. Indices("message")' # {} => Indices("message") # {}
    BY <1>9
  <2>4. QED BY <2>1, <2>2, <2>3 DEF CodexInv, ThreadInv, OneFault
<1>14. QED BY <1>8, <1>10, <1>11, <1>12, <1>13 DEF CodexInv, OneFault

LEMMA ExitStep ==
    ASSUME CodexInv, NEW banner \in BOOLEAN,
           NEW last \in Says \cup {"unusable"}, ExitZero(banner, last)
    PROVE  CodexInv'
<1>1. proc \in Process /\ cc \in Caller /\ stream' = stream /\ file' = last
  BY DEF CodexInv, CodexTyped, ExitZero
<1>2. /\ proc' \in Process /\ proc'.turn = proc.turn /\ proc'.said = proc.said
      /\ proc'.saw = proc.saw /\ proc'.sawBefore = proc.sawBefore
      /\ proc'.faults = 0 => proc.faults = 0
      /\ OneFault => last = proc.said \/ last = "unusable" \/ proc.faults = 0
  BY <1>1 DEF ExitZero, FinalFile, Process, OneFault
<1>3. /\ cc' \in Caller /\ cc'.pc \in {"result", "failed"}
      /\ cc'.pc = "result" => last \in Says /\ cc'.verdict = CodexVerdict(last)
  BY <1>1 DEF ExitZero, Parsed, Caller, CodexVerdict
<1>4. \A kind : Indices(kind)' = Indices(kind)
  BY <1>1 DEF Indices
<1>5. CodexTyped'
  <2>1. stream' \in Seq(Event)
    BY <1>1 DEF CodexInv, CodexTyped
  <2>2. QED BY <1>1, <1>2, <1>3, <2>1 DEF CodexTyped
<1>6. StreamInv'
  BY <1>1, <1>2, <1>4 DEF CodexInv, StreamInv, IsLast, LastIsSaid
<1>7. ReportInv'
  <2>1. proc.faults = 0 => LastIsSaid'
    BY <1>1, <1>2, <1>4 DEF CodexInv, StreamInv, LastIsSaid, IsLast
  <2>2. ASSUME cc'.pc = "result", OneFault PROVE last = proc.said \/ LastIsSaid'
    <3>1. last # "unusable"
      BY <1>3, <2>2 DEF Says
    <3>2. QED BY <1>2, <2>1, <2>2, <3>1
  <2>3. QED BY <1>1, <1>2, <1>3, <2>2 DEF ReportInv
<1>8. SeenInv'
  BY <1>1, <1>2, <1>4 DEF CodexInv, SeenInv, Good
<1>9. ThreadInv'
  <2>1. /\ proc'.next = proc.next /\ proc.faults \in Nat
        /\ \/ proc'.faults = proc.faults
           \/ proc'.faults = proc.faults + 1 /\ proc.faults < MaxFaults
    BY <1>1 DEF ExitZero, Process
  <2>2. QED BY <1>4, <2>1 DEF CodexInv, ThreadInv, OneFault
<1>10. QED BY <1>3, <1>5, <1>6, <1>7, <1>8, <1>9 DEF CodexInv, PostedIsSaid, VerifiedInspected

LEMMA GateStep ==
    ASSUME CodexInv, NEW recovery \in BOOLEAN, Gate(recovery)
    PROVE  CodexInv'
<1>1. /\ UNCHANGED <<proc, stream, file>> /\ cc.pc = "result"
      /\ proc \in Process /\ cc \in Caller /\ stream \in Seq(Event)
  BY DEF CodexInv, CodexTyped, Gate
<1>2. /\ cc' \in Caller /\ cc'.verdict = cc.verdict /\ cc'.pc \in {"posted", "held"}
      /\ cc'.pc = "posted" => WholeTurn
      /\ cc'.pc = "posted" /\ cc'.inspection = "verified" => Inspected
  BY <1>1 DEF Gate, Caller
<1>3. CodexTyped' /\ StreamInv' /\ SeenInv' /\ ThreadInv'
  BY <1>1, <1>2 DEF CodexInv, CodexTyped, StreamInv, SeenInv, ThreadInv, IsLast, LastIsSaid,
                    Good, Indices, OneFault
<1>4. /\ file \in Says /\ cc.verdict = CodexVerdict(file)
      /\ OneFault => file = proc.said \/ LastIsSaid
  BY <1>1 DEF CodexInv, ReportInv
<1>5. ReportInv'
  BY <1>1, <1>2, <1>4 DEF ReportInv, LastIsSaid, IsLast, Indices
<1>6. ASSUME WholeTurn
      PROVE  \E l \in DOMAIN stream : IsLast(l) /\ l = LastOf(Indices("message"))
  <2>1. PICK l \in DOMAIN stream : IsLast(l)
    BY <1>6 DEF WholeTurn, WholeTurnAnyOrder, CodexInv, StreamInv
  <2>2. \A k \in Indices("message") : (\A j \in Indices("message") : j <= k) => k = l
    BY <1>1, <2>1 DEF IsLast, Indices
  <2>3. LastOf(Indices("message")) = l
    BY <2>1, <2>2 DEF LastOf, IsLast
  <2>4. QED BY <2>1, <2>3
<1>7. OneFault => PostedIsSaid'
  <2> SUFFICES ASSUME OneFault, cc'.pc = "posted"
               PROVE  proc.turn /\ (cc.verdict = "approve" <=> proc.said = "approve")
    BY <1>1, <1>2 DEF PostedIsSaid
  <2>1. WholeTurn
    BY <1>2
  <2>2. Indices("turn") # {}
    <3>1. stream # << >> /\ stream[Len(stream)].kind = "turn"
      BY <2>1 DEF WholeTurn, WholeTurnAnyOrder, Indices
    <3>2. QED BY <1>1, <3>1 DEF Indices
  <2>3. file = proc.said
    BY <1>4, <1>6, <2>1 DEF LastIsSaid, WholeTurn, WholeTurnAnyOrder
  <2>4. QED BY <1>4, <2>2, <2>3 DEF CodexInv, StreamInv, CodexVerdict, Says
<1>8. OneFault => VerifiedInspected'
  <2> SUFFICES ASSUME OneFault, cc'.pc = "posted", cc'.inspection = "verified"
               PROVE  proc.sawBefore = Reads
    BY <1>1 DEF VerifiedInspected
  <2>1. WholeTurn /\ Inspected
    BY <1>2
  <2>2. PICK l \in DOMAIN stream : IsLast(l) /\ l = LastOf(Indices("message"))
    BY <1>6, <2>1
  <2>3. Indices("alien") = {}
    <3> DEFINE threads == Indices("thread")  aliens == Indices("alien")
    <3>1. Cardinality(threads \cup aliens) = 1 /\ threads \cap aliens = {}
      BY <2>1 DEF WholeTurn, WholeTurnAnyOrder, OneSession, Indices
    <3>2. IsFiniteSet(threads \cup aliens)
      <4>1. Len(stream) \in Nat /\ DOMAIN stream = 1..Len(stream)
        BY <1>1
      <4>2. IsFiniteSet(DOMAIN stream)
        BY <4>1, FS_Interval
      <4>3. QED BY <4>2, FS_Subset DEF Indices
    <3>3. threads \cup aliens = {} \/ \E i : threads \cup aliens = {i}
      BY <3>1, <3>2, FS_Singleton
    <3>4. aliens # {} => threads = {}
      BY <3>1, <3>3
    <3>5. proc.next > 1 /\ proc.faults <= 1 /\ proc.faults \in Nat
      BY <1>1, <2>2 DEF CodexInv, ThreadInv, IsLast, Process
    <3>6. QED BY <3>4, <3>5 DEF CodexInv, ThreadInv
  <2>4. ASSUME NEW op \in Reads PROVE op \in proc.sawBefore
    <3>1. PICK i \in DOMAIN stream : Good(i) /\ op \in stream[i].reads
      BY <2>1 DEF Inspected, Proves, Good
    <3>2. i < l
      BY <2>1, <2>2, <3>1 DEF WholeTurn, Good, Indices
    <3>3. QED BY <2>2, <2>3, <3>1, <3>2 DEF CodexInv, SeenInv, IsLast
  <2>5. QED BY <1>1, <2>4 DEF Process
<1>9. QED BY <1>3, <1>5, <1>7, <1>8 DEF CodexInv, OneFault

LEMMA CodexAlways == CodexSpec => []CodexInv
<1>1. CodexInit => CodexInv
  BY DEF CodexInit, CodexInv, CodexTyped, Process, Caller, StreamInv, ReportInv, SeenInv,
         ThreadInv, OneFault, PostedIsSaid, VerifiedInspected, Indices, Says, Reads, NoId, Good,
         LastIsSaid, IsLast
<1>2. CodexInv /\ [CodexNext]_cxvars => CodexInv'
  <2> SUFFICES ASSUME CodexInv, [CodexNext]_cxvars PROVE CodexInv'
    OBVIOUS
  <2>1. CASE ExitOther
    <3>1. UNCHANGED <<proc, stream, file>> /\ cc' \in Caller /\ cc'.pc = "failed"
      BY <2>1 DEF ExitOther, CodexInv, CodexTyped, Caller
    <3>2. QED BY <3>1 DEF CodexInv, CodexTyped, StreamInv, SeenInv, ReportInv, ThreadInv,
                  OneFault, IsLast, LastIsSaid, Good, Indices, PostedIsSaid, VerifiedInspected
  <2>2. CASE UNCHANGED cxvars
    BY <2>2 DEF cxvars, CodexInv, CodexTyped, StreamInv, SeenInv, ReportInv, ThreadInv,
                OneFault, IsLast, LastIsSaid, Good, Indices, PostedIsSaid, VerifiedInspected
  <2>3. QED BY <2>1, <2>2, ProcessStep, AlienStep, ExitStep, GateStep DEF CodexNext
<1>3. QED BY <1>1, <1>2, PTL DEF CodexSpec

\* Of a native call whose reports have one fault at most, the verdict posted is
\* the session's own last word in the turn it completed, however long it runs
\* (_codex_evidence, cmd_review).
THEOREM CodexPostedIsSaid == ASSUME MaxFaults \in 0..1 PROVE CodexSpec => []PostedIsSaid
<1>1. CodexInv => PostedIsSaid
  BY DEF CodexInv, OneFault
<1>2. QED BY <1>1, CodexAlways, PTL

\* Of a native call whose reports have one fault at most, inspection posted as
\* verified had read HEAD and the pinned diff before the verdict, whichever event
\* is torn, repeated or another thread's (_native_inspection, _codex_evidence).
THEOREM CodexVerifiedInspected == ASSUME MaxFaults \in 0..1 PROVE CodexSpec => []VerifiedInspected
<1>1. CodexInv => VerifiedInspected
  BY DEF CodexInv, OneFault
<1>2. QED BY <1>1, CodexAlways, PTL

\* Every reachable state of a native call has its type: what the stream and the
\* last message file hold is an event and a message, whatever is torn or
\* repeated (_json_lines, _codex_final_file).
THEOREM CodexTypeCorrect == CodexSpec => []CodexTypeOK
<1>1. CodexInv => CodexTypeOK
  BY DEF CodexInv, CodexTyped, CodexTypeOK, Caller
<1>2. QED BY <1>1, CodexAlways, PTL

-----------------------------------------------------------------------------
(* The clone (module MCClone): one part runs, the others stay as they are. *)

\* A clone starts as each of its parts does.
LEMMA CloneStarts == CloneInit => Init /\ ReviewersInit /\ CodexInit /\ PairInit
  BY DEF CloneInit

\* A step of the clone is for each part a step of its own, or none.
LEMMA CloneSteps ==
    [CloneNext]_cloneVars =>
        [Next]_vars /\ [ReviewersNext]_revars /\ [CodexNext]_cxvars /\ [PairNext]_npvars
<1> SUFFICES ASSUME [CloneNext]_cloneVars
             PROVE  [Next]_vars /\ [ReviewersNext]_revars /\ [CodexNext]_cxvars /\ [PairNext]_npvars
  OBVIOUS
<1>1. CASE CloneNext
  BY <1>1 DEF CloneNext
<1>2. CASE UNCHANGED cloneVars
  BY <1>2 DEF cloneVars
<1>3. QED BY <1>1, <1>2

\* A behaviour of the clone is one of every part.
LEMMA CloneRuns == CloneSpec => Spec /\ ReviewsSpec /\ CodexSpec /\ PairSpec
  BY CloneStarts, CloneSteps, PTL DEF CloneSpec, Spec, ReviewsSpec, CodexSpec, PairSpec

\* Every reachable state of a clone has its type, in every part.
THEOREM CloneTypeCorrect == CloneSpec => []CloneTypeOK
<1>1. TypeOK /\ ReviewersTypeOK /\ CodexTypeOK /\ PairTypeOK => CloneTypeOK
  BY DEF CloneTypeOK
<1>2. QED BY <1>1, CloneRuns, TypeCorrect, ReviewsTypeCorrect, CodexTypeCorrect, PairTypeCorrect, PTL

\* What the parts promise holds of the clone they make up: the receipt, the
\* reviews, a native call with one fault at most, and the native pair.
THEOREM CloneCorrect ==
    ASSUME ~Returns, MaxFaults \in 0..1
    PROVE  CloneSpec => [](/\ ReceiptHonest /\ WholeReviewed /\ VerdictHonest
                           /\ PostedIsSaid /\ VerifiedInspected
                           /\ DispatchedOnce /\ DisagreementHeld /\ EvidenceKept)
<1>1. Spec => []ReceiptHonest
  BY ReceiptIsHonest
<1>2. ReviewsSpec => [](WholeReviewed /\ VerdictHonest)
  BY ReviewsWhole, ReviewsVerdictHonest, PTL
<1>3. CodexSpec => [](PostedIsSaid /\ VerifiedInspected)
  BY CodexPostedIsSaid, CodexVerifiedInspected, PTL
<1>4. PairSpec => [](DispatchedOnce /\ DisagreementHeld /\ EvidenceKept)
  BY PairDispatchedOnce, PairDisagreementHeld, PairEvidenceKept, PTL
<1>5. QED BY <1>1, <1>2, <1>3, <1>4, CloneRuns, PTL
=============================================================================
