------------------------------- MODULE Checks -------------------------------
(***************************************************************************)
(* The check receipt: `loopzero check` (sandbox.run_checks, cmd_check and  *)
(* _save_report) run by several sessions of one clone while the worker     *)
(* edits it and the trusted check list on the base branch moves, and the   *)
(* condition under which cli._readiness accepts the receipt.  The two git  *)
(* calls of each of its two snapshots are steps of their own.              *)
(***************************************************************************)
EXTENDS Naturals, Sequences, FiniteSets

CONSTANTS
    Commit,     \* commits that can exist on the task branch (bound)
    Session,    \* shells in which an operator runs checks
    Lists,      \* the check lists the base branch may configure
    MaxMoves,   \* changes the worker and the base may make (bound)
    Returns     \* TRUE: an earlier state of the clone may come back during a check

ASSUME ListsAssumption   == Lists \subseteq Seq(STRING)
ASSUME MovesAssumption   == MaxMoves \in Nat
ASSUME ReturnsAssumption == Returns \in BOOLEAN

VARIABLES
    head, dirty,   \* the clone
    made,          \* commits that exist
    checks,        \* [checks].commands of the remote base branch
    report,        \* .loopzero/checks.json: {r}, or {} when absent or unreadable
    run,           \* the check each session is running
    moves

clone == <<head, dirty, made, checks, moves>>
vars  == <<clone, report, run>>

Command == UNION {{l[i] : i \in DOMAIN l} : l \in Lists}
Prepare == "uv sync"
Changed == "<worktree changed during run>"
Result  == [command : Command \cup {Prepare, Changed}, ok : BOOLEAN]
Tree    == Commit \X BOOLEAN

\* `on` and `torn` are history: the states of the clone that the commands read,
\* and whether HEAD moved between the two calls of the last snapshot.
Report == [head : Commit, dirty : BOOLEAN, results : Seq(Result),
           on : SUBSET Tree, torn : BOOLEAN]

\* Between the two calls of a snapshot; anywhere in run_checks.
Reading == {"status", "finalStatus"}
Checking == Reading \cup {"run", "final"}

At(s, label) == run[s].pc = label
Become(s, r) == run' = [run EXCEPT ![s] = r]
GoTo(s, label) == Become(s, [run[s] EXCEPT !.pc = label])

NoCheck == [pc |-> "idle"]
Return(s) == Become(s, NoCheck)

-----------------------------------------------------------------------------
(* run_checks.                                                             *)

\* The pinned list is loaded and HEAD is read.  (The list is the base ref's, so
\* these two reads commute with each other's changes.)  `seen` is the commit
\* that the last `rev-parse HEAD` answered.
ReadHead(s) ==
    /\ At(s, "idle")
    /\ Become(s, [pc |-> "status", list |-> checks, seen |-> head, report |->
         [head |-> head, dirty |-> FALSE, results |-> << >>, on |-> {}, torn |-> FALSE]])
    /\ UNCHANGED <<clone, report>>

\* Dirtiness is read after HEAD.  The list may be empty.  A check whose script is
\* absent from the tree, or a preparation that fails, is reported alone, without
\* running any.
ReadStatus(s) ==
    /\ At(s, "status")
    /\ LET list == run[s].list
       IN  \/ Become(s, [run[s] EXCEPT !.report.dirty = dirty,
                           !.pc = IF list = << >> THEN "final" ELSE "run"])
           \/ \E i \in DOMAIN list : \E command \in {list[i], Prepare} :
                Become(s, [run[s] EXCEPT !.report.dirty = dirty, !.pc = "final",
                  !.report.results = <<[command |-> command, ok |-> FALSE]>>])
    /\ UNCHANGED <<clone, report>>

\* One command in the sandbox, which binds the clone itself and not a copy.
\* A timeout is a failure; the first failure is the last command.
RunOne(s) ==
    /\ At(s, "run")
    /\ LET next == Len(run[s].report.results) + 1
       IN  \E ok \in BOOLEAN :
             Become(s, [run[s] EXCEPT
               !.pc = IF ok /\ next < Len(run[s].list) THEN "run" ELSE "final",
               !.report.results = Append(@, [command |-> run[s].list[next], ok |-> ok]),
               !.report.on = @ \cup {<<head, dirty>>}])
    /\ UNCHANGED <<clone, report>>

\* Both snapshots agree; `torn` records what neither of them can tell.
Agree(s) ==
    Become(s, [run[s] EXCEPT !.pc = "open", !.report.torn = (head # run[s].seen)])

\* They differ: one more result, and the history is of no more use.
Differ(s, result) ==
    Become(s, [run[s] EXCEPT !.pc = "open", !.seen = run[s].report.head,
      !.report.dirty = TRUE, !.report.on = {}, !.report.results = Append(@, result)])

\* HEAD is read again ...
FinalHead(s) ==
    /\ At(s, "final")
    /\ Become(s, [run[s] EXCEPT !.pc = "finalStatus", !.seen = head])
    /\ UNCHANGED <<clone, report>>

\* Mutant: only HEAD is compared.
FinalHeadOnly(s) ==
    /\ At(s, "finalStatus")
    /\ IF run[s].seen = run[s].report.head
       THEN Agree(s)
       ELSE Differ(s, [command |-> Changed, ok |-> FALSE])
    /\ UNCHANGED <<clone, report>>

\* Mutant: the result of a changed clone names no command.
FinalUnnamed(s) ==
    /\ At(s, "finalStatus")
    /\ IF run[s].seen = run[s].report.head /\ dirty = run[s].report.dirty
       THEN Agree(s)
       ELSE Differ(s, [ok |-> FALSE])
    /\ UNCHANGED <<clone, report>>

\* ... and then dirtiness; a difference is one more, failed result.
FinalStatus(s) ==
    /\ At(s, "finalStatus")
    /\ IF run[s].seen = run[s].report.head /\ dirty = run[s].report.dirty
       THEN Agree(s)
       ELSE Differ(s, [command |-> Changed, ok |-> FALSE])
    /\ UNCHANGED <<clone, report>>

\* _save_report truncates the file ...
OpenReport(s) ==
    /\ At(s, "open")
    /\ report' = {}
    /\ GoTo(s, "write")
    /\ UNCHANGED clone

\* ... and writes it.  Over another session's longer report the tail of that
\* one stays behind.
WriteReport(s) ==
    /\ At(s, "write")
    /\ report' \in {{run[s].report}} \cup (IF report = {} THEN {} ELSE {{}})
    /\ Return(s)
    /\ UNCHANGED clone

\* The sandbox is unavailable, or the shell was killed.
Abort(s) ==
    /\ ~At(s, "idle")
    /\ Return(s)
    /\ UNCHANGED <<clone, report>>

-----------------------------------------------------------------------------
(* The worker, and the base branch.                                        *)

Move == moves < MaxMoves /\ moves' = moves + 1 /\ UNCHANGED <<report, run>>

Edit ==
    /\ Move /\ ~dirty /\ dirty' = TRUE
    /\ UNCHANGED <<head, made, checks>>

\* An amend or a rebase is a new commit too.
NewCommit ==
    /\ Move /\ dirty /\ dirty' = FALSE
    /\ head' \in Commit \ made /\ made' = made \cup {head'}
    /\ UNCHANGED checks

\* The worker discards edits, or checks an earlier commit out.
TakeBack ==
    /\ Move /\ (Returns \/ \A s \in Session : run[s].pc \notin Checking)
    /\ dirty' = FALSE
    /\ head' \in IF dirty THEN {head} ELSE made \ {head}
    /\ UNCHANGED <<made, checks>>

\* `git fetch` brings a base that configures other checks.
BaseMoves ==
    /\ Move /\ checks' \in Lists \ {checks}
    /\ UNCHANGED <<head, dirty, made>>

-----------------------------------------------------------------------------
Init ==
    /\ head \in Commit /\ dirty = FALSE /\ made = {head}
    /\ checks \in Lists /\ report = {} /\ moves = 0
    /\ run = [s \in Session |-> NoCheck]

Next ==
    \/ \E s \in Session : \/ ReadHead(s) \/ ReadStatus(s) \/ RunOne(s)
                          \/ FinalHead(s) \/ FinalStatus(s)
                          \/ OpenReport(s) \/ WriteReport(s) \/ Abort(s)
    \/ Edit \/ NewCommit \/ TakeBack \/ BaseMoves

Spec == Init /\ [][Next]_vars

-----------------------------------------------------------------------------
Green(r) == \A i \in DOMAIN r.results : r.results[i].ok
Commands(r) == [i \in DOMAIN r.results |-> r.results[i].command]

\* The receipt gate of _readiness, for the head h that a command follows and the
\* list it loaded at its start.
Accepts(r, h, list) == r.head = h /\ ~r.dirty /\ Green(r) /\ Commands(r) = list

TypeOK ==
    /\ head \in Commit /\ dirty \in BOOLEAN /\ made \subseteq Commit
    /\ checks \in Lists /\ report \subseteq Report /\ Cardinality(report) <= 1
    /\ moves \in 0..MaxMoves
    /\ \A s \in Session :
         \/ run[s] = NoCheck
         \/ /\ run[s].pc \in Checking \cup {"open", "write"}
            /\ run[s].list \in Lists /\ run[s].seen \in Commit /\ run[s].report \in Report

\* Whenever readiness accepts the receipt for a head and a check list, every
\* command of that list was run by one check and passed, and each read exactly
\* the committed tree of that head, whatever the worker and other checks of the
\* clone did meanwhile and whoever wrote the file last.  Two things the code
\* cannot see are excepted: an earlier state that comes back during a check
\* (Returns), and a commit between the two calls of the last snapshot: then the
\* commands may have read edits on top of that head, but no other head.
ReceiptHonest ==
    \A r \in report, h \in Commit, list \in Lists : Accepts(r, h, list) =>
        /\ r.results = [i \in DOMAIN list |-> [command |-> list[i], ok |-> TRUE]]
        /\ r.on \subseteq {h} \X (IF r.torn THEN BOOLEAN ELSE {FALSE})
=============================================================================
