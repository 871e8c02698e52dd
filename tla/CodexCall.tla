----------------------------- MODULE CodexCall -----------------------------
(***************************************************************************)
(* One native Codex review call and the evidence taken from it:            *)
(* _review_codex, _run, _codex_final_file, _codex_provenance,              *)
(* _native_inspection and _codex_evidence of src/loopzero/runners.py, and  *)
(* the publication gate of cmd_review in src/loopzero/cli.py.              *)
(*                                                                         *)
(* The Codex process is the environment.  It reports a session twice, as   *)
(* a stream of events and as a file with its last message, and stops when  *)
(* it likes.  A line of the stream may be torn (_json_lines skips it) or   *)
(* repeated, another thread may report into it, and the file may be of an  *)
(* earlier message: MaxFaults of these.                                    *)
(***************************************************************************)
EXTENDS Naturals, Sequences, FiniteSets

CONSTANTS
    MaxEvents,   \* events of the process (bound)
    MaxFaults    \* faults of its reports (bound)

VARIABLES
    proc,        \* the session itself: running (command id, or none), asks (the
                 \*   reads that command makes), saw (reads completed), said and
                 \*   sawBefore (its last message, and saw at that time), turn
                 \*   (it ended its turn), next id, faults
    stream,      \* the events on stdout
    file,        \* the last message file (unusable: absent, partial or no review)
    cc           \* the caller: pc, verdict, inspection

cxvars == <<proc, stream, file, cc>>

Reads == {"head", "diff"}
Says == {"approve", "blocking"}   \* "blocking": changes requested, or a blocking finding
NoId == 0
Event == [kind : {"thread", "alien", "start", "done", "message", "turn", "failed", "fatal"},
          id : Nat, reads : SUBSET Reads, ok : BOOLEAN, says : Says \cup {"nothing"}]
Plain(kind) == [kind |-> kind, id |-> NoId, reads |-> {}, ok |-> FALSE, says |-> "nothing"]
CommandEvent(kind, id, reads, ok) ==
    [Plain(kind) EXCEPT !.id = id, !.reads = reads, !.ok = ok]
Message(says) == [Plain("message") EXCEPT !.says = says]

Indices(kind) == {i \in DOMAIN stream : stream[i].kind = kind}

CodexInit ==
    /\ proc = [running |-> NoId, asks |-> {}, saw |-> {}, said |-> "nothing", sawBefore |-> {},
               turn |-> FALSE, next |-> 1, faults |-> 0]
    /\ stream = <<>>
    /\ file = "unusable"
    /\ cc = [pc |-> "running", verdict |-> "none", inspection |-> "none"]

-----------------------------------------------------------------------------
(* The process.                                                            *)

Running == cc.pc = "running" /\ Len(stream) < MaxEvents

\* The session goes on to `next`, and its event is reported, torn or repeated.
Emit(next, event) ==
    /\ Running
    /\ \/ proc' = next /\ stream' = Append(stream, event)
       \/ /\ proc.faults < MaxFaults
          /\ proc' = [next EXCEPT !.faults = @ + 1]
          /\ stream' \in {stream, stream \o <<event, event>>}
    /\ UNCHANGED <<file, cc>>

StartThread == stream = <<>> /\ proc.next = 1 /\ Emit([proc EXCEPT !.next = 2], Plain("thread"))

StartCommand(reads) ==
    /\ proc.next > 1 /\ proc.running = NoId /\ ~proc.turn
    /\ Emit([proc EXCEPT !.running = proc.next, !.asks = reads, !.next = @ + 1],
              CommandEvent("start", proc.next, reads, FALSE))

\* ok: exit status 0, and the output is HEAD's or the pinned diff.
EndCommand(ok) ==
    /\ proc.running # NoId
    /\ Emit([proc EXCEPT !.running = NoId, !.asks = {}, !.saw = IF ok THEN @ \cup proc.asks ELSE @],
              CommandEvent("done", proc.running, proc.asks, ok))

\* A message may be one of several.
Say(says) ==
    /\ proc.next > 1 /\ ~proc.turn
    /\ Emit([proc EXCEPT !.said = says, !.sawBefore = proc.saw], Message(says))

EndTurn(kind) ==
    /\ proc.next > 1 /\ ~proc.turn
    /\ Emit([proc EXCEPT !.turn = (kind = "turn")], Plain(kind))

\* Another thread's events carry no session of their own but for the first.
AlienReport ==
    /\ Running /\ proc.faults < MaxFaults
    /\ proc' = [proc EXCEPT !.faults = @ + 1]
    /\ stream' = stream \o <<Plain("alien"), CommandEvent("start", 90, Reads, FALSE),
                             CommandEvent("done", 90, Reads, TRUE)>>
    /\ UNCHANGED <<file, cc>>

FatalStartup ==
    /\ Running /\ proc.next = 1
    /\ stream' = Append(stream, Plain("fatal"))
    /\ UNCHANGED <<proc, file, cc>>

\* Another status, or the timeout: no result, whatever was reported.
ExitOther ==
    /\ cc.pc = "running"
    /\ cc' = [cc EXCEPT !.pc = "failed"]
    /\ UNCHANGED <<proc, stream, file>>

-----------------------------------------------------------------------------
(* The adapter.                                                            *)

LastOf(set) == CHOOSE i \in set : \A j \in set : j <= i

\* Mutant: what the message says is the verdict, its findings aside.
VerdictSaid(last) == "approve"

\* parse_review.
CodexVerdict(last) == IF last = "approve" THEN "approve" ELSE "request_changes"

\* A session and its tokens are known, from the events or the banner on stderr,
\* and the file holds a review.
Parsed(banner, last) ==
    /\ Indices("fatal") = {}
    /\ Indices("thread") # {} \/ Indices("alien") # {} \/ banner
    /\ Indices("turn") # {} \/ banner
    /\ last \in Says

\* _codex_final_file: the last message, or a file that is absent, partial or
\* holds no review.
FinalFile == {"unusable", proc.said}

\* The last message is written on the way out; a fault leaves an earlier one.
\* A result, or none.
ExitZero(banner, last) ==
    /\ cc.pc = "running"
    /\ \/ last \in FinalFile /\ UNCHANGED proc
       \/ /\ proc.faults < MaxFaults
          /\ \E i \in Indices("message") : last = stream[i].says
          /\ proc' = [proc EXCEPT !.faults = @ + 1]
    /\ file' = last
    /\ cc' = IF Parsed(banner, last) THEN [cc EXCEPT !.pc = "result", !.verdict = CodexVerdict(last)]
             ELSE [cc EXCEPT !.pc = "failed"]
    /\ UNCHANGED stream

\* Exactly one thread is reported to start.  Whose it is, the stream does not say:
\* the session is the one that the first report names.
OneSession == Cardinality(Indices("thread") \cup Indices("alien")) = 1

\* Mutant: a command may complete after the verdict.
WholeTurnAnyOrder ==
    /\ OneSession
    /\ stream[Len(stream)].kind = "turn" /\ Cardinality(Indices("turn")) = 1
    /\ Indices("failed") = {}
    /\ Indices("message") # {}
    /\ stream[LastOf(Indices("message"))].says = file

\* _codex_evidence: one session with one completed turn, which ends the stream;
\* its last message is the file's, and no command completed after that message.
WholeTurn ==
    /\ WholeTurnAnyOrder
    /\ \A i \in Indices("done") : i < LastOf(Indices("message"))

\* A command counts when it was started as completed, and succeeded.
Proves(i, op) ==
    /\ stream[i].kind = "done" /\ stream[i].ok /\ op \in stream[i].reads
    /\ \E j \in 1..(i - 1) : stream[j].kind = "start" /\ stream[j].id = stream[i].id
                             /\ stream[j].reads = stream[i].reads

\* Mutant: one of the two reads is enough.
InspectedOnce == \E op \in Reads : \E i \in DOMAIN stream : Proves(i, op)

\* _native_inspection: ids are unique, and each read is proved.
Inspected ==
    /\ \A i, j \in DOMAIN stream :
         (stream[i].kind \in {"start", "done"} /\ stream[j].kind = stream[i].kind
          /\ stream[j].id = stream[i].id) => i = j
    /\ \A op \in Reads : \E i \in DOMAIN stream : Proves(i, op)

\* Without whole evidence, and for a recovery without verified inspection, the
\* result is kept and not posted.
Gate(recovery) ==
    /\ cc.pc = "result"
    /\ LET checked == IF Inspected THEN "verified" ELSE "unknown"
       IN  cc' = IF WholeTurn /\ (recovery => Inspected)
                 THEN [cc EXCEPT !.pc = "posted", !.inspection = checked]
                 ELSE [cc EXCEPT !.pc = "held"]
    /\ UNCHANGED <<proc, stream, file>>

CodexNext ==
    \/ StartThread \/ FatalStartup \/ AlienReport \/ ExitOther
    \/ \E banner \in BOOLEAN, last \in Says \cup {"unusable"} : ExitZero(banner, last)
    \/ \E reads \in (SUBSET Reads) \ {{}} : StartCommand(reads)
    \/ \E ok \in BOOLEAN : EndCommand(ok)
    \/ \E says \in Says : Say(says)
    \/ \E kind \in {"turn", "failed"} : EndTurn(kind)
    \/ \E recovery \in BOOLEAN : Gate(recovery)

-----------------------------------------------------------------------------
(* Properties.                                                             *)

CodexTypeOK ==
    /\ cc.pc \in {"running", "result", "posted", "held", "failed"}
    /\ \A i \in DOMAIN stream : stream[i] \in Event
    /\ file \in Says \cup {"unusable"}

\* A posted verdict is the session's own last word in the turn it completed,
\* although stream and file may each have lost or mixed up a report of it.
PostedIsSaid ==
    cc.pc = "posted" =>
        /\ proc.turn
        /\ cc.verdict = "approve" <=> proc.said = "approve"

\* Inspection posted as verified: the session had read both HEAD and the pinned
\* diff before it gave its verdict.  (With two faults, a lost start of its own
\* thread and the reports of another, it need not have.)
VerifiedInspected ==
    (cc.pc = "posted" /\ cc.inspection = "verified") => proc.sawBefore = Reads
=============================================================================
