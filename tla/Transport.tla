----------------------------- MODULE Transport -----------------------------
(***************************************************************************)
(* How one command's GitHub calls are sent, retried and given up: _gh,     *)
(* bounded_reads, _paged, post_review and resolve_finding of               *)
(* src/loopzero/github.py, and the read-back of a failed publication in    *)
(* src/loopzero/cli.py.                                                    *)
(*                                                                         *)
(* GitHub may refuse a call, or perform it and lose the answer; a call     *)
(* that timed out it may still perform later.  Time is counted within the  *)
(* read-back only.                                                         *)
(***************************************************************************)
EXTENDS Naturals, Sequences

CONSTANTS
    Retries,     \* Len(RETRY_DELAYS)
    ReadBack,    \* seconds of the read-back (scaled)
    MaxPages     \* pages that GitHub has of a listing (bound)

ASSUME LimitsAssumption == Retries \in Nat /\ ReadBack \in Nat /\ MaxPages \in Nat \ {0}

VARIABLES
    tx,          \* the command: prog, call, as (how a review is posted), pc,
                 \*   answer, seen (a review was there), tries, page, left (of the
                 \*   read-back), outcome
    landed,      \* writes GitHub has performed, in order
    flight,      \* writes it may still perform
    sent         \* history: how often each write was sent

txvars == <<tx, landed, flight, sent>>

Program == [read    |-> <<"list">>,
            resolve |-> <<"list", "reply", "resolve">>,
            review  |-> <<"list", "post">>,
            confirm |-> <<"list", "view", "list", "view">>]   \* the read-back
Write == {"reply", "resolve", "verdict", "comment"}

TransportInit ==
    /\ \E prog \in {"read", "resolve", "review"}, as \in {"verdict", "comment"} :
         tx = [prog |-> prog, call |-> 1, as |-> as, pc |-> "send", answer |-> "none",
               tries |-> 0, page |-> 1, left |-> ReadBack, seen |-> FALSE, outcome |-> "none"]
    /\ landed = <<>> /\ flight = {}
    /\ sent = [w \in Write |-> 0]

\* A review of one's own PR is posted as a comment.
Called == LET call == Program[tx.prog][tx.call] IN IF call = "post" THEN tx.as ELSE call
Bounded == tx.prog = "confirm"

\* Mutant: every call is taken for a read.
AnyCall == TRUE

\* _read_only.
ReadOnly == Called \notin Write

Transient == {"timeout", "transient"}       \* ProcTimeout; TRANSIENT_RE
Refused   == {"refused", "own"}             \* rate limit, login and other failures
Answers   == {"ok", "empty"} \cup Transient \cup Refused

Posted == \E i \in DOMAIN landed : landed[i] \in {"verdict", "comment"}

-----------------------------------------------------------------------------
(* One attempt of one call.                                                *)

Send(answer) ==
    /\ tx.pc = "send" /\ (Bounded => tx.left > 0)
    /\ answer = "own" => Called = "verdict"
    /\ answer = "empty" => Called = "reply"
    /\ \E spent \in IF ~Bounded THEN {0} ELSE IF answer = "timeout" THEN {tx.left} ELSE 0..tx.left :
         tx' = [tx EXCEPT !.pc = "answered", !.answer = answer, !.left = @ - spent,
                           !.seen = IF Called = "list" THEN Posted ELSE @]
    /\ IF Called \notin Write THEN UNCHANGED <<landed, flight, sent>>
       ELSE /\ sent' = [sent EXCEPT ![Called] = @ + 1]
            /\ \/ answer \in {"ok"} \cup Transient
                  /\ landed' = Append(landed, Called) /\ UNCHANGED flight
               \/ answer # "ok" /\ UNCHANGED <<landed, flight>>
               \/ answer = "timeout" /\ flight' = flight \cup {Called} /\ UNCHANGED landed

LandLate(w) ==
    /\ w \in flight
    /\ landed' = Append(landed, w) /\ flight' = flight \ {w}
    /\ UNCHANGED <<tx, sent>>

Answered(answers) == tx.pc = "answered" /\ tx.answer \in answers
Again(next) == tx' = [next EXCEPT !.pc = "send"]

\* Mutant: a transient failure is retried as often as it comes.
RetryForEver ==
    /\ Answered(Transient) /\ ReadOnly /\ ~Bounded
    /\ Again(tx)
    /\ UNCHANGED <<landed, flight, sent>>

\* Only reads are retried, after each of RETRY_DELAYS, and not in the read-back.
RetryRead ==
    /\ Answered(Transient) /\ ReadOnly /\ ~Bounded /\ tx.tries < Retries
    /\ Again([tx EXCEPT !.tries = @ + 1])
    /\ UNCHANGED <<landed, flight, sent>>

-----------------------------------------------------------------------------
(* The programs.                                                           *)

Last == tx.call = Len(Program[tx.prog])
Stop(outcome, next) == tx' = [next EXCEPT !.pc = "stopped", !.outcome = outcome]

\* A page that is full is followed by another; the code sets no limit, and the
\* last page is GitHub's.
NextPage ==
    /\ Answered({"ok"}) /\ Called = "list" /\ tx.page < MaxPages
    /\ Again([tx EXCEPT !.page = @ + 1, !.tries = 0])
    /\ UNCHANGED <<landed, flight, sent>>

\* Mutant: a reply without a comment id is taken for posted.
AcceptedAny == {"ok", "empty"}

Accepted == {"ok"}

\* The read-back looks at the PR, and ends there when the review was not listed.
Unlisted == Bounded /\ Called = "view" /\ ~tx.seen
NextCall ==
    /\ Answered(Accepted) /\ ~Last /\ ~Unlisted
    /\ Again([tx EXCEPT !.call = @ + 1, !.tries = 0, !.page = 1])
    /\ UNCHANGED <<landed, flight, sent>>

\* bounded_reads checks its deadline once more on the way out.
Finish ==
    /\ Answered({"ok"})
    /\ Last \/ Unlisted
    /\ Stop(IF ~Bounded THEN "done" ELSE IF tx.left = 0 THEN "blocked"
            ELSE IF tx.seen THEN "confirmed" ELSE "unconfirmed", tx)
    /\ UNCHANGED <<landed, flight, sent>>

\* The listed threads do not hold the finding.
NotListed ==
    /\ tx.prog = "resolve" /\ Called = "list" /\ Answered({"ok"})
    /\ Stop("failed", tx)
    /\ UNCHANGED <<landed, flight, sent>>

PostAsComment ==
    /\ Answered({"own"})
    /\ Again([tx EXCEPT !.as = "comment"])
    /\ UNCHANGED <<landed, flight, sent>>

\* A failed publication is read back; any other failure ends the command.
GiveUp ==
    /\ \/ Answered({"refused", "empty"})
       \/ Answered(Transient) /\ ~(ReadOnly /\ ~Bounded /\ tx.tries < Retries)
       \/ tx.pc = "send" /\ Bounded /\ tx.left = 0
    /\ IF tx.prog = "review"
       THEN Again([tx EXCEPT !.prog = "confirm", !.call = 1, !.tries = 0, !.page = 1])
       ELSE Stop(IF Bounded THEN "blocked" ELSE "failed", tx)
    /\ UNCHANGED <<landed, flight, sent>>

Command ==
    \/ \E answer \in Answers : Send(answer)
    \/ RetryRead \/ NextPage \/ NextCall \/ Finish \/ NotListed \/ PostAsComment \/ GiveUp

TransportNext == Command \/ \E w \in Write : LandLate(w)

TransportSpec == TransportInit /\ [][TransportNext]_txvars

\* An attempt ends, by its timeout at the latest, and a delay passes.
TransportFairness == WF_txvars(Command)

-----------------------------------------------------------------------------
(* Properties.                                                             *)

TransportTypeOK ==
    /\ tx.prog \in DOMAIN Program /\ tx.call \in DOMAIN Program[tx.prog]
    /\ tx.tries \in 0..Retries /\ tx.page \in 1..MaxPages /\ tx.left \in 0..ReadBack
    /\ tx.pc = "stopped" <=>
         tx.outcome \in {"done", "failed", "confirmed", "unconfirmed", "blocked"}

\* A command never repeats a write, lost answers and late landings included, so
\* it leaves at most one review and one reply; the fallback to a comment too.
WriteOnce ==
    /\ \A w \in Write : sent[w] <= 1
    /\ \A i, j \in DOMAIN landed :
         (landed[i] \in {"verdict", "comment"} /\ landed[j] \in {"verdict", "comment"}) => i = j

\* No thread is resolved before its reply is there.
ResolvedAfterReply ==
    \A i \in DOMAIN landed : landed[i] = "resolve" =>
        \E j \in 1..(i - 1) : landed[j] = "reply"

CommandEnds == <>(tx.pc = "stopped")
=============================================================================
