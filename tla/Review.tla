------------------------------- MODULE Review -------------------------------
(***************************************************************************)
(* Publication of model reviews: `loopzero review` and `loopzero review    *)
(* --repost` (cmd_review, _recover_review and _confirm_review of           *)
(* src/loopzero/cli.py) by the sessions of one task clone, against a       *)
(* GitHub that may lose a request, lose the reply, or answer late.         *)
(*                                                                         *)
(* A runner result is a number; the review body that carries it on GitHub  *)
(* is identified by that number, so two posts of one saved result match.   *)
(***************************************************************************)
EXTENDS Naturals, Sequences, FiniteSets

CONSTANTS
    Commit,      \* commits that can exist on the task branch (bound)
    Session,     \* shells in which an operator runs reviews
    MaxResults,  \* runner results that can be produced (bound)
    MaxPosts,    \* review requests that can be sent (bound)
    MaxDismissals,  \* reviews people may dismiss (bound)
    Delayed      \* TRUE: a request whose reply failed may still land later

ASSUME BoundsAssumption == MaxResults \in Nat /\ MaxPosts \in Nat /\ MaxDismissals \in Nat
ASSUME DelayedAssumption == Delayed \in BOOLEAN

VARIABLES
    head, dirty,    \* the clone
    prHead,         \* head of the open PR
    anc,            \* ancestors of each commit, itself included; {} = not made
    saved,          \* .loopzero/review-<head>-<kind>.json
    reviews,        \* the reviews of the PR, oldest first
    wire,           \* review requests GitHub has not decided
    results, posts, dismissals,  \* how many of each so far
    ses             \* the command each session is running

clone  == <<head, dirty, prHead, anc>>
counts == <<results, posts, dismissals>>
vars   == <<clone, saved, reviews, wire, counts, ses>>

Kinds   == {"primary", "delta"}
\* Mutant: the record of a review without a publication is cut short.
NoFileTruncated == [result |-> 0]
NoFile  == [result |-> 0, published |-> FALSE]
\* Truncated, and not or not wholly written: it holds no result.
Torn    == [result |-> 0, published |-> TRUE]
File    == [result : 0..MaxResults, published : BOOLEAN]
Posted  == [result : 1..MaxResults, head : Commit, kind : Kinds, live : BOOLEAN]
Request == [post : 1..MaxPosts, result : 1..MaxResults, head : Commit, kind : Kinds]

Pc == {"idle", "decide", "run", "recheck", "save", "post", "reply",
       "recover", "confirm", "reread", "repr", "reclone", "budget"}
Record == [pc : Pc, repost : BOOLEAN, at : Commit, kind : Kinds,
           result : 0..MaxResults, post : 0..MaxPosts,
           read : Seq(Posted),    \* the review list read by _recover_review
           live : BOOLEAN,        \* history: Live at the second read of the list
           outcome : {"none", "confirmed"}]

Become(s, r) == ses' = [ses EXCEPT ![s] = r]
At(s, label) == ses[s].pc = label
GoTo(s, label) == Become(s, [ses[s] EXCEPT !.pc = label])

\* The command ends.  Of its outcomes the model keeps the one that makes a
\* claim: the review is on GitHub as saved.
Exit(s, outcome) ==
    Become(s, [ses[s] EXCEPT !.pc = "idle", !.repost = FALSE, !.kind = "primary",
                 !.result = 0, !.post = 0, !.read = << >>, !.outcome = outcome,
                 !.live = @ /\ outcome = "confirmed"])
Return(s) == Exit(s, "none")

-----------------------------------------------------------------------------
(* The review budget.                                                      *)

\* Mutant: a dismissal gives the budget back.
MarkersLive(list, h, kind) ==
    {i \in DOMAIN list : list[i].live /\ list[i].kind = kind /\ list[i].head \in anc[h]}

\* _lineage_markers: trusted reviews whose head is an ancestor of h; a
\* dismissed review still counts.
Markers(list, h, kind) ==
    {i \in DOMAIN list : list[i].kind = kind /\ list[i].head \in anc[h]}

\* _decide_kind: the kinds the budget leaves, at most one.
Decide(list, h) ==
    LET primaries == Markers(list, h, "primary")
    IN  IF primaries = {} THEN {"primary"}
        ELSE IF /\ Markers(list, h, "delta") = {}
                /\ Cardinality(primaries) = 1
                /\ \A i \in primaries : list[i].head # h
             THEN {"delta"} ELSE {}

\* eligible_review: the latest review of h, unless it has been dismissed.
Eligible(list, h) ==
    LET of == {i \in DOMAIN list : list[i].head = h}
    IN  of # {} /\ list[CHOOSE i \in of : \A j \in of : j <= i].live
-----------------------------------------------------------------------------
(* loopzero review.                                                        *)

\* _require_clean, _require_pr and _require_pushed.
Ready == ~dirty /\ prHead = head

Begin(s) ==
    /\ At(s, "idle") /\ Ready
    /\ Become(s, [ses[s] EXCEPT !.pc = "decide", !.at = head, !.live = FALSE,
                    !.outcome = "none"])
    /\ UNCHANGED <<clone, saved, reviews, wire, counts>>

DecideKind(s) ==
    /\ At(s, "decide")
    /\ \/ \E kind \in Decide(reviews, ses[s].at) :
            Become(s, [ses[s] EXCEPT !.pc = "run", !.kind = kind])
       \/ Decide(reviews, ses[s].at) = {} /\ Return(s)
    /\ UNCHANGED <<clone, saved, reviews, wire, counts>>

\* _run_review: the first eligible reviewer that returns a verdict; when all
\* fail the command ends and no budget is spent (Abort).
RunReview(s) ==
    /\ At(s, "run") /\ results < MaxResults
    /\ results' = results + 1
    /\ Become(s, [ses[s] EXCEPT !.pc = "recheck", !.result = results + 1])
    /\ UNCHANGED <<clone, saved, reviews, wire, posts, dismissals>>

\* A result for a head that moved, or under uncommitted changes, is dropped.
Recheck(s) ==
    /\ At(s, "recheck")
    /\ IF head = ses[s].at /\ ~dirty THEN GoTo(s, "save") ELSE Return(s)
    /\ UNCHANGED <<clone, saved, reviews, wire, counts>>

\* Mutant: the result is posted first and saved when the post has returned.
SaveLater(s) ==
    /\ At(s, "save")
    /\ GoTo(s, "post")
    /\ UNCHANGED <<clone, saved, reviews, wire, counts>>

\* Saved before it is posted; a result whose evidence cannot be published is
\* saved without a publication and the command stops.
Save(s) ==
    /\ At(s, "save")
    /\ LET f == <<ses[s].at, ses[s].kind>>
           posted == [result |-> ses[s].result, published |-> TRUE]
       IN  \E publishable \in IF saved[f] = posted THEN {TRUE} ELSE BOOLEAN :
             /\ saved' = [saved EXCEPT ![f] = [posted EXCEPT !.published = publishable]]
             /\ IF publishable THEN GoTo(s, "post") ELSE Return(s)
    /\ UNCHANGED <<clone, reviews, wire, counts>>

\* Killed, or out of space, after the file was truncated.
SaveTorn(s) ==
    /\ At(s, "save")
    /\ saved' = [saved EXCEPT ![<<ses[s].at, ses[s].kind>>] = Torn]
    /\ Return(s)
    /\ UNCHANGED <<clone, reviews, wire, counts>>

Post(s) ==
    /\ At(s, "post") /\ posts < MaxPosts
    /\ posts' = posts + 1
    /\ wire' = wire \cup {[post |-> posts + 1, result |-> ses[s].result,
                           head |-> ses[s].at, kind |-> ses[s].kind]}
    /\ Become(s, [ses[s] EXCEPT !.pc = "reply", !.post = posts + 1])
    /\ UNCHANGED <<clone, saved, reviews, results, dismissals>>

\* The request is still on its way.
InFlight(s) == \E m \in wire : m.post = ses[s].post

\* 2xx: the review is there.  The outcome is the verdict's exit code.
Succeed(s) ==
    /\ At(s, "reply") /\ ~InFlight(s)
    /\ \E i \in DOMAIN reviews : reviews[i].result = ses[s].result
    /\ Return(s)
    /\ UNCHANGED <<clone, saved, reviews, wire, counts>>

\* An error or a timeout, whatever became of the request: read back.
FailReply(s) ==
    /\ At(s, "reply") /\ (Delayed \/ ~InFlight(s))
    /\ GoTo(s, "recover")
    /\ UNCHANGED <<clone, saved, reviews, wire, counts>>

-----------------------------------------------------------------------------
(* Reconciliation, after a failed post and before every repost.            *)

\* _recover_review reads the reviews once ...
Recover(s) ==
    /\ At(s, "recover")
    /\ Become(s, [ses[s] EXCEPT !.pc = "confirm", !.read = reviews])
    /\ UNCHANGED <<clone, saved, reviews, wire, counts>>

\* ... and _confirm_review judges what it read.  No review of the head at all
\* lets a repost go on to the budget; one that is not the saved result, or
\* has been dismissed, stops the command.
Confirm(s) ==
    /\ At(s, "confirm")
    /\ LET r == ses[s]
           evidence == {i \in DOMAIN r.read : r.read[i].head = r.at}
           matches == \A i \in evidence : r.read[i].result = r.result /\ r.read[i].live
       IN  IF prHead # r.at THEN Return(s)
           ELSE IF evidence = {}
           THEN IF r.repost THEN GoTo(s, "budget") ELSE Return(s)
           ELSE IF Eligible(r.read, r.at) /\ matches
           THEN GoTo(s, "reread") ELSE Return(s)
    /\ UNCHANGED <<clone, saved, reviews, wire, counts>>

\* The saved result of r's command is what the PR's head carries, and all.
Live(r) ==
    LET of == {i \in DOMAIN reviews : reviews[i].head = prHead}
    IN  /\ prHead = r.at /\ head = r.at /\ of # {}
        /\ \A i \in of : reviews[i].live /\ reviews[i].result = r.result

\* Mutant: the list is not compared.
RereadReviewsOnly(s) ==
    /\ At(s, "reread")
    /\ Become(s, [ses[s] EXCEPT !.pc = "repr", !.live = Live(ses[s])])
    /\ UNCHANGED <<clone, saved, reviews, wire, counts>>

\* Before it is confirmed the reviews are read again, then the PR, then the
\* clone.
RereadReviews(s) ==
    /\ At(s, "reread")
    /\ IF reviews = ses[s].read
       THEN Become(s, [ses[s] EXCEPT !.pc = "repr", !.live = Live(ses[s])])
       ELSE Return(s)
    /\ UNCHANGED <<clone, saved, reviews, wire, counts>>

RereadPr(s) ==
    /\ At(s, "repr")
    /\ IF prHead = ses[s].at THEN GoTo(s, "reclone") ELSE Return(s)
    /\ UNCHANGED <<clone, saved, reviews, wire, counts>>

RereadClone(s) ==
    /\ At(s, "reclone")
    /\ IF head = ses[s].at /\ ~dirty THEN Exit(s, "confirmed") ELSE Return(s)
    /\ UNCHANGED <<clone, saved, reviews, wire, counts>>

-----------------------------------------------------------------------------
(* loopzero review --repost.                                               *)

\* Exactly one saved review of HEAD, with a result; one whose publication was never tried
\* goes straight to the budget, with the reviews read now.
BeginRepost(s) ==
    /\ At(s, "idle") /\ Ready
    /\ \E kind \in Kinds :
         LET file == saved[<<head, kind>>]
         IN  /\ file \notin {NoFile, Torn}
             /\ \A k \in Kinds \ {kind} : saved[<<head, k>>] = NoFile
             /\ Become(s, [ses[s] EXCEPT !.pc = IF file.published THEN "recover" ELSE "budget",
                    !.repost = TRUE, !.at = head, !.kind = kind, !.result = file.result,
                    !.read = IF file.published THEN << >> ELSE reviews,
                    !.live = FALSE, !.outcome = "none"])
    /\ UNCHANGED <<clone, saved, reviews, wire, counts>>

\* The saved kind must still be what the budget allows, by the same read.
CheckBudget(s) ==
    /\ At(s, "budget")
    /\ IF ses[s].kind \in Decide(ses[s].read, ses[s].at)
       THEN Become(s, [ses[s] EXCEPT !.pc = "save", !.read = << >>]) ELSE Return(s)
    /\ UNCHANGED <<clone, saved, reviews, wire, counts>>

\* All reviewers failed, a read failed, or the shell was killed: between any
\* two steps.  Unless requests may land late, the one in flight is decided.
Abort(s) ==
    /\ ~At(s, "idle") /\ (Delayed \/ ~InFlight(s))
    /\ Return(s)
    /\ UNCHANGED <<clone, saved, reviews, wire, counts>>

-----------------------------------------------------------------------------
(* GitHub, and the worker.                                                 *)

Land(m) ==
    /\ wire' = wire \ {m}
    /\ reviews' \in {reviews, Append(reviews,
          [result |-> m.result, head |-> m.head, kind |-> m.kind, live |-> TRUE])}
    /\ UNCHANGED <<clone, saved, counts, ses>>

Dismiss(i) ==
    /\ reviews[i].live /\ dismissals < MaxDismissals
    /\ dismissals' = dismissals + 1
    /\ reviews' = [reviews EXCEPT ![i].live = FALSE]
    /\ UNCHANGED <<clone, saved, wire, results, posts, ses>>

Edit ==
    /\ dirty' = ~dirty
    /\ UNCHANGED <<head, prHead, anc, saved, reviews, wire, counts, ses>>

\* A commit on top of HEAD, or an amend or squash that replaces it.  HEAD does
\* not go back to an earlier commit while a command runs (assumed).
NewCommit(c) ==
    /\ dirty /\ anc[c] = {}
    /\ \E below \in {anc[head], anc[head] \ {head}} :
         anc' = [anc EXCEPT ![c] = below \cup {c}]
    /\ head' = c /\ dirty' = FALSE
    /\ UNCHANGED <<prHead, saved, reviews, wire, counts, ses>>

\* `loopzero pr` (Delivery.tla).
Push ==
    /\ prHead # head /\ prHead' = head
    /\ UNCHANGED <<head, dirty, anc, saved, reviews, wire, counts, ses>>

-----------------------------------------------------------------------------
Init ==
    /\ head \in Commit /\ dirty = FALSE /\ prHead = head
    /\ anc = [c \in Commit |-> IF c = head THEN {c} ELSE {}]
    /\ saved = [f \in Commit \X Kinds |-> NoFile]
    /\ reviews = << >> /\ wire = {}
    /\ results = 0 /\ posts = 0 /\ dismissals = 0
    /\ ses = [s \in Session |-> [pc |-> "idle", repost |-> FALSE, at |-> head,
          kind |-> "primary", result |-> 0, post |-> 0, read |-> << >>,
          live |-> FALSE, outcome |-> "none"]]

Command(s) ==
    \/ Begin(s) \/ DecideKind(s) \/ RunReview(s) \/ Recheck(s)
    \/ Save(s) \/ SaveTorn(s) \/ Post(s)
    \/ Succeed(s) \/ FailReply(s) \/ Recover(s) \/ Confirm(s)
    \/ RereadReviews(s) \/ RereadPr(s) \/ RereadClone(s)
    \/ BeginRepost(s) \/ CheckBudget(s) \/ Abort(s)

Next ==
    \/ \E s \in Session : Command(s)
    \/ \E m \in wire : Land(m)
    \/ \E i \in DOMAIN reviews : Dismiss(i)
    \/ Edit \/ Push \/ \E c \in Commit : NewCommit(c)

Spec == Init /\ [][Next]_vars

-----------------------------------------------------------------------------
TypeOK ==
    /\ head \in Commit /\ prHead \in Commit /\ dirty \in BOOLEAN
    /\ anc \in [Commit -> SUBSET Commit] /\ saved \in [Commit \X Kinds -> File]
    /\ reviews \in Seq(Posted) /\ wire \subseteq Request
    /\ results \in 0..MaxResults /\ posts \in 0..MaxPosts
    /\ dismissals \in 0..MaxDismissals
    /\ ses \in [Session -> Record]

\* The reviews on GitHub obey the budget of module Budget: every review that
\* lands was allowed in every lineage that holds its head.
Published == [i \in DOMAIN reviews |-> [head |-> reviews[i].head, kind |-> reviews[i].kind]]
Promise == INSTANCE Budget WITH published <- Published
ImplementsBudget == Promise!Spec

\* "One primary and at most one delta per head lineage" (core/CONTRACT.md:95).
BudgetKept == Promise!BudgetKept

\* A review on GitHub, or on its way there, is the one in the saved file of
\* its head and kind, which a later --repost reconciles it with, whenever the
\* command that posted it was killed.
SavedBeforePosted ==
    \A p \in wire \cup {reviews[i] : i \in DOMAIN reviews} :
        saved[<<p.head, p.kind>>] = [result |-> p.result, published |-> TRUE]

\* A command that confirms a publication reads the reviews, the PR and the
\* clone one after the other; still there was one instant at which every review
\* of the PR's head was the saved result, live, on the clone's own head: none
\* dismissed, added or left behind.
ConfirmedIsLive ==
    \A s \in Session : ses[s].outcome = "confirmed" => ses[s].live

=============================================================================
