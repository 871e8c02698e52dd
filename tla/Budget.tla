------------------------------- MODULE Budget -------------------------------
(***************************************************************************)
(* What `loopzero review` promises of a pull request: one primary review   *)
(* and at most one delta per head lineage, whatever is run, killed,        *)
(* repeated or dismissed (the budget of cli._decide_kind).                 *)
(*                                                                         *)
(* `published` holds every review that reached GitHub, in order; `anc` the *)
(* ancestors of each commit that exists, itself included.                  *)
(***************************************************************************)
EXTENDS Naturals, Sequences

CONSTANT Commit

Kinds == {"primary", "delta"}
Entry == [head : Commit, kind : Kinds]

VARIABLES published, anc

\* The reviews of one kind in the lineage of h.
Of(kind, h) ==
    {i \in DOMAIN published : published[i].kind = kind /\ published[i].head \in anc[h]}

\* Mutant: a delta is given for a head that has its primary.
AllowedAgain(h, kind) ==
    IF kind = "primary" THEN Of("primary", h) = {} ELSE Of("primary", h) # {}

\* A primary opens a lineage, one delta closes it.
Allowed(h, kind) ==
    /\ Of("delta", h) = {}
    /\ kind = "primary" <=> Of("primary", h) = {}

\* A review counts in the lineage of every commit above its head.
Publish(h, kind) ==
    /\ anc[h] # {}
    /\ \A x \in Commit : h \in anc[x] => Allowed(x, kind)
    /\ published' = Append(published, [head |-> h, kind |-> kind])
    /\ UNCHANGED anc

\* A commit on top of another, or one that replaces it.
NewCommit(c) ==
    /\ anc[c] = {}
    /\ \E y \in Commit, below \in SUBSET Commit :
         /\ below \in {anc[y], anc[y] \ {y}}
         /\ anc' = [anc EXCEPT ![c] = below \cup {c}]
    /\ UNCHANGED published

Init ==
    /\ published = << >>
    /\ \E h \in Commit : anc = [c \in Commit |-> IF c = h THEN {c} ELSE {}]

Next == \E c \in Commit :
          NewCommit(c) \/ \E kind \in Kinds : Publish(c, kind)

Spec == Init /\ [][Next]_<<published, anc>>

\* No lineage holds two primaries or two deltas (core/CONTRACT.md, "Review
\* budget"; cli._decide_kind).
BudgetKept ==
    \A h \in Commit, i, j \in DOMAIN published :
        /\ published[i].kind = published[j].kind
        /\ {published[i].head, published[j].head} \subseteq anc[h]
        => i = j
=============================================================================
