------------------------------- MODULE MCClone -------------------------------
(***************************************************************************)
(* Instances for TLC of what happens within one task clone: its checks     *)
(* (Checks), the choice of a reviewer and its review (Reviewers), one      *)
(* native call (CodexCall) and the native pair (NativePair).  They share   *)
(* no state: `part` is the one that runs, and the others stay initial.     *)
(***************************************************************************)
EXTENDS Checks, Reviewers, CodexCall, NativePair, TLC

CONSTANTS c1, c2, s1, s2

VARIABLE part

cloneVars == <<vars, revars, cxvars, npvars, part>>

-----------------------------------------------------------------------------
(* Values.                                                                 *)

\* The base branch configures no check, or two.
BaseLists == {<< >>, <<"lint", "test">>}

BothFamilies == {"claude", "codex"}

\* Lines below, at and over a budget of 4 bytes, characters of 1 to 3 bytes.
Lines      == {<<2>>, <<1, 3>>, <<3, 2, 3>>}
Blocks     == [marked : BOOLEAN, lines : UNION {[1..n -> Lines] : n \in 1..2}]
SmallDiffs == {d \in UNION {[1..n -> Blocks] : n \in 1..2} : Bytes(WholeDiff(d)) <= 14}
DeletedLines == <<<<1, 1>>, <<1>>>>

OneCommit == <<[by |-> "claude", merge |-> FALSE]>>
Asked(commits, since, reviewers, barred, diff) ==
    [commits |-> commits, since |-> since, reviewers |-> reviewers, barred |-> barred,
     diff |-> diff, budget |-> 4]

\* Every small diff for one author, and every two commits for one diff.
SmallWorks ==
    {Asked(OneCommit, 0, <<"claude", "codex">>, {}, d) : d \in SmallDiffs}
    \cup {Asked(commits, since, reviewers, barred, <<[marked |-> FALSE, lines |-> <<<<2>>, <<3>>>>]>>) :
            commits   \in [1..2 -> [by : BothFamilies \cup {Unknown}, merge : {FALSE}]]
                          \cup {<<[by |-> "codex", merge |-> FALSE], [by |-> Unknown, merge |-> TRUE]>>},
            since     \in 0..1,
            reviewers \in {<<"claude", "codex">>, <<"codex", "claude">>, <<"claude">>},
            barred    \in SUBSET BothFamilies}

\* A diff of one part, which a reviewer may still reject as too long.
OnePartWork == {Asked(OneCommit, 0, <<"claude", "codex">>, {}, <<[marked |-> FALSE, lines |-> <<<<2>>>>]>>),
                Asked(OneCommit, 0, <<"codex">>, {}, <<[marked |-> FALSE, lines |-> <<<<1, 3>>>>]>>)}

-----------------------------------------------------------------------------
(* Specifications.                                                         *)

AnyWork == CHOOSE w \in Works : TRUE

CloneInit ==
    /\ part \in {"checks", "review", "call", "pair"}
    /\ Init /\ ReviewersInit /\ CodexInit /\ PairInit
    /\ part # "checks" => checks = << >>
    /\ part # "review" => work = AnyWork

\* The checks never stop; the others do.
CloneNext ==
    /\ UNCHANGED part
    /\ \/ part = "checks" /\ Next          /\ UNCHANGED <<revars, cxvars, npvars>>
       \/ part = "review" /\ ReviewersNext /\ UNCHANGED <<vars, cxvars, npvars>>
       \/ part = "call"   /\ CodexNext     /\ UNCHANGED <<vars, revars, npvars>>
       \/ part = "pair"   /\ PairNext      /\ UNCHANGED <<vars, revars, cxvars>>
       \/ part # "checks" /\ UNCHANGED <<vars, revars, cxvars, npvars>>

CloneSpec == CloneInit /\ [][CloneNext]_cloneVars

\* One review alone.
ReviewersSpec ==
    /\ CloneInit /\ part = "review"
    /\ [][CloneNext]_cloneVars

\* Sessions and commits of the checks alone.
Symmetry == Permutations(Commit) \cup Permutations(Session)

-----------------------------------------------------------------------------
\* Every part keeps its types.
CloneTypeOK == TypeOK /\ ReviewersTypeOK /\ CodexTypeOK /\ PairTypeOK
=============================================================================
