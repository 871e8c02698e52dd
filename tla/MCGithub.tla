------------------------------- MODULE MCGithub -------------------------------
(***************************************************************************)
(* Instances for TLC of what is read from GitHub while it changes: a       *)
(* candidate's attestation (Candidate), the wait for a required check      *)
(* (Signals), and one command's calls (Transport).  They share no state:   *)
(* `part` is the one that runs, and the others stay initial.               *)
(***************************************************************************)
EXTENDS Candidate, Signals, Transport

VARIABLE part

githubVars == <<vars, sgvars, txvars, part>>

GithubInit ==
    /\ part \in {"candidate", "signals", "calls"}
    /\ Init /\ SignalsInit /\ TransportInit
    /\ part # "candidate" => batch.of = Source /\ ~batch.orphan
    /\ part # "calls" => tx.prog = "read" /\ tx.as = "verdict"

GithubNext ==
    /\ UNCHANGED part
    /\ \/ part = "candidate" /\ Next          /\ UNCHANGED <<sgvars, txvars>>
       \/ part = "signals"   /\ SignalsNext   /\ UNCHANGED <<vars, txvars>>
       \/ part = "calls"     /\ TransportNext /\ UNCHANGED <<vars, sgvars>>

\* The fairness of the part that runs.
GithubSpec ==
    /\ GithubInit /\ [][GithubNext]_githubVars
    /\ WF_vars(part = "candidate" /\ Continue) /\ WF_vars(part = "candidate" /\ BatchDeadline)
    /\ WF_sgvars(part = "signals" /\ Poll) /\ WF_sgvars(part = "signals" /\ poll.pc # "ended" /\ Tick)
    /\ WF_txvars(part = "calls" /\ Command)

-----------------------------------------------------------------------------
\* Every part keeps its types.
GithubTypeOK == TypeOK /\ SignalsTypeOK /\ TransportTypeOK

\* Attestation ends although Mergify may never list the batch again.
AttestationEnds == part = "candidate" => Termination

\* The wait for the check ends once GitHub has nothing more to come.
CheckWaitEnds == part = "signals" => SettledEnds

\* A command's calls end, however each is answered, as the listings do.
CallsEnd == part = "calls" => CommandEnds
=============================================================================
