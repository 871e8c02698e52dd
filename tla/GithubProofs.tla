---------------------------- MODULE GithubProofs ----------------------------
(***************************************************************************)
(* Proofs about what is read from and written to GitHub while it changes:  *)
(* one command's calls (Transport), a candidate's attestation (Candidate), *)
(* the wait for a required check (Signals), and the instances that run     *)
(* them (MCGithub); for any number of sources, runs, retries and moves.    *)
(***************************************************************************)
EXTENDS MCGithub, FiniteSetTheorems, SequenceTheorems, WellFoundedInduction, TLAPS

(* Transport: no write is sent or lands twice, no thread is resolved       *)
(* without its reply, and a command makes boundedly many calls.            *)

Outcome == {"none", "done", "failed", "confirmed", "unconfirmed", "blocked"}
Tx == [prog : {"read", "resolve", "review", "confirm"}, call : 1..4, as : {"verdict", "comment"},
       pc : {"send", "answered", "stopped"}, answer : Answers \cup {"none"},
       tries : 0..Retries, page : 1..MaxPages, left : 0..ReadBack, seen : BOOLEAN,
       outcome : Outcome]

TransportTyped ==
    /\ tx \in Tx /\ tx.call \in DOMAIN Program[tx.prog]
    /\ landed \in Seq(Write) /\ flight \subseteq Write
    /\ sent \in [Write -> Nat]
    /\ tx.pc = "stopped" <=> tx.outcome # "none"

\* GitHub has performed the write, or may still do so.
Landed(w) == \E i \in DOMAIN landed : landed[i] = w
Effective(w) == w \in flight \/ Landed(w)

\* What has not been sent yet, by the place in the program.
UnsentInv ==
    /\ tx.prog # "resolve" => sent["reply"] = 0 /\ sent["resolve"] = 0
    /\ tx.prog \in {"read", "resolve"} => sent["verdict"] = 0 /\ sent["comment"] = 0
    /\ tx.prog = "resolve" =>
         /\ tx.call = 1 \/ (tx.call = 2 /\ tx.pc = "send") => sent["reply"] = 0
         /\ tx.call # 3 \/ tx.pc = "send" => sent["resolve"] = 0
    /\ tx.prog = "review" =>
         /\ tx.call = 1 => sent["verdict"] = 0 /\ sent["comment"] = 0
         /\ tx.pc = "send" => sent[tx.as] = 0
         /\ tx.as = "verdict" => sent["comment"] = 0

\* Each write takes effect once at most, after it was sent.
OnceInv ==
    /\ \A w \in Write : sent[w] <= 1
    /\ \A w \in Write : Effective(w) => sent[w] = 1
    /\ \A w \in flight : ~Landed(w)
    /\ \A i, j \in DOMAIN landed : landed[i] = landed[j] => i = j

\* The comment is posted only when GitHub refused the verdict, for good.
EitherInv ==
    /\ Effective("verdict") => sent["comment"] = 0
    /\ tx.prog = "review" /\ tx.as = "comment" => ~Effective("verdict")
    /\ tx.pc = "answered" /\ tx.answer = "own" =>
         tx.prog = "review" /\ tx.as = "verdict" /\ ~Effective("verdict")

\* An accepted reply is there.
ReplyInv ==
    /\ tx.prog = "resolve" /\ tx.call = 2 /\ tx.pc = "answered" /\ tx.answer = "ok" => Landed("reply")
    /\ tx.prog = "resolve" /\ tx.call = 3 => Landed("reply")
    /\ "resolve" \in flight => Landed("reply")
    /\ ResolvedAfterReply

TransportInv == TransportTyped /\ UnsentInv /\ OnceInv /\ EitherInv /\ ReplyInv
-----------------------------------------------------------------------------
\* The calls of the programs.
LEMMA Calls ==
    /\ DOMAIN Program = {"read", "resolve", "review", "confirm"}
    /\ DOMAIN Program["read"] = 1..1 /\ DOMAIN Program["resolve"] = 1..3
    /\ DOMAIN Program["review"] = 1..2 /\ DOMAIN Program["confirm"] = 1..4
    /\ Program["read"][1] = "list" /\ Program["resolve"][1] = "list"
    /\ Program["resolve"][2] = "reply" /\ Program["resolve"][3] = "resolve"
    /\ Program["review"][1] = "list" /\ Program["review"][2] = "post"
    /\ Program["confirm"][1] = "list" /\ Program["confirm"][2] = "view"
    /\ Program["confirm"][3] = "list" /\ Program["confirm"][4] = "view"
    /\ Len(Program["read"]) = 1 /\ Len(Program["resolve"]) = 3
    /\ Len(Program["review"]) = 2 /\ Len(Program["confirm"]) = 4
  BY DEF Program

\* Where a write is called.
LEMMA CalledWrites ==
    ASSUME TransportTyped
    PROVE  /\ Called \in Write =>
                \/ tx.prog = "resolve" /\ tx.call = 2 /\ Called = "reply"
                \/ tx.prog = "resolve" /\ tx.call = 3 /\ Called = "resolve"
                \/ tx.prog = "review" /\ tx.call = 2 /\ Called = tx.as
           /\ tx.prog = "resolve" /\ tx.call = 2 => Called = "reply"
           /\ tx.prog = "resolve" /\ tx.call = 3 => Called = "resolve"
           /\ tx.prog = "review" /\ tx.call = 2 => Called = tx.as
           /\ tx.call = 1 => Called = "list"
           /\ tx.prog = "resolve" => tx.call \in 1..3
           /\ tx.prog = "review" => tx.call \in 1..2
           /\ tx.prog = "read" => tx.call = 1
           /\ tx.prog = "confirm" => tx.call \in 1..4
<1>1. tx.prog \in {"read", "resolve", "review", "confirm"} /\ tx.call \in DOMAIN Program[tx.prog]
      /\ tx.as \in {"verdict", "comment"}
  BY DEF TransportTyped, Tx
<1>2. CASE tx.prog = "read"
  BY <1>1, <1>2, Calls DEF Called, Write
<1>3. CASE tx.prog = "resolve"
  BY <1>1, <1>3, Calls DEF Called, Write
<1>4. CASE tx.prog = "review"
  BY <1>1, <1>4, Calls DEF Called, Write
<1>5. CASE tx.prog = "confirm"
  BY <1>1, <1>5, Calls DEF Called, Write
<1>6. QED
  BY <1>1, <1>2, <1>3, <1>4, <1>5

\* The initial state satisfies every part.
LEMMA TransportInitial == TransportInit => TransportInv
<1> SUFFICES ASSUME TransportInit PROVE TransportInv
  OBVIOUS
<1>1. PICK prog \in {"read", "resolve", "review"}, as \in {"verdict", "comment"} :
        tx = [prog |-> prog, call |-> 1, as |-> as, pc |-> "send", answer |-> "none",
              tries |-> 0, page |-> 1, left |-> ReadBack, seen |-> FALSE, outcome |-> "none"]
  BY DEF TransportInit
<1>2. landed = << >> /\ flight = {} /\ sent = [w \in Write |-> 0]
  BY DEF TransportInit
<1>3. tx \in Tx
  <2>1. 0 \in 0..Retries /\ 1 \in 1..MaxPages /\ ReadBack \in 0..ReadBack /\ 1 \in 1..4
    BY LimitsAssumption
  <2>2. QED
    BY <1>1, <2>1, Zenon DEF Tx, Outcome
<1>4. tx.call \in DOMAIN Program[tx.prog]
  BY <1>1, Calls
<1>5. TransportTyped
  BY <1>1, <1>2, <1>3, <1>4 DEF TransportTyped
<1>6. \A w : ~Effective(w)
  BY <1>2 DEF Effective, Landed
<1>7. \A w \in Write : sent[w] = 0
  BY <1>2
<1>8. UnsentInv
  BY <1>1, <1>7 DEF UnsentInv, Write
<1>9. OnceInv
  BY <1>2, <1>6, <1>7 DEF OnceInv
<1>10. EitherInv
  BY <1>1, <1>6 DEF EitherInv
<1>11. ResolvedAfterReply
  BY <1>2 DEF ResolvedAfterReply
<1>12. ReplyInv
  BY <1>1, <1>2, <1>11 DEF ReplyInv
<1>13. QED
  BY <1>5, <1>8, <1>9, <1>10, <1>12 DEF TransportInv

\* Each step keeps the types.
LEMMA TransportTypedStep == TransportTyped /\ [TransportNext]_txvars => TransportTyped'
<1> SUFFICES ASSUME TransportTyped, [TransportNext]_txvars PROVE TransportTyped'
  OBVIOUS
<1>1. tx \in Tx /\ tx.call \in DOMAIN Program[tx.prog] /\ landed \in Seq(Write)
      /\ flight \subseteq Write /\ sent \in [Write -> Nat]
      /\ (tx.pc = "stopped" <=> tx.outcome # "none")
  BY DEF TransportTyped
<1>2. ASSUME NEW answer \in Answers, Send(answer) PROVE TransportTyped'
  <2>1. PICK spent \in 0..tx.left : tx' = [tx EXCEPT !.pc = "answered", !.answer = answer,
             !.left = @ - spent, !.seen = IF Called = "list" THEN Posted ELSE @]
    <3>1. tx.left \in 0..ReadBack
      BY <1>1 DEF Tx
    <3>2. 0 \in 0..tx.left /\ tx.left \in 0..tx.left
      BY <3>1, LimitsAssumption
    <3>3. QED
      BY <1>2, <3>2 DEF Send
  <2>2. tx.left - spent \in 0..ReadBack
    BY <1>1, LimitsAssumption DEF Tx
  <2>3. tx' \in Tx
    BY <1>1, <2>1, <2>2 DEF Tx, Posted
  <2>4. tx'.prog = tx.prog /\ tx'.call = tx.call /\ tx'.pc # "stopped" /\ tx'.outcome = "none"
    BY <1>1, <1>2, <2>1 DEF Tx, Send
  <2>5. landed' \in Seq(Write) /\ flight' \subseteq Write /\ sent' \in [Write -> Nat]
    <3>1. CASE Called \notin Write
      BY <1>1, <1>2, <3>1 DEF Send
    <3>2. CASE Called \in Write
      <4>1. sent' = [sent EXCEPT ![Called] = @ + 1]
        BY <1>2, <3>2 DEF Send
      <4>2. landed' = landed \/ landed' = Append(landed, Called)
        BY <1>2, <3>2 DEF Send
      <4>3. flight' = flight \/ flight' = flight \cup {Called}
        BY <1>2, <3>2 DEF Send
      <4>4. QED
        <5>1. landed' \in Seq(Write)
          BY <1>1, <3>2, <4>2, AppendProperties
        <5>2. sent' \in [Write -> Nat]
          BY <1>1, <3>2, <4>1
        <5>3. QED
          BY <1>1, <3>2, <4>3, <5>1, <5>2
    <3>3. QED
      BY <3>1, <3>2
  <2>6. QED
    BY <1>1, <2>3, <2>4, <2>5 DEF TransportTyped
<1>3. ASSUME NEW w \in Write, LandLate(w) PROVE TransportTyped'
  BY <1>1, <1>3 DEF LandLate, TransportTyped
<1>4. ASSUME RetryRead \/ NextPage \/ NextCall \/ PostAsComment \/ Finish \/ NotListed \/ GiveUp
      PROVE  TransportTyped'
  <2>1. UNCHANGED <<landed, flight, sent>>
    BY <1>4 DEF RetryRead, NextPage, NextCall, PostAsComment, Finish, NotListed, GiveUp
  <2>2. ASSUME tx' \in Tx, tx'.call \in DOMAIN Program[tx'.prog], tx'.pc = "stopped" <=> tx'.outcome # "none"
        PROVE  TransportTyped'
    BY <1>1, <2>1, <2>2 DEF TransportTyped
  <2>3. tx.tries \in 0..Retries /\ tx.page \in 1..MaxPages
    BY <1>1 DEF Tx
  <2>4. 0 \in 0..Retries /\ 1 \in 1..MaxPages
    BY LimitsAssumption
  <2>5. CASE RetryRead
    <3>1. tx.tries + 1 \in 0..Retries
      BY <2>3, <2>5, LimitsAssumption DEF RetryRead
    <3>2. QED
      BY <1>1, <2>2, <2>5, <3>1 DEF RetryRead, Again, Answered, Tx
  <2>6. CASE NextPage
    <3>1. tx.page + 1 \in 1..MaxPages
      BY <2>3, <2>6, LimitsAssumption DEF NextPage
    <3>2. QED
      BY <1>1, <2>2, <2>4, <2>6, <3>1 DEF NextPage, Again, Answered, Tx
  <2>7. CASE NextCall
    <3>1. tx.call + 1 \in DOMAIN Program[tx.prog] /\ tx.call + 1 \in 1..4
      <4>1. tx.prog \in {"read", "resolve", "review", "confirm"} /\ tx.call # Len(Program[tx.prog])
        BY <1>1, <2>7 DEF NextCall, Last, Tx
      <4>2. QED
        <5>1. CASE tx.prog = "read"
          BY <1>1, <4>1, <5>1, Calls
        <5>2. CASE tx.prog = "resolve"
          BY <1>1, <4>1, <5>2, Calls
        <5>3. CASE tx.prog = "review"
          BY <1>1, <4>1, <5>3, Calls
        <5>4. CASE tx.prog = "confirm"
          BY <1>1, <4>1, <5>4, Calls
        <5>5. QED
          BY <4>1, <5>1, <5>2, <5>3, <5>4
    <3>2. QED
      BY <1>1, <2>2, <2>4, <2>7, <3>1 DEF NextCall, Again, Answered, Tx
  <2>8. CASE PostAsComment
    BY <1>1, <2>2, <2>8 DEF PostAsComment, Again, Answered, Tx
  <2>9. CASE Finish \/ NotListed
    <3>1. PICK outcome \in Outcome \ {"none"} : tx' = [tx EXCEPT !.pc = "stopped", !.outcome = outcome]
      BY <2>9 DEF Finish, NotListed, Stop, Outcome
    <3>2. QED
      BY <1>1, <2>2, <3>1 DEF Tx
  <2>10. CASE GiveUp
    <3>1. CASE tx.prog = "review"
      <4>1. tx' = [tx EXCEPT !.prog = "confirm", !.call = 1, !.tries = 0, !.page = 1, !.pc = "send"]
        BY <1>1, <2>10, <3>1 DEF GiveUp, Again, Tx
      <4>2. tx.outcome = "none"
        BY <1>1, <2>10 DEF GiveUp, Answered
      <4>3. tx' \in Tx /\ tx'.prog = "confirm" /\ tx'.call = 1 /\ tx'.pc = "send" /\ tx'.outcome = "none"
        <5>1. "confirm" \in {"read", "resolve", "review", "confirm"} /\ 1 \in 1..4
          OBVIOUS
        <5>2. QED
          BY <1>1, <2>4, <4>1, <4>2, <5>1 DEF Tx
      <4>4. QED
        BY <2>2, <4>3, Calls
    <3>2. CASE tx.prog # "review"
      <4>1. PICK outcome \in {"blocked", "failed"} : tx' = [tx EXCEPT !.pc = "stopped", !.outcome = outcome]
        BY <2>10, <3>2 DEF GiveUp, Stop
      <4>2. QED
        BY <1>1, <2>2, <4>1 DEF Tx, Outcome
    <3>3. QED
      BY <3>1, <3>2
  <2>11. QED
    BY <1>4, <2>5, <2>6, <2>7, <2>8, <2>9, <2>10
<1>5. CASE UNCHANGED txvars
  BY <1>1, <1>5 DEF txvars, TransportTyped
<1>6. QED
  BY <1>2, <1>3, <1>4, <1>5 DEF TransportNext, Command

\* One more write in the log.
LEMMA LandOne ==
    ASSUME landed \in Seq(Write), NEW w \in Write, landed' = Append(landed, w), ~Landed(w),
           \A i, j \in DOMAIN landed : landed[i] = landed[j] => i = j,
           ResolvedAfterReply, w = "resolve" => Landed("reply")
    PROVE  /\ \A v : Landed(v)' <=> Landed(v) \/ v = w
           /\ \A i, j \in DOMAIN landed' : landed'[i] = landed'[j] => i = j
           /\ ResolvedAfterReply'
<1>1. DOMAIN landed = 1..Len(landed) /\ DOMAIN landed' = 1..(Len(landed) + 1)
      /\ Len(landed) \in Nat
  BY AppendProperties
<1>2. landed'[Len(landed) + 1] = w /\ \A i \in 1..Len(landed) : landed'[i] = landed[i]
  BY AppendProperties
<1>3. \A v : Landed(v)' <=> Landed(v) \/ v = w
  BY <1>1, <1>2 DEF Landed
<1>4. \A i \in DOMAIN landed : landed[i] # w
  BY DEF Landed
<1>5. \A i, j \in DOMAIN landed' : landed'[i] = landed'[j] => i = j
  BY <1>1, <1>2, <1>4
<1>6. ASSUME NEW i \in DOMAIN landed', landed'[i] = "resolve"
      PROVE  \E j \in 1..(i - 1) : landed'[j] = "reply"
  <2>1. CASE i = Len(landed) + 1
    <3>1. PICK j \in DOMAIN landed : landed[j] = "reply"
      BY <1>2, <1>6, <2>1 DEF Landed
    <3>2. QED
      BY <1>1, <1>2, <2>1, <3>1
  <2>2. CASE i # Len(landed) + 1
    <3>1. i \in DOMAIN landed /\ landed[i] = "resolve"
      BY <1>1, <1>2, <1>6, <2>2
    <3>2. PICK j \in 1..(i - 1) : landed[j] = "reply"
      BY <3>1 DEF ResolvedAfterReply
    <3>3. QED
      BY <1>1, <1>2, <3>1, <3>2
  <2>3. QED
    BY <2>1, <2>2
<1>7. QED
  BY <1>3, <1>5, <1>6 DEF ResolvedAfterReply

-----------------------------------------------------------------------------
\* A sent write is one that was not sent before, and the program goes on from
\* it only when it was accepted (_gh, post_review, resolve_finding).
LEMMA SendStep ==
    ASSUME TransportInv, NEW answer \in Answers, Send(answer)
    PROVE  UnsentInv' /\ OnceInv' /\ EitherInv' /\ ReplyInv'
<1>1. TransportTyped /\ UnsentInv /\ OnceInv /\ EitherInv /\ ReplyInv
  BY DEF TransportInv
<1>2. tx \in Tx /\ landed \in Seq(Write) /\ sent \in [Write -> Nat]
  BY <1>1 DEF TransportTyped
<1>3. tx'.prog = tx.prog /\ tx'.call = tx.call /\ tx'.as = tx.as /\ tx.pc = "send"
      /\ tx'.pc = "answered" /\ tx'.answer = answer
  BY <1>2 DEF Send, Tx
<1>4. CASE Called \notin Write
  <2>1. UNCHANGED <<landed, flight, sent>> /\ answer # "own"
    BY <1>4 DEF Send, Write
  <2>2. ~(tx.prog = "resolve" /\ tx.call = 2)
    BY <1>1, <1>4, CalledWrites DEF Write
  <2>3. \A w : (Effective(w)' <=> Effective(w)) /\ (Landed(w)' <=> Landed(w))
    BY <2>1 DEF Effective, Landed
  <2>4. UnsentInv'
    BY <1>1, <1>3, <2>1 DEF UnsentInv
  <2>5. OnceInv'
    BY <1>1, <2>1, <2>3 DEF OnceInv
  <2>6. EitherInv'
    BY <1>1, <1>3, <2>1, <2>3 DEF EitherInv
  <2>7. ReplyInv'
    BY <1>1, <1>3, <2>1, <2>2, <2>3 DEF ReplyInv, ResolvedAfterReply
  <2>8. QED
    BY <2>4, <2>5, <2>6, <2>7
<1>5. CASE Called \in Write
  <2>1. PICK w \in Write : w = Called
    BY <1>5
  <2>2. \/ tx.prog = "resolve" /\ tx.call = 2 /\ w = "reply"
        \/ tx.prog = "resolve" /\ tx.call = 3 /\ w = "resolve"
        \/ tx.prog = "review" /\ tx.call = 2 /\ w = tx.as
    BY <1>1, <2>1, CalledWrites
  <2>3. sent[w] = 0
    BY <1>1, <1>3, <2>2 DEF UnsentInv
  <2>4. ~Effective(w) /\ ~Landed(w)
    BY <1>1, <2>1, <2>3 DEF OnceInv, Effective
  <2>5. sent' = [sent EXCEPT ![w] = @ + 1]
    BY <2>1 DEF Send
  <2>6. w = "resolve" => Landed("reply")
    BY <1>1, <1>2, <2>2 DEF ReplyInv, Tx
  <2>7. \/ landed' = Append(landed, w) /\ flight' = flight
        \/ landed' = landed /\ flight' = flight /\ answer # "ok"
        \/ landed' = landed /\ flight' = flight \cup {w} /\ answer # "ok"
    BY <2>1 DEF Send
  <2>8. answer = "own" => w = "verdict" /\ landed' = landed /\ flight' = flight
    BY <2>1 DEF Send, Transient
  <2>9. sent'[w] = 1 /\ \A v \in Write : v # w => sent'[v] = sent[v]
    BY <1>2, <2>1, <2>3, <2>5
  <2>10. /\ \A v : Landed(v)' => Landed(v) \/ v = w
         /\ \A v : Landed(v) => Landed(v)'
         /\ \A i, j \in DOMAIN landed' : landed'[i] = landed'[j] => i = j
         /\ ResolvedAfterReply'
    <3>1. CASE landed' = Append(landed, w)
      BY <1>1, <1>2, <2>1, <2>4, <2>6, <3>1, LandOne DEF OnceInv, ReplyInv
    <3>2. CASE landed' = landed
      BY <1>1, <3>2 DEF OnceInv, ReplyInv, ResolvedAfterReply, Landed
    <3>3. QED
      BY <2>7, <3>1, <3>2
  <2>11. answer = "ok" => Landed(w)'
    <3>1. CASE landed' = Append(landed, w)
      BY <1>1, <1>2, <2>1, <2>4, <2>6, <3>1, LandOne DEF OnceInv, ReplyInv
    <3>2. QED
      BY <2>7, <3>1
  <2>12. \A v : Effective(v)' => Effective(v) \/ v = w
    BY <2>7, <2>10 DEF Effective
  <2>13. UnsentInv'
    <3>1. tx.as \in {"verdict", "comment"}
      BY <1>2 DEF Tx
    <3>2. QED
      BY <1>1, <1>3, <2>2, <2>9, <3>1 DEF UnsentInv, Write
  <2>14. OnceInv'
    <3>1. \A v \in flight' : ~Landed(v)'
      BY <1>1, <2>4, <2>7, <2>10 DEF OnceInv, Effective, Landed
    <3>2. \A v \in Write : sent'[v] <= 1
      BY <1>1, <2>9 DEF OnceInv
    <3>3. \A v \in Write : Effective(v)' => sent'[v] = 1
      BY <1>1, <2>9, <2>12 DEF OnceInv
    <3>4. QED
      BY <2>10, <3>1, <3>2, <3>3 DEF OnceInv
  <2>15. EitherInv'
    <3>1. answer = "own" => tx.prog = "review" /\ tx.as = "verdict" /\ ~Effective("verdict")'
      BY <2>2, <2>4, <2>8 DEF Effective, Landed
    <3>2. w = "comment" => ~Effective("verdict")
      BY <1>1, <2>2 DEF EitherInv
    <3>3. w = "verdict" => sent["comment"] = 0
      BY <1>1, <2>2 DEF UnsentInv
    <3>4. Effective("verdict")' => sent'["comment"] = 0
      BY <1>1, <2>9, <2>12, <3>2, <3>3 DEF EitherInv, Write
    <3>5. tx.prog = "review" /\ tx.as = "comment" => ~Effective("verdict")'
      BY <1>1, <2>2, <2>12 DEF EitherInv
    <3>6. QED
      BY <1>3, <3>1, <3>4, <3>5 DEF EitherInv
  <2>16. ReplyInv'
    <3>1. "resolve" \in flight' => Landed("reply")
      BY <1>1, <2>6, <2>7 DEF ReplyInv
    <3>2. tx.prog = "resolve" /\ tx.call = 2 /\ answer = "ok" => Landed("reply")'
      BY <2>2, <2>11
    <3>3. tx.prog = "resolve" /\ tx.call = 3 => Landed("reply")'
      BY <1>1, <2>10 DEF ReplyInv
    <3>4. QED
      BY <1>3, <2>10, <3>1, <3>2, <3>3 DEF ReplyInv
  <2>17. QED
    BY <2>13, <2>14, <2>15, <2>16
<1>6. QED
  BY <1>4, <1>5

\* A call that timed out is performed later.
LEMMA LateStep ==
    ASSUME TransportInv, NEW w \in Write, LandLate(w)
    PROVE  UnsentInv' /\ OnceInv' /\ EitherInv' /\ ReplyInv'
<1>1. TransportTyped /\ UnsentInv /\ OnceInv /\ EitherInv /\ ReplyInv
  BY DEF TransportInv
<1>2. landed \in Seq(Write) /\ landed' = Append(landed, w) /\ flight' = flight \ {w}
      /\ tx' = tx /\ sent' = sent /\ w \in flight
  BY <1>1 DEF TransportTyped, LandLate
<1>3. ~Landed(w)
  BY <1>1, <1>2 DEF OnceInv
<1>4. /\ \A v : Landed(v)' <=> Landed(v) \/ v = w
      /\ \A i, j \in DOMAIN landed' : landed'[i] = landed'[j] => i = j
      /\ ResolvedAfterReply'
  BY <1>1, <1>2, <1>3, LandOne DEF OnceInv, ReplyInv
<1>5. \A v : Effective(v)' <=> Effective(v)
  BY <1>2, <1>4 DEF Effective
<1>6. UnsentInv'
  BY <1>1, <1>2 DEF UnsentInv
<1>7. OnceInv'
  <2>1. \A v \in flight' : ~Landed(v)'
    BY <1>1, <1>2, <1>4 DEF OnceInv
  <2>2. QED
    BY <1>1, <1>2, <1>4, <1>5, <2>1 DEF OnceInv
<1>8. EitherInv'
  BY <1>1, <1>2, <1>5 DEF EitherInv
<1>9. ReplyInv'
  BY <1>1, <1>2, <1>4 DEF ReplyInv
<1>10. QED
  BY <1>6, <1>7, <1>8, <1>9

\* Between two sends: only reads are sent again, and a program goes on, starts
\* the read-back or ends.
LEMMA CommandStep ==
    ASSUME TransportInv,
           RetryRead \/ NextPage \/ NextCall \/ PostAsComment \/ Finish \/ NotListed \/ GiveUp
    PROVE  UnsentInv' /\ OnceInv' /\ EitherInv' /\ ReplyInv'
<1>1. TransportTyped /\ UnsentInv /\ OnceInv /\ EitherInv /\ ReplyInv
  BY DEF TransportInv
<1>2. tx \in Tx
  BY <1>1 DEF TransportTyped
<1>3. UNCHANGED <<landed, flight, sent>>
  BY DEF RetryRead, NextPage, NextCall, PostAsComment, Finish, NotListed, GiveUp
<1>4. \A w : (Effective(w)' <=> Effective(w)) /\ (Landed(w)' <=> Landed(w))
  BY <1>3 DEF Effective, Landed
<1>5. OnceInv' /\ ResolvedAfterReply'
  BY <1>1, <1>3, <1>4 DEF OnceInv, ReplyInv, ResolvedAfterReply
<1> SUFFICES UnsentInv' /\ EitherInv' /\ ReplyInv'
  BY <1>5
<1>6. CASE RetryRead \/ NextPage
  <2>1. tx'.prog = tx.prog /\ tx'.call = tx.call /\ tx'.as = tx.as /\ tx'.pc = "send"
    BY <1>2, <1>6 DEF RetryRead, NextPage, Again, Tx
  <2>2. Called \notin Write
    BY <1>6 DEF RetryRead, NextPage, ReadOnly, Write
  <2>3. tx.prog = "resolve" => tx.call = 1
    BY <1>1, <2>2, CalledWrites DEF Write
  <2>4. tx.prog = "review" => tx.call = 1
    BY <1>1, <1>2, <2>2, CalledWrites DEF Write, Tx
  <2>5. tx.as \in {"verdict", "comment"}
    BY <1>2 DEF Tx
  <2>6. UnsentInv'
    BY <1>1, <1>3, <2>1, <2>3, <2>4, <2>5 DEF UnsentInv
  <2>7. QED
    BY <1>1, <1>3, <1>4, <1>5, <2>1, <2>6 DEF EitherInv, ReplyInv
<1>7. CASE NextCall
  <2>1. tx'.prog = tx.prog /\ tx'.call = tx.call + 1 /\ tx'.as = tx.as /\ tx'.pc = "send"
        /\ tx.pc = "answered" /\ tx.answer = "ok" /\ tx.call # Len(Program[tx.prog])
    BY <1>2, <1>7 DEF NextCall, Again, Answered, Accepted, Last, Tx
  <2>2. tx.call \in 1..4 /\ tx.as \in {"verdict", "comment"}
    BY <1>2 DEF Tx
  <2>3. (tx.prog = "resolve" => tx.call \in {1, 2}) /\ (tx.prog = "review" => tx.call = 1)
    <3>1. (tx.prog = "resolve" => tx.call \in 1..3) /\ (tx.prog = "review" => tx.call \in 1..2)
      BY <1>1, CalledWrites
    <3>2. tx.prog = "resolve" => tx.call # 3
      BY <2>1, Calls
    <3>3. tx.prog = "review" => tx.call # 2
      BY <2>1, Calls
    <3>4. QED
      BY <3>1, <3>2, <3>3
  <2>4. UnsentInv'
    BY <1>1, <1>3, <2>1, <2>2, <2>3 DEF UnsentInv
  <2>5. tx.prog = "resolve" /\ tx'.call = 3 => Landed("reply")
    BY <1>1, <2>1, <2>2, <2>3 DEF ReplyInv
  <2>6. QED
    BY <1>1, <1>3, <1>4, <1>5, <2>1, <2>4, <2>5 DEF EitherInv, ReplyInv
<1>8. CASE PostAsComment
  <2>1. tx'.prog = tx.prog /\ tx'.call = tx.call /\ tx'.as = "comment" /\ tx'.pc = "send"
    BY <1>2, <1>8 DEF PostAsComment, Again, Tx
  <2>2. tx.prog = "review" /\ tx.as = "verdict" /\ ~Effective("verdict")
    BY <1>1, <1>8 DEF PostAsComment, Answered, EitherInv
  <2>3. sent["comment"] = 0
    BY <1>1, <2>2 DEF UnsentInv
  <2>4. UnsentInv'
    BY <1>1, <1>3, <2>1, <2>2, <2>3 DEF UnsentInv
  <2>5. QED
    BY <1>1, <1>3, <1>4, <1>5, <2>1, <2>2, <2>3, <2>4 DEF EitherInv, ReplyInv
<1>9. CASE Finish \/ NotListed \/ (GiveUp /\ tx.prog # "review")
  <2>1. tx'.prog = tx.prog /\ tx'.call = tx.call /\ tx'.as = tx.as /\ tx'.pc = "stopped"
    BY <1>2, <1>9 DEF Finish, NotListed, GiveUp, Stop, Tx
  <2>2. UnsentInv'
    BY <1>1, <1>3, <2>1 DEF UnsentInv
  <2>3. QED
    BY <1>1, <1>3, <1>4, <1>5, <2>1, <2>2 DEF EitherInv, ReplyInv
<1>10. CASE GiveUp /\ tx.prog = "review"
  <2>1. tx'.prog = "confirm" /\ tx'.pc = "send"
    BY <1>2, <1>10 DEF GiveUp, Again, Tx
  <2>2. UnsentInv'
    BY <1>1, <1>3, <1>10, <2>1 DEF UnsentInv
  <2>3. QED
    BY <1>1, <1>3, <1>4, <1>5, <2>1, <2>2 DEF EitherInv, ReplyInv
<1>11. QED
  BY <1>6, <1>7, <1>8, <1>9, <1>10

\* All parts together hold of every reachable state.
LEMMA TransportAlways == TransportSpec => []TransportInv
<1>1. TransportInv /\ [TransportNext]_txvars => TransportInv'
  <2> SUFFICES ASSUME TransportInv, [TransportNext]_txvars PROVE TransportInv'
    OBVIOUS
  <2>1. TransportTyped'
    BY TransportTypedStep DEF TransportInv
  <2>2. CASE UNCHANGED txvars
    BY <2>1, <2>2 DEF txvars, TransportInv, UnsentInv, OnceInv, EitherInv, ReplyInv,
       ResolvedAfterReply, Effective, Landed
  <2>3. QED
    BY <2>1, <2>2, SendStep, LateStep, CommandStep DEF TransportNext, Command, TransportInv
<1>2. QED
  BY <1>1, TransportInitial, PTL DEF TransportSpec

\* Every reachable state has its type: retries, pages and the seconds of the
\* read-back stay within their limits (_gh, _paged, bounded_reads).
THEOREM TransportTypeCorrect == TransportSpec => []TransportTypeOK
<1>1. TransportInv => TransportTypeOK
  BY Calls DEF TransportInv, TransportTyped, Tx, Outcome, TransportTypeOK
<1>2. QED
  BY <1>1, TransportAlways, PTL

\* A command sends no write twice and leaves one review at most, whatever answers
\* are lost and however late a call is performed (_gh, post_review).
THEOREM TransportWriteOnce == TransportSpec => []WriteOnce
<1>1. TransportInv => WriteOnce
  <2> SUFFICES ASSUME TransportInv PROVE WriteOnce
    OBVIOUS
  <2>1. \A w \in Write : sent[w] <= 1
    BY DEF TransportInv, OnceInv
  <2>2. ~(Landed("verdict") /\ Landed("comment"))
    BY DEF TransportInv, OnceInv, EitherInv, Effective, Write
  <2>3. ASSUME NEW i \in DOMAIN landed, NEW j \in DOMAIN landed,
               landed[i] \in {"verdict", "comment"}, landed[j] \in {"verdict", "comment"}
        PROVE  i = j
    <3>1. landed[i] = landed[j]
      BY <2>2, <2>3 DEF Landed
    <3>2. QED
      BY <3>1 DEF TransportInv, OnceInv
  <2>4. QED
    BY <2>1, <2>3 DEF WriteOnce
<1>2. QED
  BY <1>1, TransportAlways, PTL

\* GitHub never resolves a thread before the reply to it is there (resolve_finding).
THEOREM TransportResolvedAfterReply == TransportSpec => []ResolvedAfterReply
<1>1. TransportInv => ResolvedAfterReply
  BY DEF TransportInv, ReplyInv
<1>2. QED
  BY <1>1, TransportAlways, PTL

\* Steps that a command may still take; an attempt is two, its call and what
\* comes of it.  A page has Retries + 1 attempts, a call MaxPages of them; a
\* review that fails is read back by four calls more, and may first be posted
\* again as a comment.
PageSteps == 2 * Retries + 2
CallSteps == MaxPages * PageSteps
CallsLeft == (Len(Program[tx.prog]) - tx.call) * CallSteps
PagesLeft == (MaxPages - tx.page) * PageSteps
TriesLeft == 2 * (Retries - tx.tries)
StepsLeft ==
    (IF tx.prog = "review" THEN 5 * CallSteps ELSE 0) + CallsLeft + PagesLeft + TriesLeft
    + (IF tx.as = "verdict" THEN 2 ELSE 0)
    + (IF tx.pc = "send" THEN 2 ELSE IF tx.pc = "answered" THEN 1 ELSE 0)

\* The pages, and the calls, that are left.
LEMMA PagesCount ==
    ASSUME NEW page \in 1..MaxPages
    PROVE  /\ PageSteps \in Nat /\ CallSteps \in Nat
           /\ (MaxPages - page) * PageSteps \in Nat
           /\ (MaxPages - page) * PageSteps = (MaxPages - (page + 1)) * PageSteps + PageSteps
           /\ (MaxPages - 1) * PageSteps = CallSteps - PageSteps
<1>1. PICK n \in Nat, m \in Nat : n = PageSteps /\ m = MaxPages
  BY LimitsAssumption DEF PageSteps
<1>2. m * n \in Nat
  BY <1>1
<1>3. (m - page) * n = m * n - page * n /\ (m - (page + 1)) * n = m * n - page * n - n
      /\ (m - 1) * n = m * n - n
  BY <1>1
<1>4. (m - page) * n \in Nat
  <2>1. m - page \in Nat
    BY <1>1
  <2>2. QED BY <2>1
<1>5. QED BY <1>1, <1>2, <1>3, <1>4 DEF CallSteps

LEMMA CallsCount ==
    ASSUME NEW prog \in {"read", "resolve", "review", "confirm"}, NEW call \in DOMAIN Program[prog]
    PROVE  /\ (Len(Program[prog]) - call) * CallSteps \in Nat
           /\ (Len(Program[prog]) - call) * CallSteps
                = (Len(Program[prog]) - (call + 1)) * CallSteps + CallSteps
<1>1. PICK n \in Nat : n = CallSteps
  <2>1. 1 \in 1..MaxPages
    BY LimitsAssumption
  <2>2. QED BY <2>1, PagesCount
<1>2. PICK len \in 1..4 : len = Len(Program[prog]) /\ call \in 1..len
  BY Calls
<1>3. (len - call) * n \in Nat
  <2>1. len - call \in Nat
    BY <1>2
  <2>2. QED BY <2>1
<1>4. (len - call) * n = (len - (call + 1)) * n + n
  BY <1>2
<1>5. QED BY <1>1, <1>2, <1>3, <1>4

\* The parts of StepsLeft in a typed state.
LEMMA StepsParts ==
    ASSUME TransportTyped
    PROVE  /\ PageSteps = 2 * Retries + 2 /\ PageSteps \in Nat /\ CallSteps \in Nat
           /\ Retries \in Nat /\ tx.tries \in 0..Retries
           /\ CallsLeft \in Nat /\ PagesLeft \in Nat /\ TriesLeft \in 0..(2 * Retries)
           /\ (MaxPages - 1) * PageSteps = CallSteps - PageSteps
           /\ StepsLeft \in Nat
<1>1. /\ tx.prog \in {"read", "resolve", "review", "confirm"} /\ tx.call \in DOMAIN Program[tx.prog]
      /\ tx.page \in 1..MaxPages /\ tx.tries \in 0..Retries /\ Retries \in Nat
  BY LimitsAssumption DEF TransportTyped, Tx
<1>2. CallsLeft \in Nat
  BY <1>1, CallsCount DEF CallsLeft
<1>3. /\ PagesLeft \in Nat /\ PageSteps \in Nat /\ CallSteps \in Nat
      /\ (MaxPages - 1) * PageSteps = CallSteps - PageSteps
  BY <1>1, PagesCount DEF PagesLeft
<1>4. TriesLeft \in 0..(2 * Retries)
  BY <1>1 DEF TriesLeft
<1>5. PageSteps = 2 * Retries + 2
  BY DEF PageSteps
<1>6. StepsLeft \in Nat
  BY <1>2, <1>3, <1>4 DEF StepsLeft
<1>7. QED BY <1>1, <1>2, <1>3, <1>4, <1>5, <1>6

\* Every step of a command leaves fewer.
LEMMA StepsFall ==
    ASSUME TransportTyped, EitherInv, TransportTyped', Command
    PROVE  StepsLeft' < StepsLeft
<1>1. tx \in Tx /\ tx.call \in DOMAIN Program[tx.prog]
  BY DEF TransportTyped
<1> DEFINE Calling == tx'.prog = tx.prog /\ tx'.call = tx.call
           Paging == tx'.page = tx.page
           Trying == tx'.tries = tx.tries
           As == tx'.as = tx.as
<1>2. /\ Calling => CallsLeft' = CallsLeft
      /\ Paging => PagesLeft' = PagesLeft
      /\ Trying => TriesLeft' = TriesLeft
  BY DEF CallsLeft, PagesLeft, TriesLeft
<1>3. CallsLeft' \in Nat /\ PagesLeft' \in Nat /\ TriesLeft' \in 0..(2 * Retries)
  <2>1. /\ tx'.prog \in {"read", "resolve", "review", "confirm"}
        /\ tx'.call \in DOMAIN Program[tx'.prog]
        /\ tx'.page \in 1..MaxPages /\ tx'.tries \in 0..Retries
    BY DEF TransportTyped, Tx
  <2>2. CallsLeft' \in Nat
    BY <2>1, CallsCount DEF CallsLeft
  <2>3. PagesLeft' \in Nat
    BY <2>1, PagesCount DEF PagesLeft
  <2>4. TriesLeft' \in 0..(2 * Retries)
    BY <2>1, LimitsAssumption DEF TriesLeft
  <2>5. QED BY <2>2, <2>3, <2>4
<1>4. ASSUME Calling, Paging, Trying, As,
             \/ tx.pc = "send" /\ tx'.pc \in {"answered", "stopped"}
             \/ tx.pc = "answered" /\ tx'.pc = "stopped"
      PROVE  StepsLeft' < StepsLeft
  BY <1>2, <1>4, StepsParts DEF StepsLeft
<1>5. ASSUME NEW answer \in Answers, Send(answer) PROVE StepsLeft' < StepsLeft
  BY <1>1, <1>4, <1>5 DEF Send, Tx
<1>6. CASE RetryRead
  <2>1. /\ Calling /\ Paging /\ As /\ tx'.tries = tx.tries + 1
        /\ tx.pc = "answered" /\ tx'.pc = "send"
    BY <1>1, <1>6 DEF RetryRead, Again, Answered, Tx
  <2>2. TriesLeft' = TriesLeft - 2
    BY <2>1, StepsParts DEF TriesLeft
  <2>3. QED BY <1>3, <1>2, <2>1, <2>2, StepsParts DEF StepsLeft
<1>7. CASE NextPage
  <2>1. /\ Calling /\ As /\ tx'.page = tx.page + 1 /\ tx.page \in 1..MaxPages
        /\ tx.pc = "answered" /\ tx'.pc = "send"
    BY <1>1, <1>7 DEF NextPage, Again, Answered, Tx
  <2>2. PagesLeft = PagesLeft' + PageSteps
    BY <2>1, PagesCount DEF PagesLeft
  <2>3. TriesLeft' <= 2 * Retries
    BY <1>3, StepsParts
  <2>4. QED BY <1>3, <1>2, <2>1, <2>2, <2>3, StepsParts DEF StepsLeft
<1>8. CASE NextCall
  <2>1. /\ tx'.prog = tx.prog /\ tx'.call = tx.call + 1 /\ As /\ tx'.page = 1
        /\ tx.pc = "answered" /\ tx'.pc = "send"
        /\ tx.prog \in {"read", "resolve", "review", "confirm"}
    BY <1>1, <1>8 DEF NextCall, Again, Answered, Tx
  <2>2. CallsLeft = CallsLeft' + CallSteps
    BY <1>1, <2>1, CallsCount DEF CallsLeft
  <2>3. PagesLeft' = CallSteps - PageSteps
    BY <2>1, StepsParts DEF PagesLeft
  <2>4. TriesLeft' <= 2 * Retries
    BY <1>3, StepsParts
  <2>5. QED BY <1>3, <2>1, <2>2, <2>3, <2>4, StepsParts DEF StepsLeft
<1>9. CASE Finish \/ NotListed
  BY <1>1, <1>4, <1>9 DEF Finish, NotListed, Stop, Answered, Tx
<1>10. CASE PostAsComment
  <2>1. /\ Calling /\ Paging /\ Trying /\ tx.as = "verdict" /\ tx'.as = "comment"
        /\ tx.pc = "answered" /\ tx'.pc = "send"
    BY <1>1, <1>10 DEF PostAsComment, Again, Answered, Tx, EitherInv
  <2>2. QED BY <1>3, <1>2, <2>1, StepsParts DEF StepsLeft
<1>11. CASE GiveUp /\ tx.prog # "review"
  BY <1>1, <1>4, <1>11 DEF GiveUp, Stop, Answered, Tx
<1>12. CASE GiveUp /\ tx.prog = "review"
  <2>1. /\ tx'.prog = "confirm" /\ tx'.call = 1 /\ As /\ tx'.page = 1
        /\ tx.pc = "answered" /\ tx'.pc = "send"
    BY <1>1, <1>12 DEF GiveUp, Again, Answered, Bounded, Tx
  <2>2. CallsLeft' = 3 * CallSteps
    BY <2>1, Calls DEF CallsLeft
  <2>3. PagesLeft' = CallSteps - PageSteps
    BY <2>1, StepsParts DEF PagesLeft
  <2>4. TriesLeft' <= 2 * Retries
    BY <1>3, StepsParts
  <2>5. QED BY <1>3, <1>12, <2>1, <2>2, <2>3, <2>4, StepsParts DEF StepsLeft
<1>13. QED
  BY <1>5, <1>6, <1>7, <1>8, <1>9, <1>10, <1>11, <1>12 DEF Command

\* A command makes boundedly many calls, whatever GitHub answers, on listings of
\* at most MaxPages pages: no failure is retried for ever, and the read-back of a
\* review that failed is not itself read back (_gh, _confirm_review).  That a
\* listing ends is GitHub's: _paged reads on until a page is short.
THEOREM TransportCallsBounded ==
    TransportSpec => [](StepsLeft \in Nat) /\ [][Command => StepsLeft' < StepsLeft]_txvars
<1>1. TransportInv => StepsLeft \in Nat
  BY StepsParts DEF TransportInv
<1>2. TransportInv /\ TransportInv' => (Command => StepsLeft' < StepsLeft)
  BY StepsFall DEF TransportInv
<1>3. QED BY <1>1, <1>2, TransportAlways, PTL DEF TransportSpec

-----------------------------------------------------------------------------
(* Candidate: success attests one instant, passed by the policy then, and  *)
(* comes after boundedly many steps, or not at all.                        *)

\* What has been seen of the sources, and what is: heads and descriptions only
\* advance, and nothing reopens.
Older(a, b) ==
    \A n \in Source : /\ a[n].head <= b[n].head /\ a[n].text <= b[n].text
                      /\ b[n].state = "open" => a[n].state = "open"

Reading == {"source", "policy", "landed"}
Verified == {"candidate", "final", "attested"}

CandTyped ==
    /\ TypeOK /\ batch.of # {} /\ att.batch.of # {}
    /\ att.pc \in Reading \cup {"final"} => att.todo # {} /\ att.todo \subseteq att.batch.of
    /\ att.pc \in {"main", "candidate"} => att.todo = att.batch.of
    /\ att.pc = "attested" => att.todo = {}

Ages ==
    /\ \A n \in Source : src[n].head <= moves /\ src[n].text <= moves
    /\ Older(truth, src) /\ Older(att.snap, src)
    /\ att.pc \in Verified => Older(att.snap, truth)
    /\ \A n \in Source : att.snap[n].state = "open"

\* A source is attested as it was at the second read of the lineage.
SameAt(n) ==
    /\ truth[n].state = "open"
    /\ truth[n].head = att.snap[n].head /\ truth[n].text = att.snap[n].text
InstantInv ==
    att.pc \in {"final", "attested"} => \A n \in att.batch.of \ att.todo : SameAt(n)

\* A source is passed by the policy in this attempt.
PassedAt(n) == <<att.attempt, n, att.snap[n].head>> \in passed
PolicyInv ==
    /\ att.pc \in Reading => \A n \in att.batch.of \ att.todo : PassedAt(n)
    /\ att.pc \in {"tree", "remain", "relineage"} \cup Verified =>
         \A n \in att.batch.of : PassedAt(n)

CandInv == CandTyped /\ Ages /\ InstantInv /\ PolicyInv

-----------------------------------------------------------------------------
\* Sources that are left to be read have a first one.
LEMMA FirstSource ==
    ASSUME NEW T, T \subseteq Nat, T # {}
    PROVE  \E n \in T : \A m \in T : n <= m
<1>1. PICK n \in T : \A m \in T : ~(<<m, n>> \in OpToRel(<, Nat))
  BY WFMin, NatLessThanWellFounded
<1>2. ASSUME NEW m \in T, m < n PROVE <<m, n>> \in OpToRel(<, Nat)
  BY <1>2 DEF OpToRel
<1>3. \A m \in T : ~(m < n)
  BY <1>1, <1>2
<1>4. QED
  BY <1>3

LEMMA NextIsLeft ==
    ASSUME CandTyped, att.pc \in Reading \cup {"final"}
    PROVE  /\ Next1 \in att.todo /\ Next1 \in att.batch.of /\ Next1 \in Source
           /\ src[Next1] \in PullReq /\ att.snap[Next1] \in PullReq
<1>1. att.todo # {} /\ att.todo \subseteq att.batch.of /\ att.todo \subseteq Source
  BY DEF CandTyped, TypeOK, Attestation
<1>2. att.todo \subseteq Nat
  BY <1>1, SourceAssumption
<1>3. Next1 \in att.todo
  BY <1>1, <1>2, FirstSource DEF Next1
<1>4. QED
  BY <1>1, <1>3 DEF CandTyped, TypeOK, Attestation

\* Only the place of the attestation changes.
LEMMA GoToOnly ==
    ASSUME att \in Attestation, NEW label \in Pc, GoTo(label)
    PROVE  /\ att' \in Attestation /\ att'.pc = label
           /\ att'.attempt = att.attempt /\ att'.batch = att.batch
           /\ att'.todo = att.todo /\ att'.snap = att.snap /\ att'.main = att.main
BY DEF GoTo, Attestation

\* A source is done.
LEMMA RestOnly ==
    ASSUME att \in Attestation, NEW again \in Pc, NEW past \in Pc, Rest(again, past)
    PROVE  /\ att' \in Attestation
           /\ att'.todo = att.todo \ {Next1}
           /\ att'.pc = IF att'.todo = {} THEN past ELSE again
           /\ att'.attempt = att.attempt /\ att'.batch = att.batch
           /\ att'.snap = att.snap /\ att'.main = att.main
BY DEF Rest, Go, Attestation

LEMMA CandTypedStep == CandTyped /\ [Next]_vars => CandTyped'
<1> SUFFICES ASSUME CandTyped, [Next]_vars PROVE CandTyped'
  OBVIOUS
<1>1. att \in Attestation /\ batch \in Batch /\ src \in [Source -> PullReq]
      /\ main \in Version /\ moves \in 0..MaxMoves /\ truth \in [Source -> PullReq]
      /\ passed \subseteq (1..Attempts) \X Source \X Version
  BY DEF CandTyped, TypeOK
<1> USE DEF Reading
<1>2. ASSUME UNCHANGED <<world, truth, passed>>, att' \in Attestation,
             att'.batch.of # {},
             att'.pc \in Reading \cup {"final"} => att'.todo # {} /\ att'.todo \subseteq att'.batch.of,
             att'.pc \in {"main", "candidate"} => att'.todo = att'.batch.of,
             att'.pc = "attested" => att'.todo = {}
      PROVE  CandTyped'
  BY <1>2 DEF CandTyped, TypeOK, world
<1>3. ASSUME NEW label \in Pc \ (Reading \cup {"final", "main", "candidate", "attested"}),
             GoTo(label), UNCHANGED <<world, truth, passed>>
      PROVE  CandTyped'
  BY <1>1, <1>2, <1>3, GoToOnly DEF CandTyped
<1>4. CASE ReadCandidate
  BY <1>3, <1>4 DEF ReadCandidate, Pc
<1>5. CASE ReadLineage
  BY <1>1, <1>2, <1>5 DEF ReadLineage, Go, Attestation, Pc, Batch, CandTyped
<1>6. CASE WaitForBatch
  BY <1>3, <1>6 DEF WaitForBatch, Pc
<1>7. CASE ReadMain
  BY <1>1, <1>2, <1>7 DEF ReadMain, Go, Attestation, Pc, At, CandTyped
<1>8. CASE ReadSource
  <2>1. At("source") /\ Next1 \in Source /\ src[Next1] \in PullReq
    BY <1>8, NextIsLeft DEF ReadSource, At
  <2>2. CASE GoTo("race") \/ GoTo("failed")
    BY <1>3, <1>8, <2>2 DEF ReadSource, Pc
  <2>3. CASE Go("policy", [att EXCEPT !.snap[Next1] = src[Next1]])
    <3>1. att'.snap \in [Source -> PullReq]
      BY <1>1, <2>1, <2>3 DEF Go, Attestation
    <3>2. att' \in Attestation /\ att'.pc = "policy" /\ att'.batch = att.batch
          /\ att'.todo = att.todo
      BY <1>1, <2>3, <3>1 DEF Go, Attestation, Pc
    <3>3. QED
      BY <1>2, <1>8, <2>1, <3>2 DEF ReadSource, At, CandTyped
  <2>4. QED
    BY <1>8, <2>2, <2>3 DEF ReadSource
<1>9. CASE Policy
  <2>1. At("policy") /\ Next1 \in Source /\ Next1 \in att.todo /\ src[Next1] \in PullReq
    BY <1>9, NextIsLeft DEF Policy, At
  <2>2. CASE UNCHANGED passed /\ GoTo("landed")
    <3>1. att' \in Attestation /\ att'.pc = "landed" /\ att'.batch = att.batch
          /\ att'.todo = att.todo
      BY <1>1, <2>2, GoToOnly DEF Pc
    <3>2. QED
      BY <1>2, <1>9, <2>1, <2>2, <3>1 DEF Policy, At, CandTyped
  <2>3. ASSUME NEW past \in {"tree", "relineage"}, Rest("source", past),
               passed' = passed \cup {<<att.attempt, Next1, src[Next1].head>>}
        PROVE  CandTyped'
    <3>1. att' \in Attestation /\ att'.todo = att.todo \ {Next1} /\ att'.batch = att.batch
          /\ att'.pc = IF att'.todo = {} THEN past ELSE "source"
      BY <1>1, <2>3, RestOnly DEF Pc
    <3>2. <<att.attempt, Next1, src[Next1].head>> \in (1..Attempts) \X Source \X Version
      BY <1>1, <2>1 DEF Attestation, PullReq
    <3>3. passed' \subseteq (1..Attempts) \X Source \X Version
      BY <1>1, <2>3, <3>2
    <3>4. att'.pc \in Reading => att'.todo # {} /\ att'.todo \subseteq att'.batch.of
      BY <2>1, <3>1 DEF CandTyped, At
    <3>5. UNCHANGED <<src, batch, cand, main, moves, truth>>
      BY <1>9 DEF Policy, world
    <3>6. att'.pc \notin {"final", "main", "candidate", "attested"}
      BY <3>1
    <3>7. QED
      BY <3>1, <3>3, <3>4, <3>5, <3>6 DEF CandTyped, TypeOK
  <2>4. QED
    BY <1>9, <2>2, <2>3 DEF Policy
<1>10. CASE ReadLanded
  BY <1>3, <1>10 DEF ReadLanded, Pc
<1>11. CASE VerifyTree
  BY <1>3, <1>11 DEF VerifyTree, Pc
<1>12. CASE ReadMainAgain
  BY <1>3, <1>12 DEF ReadMainAgain, Pc
<1>13. CASE ReadLineageAgain
  <2>1. att' \in Attestation /\ att'.todo = batch.of /\ att'.batch = att.batch
        /\ att'.pc = IF batch = att.batch THEN "candidate" ELSE "race"
    BY <1>1, <1>13 DEF ReadLineageAgain, Go, Attestation, Pc, Batch
  <2>2. UNCHANGED <<src, batch, cand, main, moves, passed>> /\ truth' = src
    BY <1>13 DEF ReadLineageAgain, world
  <2>3. QED
    BY <1>1, <2>1, <2>2 DEF CandTyped, TypeOK
<1>14. CASE ReadCandidateAgain
  <2>1. CASE GoTo("failed")
    BY <1>3, <1>14, <2>1 DEF ReadCandidateAgain, Pc
  <2>2. CASE GoTo("final")
    <3>1. att' \in Attestation /\ att'.pc = "final" /\ att'.batch = att.batch
          /\ att'.todo = att.todo
      BY <1>1, <2>2, GoToOnly DEF Pc
    <3>2. QED
      BY <1>2, <1>14, <3>1 DEF ReadCandidateAgain, At, CandTyped
  <2>3. QED
    BY <1>14, <2>1, <2>2 DEF ReadCandidateAgain
<1>15. CASE Final
  <2>1. CASE GoTo("failed") \/ GoTo("race")
    BY <1>3, <1>15, <2>1 DEF Final, Pc
  <2>2. CASE Rest("final", "attested")
    <3>1. att' \in Attestation /\ att'.todo = att.todo \ {Next1} /\ att'.batch = att.batch
          /\ att'.pc = IF att'.todo = {} THEN "attested" ELSE "final"
      BY <1>1, <2>2, RestOnly DEF Pc
    <3>2. QED
      BY <1>2, <1>15, <3>1 DEF Final, At, CandTyped
  <2>3. QED
    BY <1>15, <2>1, <2>2 DEF Final
<1>16. CASE Retry
  <2>1. CASE GoTo("failed")
    BY <1>3, <1>16, <2>1 DEF Retry, Pc
  <2>2. CASE att.attempt # Attempts
             /\ Go("identity", [att EXCEPT !.attempt = @ + 1, !.todo = {}])
    <3>1. att.attempt + 1 \in 1..Attempts
      BY <1>1, <2>2 DEF Attestation, Attempts
    <3>2. att' \in Attestation /\ att'.pc = "identity" /\ att'.batch = att.batch
      BY <1>1, <2>2, <3>1 DEF Go, Attestation, Pc
    <3>3. QED
      BY <1>2, <1>16, <3>2 DEF Retry, CandTyped
  <2>3. QED
    BY <1>16, <2>1, <2>2 DEF Retry
<1>17. CASE Fail
  BY <1>3, <1>17 DEF Fail, Pc
<1>18. CASE WindowCloses \/ BatchDeadline
  BY <1>1, <1>2, <1>18 DEF WindowCloses, BatchDeadline, Attestation, CandTyped
<1>19. ASSUME NEW n \in Source, TouchSource(n) \/ LandSource(n) PROVE CandTyped'
  <2>1. moves' \in 0..MaxMoves /\ moves + 1 \in Version /\ UNCHANGED <<att, truth, passed, batch, cand>>
    BY <1>1, <1>19, MovesAssumption DEF TouchSource, LandSource, Move, Version
  <2>2. main' \in Version
    BY <1>1, <1>19, <2>1 DEF TouchSource, LandSource
  <2>3. src' \in [Source -> PullReq]
    <3>1. src[n] \in PullReq
      BY <1>1
    <3>2. PICK p \in PullReq : src' = [src EXCEPT ![n] = p]
      <4>1. CASE src' = [src EXCEPT ![n].head = moves + 1, ![n].eligible = FALSE]
        <5>1. [src[n] EXCEPT !.head = moves + 1, !.eligible = FALSE] \in PullReq
          BY <2>1, <3>1 DEF PullReq
        <5>2. QED
          BY <1>1, <4>1, <5>1
      <4>2. CASE src' = [src EXCEPT ![n].text = moves + 1]
        BY <2>1, <3>1, <4>2 DEF PullReq
      <4>3. CASE src' = [src EXCEPT ![n].eligible = ~@]
        BY <3>1, <4>3 DEF PullReq
      <4>4. CASE src' = [src EXCEPT ![n].state = "closed"] \/ src' = [src EXCEPT ![n].state = "merged"]
        BY <3>1, <4>4 DEF PullReq
      <4>5. QED
        BY <1>19, <4>1, <4>2, <4>3, <4>4 DEF TouchSource, LandSource
    <3>3. QED
      BY <1>1, <3>2
  <2>4. QED
    BY <2>1, <2>2, <2>3 DEF CandTyped, TypeOK
<1>20. CASE MoveMain \/ Rebuild \/ Supersede
  <2>1. moves' \in 0..MaxMoves /\ moves + 1 \in Version /\ UNCHANGED <<att, truth, passed, src>>
    BY <1>1, <1>20, MovesAssumption DEF MoveMain, Rebuild, Supersede, Move, Version
  <2>2. main' \in Version /\ cand' \in [open : BOOLEAN, current : BOOLEAN]
    <3>1. cand \in [open : BOOLEAN, current : BOOLEAN]
      BY DEF CandTyped, TypeOK
    <3>2. CASE MoveMain \/ Rebuild
      BY <1>1, <2>1, <3>1, <3>2 DEF MoveMain, Rebuild
    <3>3. CASE Supersede
      BY <1>1, <3>1, <3>3 DEF Supersede
    <3>4. QED
      BY <1>20, <3>2, <3>3
  <2>3. batch' \in Batch /\ batch'.of # {}
    <3>1. CASE Rebuild
      <4>1. CASE batch' = [batch EXCEPT !.live = FALSE] \/ batch' = [batch EXCEPT !.live = TRUE]
                 \/ batch' = [batch EXCEPT !.orphan = TRUE]
        BY <1>1, <4>1 DEF Batch, CandTyped
      <4>2. ASSUME NEW of \in (SUBSET Source) \ {{}}, NEW orphan \in BOOLEAN,
                   batch' = [id |-> moves + 1, of |-> of, live |-> TRUE, orphan |-> orphan]
            PROVE  batch' \in Batch /\ batch'.of # {}
        BY <2>1, <4>2 DEF Batch
      <4>3. QED
        BY <3>1, <4>1, <4>2 DEF Rebuild
    <3>2. CASE MoveMain \/ Supersede
      BY <1>1, <3>2 DEF MoveMain, Supersede, CandTyped
    <3>3. QED
      BY <1>20, <3>1, <3>2
  <2>4. QED
    BY <2>1, <2>2, <2>3 DEF CandTyped, TypeOK
<1>21. CASE UNCHANGED vars
  BY <1>21 DEF vars, world, CandTyped, TypeOK
<1>22. QED
  BY <1>4, <1>5, <1>6, <1>7, <1>8, <1>9, <1>10, <1>11, <1>12, <1>13, <1>14, <1>15,
     <1>16, <1>17, <1>18, <1>19, <1>20, <1>21 DEF Next, Continue, Outside

\* The steps that read no source and no lineage again keep what was read, and
\* prove nothing: they go on, start an attempt's reading, or end it.
Quiet ==
    /\ UNCHANGED <<world, truth, passed>> /\ att'.snap = att.snap
    /\ \/ UNCHANGED <<att.pc, att.batch, att.todo, att.attempt>>
       \/ att'.pc \in {"identity", "lineage", "main", "race", "failed"}
       \/ att'.pc = "source" /\ att'.todo = att'.batch.of
       \/ /\ att.pc \in {"tree", "remain"} /\ att'.pc \in {"remain", "relineage"}
          /\ UNCHANGED <<att.batch, att.todo, att.attempt>>

LEMMA QuietSteps ==
    ASSUME CandTyped,
           \/ ReadCandidate \/ ReadLineage \/ WaitForBatch \/ ReadMain \/ ReadLanded
           \/ VerifyTree \/ ReadMainAgain \/ Retry \/ Fail \/ WindowCloses \/ BatchDeadline
    PROVE  Quiet
<1>1. att \in Attestation
  BY DEF CandTyped, TypeOK
<1>2. CASE ReadCandidate \/ WaitForBatch \/ ReadLanded \/ Fail
  <2>1. PICK label \in {"lineage", "race", "failed"} :
          GoTo(label) /\ UNCHANGED <<world, truth, passed>>
    BY <1>2 DEF ReadCandidate, WaitForBatch, ReadLanded, Fail
  <2>2. QED
    BY <1>1, <2>1, GoToOnly DEF Quiet, Pc
<1>3. CASE VerifyTree \/ ReadMainAgain
  <2>1. PICK label \in {"remain", "relineage", "race", "failed"} :
          GoTo(label) /\ UNCHANGED <<world, truth, passed>>
    BY <1>3 DEF VerifyTree, ReadMainAgain
  <2>2. att.pc \in {"tree", "remain"}
    BY <1>3 DEF VerifyTree, ReadMainAgain, At
  <2>3. QED
    BY <1>1, <2>1, <2>2, GoToOnly DEF Quiet, Pc
<1>4. CASE ReadLineage
  BY <1>1, <1>4 DEF ReadLineage, Go, Attestation, Quiet
<1>5. CASE ReadMain
  BY <1>1, <1>5 DEF ReadMain, At, Go, Attestation, Quiet, CandTyped
<1>6. CASE Retry
  <2>1. CASE GoTo("failed")
    BY <1>1, <1>6, <2>1, GoToOnly DEF Retry, Quiet, Pc
  <2>2. CASE Go("identity", [att EXCEPT !.attempt = @ + 1, !.todo = {}])
    BY <1>1, <1>6, <2>2 DEF Retry, Go, Attestation, Quiet
  <2>3. QED
    BY <1>6, <2>1, <2>2 DEF Retry
<1>7. CASE WindowCloses \/ BatchDeadline
  BY <1>1, <1>7 DEF WindowCloses, BatchDeadline, Attestation, Quiet
<1>8. QED
  BY <1>2, <1>3, <1>4, <1>5, <1>6, <1>7

\* Heads and descriptions have no way back.
LEMMA AgesStep == CandTyped /\ Ages /\ [Next]_vars => Ages'
<1> SUFFICES ASSUME CandTyped, Ages, [Next]_vars PROVE Ages'
  OBVIOUS
<1>1. att \in Attestation /\ src \in [Source -> PullReq] /\ truth \in [Source -> PullReq]
      /\ moves \in Nat
  BY MovesAssumption DEF CandTyped, TypeOK
<1>2. CASE Quiet
  BY <1>2 DEF Quiet, world, Ages, Older, Verified
<1>3. CASE ReadSource
  <2>1. CASE GoTo("race") \/ GoTo("failed")
    BY <1>1, <1>3, <2>1, GoToOnly DEF ReadSource, world, Ages, Older, Verified, Pc
  <2>2. CASE src[Next1].state = "open" /\ Go("policy", [att EXCEPT !.snap[Next1] = src[Next1]])
    <3>1. \A n \in Source : att'.snap[n] = IF n = Next1 THEN src[n] ELSE att.snap[n]
      BY <1>1, <2>2 DEF Go, Attestation
    <3>2. att'.pc = "policy" /\ UNCHANGED <<src, truth, moves>>
      BY <1>1, <1>3, <2>2 DEF Go, Attestation, ReadSource, world
    <3>3. Older(att'.snap, src)
      BY <1>1, <3>1 DEF Ages, Older, PullReq, Version
    <3>4. \A n \in Source : att'.snap[n].state = "open"
      BY <2>2, <3>1 DEF Ages
    <3>5. QED
      BY <3>2, <3>3, <3>4 DEF Ages, Older, Verified
  <2>3. QED
    BY <1>3, <2>1, <2>2 DEF ReadSource
<1>4. CASE Policy
  <2>1. att'.pc \notin Verified /\ att'.snap = att.snap
    <3>1. CASE GoTo("landed")
      BY <1>1, <3>1, GoToOnly DEF Pc, Verified
    <3>2. ASSUME NEW past \in {"tree", "relineage"}, Rest("source", past)
          PROVE  att'.pc \notin Verified /\ att'.snap = att.snap
      BY <1>1, <3>2, RestOnly DEF Pc, Verified
    <3>3. QED
      BY <1>4, <3>1, <3>2 DEF Policy
  <2>2. QED
    BY <1>4, <2>1 DEF Policy, world, Ages, Older
<1>5. CASE ReadLineageAgain
  <2>1. att'.snap = att.snap /\ truth' = src /\ UNCHANGED <<src, moves>>
    BY <1>1, <1>5 DEF ReadLineageAgain, Go, Attestation, world
  <2>2. Older(src, src)
    BY <1>1 DEF Older, PullReq, Version
  <2>3. QED
    BY <2>1, <2>2 DEF Ages, Older
<1>6. CASE ReadCandidateAgain \/ Final
  <2>1. att.pc \in Verified /\ UNCHANGED <<src, truth, moves>>
    BY <1>6 DEF ReadCandidateAgain, Final, At, Verified, world
  <2>2. att'.snap = att.snap
    <3>1. CASE GoTo("failed") \/ GoTo("race") \/ GoTo("final")
      BY <1>1, <3>1, GoToOnly DEF Pc
    <3>2. CASE Rest("final", "attested")
      BY <1>1, <3>2, RestOnly DEF Pc
    <3>3. QED
      BY <1>6, <3>1, <3>2 DEF ReadCandidateAgain, Final
  <2>3. QED
    BY <2>1, <2>2 DEF Ages, Older
<1>7. ASSUME NEW n \in Source, TouchSource(n) \/ LandSource(n) PROVE Ages'
  <2>1. UNCHANGED <<att, truth>> /\ moves' = moves + 1
    BY <1>7 DEF TouchSource, LandSource, Move
  <2>2. src[n] \in PullReq /\ src[n].head <= moves /\ src[n].text <= moves
    BY <1>1 DEF Ages
  <2>3. \A m \in Source \ {n} : src'[m] = src[m]
    BY <1>1, <1>7 DEF TouchSource, LandSource
  <2>4. /\ src'[n].head \in {src[n].head, moves + 1} /\ src'[n].text \in {src[n].text, moves + 1}
        /\ src[n].state = "open"
    <3>1. CASE src' = [src EXCEPT ![n].head = moves + 1, ![n].eligible = FALSE]
      BY <1>1, <1>7, <2>2, <3>1 DEF PullReq, TouchSource, LandSource
    <3>2. CASE src' = [src EXCEPT ![n].text = moves + 1]
      BY <1>1, <1>7, <2>2, <3>2 DEF PullReq, TouchSource, LandSource
    <3>3. CASE src' = [src EXCEPT ![n].eligible = ~@]
      BY <1>1, <1>7, <2>2, <3>3 DEF PullReq, TouchSource, LandSource
    <3>4. CASE \E state \in {"closed", "merged"} : src' = [src EXCEPT ![n].state = state]
      BY <1>1, <1>7, <2>2, <3>4 DEF PullReq, TouchSource, LandSource
    <3>5. QED
      BY <1>7, <3>1, <3>2, <3>3, <3>4 DEF TouchSource, LandSource
  <2>5. src[n].head \in Nat /\ src[n].text \in Nat /\ src'[n].head \in Nat /\ src'[n].text \in Nat
        /\ src[n].head <= src'[n].head /\ src[n].text <= src'[n].text
        /\ src'[n].head <= moves + 1 /\ src'[n].text <= moves + 1
    BY <1>1, <2>2, <2>4 DEF PullReq, Version
  <2>6. ASSUME NEW old \in [Source -> PullReq], Older(old, src) PROVE Older(old, src')
    <3>1. old[n].state = "open" /\ old[n].head \in Nat /\ old[n].text \in Nat
          /\ old[n].head <= src[n].head /\ old[n].text <= src[n].text
      BY <2>4, <2>6 DEF Older, PullReq, Version
    <3>2. old[n].head <= src'[n].head /\ old[n].text <= src'[n].text
      BY <2>5, <3>1
    <3>3. QED
      BY <2>3, <2>6, <3>1, <3>2 DEF Older
  <2>7. \A m \in Source : src'[m].head <= moves' /\ src'[m].text <= moves'
    BY <1>1, <2>1, <2>3, <2>5 DEF Ages, PullReq, Version
  <2>8. att.snap \in [Source -> PullReq]
    BY <1>1 DEF Attestation
  <2>9. Older(truth, src') /\ Older(att.snap, src')
    <3>1. PICK old \in [Source -> PullReq] : old = truth
      BY <1>1
    <3>2. PICK snap \in [Source -> PullReq] : snap = att.snap
      BY <2>8
    <3>3. QED
      BY <2>6, <3>1, <3>2 DEF Ages
  <2>10. QED
    BY <2>1, <2>7, <2>9 DEF Ages, Older
<1>8. CASE MoveMain \/ Rebuild \/ Supersede
  <2>1. UNCHANGED <<att, truth, src>> /\ moves' = moves + 1
    BY <1>8 DEF MoveMain, Rebuild, Supersede, Move
  <2>2. \A n \in Source : src[n].head <= moves + 1 /\ src[n].text <= moves + 1
    BY <1>1 DEF Ages, PullReq, Version
  <2>3. QED
    BY <2>1, <2>2 DEF Ages, Older
<1>9. CASE UNCHANGED vars
  BY <1>9 DEF vars, world, Ages, Older
<1>10. QED
  BY <1>2, <1>3, <1>4, <1>5, <1>6, <1>7, <1>8, <1>9, QuietSteps DEF Next, Continue, Outside

\* What GitHub, people and Mergify do leaves the attestation alone.
LEMMA OutsideAlone ==
    ASSUME Outside \/ UNCHANGED vars
    PROVE  UNCHANGED <<att, truth, passed>>
BY DEF Outside, TouchSource, LandSource, MoveMain, Rebuild, Supersede, Move, vars

\* The last read of a source equals the first only if nothing was in between.
LEMMA InstantStep == CandTyped /\ Ages /\ InstantInv /\ [Next]_vars => InstantInv'
<1> SUFFICES ASSUME CandTyped, Ages, InstantInv, [Next]_vars PROVE InstantInv'
  OBVIOUS
<1>1. att \in Attestation /\ src \in [Source -> PullReq] /\ truth \in [Source -> PullReq]
      /\ att.snap \in [Source -> PullReq] /\ att.batch.of \subseteq Source
  BY DEF CandTyped, TypeOK, Attestation, Batch
<1>2. CASE Quiet
  BY <1>2 DEF Quiet, InstantInv, SameAt
<1>3. CASE ReadSource \/ Policy \/ ReadLineageAgain
  <2>1. att'.pc \notin {"final", "attested"}
    <3>1. ASSUME NEW label \in {"race", "failed", "landed"}, GoTo(label)
          PROVE  att'.pc \notin {"final", "attested"}
      BY <1>1, <3>1, GoToOnly DEF Pc
    <3>2. ASSUME NEW past \in {"tree", "relineage"}, Rest("source", past)
          PROVE  att'.pc \notin {"final", "attested"}
      BY <1>1, <3>2, RestOnly DEF Pc
    <3>3. CASE ReadSource
      BY <1>1, <3>1, <3>3 DEF ReadSource, Go, Attestation
    <3>4. CASE Policy
      BY <3>1, <3>2, <3>4 DEF Policy
    <3>5. CASE ReadLineageAgain
      BY <1>1, <3>5 DEF ReadLineageAgain, Go, Attestation
    <3>6. QED
      BY <1>3, <3>3, <3>4, <3>5
  <2>2. QED
    BY <2>1 DEF InstantInv
<1>4. CASE ReadCandidateAgain
  <2>1. CASE GoTo("failed")
    BY <1>1, <2>1, GoToOnly DEF InstantInv, Pc
  <2>2. CASE GoTo("final")
    <3>1. att'.todo = att'.batch.of
      BY <1>1, <1>4, <2>2, GoToOnly DEF ReadCandidateAgain, At, CandTyped, Pc
    <3>2. QED
      BY <3>1 DEF InstantInv
  <2>3. QED
    BY <1>4, <2>1, <2>2 DEF ReadCandidateAgain
<1>5. CASE Final
  <2>1. att.pc = "final" /\ UNCHANGED truth /\ Next1 \in Source
    BY <1>5, NextIsLeft DEF Final, At
  <2>2. CASE GoTo("failed") \/ GoTo("race")
    BY <1>1, <2>2, GoToOnly DEF InstantInv, Pc
  <2>3. CASE /\ src[Next1].head = att.snap[Next1].head /\ src[Next1].text = att.snap[Next1].text
             /\ src[Next1].state = att.snap[Next1].state
             /\ Rest("final", "attested")
    <3>1. att'.todo = att.todo \ {Next1} /\ att'.batch = att.batch /\ att'.snap = att.snap
      BY <1>1, <2>3, RestOnly DEF Pc
    <3>2. SameAt(Next1)
      <4>1. Older(att.snap, truth) /\ Older(truth, src) /\ att.snap[Next1].state = "open"
        BY <2>1 DEF Ages, Verified
      <4>2. /\ att.snap[Next1].head <= truth[Next1].head /\ truth[Next1].head <= src[Next1].head
            /\ att.snap[Next1].text <= truth[Next1].text /\ truth[Next1].text <= src[Next1].text
            /\ src[Next1].state = "open" => truth[Next1].state = "open"
        BY <2>1, <4>1 DEF Older
      <4>3. \A p \in PullReq : p.head \in Nat /\ p.text \in Nat
        BY DEF PullReq, Version
      <4>4. src[Next1] \in PullReq /\ truth[Next1] \in PullReq /\ att.snap[Next1] \in PullReq
        BY <1>1, <2>1
      <4>5. QED
        BY <2>3, <4>1, <4>2, <4>3, <4>4 DEF SameAt
    <3>3. \A n \in att.batch.of \ att.todo : SameAt(n)
      BY <2>1 DEF InstantInv
    <3>4. \A n \in att'.batch.of \ att'.todo : SameAt(n)
      BY <3>1, <3>2, <3>3
    <3>5. QED
      BY <2>1, <3>1, <3>4 DEF InstantInv, SameAt
  <2>4. QED
    BY <1>5, <2>2, <2>3 DEF Final
<1>6. CASE Outside \/ UNCHANGED vars
  BY <1>6, OutsideAlone DEF InstantInv, SameAt
<1>7. QED
  BY <1>2, <1>3, <1>4, <1>5, <1>6, QuietSteps DEF Next, Continue

\* A new attempt starts with no verdict of an earlier one.
LEMMA PolicyStep == CandTyped /\ PolicyInv /\ [Next]_vars => PolicyInv'
<1> SUFFICES ASSUME CandTyped, PolicyInv, [Next]_vars PROVE PolicyInv'
  OBVIOUS
<1>1. att \in Attestation /\ att.snap \in [Source -> PullReq]
  BY DEF CandTyped, TypeOK, Attestation
<1>2. CASE Quiet
  BY <1>2 DEF Quiet, PolicyInv, PassedAt, Reading, Verified
<1>3. CASE ReadSource
  <2>1. att.pc = "source" /\ UNCHANGED passed /\ Next1 \in att.todo
    BY <1>3, NextIsLeft DEF ReadSource, At, Reading
  <2>2. CASE GoTo("race") \/ GoTo("failed")
    BY <1>1, <2>2, GoToOnly DEF PolicyInv, Reading, Verified, Pc
  <2>3. CASE Go("policy", [att EXCEPT !.snap[Next1] = src[Next1]])
    <3>1. /\ att'.pc = "policy" /\ att'.batch = att.batch /\ att'.todo = att.todo
          /\ att'.attempt = att.attempt
          /\ \A n \in Source \ {Next1} : att'.snap[n] = att.snap[n]
      BY <1>1, <2>3 DEF Go, Attestation
    <3>2. att.batch.of \ att.todo \subseteq Source \ {Next1}
      BY <1>1, <2>1 DEF Attestation, Batch
    <3>3. QED
      BY <2>1, <3>1, <3>2 DEF PolicyInv, PassedAt, Reading, Verified
  <2>4. QED
    BY <1>3, <2>2, <2>3 DEF ReadSource
<1>4. CASE Policy
  <2>1. att.pc = "policy" /\ Next1 \in att.todo /\ att.todo \subseteq att.batch.of
    BY <1>4, NextIsLeft DEF Policy, At, Reading, CandTyped
  <2>2. CASE GoTo("landed") /\ UNCHANGED passed
    BY <1>1, <2>1, <2>2, GoToOnly DEF PolicyInv, PassedAt, Reading, Verified, Pc
  <2>3. ASSUME NEW past \in {"tree", "relineage"}, Rest("source", past),
               passed' = passed \cup {<<att.attempt, Next1, src[Next1].head>>},
               src[Next1].head = att.snap[Next1].head
        PROVE  PolicyInv'
    <3>1. /\ att'.todo = att.todo \ {Next1} /\ att'.batch = att.batch /\ att'.snap = att.snap
          /\ att'.attempt = att.attempt
          /\ att'.pc = IF att'.todo = {} THEN past ELSE "source"
      BY <1>1, <2>3, RestOnly DEF Pc
    <3>2. \A n \in att'.batch.of \ att'.todo : PassedAt(n)'
      BY <2>1, <2>3, <3>1 DEF PolicyInv, PassedAt, Reading
    <3>3. QED
      BY <3>1, <3>2 DEF PolicyInv, Reading, Verified
  <2>4. QED
    BY <1>4, <2>2, <2>3 DEF Policy
<1>5. CASE ReadLineageAgain
  <2>1. att'.pc \in {"candidate", "race"} /\ UNCHANGED passed /\ att.pc = "relineage"
        /\ att'.batch = att.batch /\ att'.snap = att.snap /\ att'.attempt = att.attempt
    BY <1>1, <1>5 DEF ReadLineageAgain, At, Go, Attestation
  <2>2. QED
    BY <2>1 DEF PolicyInv, PassedAt, Reading, Verified
<1>6. CASE ReadCandidateAgain \/ Final
  <2>1. att.pc \in Verified /\ UNCHANGED passed
    BY <1>6 DEF ReadCandidateAgain, Final, At, Verified
  <2>2. /\ att'.pc \in {"failed", "race", "final", "attested"} /\ att'.snap = att.snap
        /\ att'.batch = att.batch /\ att'.attempt = att.attempt
    <3>1. ASSUME NEW label \in {"failed", "race", "final"}, GoTo(label)
          PROVE  /\ att'.pc = label /\ att'.snap = att.snap
                 /\ att'.batch = att.batch /\ att'.attempt = att.attempt
      BY <1>1, <3>1, GoToOnly DEF Pc
    <3>2. ASSUME Rest("final", "attested")
          PROVE  /\ att'.pc \in {"final", "attested"} /\ att'.snap = att.snap
                 /\ att'.batch = att.batch /\ att'.attempt = att.attempt
      BY <1>1, <3>2, RestOnly DEF Pc
    <3>3. QED
      BY <1>6, <3>1, <3>2 DEF ReadCandidateAgain, Final
  <2>3. QED
    BY <2>1, <2>2 DEF PolicyInv, PassedAt, Reading, Verified
<1>7. CASE Outside \/ UNCHANGED vars
  BY <1>7, OutsideAlone DEF PolicyInv, PassedAt
<1>8. QED
  BY <1>2, <1>3, <1>4, <1>5, <1>6, <1>7, QuietSteps DEF Next, Continue

\* An attestation begins with what is true.
LEMMA CandInitial == Init => CandInv
<1> SUFFICES ASSUME Init PROVE CandInv
  OBVIOUS
<1>1. 0 \in Version /\ moves \in 0..MaxMoves
  BY MovesAssumption DEF Version, Init
<1>2. src \in [Source -> PullReq]
  BY <1>1 DEF Init, PullReq
<1>3. att \in Attestation
  BY <1>1, <1>2 DEF Init, Attestation, Pc, Attempts
<1>4. CandTyped
  BY <1>1, <1>2, <1>3 DEF CandTyped, TypeOK, Init, Reading
<1>5. Ages
  BY DEF Ages, Older, Init, Verified
<1>6. InstantInv /\ PolicyInv
  BY DEF InstantInv, PolicyInv, Init, Reading, Verified
<1>7. QED
  BY <1>4, <1>5, <1>6 DEF CandInv

LEMMA CandAlways == Spec => []CandInv
<1>1. CandInv /\ [Next]_vars => CandInv'
  BY CandTypedStep, AgesStep, InstantStep, PolicyStep DEF CandInv
<1>2. QED
  BY <1>1, CandInitial, PTL DEF Spec

\* Every reachable state of an attestation has its type (attest_candidate).
THEOREM CandidateTypeCorrect == Spec => []TypeOK
<1>1. CandInv => TypeOK
  BY DEF CandInv, CandTyped
<1>2. QED
  BY <1>1, CandAlways, PTL

\* Success attests one instant: at the second read of the lineage every source
\* of the batch was open, with the head and description attested, whatever was
\* pushed, edited or landed between its reads (_attest_candidate_once).
THEOREM CandidateAttestedInstant == Spec => []AttestedInstant
<1>1. CandInv => AttestedInstant
  BY DEF CandInv, CandTyped, InstantInv, SameAt, AttestedInstant, At
<1>2. QED
  BY <1>1, CandAlways, PTL

\* No verdict of an earlier attempt counts: every source of the batch passed the
\* policy at the attested head in the attempt that succeeds (attest_candidate).
THEOREM CandidateAttestedPolicy == Spec => []AttestedPolicy
<1>1. CandInv => AttestedPolicy
  BY DEF CandInv, PolicyInv, PassedAt, Verified, AttestedPolicy, At
<1>2. QED
  BY <1>1, CandAlways, PTL

\* Steps left of an attempt: `left` sources are still to be read in this pass.
\* Each source takes two in the first pass, its own and the policy's, and one in
\* the last.
Sources == Cardinality(Source)
Whole == 3 * Sources + 9
Place(pc, left) ==
    CASE pc = "identity"  -> Whole
      [] pc = "lineage"   -> Whole - 1
      [] pc = "main"      -> Whole - 2
      [] pc = "source"    -> Sources + 6 + 2 * left
      [] pc = "policy"    -> Sources + 5 + 2 * left
      [] pc = "landed"    -> Sources + 6
      [] pc = "tree"      -> Sources + 5
      [] pc = "remain"    -> Sources + 4
      [] pc = "relineage" -> Sources + 3
      [] pc = "candidate" -> Sources + 2
      [] pc = "final"     -> 1 + left
      [] pc = "race"      -> 1
      [] OTHER            -> 0
AttemptsLeft ==
    (Attempts - att.attempt) * Whole + Place(att.pc, Cardinality(att.todo))

\* The places, one after the other.
LEMMA Places ==
    ASSUME NEW left \in Nat
    PROVE  /\ Place("identity", left) = Whole
           /\ Place("lineage", left) = Whole - 1
           /\ Place("main", left) = Whole - 2
           /\ Place("source", left) = Sources + 6 + 2 * left
           /\ Place("policy", left) = Sources + 5 + 2 * left
           /\ Place("landed", left) = Sources + 6
           /\ Place("tree", left) = Sources + 5
           /\ Place("remain", left) = Sources + 4
           /\ Place("relineage", left) = Sources + 3
           /\ Place("candidate", left) = Sources + 2
           /\ Place("final", left) = 1 + left
           /\ Place("race", left) = 1
           /\ Place("attested", left) = 0
           /\ Place("failed", left) = 0
BY DEF Place

\* Some of the sources are left; one fewer when the next has been read.
LEMMA SourcesLeft ==
    ASSUME NEW T, T \subseteq Source
    PROVE  /\ Sources \in Nat /\ Cardinality(T) \in Nat /\ Cardinality(T) <= Sources
           /\ T # {} => Cardinality(T) >= 1
           /\ \A n \in T : Cardinality(T \ {n}) = Cardinality(T) - 1
<1>1. IsFiniteSet(T) /\ Cardinality(T) <= Cardinality(Source)
  BY SourceAssumption, FS_Subset
<1>2. Cardinality(T) \in Nat /\ Cardinality(Source) \in Nat
  BY <1>1, SourceAssumption, FS_CardinalityType
<1>3. T # {} => Cardinality(T) >= 1
  BY <1>1, <1>2, FS_EmptySet
<1>4. \A n \in T : Cardinality(T \ {n}) = Cardinality(T) - 1
  BY <1>1, FS_RemoveElement
<1>5. QED BY <1>1, <1>2, <1>3, <1>4 DEF Sources

LEMMA PlaceType ==
    ASSUME NEW pc \in Pc, NEW left \in Nat
    PROVE  Place(pc, left) \in Nat /\ Whole \in Nat
<1>1. PICK n \in Nat : n = Sources
  BY SourcesLeft
<1>2. Whole \in Nat /\ Whole - 1 \in Nat /\ Whole - 2 \in Nat
  BY <1>1 DEF Whole
<1>3. QED BY <1>1, <1>2, Places DEF Pc

\* A natural number of steps is left.
LEMMA AttemptsCount == CandTyped => AttemptsLeft \in Nat
<1> SUFFICES ASSUME CandTyped PROVE AttemptsLeft \in Nat
  OBVIOUS
<1>1. att.todo \subseteq Source /\ att.attempt \in 1..3 /\ att.pc \in Pc
  BY DEF CandTyped, TypeOK, Attestation, Attempts
<1>2. Place(att.pc, Cardinality(att.todo)) \in Nat /\ Whole \in Nat
  BY <1>1, SourcesLeft, PlaceType
<1>3. (3 - att.attempt) * Whole \in Nat
  <2>1. att.attempt = 1 \/ att.attempt = 2 \/ att.attempt = 3
    BY <1>1
  <2>2. QED BY <1>2, <2>1
<1>4. QED BY <1>2, <1>3 DEF AttemptsLeft, Attempts

\* Each step of an attempt leaves fewer, and so does the next attempt.
LEMMA AttemptsFall ==
    ASSUME CandTyped, CandTyped', Continue
    PROVE  AttemptsLeft' < AttemptsLeft
<1>1. att \in Attestation /\ att' \in Attestation
  BY DEF CandTyped, TypeOK
<1>2. PICK n \in Nat, left \in Nat, rest \in Nat :
        n = Sources /\ left = Cardinality(att.todo) /\ rest = Cardinality(att'.todo)
  BY <1>1, SourcesLeft DEF Attestation
<1>3. left <= n /\ rest <= n
  BY <1>1, <1>2, SourcesLeft DEF Attestation
<1>4. Whole = 3 * n + 9
  BY <1>2 DEF Whole
<1>5. att.pc \in Reading \cup {"final"} => left >= 1
  BY <1>1, <1>2, SourcesLeft DEF CandTyped, Attestation
<1>6. ASSUME att'.attempt = att.attempt, Place(att'.pc, rest) < Place(att.pc, left)
      PROVE  AttemptsLeft' < AttemptsLeft
  <2>1. Place(att.pc, left) \in Nat /\ Place(att'.pc, rest) \in Nat
    BY <1>1, PlaceType DEF Attestation
  <2>2. (3 - att.attempt) * Whole \in Nat
    <3>1. att.attempt = 1 \/ att.attempt = 2 \/ att.attempt = 3
      BY <1>1 DEF Attestation, Attempts
    <3>2. QED BY <1>4, <3>1
  <2>3. PICK k \in Nat, a \in Nat, b \in Nat :
          /\ k = (3 - att.attempt) * Whole
          /\ a = Place(att.pc, left) /\ b = Place(att'.pc, rest)
    BY <2>1, <2>2
  <2>4. AttemptsLeft = k + a /\ AttemptsLeft' = k + b
    BY <1>2, <1>6, <2>3 DEF AttemptsLeft, Attempts, Whole, Sources
  <2>5. QED BY <1>6, <2>3, <2>4
<1>7. ASSUME NEW label \in Pc, GoTo(label), Place(label, left) < Place(att.pc, left)
      PROVE  AttemptsLeft' < AttemptsLeft
  BY <1>1, <1>2, <1>6, <1>7, GoToOnly
<1>8. ASSUME NEW again \in Pc, NEW past \in Pc, Rest(again, past), left >= 1,
             att.pc \in Reading \cup {"final"},
             \A k \in Nat : k < left => /\ Place(again, k) < Place(att.pc, left)
                                        /\ Place(past, k) < Place(att.pc, left)
      PROVE  AttemptsLeft' < AttemptsLeft
  <2>1. Next1 \in att.todo /\ att.todo \subseteq Source
    BY <1>1, <1>8, NextIsLeft DEF Attestation
  <2>2. att'.todo = att.todo \ {Next1} /\ att'.attempt = att.attempt /\ att'.pc \in {again, past}
    BY <1>1, <1>8, RestOnly
  <2>3. rest = left - 1
    BY <1>2, <2>1, <2>2, SourcesLeft
  <2>4. QED BY <1>6, <1>8, <2>2, <2>3
<1>9. /\ Place("identity", left) = 3 * n + 9 /\ Place("lineage", left) = 3 * n + 8
      /\ Place("main", left) = 3 * n + 7 /\ Place("source", left) = n + 6 + 2 * left
      /\ Place("policy", left) = n + 5 + 2 * left /\ Place("landed", left) = n + 6
      /\ Place("tree", left) = n + 5 /\ Place("remain", left) = n + 4
      /\ Place("relineage", left) = n + 3 /\ Place("candidate", left) = n + 2
      /\ Place("final", left) = 1 + left /\ Place("race", left) = 1
      /\ Place("failed", left) = 0
  <2>1. /\ Place("identity", left) = 3 * n + 9 /\ Place("lineage", left) = 3 * n + 8
        /\ Place("main", left) = 3 * n + 7
    <3>1. /\ Place("identity", left) = Whole /\ Place("lineage", left) = Whole - 1
          /\ Place("main", left) = Whole - 2
      BY <1>2, Places
    <3>2. QED BY <1>4, <3>1
  <2>2. /\ Place("source", left) = n + 6 + 2 * left /\ Place("policy", left) = n + 5 + 2 * left
        /\ Place("landed", left) = n + 6 /\ Place("tree", left) = n + 5
    BY <1>2, Places
  <2>3. /\ Place("remain", left) = n + 4 /\ Place("relineage", left) = n + 3
        /\ Place("candidate", left) = n + 2
    BY <1>2, Places
  <2>4. /\ Place("final", left) = 1 + left /\ Place("race", left) = 1
        /\ Place("failed", left) = 0
    BY <1>2, Places
  <2>5. QED BY <2>1, <2>2, <2>3, <2>4
<1>10. CASE ReadCandidate
  BY <1>3, <1>7, <1>9, <1>10 DEF ReadCandidate, At, Pc
<1>11. CASE ReadLineage
  <2>1. /\ att.pc = "lineage" /\ att'.pc \in {"main", "source"} /\ att'.attempt = att.attempt
    BY <1>1, <1>11 DEF ReadLineage, At, Go, Attestation
  <2>2. Place("main", rest) = 3 * n + 7 /\ Place("source", rest) = n + 6 + 2 * rest
    BY <1>2, <1>4, Places
  <2>3. QED BY <1>3, <1>6, <1>9, <2>1, <2>2
<1>12. CASE WaitForBatch
  BY <1>3, <1>7, <1>9, <1>12 DEF WaitForBatch, At, Pc
<1>13. CASE ReadMain
  <2>1. /\ att.pc = "main" /\ att'.pc = "source" /\ att'.attempt = att.attempt /\ att'.todo = att.todo
    BY <1>1, <1>13 DEF ReadMain, At, Go, Attestation
  <2>2. QED BY <1>2, <1>3, <1>6, <1>9, <2>1
<1>14. CASE ReadSource
  <2>1. CASE att'.pc = "policy"
    <3>1. att.pc = "source" /\ att'.attempt = att.attempt /\ att'.todo = att.todo
      BY <1>1, <1>14 DEF ReadSource, At, Go, GoTo, Attestation
    <3>2. QED BY <1>2, <1>6, <1>9, <2>1, <3>1
  <2>2. CASE att'.pc # "policy"
    <3>1. att.pc = "source" /\ (GoTo("race") \/ GoTo("failed"))
      BY <1>1, <1>14, <2>2 DEF ReadSource, At, Go, Attestation
    <3>2. QED BY <1>5, <1>7, <1>9, <3>1 DEF Pc, Reading
  <2>3. QED BY <2>1, <2>2
<1>15. CASE Policy
  <2>1. att.pc = "policy" /\ left >= 1
    BY <1>5, <1>15 DEF Policy, At, Reading
  <2>2. GoTo("landed") \/ \E past \in {"tree", "relineage"} : Rest("source", past)
    BY <1>15 DEF Policy
  <2>3. CASE GoTo("landed")
    BY <1>7, <1>9, <2>1, <2>3 DEF Pc
  <2>4. ASSUME NEW past \in {"tree", "relineage"}, Rest("source", past)
        PROVE  AttemptsLeft' < AttemptsLeft
    <3>1. ASSUME NEW k \in Nat, k < left
          PROVE  Place("source", k) < n + 5 + 2 * left /\ Place(past, k) < n + 5 + 2 * left
      BY <1>2, <2>4, <3>1, Places
    <3>2. QED BY <1>8, <1>9, <2>1, <2>4, <3>1 DEF Pc, Reading
  <2>5. QED BY <2>2, <2>3, <2>4
<1>16. CASE ReadLanded
  BY <1>7, <1>9, <1>16 DEF ReadLanded, At, Pc
<1>17. CASE VerifyTree \/ ReadMainAgain
  BY <1>7, <1>9, <1>17 DEF VerifyTree, ReadMainAgain, At, Pc
<1>18. CASE ReadLineageAgain
  <2>1. att.pc = "relineage" /\ att'.pc \in {"candidate", "race"} /\ att'.attempt = att.attempt
    BY <1>1, <1>18 DEF ReadLineageAgain, At, Go, Attestation
  <2>2. Place("candidate", rest) = n + 2 /\ Place("race", rest) = 1
    BY <1>2, Places
  <2>3. QED BY <1>6, <1>9, <2>1, <2>2
<1>19. CASE ReadCandidateAgain
  BY <1>3, <1>7, <1>9, <1>19 DEF ReadCandidateAgain, At, Pc
<1>20. CASE Final
  <2>1. att.pc = "final" /\ left >= 1
    BY <1>5, <1>20 DEF Final, At, Reading
  <2>2. GoTo("failed") \/ GoTo("race") \/ Rest("final", "attested")
    BY <1>20 DEF Final
  <2>3. CASE GoTo("failed") \/ GoTo("race")
    BY <1>7, <1>9, <2>1, <2>3 DEF Pc
  <2>4. CASE Rest("final", "attested")
    <3>1. ASSUME NEW k \in Nat, k < left
          PROVE  Place("final", k) < 1 + left /\ Place("attested", k) < 1 + left
      BY <3>1, Places
    <3>2. QED BY <1>8, <1>9, <2>1, <2>4, <3>1 DEF Pc
  <2>5. QED BY <2>2, <2>3, <2>4
<1>21. CASE Retry
  <2>1. att.pc = "race"
    BY <1>21 DEF Retry, At
  <2>2. CASE GoTo("failed")
    BY <1>7, <1>9, <2>1, <2>2 DEF Pc
  <2>3. CASE ~GoTo("failed")
    <3>1. att.attempt \in 1..2 /\ att'.attempt = att.attempt + 1 /\ att'.pc = "identity"
      <4>1. att.attempt # 3 /\ Go("identity", [att EXCEPT !.attempt = @ + 1, !.todo = {}])
        BY <1>21, <2>3 DEF Retry, GoTo, Attempts
      <4>2. att.attempt \in 1..3
        BY <1>1 DEF Attestation, Attempts
      <4>3. att'.attempt = att.attempt + 1 /\ att'.pc = "identity"
        BY <1>1, <4>1 DEF Go, Attestation
      <4>4. QED BY <4>1, <4>2, <4>3
    <3>2. Place("identity", rest) = 3 * n + 9
      BY <1>2, <1>4, Places
    <3>3. AttemptsLeft = (3 - att.attempt) * Whole + 1
          /\ AttemptsLeft' = (3 - (att.attempt + 1)) * Whole + Whole
      BY <1>2, <1>4, <1>9, <2>1, <3>1, <3>2 DEF AttemptsLeft, Attempts, Whole, Sources
    <3>4. att.attempt = 1 \/ att.attempt = 2
      BY <3>1
    <3>5. QED BY <1>4, <3>3, <3>4
  <2>4. QED BY <2>2, <2>3
<1>22. QED
  BY <1>10, <1>11, <1>12, <1>13, <1>14, <1>15, <1>16, <1>17, <1>18, <1>19, <1>20, <1>21 DEF Continue

\* An attestation takes boundedly many steps of its own, whatever moves meanwhile:
\* a race is tried again twice at most, and a pass reads every source once
\* (attest_candidate, _attest_candidate_once).
THEOREM CandidateStepsBounded ==
    Spec => [](AttemptsLeft \in Nat) /\ [][Continue => AttemptsLeft' < AttemptsLeft]_vars
<1>1. CandInv => AttemptsLeft \in Nat
  BY AttemptsCount DEF CandInv
<1>2. CandInv /\ CandInv' => (Continue => AttemptsLeft' < AttemptsLeft)
  BY AttemptsFall DEF CandInv
<1>3. QED BY <1>1, <1>2, CandAlways, PTL DEF Spec

-----------------------------------------------------------------------------
(* Signals: green is of the newest, and a replaced failure is not final.   *)

Verdict == {"none", "green", "failed", "unscheduled"}
WorkflowRun == [of : Workflow, created : Nat, attempt : {1, 2}, started : Nat, active : BOOLEAN]
CheckRun == [run : Nat, attempt : {1, 2}, begun : Nat, ended : Nat \cup {NoTime},
             state : {"in_progress", "success", "failure"}]
Status == [state : {"pending", "success", "failure"}, at : Nat]
Waiter == [pc : {"review", "checks", "statuses", "judge", "missing", "ended"},
           age : Int, seen : Seq(CheckRun), status : Nat, verdict : Verdict,
           checks0 : Nat, statuses0 : Nat]

ListsTyped ==
    /\ now \in 0..MaxTime /\ steps \in 0..MaxSteps
    /\ runs \in Seq(WorkflowRun) /\ checks \in Seq(CheckRun) /\ statuses \in Seq(Status)
    /\ \A r \in DOMAIN runs : runs[r].created <= runs[r].started /\ runs[r].started <= now
    /\ \A i \in DOMAIN checks : checks[i].run \in DOMAIN runs /\ checks[i].ended <= now

WaiterTyped ==
    /\ poll \in Waiter /\ Len(poll.seen) <= 1 /\ poll.status <= Len(statuses)
    /\ poll.checks0 <= Len(checks) /\ poll.statuses0 <= Len(statuses)
    /\ poll.pc = "ended" <=> poll.verdict # "none"

\* Runs are listed as they were created.  A check in progress is of the run's
\* attempt and keeps the run active; one of an earlier attempt ended before the
\* rerun was started.
Listed == \A r, q \in DOMAIN runs : r < q => runs[r].created <= runs[q].created
Follows(c, r) ==
    /\ c.attempt <= r.attempt
    /\ c.state = "in_progress" => r.active /\ c.attempt = r.attempt
    /\ c.attempt < r.attempt => c.ended < r.started
Distinct ==
    \A i, j \in DOMAIN checks :
        i # j => checks[i].run # checks[j].run \/ checks[i].attempt # checks[j].attempt
RunsInv ==
    /\ Listed /\ Distinct
    /\ \A i \in DOMAIN checks : Follows(checks[i], runs[checks[i].run])

\* What the poll has read was there when it began, or came later; a check run that
\* had ended by then is still as it was read.
SeenInv ==
    /\ poll.pc \in {"statuses", "judge", "missing", "ended"} =>
         \/ poll.seen = << >> /\ poll.checks0 = 0
         \/ /\ poll.seen # << >>
            /\ \E k \in DOMAIN checks :
                 /\ poll.checks0 <= k
                 /\ poll.seen[1].state # "in_progress" => checks[k] = poll.seen[1]
    /\ poll.pc \in {"judge", "missing", "ended"} => poll.statuses0 <= poll.status

SignalsInv == ListsTyped /\ WaiterTyped /\ RunsInv /\ SeenInv /\ GreenOutranks /\ FailureIsFinal

-----------------------------------------------------------------------------
\* A list with one more element.
LEMMA OneMore ==
    ASSUME NEW S, NEW list \in Seq(S), NEW e \in S
    PROVE  /\ Append(list, e) \in Seq(S) /\ Len(Append(list, e)) = Len(list) + 1
           /\ DOMAIN Append(list, e) = 1..(Len(list) + 1) /\ DOMAIN list = 1..Len(list)
           /\ Len(list) \in Nat
           /\ \A i \in 1..Len(list) : Append(list, e)[i] = list[i]
           /\ Append(list, e)[Len(list) + 1] = e
BY AppendProperties

\* What is appended and replaced has its type.
LEMMA ElementTypes ==
    ASSUME ListsTyped
    PROVE  /\ now \in Nat /\ steps \in Nat
           /\ \A workflow \in Workflow : [of |-> workflow, created |-> now, attempt |-> 1,
                             started |-> now, active |-> TRUE] \in WorkflowRun
           /\ \A r \in Nat, attempt \in {1, 2} : Begun(r, attempt) \in CheckRun
           /\ \A r \in DOMAIN runs : runs[r] \in WorkflowRun /\ r \in Nat
           /\ \A i \in DOMAIN checks : checks[i] \in CheckRun /\ i \in Nat
           /\ Len(runs) \in Nat /\ Len(checks) \in Nat /\ Len(statuses) \in Nat
           /\ DOMAIN runs = 1..Len(runs) /\ DOMAIN checks = 1..Len(checks)
           /\ DOMAIN statuses = 1..Len(statuses)
<1>1. now \in Nat /\ steps \in Nat
  BY TimesAssumption DEF ListsTyped
<1>2. \A workflow \in Workflow : [of |-> workflow, created |-> now, attempt |-> 1,
                             started |-> now, active |-> TRUE] \in WorkflowRun
  BY <1>1 DEF WorkflowRun
<1>3. \A r \in Nat, attempt \in {1, 2} : Begun(r, attempt) \in CheckRun
  BY <1>1 DEF CheckRun, Begun
<1>4. \A r \in DOMAIN runs : runs[r] \in WorkflowRun /\ r \in Nat
  BY DEF ListsTyped
<1>5. \A i \in DOMAIN checks : checks[i] \in CheckRun /\ i \in Nat
  BY DEF ListsTyped
<1>6. /\ Len(runs) \in Nat /\ Len(checks) \in Nat /\ Len(statuses) \in Nat
      /\ DOMAIN runs = 1..Len(runs) /\ DOMAIN checks = 1..Len(checks)
      /\ DOMAIN statuses = 1..Len(statuses)
  BY DEF ListsTyped
<1>7. QED
  BY <1>1, <1>2, <1>3, <1>4, <1>5, <1>6

LEMMA ListsStep == ListsTyped /\ [SignalsNext]_sgvars => ListsTyped'
<1> SUFFICES ASSUME ListsTyped, [SignalsNext]_sgvars PROVE ListsTyped'
  OBVIOUS
<1>1. now \in Nat /\ steps \in Nat
  BY ElementTypes
<1>2. CASE UNCHANGED <<now, steps, runs, checks, statuses>>
  BY <1>2 DEF ListsTyped
<1>3. CASE Tick
  <2>1. now' = now + 1 /\ now' \in 0..MaxTime /\ UNCHANGED <<steps, runs, checks, statuses>>
    BY <1>1, <1>3, TimesAssumption DEF Tick
  <2>2. \A r \in DOMAIN runs : runs[r].started \in Nat /\ runs[r].started <= now
    BY ElementTypes DEF ListsTyped, WorkflowRun
  <2>3. \A i \in DOMAIN checks : checks[i].ended \in Int /\ checks[i].ended <= now
    <3>1. \A i \in DOMAIN checks : checks[i] \in CheckRun /\ checks[i].ended <= now
      BY ElementTypes DEF ListsTyped
    <3>2. QED
      BY <3>1 DEF CheckRun, NoTime
  <2>4. (\A r \in DOMAIN runs : runs[r].started <= now + 1)
        /\ \A i \in DOMAIN checks : checks[i].ended <= now + 1
    BY <1>1, <2>2, <2>3
  <2>5. steps \in 0..MaxSteps /\ runs \in Seq(WorkflowRun) /\ checks \in Seq(CheckRun)
        /\ statuses \in Seq(Status)
        /\ (\A r \in DOMAIN runs : runs[r].created <= runs[r].started)
        /\ \A i \in DOMAIN checks : checks[i].run \in DOMAIN runs
    BY DEF ListsTyped
  <2>6. QED
    BY <2>1, <2>4, <2>5 DEF ListsTyped
<1>4. ASSUME Step PROVE UNCHANGED now /\ steps' \in 0..MaxSteps
  BY <1>1, <1>4, TimesAssumption DEF Step
<1>5. ASSUME NEW workflow \in Workflow, Trigger(workflow) PROVE ListsTyped'
  <2> DEFINE run == [of |-> workflow, created |-> now, attempt |-> 1,
                     started |-> now, active |-> TRUE]
  <2>1. run \in WorkflowRun
    BY ElementTypes
  <2>2. runs' = Append(runs, run) /\ Step /\ statuses' = statuses
    BY <1>5 DEF Trigger
  <2>3. /\ runs' \in Seq(WorkflowRun) /\ DOMAIN runs' = 1..(Len(runs) + 1)
        /\ \A r \in DOMAIN runs : runs'[r] = runs[r]
        /\ runs'[Len(runs) + 1] = run
    BY <2>1, <2>2, OneMore DEF ListsTyped
  <2>4. \A r \in DOMAIN runs' : runs'[r].created <= runs'[r].started /\ runs'[r].started <= now
    BY <1>1, <2>3, ElementTypes DEF ListsTyped
  <2>5. /\ checks' \in Seq(CheckRun)
        /\ \A i \in DOMAIN checks' : checks'[i].run \in DOMAIN runs' /\ checks'[i].ended <= now
    <3>1. CASE checks' = checks
      BY <2>3, <3>1, ElementTypes DEF ListsTyped
    <3>2. CASE checks' = Append(checks, Begun(Len(runs) + 1, 1))
      <4>1. Begun(Len(runs) + 1, 1) \in CheckRun
        BY ElementTypes
      <4>2. Begun(Len(runs) + 1, 1).run = Len(runs) + 1 /\ Begun(Len(runs) + 1, 1).ended = -1
        BY DEF Begun, NoTime
      <4>3. /\ checks' \in Seq(CheckRun) /\ DOMAIN checks' = 1..(Len(checks) + 1)
            /\ \A i \in DOMAIN checks : checks'[i] = checks[i]
            /\ checks'[Len(checks) + 1] = Begun(Len(runs) + 1, 1)
        BY <3>2, <4>1, OneMore DEF ListsTyped
      <4>4. QED
        <5>1. DOMAIN checks = 1..Len(checks) /\ Len(checks) \in Nat /\ Len(runs) \in Nat
              /\ DOMAIN runs = 1..Len(runs)
          BY ElementTypes
        <5>2. ASSUME NEW i \in DOMAIN checks
              PROVE  checks'[i].run \in DOMAIN runs' /\ checks'[i].ended <= now
          BY <2>3, <4>3, <5>1 DEF ListsTyped
        <5>3. checks'[Len(checks) + 1].run \in DOMAIN runs'
              /\ checks'[Len(checks) + 1].ended <= now
          BY <1>1, <2>3, <4>2, <4>3, <5>1
        <5>4. QED
          BY <4>3, <5>1, <5>2, <5>3
    <3>3. QED
      BY <1>5, <3>1, <3>2 DEF Trigger
  <2>6. QED
    BY <1>4, <2>2, <2>3, <2>4, <2>5 DEF ListsTyped
<1>6. ASSUME NEW r \in DOMAIN runs, NEW attempt \in {1, 2}, UNCHANGED now,
             checks' \in {checks, Append(checks, Begun(r, attempt))}
      PROVE  /\ checks' \in Seq(CheckRun)
             /\ \A i \in DOMAIN checks' : checks'[i].run \in DOMAIN runs /\ checks'[i].ended <= now
  <2>1. Begun(r, attempt) \in CheckRun
    BY ElementTypes
  <2>2. Begun(r, attempt).run = r /\ Begun(r, attempt).ended = -1
    BY DEF Begun, NoTime
  <2>3. CASE checks' = Append(checks, Begun(r, attempt))
    <3>1. /\ checks' \in Seq(CheckRun) /\ DOMAIN checks' = 1..(Len(checks) + 1)
          /\ \A i \in DOMAIN checks : checks'[i] = checks[i]
          /\ checks'[Len(checks) + 1] = Begun(r, attempt)
      BY <2>1, <2>3, OneMore DEF ListsTyped
    <3>2. QED
      BY <1>1, <2>2, <3>1, ElementTypes DEF ListsTyped
  <2>4. QED
    BY <1>6, <2>3 DEF ListsTyped
<1>7. ASSUME NEW r \in DOMAIN runs, StartCheck(r) PROVE ListsTyped'
  <2>1. PICK attempt \in {1, 2} : attempt = runs[r].attempt
    BY ElementTypes DEF WorkflowRun
  <2>2. checks' = Append(checks, Begun(r, attempt)) /\ UNCHANGED <<runs, statuses>> /\ Step
    BY <1>7, <2>1 DEF StartCheck
  <2>3. QED
    BY <1>4, <1>6, <2>2 DEF ListsTyped
<1>8. ASSUME NEW r \in DOMAIN runs, NEW run \in WorkflowRun, runs' = [runs EXCEPT ![r] = run],
             run.created <= run.started, run.started <= now
      PROVE  /\ runs' \in Seq(WorkflowRun) /\ DOMAIN runs' = DOMAIN runs
             /\ \A q \in DOMAIN runs' : runs'[q].created <= runs'[q].started /\ runs'[q].started <= now
  BY <1>8 DEF ListsTyped
<1>9. ASSUME NEW i \in DOMAIN checks, NEW conclusion \in {"success", "failure"},
             FinishCheck(i, conclusion)
      PROVE  ListsTyped'
  <2>1. checks[i] \in CheckRun /\ checks[i].run \in DOMAIN runs
    BY ElementTypes DEF ListsTyped
  <2>2. Step /\ UNCHANGED statuses
    BY <1>9 DEF FinishCheck
  <2>3. /\ runs' \in Seq(WorkflowRun) /\ DOMAIN runs' = DOMAIN runs
        /\ \A q \in DOMAIN runs' : runs'[q].created <= runs'[q].started /\ runs'[q].started <= now
    <3>1. CASE runs' = runs
      BY <3>1 DEF ListsTyped
    <3>2. CASE runs' = [runs EXCEPT ![checks[i].run].active = FALSE]
      <4>1. PICK r \in DOMAIN runs : r = checks[i].run
        BY <2>1
      <4>2. PICK run : run = [runs[r] EXCEPT !.active = FALSE]
        OBVIOUS
      <4>3. run \in WorkflowRun /\ run.created = runs[r].created /\ run.started = runs[r].started
        <5>1. runs[r] \in WorkflowRun
          BY ElementTypes
        <5>2. QED
          BY <4>2, <5>1 DEF WorkflowRun
      <4>4. runs' = [runs EXCEPT ![r] = run]
        BY <3>2, <4>1, <4>2 DEF ListsTyped
      <4>5. QED
        BY <1>8, <4>3, <4>4 DEF ListsTyped
    <3>3. QED
      BY <1>9, <3>1, <3>2 DEF FinishCheck
  <2>4. PICK check : check = [checks[i] EXCEPT !.state = conclusion, !.ended = now]
    OBVIOUS
  <2>5. check \in CheckRun /\ check.run = checks[i].run /\ check.ended = now
    BY <1>1, <2>1, <2>4 DEF CheckRun
  <2>6. checks' = [checks EXCEPT ![i] = check]
    BY <1>9, <2>4 DEF FinishCheck, ListsTyped
  <2>7. checks' \in Seq(CheckRun) /\ DOMAIN checks' = DOMAIN checks
        /\ \A j \in DOMAIN checks' : checks'[j].run \in DOMAIN runs /\ checks'[j].ended <= now
    BY <1>1, <2>1, <2>5, <2>6 DEF ListsTyped
  <2>8. QED
    BY <1>4, <2>2, <2>3, <2>7 DEF ListsTyped
<1>10. ASSUME NEW r \in DOMAIN runs, EndRun(r) PROVE ListsTyped'
  <2>1. PICK run : run = [runs[r] EXCEPT !.active = FALSE]
    OBVIOUS
  <2>2. run \in WorkflowRun /\ run.created = runs[r].created /\ run.started = runs[r].started
    <3>1. runs[r] \in WorkflowRun
      BY ElementTypes
    <3>2. QED
      BY <2>1, <3>1 DEF WorkflowRun
  <2>3. runs' = [runs EXCEPT ![r] = run] /\ Step /\ UNCHANGED <<checks, statuses>>
    BY <1>10, <2>1 DEF EndRun, ListsTyped
  <2>4. QED
    BY <1>4, <1>8, <2>2, <2>3 DEF ListsTyped
<1>11. ASSUME NEW r \in DOMAIN runs, Rerun(r) PROVE ListsTyped'
  <2>1. PICK run : run = [runs[r] EXCEPT !.attempt = 2, !.started = now, !.active = TRUE]
    OBVIOUS
  <2>2. run \in WorkflowRun /\ run.created = runs[r].created /\ run.started = now
    <3>1. runs[r] \in WorkflowRun
      BY ElementTypes
    <3>2. QED
      BY <1>1, <2>1, <3>1 DEF WorkflowRun
  <2>3. runs' = [runs EXCEPT ![r] = run] /\ Step /\ UNCHANGED statuses
    BY <1>11, <2>1 DEF Rerun, ListsTyped
  <2>4. runs[r].created \in Nat /\ runs[r].started \in Nat
        /\ runs[r].created <= runs[r].started /\ runs[r].started <= now
    BY ElementTypes DEF ListsTyped, WorkflowRun
  <2>5. run.created <= run.started /\ run.started <= now
    BY <1>1, <2>2, <2>4
  <2>6. checks' \in {checks, Append(checks, Begun(r, 2))} /\ UNCHANGED now
    BY <1>4, <1>11, <2>3 DEF Rerun
  <2>7. QED
    BY <1>4, <1>6, <1>8, <2>2, <2>3, <2>5, <2>6 DEF ListsTyped
<1>12. ASSUME NEW state \in {"pending", "success", "failure"}, PostStatus(state)
       PROVE  ListsTyped'
  <2>1. [state |-> state, at |-> now] \in Status
    BY <1>1 DEF Status
  <2>2. statuses' \in Seq(Status) /\ Step /\ UNCHANGED <<runs, checks>>
    BY <1>12, <2>1, OneMore DEF PostStatus, ListsTyped
  <2>3. QED
    BY <1>4, <2>2 DEF ListsTyped
<1>13. CASE Poll
  BY <1>2, <1>13 DEF Poll, ReadReview, ReadCheckRuns, ReadStatuses, Judge, Diagnose
<1>14. QED
  BY <1>2, <1>3, <1>5, <1>7, <1>9, <1>10, <1>11, <1>12, <1>13 DEF SignalsNext, GitHub, sgvars

\* GitHub only adds to its lists, and what has ended stays as it is.
Grown ==
    /\ DOMAIN checks \subseteq DOMAIN checks' /\ Len(checks) <= Len(checks')
    /\ \A i \in DOMAIN checks : checks[i].state # "in_progress" => checks'[i] = checks[i]
    /\ Len(statuses) <= Len(statuses')
    /\ UNCHANGED poll

LEMMA GitHubGrows == ListsTyped /\ GitHub => Grown
<1> SUFFICES ASSUME ListsTyped, GitHub PROVE Grown
  OBVIOUS
<1>1. /\ Len(runs) \in Nat /\ Len(checks) \in Nat /\ Len(statuses) \in Nat
      /\ DOMAIN checks = 1..Len(checks) /\ DOMAIN runs = 1..Len(runs)
      /\ checks \in Seq(CheckRun) /\ statuses \in Seq(Status)
  BY ElementTypes DEF ListsTyped
<1>2. ASSUME NEW r \in Nat, NEW attempt \in {1, 2}, UNCHANGED <<statuses, poll>>,
             checks' \in {checks, Append(checks, Begun(r, attempt))}
      PROVE  Grown
  <2>1. Begun(r, attempt) \in CheckRun
    BY ElementTypes
  <2>2. CASE checks' = Append(checks, Begun(r, attempt))
    <3>1. /\ Len(checks') = Len(checks) + 1 /\ DOMAIN checks' = 1..(Len(checks) + 1)
          /\ \A i \in DOMAIN checks : checks'[i] = checks[i]
      BY <1>1, <2>1, <2>2, OneMore
    <3>2. QED
      BY <1>1, <1>2, <3>1 DEF Grown
  <2>3. QED
    BY <1>1, <1>2, <2>2 DEF Grown
<1>3. CASE Tick
  BY <1>1, <1>3 DEF Tick, Grown
<1>4. ASSUME NEW workflow \in Workflow, Trigger(workflow) PROVE Grown
  BY <1>1, <1>2, <1>4 DEF Trigger
<1>5. ASSUME NEW r \in DOMAIN runs, StartCheck(r) PROVE Grown
  <2>1. PICK attempt \in {1, 2} : attempt = runs[r].attempt
    BY ElementTypes DEF WorkflowRun
  <2>2. QED
    <3>1. checks' = Append(checks, Begun(r, attempt)) /\ UNCHANGED <<statuses, poll>>
      BY <1>5, <2>1 DEF StartCheck
    <3>2. r \in Nat
      BY ElementTypes
    <3>3. QED
      BY <1>2, <3>1, <3>2
<1>6. ASSUME NEW r \in DOMAIN runs, EndRun(r) \/ Rerun(r) PROVE Grown
  BY <1>1, <1>2, <1>6 DEF EndRun, Rerun
<1>7. ASSUME NEW i \in DOMAIN checks, NEW conclusion \in {"success", "failure"},
             FinishCheck(i, conclusion)
      PROVE  Grown
  <2>1. DOMAIN checks' = DOMAIN checks /\ Len(checks') = Len(checks)
        /\ \A j \in DOMAIN checks : j # i => checks'[j] = checks[j]
    BY <1>1, <1>7 DEF FinishCheck
  <2>2. checks[i].state = "in_progress" /\ UNCHANGED <<statuses, poll>>
    BY <1>7 DEF FinishCheck
  <2>3. QED
    BY <1>1, <2>1, <2>2 DEF Grown
<1>8. ASSUME NEW state \in {"pending", "success", "failure"}, PostStatus(state) PROVE Grown
  BY <1>1, <1>8 DEF PostStatus, Grown
<1>9. QED
  BY <1>3, <1>4, <1>5, <1>6, <1>7, <1>8 DEF GitHub

\* What a wait starts each poll with.
LEMMA FreshWaiter ==
    /\ Fresh \in Waiter /\ Fresh.pc = "review" /\ Fresh.seen = << >> /\ Fresh.verdict = "none"
    /\ Fresh.status = 0 /\ Fresh.checks0 = 0 /\ Fresh.statuses0 = 0
<1>1. << >> \in Seq(CheckRun)
  OBVIOUS
<1>2. QED
  BY <1>1 DEF Fresh, Waiter, NoTime, Verdict

\* A poll is judged green only when all that it read is, and failed only when the
\* failed check run has no replacement.
Judged(verdict) ==
    /\ poll' = IF verdict \in {"green", "failed"}
               THEN [poll EXCEPT !.pc = "ended", !.verdict = verdict]
               ELSE IF verdict = "missing" /\ now - ReviewAt >= MissingGrace
               THEN [poll EXCEPT !.pc = "missing"]
               ELSE Fresh
    /\ verdict = "green" => Values # {} /\ \A v \in Values : v.state = "success"
    /\ verdict = "failed" =>
         /\ Failing # {}
         /\ ~ /\ poll.seen # << >> /\ poll.seen[1].state = "failure"
              /\ ~\E v \in OfStatus : v \in Failing
              /\ Replaced(poll.seen[1])

LEMMA JudgeSplit ==
    ASSUME Judge
    PROVE  \E verdict \in {"missing", "green", "pending", "stale", "failed"} : Judged(verdict)
<1>1. CASE Values = {}
  BY <1>1 DEF Judge, Judged
<1>2. CASE Values # {} /\ \A v \in Values : v.state = "success"
  BY <1>2 DEF Judge, Judged
<1>3. CASE Values # {} /\ ~(\A v \in Values : v.state = "success") /\ Failing = {}
  BY <1>3 DEF Judge, Judged
<1>4. CASE Values # {} /\ ~(\A v \in Values : v.state = "success") /\ Failing # {}
  BY <1>4 DEF Judge, Judged
<1>5. QED
  BY <1>1, <1>2, <1>3, <1>4

\* What a poll has read stays there.
LEMMA WaiterStep ==
    ListsTyped /\ WaiterTyped /\ SeenInv /\ [SignalsNext]_sgvars => WaiterTyped' /\ SeenInv'
<1> SUFFICES ASSUME ListsTyped, WaiterTyped, SeenInv, [SignalsNext]_sgvars
             PROVE  WaiterTyped' /\ SeenInv'
  OBVIOUS
<1>1. /\ Len(checks) \in Nat /\ Len(statuses) \in Nat /\ now \in Nat
      /\ DOMAIN checks = 1..Len(checks) /\ checks \in Seq(CheckRun)
  BY ElementTypes DEF ListsTyped
<1>2. /\ poll \in Waiter /\ poll.seen \in Seq(CheckRun) /\ Len(poll.seen) <= 1
      /\ poll.status \in Nat /\ poll.checks0 \in Nat /\ poll.statuses0 \in Nat
  BY DEF WaiterTyped, Waiter
<1>3. CASE Grown
  <2>1. poll' = poll /\ poll.checks0 <= Len(checks') /\ poll.statuses0 <= Len(statuses')
        /\ poll.status <= Len(statuses')
    <3>1. Len(checks') \in Nat /\ Len(statuses') \in Nat
      BY ListsStep DEF ListsTyped
    <3>2. QED
      BY <1>1, <1>2, <1>3, <3>1 DEF Grown, WaiterTyped
  <2>2. WaiterTyped'
    BY <2>1 DEF WaiterTyped
  <2>3. SeenInv'
    BY <1>3, <2>1 DEF SeenInv, Grown
  <2>4. QED
    BY <2>2, <2>3
<1>4. CASE poll' = Fresh /\ UNCHANGED <<now, steps, runs, checks, statuses>>
  BY <1>1, <1>4, FreshWaiter DEF WaiterTyped, SeenInv
<1>5. CASE ReadReview
  <2>1. now - ReviewAt \in Int
    BY <1>1, TimesAssumption
  <2>2. poll' \in Waiter /\ poll'.pc = "checks" /\ poll'.seen = << >> /\ poll'.verdict = "none"
        /\ poll'.status = 0 /\ poll'.checks0 = Len(checks) /\ poll'.statuses0 = Len(statuses)
    BY <1>1, <1>5, <2>1, FreshWaiter DEF ReadReview, Waiter
  <2>3. QED
    BY <1>1, <1>5, <2>2 DEF ReadReview, WaiterTyped, SeenInv
<1>6. CASE ReadCheckRuns
  <2>1. PICK seen \in Seq(CheckRun) :
          /\ seen = IF checks = << >> THEN << >> ELSE <<checks[Len(checks)]>>
          /\ Len(seen) <= 1
    <3>1. CASE checks = << >>
      <4>1. << >> \in Seq(CheckRun) /\ Len(<< >>) <= 1
        OBVIOUS
      <4>2. QED
        BY <3>1, <4>1
    <3>2. CASE checks # << >>
      <4>1. checks[Len(checks)] \in CheckRun
        BY <1>1, <3>2
      <4>2. <<checks[Len(checks)]>> \in Seq(CheckRun) /\ Len(<<checks[Len(checks)]>>) <= 1
        BY <4>1
      <4>3. QED
        BY <3>2, <4>2
    <3>3. QED
      BY <3>1, <3>2
  <2>2. poll.pc = "checks" /\ poll' = [poll EXCEPT !.pc = "statuses", !.seen = seen]
    BY <1>6, <2>1 DEF ReadCheckRuns, Latest
  <2>3. /\ poll' \in Waiter /\ poll'.pc = "statuses" /\ poll'.seen = seen
        /\ poll'.verdict = poll.verdict /\ poll'.status = poll.status
        /\ poll'.checks0 = poll.checks0 /\ poll'.statuses0 = poll.statuses0
    BY <1>2, <2>2 DEF Waiter
  <2>4. UNCHANGED <<checks, statuses>>
    BY <1>6 DEF ReadCheckRuns
  <2>5. WaiterTyped'
    BY <2>1, <2>2, <2>3, <2>4 DEF WaiterTyped
  <2>6. CASE checks = << >>
    BY <1>1, <1>2, <2>1, <2>3, <2>4, <2>5, <2>6 DEF WaiterTyped, SeenInv
  <2>7. CASE checks # << >>
    <3>1. seen # << >> /\ seen[1] = checks[Len(checks)] /\ Len(checks) \in DOMAIN checks
      BY <1>1, <2>1, <2>7
    <3>2. poll.checks0 <= Len(checks)
      BY DEF WaiterTyped
    <3>3. SeenInv'
      BY <2>3, <2>4, <3>1, <3>2 DEF SeenInv
    <3>4. QED
      BY <2>5, <3>3
  <2>8. QED
    BY <2>6, <2>7
<1>7. CASE ReadStatuses
  <2>1. /\ poll' \in Waiter /\ poll'.pc = "judge" /\ poll'.seen = poll.seen
        /\ poll'.verdict = poll.verdict /\ poll'.status = Len(statuses)
        /\ poll'.checks0 = poll.checks0 /\ poll'.statuses0 = poll.statuses0
    BY <1>1, <1>2, <1>7 DEF ReadStatuses, Waiter
  <2>2. QED
    BY <1>1, <1>7, <2>1 DEF ReadStatuses, WaiterTyped, SeenInv
<1>8. ASSUME NEW verdict \in Verdict, NEW pc \in {"ended", "missing"},
             poll' = [poll EXCEPT !.pc = pc, !.verdict = verdict],
             pc = "ended" <=> verdict # "none",
             poll.pc \in {"judge", "missing"}, UNCHANGED <<now, steps, runs, checks, statuses>>
      PROVE  WaiterTyped' /\ SeenInv'
  <2>1. /\ poll' \in Waiter /\ poll'.pc = pc /\ poll'.seen = poll.seen
        /\ poll'.verdict = verdict /\ poll'.status = poll.status
        /\ poll'.checks0 = poll.checks0 /\ poll'.statuses0 = poll.statuses0
    BY <1>2, <1>8 DEF Waiter
  <2>2. QED
    BY <1>8, <2>1 DEF WaiterTyped, SeenInv
<1>9. CASE Judge
  <2>1. PICK verdict \in {"missing", "green", "pending", "stale", "failed"} : Judged(verdict)
    BY <1>9, JudgeSplit
  <2>2. poll.pc = "judge" /\ UNCHANGED <<now, steps, runs, checks, statuses>>
    BY <1>9 DEF Judge
  <2>3. CASE verdict \in {"green", "failed"}
    BY <1>8, <2>1, <2>2, <2>3 DEF Verdict, Judged
  <2>4. CASE poll' = [poll EXCEPT !.pc = "missing"]
    <3>1. poll.verdict = "none"
      BY <2>2 DEF WaiterTyped
    <3>2. poll' = [poll EXCEPT !.pc = "missing", !.verdict = "none"]
      BY <1>2, <2>4, <3>1 DEF Waiter
    <3>3. QED
      BY <1>8, <2>2, <3>2 DEF Verdict
  <2>5. QED
    BY <1>4, <2>1, <2>2, <2>3, <2>4 DEF Judged
<1>10. CASE Diagnose
  <2>1. poll.pc = "missing" /\ UNCHANGED <<now, steps, runs, checks, statuses>>
    BY <1>10 DEF Diagnose
  <2>2. CASE poll' = [poll EXCEPT !.pc = "ended", !.verdict = "unscheduled"]
    BY <1>8, <2>1, <2>2 DEF Verdict
  <2>3. QED
    BY <1>4, <1>10, <2>1, <2>2 DEF Diagnose
<1>11. CASE UNCHANGED sgvars
  BY <1>11 DEF sgvars, WaiterTyped, SeenInv
<1>12. QED
  BY <1>3, <1>5, <1>6, <1>7, <1>9, <1>10, <1>11, GitHubGrows DEF SignalsNext, Poll

\* A run starts its check once in each attempt, and is rerun when none is left.
LEMMA RunsStep == ListsTyped /\ RunsInv /\ [SignalsNext]_sgvars => RunsInv'
<1> SUFFICES ASSUME ListsTyped, RunsInv, [SignalsNext]_sgvars PROVE RunsInv'
  OBVIOUS
<1>1. /\ now \in Nat /\ Len(runs) \in Nat /\ Len(checks) \in Nat
      /\ DOMAIN runs = 1..Len(runs) /\ DOMAIN checks = 1..Len(checks)
      /\ runs \in Seq(WorkflowRun) /\ checks \in Seq(CheckRun)
  BY ElementTypes DEF ListsTyped
<1>2. \A r \in DOMAIN runs : /\ runs[r] \in WorkflowRun /\ runs[r].created <= runs[r].started
                             /\ runs[r].started <= now
  BY <1>1 DEF ListsTyped
<1>3. \A i \in DOMAIN checks : /\ checks[i] \in CheckRun /\ checks[i].run \in DOMAIN runs
                               /\ Follows(checks[i], runs[checks[i].run])
  BY <1>1 DEF ListsTyped, RunsInv
<1>4. CASE UNCHANGED <<runs, checks>>
  BY <1>4 DEF RunsInv, Listed, Distinct, Follows
\* A run's check is started.
<1>5. ASSUME NEW r \in Nat, NEW attempt \in {1, 2},
             checks' = Append(checks, Begun(r, attempt)),
             DOMAIN runs \subseteq DOMAIN runs', r \in DOMAIN runs',
             \A i \in DOMAIN checks : checks[i].run # r \/ checks[i].attempt # attempt,
             runs'[r].active, runs'[r].attempt = attempt,
             \A i \in DOMAIN checks : Follows(checks[i], runs'[checks[i].run])
      PROVE  Distinct' /\ \A i \in DOMAIN checks' : Follows(checks'[i], runs'[checks'[i].run])
  <2>1. Begun(r, attempt) \in CheckRun
    BY ElementTypes
  <2>2. /\ DOMAIN checks' = 1..(Len(checks) + 1)
        /\ \A i \in DOMAIN checks : checks'[i] = checks[i]
        /\ checks'[Len(checks) + 1] = Begun(r, attempt)
    BY <1>1, <1>5, <2>1, OneMore
  <2>3. Begun(r, attempt).run = r /\ Begun(r, attempt).attempt = attempt
        /\ Begun(r, attempt).state = "in_progress"
    BY DEF Begun
  <2>4. Follows(Begun(r, attempt), runs'[r])
    BY <1>5, <2>3 DEF Follows
  <2>5. Distinct'
    BY <1>1, <1>5, <2>2, <2>3 DEF RunsInv, Distinct
  <2>6. ASSUME NEW i \in DOMAIN checks' PROVE Follows(checks'[i], runs'[checks'[i].run])
    <3>1. CASE i \in DOMAIN checks
      BY <1>5, <2>2, <3>1
    <3>2. CASE i = Len(checks) + 1
      BY <2>2, <2>3, <2>4, <3>2
    <3>3. QED
      BY <1>1, <2>2, <3>1, <3>2
  <2>7. QED
    BY <2>5, <2>6
<1>6. ASSUME NEW workflow \in Workflow, Trigger(workflow) PROVE RunsInv'
  <2> DEFINE run == [of |-> workflow, created |-> now, attempt |-> 1,
                     started |-> now, active |-> TRUE]
  <2>1. run \in WorkflowRun /\ runs' = Append(runs, run)
    BY <1>6, ElementTypes DEF Trigger
  <2>2. /\ DOMAIN runs' = 1..(Len(runs) + 1)
        /\ \A r \in DOMAIN runs : runs'[r] = runs[r]
        /\ runs'[Len(runs) + 1] = run
    BY <1>1, <2>1, OneMore
  <2>3. Listed'
    <3>1. \A r \in DOMAIN runs : runs[r].created <= now
      BY <1>1, <1>2 DEF WorkflowRun
    <3>2. QED
      BY <1>1, <2>2, <3>1 DEF RunsInv, Listed
  <2>4. \A i \in DOMAIN checks : Follows(checks[i], runs'[checks[i].run])
    BY <1>3, <2>2
  <2>5. CASE checks' = checks
    BY <2>3, <2>4, <2>5 DEF RunsInv, Distinct
  <2>6. CASE checks' = Append(checks, Begun(Len(runs) + 1, 1))
    <3>1. \A i \in DOMAIN checks : checks[i].run # Len(runs) + 1
      BY <1>1, <1>3
    <3>2. PICK r \in Nat : r = Len(runs) + 1
      BY <1>1
    <3>3. Distinct' /\ \A i \in DOMAIN checks' : Follows(checks'[i], runs'[checks'[i].run])
      BY <1>1, <1>5, <2>2, <2>4, <2>6, <3>1, <3>2
    <3>4. QED
      BY <2>3, <3>3 DEF RunsInv
  <2>7. QED
    BY <1>6, <2>5, <2>6 DEF Trigger
<1>7. ASSUME NEW r \in DOMAIN runs, StartCheck(r) PROVE RunsInv'
  <2>1. PICK attempt \in {1, 2} : attempt = runs[r].attempt
    BY <1>2 DEF WorkflowRun
  <2>2. checks' = Append(checks, Begun(r, attempt)) /\ runs' = runs /\ runs[r].active
        /\ \A i \in DOMAIN checks : checks[i].run # r \/ checks[i].attempt # attempt
    BY <1>7, <2>1 DEF StartCheck
  <2>3. Distinct' /\ \A i \in DOMAIN checks' : Follows(checks'[i], runs'[checks'[i].run])
    BY <1>1, <1>3, <1>5, <2>1, <2>2
  <2>4. QED
    BY <2>2, <2>3 DEF RunsInv, Listed
\* A run ends when no check of it is in progress.
<1>8. ASSUME NEW r \in DOMAIN runs, runs' = [runs EXCEPT ![r].active = FALSE],
             NEW i \in DOMAIN checks, checks[i].state # "in_progress" \/ checks[i].run # r
      PROVE  Follows(checks[i], runs'[checks[i].run])
  <2>1. checks[i].run \in DOMAIN runs /\ Follows(checks[i], runs[checks[i].run])
    BY <1>3
  <2>2. runs'[r].attempt = runs[r].attempt /\ runs'[r].started = runs[r].started
        /\ \A q \in DOMAIN runs : q # r => runs'[q] = runs[q]
    BY <1>1, <1>2, <1>8 DEF WorkflowRun
  <2>3. QED
    BY <1>8, <2>1, <2>2 DEF Follows
<1>9. ASSUME NEW r \in DOMAIN runs, DOMAIN runs' = DOMAIN runs,
             runs'[r].created = runs[r].created,
             \A q \in DOMAIN runs : q # r => runs'[q] = runs[q]
      PROVE  Listed'
  BY <1>9 DEF RunsInv, Listed
<1>10. ASSUME NEW i \in DOMAIN checks, NEW conclusion \in {"success", "failure"},
              FinishCheck(i, conclusion)
       PROVE  RunsInv'
  <2>1. PICK r \in DOMAIN runs : r = checks[i].run
    BY <1>3
  <2>2. checks[i].state = "in_progress" /\ runs[r].attempt = checks[i].attempt
    BY <1>3, <1>10, <2>1 DEF FinishCheck, Follows
  <2>3. runs' \in {runs, [runs EXCEPT ![r].active = FALSE]}
    BY <1>10, <2>1 DEF FinishCheck
  <2>4. /\ DOMAIN checks' = DOMAIN checks
        /\ \A j \in DOMAIN checks : j # i => checks'[j] = checks[j]
        /\ checks'[i].run = r /\ checks'[i].attempt = checks[i].attempt
        /\ checks'[i].state = conclusion
    <3>1. checks[i] \in CheckRun
      BY <1>3
    <3>2. checks' = [checks EXCEPT ![i].state = conclusion, ![i].ended = now]
      BY <1>10 DEF FinishCheck
    <3>3. QED
      BY <1>1, <2>1, <3>1, <3>2 DEF CheckRun
  <2>5. Listed' /\ DOMAIN runs' = DOMAIN runs
    <3>1. DOMAIN runs' = DOMAIN runs /\ runs'[r].created = runs[r].created
          /\ \A q \in DOMAIN runs : q # r => runs'[q] = runs[q]
      BY <1>1, <1>2, <2>3 DEF WorkflowRun
    <3>2. QED
      BY <1>9, <3>1
  <2>6. Distinct'
    BY <2>1, <2>4 DEF RunsInv, Distinct
  <2>7. ASSUME NEW j \in DOMAIN checks, j # i PROVE Follows(checks'[j], runs'[checks'[j].run])
    <3>1. CASE runs' = runs
      BY <1>3, <2>4, <2>7, <3>1
    <3>2. CASE runs' = [runs EXCEPT ![r].active = FALSE]
      <4>1. checks[j].state = "in_progress" => checks[j].run # r
        BY <1>3, <2>1, <2>2, <2>7 DEF RunsInv, Distinct, Follows
      <4>2. QED
        BY <1>8, <2>4, <2>7, <3>2, <4>1
    <3>3. QED
      BY <2>3, <3>1, <3>2
  <2>8. Follows(checks'[i], runs'[r])
    <3>1. runs'[r].attempt = runs[r].attempt
      BY <1>1, <1>2, <2>3 DEF WorkflowRun
    <3>2. checks[i].attempt \in Nat
      BY <1>3 DEF CheckRun
    <3>3. QED
      BY <2>2, <2>4, <3>1, <3>2 DEF Follows
  <2>9. QED
    BY <2>4, <2>5, <2>6, <2>7, <2>8 DEF RunsInv
<1>11. ASSUME NEW r \in DOMAIN runs, EndRun(r) PROVE RunsInv'
  <2>1. runs' = [runs EXCEPT ![r].active = FALSE] /\ checks' = checks
        /\ \A i \in DOMAIN checks : checks[i].state # "in_progress" \/ checks[i].run # r
    BY <1>11 DEF EndRun
  <2>2. \A i \in DOMAIN checks : Follows(checks[i], runs'[checks[i].run])
    BY <1>8, <2>1
  <2>3. Listed'
    <3>1. DOMAIN runs' = DOMAIN runs /\ runs'[r].created = runs[r].created
          /\ \A q \in DOMAIN runs : q # r => runs'[q] = runs[q]
      BY <1>1, <1>2, <2>1 DEF WorkflowRun
    <3>2. QED
      BY <1>9, <3>1
  <2>4. QED
    BY <2>1, <2>2, <2>3 DEF RunsInv, Distinct
<1>12. ASSUME NEW r \in DOMAIN runs, Rerun(r) PROVE RunsInv'
  <2>1. /\ runs' = [runs EXCEPT ![r].attempt = 2, ![r].started = now, ![r].active = TRUE]
        /\ ~runs[r].active /\ runs[r].attempt = 1
        /\ \A i \in DOMAIN checks : checks[i].run = r => checks[i].ended < now
        /\ checks' \in {checks, Append(checks, Begun(r, 2))}
    BY <1>12 DEF Rerun
  <2>2. /\ DOMAIN runs' = DOMAIN runs /\ runs'[r].created = runs[r].created
        /\ runs'[r].attempt = 2 /\ runs'[r].started = now /\ runs'[r].active
        /\ \A q \in DOMAIN runs : q # r => runs'[q] = runs[q]
    BY <1>1, <1>2, <2>1 DEF WorkflowRun
  <2>3. Listed'
    BY <1>9, <2>2
  <2>4. ASSUME NEW i \in DOMAIN checks
        PROVE  /\ Follows(checks[i], runs'[checks[i].run])
               /\ checks[i].run # r \/ checks[i].attempt # 2
    <3>1. CASE checks[i].run = r
      <4>1. checks[i].state # "in_progress" /\ checks[i].attempt <= 1 /\ checks[i].attempt \in {1, 2}
        BY <1>3, <2>1, <3>1 DEF Follows, CheckRun
      <4>2. QED
        BY <2>1, <2>2, <3>1, <4>1 DEF Follows
    <3>2. CASE checks[i].run # r
      BY <1>3, <2>2, <3>2
    <3>3. QED
      BY <3>1, <3>2
  <2>5. CASE checks' = checks
    BY <2>3, <2>4, <2>5 DEF RunsInv, Distinct
  <2>6. CASE checks' = Append(checks, Begun(r, 2))
    <3>1. Distinct' /\ \A i \in DOMAIN checks' : Follows(checks'[i], runs'[checks'[i].run])
      BY <1>1, <1>5, <2>2, <2>4, <2>6
    <3>2. QED
      BY <2>3, <3>1 DEF RunsInv
  <2>7. QED
    BY <2>1, <2>5, <2>6
<1>13. CASE Tick \/ Poll \/ \E state \in {"pending", "success", "failure"} : PostStatus(state)
  BY <1>4, <1>13 DEF Tick, PostStatus, Poll, ReadReview, ReadCheckRuns, ReadStatuses, Judge, Diagnose
<1>14. QED
  BY <1>4, <1>6, <1>7, <1>10, <1>11, <1>12, <1>13 DEF SignalsNext, GitHub, sgvars

\* Only the judgement of a poll gives these verdicts, and it is the last step.
LEMMA VerdictGiven ==
    ASSUME WaiterTyped, [SignalsNext]_sgvars, NEW verdict \in {"green", "failed"},
           poll'.verdict = verdict
    PROVE  \/ UNCHANGED sgvars
           \/ /\ Judged(verdict) /\ poll.pc = "judge" /\ UNCHANGED <<now, steps, runs, checks, statuses>>
              /\ UNCHANGED <<poll.seen, poll.status, poll.checks0, poll.statuses0>>
<1>1. poll \in Waiter /\ (poll.pc = "ended" <=> poll.verdict # "none")
  BY DEF WaiterTyped
<1>2. CASE Judge
  <2>1. PICK judged \in {"missing", "green", "pending", "stale", "failed"} : Judged(judged)
    BY <1>2, JudgeSplit
  <2>2. poll.verdict = "none" /\ poll.pc = "judge" /\ UNCHANGED <<now, steps, runs, checks, statuses>>
    BY <1>1, <1>2 DEF Judge
  <2>3. CASE judged \in {"green", "failed"}
    <3>1. /\ poll' = [poll EXCEPT !.pc = "ended", !.verdict = judged] /\ poll'.verdict = judged
          /\ UNCHANGED <<poll.seen, poll.status, poll.checks0, poll.statuses0>>
      BY <1>1, <2>1, <2>3 DEF Judged, Waiter
    <3>2. QED
      BY <2>1, <2>2, <3>1
  <2>4. CASE judged \notin {"green", "failed"}
    <3>1. poll'.verdict = "none"
      BY <1>1, <2>1, <2>2, <2>4, FreshWaiter DEF Judged, Waiter
    <3>2. QED
      BY <3>1
  <2>5. QED
    BY <2>3, <2>4
<1>3. CASE ReadReview \/ Diagnose
  <2>1. poll'.verdict \notin {"green", "failed"}
    BY <1>1, <1>3, FreshWaiter DEF ReadReview, Diagnose, Waiter
  <2>2. QED
    BY <2>1
<1>4. CASE ReadCheckRuns \/ ReadStatuses \/ (poll.pc # "ended" /\ GitHub)
  <2>1. poll'.verdict = poll.verdict /\ poll.pc # "ended"
    BY <1>1, <1>4 DEF ReadCheckRuns, ReadStatuses, Waiter, GitHub, Tick, Trigger, StartCheck,
       EndRun, Rerun, FinishCheck, PostStatus
  <2>2. QED
    BY <1>1, <2>1
<1>5. QED
  BY <1>2, <1>3, <1>4 DEF SignalsNext, Poll

LEMMA GreenStep ==
    ListsTyped /\ WaiterTyped /\ SeenInv /\ GreenOutranks /\ [SignalsNext]_sgvars => GreenOutranks'
<1> SUFFICES ASSUME ListsTyped, WaiterTyped, SeenInv, GreenOutranks, [SignalsNext]_sgvars,
                    poll'.verdict = "green"
             PROVE  GreenOutranks'
  BY DEF GreenOutranks
<1>1. CASE UNCHANGED sgvars
  BY <1>1 DEF sgvars, GreenOutranks
<1>2. CASE /\ Judged("green") /\ poll.pc = "judge" /\ UNCHANGED <<now, steps, runs, checks, statuses>>
           /\ UNCHANGED <<poll.seen, poll.status, poll.checks0, poll.statuses0>>
  <2>1. \A v \in Values : v.state = "success"
    BY <1>2 DEF Judged
  <2>2. /\ poll.checks0 \in Nat /\ poll.statuses0 \in Nat /\ poll.status \in Nat
        /\ poll.seen \in Seq(CheckRun) /\ DOMAIN checks = 1..Len(checks) /\ Len(checks) \in Nat
        /\ DOMAIN statuses = 1..Len(statuses) /\ Len(statuses) \in Nat
    BY ElementTypes DEF WaiterTyped, Waiter
  <2>3. ASSUME NEW i \in 1..poll.checks0, checks[i].state # "success"
        PROVE  \E j \in DOMAIN checks : j > i /\ checks[j].state = "success"
    <3>1. PICK k \in DOMAIN checks :
              /\ poll.checks0 <= k /\ poll.seen # << >>
              /\ poll.seen[1].state # "in_progress" => checks[k] = poll.seen[1]
      BY <1>2, <2>2 DEF SeenInv
    <3>2. 1 \in DOMAIN poll.seen
      BY <2>2, <3>1
    <3>3. PICK c : c = poll.seen[1]
      OBVIOUS
    <3>4. \E v \in OfCheck : v.state = c.state
      <4>1. c \in {poll.seen[j] : j \in DOMAIN poll.seen}
        BY <3>2, <3>3
      <4>2. [state |-> c.state, at |-> IF c.ended # NoTime THEN c.ended ELSE c.begun] \in OfCheck
        BY <4>1 DEF OfCheck
      <4>3. QED
        BY <4>2
    <3>5. c.state = "success"
      BY <2>1, <3>4 DEF Values
    <3>6. checks[k].state = "success" /\ k # i
      BY <2>3, <3>1, <3>3, <3>5
    <3>7. QED
      BY <2>2, <3>1, <3>6
  <2>4. ASSUME NEW i \in 1..poll.statuses0, statuses[i].state # "success"
        PROVE  \E j \in DOMAIN statuses : j > i /\ statuses[j].state = "success"
    <3>1. poll.statuses0 <= poll.status /\ poll.status <= Len(statuses)
      BY <1>2 DEF SeenInv, WaiterTyped
    <3>2. poll.status \in DOMAIN statuses /\ poll.status # 0 /\ i <= poll.status
      BY <2>2, <3>1
    <3>3. statuses[poll.status].state = "success"
      BY <2>1, <3>2 DEF Values, OfStatus
    <3>4. poll.status > i
      BY <2>2, <2>4, <3>2, <3>3
    <3>5. QED
      BY <3>2, <3>3, <3>4
  <2>5. UNCHANGED <<checks, statuses, poll.checks0, poll.statuses0>>
    BY <1>2
  <2>6. QED
    BY <2>3, <2>4, <2>5 DEF GreenOutranks
<1>3. QED
  BY <1>1, <1>2, VerdictGiven

LEMMA FailureStep ==
    /\ ListsTyped /\ WaiterTyped /\ RunsInv /\ SeenInv /\ FailureIsFinal /\ [SignalsNext]_sgvars
    => FailureIsFinal'
<1> SUFFICES ASSUME ListsTyped, WaiterTyped, RunsInv, SeenInv, FailureIsFinal,
                    [SignalsNext]_sgvars, poll'.verdict = "failed"
             PROVE  FailureIsFinal'
  BY DEF FailureIsFinal
<1>1. CASE UNCHANGED sgvars
  BY <1>1 DEF sgvars, FailureIsFinal, OfStatus, Failing, Values, OfCheck, Active
<1>2. CASE /\ Judged("failed") /\ poll.pc = "judge" /\ UNCHANGED <<now, steps, runs, checks, statuses>>
           /\ UNCHANGED <<poll.seen, poll.status, poll.checks0, poll.statuses0>>
  <2>1. OfStatus' = OfStatus /\ Failing' = Failing /\ Active' = Active
    BY <1>2 DEF OfStatus, Failing, Values, OfCheck, Active
  <2>2. SUFFICES ASSUME ~\E v \in OfStatus : v \in Failing,
                        NEW r \in DOMAIN runs, runs[r].active,
                        runs[r].of = runs[poll.seen[1].run].of,
                        \/ r > poll.seen[1].run
                        \/ r = poll.seen[1].run /\ runs[r].attempt > poll.seen[1].attempt
                 PROVE  FALSE
    <3>1. SUFFICES ASSUME ~\E v \in OfStatus : v \in Failing, NEW a \in Active,
                          runs[a[1]].of = runs[poll.seen[1].run].of,
                          \/ a[1] > poll.seen[1].run
                          \/ a[1] = poll.seen[1].run /\ a[2] > poll.seen[1].attempt
                   PROVE  FALSE
      BY <1>2, <2>1 DEF FailureIsFinal
    <3>2. PICK r \in DOMAIN runs : runs[r].active /\ a = <<r, runs[r].attempt>>
      BY DEF Active
    <3>3. QED
      BY <2>2, <3>1, <3>2
  <2>3. poll.seen \in Seq(CheckRun) /\ Len(poll.seen) <= 1
    BY DEF WaiterTyped, Waiter
  <2>4. PICK v \in OfCheck : v.state \notin Pending \cup {"success"}
    BY <1>2, <2>2 DEF Judged, Failing, Values
  <2>5. PICK i \in DOMAIN poll.seen : poll.seen[i].state = v.state
    BY <2>4 DEF OfCheck
  <2>6. i = 1 /\ poll.seen # << >>
    BY <2>3, <2>5
  <2>7. PICK c \in CheckRun : c = poll.seen[1]
    BY <2>3, <2>5, <2>6
  <2>8. c.state = "failure"
    BY <2>4, <2>5, <2>6, <2>7 DEF CheckRun, Pending
  <2>9. PICK k \in DOMAIN checks : checks[k] = c
    BY <1>2, <2>6, <2>7, <2>8 DEF SeenInv
  <2>10. c.run \in DOMAIN runs /\ Follows(c, runs[c.run])
    BY <2>9 DEF ListsTyped, RunsInv
  <2>11. ~Replaced(c)
    BY <1>2, <2>2, <2>6, <2>7, <2>8 DEF Judged
  <2>12. runs[r] \in WorkflowRun /\ runs[c.run] \in WorkflowRun /\ r \in Nat /\ c.run \in Nat
    BY <2>10, ElementTypes
  <2>13. CASE r > c.run
    <3>1. runs[c.run].created <= runs[r].created
      BY <2>10, <2>12, <2>13 DEF RunsInv, Listed
    <3>2. runs[r].created > runs[c.run].created \/ runs[r].created = runs[c.run].created
      BY <2>12, <3>1 DEF WorkflowRun
    <3>3. QED
      BY <2>2, <2>7, <2>11, <2>13, <3>2 DEF Replaced
  <2>14. CASE r = c.run /\ runs[r].attempt > c.attempt
    <3>1. c.ended < runs[r].started
      BY <2>10, <2>12, <2>14 DEF Follows, CheckRun, WorkflowRun
    <3>2. runs[r].attempt > 1 /\ runs[r].started > c.ended
      BY <2>12, <2>14, <3>1 DEF CheckRun, WorkflowRun, NoTime
    <3>3. QED
      BY <2>2, <2>7, <2>11, <2>14, <3>2 DEF Replaced
  <2>15. QED
    BY <2>2, <2>7, <2>13, <2>14
<1>3. QED
  BY <1>1, <1>2, VerdictGiven

LEMMA SignalsInitial == SignalsInit => SignalsInv
<1> SUFFICES ASSUME SignalsInit PROVE SignalsInv
  OBVIOUS
<1>1. runs = << >> /\ checks = << >> /\ statuses = << >> /\ now = 0 /\ steps = 0 /\ poll = Fresh
  BY DEF SignalsInit
<1>2. DOMAIN runs = {} /\ DOMAIN checks = {} /\ Len(checks) = 0 /\ Len(statuses) = 0
  BY <1>1
<1>3. /\ runs \in Seq(WorkflowRun) /\ checks \in Seq(CheckRun) /\ statuses \in Seq(Status)
      /\ now \in 0..MaxTime /\ steps \in 0..MaxSteps
  BY <1>1, TimesAssumption
<1>4. ListsTyped /\ RunsInv
  BY <1>2, <1>3 DEF ListsTyped, RunsInv, Listed, Distinct
<1>5. Len(poll.seen) = 0
  BY <1>1, FreshWaiter
<1>6. WaiterTyped
  BY <1>1, <1>2, <1>5, FreshWaiter DEF WaiterTyped
<1>7. SeenInv /\ GreenOutranks /\ FailureIsFinal
  BY <1>1, FreshWaiter DEF SeenInv, GreenOutranks, FailureIsFinal
<1>8. QED
  BY <1>4, <1>6, <1>7 DEF SignalsInv

LEMMA SignalsAlways == SignalsSpec => []SignalsInv
<1>1. SignalsInv /\ [SignalsNext]_sgvars => SignalsInv'
  BY ListsStep, WaiterStep, RunsStep, GreenStep, FailureStep DEF SignalsInv
<1>2. QED
  BY <1>1, SignalsInitial, PTL DEF SignalsSpec

\* Every reachable state of the wait has its type (_wait_for_checks).
THEOREM SignalsTypeCorrect == SignalsSpec => []SignalsTypeOK
<1>1. SignalsInv => SignalsTypeOK
  <2> SUFFICES ASSUME SignalsInv PROVE SignalsTypeOK
    OBVIOUS
  <2>1. ListsTyped /\ WaiterTyped /\ poll \in Waiter
    BY DEF SignalsInv, WaiterTyped
  <2>2. \A r \in DOMAIN runs : runs[r].started >= runs[r].created
    BY <2>1, ElementTypes DEF ListsTyped, WorkflowRun
  <2>3. poll.status \in 0..Len(statuses)
    BY <2>1, ElementTypes DEF WaiterTyped, Waiter
  <2>4. QED
    BY <2>1, <2>2, <2>3 DEF ListsTyped, WaiterTyped, Waiter, Verdict, SignalsTypeOK
<1>2. QED
  BY <1>1, SignalsAlways, PTL

\* A green answer is of the newest: each check run and status there was when the
\* poll began, and that is no success, has a newer one that is (_check_signals).
THEOREM SignalsGreenOutranks == SignalsSpec => []GreenOutranks
<1>1. SignalsInv => GreenOutranks
  BY DEF SignalsInv
<1>2. QED
  BY <1>1, SignalsAlways, PTL

\* A failed check run does not end the wait while a newer run of its workflow, or
\* its own rerun, is active (_has_active_replacement).
THEOREM SignalsFailureIsFinal == SignalsSpec => []FailureIsFinal
<1>1. SignalsInv => FailureIsFinal
  BY DEF SignalsInv
<1>2. QED
  BY <1>1, SignalsAlways, PTL

-----------------------------------------------------------------------------
(* The instances: each run is one of the part's own specification.         *)

LEMMA PartSteps ==
    GithubNext => [Next]_vars /\ [SignalsNext]_sgvars /\ [TransportNext]_txvars
BY DEF GithubNext

\* What holds of each part by itself holds where they are put side by side, and
\* every part keeps its types (cmd_check, attest_candidate, github.run).
THEOREM GithubTypeCorrect == GithubSpec => []GithubTypeOK
<1>1. GithubInit => Init /\ SignalsInit /\ TransportInit
  BY DEF GithubInit
<1>2. [GithubNext]_githubVars => [Next]_vars /\ [SignalsNext]_sgvars /\ [TransportNext]_txvars
  BY PartSteps DEF githubVars
<1>3. GithubSpec => Spec /\ SignalsSpec /\ TransportSpec
  BY <1>1, <1>2, PTL DEF GithubSpec, Spec, SignalsSpec, TransportSpec
<1>4. QED
  BY <1>3, CandidateTypeCorrect, SignalsTypeCorrect, TransportTypeCorrect, PTL DEF GithubTypeOK
=============================================================================
