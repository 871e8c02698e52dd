----------------------------- MODULE BudgetProofs -----------------------------
(***************************************************************************)
(* The budget of module Budget is kept for every set of commits and        *)
(* however the branch is rewritten.  Review.tla implements Budget!Spec for *)
(* one session (ReviewProofs), so this holds of its reviews too.           *)
(***************************************************************************)
EXTENDS Budget, SequenceTheorems, TLAPS

\* A review is of a commit that exists, so a commit that is made later holds
\* in its lineage only the reviews of the commit it is made from.
BudgetInv ==
    /\ published \in Seq(Entry) /\ anc \in [Commit -> SUBSET Commit]
    /\ \A i \in DOMAIN published : anc[published[i].head] # {}
    /\ BudgetKept

\* A review that every lineage of its head allows is the first of its kind in
\* each of them.
LEMMA PublishKeeps ==
    ASSUME BudgetInv, NEW h \in Commit, NEW kind \in Kinds, Publish(h, kind)
    PROVE  BudgetInv'
  <1> DEFINE e == [head |-> h, kind |-> kind]
             n == Len(published)
  <1>1. e \in Entry /\ e.head = h /\ e.kind = kind
    BY DEF Entry
  <1>2. published' = Append(published, e) /\ anc' = anc /\ anc[h] # {}
    BY DEF Publish
  <1>3. published \in Seq(Entry)
    BY DEF BudgetInv
  <1> HIDE DEF e
  <1>4. /\ published' \in Seq(Entry) /\ DOMAIN published' = 1..(n + 1)
        /\ DOMAIN published = 1..n /\ n \in Nat
        /\ \A i \in 1..n : published'[i] = published[i]
        /\ published'[n + 1] = e
    BY <1>1, <1>2, <1>3, AppendProperties
  <1>5. \A i \in DOMAIN published' : anc'[published'[i].head] # {}
    BY <1>1, <1>2, <1>4 DEF BudgetInv
  <1>6. ASSUME NEW x \in Commit, NEW i \in 1..n,
               published[i].kind = kind, published[i].head \in anc[x]
        PROVE  h \notin anc[x]
    <2>1. i \in Of(kind, x)
      BY <1>4, <1>6 DEF Of
    <2>2. h \in anc[x] => Of(kind, x) = {}
      BY DEF Publish, Allowed, Kinds
    <2>3. QED BY <2>1, <2>2
  <1>7. BudgetKept'
    <2> SUFFICES ASSUME NEW x \in Commit, NEW i \in DOMAIN published',
                        NEW j \in DOMAIN published',
                        published'[i].kind = published'[j].kind,
                        published'[i].head \in anc[x], published'[j].head \in anc[x]
                 PROVE  i = j
      BY <1>2 DEF BudgetKept
    <2>1. CASE i \in 1..n /\ j \in 1..n
      BY <2>1, <1>4 DEF BudgetInv, BudgetKept
    <2>2. CASE i = n + 1 /\ j \in 1..n
      BY <2>2, <1>1, <1>4, <1>6
    <2>3. CASE i \in 1..n /\ j = n + 1
      BY <2>3, <1>1, <1>4, <1>6
    <2>4. QED BY <2>1, <2>2, <2>3, <1>4
  <1>8. QED BY <1>2, <1>4, <1>5, <1>7 DEF BudgetInv

LEMMA NewCommitKeeps ==
    ASSUME BudgetInv, NEW c \in Commit, NewCommit(c)
    PROVE  BudgetInv'
  <1>1. anc \in [Commit -> SUBSET Commit] /\ published' = published /\ anc[c] = {}
    BY DEF BudgetInv, NewCommit
  <1>2. PICK y \in Commit, below \in SUBSET Commit :
          /\ below \in {anc[y], anc[y] \ {y}}
          /\ anc' = [anc EXCEPT ![c] = below \cup {c}]
    BY Zenon DEF NewCommit
  <1>3. /\ anc' \in [Commit -> SUBSET Commit] /\ anc'[c] = below \cup {c}
        /\ \A x \in Commit : x # c => anc'[x] = anc[x]
    BY <1>1, <1>2
  <1>4. ASSUME NEW i \in DOMAIN published
        PROVE  published[i].head \in Commit /\ published[i].head # c
    <2>1. published \in Seq(Entry) /\ anc[published[i].head] # {}
      BY DEF BudgetInv
    <2>2. published[i] \in Entry
      BY <2>1
    <2>3. QED BY <1>1, <2>1, <2>2 DEF Entry
  <1>5. \A i \in DOMAIN published' : anc'[published'[i].head] # {}
    BY <1>1, <1>3, <1>4 DEF BudgetInv
  <1>6. BudgetKept'
    <2> SUFFICES ASSUME NEW x \in Commit, NEW i \in DOMAIN published,
                        NEW j \in DOMAIN published,
                        published[i].kind = published[j].kind,
                        published[i].head \in anc'[x], published[j].head \in anc'[x]
                 PROVE  i = j
      BY <1>1 DEF BudgetKept
    <2>1. CASE x # c
      BY <2>1, <1>3 DEF BudgetInv, BudgetKept
    <2>2. CASE x = c
      <3>1. published[i].head \in anc[y] /\ published[j].head \in anc[y]
        BY <2>2, <1>2, <1>3, <1>4
      <3>2. QED BY <3>1 DEF BudgetInv, BudgetKept
    <2>3. QED BY <2>1, <2>2
  <1>7. QED BY <1>1, <1>3, <1>5, <1>6 DEF BudgetInv

\* One primary and at most one delta per head lineage (core/CONTRACT.md,
\* cli._decide_kind), whatever is rewritten in between.
THEOREM BudgetHolds == Spec => []BudgetKept
  <1>1. Init => BudgetInv
    BY DEF Init, BudgetInv, BudgetKept
  <1>2. BudgetInv /\ [Next]_<<published, anc>> => BudgetInv'
    <2> SUFFICES ASSUME BudgetInv, [Next]_<<published, anc>> PROVE BudgetInv'
      OBVIOUS
    <2>1. CASE Next
      BY <2>1, PublishKeeps, NewCommitKeeps DEF Next
    <2>2. CASE UNCHANGED <<published, anc>>
      BY <2>2 DEF BudgetInv, BudgetKept
    <2>3. QED BY <2>1, <2>2
  <1>3. BudgetInv => BudgetKept
    BY DEF BudgetInv
  <1>4. QED BY <1>1, <1>2, <1>3, PTL DEF Spec

=============================================================================
