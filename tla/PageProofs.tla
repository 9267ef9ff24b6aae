----------------------------- MODULE PageProofs -----------------------------
(***************************************************************************)
(* Proofs about a job's page, for every set of files, of runs and of       *)
(* queries, and for every limit.                                           *)
(*                                                                         *)
(* The picture: the walk is breadth first.  WalkInv says that the queue is *)
(* in the order of the columns, that it is never more than a column behind *)
(* and that only its nodes are still to be followed; so when it is empty,  *)
(* the first k columns are the jobs within k hops, for every k.  And the   *)
(* boxes of a column are stacked, however many there are, inside a picture *)
(* that has room for the fullest.                                          *)
(*                                                                         *)
(* The list: RunInv says that the records are in the order of their start, *)
(* which the filter keeps and the insertion sort turns into the order of   *)
(* the query.  ReaderInv says that above a run which is still to be shown  *)
(* there are as many newer ones as the pages so far have rows.             *)
(***************************************************************************)
EXTENDS JobPage, ConfigProofs, Extremes, FiniteSetTheorems

-----------------------------------------------------------------------------
(* Least and greatest elements.                                              *)
LEMMA MaxIs ==
  ASSUME NEW S \in SUBSET Int, NEW x \in S, \A y \in S : y <= x
  PROVE  Max(S) = x
<1>1. Max(S) \in S /\ \A y \in S : Max(S) >= y
  BY DEF Max
<1>2. Max(S) \in Int /\ x \in Int /\ Max(S) >= x /\ Max(S) <= x
  BY <1>1
<1>. QED
  BY <1>2

(* Nothing above x in S, S within 1..x.                                      *)
LEMMA MaxUpTo ==
  ASSUME NEW k \in Nat, NEW S \in SUBSET (1..k), k \in S
  PROVE  Max(S) = k
<1>1. S \in SUBSET Int /\ \A y \in S : y <= k
  OBVIOUS
<1>. QED
  BY <1>1, MaxIs

LEMMA MaxUpToIn ==
  ASSUME NEW k \in Nat, NEW S \in SUBSET (1..k), S # {}
  PROVE  Max(S) \in S
<1>1. S \in SUBSET Nat /\ \A y \in S : y <= k
  OBVIOUS
<1>2. PICK x \in S : \A y \in S : x >= y
  BY <1>1, GreatestExists
<1>. QED
  BY <1>1, <1>2, MaxIs

-----------------------------------------------------------------------------
(* The recursion by which the community modules fold a sequence from the     *)
(* left takes the greatest index first: f[1..n] is the fold of the first n.  *)
Folds(f, op, base, seq, n) ==
  \A s \in SUBSET (1..n) :
    f[s] = IF s = {} THEN base ELSE op[<<f[s \ {Max(s)}], seq[Max(s)]>>]

Holds(seq, n, B) == \A i \in 1..n : seq[i] \in B

LEMMA FoldExists ==
  ASSUME NEW A, NEW B, NEW op \in [A \X B -> A], NEW base \in A, NEW seq, NEW n \in Nat,
         Holds(seq, n, B)
  PROVE  \E f \in [SUBSET (1..n) -> A] : Folds(f, op, base, seq, n)
<1>. DEFINE N == {k \in Nat : k <= n =>
                    \E f \in [SUBSET (1..k) -> A] : Folds(f, op, base, seq, k)}
<1>1. 0 \in N
  <2>. DEFINE f == [s \in SUBSET (1..0) |-> base]
  <2>1. \A s \in SUBSET (1..0) : s = {}
    OBVIOUS
  <2>2. f \in [SUBSET (1..0) -> A] /\ Folds(f, op, base, seq, 0)
    BY <2>1 DEF Folds
  <2>. QED
    BY <2>2
<1>2. ASSUME NEW k \in Nat, k \in N PROVE k + 1 \in N
  <2>. PICK m \in Nat : m = k + 1
    OBVIOUS
  <2>. SUFFICES ASSUME m <= n
                PROVE  \E f \in [SUBSET (1..m) -> A] : Folds(f, op, base, seq, m)
    OBVIOUS
  <2>1. PICK f \in [SUBSET (1..k) -> A] : Folds(f, op, base, seq, k)
    <3>1. k <= n
      OBVIOUS
    <3>. QED
      BY <1>2, <3>1
  <2>. DEFINE g == [s \in SUBSET (1..m) |-> IF m \in s THEN op[<<f[s \ {m}], seq[m]>>] ELSE f[s]]
  <2>2. m \in 1..n /\ seq[m] \in B
    BY DEF Holds
  <2>3. \A s \in SUBSET (1..m) :
          /\ s \ {m} \in SUBSET (1..k) /\ (m \notin s => s \in SUBSET (1..k))
          /\ \A x : s \ {x} \in SUBSET (1..m)
    <3>1. 1..m = 1..k \cup {m}
      OBVIOUS
    <3>. QED
      BY <3>1
  <2>4. g \in [SUBSET (1..m) -> A]
    <3>. SUFFICES ASSUME NEW s \in SUBSET (1..m)
                  PROVE  (IF m \in s THEN op[<<f[s \ {m}], seq[m]>>] ELSE f[s]) \in A
      OBVIOUS
    <3>1. CASE m \in s
      <4>1. f[s \ {m}] \in A
        BY <2>3
      <4>. QED
        BY <2>2, <3>1, <4>1
    <3>2. CASE m \notin s
      BY <2>3, <3>2
    <3>. QED
      BY <3>1, <3>2
  <2>5. Folds(g, op, base, seq, m)
    <3>. SUFFICES ASSUME NEW s \in SUBSET (1..m)
                  PROVE  g[s] = IF s = {} THEN base ELSE op[<<g[s \ {Max(s)}], seq[Max(s)]>>]
      BY DEF Folds
    <3>1. CASE m \in s
      <4>1. Max(s) = m
        BY <3>1, MaxUpTo
      <4>2. g[s \ {m}] = f[s \ {m}]
        BY <2>3
      <4>3. g[s] = op[<<f[s \ {m}], seq[m]>>]
        BY <3>1
      <4>. QED
        BY <3>1, <4>1, <4>2, <4>3
    <3>2. CASE m \notin s
      <4>1. s \in SUBSET (1..k) /\ g[s] = f[s]
        BY <2>3, <3>2
      <4>2. f[s] = IF s = {} THEN base ELSE op[<<f[s \ {Max(s)}], seq[Max(s)]>>]
        BY <2>1, <4>1 DEF Folds
      <4>3. s # {} => g[s \ {Max(s)}] = f[s \ {Max(s)}]
        <5>1. m \notin s \ {Max(s)} /\ s \ {Max(s)} \in SUBSET (1..m)
          BY <2>3, <3>2
        <5>. QED
          BY <5>1
      <4>. QED
        BY <4>1, <4>2, <4>3
    <3>. QED
      BY <3>1, <3>2
  <2>. QED
    BY <2>4, <2>5
<1>3. Nat \subseteq N
  <2>. HIDE DEF N
  <2>. QED
    BY <1>1, <1>2, AllNat
<1>4. n \in N
  BY <1>3
<1>. QED
  <2>1. n <= n
    OBVIOUS
  <2>. QED
    BY <1>4, <2>1, Zenon

-----------------------------------------------------------------------------
(* One target met by the walk.                                               *)
Meet(acc, t, l) ==
  IF t \in DOMAIN acc.level THEN acc
  ELSE [level |-> Placed(acc.level, {t}, l), queue |-> Append(acc.queue, t)]

Rounds(base, seq, l) ==
  CHOOSE f : f = [s \in SUBSET DOMAIN seq |->
                    IF s = {} THEN base ELSE Meet(f[s \ {Max(s)}], seq[Max(s)], l)]

LEMMA DiscoverRounds ==
  ASSUME NEW from, NEW job
  PROVE  Discover(from, job) =
           Rounds([level |-> level, queue |-> Tail(queue)], Chained(job), level[from] + 1)
             [DOMAIN Chained(job)]
BY DEF Discover, FoldLeft, MapThenFoldSet, Rounds, Meet

Levels == UNION {[D -> Int] : D \in SUBSET Name}
Acc == [level : Levels, queue : Seq(Name)]

LEMMA NewNode ==
  ASSUME NEW D \in SUBSET Name, NEW f \in [D -> Int], NEW t \in Name \ D, NEW l \in Int
  PROVE  /\ Placed(f, {t}, l) \in [D \cup {t} -> Int]
         /\ \A n \in D : Placed(f, {t}, l)[n] = f[n]
         /\ Placed(f, {t}, l)[t] = l
BY DEF Placed

LEMMA MeetType ==
  ASSUME NEW acc \in Acc, NEW t \in Name, NEW l \in Int
  PROVE  Meet(acc, t, l) \in Acc
<1>1. PICK D \in SUBSET Name : acc.level \in [D -> Int]
  BY DEF Acc, Levels
<1>2. CASE t \in D
  BY <1>1, <1>2 DEF Meet
<1>3. CASE t \notin D
  <2>1. Placed(acc.level, {t}, l) \in [D \cup {t} -> Int]
    BY <1>1, <1>3, NewNode
  <2>2. Append(acc.queue, t) \in Seq(Name)
    BY DEF Acc
  <2>3. Placed(acc.level, {t}, l) \in Levels
    BY <2>1 DEF Levels
  <2>4. Meet(acc, t, l) = [level |-> Placed(acc.level, {t}, l), queue |-> Append(acc.queue, t)]
    BY <1>1, <1>3 DEF Meet
  <2>. QED
    BY <2>2, <2>3, <2>4 DEF Acc
<1>. QED
  BY <1>2, <1>3

(* The walk meets the targets one after the other, from the first.           *)
LEMMA RoundsStep ==
  ASSUME NEW base \in Acc, NEW seq \in Seq(Name), NEW l \in Int
  PROVE  /\ Rounds(base, seq, l)[1..0] = base
         /\ \A k \in 1..Len(seq) :
              Rounds(base, seq, l)[1..k] = Meet(Rounds(base, seq, l)[1..(k - 1)], seq[k], l)
<1>. DEFINE op == [p \in Acc \X Name |-> Meet(p[1], p[2], l)]
            n == Len(seq)
            F == Rounds(base, seq, l)
<1>1. n \in Nat /\ DOMAIN seq = 1..n /\ \A i \in 1..n : seq[i] \in Name
  BY LenProperties, ElementOfSeq
<1>2. op \in [Acc \X Name -> Acc]
  BY MeetType
<1>3. \A acc \in Acc, t \in Name : op[<<acc, t>>] = Meet(acc, t, l)
  OBVIOUS
<1>. HIDE DEF op, n
<1>4. PICK f \in [SUBSET (1..n) -> Acc] : Folds(f, op, base, seq, n)
  <2>1. Holds(seq, n, Name) /\ n \in Nat
    BY <1>1 DEF Holds
  <2>. QED
    BY <1>2, <2>1, FoldExists
<1>5. ASSUME NEW s \in SUBSET (1..n)
      PROVE  f[s] = IF s = {} THEN base ELSE Meet(f[s \ {Max(s)}], seq[Max(s)], l)
  <2>1. f[s] = IF s = {} THEN base ELSE op[<<f[s \ {Max(s)}], seq[Max(s)]>>]
    BY <1>4 DEF Folds
  <2>2. CASE s # {}
    <3>1. Max(s) \in 1..n
      BY <1>1, <2>2, MaxUpToIn
    <3>2. seq[Max(s)] \in Name
      BY <1>1, <3>1
    <3>3. f[s \ {Max(s)}] \in Acc
      OBVIOUS
    <3>. QED
      BY <1>3, <2>1, <2>2, <3>2, <3>3
  <2>. QED
    BY <2>1, <2>2
<1>6. f = [s \in SUBSET DOMAIN seq |-> IF s = {} THEN base ELSE Meet(f[s \ {Max(s)}], seq[Max(s)], l)]
  BY <1>1, <1>5
<1>7. F = [s \in SUBSET DOMAIN seq |-> IF s = {} THEN base ELSE Meet(F[s \ {Max(s)}], seq[Max(s)], l)]
  BY <1>6 DEF Rounds
<1>. HIDE DEF F
<1>8. \A s \in SUBSET (1..n) : F[s] = IF s = {} THEN base ELSE Meet(F[s \ {Max(s)}], seq[Max(s)], l)
  BY <1>1, <1>7
<1>9. F[1..0] = base
  <2>1. 1..0 = {} /\ 1..0 \in SUBSET (1..n)
    OBVIOUS
  <2>. QED
    BY <1>8, <2>1
<1>10. ASSUME NEW k \in 1..n PROVE F[1..k] = Meet(F[1..(k - 1)], seq[k], l)
  <2>1. k \in Nat /\ k \in 1..k /\ (1..k) \ {k} = 1..(k - 1) /\ 1..k \in SUBSET (1..n)
    BY <1>1
  <2>2. Max(1..k) = k /\ 1..k # {}
    BY <2>1, MaxUpTo
  <2>. QED
    BY <1>8, <2>1, <2>2
<1>. QED
  BY <1>9, <1>10 DEF n, F

(* What a walk that has met the targets S, at distance l, makes of base.     *)
Reached(acc, base, S, l) ==
  /\ acc.level \in [DOMAIN base.level \cup S -> Int]
  /\ \A n \in DOMAIN base.level : acc.level[n] = base.level[n]
  /\ \A n \in S \ DOMAIN base.level : acc.level[n] = l
  /\ acc.queue \in Seq(Name) /\ Len(base.queue) <= Len(acc.queue)
  /\ \A i \in 1..Len(base.queue) : acc.queue[i] = base.queue[i]
  /\ \A i \in 1..Len(acc.queue) : i > Len(base.queue) => acc.queue[i] \in S \ DOMAIN base.level
  /\ \A n \in S \ DOMAIN base.level : \E i \in 1..Len(acc.queue) : acc.queue[i] = n

LEMMA MeetReaches ==
  ASSUME NEW base \in Acc, NEW acc, NEW S \in SUBSET Name, NEW t \in Name, NEW l \in Int,
         Reached(acc, base, S, l)
  PROVE  Reached(Meet(acc, t, l), base, S \cup {t}, l)
<1>. DEFINE D == DOMAIN base.level
            next == Meet(acc, t, l)
<1>1. D \in SUBSET Name /\ base.level \in [D -> Int] /\ Len(base.queue) \in Nat
  BY LenProperties DEF Acc, Levels
<1>2. acc.level \in [D \cup S -> Int] /\ DOMAIN acc.level = D \cup S
  BY DEF Reached
<1>. HIDE DEF D
<1>3. CASE t \in D \cup S
  <2>1. next = acc
    BY <1>2, <1>3 DEF Meet
  <2>2. D \cup (S \cup {t}) = D \cup S /\ (S \cup {t}) \ D = S \ D
    BY <1>3
  <2>. QED
    BY <2>1, <2>2 DEF Reached, D
<1>4. CASE t \notin D \cup S
  <2>1. next.level = Placed(acc.level, {t}, l) /\ next.queue = Append(acc.queue, t)
    BY <1>2, <1>4 DEF Meet
  <2>2. /\ next.level \in [(D \cup S) \cup {t} -> Int]
        /\ \A n \in D \cup S : next.level[n] = acc.level[n]
        /\ next.level[t] = l
    <3>2. PICK E \in SUBSET Name : E = D \cup S
      BY <1>1
    <3>3. PICK f \in [E -> Int] : f = acc.level
      BY <1>2, <3>2
    <3>1. /\ Placed(f, {t}, l) \in [E \cup {t} -> Int]
          /\ \A n \in E : Placed(f, {t}, l)[n] = f[n]
          /\ Placed(f, {t}, l)[t] = l
      <4>1. t \in Name \ E
        BY <1>4, <3>2
      <4>. QED
        BY <4>1 DEF Placed
    <3>. QED
      BY <2>1, <3>1, <3>2, <3>3
  <2>3. /\ acc.queue \in Seq(Name) /\ Len(acc.queue) \in Nat
        /\ next.queue \in Seq(Name) /\ Len(next.queue) = Len(acc.queue) + 1
        /\ \A i \in 1..Len(acc.queue) : next.queue[i] = acc.queue[i]
        /\ next.queue[Len(acc.queue) + 1] = t
    BY <2>1, AppendProperties, LenProperties DEF Reached
  <2>. HIDE DEF next
  <2>4. /\ (D \cup S) \cup {t} = D \cup (S \cup {t})
        /\ (S \cup {t}) \ D = (S \ D) \cup {t}
    BY <1>4
  <2>5. \A n \in D : next.level[n] = base.level[n]
    BY <2>2 DEF Reached, D
  <2>6. \A n \in (S \cup {t}) \ D : next.level[n] = l
    BY <2>2, <2>4 DEF Reached, D
  <2>7. /\ Len(base.queue) <= Len(next.queue)
        /\ \A i \in 1..Len(base.queue) : next.queue[i] = base.queue[i]
    <3>1. Len(base.queue) <= Len(acc.queue) /\ \A i \in 1..Len(base.queue) : acc.queue[i] = base.queue[i]
      BY DEF Reached
    <3>2. Len(base.queue) <= Len(next.queue) /\ \A i \in 1..Len(base.queue) : i \in 1..Len(acc.queue)
      BY <1>1, <2>3, <3>1
    <3>. QED
      BY <2>3, <3>1, <3>2
  <2>8. ASSUME NEW i \in 1..Len(next.queue), i > Len(base.queue)
        PROVE  next.queue[i] \in (S \cup {t}) \ D
    <3>1. CASE i \in 1..Len(acc.queue)
      BY <2>3, <2>4, <2>8, <3>1 DEF Reached, D
    <3>2. CASE i \notin 1..Len(acc.queue)
      <4>1. i = Len(acc.queue) + 1
        BY <2>3, <3>2
      <4>. QED
        BY <2>3, <2>4, <4>1
    <3>. QED
      BY <3>1, <3>2
  <2>9. ASSUME NEW n \in (S \cup {t}) \ D
        PROVE  \E i \in 1..Len(next.queue) : next.queue[i] = n
    <3>1. CASE n = t
      <4>1. Len(acc.queue) + 1 \in 1..Len(next.queue)
        BY <2>3
      <4>. QED
        BY <2>3, <3>1, <4>1
    <3>2. CASE n # t
      <4>1. PICK i \in 1..Len(acc.queue) : acc.queue[i] = n
        BY <2>9, <3>2 DEF Reached, D
      <4>2. i \in 1..Len(next.queue)
        BY <2>3
      <4>. QED
        BY <2>3, <4>1, <4>2
    <3>. QED
      BY <3>1, <3>2
  <2>. QED
    BY <2>2, <2>3, <2>4, <2>5, <2>6, <2>7, <2>8, <2>9 DEF Reached, D, next
<1>. QED
  BY <1>3, <1>4

(* A node's targets are met.                                                 *)
LEMMA Discovering ==
  ASSUME NEW base \in Acc, NEW seq \in Seq(Name), NEW l \in Int
  PROVE  Reached(Rounds(base, seq, l)[DOMAIN seq], base, {seq[i] : i \in DOMAIN seq}, l)
<1>. DEFINE F == Rounds(base, seq, l)
            n == Len(seq)
            N == {k \in Nat : k <= n => Reached(F[1..k], base, {seq[i] : i \in 1..k}, l)}
<1>1. n \in Nat /\ DOMAIN seq = 1..n /\ \A i \in 1..n : seq[i] \in Name
  BY LenProperties, ElementOfSeq
<1>2. F[1..0] = base /\ \A k \in 1..n : F[1..k] = Meet(F[1..(k - 1)], seq[k], l)
  BY RoundsStep
<1>. HIDE DEF F, n
<1>3. 0 \in N
  <2>1. {seq[i] : i \in 1..0} = {}
    OBVIOUS
  <2>2. base.level \in [DOMAIN base.level -> Int] /\ base.queue \in Seq(Name)
    BY DEF Acc, Levels
  <2>3. Len(base.queue) \in Nat /\ Len(base.queue) <= Len(base.queue)
        /\ \A i \in 1..Len(base.queue) : ~(i > Len(base.queue))
    BY <2>2, LenProperties
  <2>4. Reached(base, base, {}, l)
    BY <2>2, <2>3 DEF Reached
  <2>. QED
    BY <1>2, <2>1, <2>4
<1>4. ASSUME NEW k \in Nat, k \in N PROVE k + 1 \in N
  <2>. PICK m \in Nat : m = k + 1
    OBVIOUS
  <2>. SUFFICES ASSUME m <= n
                PROVE  Reached(F[1..m], base, {seq[i] : i \in 1..m}, l)
    OBVIOUS
  <2>1. Reached(F[1..k], base, {seq[i] : i \in 1..k}, l)
    <3>1. k <= n
      BY <1>1
    <3>. QED
      BY <1>4, <3>1
  <2>2. F[1..m] = Meet(F[1..k], seq[m], l)
    <3>1. m \in 1..n /\ m - 1 = k
      BY <1>1
    <3>. QED
      BY <1>2, <3>1
  <2>3. {seq[i] : i \in 1..m} = {seq[i] : i \in 1..k} \cup {seq[m]}
    <3>1. 1..m = 1..k \cup {m}
      OBVIOUS
    <3>. QED
      BY <3>1
  <2>4. seq[m] \in Name /\ {seq[i] : i \in 1..k} \in SUBSET Name
    <3>1. m \in 1..n /\ \A i \in 1..k : i \in 1..n
      BY <1>1
    <3>. QED
      BY <1>1, <3>1
  <2>. DEFINE S == {seq[i] : i \in 1..k}
              acc == F[1..k]
  <2>5. Reached(Meet(acc, seq[m], l), base, S \cup {seq[m]}, l)
    <3>. HIDE DEF S, acc
    <3>1. S \in SUBSET Name /\ Reached(acc, base, S, l)
      BY <2>1, <2>4 DEF S, acc
    <3>. QED
      BY <2>4, <3>1, MeetReaches
  <2>. QED
    BY <2>2, <2>3, <2>5
<1>5. Nat \subseteq N
  <2>. HIDE DEF N
  <2>. QED
    BY <1>3, <1>4, AllNat
<1>6. n \in N /\ n <= n
  <2>. HIDE DEF N
  <2>. QED
    BY <1>1, <1>5
<1>7. Reached(F[1..n], base, {seq[i] : i \in 1..n}, l)
  BY <1>6
<1>. QED
  BY <1>1, <1>7 DEF F, n

-----------------------------------------------------------------------------
(* The jobs of a configuration that is accepted.                             *)
Jobs == NamesOf(c.jobs)
NextOf(name) == ToSet(Chained(JobNamed(name)))

LEMMA ChainedTo ==
  ASSUME NEW job \in JobText
  PROVE  /\ Chained(job) \in Seq(Name)
         /\ ToSet(Chained(job)) = ToSet(job.onSuccess) \cup ToSet(job.onFailure)
<1>0. PICK s \in Seq(Name), t \in Seq(Name) : s = job.onSuccess /\ t = job.onFailure
  BY DEF JobText
<1>1. /\ s \o t \in Seq(Name) /\ Len(s \o t) = Len(s) + Len(t)
      /\ \A k \in 1..(Len(s) + Len(t)) :
           (s \o t)[k] = IF k <= Len(s) THEN s[k] ELSE t[k - Len(s)]
  BY ConcatProperties
<1>2. /\ Len(s) \in Nat /\ DOMAIN s = 1..Len(s) /\ Len(t) \in Nat /\ DOMAIN t = 1..Len(t)
      /\ DOMAIN (s \o t) = 1..(Len(s) + Len(t))
  BY <1>1, LenProperties
<1>3. ASSUME NEW x \in ToSet(s \o t) PROVE x \in ToSet(s) \cup ToSet(t)
  <2>1. PICK k \in 1..(Len(s) + Len(t)) : x = (s \o t)[k]
    BY <1>2 DEF ToSet
  <2>2. CASE k <= Len(s)
    <3>1. k \in DOMAIN s /\ x = s[k]
      BY <1>1, <1>2, <2>1, <2>2
    <3>. QED
      BY <3>1 DEF ToSet
  <2>3. CASE ~(k <= Len(s))
    <3>1. k - Len(s) \in DOMAIN t /\ x = t[k - Len(s)]
      BY <1>1, <1>2, <2>1, <2>3
    <3>. QED
      BY <3>1 DEF ToSet
  <2>. QED
    BY <2>2, <2>3
<1>4. ASSUME NEW x \in ToSet(s) PROVE x \in ToSet(s \o t)
  <2>1. PICK k \in 1..Len(s) : x = s[k]
    BY <1>2 DEF ToSet
  <2>2. k \in 1..(Len(s) + Len(t)) /\ k <= Len(s)
    BY <1>2
  <2>3. x = (s \o t)[k] /\ k \in DOMAIN (s \o t)
    BY <1>1, <1>2, <2>1, <2>2
  <2>. QED
    BY <2>3 DEF ToSet
<1>5. ASSUME NEW x \in ToSet(t) PROVE x \in ToSet(s \o t)
  <2>1. PICK k \in 1..Len(t) : x = t[k]
    BY <1>2 DEF ToSet
  <2>. PICK i \in Nat : i = Len(s) + k
    BY <1>2
  <2>2. i \in 1..(Len(s) + Len(t)) /\ ~(i <= Len(s)) /\ i - Len(s) = k
    BY <1>2
  <2>3. x = (s \o t)[i] /\ i \in DOMAIN (s \o t)
    BY <1>1, <1>2, <2>1, <2>2
  <2>. QED
    BY <2>3 DEF ToSet
<1>. QED
  BY <1>0, <1>1, <1>3, <1>4, <1>5 DEF Chained

LEMMA JobsOf ==
  ASSUME LoadInv, load = "accepted"
  PROVE  /\ Jobs \in SUBSET Name
         /\ \A job \in ToSet(c.jobs) :
              job \in JobText /\ job.name \in Jobs /\ JobNamed(job.name) = job
         /\ \A name \in Jobs :
              /\ JobNamed(name) \in JobText /\ JobNamed(name).name = name
              /\ JobNamed(name) \in ToSet(c.jobs) /\ NextOf(name) \subseteq Jobs
<1>1. /\ c.jobs \in Seq(JobText) /\ Len(c.jobs) \in Nat /\ DOMAIN c.jobs = 1..Len(c.jobs)
      /\ \A k \in DOMAIN c.jobs : c.jobs[k] \in JobText
  BY JobsType DEF LoadInv
<1>2. Sound(file) /\ c.jobs = file.jobs
  BY LoadDecides DEF Verdict, LoadInv
<1>3. \A k \in DOMAIN c.jobs : ~Faulty(c.jobs[k])
  BY <1>2 DEF Sound
<1>4. ValidConfig(c.jobs)
  BY <1>2 DEF Sound
<1>5. \A k \in DOMAIN c.jobs : c.jobs[k].name \in Name
  BY <1>1, <1>3 DEF JobText, Faulty
<1>6. \A k \in DOMAIN c.jobs : JobNamed(c.jobs[k].name) = c.jobs[k]
  BY <1>4 DEF JobNamed, ValidConfig
<1>7. Jobs \in SUBSET Name
  BY <1>5 DEF Jobs, NamesOf
<1>8. \A job \in ToSet(c.jobs) : job \in JobText /\ job.name \in Jobs /\ JobNamed(job.name) = job
  BY <1>1, <1>6 DEF Jobs, NamesOf, ToSet
<1>9. ASSUME NEW name \in Jobs
      PROVE  /\ JobNamed(name) \in JobText /\ JobNamed(name).name = name
             /\ JobNamed(name) \in ToSet(c.jobs) /\ NextOf(name) \subseteq Jobs
  <2>1. PICK k \in DOMAIN c.jobs : name = c.jobs[k].name
    BY DEF Jobs, NamesOf
  <2>2. PICK job \in JobText : job = c.jobs[k]
    BY <1>1
  <2>3. JobNamed(name) = job
    BY <1>6, <2>1, <2>2
  <2>4. \A seq \in {job.onSuccess, job.onFailure} : \A i \in DOMAIN seq : seq[i] \in Jobs
    BY <1>4, <2>2 DEF ValidConfig, Jobs
  <2>5. ToSet(job.onSuccess) \subseteq Jobs /\ ToSet(job.onFailure) \subseteq Jobs
    BY <2>4 DEF ToSet
  <2>6. ToSet(Chained(job)) \subseteq Jobs
    BY <2>5, ChainedTo
  <2>7. job \in ToSet(c.jobs)
    BY <2>2 DEF ToSet
  <2>. QED
    BY <2>1, <2>2, <2>3, <2>6, <2>7 DEF NextOf
<1>. QED
  BY <1>7, <1>8, <1>9

(* The jobs within k hops.                                                   *)
LEMMA WithinStep ==
  /\ Within[0] = {focus}
  /\ \A k \in 0..MaxChainDepth :
       k # 0 => Within[k] = Within[k - 1] \cup UNION {NextOf(n) : n \in Within[k - 1]}
<1>. DEFINE M == MaxChainDepth
            Step(w, k) == IF k = 0 THEN {focus}
                          ELSE w[k - 1] \cup UNION {NextOf(n) : n \in w[k - 1]}
            N == {m \in Nat : \E w : w = [k \in 0..m |-> Step(w, k)]}
<1>1. M \in Nat
  BY DiagramAssumption DEF DiagramAssumption
<1>2. 0 \in N
  <2>. DEFINE w == [k \in 0..0 |-> {focus}]
  <2>1. w = [k \in 0..0 |-> Step(w, k)]
    OBVIOUS
  <2>. HIDE DEF w
  <2>. QED
    BY <2>1
<1>3. ASSUME NEW m \in Nat, m \in N PROVE m + 1 \in N
  <2>. PICK n \in Nat : n = m + 1
    OBVIOUS
  <2>1. PICK w : w = [k \in 0..m |-> Step(w, k)]
    BY <1>3
  <2>. DEFINE last == w[m] \cup UNION {NextOf(x) : x \in w[m]}
              v == [k \in 0..n |-> IF k = n THEN last ELSE w[k]]
  <2>2. DOMAIN v = 0..n /\ v[n] = last /\ \A k \in 0..m : v[k] = w[k]
    OBVIOUS
  <2>. HIDE DEF v, last
  <2>3. ASSUME NEW k \in 0..n PROVE v[k] = Step(v, k)
    <3>1. CASE k = n
      <4>1. k # 0 /\ k - 1 = m /\ m \in 0..m
        BY <3>1
      <4>. QED
        BY <2>2, <3>1, <4>1 DEF last
    <3>2. CASE k # n
      <4>1. k \in 0..m /\ (k # 0 => k - 1 \in 0..m)
        BY <3>2
      <4>2. w[k] = Step(w, k)
        <5>. HIDE DEF Step
        <5>. QED
          BY <2>1, <4>1
      <4>3. Step(w, k) = Step(v, k)
        BY <2>2, <4>1
      <4>. QED
        BY <2>2, <4>1, <4>2, <4>3
    <3>. QED
      BY <3>1, <3>2
  <2>4. v = [k \in 0..n |-> Step(v, k)]
    <3>. HIDE DEF Step
    <3>1. v = [k \in 0..n |-> v[k]]
      BY <2>2 DEF v
    <3>. QED
      BY <2>3, <3>1
  <2>. QED
    BY <2>4
<1>4. M \in N
  <2>1. Nat \subseteq N
    <3>. HIDE DEF N
    <3>. QED
      BY <1>2, <1>3, AllNat
  <2>. QED
    BY <1>1, <2>1
<1>5. \E w : w = [k \in 0..M |-> Step(w, k)]
  BY <1>4
<1>6. Within = CHOOSE w : w = [k \in 0..M |-> Step(w, k)]
  BY DEF Within, NextOf
<1>. DEFINE W == Within
<1>7. W = [k \in 0..M |-> Step(W, k)]
  BY <1>5, <1>6
<1>. HIDE DEF W
<1>8. \A k \in 0..M : W[k] = Step(W, k)
  <2>. HIDE DEF Step
  <2>. QED
    BY <1>7
<1>9. W[0] = {focus}
  <2>1. 0 \in 0..M
    BY <1>1
  <2>2. W[0] = Step(W, 0)
    <3>. HIDE DEF Step
    <3>. QED
      BY <1>8, <2>1
  <2>. QED
    BY <2>2
<1>. QED
  BY <1>8, <1>9 DEF W

-----------------------------------------------------------------------------
(* The walk.                                                                 *)

Queued(n) == \E i \in 1..Len(queue) : queue[i] = n

(* The targets of n are nodes, at most one column on, and the links to them  *)
(* are drawn.                                                                *)
Followed(n) ==
  /\ NextOf(n) \subseteq Node
  /\ \A t \in NextOf(n) : level[t] <= level[n] + 1
  /\ \A kind \in Kinds : Links(JobNamed(n), kind) \subseteq edges

(* The queue is in the order of the columns, none of its nodes is more than  *)
(* a column behind any node, and only nodes in it are still to be followed,  *)
(* those too deep aside.                                                     *)
Walking ==
  /\ Node \in SUBSET Jobs /\ level \in [Node -> 0..MaxChainDepth]
  /\ focus \in Node /\ level[focus] = 0
  /\ queue \in Seq(Node)
  /\ \A i, k \in 1..Len(queue) : i <= k => level[queue[i]] <= level[queue[k]]
  /\ \A i \in 1..Len(queue), n \in Node : level[n] <= level[queue[i]] + 1
  /\ \A n \in Node : Queued(n) \/ level[n] >= MaxChainDepth \/ Followed(n)
  /\ \A n \in Node : n \in Within[level[n]]

(* What the page is given is what the walk found.                            *)
Shows ==
  /\ Node \in SUBSET Jobs /\ level \in [Node -> -1..MaxChainDepth]
  /\ ChainsShown

WalkInv ==
  /\ LoadInv
  /\ draw \in {"none", "walk", "drawn"}
  /\ draw = "none" => edges = {}
  /\ draw # "none" => load = "accepted" /\ focus \in Jobs
  /\ EdgesHaveEnds
  /\ draw = "walk" => Walking
  /\ draw = "drawn" => Shows

LEMMA DepthType == MaxChainDepth \in Nat
BY DiagramAssumption DEF DiagramAssumption

LEMMA SeqWithin ==
  ASSUME NEW A, NEW B, NEW s \in Seq(A), Holds(s, Len(s), B)
  PROVE  s \in Seq(B)
<1>1. \A i \in 1..Len(s) : s[i] \in B
  BY DEF Holds
<1>. QED
  BY <1>1

LEMMA WithinSame ==
  ASSUME c' = c, focus' = focus
  PROVE  Within' = Within /\ Jobs' = Jobs /\ \A n : JobNamed(n)' = JobNamed(n) /\ NextOf(n)' = NextOf(n)
<1>1. Jobs' = Jobs /\ \A n : JobNamed(n)' = JobNamed(n)
  BY DEF Jobs, JobNamed
<1>2. \A n : NextOf(n)' = NextOf(n)
  BY <1>1 DEF NextOf
<1>3. Within' = Within
  BY DEF Within, JobNamed
<1>. QED
  BY <1>1, <1>2, <1>3

LEMMA FocusWithin == focus \in Within[0]
BY WithinStep

LEMMA WithinMore ==
  \A k \in 0..MaxChainDepth : \A j \in 0..k : Within[j] \subseteq Within[k]
<1>. DEFINE N == {k \in Nat : k <= MaxChainDepth => \A j \in 0..k : Within[j] \subseteq Within[k]}
<1>1. 0 \in N
  OBVIOUS
<1>2. ASSUME NEW k \in Nat, k \in N PROVE k + 1 \in N
  <2>. PICK m \in Nat : m = k + 1
    OBVIOUS
  <2>. SUFFICES ASSUME m <= MaxChainDepth, NEW j \in 0..m PROVE Within[j] \subseteq Within[m]
    OBVIOUS
  <2>1. Within[k] \subseteq Within[m]
    <3>1. m \in 0..MaxChainDepth /\ m # 0 /\ m - 1 = k
      BY DepthType
    <3>. QED
      BY <3>1, WithinStep
  <2>2. j = m \/ j \in 0..k
    OBVIOUS
  <2>3. k <= MaxChainDepth
    BY DepthType
  <2>. QED
    BY <1>2, <2>1, <2>2, <2>3
<1>3. Nat \subseteq N
  <2>. HIDE DEF N
  <2>. QED
    BY <1>1, <1>2, AllNat
<1>. QED
  BY <1>3, DepthType

(* When the queue is empty, the columns up to k hold the jobs within k hops. *)
LEMMA WalkFinds ==
  ASSUME Walking, queue = << >>
  PROVE  \A k \in 0..MaxChainDepth : {n \in Node : level[n] \in 0..k} = Within[k]
<1>1. \A n \in Node : level[n] >= MaxChainDepth \/ Followed(n)
  BY DEF Walking, Queued
<1>2. \A n \in Node : level[n] \in 0..MaxChainDepth /\ n \in Within[level[n]]
  BY DEF Walking
<1>3. ASSUME NEW k \in 0..MaxChainDepth, NEW n \in Node, level[n] \in 0..k PROVE n \in Within[k]
  BY <1>2, <1>3, WithinMore
<1>. DEFINE N == {k \in Nat : k <= MaxChainDepth => Within[k] \subseteq {n \in Node : level[n] \in 0..k}}
<1>4. 0 \in N
  BY WithinStep DEF Walking
<1>5. ASSUME NEW k \in Nat, k \in N PROVE k + 1 \in N
  <2>. PICK m \in Nat : m = k + 1
    OBVIOUS
  <2>. SUFFICES ASSUME m <= MaxChainDepth, NEW t \in Within[m]
                PROVE  t \in Node /\ level[t] \in 0..m
    OBVIOUS
  <2>1. k <= MaxChainDepth /\ m \in 0..MaxChainDepth /\ m # 0 /\ m - 1 = k
    BY DepthType
  <2>2. \A n \in Within[k] : n \in Node /\ level[n] \in 0..k
    BY <1>5, <2>1
  <2>3. t \in Within[k] \/ \E n \in Within[k] : t \in NextOf(n)
    BY <2>1, WithinStep
  <2>4. CASE t \in Within[k]
    BY <2>2, <2>4
  <2>5. ASSUME NEW n \in Within[k], t \in NextOf(n) PROVE t \in Node /\ level[t] \in 0..m
    <3>1. n \in Node /\ level[n] \in 0..k /\ ~(level[n] >= MaxChainDepth)
      BY <2>1, <2>2, DepthType
    <3>2. t \in Node /\ level[t] <= level[n] + 1
      BY <1>1, <2>5, <3>1 DEF Followed
    <3>3. level[t] \in Nat
      BY <1>2, <3>2
    <3>. QED
      BY <3>1, <3>2, <3>3
  <2>. QED
    BY <2>3, <2>4, <2>5
<1>6. Nat \subseteq N
  <2>. HIDE DEF N
  <2>. QED
    BY <1>4, <1>5, AllNat
<1>7. ASSUME NEW k \in 0..MaxChainDepth, NEW n \in Within[k] PROVE n \in Node /\ level[n] \in 0..k
  <2>1. k \in Nat /\ k <= MaxChainDepth
    BY DepthType
  <2>. QED
    BY <1>6, <2>1
<1>. QED
  BY <1>3, <1>7

(* The first page: the job is its own column.                                *)
LEMMA OpenWalks ==
  ASSUME WalkInv, Open, UNCHANGED configVars
  PROVE  Walking' /\ EdgesHaveEnds' /\ draw' = "walk" /\ load = "accepted" /\ focus' \in Jobs
<1>1. PICK name \in NamesOf(c.jobs) :
        focus' = name /\ level' = [n \in {name} |-> 0] /\ queue' = <<name>>
  BY DEF Open
<1>2. load = "accepted" /\ draw = "none" /\ draw' = "walk" /\ edges' = {} /\ name \in Jobs
  BY DEF Open, WalkInv, Jobs
<1>3. c' = c /\ Jobs' = Jobs
  BY DEF configVars, Jobs
<1>4. Node' = {name} /\ level'[name] = 0 /\ level' \in [{name} -> 0..MaxChainDepth]
  BY <1>1, DepthType DEF Node
<1>5. queue' \in Seq({name}) /\ Len(queue') = 1 /\ \A i \in 1..Len(queue') : queue'[i] = name
  BY <1>1
<1>6. name \in Within'[level'[name]]
  <2>1. (focus \in Within[0])'
    BY FocusWithin, PTL
  <2>. QED
    BY <1>1, <1>4, <2>1
<1>7. Walking'
  <2>1. \A n \in Node' : Queued(n)'
    BY <1>4, <1>5 DEF Queued
  <2>. QED
    BY <1>1, <1>2, <1>3, <1>4, <1>5, <1>6, <2>1, DepthType DEF Walking
<1>8. EdgesHaveEnds'
  BY <1>2 DEF EdgesHaveEnds
<1>. QED
  BY <1>1, <1>2, <1>7, <1>8

(* A node that is too deep leaves the queue.                                 *)
LEMMA TailOf ==
  ASSUME NEW S, NEW s \in Seq(S), s # << >>
  PROVE  /\ Tail(s) \in Seq(S) /\ Len(s) \in Nat /\ Len(s) # 0 /\ Len(Tail(s)) = Len(s) - 1
         /\ Head(s) = s[1] /\ s[1] \in S
         /\ \A i \in 1..Len(Tail(s)) : Tail(s)[i] = s[i + 1] /\ i + 1 \in 1..Len(s)
<1>1. Len(s) \in Nat /\ Len(s) # 0
  BY EmptySeq, LenProperties
<1>2. s[1] \in S
  <2>1. 1 \in 1..Len(s)
    BY <1>1
  <2>. QED
    BY <2>1, ElementOfSeq
<1>3. Tail(s) \in Seq(S) /\ Len(Tail(s)) = Len(s) - 1 /\ Head(s) = s[1]
  BY HeadTailProperties
<1>4. \A i \in 1..Len(Tail(s)) : Tail(s)[i] = s[i + 1]
  BY HeadTailProperties
<1>. QED
  BY <1>1, <1>2, <1>3, <1>4

LEMMA TooDeepWalks ==
  ASSUME Walking, EdgesHaveEnds, TooDeep, UNCHANGED configVars
  PROVE  Walking' /\ EdgesHaveEnds'
<1>1. /\ queue # << >> /\ queue' = Tail(queue) /\ level[Head(queue)] >= MaxChainDepth
      /\ UNCHANGED <<c, focus, level, edges>>
  BY DEF TooDeep, configVars
<1>2. Node' = Node /\ EdgesHaveEnds'
  BY <1>1 DEF Node, EdgesHaveEnds
<1>3. /\ queue \in Seq(Node) /\ queue' \in Seq(Node) /\ Len(queue') = Len(queue) - 1
      /\ Len(queue) \in Nat /\ Head(queue) = queue[1]
      /\ \A i \in 1..Len(queue') : queue'[i] = queue[i + 1] /\ i + 1 \in 1..Len(queue)
  BY <1>1, TailOf DEF Walking
<1>4. \A i, k \in 1..Len(queue') : i <= k => level[queue'[i]] <= level[queue'[k]]
  <2>. SUFFICES ASSUME NEW i \in 1..Len(queue'), NEW k \in 1..Len(queue'), i <= k
                PROVE  level[queue'[i]] <= level[queue'[k]]
    OBVIOUS
  <2>1. i + 1 \in 1..Len(queue) /\ k + 1 \in 1..Len(queue) /\ i + 1 <= k + 1
    BY <1>3
  <2>2. level[queue[i + 1]] <= level[queue[k + 1]]
    BY <2>1 DEF Walking
  <2>. QED
    BY <1>3, <2>2
<1>5. \A i \in 1..Len(queue'), n \in Node : level[n] <= level[queue'[i]] + 1
  BY <1>3 DEF Walking
<1>6. ASSUME NEW n \in Node
      PROVE  Queued(n)' \/ level[n] >= MaxChainDepth \/ Followed(n)
  <2>1. CASE \E i \in 1..Len(queue) : queue[i] = n
    <3>1. PICK i \in 1..Len(queue) : queue[i] = n
      BY <2>1
    <3>2. CASE i = 1
      BY <1>1, <1>3, <3>1, <3>2
    <3>3. CASE i # 1
      <4>. PICK k \in Nat : i = k + 1
        <5>1. i - 1 \in Nat /\ i = (i - 1) + 1
          BY <1>3, <3>3
        <5>. QED
          BY <5>1
      <4>1. k \in 1..Len(queue')
        BY <1>3, <3>3
      <4>2. queue'[k] = n
        BY <1>3, <3>1, <4>1
      <4>. QED
        BY <4>1, <4>2 DEF Queued
    <3>. QED
      BY <3>2, <3>3
  <2>. QED
    BY <2>1 DEF Walking, Queued
<1>7. Within' = Within /\ Jobs' = Jobs /\ \A n : Followed(n)' <=> Followed(n)
  BY <1>1, <1>2, WithinSame DEF Followed, Links
<1>. QED
  BY <1>1, <1>2, <1>3, <1>4, <1>5, <1>6, <1>7 DEF Walking

(* The node at the head is followed: its new targets are one column on, the  *)
(* last of the queue.                                                        *)
LEMMA FollowFinds ==
  ASSUME WalkInv, draw = "walk", Follow, UNCHANGED configVars, NEW h, h = Head(queue)
  PROVE  /\ h \in Node /\ h = queue[1] /\ level[h] \in Nat /\ level[h] < MaxChainDepth
         /\ Node' = Node \cup NextOf(h) /\ level' \in [Node' -> 0..MaxChainDepth]
         /\ \A n \in Node : level'[n] = level[n]
         /\ \A n \in NextOf(h) \ Node : level'[n] = level[h] + 1
         /\ queue' \in Seq(Node') /\ Len(queue) \in Nat /\ Len(queue) # 0
         /\ \A i \in 1..Len(queue') :
              \/ i + 1 \in 1..Len(queue) /\ queue'[i] = queue[i + 1]
              \/ i >= Len(queue) /\ queue'[i] \in NextOf(h) \ Node
         /\ \A i \in 1..Len(queue) : i # 1 => \E k \in 1..Len(queue') : queue'[k] = queue[i]
         /\ \A n \in NextOf(h) \ Node : \E k \in 1..Len(queue') : queue'[k] = n
         /\ edges' = edges \cup UNION {Links(JobNamed(h), kind) : kind \in Kinds}
         /\ UNCHANGED <<c, focus, draw>>
         /\ NextOf(h) \subseteq Jobs /\ JobNamed(h) \in JobText /\ JobNamed(h).name = h
<1>. DEFINE job == JobNamed(h)
            base == [level |-> level, queue |-> Tail(queue)]
            T == NextOf(h)
            l == level[h] + 1
            found == Rounds(base, Chained(job), l)[DOMAIN Chained(job)]
<1>1. /\ Node \in SUBSET Jobs /\ level \in [Node -> 0..MaxChainDepth] /\ queue \in Seq(Node)
      /\ queue # << >> /\ load = "accepted" /\ LoadInv
  BY DEF WalkInv, Walking, Follow
<1>2. /\ Jobs \in SUBSET Name
      /\ \A name \in Jobs : JobNamed(name) \in JobText /\ JobNamed(name).name = name
                            /\ NextOf(name) \subseteq Jobs
  BY <1>1, JobsOf
<1>3. /\ Tail(queue) \in Seq(Node) /\ Len(queue) \in Nat /\ Len(queue) # 0
      /\ Len(Tail(queue)) = Len(queue) - 1 /\ h = queue[1] /\ h \in Node
      /\ \A i \in 1..Len(Tail(queue)) : Tail(queue)[i] = queue[i + 1] /\ i + 1 \in 1..Len(queue)
  BY <1>1, TailOf
<1>4. job \in JobText /\ job.name = h /\ T \subseteq Jobs /\ T = ToSet(Chained(job))
  BY <1>1, <1>2, <1>3 DEF NextOf
<1>5. level[h] \in 0..MaxChainDepth /\ level[h] < MaxChainDepth /\ l \in 0..MaxChainDepth /\ l \in Int
  <2>1. level[h] \in 0..MaxChainDepth
    BY <1>1, <1>3
  <2>. QED
    BY <2>1, DepthType DEF Follow
<1>6. base \in Acc
  <2>1. level \in Levels
    <3>1. Node \in SUBSET Name /\ level \in [Node -> Int]
      BY <1>1, <1>2, DepthType
    <3>. QED
      BY <3>1 DEF Levels
  <2>2. Tail(queue) \in Seq(Name)
    <3>1. Node \subseteq Name
      BY <1>1, <1>2
    <3>. QED
      BY <1>3, <3>1, SeqMonotonic
  <2>. QED
    BY <2>1, <2>2 DEF Acc
<1>7. level' = found.level /\ queue' = found.queue
  <2>1. Discover(job.name, job) = found
    BY <1>4, DiscoverRounds
  <2>. QED
    BY <2>1 DEF Follow
<1>8. Reached(found, base, T, l)
  <2>1. Chained(job) \in Seq(Name)
    BY <1>4, ChainedTo
  <2>2. {Chained(job)[i] : i \in DOMAIN Chained(job)} = T
    BY <1>4 DEF ToSet
  <2>. HIDE DEF found, base, l, T, job
  <2>3. Reached(found, base, {Chained(job)[i] : i \in DOMAIN Chained(job)}, l)
    BY <1>5, <1>6, <2>1, Discovering DEF found
  <2>. QED
    BY <2>2, <2>3
<1>. HIDE DEF found, T, l, job
<1>9. /\ found.level \in [Node \cup T -> Int]
      /\ \A n \in Node : found.level[n] = level[n]
      /\ \A n \in T \ Node : found.level[n] = l
      /\ found.queue \in Seq(Name) /\ Len(Tail(queue)) <= Len(found.queue)
      /\ \A i \in 1..Len(Tail(queue)) : found.queue[i] = Tail(queue)[i]
      /\ \A i \in 1..Len(found.queue) : i > Len(Tail(queue)) => found.queue[i] \in T \ Node
      /\ \A n \in T \ Node : \E i \in 1..Len(found.queue) : found.queue[i] = n
  BY <1>8 DEF Reached, Node
<1>10. Node' = Node \cup T /\ level' \in [Node' -> 0..MaxChainDepth]
  <2>1. Node' = Node \cup T
    BY <1>7, <1>9 DEF Node
  <2>2. \A n \in Node \cup T : level'[n] \in 0..MaxChainDepth
    BY <1>1, <1>5, <1>7, <1>9
  <2>. QED
    BY <1>7, <1>9, <2>1, <2>2
<1>11. Len(queue') \in Nat /\ queue' \in Seq(Name)
  BY <1>7, <1>9, LenProperties
<1>12. ASSUME NEW i \in 1..Len(queue')
       PROVE  \/ i + 1 \in 1..Len(queue) /\ queue'[i] = queue[i + 1]
              \/ i >= Len(queue) /\ queue'[i] \in T \ Node
  <2>1. CASE i \in 1..Len(Tail(queue))
    BY <1>3, <1>7, <1>9, <2>1
  <2>2. CASE i \notin 1..Len(Tail(queue))
    <3>1. i > Len(Tail(queue)) /\ i >= Len(queue)
      BY <1>3, <1>11, <2>2
    <3>. QED
      BY <1>7, <1>9, <3>1
  <2>. QED
    BY <2>1, <2>2
<1>13. ASSUME NEW i \in 1..Len(queue), i # 1
       PROVE  \E k \in 1..Len(queue') : queue'[k] = queue[i]
  <2>1. PICK k \in Nat : i = k + 1
    <3>1. i - 1 \in Nat /\ i = (i - 1) + 1
      BY <1>3, <1>13
    <3>. QED
      BY <3>1
  <2>2. k \in 1..Len(Tail(queue)) /\ k \in 1..Len(queue')
    BY <1>3, <1>7, <1>9, <1>11, <1>13, <2>1
  <2>. QED
    BY <1>3, <1>7, <1>9, <2>1, <2>2
<1>14. queue' \in Seq(Node')
  <2>1. ASSUME NEW i \in 1..Len(queue') PROVE queue'[i] \in Node'
    <3>1. \A k \in 1..Len(queue) : queue[k] \in Node
      BY <1>1, ElementOfSeq
    <3>. QED
      BY <1>10, <1>12, <3>1
  <2>2. Holds(queue', Len(queue'), Node')
    BY <2>1 DEF Holds
  <2>3. PICK s \in Seq(Name) : s = queue'
    BY <1>11
  <2>4. s \in Seq(Node')
    <3>1. Holds(s, Len(s), Node')
      BY <2>2, <2>3
    <3>. QED
      BY <3>1, SeqWithin
  <2>. QED
    BY <2>3, <2>4
<1>15. edges' = edges \cup UNION {Links(job, kind) : kind \in Kinds} /\ UNCHANGED <<c, focus, draw>>
  BY DEF Follow, configVars, job
<1>16. \A n \in T \ Node : \E k \in 1..Len(queue') : queue'[k] = n
  BY <1>7, <1>9
<1>. QED
  BY <1>3, <1>4, <1>5, <1>7, <1>9, <1>10, <1>12, <1>13, <1>14, <1>15, <1>16 DEF job, T, l

LEMMA FollowWalks ==
  ASSUME WalkInv, draw = "walk", Follow, UNCHANGED configVars
  PROVE  Walking' /\ EdgesHaveEnds'
<1>. PICK h : h = Head(queue)
  OBVIOUS
<1>1. /\ h \in Node /\ h = queue[1] /\ level[h] \in Nat /\ level[h] < MaxChainDepth
      /\ Node' = Node \cup NextOf(h) /\ level' \in [Node' -> 0..MaxChainDepth]
      /\ \A n \in Node : level'[n] = level[n]
      /\ \A n \in NextOf(h) \ Node : level'[n] = level[h] + 1
      /\ queue' \in Seq(Node') /\ Len(queue) \in Nat /\ Len(queue) # 0
  BY FollowFinds
<1>2. \A i \in 1..Len(queue') :
        \/ i + 1 \in 1..Len(queue) /\ queue'[i] = queue[i + 1]
        \/ i >= Len(queue) /\ queue'[i] \in NextOf(h) \ Node
  BY FollowFinds
<1>3. /\ \A i \in 1..Len(queue) : i # 1 => \E k \in 1..Len(queue') : queue'[k] = queue[i]
      /\ \A n \in NextOf(h) \ Node : \E k \in 1..Len(queue') : queue'[k] = n
  BY FollowFinds
<1>4. /\ edges' = edges \cup UNION {Links(JobNamed(h), kind) : kind \in Kinds}
      /\ UNCHANGED <<c, focus, draw>>
      /\ NextOf(h) \subseteq Jobs /\ JobNamed(h) \in JobText /\ JobNamed(h).name = h
  BY FollowFinds
<1>5. Walking
  BY DEF WalkInv
<1>6. Within' = Within /\ Jobs' = Jobs
      /\ \A n : JobNamed(n)' = JobNamed(n) /\ NextOf(n)' = NextOf(n)
  BY <1>4, WithinSame
<1>. DEFINE l == level[h]
<1>7. /\ 1 \in 1..Len(queue) /\ l \in Nat
      /\ \A n \in Node : level[n] \in Nat /\ level[n] <= l + 1
      /\ \A i \in 1..Len(queue) : queue[i] \in Node /\ l <= level[queue[i]]
  <2>1. 1 \in 1..Len(queue)
    BY <1>1
  <2>2. \A i \in 1..Len(queue) : queue[i] \in Node /\ 1 <= i
    BY <1>5, ElementOfSeq DEF Walking
  <2>3. \A n \in Node : level[n] \in Nat
    BY <1>5, DepthType DEF Walking
  <2>4. \A n \in Node : level[n] <= l + 1
    BY <1>1, <1>5, <2>1 DEF Walking
  <2>5. \A i \in 1..Len(queue) : l <= level[queue[i]]
    BY <1>1, <1>5, <2>1, <2>2 DEF Walking
  <2>. QED
    BY <1>1, <2>1, <2>2, <2>3, <2>4, <2>5
<1>8. \A n \in Node' : level'[n] \in Nat /\ level'[n] <= l + 1
  BY <1>1, <1>7
<1>9. ASSUME NEW i \in 1..Len(queue')
      PROVE  /\ level'[queue'[i]] \in Nat /\ l <= level'[queue'[i]]
             /\ i + 1 \in 1..Len(queue) => level'[queue'[i]] = level[queue[i + 1]]
             /\ i + 1 \notin 1..Len(queue) => level'[queue'[i]] = l + 1
  <2>1. CASE i + 1 \in 1..Len(queue)
    <3>1. queue'[i] = queue[i + 1]
      BY <1>1, <1>2, <2>1
    <3>2. queue[i + 1] \in Node /\ l <= level[queue[i + 1]]
      BY <1>7, <2>1
    <3>. QED
      BY <1>1, <1>7, <2>1, <3>1, <3>2
  <2>2. CASE i + 1 \notin 1..Len(queue)
    <3>1. queue'[i] \in NextOf(h) \ Node
      BY <1>2, <2>2
    <3>. QED
      BY <1>1, <1>7, <2>2, <3>1
  <2>. QED
    BY <2>1, <2>2
<1>10. \A i, k \in 1..Len(queue') : i <= k => level'[queue'[i]] <= level'[queue'[k]]
  <2>. SUFFICES ASSUME NEW i \in 1..Len(queue'), NEW k \in 1..Len(queue'), i <= k
                PROVE  level'[queue'[i]] <= level'[queue'[k]]
    OBVIOUS
  <2>1. CASE k + 1 \in 1..Len(queue)
    <3>1. i + 1 \in 1..Len(queue) /\ i + 1 <= k + 1
      BY <1>1, <2>1
    <3>2. level[queue[i + 1]] <= level[queue[k + 1]]
      BY <1>5, <2>1, <3>1 DEF Walking
    <3>. QED
      BY <1>9, <2>1, <3>1, <3>2
  <2>2. CASE k + 1 \notin 1..Len(queue)
    <3>1. level'[queue'[k]] = l + 1
      BY <1>9, <2>2
    <3>2. queue'[i] \in Node'
      BY <1>1, ElementOfSeq
    <3>. QED
      BY <1>8, <3>1, <3>2
  <2>. QED
    BY <2>1, <2>2
<1>11. \A i \in 1..Len(queue'), n \in Node' : level'[n] <= level'[queue'[i]] + 1
  <2>. SUFFICES ASSUME NEW i \in 1..Len(queue'), NEW n \in Node'
                PROVE  level'[n] <= level'[queue'[i]] + 1
    OBVIOUS
  <2>1. level'[n] \in Nat /\ level'[n] <= l + 1 /\ level'[queue'[i]] \in Nat /\ l <= level'[queue'[i]]
    BY <1>8, <1>9
  <2>. QED
    BY <1>7, <2>1
<1>12. Followed(h)'
  <2>1. NextOf(h) \subseteq Node'
    BY <1>1
  <2>2. \A t \in NextOf(h) : level'[t] <= level'[h] + 1
    <3>1. level'[h] = l
      BY <1>1
    <3>. QED
      BY <1>8, <2>1, <3>1
  <2>3. \A kind \in Kinds : Links(JobNamed(h), kind) \subseteq edges'
    BY <1>4
  <2>. QED
    BY <1>6, <2>1, <2>2, <2>3 DEF Followed, Links
<1>13. ASSUME NEW n \in Node, Followed(n) PROVE Followed(n)'
  <2>1. NextOf(n) \subseteq Node /\ NextOf(n) \subseteq Node'
    BY <1>1, <1>13 DEF Followed
  <2>2. \A t \in NextOf(n) : level'[t] <= level'[n] + 1
    BY <1>1, <1>13, <2>1 DEF Followed
  <2>3. \A kind \in Kinds : Links(JobNamed(n), kind) \subseteq edges'
    BY <1>4, <1>13 DEF Followed
  <2>. QED
    BY <1>6, <2>1, <2>2, <2>3 DEF Followed, Links
<1>14. ASSUME NEW n \in Node'
       PROVE  Queued(n)' \/ level'[n] >= MaxChainDepth \/ Followed(n)'
  <2>1. CASE n \notin Node
    <3>1. n \in NextOf(h) \ Node
      BY <1>1, <2>1
    <3>. QED
      BY <1>3, <3>1 DEF Queued
  <2>2. CASE n \in Node
    <3>1. Queued(n) \/ level[n] >= MaxChainDepth \/ Followed(n)
      BY <1>5, <2>2 DEF Walking
    <3>2. ASSUME Queued(n) PROVE Queued(n)' \/ Followed(n)'
      <4>1. PICK i \in 1..Len(queue) : queue[i] = n
        BY <3>2 DEF Queued
      <4>2. CASE i = 1
        BY <1>1, <1>12, <4>1, <4>2
      <4>3. CASE i # 1
        BY <1>3, <4>1, <4>3 DEF Queued
      <4>. QED
        BY <4>2, <4>3
    <3>3. level[n] >= MaxChainDepth => level'[n] >= MaxChainDepth
      BY <1>1, <2>2
    <3>. QED
      BY <1>13, <2>2, <3>1, <3>2, <3>3
  <2>. QED
    BY <2>1, <2>2
<1>15. ASSUME NEW n \in Node' PROVE n \in Within[level'[n]]
  <2>1. CASE n \in Node
    BY <1>1, <1>5, <2>1 DEF Walking
  <2>2. CASE n \notin Node
    <3>1. n \in NextOf(h) /\ level'[n] = l + 1
      BY <1>1, <2>2
    <3>2. h \in Within[l]
      BY <1>1, <1>5 DEF Walking
    <3>3. PICK j \in Nat : j = l /\ j < MaxChainDepth
      BY <1>1, <1>7
    <3>4. PICK k \in Nat : k = j + 1
      BY <3>3
    <3>5. k \in 0..MaxChainDepth /\ k # 0 /\ k - 1 = j
      <4>. HIDE DEF l
      <4>. QED
        BY <3>3, <3>4, DepthType
    <3>6. Within[k] = Within[j] \cup UNION {NextOf(x) : x \in Within[j]}
      BY <3>5, WithinStep
    <3>7. level'[n] = k
      <4>. HIDE DEF l
      <4>. QED
        BY <3>1, <3>3, <3>4
    <3>. QED
      BY <3>1, <3>2, <3>3, <3>6, <3>7
  <2>. QED
    BY <2>1, <2>2
<1>16. focus' \in Node' /\ level'[focus'] = 0 /\ Node' \in SUBSET Jobs'
  BY <1>1, <1>4, <1>5, <1>6 DEF Walking
<1>17. Walking'
  BY <1>1, <1>6, <1>10, <1>11, <1>14, <1>15, <1>16 DEF Walking
<1>18. EdgesHaveEnds'
  <2>. SUFFICES ASSUME NEW e \in edges' PROVE {e[1], e[2]} \subseteq Node'
    BY DEF EdgesHaveEnds
  <2>1. CASE e \in edges
    BY <1>1, <2>1 DEF EdgesHaveEnds, WalkInv
  <2>2. CASE e \notin edges
    <3>1. PICK kind \in Kinds : e \in Links(JobNamed(h), kind)
      BY <1>4, <2>2
    <3>2. PICK t \in ToSet(Targets(JobNamed(h), kind)) : e = <<JobNamed(h).name, t, kind>>
      BY <3>1 DEF Links
    <3>3. t \in NextOf(h)
      BY <1>4, <3>2, ChainedTo DEF Targets, NextOf
    <3>. QED
      BY <1>1, <1>4, <3>2, <3>3
  <2>. QED
    BY <2>1, <2>2
<1>. QED
  BY <1>17, <1>18

(* The last step: the jobs that chain to the focus.                          *)
LEMMA UpstreamShows ==
  ASSUME WalkInv, draw = "walk", Upstream, UNCHANGED configVars
  PROVE  Shows' /\ EdgesHaveEnds' /\ draw' = "drawn"
<1>. DEFINE up == {job.name : job \in Parents}
<1>1. /\ queue = << >> /\ UNCHANGED <<c, focus, queue>> /\ draw' = "drawn"
      /\ level' = Placed(level, up, -1)
      /\ edges' = edges \cup
           {e \in UNION {Links(job, kind) : job \in Parents, kind \in Kinds} : e[2] = focus}
  BY DEF Upstream, configVars
<1>2. Walking /\ load = "accepted" /\ LoadInv /\ EdgesHaveEnds
  BY DEF WalkInv
<1>3. /\ Node \in SUBSET Jobs /\ level \in [Node -> 0..MaxChainDepth] /\ focus \in Node
      /\ \A n \in Node : level[n] \in 0..MaxChainDepth
  BY <1>2 DEF Walking
<1>4. up \subseteq Jobs
  BY <1>2, JobsOf DEF Parents
<1>5. /\ Node' = Node \cup up
      /\ \A n \in Node : level'[n] = level[n]
      /\ \A n \in up \ Node : level'[n] = -1
      /\ level' \in [Node' -> -1..MaxChainDepth]
  <2>. HIDE DEF up
  <2>1. /\ Node' = Node \cup up /\ DOMAIN level' = Node \cup up
        /\ level' = [n \in Node \cup up |-> IF n \in Node THEN level[n] ELSE -1]
    BY <1>1 DEF Node, Placed
  <2>2. \A n \in Node \cup up : level'[n] \in -1..MaxChainDepth
    BY <1>3, <2>1, DepthType
  <2>. QED
    BY <2>1, <2>2
<1>6. /\ Within' = Within /\ Jobs' = Jobs
      /\ \A n : JobNamed(n)' = JobNamed(n) /\ NextOf(n)' = NextOf(n)
  BY <1>1, WithinSame
<1>7. \A k \in 0..MaxChainDepth : {n \in Node : level[n] \in 0..k} = Within[k]
  BY <1>1, <1>2, WalkFinds
<1>. HIDE DEF up
<1>8. ASSUME NEW k \in 0..MaxChainDepth PROVE {n \in Node' : level'[n] \in 0..k} = Within[k]
  <2>1. \A n \in Node' : level'[n] \in 0..k <=> n \in Node /\ level[n] \in 0..k
    <3>. SUFFICES ASSUME NEW n \in Node' PROVE level'[n] \in 0..k <=> n \in Node /\ level[n] \in 0..k
      OBVIOUS
    <3>1. CASE n \in Node
      BY <1>5, <3>1
    <3>2. CASE n \notin Node
      <4>1. level'[n] = -1
        BY <1>5, <3>2
      <4>. QED
        BY <3>2, <4>1
    <3>. QED
      BY <3>1, <3>2
  <2>. QED
    BY <1>5, <1>7, <2>1
<1>9. Within[MaxChainDepth] = Node
  <2>1. MaxChainDepth \in 0..MaxChainDepth
    BY DepthType
  <2>2. Within[MaxChainDepth] = {n \in Node : level[n] \in 0..MaxChainDepth}
    BY <1>7, <2>1
  <2>. QED
    BY <1>3, <2>2
<1>10. {n \in Node' : level'[n] = -1} = up \ Within[MaxChainDepth]
  <2>1. \A n \in Node : level'[n] # -1
    BY <1>3, <1>5
  <2>. QED
    BY <1>5, <1>9, <2>1
<1>11. MaxChainDepth > 0 =>
         \A n \in Within[MaxChainDepth - 1], kind \in Kinds : Links(JobNamed(n), kind) \subseteq edges'
  <2>. SUFFICES ASSUME MaxChainDepth > 0, NEW n \in Within[MaxChainDepth - 1], NEW kind \in Kinds
                PROVE  Links(JobNamed(n), kind) \subseteq edges
    BY <1>1
  <2>1. PICK k \in Nat : k = MaxChainDepth - 1
    BY DepthType
  <2>2. k \in 0..MaxChainDepth /\ k < MaxChainDepth
    BY <2>1, DepthType
  <2>3. n \in Node /\ level[n] \in 0..k
    BY <1>7, <2>1, <2>2
  <2>4. ~(level[n] >= MaxChainDepth)
    BY <2>2, <2>3, DepthType
  <2>5. ~Queued(n)
    BY <1>1 DEF Queued
  <2>6. Followed(n)
    BY <1>2, <2>3, <2>4, <2>5 DEF Walking
  <2>. QED
    BY <2>6 DEF Followed
<1>12. ChainsShown'
  <2>1. Parents' = Parents
    BY <1>1 DEF Parents
  <2>2. Column(-1)' = {n \in Node' : level'[n] = -1}
    BY DEF Column
  <2>3. \A job, kind : Links(job, kind)' = Links(job, kind)
    BY DEF Links, Targets
  <2>4. \A k \in 0..MaxChainDepth : {n \in Node' : level'[n] \in 0..k} = Within'[k]
    BY <1>6, <1>8
  <2>5. Column(-1)' = {job.name : job \in Parents'} \ Within'[MaxChainDepth]
    BY <1>6, <1>10, <2>1, <2>2 DEF up
  <2>6. MaxChainDepth > 0 =>
          \A n \in Within'[MaxChainDepth - 1], kind \in Kinds :
            Links(JobNamed(n)', kind) \subseteq edges'
    BY <1>6, <1>11
  <2>. QED
    BY <2>4, <2>5, <2>6 DEF ChainsShown, Links, Targets
<1>13. EdgesHaveEnds'
  <2>. SUFFICES ASSUME NEW e \in edges' PROVE {e[1], e[2]} \subseteq Node'
    BY DEF EdgesHaveEnds
  <2>1. CASE e \in edges
    BY <1>2, <1>5, <2>1 DEF EdgesHaveEnds
  <2>2. CASE e \notin edges
    <3>1. PICK job \in Parents, kind \in Kinds : e \in Links(job, kind) /\ e[2] = focus
      BY <1>1, <2>2
    <3>2. e[1] = job.name
      BY <3>1 DEF Links
    <3>3. job.name \in up
      BY DEF up
    <3>. QED
      BY <1>3, <1>5, <3>1, <3>2, <3>3
  <2>. QED
    BY <2>1, <2>2
<1>14. Shows'
  BY <1>3, <1>4, <1>5, <1>6, <1>12 DEF Shows
<1>. QED
  BY <1>1, <1>13, <1>14

-----------------------------------------------------------------------------
(* What the walk rests on holds all the time.                                *)
LEMMA InitWalk == Init => WalkInv
BY InitLoad DEF Init, DiagramInit, ConfigInit, WalkInv, EdgesHaveEnds

LEMMA DrawWalk ==
  ASSUME WalkInv, Draw, UNCHANGED configVars
  PROVE  WalkInv'
<1>1. LoadInv' /\ load' = load /\ Jobs' = Jobs
  <2>1. LoadInv'
    BY NextLoad DEF WalkInv
  <2>. QED
    BY <2>1 DEF configVars, Jobs
<1>2. CASE Open
  BY <1>1, <1>2, OpenWalks DEF WalkInv
<1>3. CASE Follow
  <2>1. draw = "walk" /\ draw' = "walk" /\ focus' = focus
    BY <1>3 DEF Follow
  <2>. QED
    BY <1>1, <1>3, <2>1, FollowWalks DEF WalkInv
<1>4. CASE TooDeep
  <2>1. draw = "walk" /\ draw' = "walk" /\ focus' = focus
    BY <1>4 DEF TooDeep
  <2>. QED
    BY <1>1, <1>4, <2>1, TooDeepWalks DEF WalkInv
<1>5. CASE Upstream
  <2>1. draw = "walk" /\ draw' = "drawn" /\ focus' = focus
    BY <1>5 DEF Upstream
  <2>. QED
    BY <1>1, <1>5, <2>1, UpstreamShows DEF WalkInv
<1>. QED
  BY <1>2, <1>3, <1>4, <1>5 DEF Draw, Walk

(* The diagram is left alone, and the configuration when there is one.       *)
LEMMA StillWalk ==
  ASSUME WalkInv, UNCHANGED configVars, UNCHANGED diagramVars
  PROVE  WalkInv'
<1>1. LoadInv'
  BY NextLoad DEF WalkInv
<1>2. UNCHANGED <<c, load, draw, focus, level, queue, edges>>
  BY DEF configVars, diagramVars
<1>3. /\ Within' = Within /\ Jobs' = Jobs
      /\ \A n : JobNamed(n)' = JobNamed(n) /\ NextOf(n)' = NextOf(n)
  BY <1>2, WithinSame
<1>4. Node' = Node /\ Parents' = Parents /\ EdgesHaveEnds'
  BY <1>2 DEF Node, Parents, EdgesHaveEnds, WalkInv
<1>5. Walking => Walking'
  <2>1. \A n : (Followed(n)' <=> Followed(n)) /\ (Queued(n)' <=> Queued(n))
    BY <1>2, <1>3, <1>4 DEF Followed, Queued, Links
  <2>. QED
    BY <1>2, <1>3, <1>4, <2>1 DEF Walking
<1>6. Shows => Shows'
  <2>1. Column(-1)' = Column(-1)
    BY <1>2, <1>4 DEF Column
  <2>2. ChainsShown => ChainsShown'
    BY <1>2, <1>3, <1>4, <2>1 DEF ChainsShown, Links
  <2>. QED
    BY <1>2, <1>3, <1>4, <2>2 DEF Shows
<1>. QED
  BY <1>1, <1>2, <1>3, <1>4, <1>5, <1>6 DEF WalkInv

LEMMA NextWalk == WalkInv /\ [Next]_vars => WalkInv'
<1>. SUFFICES ASSUME WalkInv, [Next]_vars PROVE WalkInv'
  OBVIOUS
<1>1. CASE LoadFile
  <2>1. Load /\ UNCHANGED diagramVars
    BY <1>1 DEF LoadFile
  <2>2. LoadInv'
    BY <2>1, NextLoad DEF WalkInv
  <2>3. load # "accepted"
    BY <2>1 DEF Load, Defaults, UnknownZone, CheckNotify, BadNotify, CheckJob, BadJob,
                JobsDone, CheckChains, UnknownChain, Accept
  <2>4. draw = "none" /\ draw' = "none" /\ edges' = {}
    BY <2>1, <2>3 DEF WalkInv, diagramVars
  <2>. QED
    BY <2>2, <2>4 DEF WalkInv, EdgesHaveEnds
<1>2. CASE DrawChains
  BY <1>2, DrawWalk DEF DrawChains
<1>3. CASE UNCHANGED configVars /\ UNCHANGED diagramVars
  BY <1>3, StillWalk
<1>4. CASE \/ StartRun \/ Grow \/ OpenFinal \/ WriteFinal \/ Prune \/ NextPage
           \/ \E q \in Queries, p \in {0, MaxRuns} : Visit(q, p)
  <2>1. UNCHANGED configVars /\ UNCHANGED diagramVars
    BY <1>4 DEF StartRun, Grow, OpenFinal, WriteFinal, Prune, NextPage, Visit
  <2>. QED
    BY <1>3, <2>1
<1>5. CASE UNCHANGED vars
  BY <1>3, <1>5 DEF vars
<1>. QED
  BY <1>1, <1>2, <1>4, <1>5 DEF Next

(* Every link that is drawn has both its boxes, in every configuration: the  *)
(* code looks up both of them without asking whether they are there.         *)
THEOREM EdgesEnd == Spec => []EdgesHaveEnds
<1>1. WalkInv => EdgesHaveEnds
  BY DEF WalkInv
<1>. QED
  BY <1>1, InitWalk, NextWalk, PTL DEF Spec

(* Whatever the graph of chains, cyclic or not, and however long: when the   *)
(* picture is finished, each job that a run of the focus may start through   *)
(* chains, up to the limit, is in the column of its least number of hops,    *)
(* each link that such a run may take is drawn, and the column on the left   *)
(* has the jobs that chain to the focus and that it does not reach.          *)
THEOREM ChainsComplete == Spec => []ChainsShown
<1>1. WalkInv => ChainsShown
  BY DEF WalkInv, Shows, ChainsShown
<1>. QED
  BY <1>1, InitWalk, NextWalk, PTL DEF Spec

-----------------------------------------------------------------------------
(* The boxes.                                                                *)
LEMMA JobsFinite ==
  ASSUME LoadInv
  PROVE  IsFiniteSet(Jobs)
<1>1. Len(c.jobs) \in Nat /\ DOMAIN c.jobs = 1..Len(c.jobs)
  BY JobsType DEF LoadInv
<1>. DEFINE S == 1..Len(c.jobs)
            f == [k \in S |-> c.jobs[k].name]
<1>2. IsFiniteSet(S)
  BY <1>1, FS_Interval
<1>3. f \in Surjection(S, Jobs)
  BY <1>1 DEF Surjection, Jobs, NamesOf
<1>. HIDE DEF f, S
<1>. QED
  BY <1>2, <1>3, FS_Surjection

(* A set of integers between two bounds has a least and a greatest element.  *)
LEMMA BetweenBounds ==
  ASSUME NEW d \in Nat, NEW S \in SUBSET (-1..d), S # {}
  PROVE  /\ Min(S) \in S /\ \A x \in S : Min(S) <= x
         /\ Max(S) \in S /\ \A x \in S : x <= Max(S)
<1>. DEFINE T == {x + 1 : x \in S}
<1>1. \A x \in S : x \in Int /\ x + 1 \in 0..(d + 1) /\ x + 1 \in T
  OBVIOUS
<1>2. T \in SUBSET Nat /\ T # {} /\ d + 1 \in Nat /\ \A y \in T : y <= d + 1
  BY <1>1
<1>. HIDE DEF T
<1>3. PICK y \in T : \A z \in T : y <= z
  BY <1>2, LeastExists
<1>4. PICK z \in T : \A y1 \in T : z >= y1
  BY <1>2, GreatestExists
<1>5. \E a \in S : \A x \in S : a <= x
  <2>1. PICK a \in S : y = a + 1
    BY DEF T
  <2>. QED
    BY <1>1, <1>3, <2>1
<1>6. \E b \in S : \A x \in S : b >= x
  <2>1. PICK b \in S : z = b + 1
    BY DEF T
  <2>. QED
    BY <1>1, <1>4, <2>1
<1>7. Min(S) \in S /\ \A x \in S : Min(S) <= x
  BY <1>5 DEF Min
<1>8. Max(S) \in S /\ \A x \in S : Max(S) >= x
  BY <1>6 DEF Max
<1>. QED
  BY <1>1, <1>7, <1>8

LEMMA StackHeight ==
  ASSUME NEW n \in Nat, n # 0
  PROVE  Stacked(n) = 58 * n - 22
<1>1. Max({0, n - 1}) = n - 1
  <2>1. {0, n - 1} \in SUBSET Int /\ n - 1 \in {0, n - 1} /\ \A y \in {0, n - 1} : y <= n - 1
    OBVIOUS
  <2>. HIDE DEF Max
  <2>. QED
    BY <2>1, MaxIs
<1>. QED
  BY <1>1 DEF Stacked, BoxH, RowGap

LEMMA Half ==
  ASSUME NEW x \in Nat
  PROVE  x \div 2 \in Nat /\ x \div 2 <= x
OBVIOUS

(* The columns that there are.                                               *)
LEMMA ColumnsSpan ==
  ASSUME Shows
  PROVE  /\ Leftmost \in Int /\ Rightmost \in Int
         /\ \A n \in Node : level[n] \in Int /\ Leftmost <= level[n] /\ level[n] <= Rightmost
<1>. DEFINE S == {0} \cup {level[n] : n \in Node}
<1>1. \A n \in Node : level[n] \in -1..MaxChainDepth
  BY DEF Shows
<1>2. S \in SUBSET (-1..MaxChainDepth) /\ S # {}
  BY <1>1, DepthType
<1>3. \A n \in Node : level[n] \in S
  OBVIOUS
<1>. HIDE DEF S
<1>4. /\ Min(S) \in S /\ \A x \in S : Min(S) <= x
      /\ Max(S) \in S /\ \A x \in S : x <= Max(S)
  BY <1>2, DepthType, BetweenBounds
<1>5. Leftmost = Min(S) /\ Rightmost = Max(S)
  BY DEF Leftmost, Rightmost, S
<1>6. /\ \A x \in S : x \in Int /\ Leftmost <= x /\ x <= Rightmost
      /\ Leftmost \in S /\ Rightmost \in S
  BY <1>2, <1>4, <1>5
<1>. QED
  BY <1>3, <1>6

(* How many elements of a set are below one of them.                         *)
Below(C, n) == {k \in C : k < n}

LEMMA BelowCount ==
  ASSUME NEW C \in SUBSET Nat, IsFiniteSet(C), NEW n \in C
  PROVE  /\ Cardinality(C) \in Nat /\ Cardinality(Below(C, n)) \in Nat
         /\ Cardinality(Below(C, n)) + 1 <= Cardinality(C)
         /\ \A m \in C : m < n => Cardinality(Below(C, m)) + 1 <= Cardinality(Below(C, n))
<1>1. ASSUME NEW m \in C
      PROVE  /\ IsFiniteSet(Below(C, m)) /\ Cardinality(Below(C, m)) \in Nat
             /\ IsFiniteSet(Below(C, m) \cup {m})
             /\ Cardinality(Below(C, m) \cup {m}) = Cardinality(Below(C, m)) + 1
  <2>1. Below(C, m) \in SUBSET C /\ m \notin Below(C, m)
    BY DEF Below
  <2>2. IsFiniteSet(Below(C, m))
    BY <2>1, FS_Subset
  <2>. QED
    BY <2>1, <2>2, FS_CardinalityType, FS_AddElement
<1>2. Below(C, n) \cup {n} \in SUBSET C
  BY DEF Below
<1>3. Cardinality(Below(C, n) \cup {n}) <= Cardinality(C) /\ Cardinality(C) \in Nat
  BY <1>2, FS_Subset, FS_CardinalityType
<1>4. ASSUME NEW m \in C, m < n
      PROVE  Cardinality(Below(C, m)) + 1 <= Cardinality(Below(C, n))
  <2>1. Below(C, m) \cup {m} \in SUBSET Below(C, n)
    <3>1. \A k \in C : k < m => k < n
      BY <1>4
    <3>. QED
      BY <1>4, <3>1 DEF Below
  <2>2. Cardinality(Below(C, m) \cup {m}) <= Cardinality(Below(C, n))
    BY <1>1, <2>1, FS_Subset
  <2>. QED
    BY <1>1, <2>2
<1>. QED
  BY <1>1, <1>3, <1>4

(* The rows of a column.                                                     *)
Count(n) == Cardinality(Column(level[n]))

LEMMA RowsOf ==
  ASSUME WalkInv, draw = "drawn", NEW n \in Node
  PROVE  /\ Count(n) \in Nat /\ Row(n) \in Nat /\ Row(n) + 1 <= Count(n)
         /\ Count(n) <= Cardinality(Node) /\ Cardinality(Node) \in Nat
         /\ \A m \in Node : level[m] = level[n] /\ m < n => Row(m) + 1 <= Row(n)
<1>. DEFINE C == Column(level[n])
<1>1. /\ Node \in SUBSET Jobs /\ IsFiniteSet(Jobs) /\ Jobs \in SUBSET Nat
  BY JobsFinite, JobsOf, ConfigAssumption DEF WalkInv, Shows, ConfigAssumption
<1>2. IsFiniteSet(Node) /\ Cardinality(Node) \in Nat
  BY <1>1, FS_Subset, FS_CardinalityType
<1>3. C \in SUBSET Node /\ n \in C
  BY DEF Column
<1>4. IsFiniteSet(C) /\ Cardinality(C) <= Cardinality(Node) /\ C \in SUBSET Nat
  BY <1>1, <1>2, <1>3, FS_Subset
<1>5. Row(n) = Cardinality(Below(C, n)) /\ Count(n) = Cardinality(C)
  BY DEF Row, Count, Below
<1>6. ASSUME NEW m \in Node, level[m] = level[n]
      PROVE  m \in C /\ Row(m) = Cardinality(Below(C, m))
  BY <1>6 DEF Row, Column, Below
<1>. HIDE DEF C
<1>7. /\ Cardinality(C) \in Nat /\ Cardinality(Below(C, n)) \in Nat
      /\ Cardinality(Below(C, n)) + 1 <= Cardinality(C)
      /\ \A m \in C : m < n => Cardinality(Below(C, m)) + 1 <= Cardinality(Below(C, n))
  BY <1>3, <1>4, BelowCount
<1>. QED
  BY <1>2, <1>4, <1>5, <1>6, <1>7

LEMMA MostRows ==
  ASSUME WalkInv, draw = "drawn", NEW n \in Node
  PROVE  MaxRows \in Nat /\ Count(n) <= MaxRows
<1>. DEFINE S == {Count(m) : m \in Node}
<1>1. Cardinality(Node) \in Nat /\ \A m \in Node : Count(m) \in Nat /\ Count(m) <= Cardinality(Node)
  BY RowsOf
<1>2. S \in SUBSET Nat /\ Count(n) \in S /\ \A x \in S : x <= Cardinality(Node)
  BY <1>1
<1>3. MaxRows = Max(S)
  BY DEF MaxRows, Count
<1>. HIDE DEF S
<1>4. PICK x \in S : \A y \in S : x >= y
  BY <1>1, <1>2, GreatestExists
<1>5. Max(S) = x
  <2>1. S \in SUBSET Int /\ \A y \in S : y \in Int /\ y <= x
    BY <1>2, <1>4
  <2>. QED
    BY <2>1, MaxIs
<1>. QED
  BY <1>2, <1>3, <1>4, <1>5

(* A box is in the picture, and above the one after it in its column.        *)
LEMMA BoxInside ==
  ASSUME WalkInv, draw = "drawn", NEW n \in Node
  PROVE  /\ XOf(n) >= Pad /\ XOf(n) + BoxW <= Width - Pad
         /\ YOf(n) >= Pad /\ YOf(n) + BoxH <= Height - Pad
<1>1. Leftmost \in Int /\ Rightmost \in Int /\ level[n] \in Int
      /\ Leftmost <= level[n] /\ level[n] <= Rightmost
  BY ColumnsSpan DEF WalkInv
<1>2. PICK a \in Nat, b \in Nat : level[n] = Leftmost + a /\ Rightmost = level[n] + b
  <2>1. level[n] - Leftmost \in Nat /\ Rightmost - level[n] \in Nat
    BY <1>1
  <2>2. level[n] = Leftmost + (level[n] - Leftmost) /\ Rightmost = level[n] + (Rightmost - level[n])
    BY <1>1
  <2>. QED
    BY <2>1, <2>2
<1>3. level[n] - Leftmost = a /\ Rightmost - Leftmost = a + b
  BY <1>1, <1>2
<1>4. XOf(n) = 12 + a * 220 /\ Width = 24 + (a + b + 1) * 150 + (a + b) * 70
  BY <1>3 DEF XOf, Width, Pad, BoxW, ColGap
<1>5. XOf(n) >= Pad /\ XOf(n) + BoxW <= Width - Pad
  BY <1>4 DEF Pad, BoxW
<1>6. PICK q \in Nat, r \in Nat, h \in Nat :
        q = Count(n) /\ r = Row(n) /\ h = MaxRows /\ r + 1 <= q /\ q <= h
  BY RowsOf, MostRows
<1>7. Stacked(q) = 58 * q - 22 /\ Stacked(h) = 58 * h - 22
  BY <1>6, StackHeight
<1>8. Height = 24 + Stacked(h)
  BY <1>6 DEF Height, Pad
<1>9. PICK x \in Nat : x = 58 * h - 58 * q
  <2>1. 58 * h - 58 * q \in Nat
    BY <1>6
  <2>. QED
    BY <2>1
<1>10. Height - 2 * Pad - Stacked(q) = x
  BY <1>7, <1>8, <1>9 DEF Pad
<1>11. YOf(n) = 12 + x \div 2 + r * 58
  BY <1>6, <1>10 DEF YOf, Count, Pad, BoxH, RowGap
<1>12. x \div 2 \in Nat /\ x \div 2 <= x
  BY Half
<1>13. YOf(n) >= Pad /\ YOf(n) + BoxH <= Height - Pad
  BY <1>6, <1>7, <1>8, <1>9, <1>11, <1>12 DEF Pad, BoxH
<1>. QED
  BY <1>5, <1>13

LEMMA BoxBelow ==
  ASSUME WalkInv, draw = "drawn", NEW m \in Node, NEW n \in Node, m < n, XOf(m) = XOf(n)
  PROVE  YOf(n) >= YOf(m) + BoxH
<1>1. Leftmost \in Int /\ level[m] \in Int /\ level[n] \in Int
  BY ColumnsSpan DEF WalkInv
<1>2. level[m] = level[n]
  <2>1. PICK a \in Int, b \in Int : a = level[m] - Leftmost /\ b = level[n] - Leftmost
    BY <1>1
  <2>2. XOf(m) = 12 + a * 220 /\ XOf(n) = 12 + b * 220
    BY <2>1 DEF XOf, Pad, BoxW, ColGap
  <2>3. a = b
    <3>1. 12 + a * 220 = 12 + b * 220
      BY <2>2
    <3>2. \A i, k \in Int : 12 + i * 220 = 12 + k * 220 => i = k
      OBVIOUS
    <3>. QED
      BY <2>1, <3>1, <3>2, ZenonT(30)
  <2>. QED
    BY <1>1, <2>1, <2>3
<1>3. PICK r \in Nat, s \in Nat : r = Row(m) /\ s = Row(n) /\ r + 1 <= s
  BY <1>2, RowsOf
<1>. DEFINE top == Pad + (Height - 2 * Pad - Stacked(Count(n))) \div 2
<1>4. YOf(m) = top + r * 58 /\ YOf(n) = top + s * 58
  BY <1>2, <1>3 DEF YOf, Count, BoxH, RowGap
<1>5. top \in Int
  <2>1. PICK q \in Nat, h \in Nat : q = Count(n) /\ h = MaxRows /\ q # 0 /\ h # 0
    BY RowsOf, MostRows, <1>3
  <2>2. Stacked(q) \in Int /\ Stacked(h) \in Int
    BY <2>1, StackHeight
  <2>3. Height - 2 * Pad - Stacked(Count(n)) \in Int
    BY <2>1, <2>2 DEF Height, Pad
  <2>. QED
    BY <2>3 DEF Pad
<1>. HIDE DEF top
<1>. QED
  BY <1>3, <1>4, <1>5 DEF BoxH

(* Whatever the graph and the names: when the picture is finished, no two of *)
(* its boxes overlap, and none sticks out of the picture.                    *)
THEOREM NoOverlap == Spec => []BoxesApart
<1>1. WalkInv => BoxesApart
  <2>. SUFFICES ASSUME WalkInv, draw = "drawn", NEW m \in Node, NEW n \in Node
                PROVE  /\ XOf(n) >= Pad /\ XOf(n) + BoxW <= Width - Pad
                       /\ YOf(n) >= Pad /\ YOf(n) + BoxH <= Height - Pad
                       /\ m # n /\ XOf(m) = XOf(n) =>
                            YOf(m) >= YOf(n) + BoxH \/ YOf(n) >= YOf(m) + BoxH
    BY DEF BoxesApart
  <2>1. m \in Int /\ n \in Int
    <3>1. Node \in SUBSET Jobs /\ Jobs \in SUBSET Name /\ Name \subseteq Nat
      BY JobsOf, ConfigAssumption DEF WalkInv, Shows, ConfigAssumption
    <3>. QED
      BY <3>1
  <2>2. m = n \/ m < n \/ n < m
    BY <2>1
  <2>. QED
    BY <2>2, BoxInside, BoxBelow
<1>. QED
  BY <1>1, InitWalk, NextWalk, PTL DEF Spec

-----------------------------------------------------------------------------
(* The records of the job's runs.                                            *)
Keep == KeepRunsFor(JobNamed(focus))

Least(a, b) == IF a <= b THEN a ELSE b

(* Newest first, each of another start time.                                 *)
Newer(s) == \A i, k \in 1..Len(s) : i < k => s[k].id < s[i].id

RunInv ==
  /\ runs \in Seq(RunRecord) /\ Newer(runs)
  /\ started \in 0..MaxRuns /\ \A k \in 1..Len(runs) : runs[k].id <= started
  /\ phase \in {"idle", "running", "torn", "prune"}
  /\ cutoff \in 1..(started + 1)
  /\ \A k \in 1..Len(runs) : runs[k].status = "running" <=> (k = 1 /\ phase \in {"running", "torn"})
  /\ draw # "drawn" => started = 0 /\ phase = "idle" /\ runs = << >>
  /\ draw = "drawn" /\ phase = "idle" => Len(runs) = Least(started, Keep)
  /\ phase # "idle" => /\ draw = "drawn" /\ started > 0 /\ Len(runs) > 0
                       /\ Len(runs) = Least(started - 1, Keep) + 1

LEMMA MinIs ==
  ASSUME NEW a \in Int, NEW b \in Int
  PROVE  Min({a, b}) = Least(a, b)
<1>1. Least(a, b) \in {a, b} /\ \A y \in {a, b} : Least(a, b) <= y
  BY DEF Least
<1>2. Min({a, b}) \in {a, b} /\ \A y \in {a, b} : Min({a, b}) <= y
  BY <1>1 DEF Min
<1>3. \A x, z \in {a, b} : x <= z /\ z <= x => x = z
  OBVIOUS
<1>. QED
  BY <1>1, <1>2, <1>3

LEMMA KeepType ==
  ASSUME WalkInv, FilledIn, draw = "drawn"
  PROVE  Keep \in Nat /\ Keep > 0
<1>1. load = "accepted" /\ LoadInv /\ focus \in Jobs
  BY DEF WalkInv
<1>2. JobNamed(focus) \in JobText
  BY <1>1, JobsOf
<1>3. JobNamed(focus).keepRuns \in Int
  BY <1>2 DEF JobText
<1>4. c.keepRuns \in Int /\ c.keepRuns > 0
  BY <1>1 DEF FilledIn, FileText
<1>. QED
  BY <1>3, <1>4 DEF Keep, KeepRunsFor

LEMMA InitRuns == Init => RunInv
<1>. SUFFICES ASSUME Init PROVE RunInv
  OBVIOUS
<1>1. /\ runs = << >> /\ started = 0 /\ phase = "idle" /\ cutoff = 1 /\ draw = "none"
  BY DEF Init, DiagramInit
<1>2. MaxRuns \in Nat
  BY JobPageAssumption DEF JobPageAssumption
<1>. QED
  BY <1>1, <1>2 DEF RunInv, Newer

(* A record in front of the others.                                          *)
LEMMA Prepend ==
  ASSUME NEW A, NEW x \in A, NEW s \in Seq(A)
  PROVE  /\ <<x>> \o s \in Seq(A) /\ Len(s) \in Nat /\ Len(<<x>> \o s) = Len(s) + 1
         /\ (<<x>> \o s)[1] = x
         /\ \A i \in 1..(Len(s) + 1) : i = 1 \/ (i - 1 \in 1..Len(s) /\ (<<x>> \o s)[i] = s[i - 1])
<1>1. <<x>> \in Seq(A) /\ Len(<<x>>) = 1 /\ <<x>>[1] = x /\ Len(s) \in Nat
  OBVIOUS
<1>2. /\ <<x>> \o s \in Seq(A) /\ Len(<<x>> \o s) = 1 + Len(s)
      /\ \A i \in 1..(1 + Len(s)) :
           (<<x>> \o s)[i] = IF i <= 1 THEN <<x>>[i] ELSE s[i - 1]
  BY <1>1, ConcatProperties
<1>. QED
  BY <1>1, <1>2

LEMMA StartRuns ==
  ASSUME RunInv, StartRun
  PROVE  RunInv'
<1>. PICK r : r = [id |-> started + 1, status |-> "running", exit |-> 0, dur |-> 0]
  OBVIOUS
<1>. PICK s : s = runs
  OBVIOUS
<1>1. /\ draw = "drawn" /\ phase = "idle" /\ started < MaxRuns /\ started' = started + 1
      /\ phase' = "running" /\ runs' = <<r>> \o s
      /\ UNCHANGED <<c, focus, draw, cutoff>>
  BY DEF StartRun, Browsing, configVars, diagramVars, pageVars
<1>2. MaxRuns \in Nat /\ MaxDur \in Nat /\ started \in Nat /\ started' \in 0..MaxRuns
  BY <1>1, JobPageAssumption DEF JobPageAssumption, RunInv
<1>3. r \in RunRecord /\ r.id = started + 1 /\ r.status = "running"
  BY <1>1, <1>2 DEF RunRecord, Id, RunStatus, ExitCode, Dur
<1>4. /\ runs' \in Seq(RunRecord) /\ Len(s) \in Nat /\ Len(runs') = Len(s) + 1 /\ runs'[1] = r
      /\ \A i \in 1..(Len(s) + 1) : i = 1 \/ (i - 1 \in 1..Len(s) /\ runs'[i] = s[i - 1])
  BY <1>1, <1>3, Prepend DEF RunInv
<1>5. \A i \in 1..Len(s) : /\ s[i] \in RunRecord /\ s[i].id \in Int
                            /\ s[i].id <= started /\ s[i].status # "running"
  <2>1. \A i \in 1..Len(s) : s[i] \in RunRecord
    BY ElementOfSeq DEF RunInv
  <2>. QED
    BY <1>1, <2>1 DEF RunInv, RunRecord, Id
<1>6. ASSUME NEW i \in 1..Len(runs'), NEW k \in 1..Len(runs'), i < k
      PROVE  runs'[k].id < runs'[i].id
  <2>1. k - 1 \in 1..Len(s) /\ runs'[k] = s[k - 1]
    BY <1>4, <1>6
  <2>2. CASE i = 1
    BY <1>2, <1>3, <1>4, <1>5, <2>1, <2>2
  <2>3. CASE i # 1
    <3>1. i - 1 \in 1..Len(s) /\ runs'[i] = s[i - 1] /\ i - 1 < k - 1
      BY <1>4, <1>6, <2>3
    <3>. QED
      BY <2>1, <3>1 DEF RunInv, Newer
  <2>. QED
    BY <2>2, <2>3
<1>7. ASSUME NEW k \in 1..Len(runs')
      PROVE  runs'[k].id <= started' /\ (runs'[k].status = "running" <=> k = 1)
  <2>1. CASE k = 1
    BY <1>1, <1>2, <1>3, <1>4, <2>1
  <2>2. CASE k # 1
    <3>1. k - 1 \in 1..Len(s) /\ runs'[k] = s[k - 1]
      BY <1>4, <2>2
    <3>. QED
      BY <1>1, <1>2, <1>5, <2>2, <3>1, SMTT(30)
  <2>. QED
    BY <2>1, <2>2
<1>8. Keep' = Keep /\ started' - 1 = started /\ started' > 0 /\ cutoff' \in 1..(started' + 1)
  <2>1. Keep' = Keep
    BY <1>1 DEF Keep, KeepRunsFor, JobNamed
  <2>2. cutoff \in 1..(started + 1)
    BY DEF RunInv
  <2>. QED
    BY <1>1, <1>2, <2>1, <2>2
<1>9. Len(runs') = Least(started' - 1, Keep') + 1
  BY <1>1, <1>4, <1>8 DEF RunInv, Least
<1>10. Newer(runs')
  BY <1>6 DEF Newer
<1>. QED
  BY <1>1, <1>2, <1>4, <1>7, <1>8, <1>9, <1>10 DEF RunInv, Newer

(* The newest record changes, but not its start.                             *)
LEMMA Amend ==
  ASSUME RunInv, phase = "running" \/ phase = "torn", NEW r \in RunRecord, r.id = runs[1].id,
         runs' = [runs EXCEPT ![1] = r], UNCHANGED <<c, focus, draw, started, cutoff>>,
         \/ phase' = phase /\ r.status = "running"
         \/ phase' = "prune" /\ r.status # "running"
  PROVE  RunInv'
<1>. PICK s : s = runs
  OBVIOUS
<1>. PICK t : t = [s EXCEPT ![1] = r]
  OBVIOUS
<1>1. s \in Seq(RunRecord) /\ Len(s) \in Nat /\ Len(s) > 0 /\ runs' = t
  BY LenProperties DEF RunInv
<1>2. 1 \in 1..Len(s)
  BY <1>1
<1>3. /\ t \in Seq(RunRecord) /\ Len(t) = Len(s) /\ t[1] = r
      /\ \A i \in 1..Len(s) : i # 1 => t[i] = s[i]
  BY <1>1, <1>2, ExceptSeq
<1>4. \A i \in 1..Len(s) : t[i].id = s[i].id
  BY <1>3
<1>5. Newer(t) /\ \A k \in 1..Len(t) : t[k].id <= started
  BY <1>3, <1>4 DEF RunInv, Newer
<1>6. ASSUME NEW k \in 1..Len(t)
      PROVE  t[k].status = "running" <=> (k = 1 /\ phase' \in {"running", "torn"})
  <2>1. CASE k = 1
    BY <1>3, <2>1
  <2>2. CASE k # 1
    BY <1>3, <2>2 DEF RunInv
  <2>. QED
    BY <2>1, <2>2
<1>7. Keep' = Keep
  BY DEF Keep, KeepRunsFor, JobNamed
<1>8. /\ started' \in 0..MaxRuns /\ phase' \in {"running", "torn", "prune"} /\ cutoff' \in 1..(started' + 1)
      /\ draw' = "drawn" /\ started' > 0 /\ Len(t) > 0 /\ Len(t) = Least(started' - 1, Keep') + 1
  BY <1>1, <1>3, <1>7 DEF RunInv
<1>. QED
  BY <1>1, <1>3, <1>5, <1>6, <1>8 DEF RunInv

LEMMA FirstRecord ==
  ASSUME RunInv, phase # "idle"
  PROVE  /\ runs[1] \in RunRecord /\ Head(runs) = runs[1]
         /\ runs \in Seq(RunRecord) /\ Len(runs) \in Nat /\ Len(runs) > 0
<1>1. runs \in Seq(RunRecord) /\ Len(runs) \in Nat /\ Len(runs) > 0
  BY LenProperties DEF RunInv
<1>2. 1 \in 1..Len(runs)
  BY <1>1
<1>. QED
  BY <1>1, <1>2, ElementOfSeq

LEMMA GrowRuns ==
  ASSUME RunInv, Grow
  PROVE  RunInv'
<1>1. /\ phase = "running" /\ Head(runs).dur < MaxDur /\ runs' = [runs EXCEPT ![1].dur = @ + 1]
      /\ UNCHANGED <<c, focus, draw, started, cutoff, phase>>
  BY DEF Grow, configVars, diagramVars, pageVars
<1>2. runs[1] \in RunRecord /\ Head(runs) = runs[1] /\ Len(runs) \in Nat /\ Len(runs) > 0
  BY <1>1, FirstRecord
<1>. PICK r : r = [runs[1] EXCEPT !.dur = @ + 1]
  OBVIOUS
<1>3. MaxDur \in Nat /\ runs[1].dur \in 0..MaxDur /\ runs[1].dur < MaxDur
  BY <1>1, <1>2, JobPageAssumption DEF JobPageAssumption, RunRecord, Dur
<1>4. r \in RunRecord /\ r.id = runs[1].id /\ r.status = runs[1].status
  <2>1. runs[1].dur + 1 \in Dur
    BY <1>3 DEF Dur
  <2>. QED
    BY <1>2, <2>1 DEF RunRecord
<1>5. r.status = "running"
  <2>1. 1 \in 1..Len(runs)
    BY <1>2
  <2>. QED
    BY <1>1, <1>4, <2>1 DEF RunInv
<1>6. runs' = [runs EXCEPT ![1] = r]
  BY <1>1
<1>. QED
  BY <1>1, <1>4, <1>5, <1>6, Amend

LEMMA FinalRuns ==
  ASSUME RunInv, WriteFinal
  PROVE  RunInv'
<1>1. /\ phase = "torn" /\ phase' = "prune"
      /\ UNCHANGED <<c, focus, draw, started, cutoff>>
  BY DEF WriteFinal, configVars, diagramVars, pageVars
<1>2. PICK end \in Ending : runs' = [runs EXCEPT ![1].status = end[1], ![1].exit = end[2]]
  BY DEF WriteFinal
<1>3. end[1] \in RunStatus /\ end[1] # "running" /\ end[2] \in ExitCode
  BY JobPageAssumption DEF JobPageAssumption
<1>4. runs[1] \in RunRecord /\ Len(runs) \in Nat /\ Len(runs) > 0 /\ runs \in Seq(RunRecord)
  BY <1>1, FirstRecord
<1>. PICK r : r = [runs[1] EXCEPT !.status = end[1], !.exit = end[2]]
  OBVIOUS
<1>5. r \in RunRecord /\ r.id = runs[1].id /\ r.status = end[1]
  BY <1>3, <1>4 DEF RunRecord
<1>6. runs' = [runs EXCEPT ![1] = r]
  <2>1. 1 \in DOMAIN runs
    BY <1>4
  <2>. QED
    BY <1>2, <1>4, <1>5, <2>1
<1>. QED
  BY <1>1, <1>3, <1>5, <1>6, Amend

LEMMA OpenRuns ==
  ASSUME RunInv, OpenFinal
  PROVE  RunInv'
<1>1. /\ phase = "running" /\ phase' = "torn"
      /\ UNCHANGED <<c, focus, draw, runs, started, cutoff>>
  BY DEF OpenFinal, configVars, diagramVars, pageVars
<1>2. Keep' = Keep
  BY <1>1 DEF Keep, KeepRunsFor, JobNamed
<1>. QED
  BY <1>1, <1>2 DEF RunInv

LEMMA Prefix ==
  ASSUME NEW A, NEW s, NEW n \in Nat, Holds(s, n, A)
  PROVE  /\ SubSeq(s, 1, n) \in Seq(A) /\ Len(SubSeq(s, 1, n)) = n
         /\ \A i \in 1..n : SubSeq(s, 1, n)[i] = s[i]
<1>1. \A i \in 1..n : s[i] \in A
  BY DEF Holds
<1>2. /\ SubSeq(s, 1, n) \in Seq(A)
      /\ Len(SubSeq(s, 1, n)) = IF 1 <= n THEN n - 1 + 1 ELSE 0
      /\ \A i \in 1..(n - 1 + 1) : SubSeq(s, 1, n)[i] = s[1 + i - 1]
  BY <1>1, SubSeqProperties
<1>3. n - 1 + 1 = n /\ (~(1 <= n) => n = 0) /\ \A i \in 1..n : 1 + i - 1 = i
  OBVIOUS
<1>. QED
  BY <1>2, <1>3

LEMMA PruneRuns ==
  ASSUME WalkInv, FilledIn, RunInv, Prune
  PROVE  RunInv'
<1>. PICK s : s = runs
  OBVIOUS
<1>1. /\ phase = "prune" /\ phase' = "idle" /\ draw = "drawn"
      /\ runs' = SubSeq(s, 1, Min({Len(s), Keep}))
      /\ UNCHANGED <<c, focus, draw, started, cutoff>>
  BY DEF Prune, Browsing, configVars, diagramVars, pageVars, Keep
<1>2. Keep \in Nat /\ Keep > 0
  BY <1>1, KeepType
<1>3. /\ s \in Seq(RunRecord) /\ Len(s) \in Nat /\ Len(s) = Least(started - 1, Keep) + 1
      /\ started \in Nat /\ started > 0
  BY <1>1, LenProperties DEF RunInv
<1>4. PICK n \in Nat : n = Min({Len(s), Keep}) /\ n = Least(started, Keep) /\ n <= Len(s)
  <2>1. PICK a \in Nat, b \in Nat, l \in Nat : a = started /\ b = Keep /\ l = Len(s)
    BY <1>2, <1>3
  <2>2. a > 0 /\ b > 0 /\ l = Least(a - 1, b) + 1
    BY <1>2, <1>3, <2>1
  <2>3. Least(l, b) = Least(a, b) /\ Least(l, b) \in Nat /\ Least(l, b) <= l
    BY <2>2 DEF Least
  <2>4. Min({l, b}) = Least(l, b)
    BY MinIs
  <2>. QED
    BY <2>1, <2>3, <2>4
<1>. PICK t : t = SubSeq(s, 1, n)
  OBVIOUS
<1>5. \A i \in 1..n : i \in 1..Len(s) /\ s[i] \in RunRecord
  BY <1>3, <1>4, ElementOfSeq
<1>6. t \in Seq(RunRecord) /\ Len(t) = n /\ \A i \in 1..n : t[i] = s[i]
  <2>1. Holds(s, n, RunRecord)
    BY <1>5 DEF Holds
  <2>. QED
    BY <2>1, Prefix
<1>7. /\ \A k \in 1..Len(t) : k \in 1..Len(s) /\ t[k] = s[k]
      /\ \A k \in 1..Len(s) : s[k].id <= started /\ s[k].status # "running"
      /\ Newer(s)
  BY <1>1, <1>5, <1>6 DEF RunInv
<1>8. Newer(t) /\ \A k \in 1..Len(t) : t[k].id <= started /\ t[k].status # "running"
  BY <1>7 DEF Newer
<1>9. Keep' = Keep /\ runs' = t
  <2>1. c' = c /\ focus' = focus
    BY <1>1
  <2>2. Keep' = Keep
    BY <2>1 DEF Keep, KeepRunsFor, JobNamed
  <2>. QED
    BY <1>1, <1>4, <2>2
<1>10. started' \in 0..MaxRuns /\ cutoff' \in 1..(started' + 1)
  BY <1>1 DEF RunInv
<1>. QED
  BY <1>1, <1>4, <1>6, <1>8, <1>9, <1>10 DEF RunInv

LEMMA VisitRuns ==
  ASSUME RunInv, NextPage \/ \E q \in Queries, p \in {0, MaxRuns} : Visit(q, p)
  PROVE  RunInv'
<1>1. UNCHANGED <<c, focus, draw, runs, phase, started>>
  BY DEF Visit, NextPage, configVars, diagramVars, runVars
<1>2. started \in Nat /\ cutoff \in 1..(started + 1)
  BY DEF RunInv
<1>3. cutoff' \in 1..(started + 1)
  <2>1. CASE NextPage
    <3>1. PICK cut \in cutoff..(started + 1) : cutoff' = cut
      BY <2>1 DEF NextPage
    <3>. QED
      BY <1>2, <3>1
  <2>2. ASSUME NEW q \in Queries, NEW p \in {0, MaxRuns}, Visit(q, p)
        PROVE  cutoff' \in 1..(started + 1)
    <3>1. PICK cut \in 1..(started + 1) : cutoff' = cut
      BY <2>2 DEF Visit
    <3>. QED
      BY <3>1
  <2>. QED
    BY <2>1, <2>2
<1>4. Keep' = Keep
  BY <1>1 DEF Keep, KeepRunsFor, JobNamed
<1>. QED
  BY <1>1, <1>3, <1>4 DEF RunInv

PageInv == WalkInv /\ FilledIn /\ ConfigTypeOK /\ RunInv

LEMMA SameRuns ==
  ASSUME RunInv, UNCHANGED <<c, focus, draw, runs, started, phase, cutoff>>
  PROVE  RunInv'
<1>1. Keep' = Keep
  BY DEF Keep, KeepRunsFor, JobNamed
<1>. QED
  BY <1>1 DEF RunInv

LEMMA NoRuns ==
  ASSUME RunInv, draw # "drawn", UNCHANGED <<runs, started, phase, cutoff>>,
         draw' = "drawn" => Keep' \in Nat
  PROVE  RunInv'
<1>1. started' = 0 /\ phase' = "idle" /\ runs' = << >> /\ Len(runs') = 0
  BY DEF RunInv
<1>2. draw' = "drawn" => Least(started', Keep') = 0
  BY <1>1 DEF Least
<1>. QED
  BY <1>1, <1>2 DEF RunInv

LEMMA NextPageInv == PageInv /\ [Next]_vars => PageInv'
<1>. SUFFICES ASSUME PageInv, [Next]_vars PROVE PageInv'
  OBVIOUS
<1>1. WalkInv /\ FilledIn /\ ConfigTypeOK /\ RunInv /\ LoadInv
  BY DEF PageInv, WalkInv
<1>2. [Load]_configVars
  BY DEF Next, LoadFile, DrawChains, StartRun, Grow, OpenFinal, WriteFinal, Prune, NextPage,
         Visit, vars
<1>3. WalkInv' /\ FilledIn' /\ ConfigTypeOK'
  BY <1>1, <1>2, NextWalk, FillsIn, TypesLoad
<1>4. draw' = "drawn" => Keep' \in Nat
  <2>1. (WalkInv /\ FilledIn /\ draw = "drawn" => Keep \in Nat)'
    BY KeepType, PTL
  <2>. QED
    BY <1>3, <2>1
<1>5. CASE LoadFile \/ DrawChains
  <2>1. draw # "drawn"
    <3>1. CASE LoadFile
      <4>1. load # "accepted"
        BY <3>1 DEF LoadFile, Load, Defaults, UnknownZone, CheckNotify, BadNotify, CheckJob, BadJob,
                    JobsDone, CheckChains, UnknownChain, Accept
      <4>. QED
        BY <1>1, <4>1 DEF WalkInv
    <3>2. CASE DrawChains
      BY <3>2 DEF DrawChains, Draw, Open, Walk, Follow, TooDeep, Upstream
    <3>. QED
      BY <1>5, <3>1, <3>2
  <2>2. UNCHANGED <<runs, started, phase, cutoff>>
    BY <1>5 DEF LoadFile, DrawChains, runVars, pageVars
  <2>. QED
    BY <1>1, <1>3, <1>4, <2>1, <2>2, NoRuns DEF PageInv
<1>6. CASE UNCHANGED vars
  <2>1. UNCHANGED <<c, focus, draw, runs, started, phase, cutoff>>
    BY <1>6 DEF vars, configVars, diagramVars, runVars, pageVars
  <2>. QED
    BY <1>1, <1>3, <2>1, SameRuns DEF PageInv
<1>7. CASE StartRun \/ Grow \/ OpenFinal \/ WriteFinal \/ Prune
  BY <1>1, <1>3, <1>7, StartRuns, GrowRuns, OpenRuns, FinalRuns, PruneRuns DEF PageInv
<1>8. CASE NextPage \/ \E q \in Queries, p \in {0, MaxRuns} : Visit(q, p)
  BY <1>1, <1>3, <1>8, VisitRuns DEF PageInv
<1>. QED
  BY <1>5, <1>6, <1>7, <1>8 DEF Next

LEMMA InitPage == Init => PageInv
BY InitWalk, InitRuns, InitTypes DEF Init, PageInv

(* The newest record alone may be that of a run in flight; and when none is, *)
(* as many are there as the prune keeps of this job, or as ever were.        *)
THEOREM PageTyping == Spec => []PageTypeOK
<1>1. PageInv => PageTypeOK
  <2>. SUFFICES ASSUME PageInv PROVE PageTypeOK
    OBVIOUS
  <2>1. WalkInv /\ FilledIn /\ ConfigTypeOK /\ RunInv
    BY DEF PageInv
  <2>2. DOMAIN runs = 1..Len(runs)
    BY <2>1, LenProperties DEF RunInv
  <2>3. ASSUME phase = "idle", draw = "drawn"
        PROVE  Len(runs) = Min({started, KeepRunsFor(JobNamed(focus))})
    <3>1. Keep \in Int /\ started \in Int
      BY <2>1, <2>3, KeepType DEF RunInv
    <3>2. Min({started, Keep}) = Least(started, Keep)
      BY <3>1, MinIs
    <3>. QED
      BY <2>1, <2>3, <3>2 DEF RunInv, Keep
  <2>. QED
    BY <2>1, <2>2, <2>3 DEF RunInv, PageTypeOK
<1>. QED
  BY <1>1, InitPage, NextPageInv, PTL DEF Spec

-----------------------------------------------------------------------------
(* The list of a request.                                                    *)
LEMMA KeyType ==
  ASSUME NEW r \in RunRecord, NEW q
  PROVE  Key(r, q) \in Int
<1>1. r.status \in RunStatus /\ r.dur \in Int /\ r.exit \in Int /\ r.id \in Int
  BY DEF RunRecord, Dur, ExitCode, Id
<1>2. \E k \in DOMAIN Alphabetical : Alphabetical[k] = r.status
  <2>1. /\ DOMAIN Alphabetical = 1..6
        /\ Alphabetical[1] = "canceled" /\ Alphabetical[2] = "failed"
        /\ Alphabetical[3] = "interrupted" /\ Alphabetical[4] = "running"
        /\ Alphabetical[5] = "success" /\ Alphabetical[6] = "timeout"
    BY DEF Alphabetical
  <2>2. r.status \in {"running", "success", "failed", "timeout", "canceled", "interrupted"}
    BY <1>1 DEF RunStatus
  <2>3. 1 \in 1..6 /\ 2 \in 1..6 /\ 3 \in 1..6 /\ 4 \in 1..6 /\ 5 \in 1..6 /\ 6 \in 1..6
    OBVIOUS
  <2>. QED
    BY <2>1, <2>2, <2>3, Zenon
<1>3. (CHOOSE k \in DOMAIN Alphabetical : Alphabetical[k] = r.status) \in Int
  <2>1. DOMAIN Alphabetical \subseteq Int
    BY DEF Alphabetical
  <2>. QED
    BY <1>2, <2>1
<1>. QED
  BY <1>1, <1>3 DEF Key

(* Where a record is inserted: after the last one that it is not less than.  *)
Place(s, x, q) == Max({0} \cup {n \in DOMAIN s : ~Less(x, s[n], q)})

(* x is the k+1st of t, and the others are those of s.                       *)
Moved(s, x, k, t) ==
  /\ k \in 0..Len(s) /\ t \in Seq(RunRecord) /\ Len(t) = Len(s) + 1
  /\ \A i \in 1..k : t[i] = s[i]
  /\ t[k + 1] = x
  /\ \A i \in (k + 1)..Len(s) : t[i + 1] = s[i]

LEMMA Suffix ==
  ASSUME NEW A, NEW s \in Seq(A), NEW k \in 0..Len(s)
  PROVE  /\ SubSeq(s, k + 1, Len(s)) \in Seq(A) /\ Len(SubSeq(s, k + 1, Len(s))) = Len(s) - k
         /\ \A i \in 1..(Len(s) - k) : SubSeq(s, k + 1, Len(s))[i] = s[k + i]
<1>1. Len(s) \in Nat /\ k \in Nat /\ k <= Len(s)
  BY LenProperties
<1>2. \A i \in (k + 1)..Len(s) : s[i] \in A
  BY <1>1, ElementOfSeq
<1>3. /\ SubSeq(s, k + 1, Len(s)) \in Seq(A)
      /\ Len(SubSeq(s, k + 1, Len(s))) = IF k + 1 <= Len(s) THEN Len(s) - (k + 1) + 1 ELSE 0
      /\ \A i \in 1..(Len(s) - (k + 1) + 1) : SubSeq(s, k + 1, Len(s))[i] = s[k + 1 + i - 1]
  BY <1>1, <1>2, SubSeqProperties
<1>4. /\ Len(s) - (k + 1) + 1 = Len(s) - k /\ (~(k + 1 <= Len(s)) => Len(s) - k = 0)
      /\ \A i \in 1..(Len(s) - k) : k + 1 + i - 1 = k + i
  BY <1>1
<1>. QED
  BY <1>3, <1>4

LEMMA Inserted ==
  ASSUME NEW s \in Seq(RunRecord), NEW x \in RunRecord, NEW q
  PROVE  /\ Moved(s, x, Place(s, x, q), Insert(s, x, q))
         /\ Place(s, x, q) # 0 => ~Less(x, s[Place(s, x, q)], q)
         /\ \A n \in 1..Len(s) : Place(s, x, q) < n => Less(x, s[n], q)
<1>. PICK k : k = Place(s, x, q)
  OBVIOUS
<1>. DEFINE S == {0} \cup {n \in DOMAIN s : ~Less(x, s[n], q)}
<1>1. Len(s) \in Nat /\ DOMAIN s = 1..Len(s)
  BY LenProperties
<1>2. S \in SUBSET Nat /\ S # {} /\ \A y \in S : y <= Len(s)
  <2>1. S \subseteq 0..Len(s)
    BY <1>1
  <2>. QED
    BY <1>1, <2>1
<1>3. k \in S /\ \A y \in S : y <= k
  <2>. HIDE DEF S
  <2>1. PICK y \in S : \A z \in S : y >= z
    BY <1>1, <1>2, GreatestExists
  <2>2. S \in SUBSET Int /\ \A z \in S : z <= y
    BY <1>2, <2>1
  <2>3. Max(S) = y
    BY <2>2, MaxIs
  <2>. QED
    BY <2>2, <2>3 DEF Place, S
<1>4. k \in 0..Len(s) /\ k \in Nat
  BY <1>1, <1>2, <1>3
<1>5. k # 0 => ~Less(x, s[k], q)
  BY <1>3
<1>6. \A n \in 1..Len(s) : k < n => Less(x, s[n], q)
  <2>. SUFFICES ASSUME NEW n \in 1..Len(s), k < n, ~Less(x, s[n], q) PROVE FALSE
    OBVIOUS
  <2>1. n \in S
    BY <1>1
  <2>2. n <= k
    BY <1>3, <2>1
  <2>. QED
    BY <1>4, <2>2
<1>. PICK a : a = SubSeq(s, 1, k)
  OBVIOUS
<1>. PICK b : b = SubSeq(s, k + 1, Len(s))
  OBVIOUS
<1>7. a \in Seq(RunRecord) /\ Len(a) = k /\ \A i \in 1..k : a[i] = s[i]
  <2>1. \A i \in 1..k : s[i] \in RunRecord
    BY <1>1, <1>4, ElementOfSeq
  <2>2. Holds(s, k, RunRecord)
    BY <2>1 DEF Holds
  <2>. QED
    BY <1>4, <2>2, Prefix
<1>8. /\ b \in Seq(RunRecord) /\ Len(b) = Len(s) - k
      /\ \A i \in 1..(Len(s) - k) : b[i] = s[k + i]
  BY <1>4, Suffix
<1>9. /\ Append(a, x) \in Seq(RunRecord) /\ Len(Append(a, x)) = k + 1
      /\ \A i \in 1..k : Append(a, x)[i] = s[i]
      /\ Append(a, x)[k + 1] = x
  BY <1>4, <1>7, AppendProperties
<1>10. Insert(s, x, q) = Append(a, x) \o b
  <2>1. a \o <<x>> = Append(a, x)
    BY <1>7, AppendIsConcat
  <2>. QED
    BY <2>1 DEF Insert, Place
<1>0. PICK e \in Seq(RunRecord) : e = Append(a, x)
  BY <1>9
<1>11. /\ e \o b \in Seq(RunRecord) /\ Len(e \o b) = Len(s) + 1
       /\ \A i \in 1..(Len(s) + 1) : (e \o b)[i] = IF i <= k + 1 THEN e[i] ELSE b[i - (k + 1)]
  <2>1. /\ e \o b \in Seq(RunRecord) /\ Len(e \o b) = Len(e) + Len(b)
        /\ \A i \in 1..(Len(e) + Len(b)) : (e \o b)[i] = IF i <= Len(e) THEN e[i] ELSE b[i - Len(e)]
    BY <1>8, ConcatProperties
  <2>2. Len(e) = k + 1 /\ Len(e) + Len(b) = Len(s) + 1
    BY <1>0, <1>1, <1>4, <1>8, <1>9
  <2>. QED
    BY <2>1, <2>2
<1>12. \A i \in 1..k : (e \o b)[i] = s[i]
  <2>. SUFFICES ASSUME NEW i \in 1..k PROVE (e \o b)[i] = s[i]
    OBVIOUS
  <2>1. i \in 1..(Len(s) + 1) /\ i <= k + 1
    BY <1>1, <1>4
  <2>. QED
    BY <1>0, <1>9, <1>11, <2>1
<1>13. (e \o b)[k + 1] = x
  <2>1. k + 1 \in 1..(Len(s) + 1) /\ k + 1 <= k + 1
    BY <1>1, <1>4
  <2>. QED
    BY <1>0, <1>9, <1>11, <2>1
<1>14. \A i \in (k + 1)..Len(s) : (e \o b)[i + 1] = s[i]
  <2>. SUFFICES ASSUME NEW i \in (k + 1)..Len(s) PROVE (e \o b)[i + 1] = s[i]
    OBVIOUS
  <2>1. PICK j \in Nat : j = i - k /\ j \in 1..(Len(s) - k) /\ k + j = i
    <3>1. i - k \in 1..(Len(s) - k) /\ k + (i - k) = i
      BY <1>1, <1>4
    <3>. QED
      BY <3>1
  <2>2. PICK h \in Nat : h = i + 1
    BY <1>1, <1>4
  <2>3. h \in 1..(Len(s) + 1) /\ ~(h <= k + 1) /\ h - (k + 1) = j
    <3>1. i \in Nat /\ k + 1 <= i /\ i <= Len(s)
      BY <1>1, <1>4
    <3>2. h \in 1..(Len(s) + 1)
      BY <1>1, <2>2, <3>1
    <3>3. ~(h <= k + 1)
      BY <1>4, <2>2, <3>1
    <3>4. h - (k + 1) = j
      BY <1>4, <2>1, <2>2, <3>1
    <3>. QED
      BY <3>2, <3>3, <3>4
  <2>4. (e \o b)[h] = b[j]
    BY <1>11, <2>3
  <2>. QED
    BY <1>8, <2>1, <2>2, <2>4
<1>15. Moved(s, x, k, e \o b)
  BY <1>4, <1>11, <1>12, <1>13, <1>14 DEF Moved
<1>. QED
  BY <1>0, <1>5, <1>6, <1>10, <1>15

(* A pair of neighbours, and a list, in the order of a query.                *)
After(x, y, q) == IF q.dir = "desc" THEN Key(x, q) >= Key(y, q) ELSE Key(x, q) <= Key(y, q)
Ordered(s, q) == \A k \in 1..(Len(s) - 1) : After(s[k], s[k + 1], q)

LEMMA LessAfter ==
  ASSUME NEW x \in RunRecord, NEW y \in RunRecord, NEW q
  PROVE  (Less(x, y, q) => After(x, y, q)) /\ (~Less(x, y, q) => After(y, x, q))
<1>1. Key(x, q) \in Int /\ Key(y, q) \in Int
  BY KeyType
<1>. QED
  BY <1>1 DEF Less, After

LEMMA InsertOrders ==
  ASSUME NEW s \in Seq(RunRecord), NEW x \in RunRecord, NEW q, Ordered(s, q)
  PROVE  Insert(s, x, q) \in Seq(RunRecord) /\ Ordered(Insert(s, x, q), q)
<1>. PICK t : t = Insert(s, x, q)
  OBVIOUS
<1>. PICK l : l = Place(s, x, q)
  OBVIOUS
<1>1. /\ Moved(s, x, l, t) /\ (l # 0 => ~Less(x, s[l], q))
      /\ \A n \in 1..Len(s) : l < n => Less(x, s[n], q)
  BY Inserted
<1>2. Len(s) \in Nat /\ \A i \in 1..Len(s) : s[i] \in RunRecord
  BY LenProperties, ElementOfSeq
<1>3. /\ l \in 0..Len(s) /\ t \in Seq(RunRecord) /\ Len(t) = Len(s) + 1
      /\ \A i \in 1..l : t[i] = s[i]
      /\ t[l + 1] = x
      /\ \A i \in (l + 1)..Len(s) : t[i + 1] = s[i]
  BY <1>1 DEF Moved
<1>4. ASSUME NEW k \in 1..(Len(t) - 1)
      PROVE  After(t[k], t[k + 1], q)
  <2>1. k \in 1..Len(s) /\ l \in Nat
    BY <1>2, <1>3
  <2>2. CASE k < l
    <3>1. k \in 1..l /\ k + 1 \in 1..l /\ k \in 1..(Len(s) - 1)
      BY <1>2, <1>3, <2>1, <2>2
    <3>2. t[k] = s[k] /\ t[k + 1] = s[k + 1]
      BY <1>3, <3>1
    <3>. QED
      BY <3>1, <3>2 DEF Ordered
  <2>3. CASE k = l
    <3>1. t[k] = s[l] /\ t[k + 1] = x /\ s[l] \in RunRecord /\ l # 0
      BY <1>2, <1>3, <2>1, <2>3
    <3>. QED
      BY <1>1, <3>1, LessAfter
  <2>4. CASE k = l + 1
    <3>1. t[k] = x /\ t[k + 1] = s[k] /\ s[k] \in RunRecord /\ l < k
      BY <1>2, <1>3, <2>1, <2>4
    <3>. QED
      BY <1>1, <2>1, <3>1, LessAfter
  <2>5. CASE k > l + 1
    <3>1. PICK j \in Nat : k = j + 1
      <4>1. k - 1 \in Nat /\ k = (k - 1) + 1
        BY <2>1
      <4>. QED
        BY <4>1
    <3>2. j \in (l + 1)..Len(s) /\ k \in (l + 1)..Len(s) /\ j \in 1..(Len(s) - 1)
      BY <1>2, <2>1, <2>5, <3>1
    <3>3. t[k] = s[j] /\ t[k + 1] = s[j + 1]
      BY <1>3, <3>1, <3>2
    <3>. QED
      BY <3>2, <3>3 DEF Ordered
  <2>. QED
    BY <2>1, <2>2, <2>3, <2>4, <2>5
<1>. QED
  BY <1>3, <1>4 DEF Ordered

-----------------------------------------------------------------------------
(* The loop that filters, and the sort, one record after the other.          *)
Take(s, r, q, cut) == IF Matches(r, q, cut) THEN Append(s, r) ELSE s

Takes(seq, q, cut) ==
  CHOOSE f : f = [s \in SUBSET DOMAIN seq |->
                    IF s = {} THEN << >> ELSE Take(f[s \ {Max(s)}], seq[Max(s)], q, cut)]

Inserts(seq, q) ==
  CHOOSE f : f = [s \in SUBSET DOMAIN seq |->
                    IF s = {} THEN << >> ELSE Insert(f[s \ {Max(s)}], seq[Max(s)], q)]

LEMMA ListedBy ==
  ASSUME NEW q, NEW cut
  PROVE  /\ Filtered(q, cut) = Takes(ListRuns, q, cut)[DOMAIN ListRuns]
         /\ Listed(q, cut) = Inserts(Filtered(q, cut), q)[DOMAIN Filtered(q, cut)]
<1>1. Filtered(q, cut) = Takes(ListRuns, q, cut)[DOMAIN ListRuns]
  BY DEF Filtered, FoldLeft, MapThenFoldSet, Takes, Take
<1>2. Listed(q, cut) = Inserts(Filtered(q, cut), q)[DOMAIN Filtered(q, cut)]
  BY DEF Listed, FoldLeft, MapThenFoldSet, Inserts
<1>. QED
  BY <1>1, <1>2

LEMMA TakeType ==
  ASSUME NEW q, NEW cut
  PROVE  \A s \in Seq(RunRecord), x \in RunRecord : Take(s, x, q, cut) \in Seq(RunRecord)
BY AppendProperties DEF Take

LEMMA InsertType ==
  ASSUME NEW q
  PROVE  \A s \in Seq(RunRecord), x \in RunRecord : Insert(s, x, q) \in Seq(RunRecord)
BY Inserted DEF Moved

(* The records are looked at from the newest on.                             *)
LEMMA TakesStep ==
  ASSUME NEW seq \in Seq(RunRecord), NEW q, NEW cut
  PROVE  /\ Takes(seq, q, cut)[1..0] = << >>
         /\ \A k \in 1..Len(seq) :
              Takes(seq, q, cut)[1..k] = Take(Takes(seq, q, cut)[1..(k - 1)], seq[k], q, cut)
<1>. DEFINE A == Seq(RunRecord)
            op == [p \in A \X RunRecord |-> Take(p[1], p[2], q, cut)]
            n == Len(seq)
            F == Takes(seq, q, cut)
<1>1. n \in Nat /\ DOMAIN seq = 1..n /\ \A i \in 1..n : seq[i] \in RunRecord
  BY LenProperties, ElementOfSeq
<1>2. op \in [A \X RunRecord -> A]
  BY TakeType
<1>3. \A s \in A, x \in RunRecord : op[<<s, x>>] = Take(s, x, q, cut)
  OBVIOUS
<1>4. << >> \in A
  OBVIOUS
<1>. HIDE DEF op, n, A
<1>5. PICK f \in [SUBSET (1..n) -> A] : Folds(f, op, << >>, seq, n)
  <2>1. Holds(seq, n, RunRecord) /\ n \in Nat
    BY <1>1 DEF Holds
  <2>. QED
    BY <1>2, <1>4, <2>1, FoldExists
<1>6. ASSUME NEW s \in SUBSET (1..n)
      PROVE  f[s] = IF s = {} THEN << >> ELSE Take(f[s \ {Max(s)}], seq[Max(s)], q, cut)
  <2>1. f[s] = IF s = {} THEN << >> ELSE op[<<f[s \ {Max(s)}], seq[Max(s)]>>]
    BY <1>5 DEF Folds
  <2>2. CASE s # {}
    <3>1. Max(s) \in 1..n
      BY <1>1, <2>2, MaxUpToIn
    <3>2. seq[Max(s)] \in RunRecord
      BY <1>1, <3>1
    <3>3. f[s \ {Max(s)}] \in A
      OBVIOUS
    <3>. QED
      BY <1>3, <2>1, <2>2, <3>2, <3>3
  <2>. QED
    BY <2>1, <2>2
<1>7. f = [s \in SUBSET DOMAIN seq |->
             IF s = {} THEN << >> ELSE Take(f[s \ {Max(s)}], seq[Max(s)], q, cut)]
  BY <1>1, <1>6
<1>8. F = [s \in SUBSET DOMAIN seq |->
             IF s = {} THEN << >> ELSE Take(F[s \ {Max(s)}], seq[Max(s)], q, cut)]
  BY <1>7 DEF Takes
<1>. HIDE DEF F
<1>9. \A s \in SUBSET (1..n) :
        F[s] = IF s = {} THEN << >> ELSE Take(F[s \ {Max(s)}], seq[Max(s)], q, cut)
  BY <1>1, <1>8
<1>10. F[1..0] = << >>
  <2>1. 1..0 = {} /\ 1..0 \in SUBSET (1..n)
    OBVIOUS
  <2>. QED
    BY <1>9, <2>1
<1>11. ASSUME NEW k \in 1..n PROVE F[1..k] = Take(F[1..(k - 1)], seq[k], q, cut)
  <2>1. k \in Nat /\ k \in 1..k /\ (1..k) \ {k} = 1..(k - 1) /\ 1..k \in SUBSET (1..n)
    BY <1>1
  <2>2. Max(1..k) = k /\ 1..k # {}
    BY <2>1, MaxUpTo
  <2>. QED
    BY <1>9, <2>1, <2>2
<1>. QED
  BY <1>10, <1>11 DEF n, F

(* And inserted from the first on.                                           *)
LEMMA InsertsStep ==
  ASSUME NEW seq \in Seq(RunRecord), NEW q
  PROVE  /\ Inserts(seq, q)[1..0] = << >>
         /\ \A k \in 1..Len(seq) :
              Inserts(seq, q)[1..k] = Insert(Inserts(seq, q)[1..(k - 1)], seq[k], q)
<1>. DEFINE A == Seq(RunRecord)
            op == [p \in A \X RunRecord |-> Insert(p[1], p[2], q)]
            n == Len(seq)
            F == Inserts(seq, q)
<1>1. n \in Nat /\ DOMAIN seq = 1..n /\ \A i \in 1..n : seq[i] \in RunRecord
  BY LenProperties, ElementOfSeq
<1>2. op \in [A \X RunRecord -> A]
  BY InsertType
<1>3. \A s \in A, x \in RunRecord : op[<<s, x>>] = Insert(s, x, q)
  OBVIOUS
<1>4. << >> \in A
  OBVIOUS
<1>. HIDE DEF op, n, A
<1>5. PICK f \in [SUBSET (1..n) -> A] : Folds(f, op, << >>, seq, n)
  <2>1. Holds(seq, n, RunRecord) /\ n \in Nat
    BY <1>1 DEF Holds
  <2>. QED
    BY <1>2, <1>4, <2>1, FoldExists
<1>6. ASSUME NEW s \in SUBSET (1..n)
      PROVE  f[s] = IF s = {} THEN << >> ELSE Insert(f[s \ {Max(s)}], seq[Max(s)], q)
  <2>1. f[s] = IF s = {} THEN << >> ELSE op[<<f[s \ {Max(s)}], seq[Max(s)]>>]
    BY <1>5 DEF Folds
  <2>2. CASE s # {}
    <3>1. Max(s) \in 1..n
      BY <1>1, <2>2, MaxUpToIn
    <3>2. seq[Max(s)] \in RunRecord
      BY <1>1, <3>1
    <3>3. f[s \ {Max(s)}] \in A
      OBVIOUS
    <3>. QED
      BY <1>3, <2>1, <2>2, <3>2, <3>3
  <2>. QED
    BY <2>1, <2>2
<1>7. f = [s \in SUBSET DOMAIN seq |->
             IF s = {} THEN << >> ELSE Insert(f[s \ {Max(s)}], seq[Max(s)], q)]
  BY <1>1, <1>6
<1>8. F = [s \in SUBSET DOMAIN seq |->
             IF s = {} THEN << >> ELSE Insert(F[s \ {Max(s)}], seq[Max(s)], q)]
  BY <1>7 DEF Inserts
<1>. HIDE DEF F
<1>9. \A s \in SUBSET (1..n) :
        F[s] = IF s = {} THEN << >> ELSE Insert(F[s \ {Max(s)}], seq[Max(s)], q)
  BY <1>1, <1>8
<1>10. F[1..0] = << >>
  <2>1. 1..0 = {} /\ 1..0 \in SUBSET (1..n)
    OBVIOUS
  <2>. QED
    BY <1>9, <2>1
<1>11. ASSUME NEW k \in 1..n PROVE F[1..k] = Insert(F[1..(k - 1)], seq[k], q)
  <2>1. k \in Nat /\ k \in 1..k /\ (1..k) \ {k} = 1..(k - 1) /\ 1..k \in SUBSET (1..n)
    BY <1>1
  <2>2. Max(1..k) = k /\ 1..k # {}
    BY <2>1, MaxUpTo
  <2>. QED
    BY <1>9, <2>1, <2>2
<1>. QED
  BY <1>10, <1>11 DEF n, F

(* What the filter has made of the first k records.                          *)
Kept(t, seq, k) ==
  /\ t \in Seq(RunRecord) /\ Newer(t)
  /\ \A i \in 1..Len(t) : \E j \in 1..k : t[i] = seq[j]

LEMMA TakeKeeps ==
  ASSUME NEW seq \in Seq(RunRecord), Newer(seq), NEW k \in Nat, NEW m \in 1..Len(seq), m = k + 1,
         NEW t, Kept(t, seq, k), NEW q, NEW cut
  PROVE  Kept(Take(t, seq[m], q, cut), seq, m)
<1>1. /\ t \in Seq(RunRecord) /\ Newer(t) /\ Len(t) \in Nat /\ Len(seq) \in Nat
      /\ \A i \in 1..Len(t) : \E j \in 1..k : t[i] = seq[j]
  BY LenProperties DEF Kept
<1>2. \A j \in 1..k : j \in 1..m /\ j \in 1..Len(seq) /\ j < m
  BY <1>1
<1>3. CASE ~Matches(seq[m], q, cut)
  <2>1. Take(t, seq[m], q, cut) = t
    BY <1>3 DEF Take
  <2>. QED
    BY <1>1, <1>2, <2>1 DEF Kept
<1>4. CASE Matches(seq[m], q, cut)
  <2>1. PICK x \in RunRecord : x = seq[m]
    BY ElementOfSeq
  <2>2. PICK u \in Seq(RunRecord) : u = Append(t, x)
    BY <1>1, AppendProperties
  <2>3. /\ Len(u) = Len(t) + 1 /\ u[Len(t) + 1] = x /\ \A i \in 1..Len(t) : u[i] = t[i]
    BY <1>1, <2>2, AppendProperties
  <2>4. ASSUME NEW i \in 1..Len(u)
        PROVE  (i \in 1..Len(t) /\ u[i] = t[i]) \/ (i = Len(t) + 1 /\ u[i] = x)
    BY <1>1, <2>3
  <2>5. \A i \in 1..Len(u) : \E j \in 1..m : u[i] = seq[j]
    BY <1>1, <1>2, <2>1, <2>4
  <2>6. \A i \in 1..Len(t) : x.id < t[i].id
    <3>. SUFFICES ASSUME NEW i \in 1..Len(t) PROVE x.id < t[i].id
      OBVIOUS
    <3>1. PICK j \in 1..k : t[i] = seq[j]
      BY <1>1
    <3>. QED
      BY <1>2, <2>1, <3>1 DEF Newer
  <2>7. ASSUME NEW i \in 1..Len(u), NEW n \in 1..Len(u), i < n
        PROVE  u[n].id < u[i].id
    <3>1. i \in 1..Len(t)
      <4>1. PICK h \in Nat : h = Len(t)
        BY <1>1
      <4>2. i \in 1..(h + 1) /\ n \in 1..(h + 1)
        BY <2>3, <4>1
      <4>3. i \in 1..h
        BY <2>7, <4>1, <4>2
      <4>. QED
        BY <4>1, <4>3
    <3>2. u[i] = t[i]
      BY <2>3, <3>1
    <3>. QED
      BY <1>1, <2>4, <2>6, <2>7, <3>1, <3>2 DEF Newer
  <2>8. Kept(u, seq, m)
    BY <2>5, <2>7 DEF Kept, Newer
  <2>. QED
    BY <1>4, <2>1, <2>2, <2>8 DEF Take
<1>. QED
  BY <1>3, <1>4

LEMMA TakesKeep ==
  ASSUME NEW seq \in Seq(RunRecord), Newer(seq), NEW q, NEW cut
  PROVE  /\ Takes(seq, q, cut)[DOMAIN seq] \in Seq(RunRecord)
         /\ Newer(Takes(seq, q, cut)[DOMAIN seq])
<1>. DEFINE F == Takes(seq, q, cut)
            n == Len(seq)
            N == {k \in Nat : k <= n => Kept(F[1..k], seq, k)}
<1>1. n \in Nat /\ DOMAIN seq = 1..n
  BY LenProperties
<1>2. F[1..0] = << >> /\ \A k \in 1..n : F[1..k] = Take(F[1..(k - 1)], seq[k], q, cut)
  BY TakesStep
<1>. HIDE DEF F
<1>3. 0 \in N
  <2>1. Kept(<< >>, seq, 0)
    BY DEF Kept, Newer
  <2>. QED
    BY <1>2, <2>1
<1>4. ASSUME NEW k \in Nat, k \in N PROVE k + 1 \in N
  <2>. PICK m \in Nat : m = k + 1
    OBVIOUS
  <2>. SUFFICES ASSUME m <= n PROVE Kept(F[1..m], seq, m)
    OBVIOUS
  <2>1. Kept(F[1..k], seq, k) /\ m \in 1..n /\ m - 1 = k
    BY <1>1, <1>4
  <2>2. F[1..m] = Take(F[1..k], seq[m], q, cut)
    BY <1>2, <2>1
  <2>3. PICK t : t = F[1..k]
    OBVIOUS
  <2>4. Kept(Take(t, seq[m], q, cut), seq, m)
    BY <2>1, <2>3, TakeKeeps
  <2>. QED
    BY <2>2, <2>3, <2>4
<1>5. Nat \subseteq N
  <2>. HIDE DEF N
  <2>. QED
    BY <1>3, <1>4, AllNat
<1>6. Kept(F[1..n], seq, n)
  BY <1>1, <1>5
<1>. QED
  BY <1>1, <1>6 DEF Kept, F

(* The sort leaves a list in the order of the query.                         *)
Sorted(t, q) == t \in Seq(RunRecord) /\ Ordered(t, q)

LEMMA InsertsOrder ==
  ASSUME NEW seq \in Seq(RunRecord), NEW q
  PROVE  Sorted(Inserts(seq, q)[DOMAIN seq], q)
<1>. DEFINE F == Inserts(seq, q)
            n == Len(seq)
            N == {k \in Nat : k <= n => Sorted(F[1..k], q)}
<1>1. n \in Nat /\ DOMAIN seq = 1..n
  BY LenProperties
<1>2. F[1..0] = << >> /\ \A k \in 1..n : F[1..k] = Insert(F[1..(k - 1)], seq[k], q)
  BY InsertsStep
<1>. HIDE DEF F
<1>3. 0 \in N
  <2>1. Sorted(<< >>, q)
    BY DEF Sorted, Ordered
  <2>. QED
    BY <1>2, <2>1
<1>4. ASSUME NEW k \in Nat, k \in N PROVE k + 1 \in N
  <2>. PICK m \in Nat : m = k + 1
    OBVIOUS
  <2>. SUFFICES ASSUME m <= n PROVE Sorted(F[1..m], q)
    OBVIOUS
  <2>1. Sorted(F[1..k], q) /\ m \in 1..n /\ m - 1 = k
    BY <1>1, <1>4
  <2>2. F[1..m] = Insert(F[1..k], seq[m], q)
    BY <1>2, <2>1
  <2>3. PICK t \in Seq(RunRecord) : t = F[1..k] /\ Ordered(t, q)
    BY <2>1 DEF Sorted
  <2>4. PICK x \in RunRecord : x = seq[m]
    BY <2>1, ElementOfSeq
  <2>5. Sorted(Insert(t, x, q), q)
    BY <2>3, InsertOrders DEF Sorted
  <2>. QED
    BY <2>2, <2>3, <2>4, <2>5
<1>5. Nat \subseteq N
  <2>. HIDE DEF N
  <2>. QED
    BY <1>3, <1>4, AllNat
<1>6. Sorted(F[1..n], q)
  BY <1>1, <1>5
<1>. QED
  BY <1>1, <1>6 DEF F

(* Newest first: what is sorted is in that order already, and stays as it is.*)
Same(t, seq, k) == t \in Seq(RunRecord) /\ Len(t) = k /\ \A i \in 1..k : t[i] = seq[i]

LEMMA InsertLast ==
  ASSUME NEW seq \in Seq(RunRecord), Newer(seq), NEW k \in Nat, NEW m \in 1..Len(seq), m = k + 1,
         NEW t, Same(t, seq, k), NEW q, NewestFirst(q)
  PROVE  Same(Insert(t, seq[m], q), seq, m)
<1>1. t \in Seq(RunRecord) /\ Len(t) = k /\ \A i \in 1..k : t[i] = seq[i]
  BY DEF Same
<1>2. PICK x \in RunRecord : x = seq[m]
  BY ElementOfSeq
<1>. PICK l : l = Place(t, x, q)
  OBVIOUS
<1>3. PICK u \in Seq(RunRecord) : u = Insert(t, x, q)
  BY <1>1, InsertType
<1>4. Moved(t, x, l, u) /\ \A n \in 1..Len(t) : l < n => Less(x, t[n], q)
  BY <1>1, <1>3, Inserted
<1>5. /\ l \in 0..k /\ Len(u) = k + 1 /\ \A i \in 1..l : u[i] = t[i]
      /\ u[l + 1] = x
  BY <1>1, <1>4 DEF Moved
<1>6. l = k
  <2>. SUFFICES ASSUME l < k PROVE FALSE
    BY <1>5
  <2>1. k \in 1..Len(t) /\ k \in 1..Len(seq) /\ k < m /\ t[k] = seq[k]
    <3>1. k \in 1..k /\ k < m /\ Len(seq) \in Nat
      BY <1>5, LenProperties
    <3>2. k \in 1..Len(seq)
      BY <3>1
    <3>. QED
      BY <1>1, <3>1, <3>2
  <2>2. Less(x, t[k], q)
    BY <1>4, <2>1
  <2>3. x.id < seq[k].id
    BY <1>2, <2>1 DEF Newer
  <2>4. Key(x, q) = x.id /\ Key(t[k], q) = seq[k].id
    BY <2>1 DEF Key, NewestFirst
  <2>. QED
    BY <2>2, <2>3, <2>4 DEF Less, NewestFirst
<1>7. \A i \in 1..m : u[i] = seq[i]
  <2>. SUFFICES ASSUME NEW i \in 1..m PROVE u[i] = seq[i]
    OBVIOUS
  <2>1. i \in 1..k \/ i = l + 1
    BY <1>6
  <2>. QED
    BY <1>1, <1>2, <1>5, <1>6, <2>1
<1>. QED
  BY <1>2, <1>3, <1>5, <1>7 DEF Same

LEMMA InsertsSame ==
  ASSUME NEW seq \in Seq(RunRecord), Newer(seq), NEW q, NewestFirst(q)
  PROVE  Inserts(seq, q)[DOMAIN seq] = seq
<1>. DEFINE F == Inserts(seq, q)
            n == Len(seq)
            N == {k \in Nat : k <= n => Same(F[1..k], seq, k)}
<1>1. n \in Nat /\ DOMAIN seq = 1..n
  BY LenProperties
<1>2. F[1..0] = << >> /\ \A k \in 1..n : F[1..k] = Insert(F[1..(k - 1)], seq[k], q)
  BY InsertsStep
<1>. HIDE DEF F
<1>3. 0 \in N
  <2>1. Same(<< >>, seq, 0)
    BY DEF Same
  <2>. QED
    BY <1>2, <2>1
<1>4. ASSUME NEW k \in Nat, k \in N PROVE k + 1 \in N
  <2>. PICK m \in Nat : m = k + 1
    OBVIOUS
  <2>. SUFFICES ASSUME m <= n PROVE Same(F[1..m], seq, m)
    OBVIOUS
  <2>1. Same(F[1..k], seq, k) /\ m \in 1..n /\ m - 1 = k
    BY <1>1, <1>4
  <2>2. F[1..m] = Insert(F[1..k], seq[m], q)
    BY <1>2, <2>1
  <2>3. PICK t : t = F[1..k]
    OBVIOUS
  <2>4. Same(Insert(t, seq[m], q), seq, m)
    BY <2>1, <2>3, InsertLast
  <2>. QED
    BY <2>2, <2>3, <2>4
<1>5. Nat \subseteq N
  <2>. HIDE DEF N
  <2>. QED
    BY <1>3, <1>4, AllNat
<1>6. Same(F[1..n], seq, n)
  BY <1>1, <1>5
<1>7. PICK t \in Seq(RunRecord) : t = F[1..n] /\ Len(t) = Len(seq) /\ \A i \in 1..Len(t) : t[i] = seq[i]
  BY <1>6 DEF Same
<1>8. t = seq
  BY <1>7, SeqEqual
<1>. QED
  BY <1>1, <1>7, <1>8 DEF F

LEMMA RunsListed ==
  ASSUME RunInv
  PROVE  ListRuns \in Seq(RunRecord) /\ Newer(ListRuns)
<1>1. runs \in Seq(RunRecord) /\ Newer(runs)
  BY DEF RunInv
<1>2. CASE phase # "torn"
  BY <1>1, <1>2 DEF ListRuns
<1>3. CASE phase = "torn"
  <2>1. PICK s \in Seq(RunRecord) : s = runs /\ Newer(s) /\ s # << >>
    <3>1. Len(runs) > 0
      BY <1>3 DEF RunInv
    <3>2. runs # << >>
      BY <3>1
    <3>. QED
      BY <1>1, <3>2
  <2>2. /\ Tail(s) \in Seq(RunRecord) /\ Len(Tail(s)) \in Nat
        /\ \A i \in 1..Len(Tail(s)) : Tail(s)[i] = s[i + 1] /\ i + 1 \in 1..Len(s)
    BY <2>1, TailOf, LenProperties
  <2>3. ASSUME NEW i \in 1..Len(Tail(s)), NEW k \in 1..Len(Tail(s)), i < k
        PROVE  Tail(s)[k].id < Tail(s)[i].id
    <3>1. i + 1 \in 1..Len(s) /\ k + 1 \in 1..Len(s) /\ i + 1 < k + 1
      BY <2>2, <2>3
    <3>. QED
      BY <2>1, <2>2, <3>1 DEF Newer
  <2>4. Newer(Tail(s))
    BY <2>3 DEF Newer
  <2>. QED
    BY <1>3, <2>1, <2>2, <2>4 DEF ListRuns
<1>. QED
  BY <1>2, <1>3

LEMMA ListFacts ==
  ASSUME RunInv, NEW q, NEW cut
  PROVE  /\ Sorted(Listed(q, cut), q)
         /\ NewestFirst(q) => Newer(Listed(q, cut))
<1>1. ListRuns \in Seq(RunRecord) /\ Newer(ListRuns)
  BY RunsListed
<1>2. PICK s \in Seq(RunRecord) : s = Filtered(q, cut) /\ Newer(s)
  BY <1>1, TakesKeep, ListedBy
<1>3. Listed(q, cut) = Inserts(s, q)[DOMAIN s]
  BY <1>2, ListedBy
<1>4. Sorted(Inserts(s, q)[DOMAIN s], q)
  BY InsertsOrder
<1>5. NewestFirst(q) => Inserts(s, q)[DOMAIN s] = s
  BY <1>2, InsertsSame
<1>. QED
  BY <1>2, <1>3, <1>4, <1>5

(* Whatever the runs and the query, the rows are in the order that was asked *)
(* for: the negation that the code gives to SliceStable for the descending   *)
(* order is no strict order, and yet the insertion sort comes out right.     *)
THEOREM RowsInOrder == Spec => []InOrder
<1>1. PageInv => InOrder
  <2>. SUFFICES ASSUME PageInv, NEW q \in Queries
                PROVE  \A k \in 1..(Len(Listed(q, 1)) - 1) :
                         IF q.dir = "desc" THEN Key(Listed(q, 1)[k], q) >= Key(Listed(q, 1)[k + 1], q)
                         ELSE Key(Listed(q, 1)[k], q) <= Key(Listed(q, 1)[k + 1], q)
    BY DEF InOrder
  <2>1. Ordered(Listed(q, 1), q)
    BY ListFacts DEF PageInv, Sorted
  <2>. QED
    BY <2>1 DEF Ordered, After
<1>. QED
  BY <1>1, InitPage, NextPageInv, PTL DEF Spec

-----------------------------------------------------------------------------
(* Pages.                                                                    *)
LEMMA Product ==
  ASSUME NEW a \in Nat, NEW b \in Nat, NEW r \in Nat, a <= b
  PROVE  a * r \in Nat /\ a * r <= b * r
OBVIOUS
LEMMA Divide ==
  ASSUME NEW a \in Nat, NEW r \in Nat, r # 0
  PROVE  /\ a \div r \in Nat /\ (a \div r) * r <= a
         /\ a < (a \div r) * r + r
OBVIOUS
LEMMA PageCount ==
  ASSUME NEW n \in Nat, NEW r \in Nat, r # 0
  PROVE  /\ (n + r - 1) \div r \in Nat
         /\ n <= ((n + r - 1) \div r) * r
         /\ \A p \in Nat : p * r < n => p + 1 <= (n + r - 1) \div r
<1>1. PICK a \in Nat : a = n + r - 1
  OBVIOUS
<1>2. PICK d \in Nat : d = a \div r /\ d * r <= a /\ a < d * r + r
  BY Divide
<1>3. d * r \in Nat
  BY Product
<1>4. n <= d * r
  BY <1>1, <1>2, <1>3
<1>5. ASSUME NEW p \in Nat, p * r < n PROVE p + 1 <= d
  <2>. SUFFICES ASSUME d <= p PROVE FALSE
    BY <1>2
  <2>1. d * r <= p * r /\ p * r \in Nat
    BY Product
  <2>. QED
    BY <1>3, <1>4, <1>5, <2>1
<1>. QED
  BY <1>1, <1>2, <1>4, <1>5

(* The rows above a row are the runs that started later.                     *)
Above(S, m) == {k \in S : k > m}

LEMMA IdsAt ==
  ASSUME NEW s \in Seq(RunRecord)
  PROVE  /\ IdsOf(s) = {s[i].id : i \in 1..Len(s)} /\ IdsOf(s) \in SUBSET Nat
         /\ IsFiniteSet(IdsOf(s)) /\ Cardinality(IdsOf(s)) \in Nat /\ Cardinality(IdsOf(s)) <= Len(s)
<1>1. Len(s) \in Nat /\ DOMAIN s = 1..Len(s) /\ \A i \in 1..Len(s) : s[i] \in RunRecord
  BY LenProperties, ElementOfSeq
<1>2. IdsOf(s) = {s[i].id : i \in 1..Len(s)}
  BY <1>1 DEF IdsOf, ToSet
<1>3. \A i \in 1..Len(s) : s[i].id \in Nat
  BY <1>1 DEF RunRecord, Id
<1>. DEFINE S == 1..Len(s)
            f == [i \in S |-> s[i].id]
<1>4. IsFiniteSet(S) /\ Cardinality(S) = Len(s)
  <2>1. PICK n \in Nat : n = Len(s)
    BY <1>1
  <2>2. IsFiniteSet(1..n) /\ Cardinality(1..n) = n
    BY FS_Interval
  <2>. QED
    BY <2>1, <2>2
<1>5. f \in Surjection(S, IdsOf(s))
  BY <1>2 DEF Surjection
<1>. HIDE DEF S, f
<1>6. IsFiniteSet(IdsOf(s)) /\ Cardinality(IdsOf(s)) <= Len(s)
  BY <1>4, <1>5, FS_Surjection
<1>. QED
  BY <1>2, <1>3, <1>6, FS_CardinalityType

LEMMA AboveAt ==
  ASSUME NEW s \in Seq(RunRecord), Newer(s), NEW i \in 1..Len(s)
  PROVE  /\ IsFiniteSet(Above(IdsOf(s), s[i].id))
         /\ Cardinality(Above(IdsOf(s), s[i].id)) = i - 1
<1>1. /\ IdsOf(s) = {s[k].id : k \in 1..Len(s)} /\ IdsOf(s) \in SUBSET Nat /\ IsFiniteSet(IdsOf(s))
  BY IdsAt
<1>2. \A k, j \in 1..Len(s) : k < j => s[j].id < s[k].id
  BY DEF Newer
<1>. PICK n \in Nat : n = i - 1
  <2>1. Len(s) \in Nat
    BY LenProperties
  <2>. QED
    BY <2>1
<1>3. \A k \in 1..Len(s) : s[k].id \in Nat
  BY <1>1
<1>4. \A k \in 1..Len(s) : k \in 1..n <=> k < i
  BY LenProperties
<1>5. \A k \in 1..n : k \in 1..Len(s) /\ k < i
  BY LenProperties
<1>. DEFINE T == Above(IdsOf(s), s[i].id)
            S == 1..n
            f == [k \in S |-> s[k].id]
<1>6. T = {s[k].id : k \in S}
  <2>1. \A k \in 1..Len(s) : s[k].id > s[i].id <=> k < i
    BY <1>2, <1>3
  <2>. QED
    BY <1>1, <1>4, <1>5, <2>1 DEF Above
<1>7. IsFiniteSet(T)
  BY <1>1, FS_Subset DEF Above
<1>8. IsFiniteSet(S) /\ Cardinality(S) = n
  BY FS_Interval
<1>9. f \in Surjection(S, T) /\ f \in Injection(S, T)
  <2>1. f \in [S -> T]
    BY <1>6
  <2>2. \A k, j \in S : f[k] = f[j] => k = j
    BY <1>2, <1>3, <1>5
  <2>3. \A y \in T : \E k \in S : f[k] = y
    BY <1>6
  <2>. QED
    BY <2>1, <2>2, <2>3, Zenon DEF Surjection, Injection, IsInjective
<1>. HIDE DEF T, S, f
<1>10. Cardinality(T) = n
  BY <1>8, <1>9, FS_Surjection
<1>. QED
  BY <1>7, <1>10 DEF T

(* The runs of a page.                                                       *)
LEMMA ShownAt ==
  ASSUME NEW s \in Seq(RunRecord), NEW p \in Nat, p # 0, NEW i \in 1..Len(s),
         s[i].id \notin Shown(s, p), (p - 1) * RunsPerPage < i
  PROVE  p * RunsPerPage < i
<1>. SUFFICES ASSUME i <= p * RunsPerPage PROVE FALSE
  <2>1. p * RunsPerPage \in Nat
    BY JobPageAssumption, Product DEF JobPageAssumption
  <2>2. i \in Nat
    OBVIOUS
  <2>. QED
    BY <2>1, <2>2
<1>1. PICK a \in Nat, b \in Nat, n \in Nat :
        a = (p - 1) * RunsPerPage /\ b = p * RunsPerPage /\ n = Len(s)
  <2>1. p - 1 \in Nat /\ RunsPerPage \in Nat
    BY JobPageAssumption DEF JobPageAssumption
  <2>2. (p - 1) * RunsPerPage \in Nat /\ p * RunsPerPage \in Nat
    BY <2>1, Product
  <2>. QED
    BY <2>2, LenProperties
<1>2. PICK m \in Nat : m = Least(n, b) /\ m = Min({n, b})
  BY MinIs DEF Least
<1>3. i \in (a + 1)..m /\ m <= n
  BY <1>1, <1>2 DEF Least
<1>4. \A k \in (a + 1)..m : s[k] \in RunRecord
  BY <1>1, <1>2, <1>3, ElementOfSeq
<1>. PICK t : t = SubSeq(s, a + 1, m)
  OBVIOUS
<1>5. /\ t \in Seq(RunRecord) /\ Len(t) = IF a + 1 <= m THEN m - (a + 1) + 1 ELSE 0
      /\ \A k \in 1..(m - (a + 1) + 1) : t[k] = s[a + 1 + k - 1]
  BY <1>4, SubSeqProperties
<1>6. PICK k \in Nat : k = i - a
  BY <1>3
<1>7. k \in 1..(m - (a + 1) + 1) /\ Len(t) = m - (a + 1) + 1 /\ a + 1 + k - 1 = i
  BY <1>3, <1>5, <1>6
<1>8. t[k] = s[i] /\ k \in 1..Len(t)
  BY <1>5, <1>7
<1>9. s[i].id \in IdsOf(t)
  <2>1. t \in Seq(RunRecord)
    BY <1>5
  <2>2. IdsOf(t) = {t[j].id : j \in 1..Len(t)}
    BY <2>1, IdsAt
  <2>. QED
    BY <1>8, <2>2
<1>10. Shown(s, p) = IdsOf(t)
  BY <1>1, <1>2 DEF Shown, PageOf
<1>. QED
  BY <1>9, <1>10

LEMMA PagesType ==
  ASSUME NEW s \in Seq(RunRecord)
  PROVE  /\ Pages(s) \in Nat /\ Pages(s) > 0 /\ Len(s) <= Pages(s) * RunsPerPage
         /\ \A p \in Nat : p * RunsPerPage < Len(s) => p + 1 <= Pages(s)
<1>1. RunsPerPage \in Nat /\ RunsPerPage # 0 /\ Len(s) \in Nat
  BY JobPageAssumption, LenProperties DEF JobPageAssumption
<1>2. PICK d \in Nat : d = (Len(s) + RunsPerPage - 1) \div RunsPerPage
  BY <1>1, PageCount
<1>3. Len(s) <= d * RunsPerPage /\ \A p \in Nat : p * RunsPerPage < Len(s) => p + 1 <= d
  BY <1>1, <1>2, PageCount
<1>4. PICK m \in Nat : m = Max({1, d}) /\ d <= m /\ m > 0
  <2>. PICK e \in Nat : e = IF d <= 1 THEN 1 ELSE d
    OBVIOUS
  <2>1. {1, d} \in SUBSET Int /\ e \in {1, d} /\ \A y \in {1, d} : y <= e
    OBVIOUS
  <2>2. Max({1, d}) = e
    BY <2>1, MaxIs
  <2>. QED
    BY <2>1, <2>2
<1>5. Pages(s) = m
  BY <1>2, <1>4 DEF Pages
<1>6. d * RunsPerPage <= m * RunsPerPage /\ d * RunsPerPage \in Nat /\ m * RunsPerPage \in Nat
  BY <1>1, <1>4, Product
<1>7. Len(s) <= m * RunsPerPage
  BY <1>1, <1>3, <1>6
<1>8. \A p \in Nat : p * RunsPerPage < Len(s) => p + 1 <= m
  BY <1>3, <1>4
<1>. QED
  BY <1>4, <1>5, <1>7, <1>8

LEMMA ClampedTo ==
  ASSUME NEW s \in Seq(RunRecord), NEW p \in Nat
  PROVE  /\ Clamped(p, s) \in Nat /\ Clamped(p, s) > 0
         /\ p # 0 /\ p <= Pages(s) => Clamped(p, s) = p
<1>1. PICK n \in Nat : n = Pages(s) /\ n > 0
  BY PagesType
<1>2. PICK l \in Nat : l = Min({p, n}) /\ l = Least(p, n)
  BY MinIs DEF Least
<1>3. PICK m \in Nat : m = Max({1, l}) /\ m > 0 /\ (l > 0 => m = l)
  <2>. PICK e \in Nat : e = IF l <= 1 THEN 1 ELSE l
    OBVIOUS
  <2>1. {1, l} \in SUBSET Int /\ e \in {1, l} /\ \A y \in {1, l} : y <= e
    OBVIOUS
  <2>2. Max({1, l}) = e
    BY <2>1, MaxIs
  <2>. QED
    BY <2>1, <2>2
<1>4. Clamped(p, s) = m
  BY <1>1, <1>2, <1>3 DEF Clamped
<1>. QED
  BY <1>1, <1>2, <1>3, <1>4 DEF Least

-----------------------------------------------------------------------------
(* What the reader has been shown.                                           *)
Unseen == \A m \in walk.missed : view.page * RunsPerPage <= Cardinality(Above(walk.listed, m))

ReaderInv ==
  /\ view = [query |-> view.query, page |-> view.page, pages |-> view.pages]
  /\ walk = [listed |-> walk.listed, missed |-> walk.missed]
  /\ view.page \in Nat /\ view.page > 0 /\ view.pages \in Nat
  /\ walk.listed \in SUBSET Nat /\ IsFiniteSet(walk.listed)
  /\ Cardinality(walk.listed) <= view.pages * RunsPerPage
  /\ walk.missed \subseteq walk.listed
  /\ walk.missed # {} => NewestFirst(view.query)
  /\ Unseen

LEMMA PerPage == RunsPerPage \in Nat /\ RunsPerPage > 0
BY JobPageAssumption DEF JobPageAssumption

LEMMA InitReader == Init => ReaderInv
<1>. SUFFICES ASSUME Init PROVE ReaderInv
  OBVIOUS
<1>1. view = NoView /\ walk = NoWalk
  BY DEF Init
<1>2. IsFiniteSet({}) /\ Cardinality({}) = 0
  BY FS_EmptySet
<1>. QED
  BY <1>1, <1>2, PerPage DEF NoView, NoWalk, ReaderInv, Unseen

(* A request that shows page p of a list, after which a run is missed only   *)
(* if as many newer ones are listed as there are rows on the pages up to p.  *)
LEMMA Turned ==
  ASSUME NEW q, NEW s \in Seq(RunRecord), NEW p \in Nat, p > 0, NEW gone,
         view' = [query |-> q, page |-> p, pages |-> Pages(s)],
         walk' = [listed |-> IdsOf(s), missed |-> gone],
         gone \subseteq IdsOf(s), gone # {} => NewestFirst(q),
         \A m \in gone : p * RunsPerPage <= Cardinality(Above(IdsOf(s), m))
  PROVE  ReaderInv'
<1>1. /\ view'.query = q /\ view'.page = p /\ view'.pages = Pages(s)
      /\ walk'.listed = IdsOf(s) /\ walk'.missed = gone
  OBVIOUS
<1>2. /\ Pages(s) \in Nat /\ Len(s) <= Pages(s) * RunsPerPage /\ Len(s) \in Nat
  BY PagesType, LenProperties
<1>3. /\ IdsOf(s) \in SUBSET Nat /\ IsFiniteSet(IdsOf(s))
      /\ Cardinality(IdsOf(s)) \in Nat /\ Cardinality(IdsOf(s)) <= Len(s)
  BY IdsAt
<1>4. Cardinality(IdsOf(s)) <= Pages(s) * RunsPerPage
  <2>1. Pages(s) * RunsPerPage \in Nat
    BY <1>2, PerPage, Product
  <2>. QED
    BY <1>2, <1>3, <2>1
<1>5. Unseen'
  BY <1>1 DEF Unseen
<1>6. /\ view' = [query |-> view'.query, page |-> view'.page, pages |-> view'.pages]
      /\ walk' = [listed |-> walk'.listed, missed |-> walk'.missed]
  BY <1>1
<1>. QED
  BY <1>1, <1>2, <1>3, <1>4, <1>5, <1>6 DEF ReaderInv, NewestFirst

(* A request after which nobody is followed.                                 *)
LEMMA Left ==
  ASSUME NEW q, NEW s \in Seq(RunRecord), NEW p \in Nat, p > 0,
         view' = [query |-> q, page |-> p, pages |-> Pages(s)], walk' = NoWalk
  PROVE  ReaderInv'
<1>1. /\ view'.query = q /\ view'.page = p /\ view'.pages = Pages(s)
      /\ view' = [query |-> view'.query, page |-> view'.page, pages |-> view'.pages]
  OBVIOUS
<1>2. /\ walk'.listed = {} /\ walk'.missed = {}
      /\ walk' = [listed |-> walk'.listed, missed |-> walk'.missed]
  BY DEF NoWalk
<1>3. Pages(s) \in Nat /\ 0 <= Pages(s) * RunsPerPage
  <2>1. Pages(s) \in Nat
    BY PagesType
  <2>2. Pages(s) * RunsPerPage \in Nat
    BY <2>1, PerPage, Product
  <2>. QED
    BY <2>1, <2>2
<1>4. IsFiniteSet({}) /\ Cardinality({}) = 0
  BY FS_EmptySet
<1>5. Unseen'
  BY <1>2 DEF Unseen
<1>. QED
  BY <1>1, <1>2, <1>3, <1>4, <1>5 DEF ReaderInv

(* A run that is not on page p, and not on an earlier one.                   *)
LEMMA NotYet ==
  ASSUME NEW s \in Seq(RunRecord), Newer(s), NEW p \in Nat, p > 0, NEW m \in IdsOf(s) \ Shown(s, p),
         (p - 1) * RunsPerPage <= Cardinality(Above(IdsOf(s), m))
  PROVE  /\ p * RunsPerPage <= Cardinality(Above(IdsOf(s), m))
         /\ (p - 1) * RunsPerPage < Len(s)
<1>1. PICK i \in 1..Len(s) : m = s[i].id
  BY IdsAt
<1>2. Cardinality(Above(IdsOf(s), m)) = i - 1
  BY <1>1, AboveAt
<1>3. (p - 1) * RunsPerPage \in Nat /\ p * RunsPerPage \in Nat
  <2>1. p - 1 \in Nat
    OBVIOUS
  <2>. QED
    BY <2>1, PerPage, Product
<1>4. i \in Nat /\ i <= Len(s) /\ Len(s) \in Nat /\ (p - 1) * RunsPerPage < i
  BY <1>2, <1>3, LenProperties
<1>5. p * RunsPerPage < i
  BY <1>1, <1>4, ShownAt
<1>. QED
  BY <1>2, <1>3, <1>4, <1>5

LEMMA VisitReads ==
  ASSUME RunInv, NEW q \in Queries, NEW p \in {0, MaxRuns}, Visit(q, p)
  PROVE  ReaderInv'
<1>1. PICK cut \in 1..(started + 1) :
        LET list == Listed(q, cut)
            page == Clamped(p, list)
        IN /\ view' = [query |-> q, page |-> page, pages |-> Pages(list)]
           /\ walk' = IF page = 1 /\ NewestFirst(q)
                      THEN [listed |-> IdsOf(list), missed |-> IdsOf(list) \ Shown(list, 1)]
                      ELSE NoWalk
  BY DEF Visit
<1>2. PICK s \in Seq(RunRecord) : s = Listed(q, cut) /\ (NewestFirst(q) => Newer(s))
  BY ListFacts DEF Sorted
<1>3. PICK n \in Nat : n = Clamped(p, s) /\ n > 0
  <2>1. p \in Nat
    BY JobPageAssumption DEF JobPageAssumption
  <2>. QED
    BY <2>1, ClampedTo
<1>4. /\ view' = [query |-> q, page |-> n, pages |-> Pages(s)]
      /\ walk' = IF n = 1 /\ NewestFirst(q)
                 THEN [listed |-> IdsOf(s), missed |-> IdsOf(s) \ Shown(s, 1)]
                 ELSE NoWalk
  BY <1>1, <1>2, <1>3
<1>5. CASE n = 1 /\ NewestFirst(q)
  <2>1. ASSUME NEW m \in IdsOf(s) \ Shown(s, n)
        PROVE  n * RunsPerPage <= Cardinality(Above(IdsOf(s), m))
    <3>1. (n - 1) * RunsPerPage <= Cardinality(Above(IdsOf(s), m))
      <4>1. Cardinality(Above(IdsOf(s), m)) \in Nat
        BY IdsAt, FS_Subset, FS_CardinalityType DEF Above
      <4>2. (n - 1) * RunsPerPage = 0
        BY <1>5, PerPage
      <4>. QED
        BY <4>1, <4>2
    <3>. QED
      BY <1>2, <1>3, <1>5, <3>1, NotYet
  <2>. QED
    BY <1>3, <1>4, <1>5, <2>1, Turned
<1>6. CASE ~(n = 1 /\ NewestFirst(q))
  BY <1>3, <1>4, <1>6, Left
<1>. QED
  BY <1>5, <1>6

(* The rows above a run that is listed still are those that were above it,   *)
(* unless one of them has slipped out of the list, and newer ones.           *)
LEMMA PushedOn ==
  ASSUME ReaderInv, NEW s \in Seq(RunRecord), ~Slipped(IdsOf(s)), NEW m \in walk.missed \cap IdsOf(s)
  PROVE  view.page * RunsPerPage <= Cardinality(Above(IdsOf(s), m))
<1>1. m \in walk.listed /\ walk.listed \in SUBSET Nat
  BY DEF ReaderInv
<1>2. Above(walk.listed, m) \in SUBSET Above(IdsOf(s), m)
  BY <1>1 DEF Above, Slipped
<1>3. /\ IsFiniteSet(Above(IdsOf(s), m)) /\ Cardinality(Above(IdsOf(s), m)) \in Nat
  BY IdsAt, FS_Subset, FS_CardinalityType DEF Above
<1>4. Cardinality(Above(walk.listed, m)) <= Cardinality(Above(IdsOf(s), m))
      /\ Cardinality(Above(walk.listed, m)) \in Nat
  BY <1>2, <1>3, FS_Subset, FS_CardinalityType
<1>5. view.page * RunsPerPage \in Nat
  BY PerPage, Product DEF ReaderInv
<1>6. view.page * RunsPerPage <= Cardinality(Above(walk.listed, m))
  BY DEF ReaderInv, Unseen
<1>. QED
  BY <1>3, <1>4, <1>5, <1>6

LEMMA NextReads ==
  ASSUME RunInv, ReaderInv, NextPage
  PROVE  ReaderInv'
<1>1. PICK cut \in cutoff..(started + 1) :
        LET list == Listed(view.query, cut)
            page == Clamped(view.page + 1, list)
        IN /\ view' = [view EXCEPT !.page = page, !.pages = Pages(list)]
           /\ walk' = IF Slipped(IdsOf(list)) THEN NoWalk
                      ELSE [listed |-> IdsOf(list),
                            missed |-> (walk.missed \cap IdsOf(list)) \ Shown(list, page)]
  BY DEF NextPage
<1>. PICK q : q = view.query
  OBVIOUS
<1>2. PICK s \in Seq(RunRecord) : s = Listed(q, cut) /\ (NewestFirst(q) => Newer(s))
  BY ListFacts DEF Sorted
<1>3. PICK o \in Nat : o = view.page /\ o > 0
  BY DEF ReaderInv
<1>4. PICK n \in Nat : n = Clamped(o + 1, s) /\ n > 0 /\ (o + 1 <= Pages(s) => n = o + 1)
  <2>1. o + 1 \in Nat /\ o + 1 # 0
    OBVIOUS
  <2>. QED
    BY <2>1, ClampedTo
<1>5. /\ view' = [query |-> q, page |-> n, pages |-> Pages(s)]
      /\ walk' = IF Slipped(IdsOf(s)) THEN NoWalk
                 ELSE [listed |-> IdsOf(s), missed |-> (walk.missed \cap IdsOf(s)) \ Shown(s, n)]
  <2>1. PICK a, b : view = [query |-> q, page |-> a, pages |-> b]
    BY DEF ReaderInv
  <2>2. [view EXCEPT !.page = n, !.pages = Pages(s)] = [query |-> q, page |-> n, pages |-> Pages(s)]
    <3>. PICK d : d = Pages(s)
      OBVIOUS
    <3>1. [[query |-> q, page |-> a, pages |-> b] EXCEPT !.page = n, !.pages = d]
            = [query |-> q, page |-> n, pages |-> d]
      <4>1. [[query |-> q, page |-> a, pages |-> b] EXCEPT !.page = n]
              = [query |-> q, page |-> n, pages |-> b]
        OBVIOUS
      <4>2. [[query |-> q, page |-> n, pages |-> b] EXCEPT !.pages = d]
              = [query |-> q, page |-> n, pages |-> d]
        OBVIOUS
      <4>. QED
        BY <4>1, <4>2
    <3>. QED
      BY <2>1, <3>1
  <2>. QED
    BY <1>1, <1>2, <1>3, <1>4, <2>2
<1>6. CASE ~Slipped(IdsOf(s))
  <2>. DEFINE gone == (walk.missed \cap IdsOf(s)) \ Shown(s, n)
  <2>1. gone # {} => NewestFirst(q)
    BY DEF ReaderInv
  <2>2. ASSUME NEW m \in gone PROVE n * RunsPerPage <= Cardinality(Above(IdsOf(s), m))
    <3>1. o * RunsPerPage <= Cardinality(Above(IdsOf(s), m))
      BY <1>3, <1>6, PushedOn
    <3>2. PICK i \in 1..Len(s) : m = s[i].id
      BY IdsAt
    <3>3. Newer(s)
      BY <1>2, <2>1
    <3>4. Cardinality(Above(IdsOf(s), m)) = i - 1
      BY <3>2, <3>3, AboveAt
    <3>5. o * RunsPerPage < Len(s)
      <4>1. o * RunsPerPage \in Nat /\ Len(s) \in Nat
        BY PerPage, Product, LenProperties
      <4>. QED
        BY <3>1, <3>4, <4>1
    <3>6. n = o + 1 /\ n - 1 = o
      BY <1>4, <3>5, PagesType
    <3>7. (n - 1) * RunsPerPage <= Cardinality(Above(IdsOf(s), m))
      BY <3>1, <3>6
    <3>8. m \in IdsOf(s) \ Shown(s, n)
      OBVIOUS
    <3>. QED
      BY <1>4, <3>3, <3>7, <3>8, NotYet
  <2>3. walk' = [listed |-> IdsOf(s), missed |-> gone] /\ gone \subseteq IdsOf(s)
    BY <1>5, <1>6
  <2>. HIDE DEF gone
  <2>. QED
    BY <1>4, <1>5, <2>1, <2>2, <2>3, Turned
<1>7. CASE Slipped(IdsOf(s))
  BY <1>4, <1>5, <1>7, Left
<1>. QED
  BY <1>6, <1>7

LEMMA NextReader == PageInv /\ ReaderInv /\ [Next]_vars => ReaderInv'
<1>. SUFFICES ASSUME PageInv, ReaderInv, [Next]_vars PROVE ReaderInv'
  OBVIOUS
<1>1. RunInv
  BY DEF PageInv
<1>2. CASE UNCHANGED <<view, walk>>
  BY <1>2 DEF ReaderInv, Unseen, NewestFirst
<1>3. CASE LoadFile \/ DrawChains \/ StartRun \/ Grow \/ OpenFinal \/ WriteFinal \/ Prune \/ UNCHANGED vars
  BY <1>2, <1>3 DEF LoadFile, DrawChains, StartRun, Grow, OpenFinal, WriteFinal, Prune, vars, pageVars
<1>. QED
  BY <1>1, <1>3, VisitReads, NextReads DEF Next

(* However many runs there are and however long the pages: who follows the   *)
(* Next links through the runs, newest first, to the last page has been      *)
(* shown every run that was listed all the while.                            *)
THEOREM NothingMissed == Spec => []WalkSeesAll
<1>1. ReaderInv => WalkSeesAll
  <2>. SUFFICES ASSUME ReaderInv, view.page = view.pages, NEW m \in walk.missed PROVE FALSE
    BY DEF WalkSeesAll
  <2>1. m \in walk.listed /\ walk.listed \in SUBSET Nat /\ IsFiniteSet(walk.listed)
    BY DEF ReaderInv
  <2>2. Above(walk.listed, m) \cup {m} \in SUBSET walk.listed /\ m \notin Above(walk.listed, m)
    BY <2>1 DEF Above
  <2>3. IsFiniteSet(Above(walk.listed, m)) /\ Cardinality(Above(walk.listed, m)) \in Nat
    BY <2>1, <2>2, FS_Subset, FS_CardinalityType
  <2>4. Cardinality(Above(walk.listed, m)) + 1 <= Cardinality(walk.listed) /\ Cardinality(walk.listed) \in Nat
    <3>1. Cardinality(Above(walk.listed, m) \cup {m}) = Cardinality(Above(walk.listed, m)) + 1
      BY <2>2, <2>3, FS_AddElement
    <3>. QED
      BY <2>1, <2>2, <3>1, FS_Subset, FS_CardinalityType
  <2>5. PICK b \in Nat : b = view.page * RunsPerPage /\ b = view.pages * RunsPerPage
    BY PerPage, Product DEF ReaderInv
  <2>6. b <= Cardinality(Above(walk.listed, m)) /\ Cardinality(walk.listed) <= b
    BY <2>5 DEF ReaderInv, Unseen
  <2>. QED
    BY <2>3, <2>4, <2>6
<1>. QED
  BY <1>1, InitReader, NextReader, InitPage, NextPageInv, PTL DEF Spec
=============================================================================
