----------------------------- MODULE ListProofs -----------------------------
(***************************************************************************)
(* Lemmas about lists: what Kept keeps, whatever list and set it is given, *)
(* what FlattenSeq joins, and what of it is in a beginning of the joined   *)
(* list. Those that need an induction have it over a set of lists.         *)
(***************************************************************************)
EXTENDS Lists, FiniteSets, SequencesExt, FiniteSetTheorems, TLAPS

\* A set of natural numbers that has 0 and the successor of each of its
\* elements is all of them: otherwise its elements below some number could be
\* mapped injectively to the ones of them that are not 0.
LEMMA Induction ==
  ASSUME NEW S \in SUBSET Nat, 0 \in S, \A n \in S : n + 1 \in S
  PROVE  S = Nat
<1>1. SUFFICES ASSUME NEW k \in Nat, k \notin S PROVE FALSE
  OBVIOUS
<1> DEFINE T == S \cap 0..k
           U == T \ {0}
           f == [n \in T |-> n + 1]
<1>2. IsFiniteSet(T) /\ IsFiniteSet(U)
  <2>1. IsFiniteSet(0..k)
    BY FS_Interval
  <2> QED
    BY <2>1, FS_Intersection, FS_RemoveElement
<1>3. Cardinality(U) = Cardinality(T) - 1 /\ Cardinality(T) \in Nat
  <2>1. 0 \in T
    OBVIOUS
  <2>2. Cardinality(U) = Cardinality(T) - 1
    BY <1>2, <2>1, FS_RemoveElement
  <2>3. Cardinality(T) \in Nat
    BY <1>2, FS_CardinalityType
  <2> QED
    BY <2>2, <2>3
<1>4. f \in Injection(T, U)
  <2>1. \A n \in T : n + 1 \in U
    BY <1>1
  <2>2. f \in [T -> U]
    BY <2>1
  <2>3. \A a, b \in T : f[a] = f[b] => a = b
    OBVIOUS
  <2> QED
    BY <2>2, <2>3 DEF Injection, IsInjective
<1>5. Cardinality(T) <= Cardinality(U)
  BY <1>2, <1>4, FS_Injection
<1> QED
  BY <1>3, <1>5

\* What is true of 0, and of the successor of every number below k that it is
\* true of, is true of k.
LEMMA InductionUpTo ==
  ASSUME NEW k \in Nat, NEW S, 0 \in S, \A n \in 0..k - 1 : n \in S => n + 1 \in S
  PROVE  \A n \in 0..k : n \in S
<1> DEFINE R == {n \in Nat : n <= k => n \in S}
<1>1. 0 \in R
  OBVIOUS
<1>2. ASSUME NEW n \in R PROVE n + 1 \in R
  <2> SUFFICES ASSUME n + 1 <= k PROVE n + 1 \in S
    OBVIOUS
  <2>1. n \in 0..k - 1 /\ n \in S
    OBVIOUS
  <2> QED
    BY <2>1
<1>3. R = Nat
  <2> HIDE DEF R
  <2>1. R \in SUBSET Nat
    BY DEF R
  <2> QED
    BY <1>1, <1>2, <2>1, Induction
<1> QED
  BY <1>3
-----------------------------------------------------------------------------
(* The loop of Kept. *)

\* The list after one more element, which is x.
Further(t, x, T) == IF x \in T THEN Append(t, x) ELSE t

\* The lists a run of the loop over the first n elements of s goes through.
IsRun(f, s, T, n) ==
  f = [i \in 0..n |-> IF i = 0 THEN <<>> ELSE IF s[i] \in T THEN Append(f[i - 1], s[i]) ELSE f[i - 1]]

\* The loop has a run over any list.
LEMMA RunExists ==
  ASSUME NEW s, NEW T, NEW k \in Nat
  PROVE  \E f : IsRun(f, s, T, k)
<1> DEFINE S == {n \in Nat : \E f : IsRun(f, s, T, n)}
<1>1. 0 \in S
  <2>1. IsRun([i \in 0..0 |-> <<>>], s, T, 0)
    BY DEF IsRun
  <2> QED
    BY <2>1
<1>2. ASSUME NEW n \in S PROVE n + 1 \in S
  <2>1. PICK f : IsRun(f, s, T, n)
    OBVIOUS
  <2> DEFINE g == [i \in 0..n + 1 |-> IF i <= n THEN f[i] ELSE Further(f[n], s[n + 1], T)]
  <2>2. ASSUME NEW i \in 0..n + 1
        PROVE  g[i] = IF i = 0 THEN <<>> ELSE IF s[i] \in T THEN Append(g[i - 1], s[i]) ELSE g[i - 1]
    <3>1. CASE i = n + 1
      <4>1. g[i] = Further(f[n], s[n + 1], T) /\ g[i - 1] = f[n] /\ i - 1 = n /\ i # 0
        BY <3>1
      <4> QED
        BY <3>1, <4>1 DEF Further
    <3>2. CASE i \in 0..n
      <4>1. f[i] = IF i = 0 THEN <<>> ELSE IF s[i] \in T THEN Append(f[i - 1], s[i]) ELSE f[i - 1]
        BY <2>1, <3>2 DEF IsRun
      <4>2. g[i] = f[i] /\ (i # 0 => g[i - 1] = f[i - 1])
        BY <3>2
      <4> QED
        BY <4>1, <4>2
    <3> QED
      BY <3>1, <3>2
  <2>3. IsRun(g, s, T, n + 1)
    <3> HIDE DEF g
    <3>1. g = [i \in 0..n + 1 |-> g[i]]
      BY DEF g
    <3> QED
      BY <2>2, <3>1 DEF IsRun
  <2> QED
    BY <2>3
<1>3. S = Nat
  <2>1. S \in SUBSET Nat
    OBVIOUS
  <2> HIDE DEF S
  <2> QED
    BY <1>1, <1>2, <2>1, Induction
<1> QED
  BY <1>3

\* Kept is where the run of the loop ends.
LEMMA KeptRuns ==
  ASSUME NEW s, NEW T, Len(s) \in Nat
  PROVE  \E f : /\ f[0] = <<>> /\ Kept(s, T) = f[Len(s)]
                /\ \A i \in 1..Len(s) : f[i] = Further(f[i - 1], s[i], T)
<1> DEFINE kept == CHOOSE f : IsRun(f, s, T, Len(s))
<1>1. IsRun(kept, s, T, Len(s))
  BY RunExists
<1>2. Kept(s, T) = kept[Len(s)]
  BY DEF Kept, IsRun
<1> HIDE DEF kept
<1>3. kept[0] = <<>>
  BY <1>1 DEF IsRun
<1>4. ASSUME NEW i \in 1..Len(s) PROVE kept[i] = Further(kept[i - 1], s[i], T)
  <2>1. i \in 0..Len(s) /\ i # 0
    OBVIOUS
  <2> QED
    BY <1>1, <2>1 DEF IsRun, Further
<1> QED
  BY <1>2, <1>3, <1>4
-----------------------------------------------------------------------------
(* What is kept. *)

\* f says where in the first n elements of s those of t are, in order, and
\* every one that is in T is among them.
Places(f, t, s, T, n) ==
  /\ f \in [1..Len(t) -> 1..n]
  /\ \A i, j \in 1..Len(t) : i < j => f[i] < f[j]
  /\ \A i \in 1..Len(t) : t[i] = s[f[i]]
  /\ \A j \in 1..n : s[j] \in T => \E i \in 1..Len(t) : f[i] = j

\* t is what the loop has kept of the first n elements of s.
IsKept(t, s, A, T, n) ==
  /\ t \in Seq(A \cap T) /\ Len(t) <= n
  /\ \E f : Places(f, t, s, T, n)

\* One more element.
LEMMA KeptFurther ==
  ASSUME NEW A, NEW s \in Seq(A), NEW T, NEW n \in 0..Len(s) - 1, NEW t, IsKept(t, s, A, T, n)
  PROVE  IsKept(Further(t, s[n + 1], T), s, A, T, n + 1)
<1>1. t \in Seq(A \cap T) /\ Len(t) \in Nat /\ Len(t) <= n /\ n + 1 \in 1..Len(s) /\ s[n + 1] \in A
  BY DEF IsKept
<1>2. PICK f : Places(f, t, s, T, n)
  BY DEF IsKept
<1>3. CASE s[n + 1] \notin T
  <2>1. Places(f, t, s, T, n + 1)
    BY <1>1, <1>2, <1>3 DEF Places
  <2> QED
    BY <1>1, <1>3, <2>1 DEF IsKept, Further
<1>4. CASE s[n + 1] \in T
  <2> DEFINE u == Append(t, s[n + 1])
             g == [i \in 1..Len(t) + 1 |-> IF i = Len(t) + 1 THEN n + 1 ELSE f[i]]
  <2>1. u \in Seq(A \cap T) /\ Len(u) = Len(t) + 1 /\ u[Len(t) + 1] = s[n + 1]
        /\ \A i \in 1..Len(t) : u[i] = t[i]
    BY <1>1, <1>4
  <2>2. g[Len(t) + 1] = n + 1 /\ \A i \in 1..Len(t) : g[i] = f[i] /\ f[i] \in 1..n
    BY <1>1, <1>2 DEF Places
  <2>3. g \in [1..Len(u) -> 1..n + 1]
    <3>1. ASSUME NEW i \in 1..Len(t) + 1 PROVE g[i] \in 1..n + 1
      <4>1. i = Len(t) + 1 \/ i \in 1..Len(t)
        BY <1>1
      <4> HIDE DEF g
      <4> QED
        BY <1>1, <2>2, <4>1
    <3>2. g \in [1..Len(t) + 1 -> 1..n + 1]
      BY <3>1
    <3> HIDE DEF g, u
    <3> QED
      BY <2>1, <3>2
  <2> HIDE DEF g, u
  <2>4. ASSUME NEW i \in 1..Len(u), NEW j \in 1..Len(u), i < j PROVE g[i] < g[j]
    <3>1. i \in 1..Len(t)
      BY <1>1, <2>1, <2>4
    <3>2. CASE j = Len(t) + 1
      BY <1>1, <2>2, <3>1, <3>2
    <3>3. CASE j \in 1..Len(t)
      BY <1>1, <1>2, <2>2, <2>4, <3>1, <3>3 DEF Places
    <3> QED
      BY <1>1, <2>1, <3>2, <3>3
  <2>5. ASSUME NEW i \in 1..Len(u) PROVE u[i] = s[g[i]]
    <3>1. CASE i = Len(t) + 1
      BY <2>1, <2>2, <3>1
    <3>2. CASE i \in 1..Len(t)
      BY <1>2, <2>1, <2>2, <3>2 DEF Places
    <3> QED
      BY <1>1, <2>1, <3>1, <3>2
  <2>6. ASSUME NEW j \in 1..n + 1, s[j] \in T PROVE \E i \in 1..Len(u) : g[i] = j
    <3>1. CASE j = n + 1
      <4>1. Len(t) + 1 \in 1..Len(u)
        BY <1>1, <2>1
      <4> QED
        BY <2>2, <3>1, <4>1
    <3>2. CASE j \in 1..n
      <4>1. PICK i \in 1..Len(t) : f[i] = j
        BY <1>2, <2>6, <3>2 DEF Places
      <4>2. i \in 1..Len(u) /\ g[i] = j
        BY <1>1, <2>1, <2>2, <4>1
      <4> QED
        BY <4>2
    <3> QED
      BY <1>1, <3>1, <3>2
  <2>7. Places(g, u, s, T, n + 1)
    BY <2>3, <2>4, <2>5, <2>6 DEF Places
  <2>8. Further(t, s[n + 1], T) = u
    BY <1>4 DEF u, Further
  <2> QED
    BY <1>1, <2>1, <2>7, <2>8 DEF IsKept
<1> QED
  BY <1>3, <1>4

\* Kept(s, T) has the elements of s that are in T, at places in the same order.
LEMMA KeptIsKept ==
  ASSUME NEW A, NEW s \in Seq(A), NEW T
  PROVE  IsKept(Kept(s, T), s, A, T, Len(s))
<1>1. Len(s) \in Nat
  OBVIOUS
<1>2. PICK f : /\ f[0] = <<>> /\ Kept(s, T) = f[Len(s)]
               /\ \A i \in 1..Len(s) : f[i] = Further(f[i - 1], s[i], T)
  BY <1>1, KeptRuns
<1> DEFINE S == {n \in 0..Len(s) : IsKept(f[n], s, A, T, n)}
<1>3. 0 \in S
  <2>1. <<>> \in Seq(A \cap T) /\ Len(<<>>) = 0
    OBVIOUS
  <2>2. Places(<<>>, <<>>, s, T, 0)
    BY DEF Places
  <2>3. IsKept(<<>>, s, A, T, 0)
    BY <2>1, <2>2 DEF IsKept
  <2> QED
    BY <1>1, <1>2, <2>3
<1>4. ASSUME NEW n \in 0..Len(s) - 1, n \in S PROVE n + 1 \in S
  <2>1. n + 1 \in 1..Len(s) /\ (n + 1) - 1 = n
    BY <1>1
  <2>2. f[n + 1] = Further(f[n], s[n + 1], T)
    BY <1>2, <2>1
  <2>3. IsKept(f[n + 1], s, A, T, n + 1)
    BY <1>4, <2>2, KeptFurther
  <2> QED
    BY <2>1, <2>3
<1>5. \A n \in 0..Len(s) : n \in S
  <2> HIDE DEF S
  <2> QED
    BY <1>1, <1>3, <1>4, InductionUpTo
<1> QED
  BY <1>1, <1>2, <1>5

\* What is kept is in the list and in the set, and each of it once if the list
\* has each element once.
LEMMA KeptElements ==
  ASSUME NEW A, NEW s \in Seq(A), NEW T
  PROVE  /\ Kept(s, T) \in Seq(A) /\ Len(Kept(s, T)) <= Len(s)
         /\ Range(Kept(s, T)) = Range(s) \cap T
         /\ IsInjective(s) => IsInjective(Kept(s, T))
<1> DEFINE t == Kept(s, T)
<1>1. IsKept(t, s, A, T, Len(s))
  BY KeptIsKept
<1>2. PICK f : Places(f, t, s, T, Len(s))
  BY <1>1 DEF IsKept
<1>3. t \in Seq(A \cap T) /\ t \in Seq(A) /\ Len(t) <= Len(s) /\ Len(t) \in Nat /\ Len(s) \in Nat
  BY <1>1 DEF IsKept
<1>4. DOMAIN t = 1..Len(t) /\ DOMAIN s = 1..Len(s)
  BY <1>3
<1> HIDE DEF t
<1>5. \A i \in 1..Len(t) : f[i] \in 1..Len(s) /\ t[i] = s[f[i]] /\ t[i] \in T
  BY <1>2, <1>3 DEF Places
<1>6. \A i, j \in 1..Len(t) : f[i] = f[j] => i = j
  <2>1. ASSUME NEW i \in 1..Len(t), NEW j \in 1..Len(t), i # j PROVE f[i] # f[j]
    <3>1. i < j \/ j < i
      BY <1>3, <2>1
    <3>2. f[i] < f[j] \/ f[j] < f[i]
      BY <1>2, <3>1 DEF Places
    <3>3. f[i] \in Nat /\ f[j] \in Nat
      BY <1>3, <1>5
    <3> QED
      BY <3>2, <3>3
  <2> QED
    BY <2>1
<1>7. Range(t) = Range(s) \cap T
  <2>1. ASSUME NEW x \in Range(t) PROVE x \in Range(s) \cap T
    BY <1>4, <1>5 DEF Range
  <2>2. ASSUME NEW x \in Range(s) \cap T PROVE x \in Range(t)
    <3>1. PICK j \in 1..Len(s) : x = s[j]
      BY <1>4 DEF Range
    <3>2. PICK i \in 1..Len(t) : f[i] = j
      BY <1>2, <3>1 DEF Places
    <3> QED
      BY <1>4, <1>5, <3>1, <3>2 DEF Range
  <2> QED
    BY <2>1, <2>2
<1>8. IsInjective(s) => IsInjective(t)
  BY <1>4, <1>5, <1>6 DEF IsInjective
<1> QED
  BY <1>3, <1>7, <1>8 DEF t

\* A list whose elements are all in the set is kept as it is.
LEMMA KeptWhole ==
  ASSUME NEW A, NEW s \in Seq(A), NEW T, Range(s) \subseteq T
  PROVE  Kept(s, T) = s
<1>1. Len(s) \in Nat /\ DOMAIN s = 1..Len(s)
  OBVIOUS
<1>2. PICK f : /\ f[0] = <<>> /\ Kept(s, T) = f[Len(s)]
               /\ \A i \in 1..Len(s) : f[i] = Further(f[i - 1], s[i], T)
  BY <1>1, KeptRuns
<1> DEFINE S == {n \in 0..Len(s) : f[n] = SubSeq(s, 1, n)}
<1>3. 0 \in S
  <2>1. SubSeq(s, 1, 0) = <<>>
    OBVIOUS
  <2>2. f[0] = SubSeq(s, 1, 0)
    BY <1>2, <2>1
  <2>3. 0 \in 0..Len(s)
    BY <1>1
  <2> QED
    BY <2>2, <2>3
<1>4. ASSUME NEW n \in 0..Len(s) - 1, n \in S PROVE n + 1 \in S
  <2>1. n + 1 \in 1..Len(s) /\ (n + 1) - 1 = n
    BY <1>1
  <2>2. s[n + 1] \in T
    BY <1>1, <2>1 DEF Range
  <2>3. f[n + 1] = Append(SubSeq(s, 1, n), s[n + 1])
    BY <1>2, <1>4, <2>1, <2>2 DEF Further
  <2>4. Append(SubSeq(s, 1, n), s[n + 1]) = SubSeq(s, 1, n + 1)
    BY <1>1, <2>1
  <2> QED
    BY <2>1, <2>3, <2>4
<1>5. Len(s) \in S
  <2> HIDE DEF S
  <2>1. \A n \in 0..Len(s) : n \in S
    BY <1>1, <1>3, <1>4, InductionUpTo
  <2> QED
    BY <1>1, <2>1
<1>6. SubSeq(s, 1, Len(s)) = s
  BY <1>1
<1> QED
  BY <1>2, <1>5, <1>6

\* A first element that is not in the set makes no difference.
LEMMA KeptBehind ==
  ASSUME NEW A, NEW s \in Seq(A), NEW x \in A, NEW T, x \notin T
  PROVE  Kept(<<x>> \o s, T) = Kept(s, T)
<1> DEFINE u == <<x>> \o s
<1>1. Len(s) \in Nat /\ Len(u) = Len(s) + 1 /\ u[1] = x /\ \A i \in 1..Len(s) : u[i + 1] = s[i]
  OBVIOUS
<1> HIDE DEF u
<1>2. PICK f : /\ f[0] = <<>> /\ Kept(s, T) = f[Len(s)]
               /\ \A i \in 1..Len(s) : f[i] = Further(f[i - 1], s[i], T)
  BY <1>1, KeptRuns
<1>3. PICK g : /\ g[0] = <<>> /\ Kept(u, T) = g[Len(u)]
               /\ \A i \in 1..Len(u) : g[i] = Further(g[i - 1], u[i], T)
  <2>1. Len(u) \in Nat
    BY <1>1
  <2> QED
    BY <2>1, KeptRuns
<1> DEFINE S == {n \in 0..Len(s) : g[n + 1] = f[n]}
<1>4. 0 \in S
  <2>1. 1 \in 1..Len(u) /\ 1 - 1 = 0
    BY <1>1
  <2>2. g[1] = Further(g[0], x, T)
    BY <1>1, <1>3, <2>1
  <2> QED
    BY <1>1, <1>2, <1>3, <2>2 DEF Further
<1>5. ASSUME NEW n \in 0..Len(s) - 1, n \in S PROVE n + 1 \in S
  <2>1. n + 1 \in 1..Len(s) /\ (n + 1) - 1 = n /\ (n + 1) + 1 \in 1..Len(u) /\ ((n + 1) + 1) - 1 = n + 1
    BY <1>1
  <2>2. f[n + 1] = Further(f[n], s[n + 1], T)
    BY <1>2, <2>1
  <2>3. g[(n + 1) + 1] = Further(g[n + 1], u[(n + 1) + 1], T)
    BY <1>3, <2>1
  <2> QED
    BY <1>1, <1>5, <2>1, <2>2, <2>3
<1>6. Len(s) \in S
  <2> HIDE DEF S
  <2>1. \A n \in 0..Len(s) : n \in S
    BY <1>1, <1>4, <1>5, InductionUpTo
  <2> QED
    BY <1>1, <2>1
<1> QED
  BY <1>1, <1>2, <1>3, <1>6 DEF u

\* The places of what is kept are in the order of the list.
LEMMA KeptInOrder ==
  ASSUME NEW A, NEW s \in Seq(A), NEW T
  PROVE  \E f \in [1..Len(Kept(s, T)) -> 1..Len(s)] :
           /\ \A i, j \in 1..Len(Kept(s, T)) : i < j => f[i] < f[j]
           /\ \A i \in 1..Len(Kept(s, T)) : Kept(s, T)[i] = s[f[i]]
<1>1. IsKept(Kept(s, T), s, A, T, Len(s))
  BY KeptIsKept
<1>2. PICK f : Places(f, Kept(s, T), s, T, Len(s))
  BY <1>1 DEF IsKept
<1> QED
  BY <1>2 DEF Places
-----------------------------------------------------------------------------
(* Numbers. *)

\* A set of natural numbers has a least element, unless it is empty.
LEMMA LeastIsThere ==
  ASSUME NEW S \in SUBSET Nat, S # {}
  PROVE  \E i \in S : \A j \in S : i <= j
<1>1. SUFFICES ASSUME \A i \in S : \E j \in S : ~(i <= j) PROVE FALSE
  OBVIOUS
<1> DEFINE R == {n \in Nat : \A j \in S : n <= j}
<1>2. 0 \in R
  OBVIOUS
<1>3. ASSUME NEW n \in R PROVE n + 1 \in R
  <2>1. n \notin S
    BY <1>1
  <2>2. ASSUME NEW j \in S PROVE n + 1 <= j
    <3>1. n <= j /\ n # j /\ j \in Nat /\ n \in Nat
      BY <2>1
    <3> QED
      BY <3>1
  <2> QED
    BY <2>2
<1>4. R = Nat
  <2>1. R \in SUBSET Nat
    OBVIOUS
  <2> HIDE DEF R
  <2> QED
    BY <1>2, <1>3, <2>1, Induction
<1>5. PICK j \in S : TRUE
  OBVIOUS
<1>6. j + 1 <= j
  <2>1. j + 1 \in R
    <3>1. j + 1 \in Nat
      OBVIOUS
    <3> HIDE DEF R
    <3> QED
      BY <1>4, <3>1
  <2> QED
    BY <2>1
<1>7. j \in Nat
  OBVIOUS
<1> QED
  BY <1>6, <1>7
-----------------------------------------------------------------------------
(* Induction over lists, and what follows by it. *)

\* A set that has the empty list, and with each of its lists every longer one
\* by one element, has all lists.
LEMMA ListInduction ==
  ASSUME NEW A, NEW S, <<>> \in S, \A s \in Seq(A) : s \in S => \A x \in A : Append(s, x) \in S
  PROVE  Seq(A) \subseteq S
<1> DEFINE R == {n \in Nat : \A s \in Seq(A) : Len(s) = n => s \in S}
<1>1. 0 \in R
  <2>1. \A s \in Seq(A) : Len(s) = 0 => s = <<>>
    OBVIOUS
  <2> QED
    BY <2>1
<1>2. ASSUME NEW n \in R PROVE n + 1 \in R
  <2>1. ASSUME NEW s \in Seq(A), Len(s) = n + 1 PROVE s \in S
    <3> DEFINE t == SubSeq(s, 1, n)
    <3>1. t \in Seq(A) /\ Len(t) = n /\ n + 1 \in 1..Len(s) /\ s[n + 1] \in A
      BY <2>1
    <3>2. Append(t, s[n + 1]) = s
      BY <2>1, <3>1
    <3>3. t \in S
      BY <3>1
    <3> HIDE DEF t
    <3> QED
      BY <3>1, <3>2, <3>3
  <2> QED
    BY <2>1
<1>3. R = Nat
  <2> HIDE DEF R
  <2>1. R \in SUBSET Nat
    BY DEF R
  <2> QED
    BY <1>1, <1>2, <2>1, Induction
<1>4. ASSUME NEW s \in Seq(A) PROVE s \in S
  <2>1. Len(s) \in R
    BY <1>3
  <2> QED
    BY <2>1
<1> QED
  BY <1>4

\* The elements of two lists, one after the other.
LEMMA TwoLists ==
  ASSUME NEW A, NEW s \in Seq(A), NEW t \in Seq(A)
  PROVE  /\ s \o t \in Seq(A) /\ Len(s \o t) = Len(s) + Len(t)
         /\ \A i \in 1..Len(s) : (s \o t)[i] = s[i]
         /\ \A i \in 1..Len(t) : (s \o t)[Len(s) + i] = t[i]
  OBVIOUS

\* A list, split at one of its elements.
LEMMA SplitAt ==
  ASSUME NEW A, NEW s \in Seq(A), NEW i \in 1..Len(s)
  PROVE  s = (SubSeq(s, 1, i - 1) \o <<s[i]>>) \o SubSeq(s, i + 1, Len(s))
<1> DEFINE t1 == SubSeq(s, 1, i - 1)
           one == <<s[i]>>
           t3 == SubSeq(s, i + 1, Len(s))
           v == t1 \o one
           w == v \o t3
<1>1. Len(s) \in Nat /\ i \in Nat /\ 1 <= i /\ i <= Len(s) /\ s[i] \in A
  OBVIOUS
<1>2. t1 \in Seq(A) /\ Len(t1) = i - 1 /\ \A j \in 1..i - 1 : t1[j] = s[j]
  BY <1>1
<1>3. t3 \in Seq(A) /\ Len(t3) = Len(s) - i /\ \A j \in 1..Len(s) - i : t3[j] = s[i + j]
  BY <1>1
<1>4. one \in Seq(A) /\ Len(one) = 1 /\ one[1] = s[i]
  BY <1>1
<1> HIDE DEF t1, t3, one
<1>5. v \in Seq(A) /\ Len(v) = i /\ \A j \in 1..i : v[j] = s[j]
  <2>1. /\ v \in Seq(A) /\ Len(v) = Len(t1) + Len(one) /\ \A j \in 1..Len(t1) : v[j] = t1[j]
        /\ \A j \in 1..Len(one) : v[Len(t1) + j] = one[j]
    <3>1. t1 \in Seq(A) /\ one \in Seq(A)
      BY <1>2, <1>4
    <3> QED
      BY <3>1, TwoLists
  <2> HIDE DEF v
  <2>2. v[i] = s[i]
    <3>1. 1 \in 1..Len(one) /\ Len(t1) + 1 = i
      BY <1>1, <1>2, <1>4
    <3> QED
      BY <1>4, <2>1, <3>1
  <2> QED
    BY <1>1, <1>2, <1>4, <2>1, <2>2
<1> HIDE DEF v
<1>6. /\ w \in Seq(A) /\ Len(w) = Len(v) + Len(t3) /\ \A j \in 1..Len(v) : w[j] = v[j]
      /\ \A j \in 1..Len(t3) : w[Len(v) + j] = t3[j]
  <2>1. v \in Seq(A) /\ t3 \in Seq(A)
    BY <1>3, <1>5
  <2> QED
    BY <2>1, TwoLists
<1> HIDE DEF w
<1>7. ASSUME NEW j \in 1..Len(s) PROVE w[j] = s[j]
  <2>1. CASE j <= i
    <3>1. j \in 1..i
      BY <1>1, <2>1
    <3> QED
      BY <1>5, <1>6, <3>1
  <2>2. CASE ~(j <= i)
    <3>1. j - i \in 1..Len(s) - i /\ i + (j - i) = j
      BY <1>1, <2>2
    <3>2. w[i + (j - i)] = t3[j - i] /\ t3[j - i] = s[i + (j - i)]
      BY <1>3, <1>5, <1>6, <3>1
    <3> QED
      BY <3>1, <3>2
  <2> QED
    BY <2>1, <2>2
<1>8. Len(w) = Len(s)
  BY <1>1, <1>3, <1>5, <1>6
<1>9. w = s
  BY <1>6, <1>7, <1>8
<1> QED
  BY <1>9 DEF w, v, t1, t3, one

\* An element of a list.
LEMMA ElementOf ==
  ASSUME NEW A, NEW s \in Seq(A)
  PROVE  \A i \in 1..Len(s) : s[i] \in A
  OBVIOUS

\* A list whose elements are all in a set is a list of that set.
LEMMA ElementsIn ==
  ASSUME NEW A, NEW s \in Seq(A), NEW B, \A i \in 1..Len(s) : s[i] \in B
  PROVE  s \in Seq(B)
  OBVIOUS

\* A list with one more element, as a function.
LEMMA Appended ==
  ASSUME NEW A, NEW a \in Seq(A), NEW x \in A
  PROVE  Append(a, x) = [i \in 1..Len(a) + 1 |-> IF i = Len(a) + 1 THEN x ELSE a[i]]
<1> DEFINE u == Append(a, x)
<1>1. /\ Len(a) \in Nat /\ u \in Seq(A) /\ Len(u) = Len(a) + 1
      /\ u[Len(a) + 1] = x /\ \A i \in 1..Len(a) : u[i] = a[i]
  OBVIOUS
<1> HIDE DEF u
<1>2. u = [i \in 1..Len(a) + 1 |-> u[i]]
  BY <1>1
<1>3. ASSUME NEW i \in 1..Len(a) + 1 PROVE u[i] = IF i = Len(a) + 1 THEN x ELSE a[i]
  BY <1>1
<1>4. u = [i \in 1..Len(a) + 1 |-> IF i = Len(a) + 1 THEN x ELSE a[i]]
  BY <1>2, <1>3
<1> QED
  BY <1>4 DEF u

\* One more element at the end is kept, or not.
LEMMA KeptAppend ==
  ASSUME NEW A, NEW s \in Seq(A), NEW x \in A, NEW T
  PROVE  Kept(Append(s, x), T) = Further(Kept(s, T), x, T)
<1> DEFINE u == Append(s, x)
<1>1. Len(s) \in Nat /\ Len(u) = Len(s) + 1 /\ u[Len(s) + 1] = x /\ \A i \in 1..Len(s) : u[i] = s[i]
  OBVIOUS
<1> HIDE DEF u
<1>2. PICK f : /\ f[0] = <<>> /\ Kept(s, T) = f[Len(s)]
               /\ \A i \in 1..Len(s) : f[i] = Further(f[i - 1], s[i], T)
  BY <1>1, KeptRuns
<1>3. PICK g : /\ g[0] = <<>> /\ Kept(u, T) = g[Len(u)]
               /\ \A i \in 1..Len(u) : g[i] = Further(g[i - 1], u[i], T)
  <2>1. Len(u) \in Nat
    BY <1>1
  <2> QED
    BY <2>1, KeptRuns
<1> DEFINE S == {n \in 0..Len(s) : g[n] = f[n]}
<1>4. 0 \in S
  BY <1>1, <1>2, <1>3
<1>5. ASSUME NEW n \in 0..Len(s) - 1, n \in S PROVE n + 1 \in S
  <2>1. n + 1 \in 1..Len(s) /\ n + 1 \in 1..Len(u) /\ (n + 1) - 1 = n
    BY <1>1
  <2>2. f[n + 1] = Further(f[n], s[n + 1], T)
    BY <1>2, <2>1
  <2>3. g[n + 1] = Further(g[n], u[n + 1], T)
    BY <1>3, <2>1
  <2> QED
    BY <1>1, <1>5, <2>1, <2>2, <2>3
<1>6. Len(s) \in S
  <2> HIDE DEF S
  <2>1. \A n \in 0..Len(s) : n \in S
    BY <1>1, <1>4, <1>5, InductionUpTo
  <2> QED
    BY <1>1, <2>1
<1>7. g[Len(s) + 1] = Further(g[Len(s)], x, T)
  <2>1. Len(s) + 1 \in 1..Len(u) /\ (Len(s) + 1) - 1 = Len(s)
    BY <1>1
  <2> QED
    BY <1>1, <1>3, <2>1
<1> QED
  BY <1>1, <1>2, <1>3, <1>6, <1>7 DEF u

\* What is kept of two lists, one after the other.
LEMMA KeptAcross ==
  ASSUME NEW A, NEW s \in Seq(A), NEW t \in Seq(A), NEW T
  PROVE  Kept(s \o t, T) = Kept(s, T) \o Kept(t, T)
<1> DEFINE S == {r \in Seq(A) : Kept(s \o r, T) = Kept(s, T) \o Kept(r, T)}
<1>1. <<>> \in S
  <2>1. Kept(<<>>, T) = <<>>
    <3>1. <<>> \in Seq(A) /\ Range(<<>>) = {}
      BY DEF Range
    <3> QED
      BY <3>1, KeptWhole
  <2>2. s \o <<>> = s /\ Kept(s, T) \in Seq(A)
    BY KeptElements
  <2> QED
    BY <2>1, <2>2
<1>2. ASSUME NEW r \in Seq(A), r \in S, NEW x \in A PROVE Append(r, x) \in S
  <2>1. s \o Append(r, x) = Append(s \o r, x) /\ s \o r \in Seq(A) /\ Append(r, x) \in Seq(A)
    OBVIOUS
  <2>2. /\ Kept(s \o Append(r, x), T) = Further(Kept(s \o r, T), x, T)
        /\ Kept(Append(r, x), T) = Further(Kept(r, T), x, T)
    BY <2>1, KeptAppend
  <2>3. Kept(s, T) \in Seq(A) /\ Kept(r, T) \in Seq(A)
    BY KeptElements
  <2> DEFINE a == Kept(s, T)
             b == Kept(r, T)
  <2>4. Further(a \o b, x, T) = a \o Further(b, x, T)
    <3>1. a \o Append(b, x) = Append(a \o b, x)
      <4>1. a \in Seq(A) /\ b \in Seq(A)
        BY <2>3
      <4> HIDE DEF a, b, S
      <4> QED
        BY <4>1
    <3> HIDE DEF a, b
    <3> QED
      BY <3>1 DEF Further
  <2> QED
    BY <1>2, <2>1, <2>2, <2>4
<1>3. t \in S
  <2> HIDE DEF S
  <2> QED
    BY <1>1, <1>2, ListInduction
<1> QED
  BY <1>3
-----------------------------------------------------------------------------
(* Lists of lists, one after the other: FlattenSeq. *)

\* f is a run of the loop of FlattenSeq over the first n of the lists.
FlattensTo(f, s, n) ==
  f = [i \in 1..n |-> IF i = 1 THEN s[i] ELSE f[i - 1] \o s[i]]

\* The loop has a run over any list of lists.
LEMMA FlattenRunExists ==
  ASSUME NEW s, NEW k \in Nat
  PROVE  \E f : FlattensTo(f, s, k)
<1> DEFINE S == {n \in Nat : \E f : FlattensTo(f, s, n)}
<1>1. 0 \in S
  <2>1. FlattensTo([i \in 1..0 |-> <<>>], s, 0)
    BY DEF FlattensTo
  <2> QED
    BY <2>1
<1>2. ASSUME NEW n \in S PROVE n + 1 \in S
  <2>1. PICK f : FlattensTo(f, s, n)
    BY <1>2
  <2> DEFINE g == [i \in 1..n + 1 |-> IF i = 1 THEN s[i] ELSE IF i = n + 1 THEN f[n] \o s[n + 1] ELSE f[i]]
  <2>2. ASSUME NEW i \in 1..n + 1 PROVE g[i] = IF i = 1 THEN s[i] ELSE g[i - 1] \o s[i]
    <3>1. CASE i = 1
      BY <3>1
    <3>2. CASE i # 1
      <4>1. i - 1 \in 1..n /\ n \in Nat
        BY <3>2
      <4>2. f[i - 1] = IF i - 1 = 1 THEN s[i - 1] ELSE f[(i - 1) - 1] \o s[i - 1]
        BY <2>1, <4>1 DEF FlattensTo
      <4>3. g[i - 1] = f[i - 1]
        BY <4>1, <4>2
      <4>4. CASE i = n + 1
        <5>1. i - 1 = n
          BY <4>1, <4>4
        <5>2. g[i] = f[n] \o s[n + 1]
          BY <3>2, <4>4
        <5>3. g[i] = g[i - 1] \o s[i]
          BY <4>3, <4>4, <5>1, <5>2
        <5> QED
          BY <3>2, <5>3
      <4>5. CASE i # n + 1
        <5>1. i \in 1..n
          BY <4>1, <4>5
        <5>2. f[i] = f[i - 1] \o s[i]
          BY <2>1, <3>2, <5>1 DEF FlattensTo
        <5>3. g[i] = f[i]
          BY <3>2, <4>5
        <5> QED
          BY <3>2, <4>3, <5>2, <5>3
      <4> QED
        BY <4>4, <4>5
    <3> QED
      BY <3>1, <3>2
  <2>3. g = [i \in 1..n + 1 |-> g[i]]
    OBVIOUS
  <2> HIDE DEF g
  <2>4. g = [i \in 1..n + 1 |-> IF i = 1 THEN s[i] ELSE g[i - 1] \o s[i]]
    BY <2>2, <2>3
  <2>5. FlattensTo(g, s, n + 1)
    BY <2>4 DEF FlattensTo
  <2> QED
    BY <1>2, <2>5
<1>3. S = Nat
  <2>1. S \in SUBSET Nat
    OBVIOUS
  <2> HIDE DEF S
  <2> QED
    BY <1>1, <1>2, <2>1, Induction
<1> QED
  BY <1>3

\* FlattenSeq is where the run of its loop ends.
LEMMA FlattenRuns ==
  ASSUME NEW A, NEW s \in Seq(Seq(A))
  PROVE  /\ Len(s) = 0 => FlattenSeq(s) = <<>>
         /\ Len(s) # 0 =>
              \E f : /\ FlattenSeq(s) = f[Len(s)] /\ f[1] = s[1]
                     /\ \A i \in 2..Len(s) : f[i] = f[i - 1] \o s[i]
<1>1. Len(s) \in Nat /\ (Len(s) = 0 => s = <<>>)
  OBVIOUS
<1>2. ASSUME Len(s) # 0
      PROVE  \E f : /\ FlattenSeq(s) = f[Len(s)] /\ f[1] = s[1]
                    /\ \A i \in 2..Len(s) : f[i] = f[i - 1] \o s[i]
  <2> DEFINE flatten == CHOOSE f : FlattensTo(f, s, Len(s))
  <2>1. FlattensTo(flatten, s, Len(s))
    BY <1>1, FlattenRunExists
  <2>2. FlattenSeq(s) = flatten[Len(s)]
    BY <1>2 DEF FlattenSeq, FlattensTo
  <2> HIDE DEF flatten
  <2>3. 1 \in 1..Len(s) /\ \A i \in 2..Len(s) : i \in 1..Len(s) /\ i # 1
    BY <1>1, <1>2
  <2>4. flatten[1] = s[1] /\ \A i \in 2..Len(s) : flatten[i] = flatten[i - 1] \o s[i]
    BY <2>1, <2>3 DEF FlattensTo
  <2> QED
    BY <2>2, <2>4
<1> QED
  BY <1>1, <1>2 DEF FlattenSeq

\* One more list at the end.
LEMMA FlattenAppend ==
  ASSUME NEW A, NEW s \in Seq(Seq(A)), NEW x \in Seq(A), FlattenSeq(s) \in Seq(A)
  PROVE  FlattenSeq(Append(s, x)) = FlattenSeq(s) \o x
<1> DEFINE u == Append(s, x)
<1>1. /\ Len(s) \in Nat /\ Len(u) = Len(s) + 1 /\ u[Len(s) + 1] = x
      /\ u \in Seq(Seq(A)) /\ \A i \in 1..Len(s) : u[i] = s[i]
  OBVIOUS
<1> HIDE DEF u
<1>2. PICK g : /\ FlattenSeq(u) = g[Len(u)] /\ g[1] = u[1]
               /\ \A i \in 2..Len(u) : g[i] = g[i - 1] \o u[i]
  <2>1. Len(u) # 0
    BY <1>1
  <2> QED
    BY <1>1, <2>1, FlattenRuns
<1>3. CASE Len(s) = 0
  <2>1. FlattenSeq(s) = <<>>
    BY <1>3, FlattenRuns
  <2>2. FlattenSeq(u) = x
    BY <1>1, <1>2, <1>3
  <2>3. <<>> \o x = x
    OBVIOUS
  <2> QED
    BY <2>1, <2>2, <2>3 DEF u
<1>4. CASE Len(s) # 0
  <2>1. PICK f : /\ FlattenSeq(s) = f[Len(s)] /\ f[1] = s[1]
                 /\ \A i \in 2..Len(s) : f[i] = f[i - 1] \o s[i]
    BY <1>4, FlattenRuns
  <2> DEFINE S == {n \in Nat : n + 1 <= Len(s) => g[n + 1] = f[n + 1]}
  <2>2. 0 \in S
    <3>1. 1 \in 1..Len(s)
      BY <1>1, <1>4
    <3>2. g[1] = f[1]
      BY <1>1, <1>2, <2>1, <3>1
    <3> QED
      BY <3>2
  <2>3. ASSUME NEW n \in S PROVE n + 1 \in S
    <3> SUFFICES ASSUME (n + 1) + 1 <= Len(s) PROVE g[(n + 1) + 1] = f[(n + 1) + 1]
      OBVIOUS
    <3> DEFINE i == (n + 1) + 1
    <3>1. i \in 2..Len(s) /\ i \in 2..Len(u) /\ i - 1 = n + 1 /\ i \in 1..Len(s)
      BY <1>1
    <3>2. g[n + 1] = f[n + 1]
      BY <1>1
    <3>3. g[i] = g[n + 1] \o u[i] /\ f[i] = f[n + 1] \o s[i] /\ u[i] = s[i]
      <4> HIDE DEF i
      <4> QED
        BY <1>1, <1>2, <2>1, <3>1
    <3> QED
      BY <3>2, <3>3
  <2>4. S = Nat
    <3>1. S \in SUBSET Nat
      OBVIOUS
    <3> HIDE DEF S
    <3> QED
      BY <2>2, <2>3, <3>1, Induction
  <2>5. g[Len(s)] = f[Len(s)]
    <3>1. Len(s) - 1 \in Nat /\ (Len(s) - 1) + 1 = Len(s)
      BY <1>1, <1>4
    <3>2. Len(s) - 1 \in S
      BY <2>4, <3>1
    <3> QED
      BY <3>1, <3>2
  <2>6. g[Len(u)] = g[Len(s)] \o x
    <3>1. Len(u) \in 2..Len(u) /\ Len(u) - 1 = Len(s)
      BY <1>1, <1>4
    <3> QED
      BY <1>1, <1>2, <3>1
  <2> QED
    BY <1>2, <2>1, <2>5, <2>6 DEF u
<1> QED
  BY <1>3, <1>4

\* FlattenSeq gives a list of the elements of the lists.
LEMMA FlattenType ==
  ASSUME NEW A
  PROVE  FlattenSeq(<<>>) = <<>> /\ \A s \in Seq(Seq(A)) : FlattenSeq(s) \in Seq(A)
<1> DEFINE S == {s \in Seq(Seq(A)) : FlattenSeq(s) \in Seq(A)}
<1>1. FlattenSeq(<<>>) = <<>>
  <2>1. <<>> \in Seq(Seq(A)) /\ Len(<<>>) = 0
    OBVIOUS
  <2> QED
    BY <2>1, FlattenRuns
<1>2. <<>> \in S
  <2>1. <<>> \in Seq(Seq(A)) /\ <<>> \in Seq(A)
    OBVIOUS
  <2> QED
    BY <1>1, <2>1
<1>3. ASSUME NEW s \in Seq(Seq(A)), s \in S, NEW x \in Seq(A) PROVE Append(s, x) \in S
  <2>1. FlattenSeq(Append(s, x)) = FlattenSeq(s) \o x
    BY <1>3, FlattenAppend
  <2>2. FlattenSeq(s) \o x \in Seq(A) /\ Append(s, x) \in Seq(Seq(A))
    <3> DEFINE a == FlattenSeq(s)
    <3>1. a \in Seq(A)
      BY <1>3
    <3> HIDE DEF a
    <3>2. a \o x \in Seq(A)
      BY <3>1
    <3> QED
      BY <3>2 DEF a
  <2> QED
    BY <2>1, <2>2
<1>4. Seq(Seq(A)) \subseteq S
  <2> HIDE DEF S
  <2> QED
    BY <1>2, <1>3, ListInduction
<1> QED
  BY <1>1, <1>4
\* One list of lists after another.
LEMMA FlattenAcross ==
  ASSUME NEW A, NEW s \in Seq(Seq(A)), NEW t \in Seq(Seq(A))
  PROVE  FlattenSeq(s \o t) = FlattenSeq(s) \o FlattenSeq(t)
<1> DEFINE S == {r \in Seq(Seq(A)) : FlattenSeq(s \o r) = FlattenSeq(s) \o FlattenSeq(r)}
<1>1. <<>> \in S
  <2>1. s \o <<>> = s /\ FlattenSeq(s) \in Seq(A) /\ FlattenSeq(<<>>) = <<>>
    BY FlattenType
  <2> DEFINE a == FlattenSeq(s)
  <2>2. a \o <<>> = a
    <3> HIDE DEF a
    <3>1. a \in Seq(A)
      BY <2>1 DEF a
    <3> QED
      BY <3>1
  <2> QED
    BY <2>1, <2>2
<1>2. ASSUME NEW r \in Seq(Seq(A)), r \in S, NEW x \in Seq(A) PROVE Append(r, x) \in S
  <2>1. s \o Append(r, x) = Append(s \o r, x) /\ s \o r \in Seq(Seq(A)) /\ Append(r, x) \in Seq(Seq(A))
    OBVIOUS
  <2>2. FlattenSeq(s) \in Seq(A) /\ FlattenSeq(r) \in Seq(A) /\ FlattenSeq(s \o r) \in Seq(A)
    BY <2>1, FlattenType
  <2>3. /\ FlattenSeq(s \o Append(r, x)) = FlattenSeq(s \o r) \o x
        /\ FlattenSeq(Append(r, x)) = FlattenSeq(r) \o x
    BY <2>1, <2>2, FlattenAppend
  <2> DEFINE a == FlattenSeq(s)
             b == FlattenSeq(r)
  <2>4. (a \o b) \o x = a \o (b \o x)
    <3> HIDE DEF a, b
    <3>1. a \in Seq(A) /\ b \in Seq(A)
      BY <2>2 DEF a, b
    <3> QED
      BY <3>1
  <2> QED
    BY <1>2, <2>1, <2>3, <2>4
<1>3. t \in S
  <2> HIDE DEF S
  <2> QED
    BY <1>1, <1>2, ListInduction
<1> QED
  BY <1>3

\* What is kept of each list is what is kept of all of them.
LEMMA KeptFlattened ==
  ASSUME NEW A, NEW s \in Seq(Seq(A)), NEW T
  PROVE  Kept(FlattenSeq(s), T) = FlattenSeq([i \in 1..Len(s) |-> Kept(s[i], T)])
<1> DEFINE each(r) == [i \in 1..Len(r) |-> Kept(r[i], T)]
           S == {r \in Seq(Seq(A)) : Kept(FlattenSeq(r), T) = FlattenSeq(each(r))}
<1>1. <<>> \in S
  <2>1. FlattenSeq(<<>>) = <<>>
    BY FlattenType
  <2>2. each(<<>>) = <<>>
    OBVIOUS
  <2>3. Kept(<<>>, T) = <<>>
    <3>1. <<>> \in Seq(A) /\ Range(<<>>) = {}
      BY DEF Range
    <3> QED
      BY <3>1, KeptWhole
  <2> QED
    BY <2>1, <2>2, <2>3
<1>2. ASSUME NEW r \in Seq(Seq(A)), r \in S, NEW x \in Seq(A) PROVE Append(r, x) \in S
  <2>1. Append(r, x) \in Seq(Seq(A)) /\ FlattenSeq(r) \in Seq(A) /\ Kept(x, T) \in Seq(A)
    BY FlattenType, KeptElements
  <2>2. each(r) \in Seq(Seq(A))
    <3>1. \A i \in 1..Len(r) : r[i] \in Seq(A)
      OBVIOUS
    <3>2. \A i \in 1..Len(r) : Kept(r[i], T) \in Seq(A)
      BY <3>1, KeptElements
    <3> QED
      BY <3>2
  <2>3. each(Append(r, x)) = Append(each(r), Kept(x, T))
    <3>1. \A i \in 1..Len(r) : Append(r, x)[i] = r[i]
      OBVIOUS
    <3>2. Append(r, x)[Len(r) + 1] = x /\ Len(Append(r, x)) = Len(r) + 1 /\ Len(r) \in Nat
      OBVIOUS
    <3> DEFINE e == each(r)
               y == Kept(x, T)
    <3>3. e \in Seq(Seq(A)) /\ Len(e) = Len(r) /\ \A i \in 1..Len(r) : e[i] = Kept(r[i], T)
      BY <2>2
    <3>4. each(Append(r, x)) = [i \in 1..Len(r) + 1 |-> IF i = Len(r) + 1 THEN y ELSE e[i]]
      <4>1. ASSUME NEW i \in 1..Len(r) + 1
            PROVE  Kept(Append(r, x)[i], T) = IF i = Len(r) + 1 THEN y ELSE e[i]
        <5>1. i = Len(r) + 1 \/ (i \in 1..Len(r) /\ i # Len(r) + 1)
          <6>1. Len(r) \in Nat
            OBVIOUS
          <6> QED
            BY <6>1
        <5> HIDE DEF e
        <5> QED
          BY <3>1, <3>2, <3>3, <5>1
      <4> QED
        BY <3>2, <4>1
    <3>5. y \in Seq(A)
      BY <2>1
    <3> HIDE DEF e, y
    <3>6. Append(e, y) = [i \in 1..Len(r) + 1 |-> IF i = Len(r) + 1 THEN y ELSE e[i]]
      BY <3>3, <3>5, Appended
    <3> QED
      BY <3>4, <3>6 DEF e, y
  <2>4. FlattenSeq(each(r)) \in Seq(A)
    BY <2>2, FlattenType
  <2>5. FlattenSeq(Append(each(r), Kept(x, T))) = FlattenSeq(each(r)) \o Kept(x, T)
    <3> HIDE DEF each
    <3> QED
      BY <2>1, <2>2, <2>4, FlattenAppend
  <2>6. FlattenSeq(Append(r, x)) = FlattenSeq(r) \o x
    BY <2>1, FlattenAppend
  <2>7. Kept(FlattenSeq(r) \o x, T) = Kept(FlattenSeq(r), T) \o Kept(x, T)
    BY <2>1, KeptAcross
  <2> QED
    BY <1>2, <2>1, <2>3, <2>5, <2>6, <2>7
<1>3. s \in S
  <2> HIDE DEF S
  <2> QED
    BY <1>1, <1>2, ListInduction
<1> QED
  BY <1>3

\* Leaving empty lists out makes no difference.
LEMMA FlattenFull ==
  ASSUME NEW A, NEW s \in Seq(Seq(A)), NEW T, Range(s) \ {<<>>} \subseteq T
  PROVE  FlattenSeq(Kept(s, T)) = FlattenSeq(s)
<1> DEFINE B == {x \in Seq(A) : x # <<>> => x \in T}
           S == {r \in Seq(B) : FlattenSeq(Kept(r, T)) = FlattenSeq(r)}
<1>1. <<>> \in S
  <2>1. <<>> \in Seq(B) /\ Range(<<>>) = {}
    BY DEF Range
  <2>2. Kept(<<>>, T) = <<>>
    BY <2>1, KeptWhole
  <2> QED
    BY <2>1, <2>2
<1>2. ASSUME NEW r \in Seq(B), r \in S, NEW x \in B PROVE Append(r, x) \in S
  <2>1. r \in Seq(Seq(A)) /\ x \in Seq(A) /\ Append(r, x) \in Seq(B)
    OBVIOUS
  <2>2. Kept(r, T) \in Seq(Seq(A))
    BY <2>1, KeptElements
  <2>3. FlattenSeq(r) \in Seq(A) /\ FlattenSeq(Kept(r, T)) \in Seq(A)
    BY <2>1, <2>2, FlattenType
  <2>4. FlattenSeq(Append(r, x)) = FlattenSeq(r) \o x
    BY <2>1, <2>3, FlattenAppend
  <2>5. Kept(Append(r, x), T) = Further(Kept(r, T), x, T)
    BY <2>1, KeptAppend
  <2>6. CASE x \in T
    <3>1. FlattenSeq(Append(Kept(r, T), x)) = FlattenSeq(Kept(r, T)) \o x
      BY <2>1, <2>2, <2>3, FlattenAppend
    <3> QED
      BY <1>2, <2>1, <2>4, <2>5, <2>6, <3>1 DEF Further
  <2>7. CASE x \notin T
    <3>1. x = <<>>
      BY <2>7
    <3> DEFINE a == FlattenSeq(r)
    <3>2. a \o <<>> = a
      <4> HIDE DEF a
      <4>1. a \in Seq(A)
        BY <2>3 DEF a
      <4> QED
        BY <4>1
    <3> QED
      BY <1>2, <2>1, <2>4, <2>5, <2>7, <3>1, <3>2 DEF Further
  <2> QED
    BY <2>6, <2>7
<1>3. s \in Seq(B)
  <2>1. \A i \in 1..Len(s) : s[i] \in B
    <3>1. \A i \in 1..Len(s) : s[i] \in Range(s) /\ s[i] \in Seq(A)
      BY DEF Range
    <3> QED
      BY <3>1
  <2> QED
    BY <2>1
<1>4. s \in S
  <2> HIDE DEF S, B
  <2> QED
    BY <1>1, <1>2, <1>3, ListInduction
<1> QED
  BY <1>4
-----------------------------------------------------------------------------
(* Beginnings of lists. *)

\* A beginning of two lists is one of the first, or the first with one of the second.
LEMMA BeginningAcross ==
  ASSUME NEW A, NEW s \in Seq(A), NEW t \in Seq(A)
  PROVE  /\ \A n \in 0..Len(s) : SubSeq(s \o t, 1, n) = SubSeq(s, 1, n)
         /\ \A n \in 0..Len(t) : SubSeq(s \o t, 1, Len(s) + n) = s \o SubSeq(t, 1, n)
<1> DEFINE u == s \o t
<1>1. /\ u \in Seq(A) /\ Len(u) = Len(s) + Len(t) /\ Len(s) \in Nat /\ Len(t) \in Nat
      /\ \A i \in 1..Len(s) : u[i] = s[i]
      /\ \A i \in 1..Len(t) : u[Len(s) + i] = t[i]
  BY TwoLists
<1> HIDE DEF u
<1>2. ASSUME NEW n \in 0..Len(s) PROVE SubSeq(u, 1, n) = SubSeq(s, 1, n)
  <2>1. /\ SubSeq(u, 1, n) \in Seq(A) /\ Len(SubSeq(u, 1, n)) = n
        /\ \A i \in 1..n : SubSeq(u, 1, n)[i] = u[i]
    BY <1>1
  <2>2. /\ SubSeq(s, 1, n) \in Seq(A) /\ Len(SubSeq(s, 1, n)) = n
        /\ \A i \in 1..n : SubSeq(s, 1, n)[i] = s[i]
    BY <1>1
  <2>3. \A i \in 1..n : u[i] = s[i]
    BY <1>1
  <2> DEFINE v == SubSeq(u, 1, n)
             w == SubSeq(s, 1, n)
  <2> HIDE DEF v, w
  <2>4. v = w
    BY <2>1, <2>2, <2>3 DEF v, w
  <2> QED
    BY <2>4 DEF v, w
<1>3. ASSUME NEW n \in 0..Len(t) PROVE SubSeq(u, 1, Len(s) + n) = s \o SubSeq(t, 1, n)
  <2> DEFINE v == SubSeq(u, 1, Len(s) + n)
             b == SubSeq(t, 1, n)
             w == s \o b
  <2>1. v \in Seq(A) /\ Len(v) = Len(s) + n /\ \A i \in 1..Len(s) + n : v[i] = u[i]
    BY <1>1
  <2>2. b \in Seq(A) /\ Len(b) = n /\ \A i \in 1..n : b[i] = t[i]
    BY <1>1
  <2> HIDE DEF v, b
  <2>3. /\ w \in Seq(A) /\ Len(w) = Len(s) + Len(b) /\ \A i \in 1..Len(s) : w[i] = s[i]
        /\ \A i \in 1..Len(b) : w[Len(s) + i] = b[i]
    <3>1. b \in Seq(A)
      BY <2>2
    <3> QED
      BY <3>1, TwoLists
  <2> HIDE DEF w
  <2>4. ASSUME NEW i \in 1..Len(s) + n PROVE v[i] = w[i]
    <3>1. CASE i <= Len(s)
      <4>1. i \in 1..Len(s)
        BY <1>1, <3>1
      <4> QED
        BY <1>1, <2>1, <2>3, <4>1
    <3>2. CASE ~(i <= Len(s))
      <4>1. i - Len(s) \in 1..n /\ i - Len(s) \in 1..Len(t) /\ Len(s) + (i - Len(s)) = i
        BY <1>1, <3>2
      <4>2. w[Len(s) + (i - Len(s))] = b[i - Len(s)] /\ b[i - Len(s)] = t[i - Len(s)]
        BY <2>2, <2>3, <4>1
      <4>3. u[Len(s) + (i - Len(s))] = t[i - Len(s)]
        BY <1>1, <4>1
      <4>4. v[i] = u[i]
        BY <2>1
      <4> QED
        BY <4>1, <4>2, <4>3, <4>4
    <3> QED
      BY <3>1, <3>2
  <2>5. v = w
    BY <2>1, <2>2, <2>3, <2>4
  <2> QED
    BY <2>5 DEF v, w, b
<1> QED
  BY <1>2, <1>3 DEF u

\* One that ends in the first.
LEMMA BeginningWithin ==
  ASSUME NEW A, NEW s \in Seq(A), NEW t \in Seq(A), NEW n \in 0..Len(s)
  PROVE  SubSeq(s \o t, 1, n) = SubSeq(s, 1, n)
BY BeginningAcross

\* One that ends in the second.
LEMMA BeginningOver ==
  ASSUME NEW A, NEW s \in Seq(A), NEW t \in Seq(A), NEW n \in 0..Len(t)
  PROVE  SubSeq(s \o t, 1, Len(s) + n) = s \o SubSeq(t, 1, n)
BY BeginningAcross

\* A beginning of a list is a prefix of it.
LEMMA BeginningIsPrefix ==
  ASSUME NEW A, NEW s \in Seq(A)
  PROVE  /\ \A n \in 0..Len(s) : IsPrefix(SubSeq(s, 1, n), s)
         /\ IsPrefix(s, s) /\ IsPrefix(<<>>, s) /\ SubSeq(s, 1, Len(s)) = s
<1>1. ASSUME NEW n \in 0..Len(s) PROVE IsPrefix(SubSeq(s, 1, n), s)
  <2> DEFINE t == SubSeq(s, 1, n)
  <2>1. t \in Seq(A) /\ Len(t) = n /\ n <= Len(s)
    OBVIOUS
  <2> HIDE DEF t
  <2>2. SubSeq(t, 1, Len(t)) = t
    BY <2>1
  <2> QED
    BY <2>1, <2>2 DEF IsPrefix, t
<1>2. IsPrefix(s, s)
  BY DEF IsPrefix
<1>3. IsPrefix(<<>>, s)
  <2>1. SubSeq(s, 1, 0) = <<>> /\ SubSeq(<<>>, 1, 0) = <<>> /\ Len(<<>>) = 0 /\ 0 <= Len(s)
    OBVIOUS
  <2> QED
    BY <2>1 DEF IsPrefix
<1>4. SubSeq(s, 1, Len(s)) = s
  OBVIOUS
<1> QED
  BY <1>1, <1>2, <1>3, <1>4
=============================================================================
