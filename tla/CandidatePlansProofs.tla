------------------------ MODULE CandidatePlansProofs ------------------------
(***************************************************************************)
(* That each plan of candidates.ts is what it is for, for any number of    *)
(* dimensions and any list of delays.  The plans are made by loops over    *)
(* lists, so that what they contain takes induction: it is done here on    *)
(* sets of naturals, which needs no theorem over operators.                *)
(***************************************************************************)
EXTENDS CandidatePlans, FiniteSetTheorems, SequenceTheorems, TLAPS

-----------------------------------------------------------------------------
(* Induction and recursion over the naturals. *)

(* A set with 0 and with the successor of each of its members has every natural. *)
LEMMA Induction ==
  ASSUME NEW S, 0 \in S, \A n \in Nat : n \in S => n + 1 \in S
  PROVE  Nat \subseteq S
<1> SUFFICES ASSUME Nat \ S # {} PROVE FALSE
  OBVIOUS
<1> DEFINE Below == OpToRel(<, Nat)
<1>1. \A y, x \in Nat : y < x => <<y, x>> \in Below
  <2>1. SUFFICES ASSUME NEW y \in Nat, NEW x \in Nat, y < x
                 PROVE  <<y, x>> \in {p \in Nat \X Nat : p[1] < p[2]}
    BY <2>1, Zenon DEF OpToRel
  <2> QED BY <2>1
<1>2. PICK x \in Nat \ S : \A y \in Nat \ S : <<y, x>> \notin Below
  BY NatLessThanWellFounded, WFMin
<1>3. x - 1 \in Nat /\ x - 1 < x /\ x = (x - 1) + 1
  OBVIOUS
<1>4. x - 1 \in S
  BY <1>1, <1>2, <1>3
<1> QED BY <1>2, <1>3, <1>4

(* A value and a step that makes the next value of a number and a value give a
   function: the functions that do so up to some number agree, and together
   reach every number. *)
Steps(X) == [Nat -> [X -> X]]

Recursive(f, first, F) == f[0] = first /\ \A n \in Nat : f[n + 1] = F[n][f[n]]

LEMMA Recursion ==
  ASSUME NEW X, NEW first \in X, NEW F \in Steps(X)
  PROVE  \E f \in [Nat -> X] : Recursive(f, first, F)
<1> USE DEF Steps
<1> DEFINE Upto(n) == {g \in [0 .. n -> X] :
                         g[0] = first /\ \A i \in 0 .. n - 1 : g[i + 1] = F[i][g[i]]}
<1>1. \A n \in Nat : Upto(n) # {}
  <2> DEFINE S == {n \in Nat : Upto(n) # {}}
  <2>1. 0 \in S
    <3>1. [i \in 0 .. 0 |-> first] \in Upto(0)
      OBVIOUS
    <3> QED BY <3>1
  <2>2. ASSUME NEW n \in Nat, n \in S PROVE n + 1 \in S
    <3>1. PICK g \in Upto(n) : TRUE
      BY <2>2
    <3> DEFINE h == [i \in 0 .. n + 1 |-> IF i = n + 1 THEN F[n][g[n]] ELSE g[i]]
    <3>2. g \in [0 .. n -> X] /\ F[n][g[n]] \in X
      BY <3>1
    <3>3. h \in [0 .. n + 1 -> X]
      BY <3>2
    <3>4. h[0] = first
      BY <3>1
    <3>5. ASSUME NEW i \in 0 .. (n + 1) - 1 PROVE h[i + 1] = F[i][h[i]]
      BY <3>1
    <3>6. h \in Upto(n + 1)
      BY <3>3, <3>4, <3>5
    <3> QED BY <3>6
  <2> QED BY <2>1, <2>2, Induction
<1>2. ASSUME NEW m \in Nat, NEW n \in Nat, NEW g \in Upto(m), NEW h \in Upto(n),
             NEW k \in Nat, k <= m, k <= n
      PROVE  g[k] = h[k]
  <2> DEFINE S == {i \in Nat : i <= m /\ i <= n => g[i] = h[i]}
  <2>1. 0 \in S
    OBVIOUS
  <2>2. ASSUME NEW i \in Nat, i \in S PROVE i + 1 \in S
    <3> SUFFICES ASSUME i + 1 <= m, i + 1 <= n PROVE g[i + 1] = h[i + 1]
      OBVIOUS
    <3>1. g[i] = h[i] /\ i \in 0 .. m - 1 /\ i \in 0 .. n - 1
      BY <2>2
    <3> QED BY <3>1
  <2> HIDE DEF S
  <2>3. k \in S
    BY <2>1, <2>2, Induction
  <2> QED BY <1>2, <2>3 DEF S
<1> DEFINE G(n) == CHOOSE g \in Upto(n) : TRUE
           f == [n \in Nat |-> G(n)[n]]
<1> HIDE DEF Upto
<1>3. \A n \in Nat : G(n) \in Upto(n)
  BY <1>1
<1> HIDE DEF G
<1>4. f \in [Nat -> X]
  BY <1>3 DEF Upto
<1>5. f[0] = first
  BY <1>3 DEF Upto
<1>6. ASSUME NEW n \in Nat PROVE f[n + 1] = F[n][f[n]]
  <2>1. G(n + 1)[n + 1] = F[n][G(n + 1)[n]]
    <3>1. G(n + 1) \in Upto(n + 1) /\ n \in 0 .. (n + 1) - 1
      BY <1>3
    <3> QED BY <3>1 DEF Upto
  <2>2. G(n + 1)[n] = G(n)[n]
    <3>1. G(n) \in Upto(n) /\ G(n + 1) \in Upto(n + 1) /\ n + 1 \in Nat
          /\ n <= n /\ n <= n + 1
      BY <1>3
    <3> QED BY <1>2, <3>1
  <2> QED BY <2>1, <2>2
<1> QED BY <1>4, <1>5, <1>6 DEF Recursive

-----------------------------------------------------------------------------
(* Lists. *)

Distinctly(s) == \A i, j \in DOMAIN s : s[i] = s[j] => i = j

(* s lists the members of T, and no member of T twice. *)
Covers(s, T) == s \in Seq(T) /\ ToSet(s) = T
Lists(s, T) == Covers(s, T) /\ Distinctly(s)

Apart(A, B) == A \cap B = {}

LEMMA ConcatCovers ==
  ASSUME NEW A, NEW B, NEW s, NEW t, Covers(s, A), Covers(t, B)
  PROVE  /\ Covers(s \o t, A \cup B)
         /\ Distinctly(s) /\ Distinctly(t) /\ Apart(A, B) => Distinctly(s \o t)
<1>1. s \in Seq(A \cup B) /\ t \in Seq(A \cup B)
  BY SeqMonotonic DEF Covers
<1>2. /\ s \o t \in Seq(A \cup B)
      /\ Len(s \o t) = Len(s) + Len(t)
      /\ \A i \in 1 .. Len(s) + Len(t) :
           (s \o t)[i] = IF i <= Len(s) THEN s[i] ELSE t[i - Len(s)]
  BY <1>1, ConcatProperties
<1>3. /\ Len(s) \in Nat /\ DOMAIN s = 1 .. Len(s) /\ \A i \in DOMAIN s : s[i] \in A
      /\ Len(t) \in Nat /\ DOMAIN t = 1 .. Len(t) /\ \A i \in DOMAIN t : t[i] \in B
      /\ DOMAIN (s \o t) = 1 .. Len(s) + Len(t)
  BY <1>1, <1>2, LenProperties DEF Covers
<1>4. ToSet(s \o t) = A \cup B
  <2>1. ASSUME NEW x \in A PROVE x \in ToSet(s \o t)
    <3>1. PICK i \in DOMAIN s : s[i] = x
      BY DEF Covers, ToSet
    <3>2. i \in 1 .. Len(s) + Len(t) /\ i <= Len(s)
      BY <1>3
    <3> QED BY <1>2, <1>3, <3>1, <3>2 DEF ToSet
  <2>2. ASSUME NEW x \in B PROVE x \in ToSet(s \o t)
    <3>1. PICK i \in DOMAIN t : t[i] = x
      BY DEF Covers, ToSet
    <3>2. Len(s) + i \in 1 .. Len(s) + Len(t) /\ ~(Len(s) + i <= Len(s))
          /\ (Len(s) + i) - Len(s) = i
      BY <1>3
    <3> QED BY <1>2, <1>3, <3>1, <3>2 DEF ToSet
  <2>3. ToSet(s \o t) \subseteq A \cup B
    BY <1>2, <1>3, ElementOfSeq DEF ToSet
  <2> QED BY <2>1, <2>2, <2>3
<1>5. ASSUME Distinctly(s), Distinctly(t), Apart(A, B) PROVE Distinctly(s \o t)
  <2> USE DEF Apart
  <2> SUFFICES ASSUME NEW i \in 1 .. Len(s) + Len(t), NEW j \in 1 .. Len(s) + Len(t),
                      (s \o t)[i] = (s \o t)[j]
               PROVE  i = j
    BY <1>3 DEF Distinctly
  <2>1. CASE i <= Len(s) /\ j <= Len(s)
    BY <1>2, <1>3, <1>5, <2>1 DEF Distinctly
  <2>2. CASE ~(i <= Len(s)) /\ ~(j <= Len(s))
    <3>1. /\ i - Len(s) \in DOMAIN t /\ j - Len(s) \in DOMAIN t
          /\ t[i - Len(s)] = t[j - Len(s)]
      BY <1>2, <1>3, <2>2
    <3>2. i - Len(s) = j - Len(s)
      BY <1>5, <3>1 DEF Distinctly
    <3> QED BY <1>3, <3>2
  <2>3. CASE i <= Len(s) /\ ~(j <= Len(s))
    BY <1>2, <1>3, <1>5, <2>3
  <2>4. CASE ~(i <= Len(s)) /\ j <= Len(s)
    BY <1>2, <1>3, <1>5, <2>4
  <2> QED BY <2>1, <2>2, <2>3, <2>4
<1> QED BY <1>2, <1>4, <1>5 DEF Covers

(* The concatenations FlattenSeq makes on its way. *)
LEMMA Concatenations ==
  ASSUME NEW S, NEW ss \in Seq(Seq(S))
  PROVE  \E flat \in [Nat -> Seq(S)] :
           /\ flat[0] = << >> /\ FlattenSeq(ss) = flat[Len(ss)]
           /\ \A i \in 1 .. Len(ss) : flat[i] = flat[i - 1] \o ss[i]
<1> DEFINE F == [n \in Nat |-> [s \in Seq(S) |->
                   IF n + 1 \in 1 .. Len(ss) THEN s \o ss[n + 1] ELSE s]]
<1>1. /\ Len(ss) \in Nat /\ << >> \in Seq(S)
      /\ \A i \in 1 .. Len(ss) : ss[i] \in Seq(S)
  BY ElementOfSeq, EmptySeq, LenProperties
<1>2. F \in [Nat -> [Seq(S) -> Seq(S)]]
  BY <1>1, ConcatProperties
<1>3. PICK f \in [Nat -> Seq(S)] : f[0] = << >> /\ \A n \in Nat : f[n + 1] = F[n][f[n]]
  <2>1. F \in Steps(Seq(S))
    BY <1>2 DEF Steps
  <2> HIDE DEF F
  <2>2. \E f \in [Nat -> Seq(S)] : Recursive(f, << >>, F)
    BY <1>1, <2>1, Recursion
  <2> QED BY <2>2 DEF Recursive
<1>4. \A i \in 1 .. Len(ss) : f[i] = f[i - 1] \o ss[i]
  <2> TAKE i \in 1 .. Len(ss)
  <2>1. i - 1 \in Nat /\ (i - 1) + 1 = i
    BY <1>1
  <2>2. f[i] = F[i - 1][f[i - 1]] /\ f[i - 1] \in Seq(S)
    BY <1>3, <2>1
  <2> QED BY <2>1, <2>2
<1> HIDE DEF F
<1>5. FlattenSeq(ss) = f[Len(ss)]
  <2>1. CASE Len(ss) = 0
    <3>1. ss = << >>
      BY <2>1, EmptySeq
    <3> QED BY <1>3, <2>1, <3>1 DEF FlattenSeq
  <2>2. CASE Len(ss) # 0
    <3> DEFINE Flattens(g) ==
                 g = [i \in 1 .. Len(ss) |-> IF i = 1 THEN ss[i] ELSE g[i - 1] \o ss[i]]
               g == CHOOSE h : Flattens(h)
    <3>1. f[1] = ss[1]
      <4>1. 1 \in 1 .. Len(ss) /\ 1 - 1 = 0
        BY <1>1, <2>2
      <4>2. f[1] = << >> \o ss[1] /\ ss[1] \in Seq(S)
        BY <1>1, <1>3, <1>4, <4>1
      <4> QED BY <4>2, ConcatEmptySeq
    <3>2. Flattens([i \in 1 .. Len(ss) |-> f[i]])
      <4>1. \A i \in 1 .. Len(ss) : i # 1 => i - 1 \in 1 .. Len(ss)
        BY <1>1
      <4> QED BY <1>4, <3>1, <4>1
    <3>3. Flattens(g)
      BY <3>2
    <3>4. FlattenSeq(ss) = g[Len(ss)]
      BY <2>2 DEF FlattenSeq
    <3> HIDE DEF g
    <3> DEFINE T == {i \in Nat : i \in 1 .. Len(ss) => g[i] = f[i]}
    <3>5. ASSUME NEW n \in Nat, n \in T PROVE n + 1 \in T
      <4> SUFFICES ASSUME n + 1 \in 1 .. Len(ss) PROVE g[n + 1] = f[n + 1]
        OBVIOUS
      <4>1. CASE n = 0
        BY <3>1, <3>3, <4>1
      <4>2. CASE n # 0
        <5>1. n \in 1 .. Len(ss) /\ (n + 1) - 1 = n /\ n + 1 # 1
          BY <1>1, <4>2
        <5>2. g[n + 1] = g[n] \o ss[n + 1]
          BY <3>3, <5>1
        <5> QED BY <1>4, <3>5, <5>1, <5>2
      <4> QED BY <4>1, <4>2
    <3>6. 0 \in T
      BY <1>1
    <3> HIDE DEF T
    <3>7. Len(ss) \in T
      BY <1>1, <3>5, <3>6, Induction
    <3> QED BY <1>1, <2>2, <3>4, <3>7 DEF T
  <2> QED BY <2>1, <2>2
<1> QED BY <1>3, <1>4, <1>5

(* What FlattenSeq lists: what its parts list, each thing once if they do and
   have nothing in common. *)
LEMMA FlattenCovers ==
  ASSUME NEW n \in Nat, NEW T, NEW ss, ss = [i \in 1 .. n |-> ss[i]],
         \A i \in 1 .. n : Covers(ss[i], T[i])
  PROVE  /\ Covers(FlattenSeq(ss), UNION {T[i] : i \in 1 .. n})
         /\ /\ \A i \in 1 .. n : Distinctly(ss[i])
            /\ \A i, j \in 1 .. n : i # j => Apart(T[i], T[j])
            => Distinctly(FlattenSeq(ss))
<1> DEFINE S == UNION {T[i] : i \in 1 .. n}
           Part(k) == UNION {T[i] : i \in 1 .. k}
           apart == /\ \A i \in 1 .. n : Distinctly(ss[i])
                    /\ \A i, j \in 1 .. n : i # j => Apart(T[i], T[j])
<1>1. ss \in Seq(Seq(S)) /\ Len(ss) = n
  <2>1. ASSUME NEW i \in 1 .. n PROVE ss[i] \in Seq(S)
    <3>1. ss[i] \in Seq(T[i]) /\ T[i] \subseteq S
      BY DEF Covers
    <3> QED BY <3>1, SeqMonotonic
  <2>2. [i \in 1 .. n |-> ss[i]] \in [1 .. n -> Seq(S)]
    BY <2>1
  <2>3. ss \in [1 .. n -> Seq(S)]
    BY <2>2, Zenon
  <2>4. ss \in Seq(Seq(S))
    BY <2>3, SeqDef
  <2> QED BY <2>3, <2>4, LenProperties
<1>2. PICK flat \in [Nat -> Seq(S)] :
        /\ flat[0] = << >> /\ FlattenSeq(ss) = flat[n]
        /\ \A i \in 1 .. n : flat[i] = flat[i - 1] \o ss[i]
  <2> HIDE DEF S
  <2> QED BY <1>1, Concatenations
<1> DEFINE K == {k \in Nat : k <= n => /\ Covers(flat[k], Part(k))
                                       /\ apart => Distinctly(flat[k])}
<1>3. 0 \in K
  <2>1. Part(0) = {}
    OBVIOUS
  <2>2. Covers(<< >>, {}) /\ Distinctly(<< >>)
    BY EmptySeq DEF Covers, Distinctly, ToSet
  <2> QED BY <1>2, <2>1, <2>2
<1>4. ASSUME NEW k \in Nat, k \in K PROVE k + 1 \in K
  <2> SUFFICES ASSUME k + 1 <= n
               PROVE  /\ Covers(flat[k + 1], Part(k + 1))
                      /\ apart => Distinctly(flat[k + 1])
    OBVIOUS
  <2>1. k + 1 \in 1 .. n /\ (k + 1) - 1 = k /\ k <= n
    OBVIOUS
  <2>2. flat[k + 1] = flat[k] \o ss[k + 1]
    BY <1>2, <2>1
  <2>3. Covers(flat[k], Part(k)) /\ (apart => Distinctly(flat[k]))
    BY <1>4, <2>1
  <2>4. Part(k + 1) = Part(k) \cup T[k + 1]
    <3>1. \A i : i \in 1 .. k + 1 <=> i \in 1 .. k \/ i = k + 1
      OBVIOUS
    <3> QED BY <3>1
  <2>5. Covers(ss[k + 1], T[k + 1])
    BY <2>1
  <2>6. ASSUME apart PROVE Distinctly(ss[k + 1]) /\ Apart(Part(k), T[k + 1])
    <3>1. \A i \in 1 .. k : i \in 1 .. n /\ i # k + 1
      BY <2>1
    <3> QED BY <2>1, <2>6, <3>1 DEF Apart
  <2> HIDE DEF Part, apart
  <2>7. Covers(flat[k + 1], Part(k + 1))
    BY <2>2, <2>3, <2>4, <2>5, ConcatCovers
  <2>8. ASSUME apart PROVE Distinctly(flat[k + 1])
    <3>1. Covers(flat[k], Part(k)) /\ Distinctly(flat[k])
      BY <2>3, <2>8
    <3>2. Distinctly(ss[k + 1]) /\ Apart(Part(k), T[k + 1])
      BY <2>6, <2>8
    <3> QED BY <2>2, <2>5, <3>1, <3>2, ConcatCovers
  <2> QED BY <2>7, <2>8
<1> HIDE DEF K
<1>5. n \in K
  BY <1>3, <1>4, Induction
<1> QED BY <1>2, <1>5 DEF K

(* A list put through a function lists the function's values. *)
Injects(e, A) == \A x, y \in A : e[x] = e[y] => x = y

LEMMA MapCovers ==
  ASSUME NEW A, NEW a, Covers(a, A), NEW e
  PROVE  LET m == [j \in DOMAIN a |-> e[a[j]]]
         IN /\ Covers(m, {e[x] : x \in A})
            /\ Distinctly(a) /\ Injects(e, A) => Distinctly(m)
<1> DEFINE m == [j \in DOMAIN a |-> e[a[j]]]
           V == {e[x] : x \in A}
<1>1. Len(a) \in Nat /\ DOMAIN a = 1 .. Len(a) /\ \A j \in DOMAIN a : a[j] \in A
  BY LenProperties DEF Covers
<1>2. m \in Seq(V)
  <2>1. m \in [1 .. Len(a) -> V]
    BY <1>1
  <2> QED BY <1>1, <2>1, SeqDef
<1>3. ToSet(m) = V
  BY <1>1 DEF Covers, ToSet
<1>4. Distinctly(a) /\ Injects(e, A) => Distinctly(m)
  BY <1>1 DEF Distinctly, Injects
<1> QED BY <1>2, <1>3, <1>4 DEF Covers

(* As many things as the list is long, when none is listed twice. *)
LEMMA ListsOnce ==
  ASSUME NEW s, NEW T, Lists(s, T)
  PROVE  Once(s, T)
<1>1. Len(s) \in Nat /\ DOMAIN s = 1 .. Len(s) /\ s \in [1 .. Len(s) -> T]
  BY LenProperties DEF Lists, Covers
<1>2. s \in Bijection(1 .. Len(s), T)
  <2>1. \A t \in T : \E i \in 1 .. Len(s) : s[i] = t
    BY <1>1 DEF Lists, Covers, ToSet
  <2>2. \A i, j \in 1 .. Len(s) : s[i] = s[j] => i = j
    BY <1>1 DEF Lists, Distinctly
  <2> QED BY <1>1, <2>1, <2>2 DEF Bijection, Injection, Surjection, IsInjective
<1>3. ExistsBijection(1 .. Len(s), T)
  BY <1>2 DEF ExistsBijection
<1> QED BY <1>1, <1>3, FS_CountingElements DEF Once, Lists, Covers

-----------------------------------------------------------------------------
(* The delays of a plan. *)

LEMMA AppendLists ==
  ASSUME NEW s, NEW T, NEW x, Lists(s, T), x \notin T
  PROVE  Lists(Append(s, x), T \cup {x})
<1>1. s \in Seq(T \cup {x}) /\ x \in T \cup {x}
  BY SeqMonotonic DEF Lists, Covers
<1>2. Append(s, x) = s \o <<x>>
  BY <1>1, AppendIsConcat
<1>3. Covers(<<x>>, {x}) /\ Distinctly(<<x>>)
  BY DEF Covers, Distinctly, ToSet
<1>4. Apart(T, {x})
  BY DEF Apart
<1>5. Covers(s, T) /\ Distinctly(s)
  BY DEF Lists
<1>6. Covers(s \o <<x>>, T \cup {x}) /\ Distinctly(s \o <<x>>)
  BY <1>3, <1>4, <1>5, ConcatCovers
<1> QED BY <1>2, <1>6 DEF Lists

(* The function of a loop that runs n times, by what each turn makes. *)
Loops(h, n, first, F) ==
  h = [i \in 0 .. n |-> IF i = 0 THEN first ELSE F[i - 1][h[i - 1]]]

LEMMA Loop ==
  ASSUME NEW n \in Nat, NEW X, NEW first \in X, NEW F \in Steps(X)
  PROVE  \E h \in [0 .. n -> X] : Loops(h, n, first, F)
<1>1. PICK f \in [Nat -> X] : Recursive(f, first, F)
  BY Recursion
<1> DEFINE h == [i \in 0 .. n |-> f[i]]
<1>2. h \in [0 .. n -> X]
  OBVIOUS
<1>3. ASSUME NEW i \in 0 .. n PROVE h[i] = IF i = 0 THEN first ELSE F[i - 1][h[i - 1]]
  <2>1. CASE i = 0
    BY <1>1, <2>1 DEF Recursive
  <2>2. CASE i # 0
    <3>1. i - 1 \in Nat /\ i - 1 \in 0 .. n /\ (i - 1) + 1 = i
      BY <2>2
    <3>2. f[i] = F[i - 1][f[i - 1]]
      BY <1>1, <3>1 DEF Recursive
    <3> QED BY <2>2, <3>1, <3>2
  <2> QED BY <2>1, <2>2
<1>4. h = [i \in 0 .. n |-> IF i = 0 THEN first ELSE F[i - 1][h[i - 1]]]
  BY <1>2, <1>3
<1> QED BY <1>2, <1>4 DEF Loops

(* Distinct keeps each wanted option, and each of them once. *)
LEMMA DistinctLists ==
  ASSUME NEW D, NEW list \in Seq(D), NEW wanted
  PROVE  Lists(Distinct(list, wanted), ToSet(list) \cap wanted)
<1> DEFINE n == Len(list)
           Adds(s, i) == IF list[i] \in wanted \ ToSet(s) THEN Append(s, list[i]) ELSE s
           F == [m \in Nat |-> [s \in Seq(D) |->
                                  IF m + 1 \in 1 .. n THEN Adds(s, m + 1) ELSE s]]
           Keeps(h) == h = [i \in 0 .. n |-> IF i = 0 THEN << >> ELSE Adds(h[i - 1], i)]
           kept == CHOOSE h : Keeps(h)
<1>1. /\ n \in Nat /\ DOMAIN list = 1 .. n /\ << >> \in Seq(D)
      /\ \A i \in 1 .. n : list[i] \in D
  BY LenProperties, EmptySeq, ElementOfSeq
<1>2. F \in Steps(Seq(D))
  BY <1>1, AppendProperties DEF Steps
<1>3. \E h : Keeps(h)
  <2>1. PICK h \in [0 .. n -> Seq(D)] : Loops(h, n, << >>, F)
    <3> HIDE DEF n, F
    <3> QED BY <1>1, <1>2, Loop
  <2>2. ASSUME NEW i \in 0 .. n, i # 0 PROVE F[i - 1][h[i - 1]] = Adds(h[i - 1], i)
    <3>1. i - 1 \in Nat /\ (i - 1) + 1 = i /\ i \in 1 .. n /\ h[i - 1] \in Seq(D)
      BY <1>1, <2>2
    <3> HIDE DEF n, Adds
    <3> QED BY <3>1
  <2> HIDE DEF n, Adds, F
  <2>3. h = [i \in 0 .. n |-> IF i = 0 THEN << >> ELSE Adds(h[i - 1], i)]
    BY <2>1, <2>2 DEF Loops
  <2> QED BY <2>3
<1>4. Distinct(list, wanted) = kept[n]
  BY DEF Distinct
<1>5. Keeps(kept)
  BY <1>3
<1> HIDE DEF kept
<1>6. kept[0] = << >> /\ \A i \in 1 .. n : kept[i] = Adds(kept[i - 1], i)
  <2> HIDE DEF n, Adds
  <2> QED BY <1>1, <1>5
<1> DEFINE Seen(k) == {list[i] : i \in 1 .. k} \cap wanted
           K == {k \in Nat : k <= n => Lists(kept[k], Seen(k))}
<1>7. 0 \in K
  <2>1. Seen(0) = {}
    OBVIOUS
  <2>2. Lists(<< >>, {})
    BY EmptySeq DEF Lists, Covers, Distinctly, ToSet
  <2> QED BY <1>6, <2>1, <2>2
<1>8. ASSUME NEW k \in Nat, k \in K PROVE k + 1 \in K
  <2> SUFFICES ASSUME k + 1 <= n PROVE Lists(kept[k + 1], Seen(k + 1))
    OBVIOUS
  <2> DEFINE x == list[k + 1]
  <2>1. k + 1 \in 1 .. n /\ (k + 1) - 1 = k /\ k <= n
    BY <1>1
  <2>2. Lists(kept[k], Seen(k)) /\ ToSet(kept[k]) = Seen(k)
    BY <1>8, <2>1 DEF Lists, Covers
  <2>3. kept[k + 1] = IF x \in wanted \ ToSet(kept[k]) THEN Append(kept[k], x) ELSE kept[k]
    BY <1>6, <2>1
  <2>4. Seen(k + 1) = Seen(k) \cup ({x} \cap wanted)
    <3>1. \A i : i \in 1 .. k + 1 <=> i \in 1 .. k \/ i = k + 1
      OBVIOUS
    <3> QED BY <3>1
  <2> HIDE DEF Seen, x
  <2>5. CASE x \in wanted \ ToSet(kept[k])
    <3>1. Seen(k + 1) = Seen(k) \cup {x} /\ x \notin Seen(k)
      BY <2>2, <2>4, <2>5
    <3> QED BY <2>2, <2>3, <2>5, <3>1, AppendLists
  <2>6. CASE x \notin wanted \ ToSet(kept[k])
    <3>1. Seen(k + 1) = Seen(k)
      BY <2>2, <2>4, <2>6
    <3> QED BY <2>2, <2>3, <2>6, <3>1
  <2> QED BY <2>5, <2>6
<1> HIDE DEF K
<1>9. n \in K
  BY <1>1, <1>7, <1>8, Induction
<1>10. Seen(n) = ToSet(list) \cap wanted
  BY <1>1 DEF ToSet
<1> HIDE DEF n, Seen
<1>11. Lists(kept[n], Seen(n))
  BY <1>1, <1>9 DEF K
<1> QED BY <1>4, <1>10, <1>11, Zenon

-----------------------------------------------------------------------------
(* The grid. *)

(* Every combination so far with every delay. *)
Extended(a, delays) ==
  FlatMap(Len(a), LAMBDA i : [j \in DOMAIN delays |-> Append(a[i], delays[j])])

Grid(dims, D) == [1 .. dims -> D]

LEMMA Combination ==
  ASSUME NEW D, NEW k \in Nat, NEW c \in Grid(k, D)
  PROVE  c \in Seq(D) /\ Len(c) = k
<1> USE DEF Grid
<1>1. c \in Seq(D)
  BY SeqDef
<1>2. Len(c) \in Nat /\ 1 .. Len(c) = 1 .. k
  BY <1>1, LenProperties
<1> QED BY <1>1, <1>2

Extends(s, c, x, k, D) ==
  s \in Grid(k + 1, D) /\ s[k + 1] = x /\ \A d \in 1 .. k : s[d] = c[d]

LEMMA OneMore ==
  ASSUME NEW D, NEW k \in Nat, NEW c \in Grid(k, D), NEW x \in D
  PROVE  Extends(Append(c, x), c, x, k, D)
<1>1. c \in Seq(D) /\ Len(c) = k
  BY Combination
<1>2. /\ Append(c, x) \in Seq(D) /\ Len(Append(c, x)) = k + 1
      /\ Append(c, x)[k + 1] = x /\ \A d \in 1 .. k : Append(c, x)[d] = c[d]
  BY <1>1, AppendProperties
<1> QED BY <1>2, LenProperties DEF Grid, Extends

LEMMA ExtendedCovers ==
  ASSUME NEW D, NEW k \in Nat, NEW a, Covers(a, Grid(k, D)),
         NEW delays, Covers(delays, D)
  PROVE  /\ Covers(Extended(a, delays), Grid(k + 1, D))
         /\ Distinctly(a) /\ Distinctly(delays) => Distinctly(Extended(a, delays))
<1> DEFINE n == Len(a)
           T == [i \in 1 .. n |-> {Append(a[i], x) : x \in D}]
           ss == [i \in 1 .. n |-> [j \in DOMAIN delays |-> Append(a[i], delays[j])]]
<1>1. n \in Nat /\ DOMAIN a = 1 .. n /\ \A i \in 1 .. n : a[i] \in Grid(k, D)
  BY LenProperties, ElementOfSeq DEF Covers
<1>2. \A i \in 1 .. n, x \in D :
        /\ Append(a[i], x) \in Grid(k + 1, D)
        /\ Append(a[i], x)[k + 1] = x /\ \A d \in 1 .. k : Append(a[i], x)[d] = a[i][d]
  <2> TAKE i \in 1 .. n, x \in D
  <2>1. a[i] \in Grid(k, D)
    BY <1>1
  <2>2. Extends(Append(a[i], x), a[i], x, k, D)
    BY <2>1, OneMore
  <2> QED BY <2>2 DEF Extends
<1>3. ASSUME NEW i \in 1 .. n
      PROVE  Covers(ss[i], T[i]) /\ (Distinctly(delays) => Distinctly(ss[i]))
  <2> DEFINE e == [x \in D |-> Append(a[i], x)]
             m == [j \in DOMAIN delays |-> e[delays[j]]]
             V == {e[x] : x \in D}
  <2>1. Injects(e, D)
    BY <1>2 DEF Injects
  <2>2. Covers(m, V) /\ (Distinctly(delays) => Distinctly(m))
    <3> HIDE DEF e
    <3> QED BY <2>1, MapCovers
  <2>3. \A j \in DOMAIN delays : delays[j] \in D
    BY LenProperties, ElementOfSeq DEF Covers
  <2>4. m = ss[i]
    BY <2>3
  <2>5. V = T[i]
    OBVIOUS
  <2> HIDE DEF m, V, ss, T
  <2> QED BY <2>2, <2>4, <2>5, Zenon
<1>4. ASSUME Distinctly(a), NEW i \in 1 .. n, NEW j \in 1 .. n, i # j
      PROVE  Apart(T[i], T[j])
  <2> SUFFICES ASSUME NEW x \in D, NEW y \in D, Append(a[i], x) = Append(a[j], y)
               PROVE  FALSE
    BY DEF Apart
  <2>1. \A d \in 1 .. k : a[i][d] = a[j][d]
    <3> TAKE d \in 1 .. k
    <3>1. Append(a[i], x)[d] = a[i][d] /\ Append(a[j], y)[d] = a[j][d]
      BY <1>2
    <3> QED BY <3>1
  <2>2. a[i] = a[j]
    BY <1>1, <2>1 DEF Grid
  <2> QED BY <1>1, <1>4, <2>2 DEF Distinctly
<1>5. UNION {T[i] : i \in 1 .. n} = Grid(k + 1, D)
  <2>1. ASSUME NEW s \in Grid(k + 1, D) PROVE s \in UNION {T[i] : i \in 1 .. n}
    <3> DEFINE c == [d \in 1 .. k |-> s[d]]
    <3>1. c \in Grid(k, D) /\ s[k + 1] \in D
      BY DEF Grid
    <3>2. PICK i \in 1 .. n : a[i] = c
      BY <1>1, <3>1 DEF Covers, ToSet
    <3>3. Append(a[i], s[k + 1]) = s
      BY <1>2, <3>1, <3>2 DEF Grid
    <3>4. s \in T[i]
      BY <3>1, <3>3
    <3> QED BY <3>4
  <2>2. ASSUME NEW i \in 1 .. n, NEW s \in T[i] PROVE s \in Grid(k + 1, D)
    <3>1. PICK x \in D : s = Append(a[i], x)
      OBVIOUS
    <3> QED BY <1>2, <3>1
  <2> QED BY <2>1, <2>2
<1>6. Extended(a, delays) = FlattenSeq(ss)
  BY DEF Extended, FlatMap
<1>7. ss = [i \in 1 .. n |-> ss[i]]
  OBVIOUS
<1> DEFINE grid == UNION {T[i] : i \in 1 .. n}
<1>8. Covers(FlattenSeq(ss), grid)
  <2> HIDE DEF ss, T, n
  <2> QED BY <1>1, <1>3, <1>7, FlattenCovers
<1>9. ASSUME Distinctly(a), Distinctly(delays) PROVE Distinctly(FlattenSeq(ss))
  <2>1. \A i \in 1 .. n : Covers(ss[i], T[i]) /\ Distinctly(ss[i])
    BY <1>3, <1>9
  <2>2. \A i, j \in 1 .. n : i # j => Apart(T[i], T[j])
    BY <1>4, <1>9
  <2> HIDE DEF ss, T, n
  <2> QED BY <1>1, <1>7, <2>1, <2>2, FlattenCovers
<1>10. grid = Grid(k + 1, D)
  BY <1>5
<1> HIDE DEF grid
<1>11. Covers(FlattenSeq(ss), Grid(k + 1, D))
  BY <1>8, <1>10, Zenon
<1> QED BY <1>6, <1>9, <1>11

LEMMA ExtendedType ==
  ASSUME NEW D, NEW delays \in Seq(D), NEW a \in Seq(Seq(D))
  PROVE  Extended(a, delays) \in Seq(Seq(D))
<1> DEFINE ss == [i \in 1 .. Len(a) |-> [j \in DOMAIN delays |-> Append(a[i], delays[j])]]
<1>1. Len(a) \in Nat /\ Len(delays) \in Nat /\ DOMAIN delays = 1 .. Len(delays)
  BY LenProperties
<1>2. ASSUME NEW i \in 1 .. Len(a) PROVE ss[i] \in Seq(Seq(D))
  <2>1. ASSUME NEW j \in DOMAIN delays PROVE Append(a[i], delays[j]) \in Seq(D)
    <3>1. a[i] \in Seq(D) /\ delays[j] \in D
      BY <1>1, ElementOfSeq
    <3> QED BY <3>1, AppendProperties
  <2>2. ss[i] \in [1 .. Len(delays) -> Seq(D)]
    BY <1>1, <2>1
  <2> QED BY <1>1, <2>2, SeqDef
<1>3. ss \in Seq(Seq(Seq(D)))
  <2>1. ss \in [1 .. Len(a) -> Seq(Seq(D))]
    BY <1>2
  <2> QED BY <1>1, <2>1, SeqDef
<1>4. Len(ss) \in Nat
  BY <1>3, LenProperties
<1>5. FlattenSeq(ss) \in Seq(Seq(D))
  <2> HIDE DEF ss
  <2>1. PICK flat \in [Nat -> Seq(Seq(D))] : FlattenSeq(ss) = flat[Len(ss)]
    BY <1>3, Concatenations
  <2> QED BY <1>4, <2>1
<1> QED BY <1>5 DEF Extended, FlatMap

LEMMA CombinationsCover ==
  ASSUME NEW D, NEW delays, Covers(delays, D), NEW dims \in Nat
  PROVE  /\ Covers(Combinations(dims, delays), Grid(dims, D))
         /\ Distinctly(delays) => Distinctly(Combinations(dims, delays))
<1> DEFINE F == [m \in Nat |-> [a \in Seq(Seq(D)) |-> Extended(a, delays)]]
           Combines(h) == h = [k \in 0 .. dims |-> IF k = 0 THEN << << >> >>
                                                   ELSE Extended(h[k - 1], delays)]
           combinations == CHOOSE h : Combines(h)
<1>1. delays \in Seq(D) /\ << << >> >> \in Seq(Seq(D))
  BY EmptySeq DEF Covers
<1>2. F \in Steps(Seq(Seq(D)))
  BY <1>1, ExtendedType DEF Steps
<1>3. \E h : Combines(h)
  <2>1. PICK h \in [0 .. dims -> Seq(Seq(D))] : Loops(h, dims, << << >> >>, F)
    <3> HIDE DEF F
    <3> QED BY <1>1, <1>2, Loop
  <2>2. ASSUME NEW k \in 0 .. dims, k # 0
        PROVE  F[k - 1][h[k - 1]] = Extended(h[k - 1], delays)
    <3>1. k - 1 \in Nat /\ h[k - 1] \in Seq(Seq(D))
      BY <2>2
    <3> QED BY <3>1
  <2> HIDE DEF F
  <2>3. h = [k \in 0 .. dims |-> IF k = 0 THEN << << >> >> ELSE Extended(h[k - 1], delays)]
    BY <2>1, <2>2 DEF Loops
  <2> QED BY <2>3
<1>4. Combinations(dims, delays) = combinations[dims]
  BY DEF Combinations, Extended
<1>5. Combines(combinations)
  BY <1>3
<1> HIDE DEF combinations
<1>6. /\ combinations[0] = << << >> >>
      /\ \A k \in Nat : k + 1 <= dims =>
           combinations[k + 1] = Extended(combinations[k], delays)
  <2>1. ASSUME NEW k \in Nat, k + 1 <= dims
        PROVE  combinations[k + 1] = Extended(combinations[k], delays)
    <3>1. k + 1 \in 0 .. dims /\ k + 1 # 0 /\ (k + 1) - 1 = k
      BY <2>1
    <3> QED BY <1>5, <3>1
  <2>2. 0 \in 0 .. dims
    OBVIOUS
  <2> QED BY <1>5, <2>1, <2>2
<1> DEFINE K == {k \in Nat : k <= dims =>
                   /\ Covers(combinations[k], Grid(k, D))
                   /\ Distinctly(delays) => Distinctly(combinations[k])}
<1>7. 0 \in K
  <2>1. /\ << << >> >> \in Seq({<< >>}) /\ ToSet(<< << >> >>) = {<< >>}
        /\ Distinctly(<< << >> >>)
    BY DEF ToSet, Distinctly
  <2>2. Grid(0, D) = {<< >>}
    <3>1. ASSUME NEW c \in Grid(0, D) PROVE c = << >>
      <4>1. c \in Seq(D) /\ Len(c) = 0
        BY Combination
      <4> QED BY <4>1, EmptySeq
    <3>2. << >> \in Grid(0, D)
      <4>1. << >> \in Seq(D) /\ Len(<< >>) = 0
        BY EmptySeq
      <4> QED BY <4>1, LenProperties DEF Grid
    <3> QED BY <3>1, <3>2
  <2> QED BY <1>6, <2>1, <2>2 DEF Covers
<1>8. ASSUME NEW k \in Nat, k \in K PROVE k + 1 \in K
  <2> SUFFICES ASSUME k + 1 <= dims
               PROVE  /\ Covers(combinations[k + 1], Grid(k + 1, D))
                      /\ Distinctly(delays) => Distinctly(combinations[k + 1])
    OBVIOUS
  <2>1. /\ Covers(combinations[k], Grid(k, D))
        /\ Distinctly(delays) => Distinctly(combinations[k])
    BY <1>8
  <2>2. combinations[k + 1] = Extended(combinations[k], delays)
    BY <1>6
  <2> QED BY <2>1, <2>2, ExtendedCovers
<1> HIDE DEF K
<1>9. dims \in K
  BY <1>7, <1>8, Induction
<1> QED BY <1>4, <1>9 DEF K

LEMMA ProductCovers ==
  ASSUME NEW D, NEW delays, Covers(delays, D), NEW dims \in Nat
  PROVE  /\ Covers(Product(dims, delays), Grid(dims, D))
         /\ Distinctly(delays) => Distinctly(Product(dims, delays))
<1> DEFINE values == Combinations(dims, delays)
<1>1. Covers(values, Grid(dims, D))
  BY CombinationsCover
<1>2. /\ values = [i \in DOMAIN values |-> values[i]]
      /\ \A i \in DOMAIN values : values[i] \in Grid(dims, D)
  <2> HIDE DEF values
  <2>1. DOMAIN values = 1 .. Len(values) /\ values = [i \in 1 .. Len(values) |-> values[i]]
    BY <1>1, LenProperties DEF Covers
  <2> QED BY <1>1, <2>1, ElementOfSeq DEF Covers
<1>3. \A i \in DOMAIN values : [d \in 1 .. dims |-> values[i][d]] = values[i]
  <2> HIDE DEF values
  <2> QED BY <1>2 DEF Grid
<1>4. Product(dims, delays) = values
  <2>1. Product(dims, delays) = [i \in DOMAIN values |-> [d \in 1 .. dims |-> values[i][d]]]
    BY DEF Product
  <2> HIDE DEF values
  <2> QED BY <1>2, <1>3, <2>1
<1>5. Distinctly(delays) => Distinctly(values)
  BY CombinationsCover
<1> HIDE DEF values
<1> QED BY <1>1, <1>4, <1>5

-----------------------------------------------------------------------------
(* The stages before the grid. *)

IsPair(A) == \E l, r \in A : l < r /\ A = {l, r}

LEMMA FewOfMany ==
  ASSUME NEW dims \in Nat, NEW A \in SUBSET (1 .. dims)
  PROVE  /\ Cardinality(A) \in {0, 1} <=> A = {} \/ \E d \in A : A = {d}
         /\ Cardinality(A) = 2 <=> IsPair(A)
<1>1. IsFiniteSet(A)
  <2>1. IsFiniteSet(1 .. dims)
    BY FS_Interval
  <2> QED BY <2>1, FS_Subset
<1>2. Cardinality(A) \in {0, 1} <=> A = {} \/ \E d \in A : A = {d}
  BY <1>1, FS_EmptySet, FS_Singleton
<1>3. ASSUME Cardinality(A) = 2 PROVE IsPair(A)
  <2>1. PICK x \in A : TRUE
    <3>1. A # {}
      BY <1>3, FS_EmptySet
    <3> QED BY <3>1
  <2>2. IsFiniteSet(A \ {x}) /\ Cardinality(A \ {x}) = 1
    BY <1>1, <1>3, <2>1, FS_RemoveElement
  <2>3. PICK y : A \ {x} = {y}
    BY <2>2, FS_Singleton
  <2>4. y \in A /\ y # x /\ A = {x, y} /\ A = {y, x}
    BY <2>1, <2>3
  <2>5. x < y \/ y < x
    BY <2>1, <2>4
  <2> QED BY <2>1, <2>4, <2>5 DEF IsPair
<1>4. ASSUME NEW l \in A, NEW r \in A, l < r, A = {l, r} PROVE Cardinality(A) = 2
  <2>1. IsFiniteSet({l}) /\ Cardinality({l}) = 1
    BY FS_Singleton
  <2>2. r \notin {l}
    BY <1>4
  <2>3. Cardinality({l} \cup {r}) = 2
    BY <2>1, <2>2, FS_AddElement
  <2>4. A = {l} \cup {r}
    BY <1>4
  <2> QED BY <2>3, <2>4, Zenon
<1>5. Cardinality(A) = 2 <=> IsPair(A)
  BY <1>3, <1>4 DEF IsPair
<1> QED BY <1>2, <1>5

Delayed(dims, s) == {d \in 1 .. dims : s[d] > 0}
Positive(list) == ToSet(list) \cap (Nat \ {0})

Alone(dims, d, x) == [Empty(dims) EXCEPT ![d] = x]
Both(dims, l, x, r, y) == [Empty(dims) EXCEPT ![l] = x, ![r] = y]

LEMMA IsolatedLists ==
  ASSUME NEW dims \in Nat, NEW list \in Seq(Nat)
  PROVE  Lists(Isolated(dims, list),
               {Empty(dims)} \cup UNION {{Alone(dims, d, x) : x \in Positive(list)} :
                                           d \in 1 .. dims})
<1> DEFINE P == Positive(list)
           delays == PositiveDelays(list)
           T == [d \in 1 .. dims |-> {Alone(dims, d, x) : x \in P}]
           ss == [d \in 1 .. dims |-> [i \in DOMAIN delays |-> Alone(dims, d, delays[i])]]
<1>1. Covers(delays, P) /\ Distinctly(delays) /\ P \subseteq Nat \ {0}
  BY DistinctLists DEF PositiveDelays, Positive, Lists
<1>2. \A d, e \in 1 .. dims, x \in P : Alone(dims, d, x)[e] = IF e = d THEN x ELSE 0
  BY DEF Alone, Empty
<1>3. ASSUME NEW d \in 1 .. dims PROVE Covers(ss[d], T[d]) /\ Distinctly(ss[d])
  <2> DEFINE e == [x \in P |-> Alone(dims, d, x)]
             m == [i \in DOMAIN delays |-> e[delays[i]]]
             V == {e[x] : x \in P}
  <2>1. Injects(e, P)
    BY <1>2 DEF Injects
  <2>2. Covers(m, V) /\ Distinctly(m)
    <3>1. Covers(delays, P) /\ Distinctly(delays)
      BY <1>1
    <3> HIDE DEF e, P, delays
    <3>2. Covers(m, V)
      BY <3>1, MapCovers
    <3>3. Distinctly(m)
      BY <2>1, <3>1, MapCovers
    <3> QED BY <3>2, <3>3
  <2>3. \A i \in DOMAIN delays : delays[i] \in P
    <3> HIDE DEF P, delays
    <3> QED BY <1>1, LenProperties, ElementOfSeq DEF Covers
  <2>4. m = ss[d] /\ V = T[d]
    <3> HIDE DEF P, delays
    <3> QED BY <2>3
  <2> HIDE DEF m, V, ss, T
  <2> QED BY <2>2, <2>4
<1>4. \A d, e \in 1 .. dims : d # e => Apart(T[d], T[e])
  <2> SUFFICES ASSUME NEW d \in 1 .. dims, NEW e \in 1 .. dims, d # e,
                      NEW x \in P, NEW y \in P, Alone(dims, d, x) = Alone(dims, e, y)
               PROVE  FALSE
    BY DEF Apart
  <2>1. Alone(dims, d, x)[d] = x /\ Alone(dims, e, y)[d] = 0
    BY <1>2
  <2> QED BY <1>1, <2>1
<1> DEFINE rest == UNION {T[d] : d \in 1 .. dims}
<1>5. Covers(FlattenSeq(ss), rest) /\ Distinctly(FlattenSeq(ss))
  <2>1. ss = [d \in 1 .. dims |-> ss[d]]
    OBVIOUS
  <2> HIDE DEF ss, T
  <2> QED BY <1>3, <1>4, <2>1, FlattenCovers
<1>6. Covers(<<Empty(dims)>>, {Empty(dims)}) /\ Distinctly(<<Empty(dims)>>)
  BY DEF Covers, Distinctly, ToSet
<1>7. Apart({Empty(dims)}, rest)
  <2> SUFFICES ASSUME NEW d \in 1 .. dims, NEW x \in P, Empty(dims) = Alone(dims, d, x)
               PROVE  FALSE
    BY DEF Apart
  <2>1. Empty(dims)[d] = 0 /\ Alone(dims, d, x)[d] = x
    BY <1>2 DEF Empty
  <2> QED BY <1>1, <2>1
<1>8. Isolated(dims, list) = <<Empty(dims)>> \o FlattenSeq(ss)
  BY DEF Isolated, FlatMap, Alone
<1>9. rest = UNION {{Alone(dims, d, x) : x \in Positive(list)} : d \in 1 .. dims}
  <2> HIDE DEF P
  <2>1. rest = UNION {{Alone(dims, d, x) : x \in P} : d \in 1 .. dims}
    OBVIOUS
  <2> QED BY <2>1 DEF P
<1>10. Lists(<<Empty(dims)>> \o FlattenSeq(ss), {Empty(dims)} \cup rest)
  <2> HIDE DEF rest, ss
  <2> QED BY <1>5, <1>6, <1>7, ConcatCovers DEF Lists
<1> HIDE DEF rest
<1> QED BY <1>8, <1>9, <1>10, Zenon

OfPair(dims, delays, l, r) ==
  FlatMap(Len(delays), LAMBDA i : [j \in DOMAIN delays |->
                                     Both(dims, l, delays[i], r, delays[j])])

Pairs(dims, P, l, r) == UNION {{Both(dims, l, x, r, y) : y \in P} : x \in P}

LEMMA BothValues ==
  ASSUME NEW dims \in Nat, NEW l \in 1 .. dims, NEW r \in 1 .. dims, l < r, NEW x, NEW y
  PROVE  \A d \in 1 .. dims :
           Both(dims, l, x, r, y)[d] = IF d = r THEN y ELSE IF d = l THEN x ELSE 0
BY DEF Both, Empty

(* Two dimensions, each with every delay. *)
LEMMA PairLists ==
  ASSUME NEW dims \in Nat, NEW l \in 1 .. dims, NEW r \in 1 .. dims, l < r,
         NEW P, NEW delays, Lists(delays, P)
  PROVE  Lists(OfPair(dims, delays, l, r), Pairs(dims, P, l, r))
<1> DEFINE n == Len(delays)
           T == [i \in 1 .. n |-> {Both(dims, l, delays[i], r, y) : y \in P}]
           ss == [i \in 1 .. n |-> [j \in DOMAIN delays |->
                                      Both(dims, l, delays[i], r, delays[j])]]
<1>1. /\ Covers(delays, P) /\ Distinctly(delays)
      /\ n \in Nat /\ DOMAIN delays = 1 .. n /\ \A i \in 1 .. n : delays[i] \in P
  BY LenProperties, ElementOfSeq DEF Lists, Covers
<1>2. \A x, y : Both(dims, l, x, r, y)[l] = x /\ Both(dims, l, x, r, y)[r] = y
  BY BothValues
<1>3. ASSUME NEW i \in 1 .. n PROVE Covers(ss[i], T[i]) /\ Distinctly(ss[i])
  <2> DEFINE e == [y \in P |-> Both(dims, l, delays[i], r, y)]
             m == [j \in DOMAIN delays |-> e[delays[j]]]
             V == {e[y] : y \in P}
  <2>1. Injects(e, P)
    BY <1>2 DEF Injects
  <2>2. Covers(m, V) /\ Distinctly(m)
    <3> HIDE DEF e
    <3>1. Covers(m, V)
      BY <1>1, MapCovers
    <3>2. Distinctly(m)
      BY <1>1, <2>1, MapCovers
    <3> QED BY <3>1, <3>2
  <2>3. m = ss[i] /\ V = T[i]
    BY <1>1
  <2> HIDE DEF m, V, ss, T
  <2> QED BY <2>2, <2>3
<1>4. \A i, j \in 1 .. n : i # j => Apart(T[i], T[j])
  <2> SUFFICES ASSUME NEW i \in 1 .. n, NEW j \in 1 .. n, i # j, NEW x, NEW y,
                      Both(dims, l, delays[i], r, x) = Both(dims, l, delays[j], r, y)
               PROVE  FALSE
    BY DEF Apart
  <2>1. delays[i] = delays[j]
    BY <1>2
  <2> QED BY <1>1, <2>1 DEF Distinctly
<1> DEFINE all == UNION {T[i] : i \in 1 .. n}
<1>5. Covers(FlattenSeq(ss), all) /\ Distinctly(FlattenSeq(ss))
  <2>1. ss = [i \in 1 .. n |-> ss[i]]
    OBVIOUS
  <2> HIDE DEF ss, T, n
  <2> QED BY <1>1, <1>3, <1>4, <2>1, FlattenCovers
<1>6. all = Pairs(dims, P, l, r)
  <2>1. ASSUME NEW x \in P, NEW y \in P PROVE Both(dims, l, x, r, y) \in all
    <3>1. PICK i \in 1 .. n : delays[i] = x
      BY <1>1 DEF Covers, ToSet
    <3>2. Both(dims, l, x, r, y) \in T[i]
      BY <3>1
    <3> QED BY <3>2
  <2>2. ASSUME NEW i \in 1 .. n, NEW s \in T[i] PROVE s \in Pairs(dims, P, l, r)
    <3>1. PICK y \in P : s = Both(dims, l, delays[i], r, y)
      OBVIOUS
    <3> QED BY <1>1, <3>1 DEF Pairs
  <2> HIDE DEF T
  <2>3. Pairs(dims, P, l, r) \subseteq all
    BY <2>1 DEF Pairs
  <2> QED BY <2>2, <2>3
<1>7. OfPair(dims, delays, l, r) = FlattenSeq(ss)
  BY DEF OfPair, FlatMap
<1> HIDE DEF all, ss
<1> QED BY <1>5, <1>6, <1>7 DEF Lists

(* A schedule of a pair delays these two dimensions. *)
DelaysBoth(dims, s, l, r) == \A d \in 1 .. dims : s[d] > 0 <=> d \in {l, r}

LEMMA PairDelays ==
  ASSUME NEW dims \in Nat, NEW l \in 1 .. dims, NEW r \in 1 .. dims, l < r,
         NEW P, P \subseteq Nat \ {0}, NEW s \in Pairs(dims, P, l, r)
  PROVE  DelaysBoth(dims, s, l, r)
<1>1. PICK x \in P, y \in P : s = Both(dims, l, x, r, y)
  BY DEF Pairs
<1>2. \A d \in 1 .. dims : s[d] = IF d = r THEN y ELSE IF d = l THEN x ELSE 0
  BY <1>1, BothValues
<1>3. x \in Nat \ {0} /\ y \in Nat \ {0}
  OBVIOUS
<1> QED BY <1>2, <1>3 DEF DelaysBoth

LEMMA ApartPairs ==
  ASSUME NEW dims \in Nat, NEW P, P \subseteq Nat \ {0},
         NEW l \in 1 .. dims, NEW r \in 1 .. dims, l < r,
         NEW a \in 1 .. dims, NEW b \in 1 .. dims, a < b, l # a \/ r # b
  PROVE  Apart(Pairs(dims, P, l, r), Pairs(dims, P, a, b))
<1> SUFFICES ASSUME NEW s, s \in Pairs(dims, P, l, r), s \in Pairs(dims, P, a, b)
             PROVE  FALSE
  BY DEF Apart
<1>1. DelaysBoth(dims, s, l, r)
  BY PairDelays
<1>2. DelaysBoth(dims, s, a, b)
  BY PairDelays
<1>3. l \in {a, b} /\ r \in {a, b}
  BY <1>1, <1>2 DEF DelaysBoth
<1> QED BY <1>3

LEMMA PairwiseLists ==
  ASSUME NEW dims \in Nat, NEW list \in Seq(Nat)
  PROVE  Lists(Pairwise(dims, list),
               UNION {UNION {Pairs(dims, Positive(list), l, l + k) : k \in 1 .. dims - l} :
                        l \in 1 .. dims})
<1> DEFINE P == Positive(list)
           delays == PositiveDelays(list)
           T(l) == [k \in 1 .. dims - l |-> Pairs(dims, P, l, l + k)]
           ss(l) == [k \in 1 .. dims - l |-> OfPair(dims, delays, l, l + k)]
           TT == [l \in 1 .. dims |-> UNION {T(l)[k] : k \in 1 .. dims - l}]
           sss == [l \in 1 .. dims |-> FlattenSeq(ss(l))]
<1>1. Lists(delays, P) /\ P \subseteq Nat \ {0}
  BY DistinctLists DEF PositiveDelays, Positive
<1> HIDE DEF P, delays
<1>2. \A l \in 1 .. dims : \A k \in 1 .. dims - l :
        l + k \in 1 .. dims /\ l < l + k /\ dims - l \in Nat
  OBVIOUS
<1>3. ASSUME NEW l \in 1 .. dims
      PROVE  Covers(sss[l], TT[l]) /\ Distinctly(sss[l])
  <2>1. dims - l \in Nat
    OBVIOUS
  <2>2. ASSUME NEW k \in 1 .. dims - l
        PROVE  Covers(ss(l)[k], T(l)[k]) /\ Distinctly(ss(l)[k])
    <3>1. Lists(OfPair(dims, delays, l, l + k), Pairs(dims, P, l, l + k))
      BY <1>1, <1>2, PairLists
    <3> QED BY <3>1 DEF Lists
  <2>3. ASSUME NEW j \in 1 .. dims - l, NEW k \in 1 .. dims - l, j # k
        PROVE  Apart(T(l)[j], T(l)[k])
    <3>1. l + j \in 1 .. dims /\ l < l + j /\ l + k \in 1 .. dims /\ l < l + k
      BY <1>2
    <3>2. l + j # l + k
      BY <2>3
    <3>3. Apart(Pairs(dims, P, l, l + j), Pairs(dims, P, l, l + k))
      BY <1>1, <3>1, <3>2, ApartPairs
    <3> QED BY <3>3
  <2>4. ss(l) = [k \in 1 .. dims - l |-> ss(l)[k]]
    OBVIOUS
  <2> DEFINE all == UNION {T(l)[k] : k \in 1 .. dims - l}
             apart == \A j, k \in 1 .. dims - l : j # k => Apart(T(l)[j], T(l)[k])
  <2>5. Covers(FlattenSeq(ss(l)), all) /\ Distinctly(FlattenSeq(ss(l)))
    <3>1. apart
      BY <2>3
    <3> HIDE DEF ss, T
    <3> QED BY <2>1, <2>2, <2>4, <3>1, FlattenCovers
  <2>6. sss[l] = FlattenSeq(ss(l)) /\ TT[l] = all
    <3> HIDE DEF ss, T
    <3> QED OBVIOUS
  <2> HIDE DEF sss, TT, all, ss
  <2> QED BY <2>5, <2>6
<1>4. ASSUME NEW l \in 1 .. dims, NEW r \in 1 .. dims, l # r PROVE Apart(TT[l], TT[r])
  <2>1. ASSUME NEW j \in 1 .. dims - l, NEW k \in 1 .. dims - r
        PROVE  Apart(T(l)[j], T(r)[k])
    <3>1. l + j \in 1 .. dims /\ l < l + j /\ r + k \in 1 .. dims /\ r < r + k
      BY <1>2
    <3>2. Apart(Pairs(dims, P, l, l + j), Pairs(dims, P, r, r + k))
      BY <1>1, <1>4, <3>1, ApartPairs
    <3> QED BY <3>2
  <2>2. TT[l] = UNION {T(l)[k] : k \in 1 .. dims - l}
    <3> HIDE DEF T
    <3> QED OBVIOUS
  <2>3. TT[r] = UNION {T(r)[k] : k \in 1 .. dims - r}
    <3> HIDE DEF T
    <3> QED OBVIOUS
  <2> HIDE DEF T, TT
  <2> SUFFICES ASSUME NEW s \in TT[l], s \in TT[r] PROVE FALSE
    BY DEF Apart
  <2>4. PICK j \in 1 .. dims - l : s \in T(l)[j]
    BY <2>2
  <2>5. PICK k \in 1 .. dims - r : s \in T(r)[k]
    BY <2>3
  <2> QED BY <2>1, <2>4, <2>5 DEF Apart
<1> DEFINE whole == UNION {TT[l] : l \in 1 .. dims}
<1>5. Covers(FlattenSeq(sss), whole) /\ Distinctly(FlattenSeq(sss))
  <2>1. sss = [l \in 1 .. dims |-> sss[l]]
    OBVIOUS
  <2> HIDE DEF sss, TT
  <2> QED BY <1>3, <1>4, <2>1, FlattenCovers
<1>6. whole = UNION {UNION {Pairs(dims, P, l, l + k) : k \in 1 .. dims - l} :
                       l \in 1 .. dims}
  OBVIOUS
<1>7. Pairwise(dims, list) = FlattenSeq(sss)
  BY DEF Pairwise, FlatMap, OfPair, Both, delays
<1> HIDE DEF whole, sss
<1>8. Lists(FlattenSeq(sss), whole)
  BY <1>5 DEF Lists
<1> QED BY <1>6, <1>7, <1>8, Zenon DEF P

(* What a plan is for, by how many dimensions a schedule delays. *)
Delaying(dims, given, counts) ==
  {s \in [1 .. dims -> given \cup {0}] : Cardinality(Delayed(dims, s)) \in counts}

LEMMA AtMostOne ==
  ASSUME NEW dims \in Nat, NEW list \in Seq(Nat)
  PROVE  Delaying(dims, ToSet(list), {0, 1}) =
           {Empty(dims)} \cup UNION {{Alone(dims, d, x) : x \in Positive(list)} :
                                       d \in 1 .. dims}
<1> DEFINE given == ToSet(list)
           P == Positive(list)
           all == {Empty(dims)} \cup UNION {{Alone(dims, d, x) : x \in P} : d \in 1 .. dims}
<1>1. \A n \in given \cup {0} : n \in Nat /\ (n > 0 <=> n \in P) /\ (n = 0 \/ n > 0)
  <2>1. DOMAIN list = 1 .. Len(list) /\ \A i \in 1 .. Len(list) : list[i] \in Nat
    BY LenProperties, ElementOfSeq
  <2> QED BY <2>1 DEF ToSet, Positive
<1>2. P \subseteq given /\ P \subseteq Nat \ {0}
  BY <1>1 DEF Positive
<1> HIDE DEF given, P
<1>3. ASSUME NEW s \in [1 .. dims -> given \cup {0}]
      PROVE  /\ Delayed(dims, s) \in SUBSET (1 .. dims)
             /\ \A d \in 1 .. dims : IF d \in Delayed(dims, s) THEN s[d] \in P ELSE s[d] = 0
  <2>1. ASSUME NEW d \in 1 .. dims
        PROVE  IF d \in Delayed(dims, s) THEN s[d] \in P ELSE s[d] = 0
    <3>1. d \in Delayed(dims, s) <=> s[d] > 0
      BY DEF Delayed
    <3>2. s[d] \in given \cup {0}
      OBVIOUS
    <3>3. s[d] > 0 => s[d] \in P
      BY <1>1, <3>2
    <3>4. ~(s[d] > 0) => s[d] = 0
      BY <1>1, <3>2
    <3> QED BY <3>1, <3>3, <3>4
  <2>2. Delayed(dims, s) \in SUBSET (1 .. dims)
    BY DEF Delayed
  <2> QED BY <2>1, <2>2
<1>4. ASSUME NEW s \in Delaying(dims, given, {0, 1}) PROVE s \in all
  <2>1. s \in [1 .. dims -> given \cup {0}] /\ Cardinality(Delayed(dims, s)) \in {0, 1}
    BY <1>4 DEF Delaying
  <2>2. CASE Delayed(dims, s) = {}
    <3>1. s = Empty(dims)
      BY <1>3, <2>1, <2>2 DEF Empty
    <3> QED BY <3>1
  <2>3. CASE \E d \in Delayed(dims, s) : Delayed(dims, s) = {d}
    <3>1. PICK d \in 1 .. dims : Delayed(dims, s) = {d}
      BY <1>3, <2>1, <2>3
    <3>2. s[d] \in P /\ \A e \in 1 .. dims : e # d => s[e] = 0
      BY <1>3, <2>1, <3>1
    <3>3. s = Alone(dims, d, s[d])
      BY <2>1, <3>2 DEF Alone, Empty
    <3> QED BY <3>2, <3>3
  <2>4. Delayed(dims, s) = {} \/ \E d \in Delayed(dims, s) : Delayed(dims, s) = {d}
    BY <1>3, <2>1, FewOfMany
  <2> QED BY <2>2, <2>3, <2>4
<1>5. Empty(dims) \in Delaying(dims, given, {0, 1})
  <2>1. Empty(dims) \in [1 .. dims -> given \cup {0}] /\ Delayed(dims, Empty(dims)) = {}
    BY DEF Empty, Delayed
  <2>2. Cardinality(Delayed(dims, Empty(dims))) \in {0, 1}
    BY <2>1, FS_EmptySet
  <2> QED BY <2>1, <2>2 DEF Delaying
<1>6. ASSUME NEW d \in 1 .. dims, NEW x \in P
      PROVE  Alone(dims, d, x) \in Delaying(dims, given, {0, 1})
  <2> DEFINE s == Alone(dims, d, x)
  <2>1. /\ s \in [1 .. dims -> given \cup {0}]
        /\ \A e \in 1 .. dims : s[e] = IF e = d THEN x ELSE 0
    BY <1>2 DEF Alone, Empty
  <2>2. x > 0
    BY <1>2
  <2>3. Delayed(dims, s) = {d}
    <3> HIDE DEF s
    <3> QED BY <2>1, <2>2 DEF Delayed
  <2>4. Cardinality(Delayed(dims, s)) = 1
    BY <2>3, FS_Singleton
  <2> HIDE DEF s
  <2>5. s \in Delaying(dims, given, {0, 1})
    BY <2>1, <2>4 DEF Delaying
  <2> QED BY <2>5 DEF s
<1>7. Delaying(dims, given, {0, 1}) = all
  BY <1>4, <1>5, <1>6
<1> QED BY <1>7 DEF given, P

LEMMA ExactlyTwo ==
  ASSUME NEW dims \in Nat, NEW list \in Seq(Nat)
  PROVE  Delaying(dims, ToSet(list), {2}) =
           UNION {UNION {Pairs(dims, Positive(list), l, l + k) : k \in 1 .. dims - l} :
                    l \in 1 .. dims}
<1> DEFINE given == ToSet(list)
           P == Positive(list)
           all == UNION {UNION {Pairs(dims, P, l, l + k) : k \in 1 .. dims - l} :
                           l \in 1 .. dims}
<1>1. \A n \in given \cup {0} : n \in Nat /\ (n > 0 <=> n \in P) /\ (n = 0 \/ n > 0)
  <2>1. DOMAIN list = 1 .. Len(list) /\ \A i \in 1 .. Len(list) : list[i] \in Nat
    BY LenProperties, ElementOfSeq
  <2> QED BY <2>1 DEF ToSet, Positive
<1>2. P \subseteq given /\ P \subseteq Nat \ {0}
  BY <1>1 DEF Positive
<1> HIDE DEF given, P
<1>3. ASSUME NEW s \in Delaying(dims, given, {2}) PROVE s \in all
  <2>1. s \in [1 .. dims -> given \cup {0}] /\ Cardinality(Delayed(dims, s)) = 2
    BY <1>3 DEF Delaying
  <2>2. Delayed(dims, s) \in SUBSET (1 .. dims)
    BY DEF Delayed
  <2>3. PICK l \in 1 .. dims, r \in 1 .. dims : l < r /\ Delayed(dims, s) = {l, r}
    <3>1. IsPair(Delayed(dims, s))
      BY <2>1, <2>2, FewOfMany
    <3> QED BY <2>2, <3>1 DEF IsPair
  <2>4. s[l] \in P /\ s[r] \in P /\ \A e \in 1 .. dims : e \notin {l, r} => s[e] = 0
    <3>1. ASSUME NEW e \in 1 .. dims
          PROVE  IF e \in {l, r} THEN s[e] \in P ELSE s[e] = 0
      <4>1. e \in Delayed(dims, s) <=> s[e] > 0
        BY DEF Delayed
      <4>2. s[e] \in given \cup {0}
        BY <2>1
      <4>3. s[e] > 0 => s[e] \in P
        BY <1>1, <4>2
      <4>4. ~(s[e] > 0) => s[e] = 0
        BY <1>1, <4>2
      <4> QED BY <2>3, <4>1, <4>3, <4>4
    <3> QED BY <3>1
  <2>5. s = Both(dims, l, s[l], r, s[r])
    BY <2>1, <2>3, <2>4 DEF Both, Empty
  <2>6. s \in Pairs(dims, P, l, r)
    BY <2>4, <2>5 DEF Pairs
  <2>7. r - l \in 1 .. dims - l /\ r = l + (r - l)
    BY <2>3
  <2>8. s \in Pairs(dims, P, l, l + (r - l))
    BY <2>6, <2>7
  <2> QED BY <2>7, <2>8
<1>4. ASSUME NEW l \in 1 .. dims, NEW r \in 1 .. dims, l < r, NEW s \in Pairs(dims, P, l, r)
      PROVE  s \in Delaying(dims, given, {2})
  <2>1. PICK x \in P, y \in P : s = Both(dims, l, x, r, y)
    BY DEF Pairs
  <2>2. s \in [1 .. dims -> given \cup {0}]
    BY <1>2, <2>1 DEF Both, Empty
  <2>3. DelaysBoth(dims, s, l, r)
    BY <1>2, <1>4, PairDelays
  <2>4. Delayed(dims, s) = {l, r}
    BY <2>3 DEF Delayed, DelaysBoth
  <2>5. IsPair({l, r}) /\ {l, r} \in SUBSET (1 .. dims)
    BY <1>4 DEF IsPair
  <2>6. Cardinality({l, r}) = 2
    BY <2>5, FewOfMany
  <2> QED BY <2>2, <2>4, <2>6 DEF Delaying
<1>5. ASSUME NEW l \in 1 .. dims, NEW k \in 1 .. dims - l,
             NEW s \in Pairs(dims, P, l, l + k)
      PROVE  s \in Delaying(dims, given, {2})
  <2>1. l + k \in 1 .. dims /\ l < l + k
    OBVIOUS
  <2> QED BY <1>4, <2>1
<1>6. Delaying(dims, given, {2}) = all
  <2>1. ASSUME NEW s \in all PROVE s \in Delaying(dims, given, {2})
    <3>1. PICK l \in 1 .. dims :
                 s \in UNION {Pairs(dims, P, l, l + k) : k \in 1 .. dims - l}
      OBVIOUS
    <3>2. PICK k \in 1 .. dims - l : s \in Pairs(dims, P, l, l + k)
      BY <3>1
    <3> QED BY <1>5, <3>2
  <2> HIDE DEF all
  <2> QED BY <1>3, <2>1
<1> QED BY <1>6 DEF given, P

LEMMA GridIsGiven ==
  ASSUME NEW dims \in Nat, NEW list \in Seq(Nat)
  PROVE  /\ Lists(Full(dims, list), [1 .. dims -> ToSet(list)])
         /\ Covers(Product(dims, list), [1 .. dims -> ToSet(list)])
<1>1. ToSet(list) \cap Nat = ToSet(list) /\ Covers(list, ToSet(list))
  <2>1. DOMAIN list = 1 .. Len(list) /\ \A i \in 1 .. Len(list) : list[i] \in Nat
    BY LenProperties, ElementOfSeq
  <2>2. ToSet(list) \subseteq Nat
    BY <2>1 DEF ToSet
  <2>3. \A i \in 1 .. Len(list) : list[i] \in ToSet(list)
    BY <2>1 DEF ToSet
  <2>4. list = [i \in 1 .. Len(list) |-> list[i]] /\ Len(list) \in Nat
    BY LenProperties
  <2>5. list \in Seq(ToSet(list))
    BY <2>3, <2>4, IsASeq
  <2> QED BY <2>2, <2>5 DEF Covers
<1>2. Lists(UniqueDelays(list), ToSet(list))
  <2>1. Lists(Distinct(list, Nat), ToSet(list) \cap Nat)
    BY DistinctLists
  <2> QED BY <1>1, <2>1, Zenon DEF UniqueDelays
<1>3. Lists(Full(dims, list), Grid(dims, ToSet(list)))
  BY <1>2, ProductCovers DEF Full, Lists
<1>4. Covers(Product(dims, list), Grid(dims, ToSet(list)))
  BY <1>1, ProductCovers
<1> QED BY <1>3, <1>4 DEF Grid

(* For any number of dimensions and any list of delays: the isolated stage lists
   each schedule that delays at most one dimension once, the pairwise stage each
   that delays two, the full stage each there is, and generateCandidates misses
   none (candidates.ts generateCandidates, generateAdaptiveCandidates). *)
THEOREM PlannedExactly ==
  ASSUME NEW dims \in Nat, NEW list \in Seq(Nat)
  PROVE  PlansAreExact(dims, list)
<1>1. Once(Isolated(dims, list), Delaying(dims, ToSet(list), {0, 1}))
  <2>1. Lists(Isolated(dims, list), Delaying(dims, ToSet(list), {0, 1}))
    BY IsolatedLists, AtMostOne, Zenon
  <2> QED BY <2>1, ListsOnce
<1>2. Once(Pairwise(dims, list), Delaying(dims, ToSet(list), {2}))
  <2>1. Lists(Pairwise(dims, list), Delaying(dims, ToSet(list), {2}))
    BY PairwiseLists, ExactlyTwo, Zenon
  <2> QED BY <2>1, ListsOnce
<1>3. Once(Full(dims, list), [1 .. dims -> ToSet(list)])
  BY GridIsGiven, ListsOnce
<1>4. ToSet(Product(dims, list)) = [1 .. dims -> ToSet(list)]
  BY GridIsGiven DEF Covers
<1> QED BY <1>1, <1>2, <1>3, <1>4, Zenon DEF PlansAreExact, Delaying, Delayed

(* The adaptive plan goes from simple to complex: whatever delays more dimensions
   than a schedule that delays one or two comes after it. *)
LEMMA SimplerIsEarlier ==
  ASSUME NEW dims \in Nat, NEW list \in Seq(Nat), NEW plan, plan = Adaptive(dims, list),
         NEW i \in DOMAIN plan,
         NEW s \in [1 .. dims -> ToSet(list) \cup {0}],
         NEW n \in {1, 2}, Cardinality(Delayed(dims, s)) = n,
         n < Cardinality(Delayed(dims, plan[i]))
  PROVE  \E j \in DOMAIN plan : j < i /\ plan[j] = s
<1> DEFINE given == ToSet(list)
           one == Isolated(dims, list)
           two == Pairwise(dims, list)
           rest == Full(dims, list)
<1>1. Covers(one, Delaying(dims, given, {0, 1}))
  <2>1. Lists(one, Delaying(dims, given, {0, 1}))
    BY IsolatedLists, AtMostOne, Zenon
  <2> QED BY <2>1 DEF Lists
<1>2. Covers(two, Delaying(dims, given, {2}))
  <2>1. Lists(two, Delaying(dims, given, {2}))
    BY PairwiseLists, ExactlyTwo, Zenon
  <2> QED BY <2>1 DEF Lists
<1>3. Covers(rest, [1 .. dims -> given])
  BY GridIsGiven DEF Lists
<1>4. plan = (one \o two) \o rest
  BY DEF Adaptive
<1> HIDE DEF given, one, two, rest
<1>5. /\ Len(one) \in Nat /\ DOMAIN one = 1 .. Len(one)
      /\ Len(two) \in Nat /\ DOMAIN two = 1 .. Len(two)
      /\ Len(rest) \in Nat
  BY <1>1, <1>2, <1>3, LenProperties DEF Covers
<1>6. /\ DOMAIN plan = 1 .. Len(one) + Len(two) + Len(rest)
      /\ \A k \in DOMAIN one : plan[k] = one[k]
      /\ \A k \in DOMAIN two : plan[Len(one) + k] = two[k]
  <2> DEFINE D == Delaying(dims, given, {0, 1}) \cup Delaying(dims, given, {2})
                    \cup [1 .. dims -> given]
  <2>1. one \in Seq(D) /\ two \in Seq(D) /\ rest \in Seq(D)
    BY <1>1, <1>2, <1>3, SeqMonotonic DEF Covers
  <2> HIDE DEF D
  <2>2. /\ one \o two \in Seq(D) /\ Len(one \o two) = Len(one) + Len(two)
        /\ \A k \in 1 .. Len(one) : (one \o two)[k] = one[k]
        /\ \A k \in 1 .. Len(two) : (one \o two)[Len(one) + k] = two[k]
    BY <1>5, <2>1, ConcatProperties
  <2>3. /\ plan \in Seq(D) /\ Len(plan) = Len(one \o two) + Len(rest)
        /\ \A k \in 1 .. Len(one \o two) : plan[k] = (one \o two)[k]
    BY <1>4, <1>5, <2>1, <2>2, ConcatProperties
  <2>4. DOMAIN plan = 1 .. Len(plan)
    BY <2>3, LenProperties
  <2>5. DOMAIN plan = 1 .. Len(one) + Len(two) + Len(rest)
    BY <2>2, <2>3, <2>4
  <2>6. ASSUME NEW k \in DOMAIN one PROVE plan[k] = one[k]
    <3>1. k \in 1 .. Len(one) /\ k \in 1 .. Len(one \o two)
      BY <1>5, <2>2
    <3> QED BY <2>2, <2>3, <3>1
  <2>7. ASSUME NEW k \in DOMAIN two PROVE plan[Len(one) + k] = two[k]
    <3>1. k \in 1 .. Len(two) /\ Len(one) + k \in 1 .. Len(one \o two)
      BY <1>5, <2>2
    <3> QED BY <2>2, <2>3, <3>1
  <2> QED BY <2>5, <2>6, <2>7
<1>7. \A k \in DOMAIN one : Cardinality(Delayed(dims, plan[k])) \in {0, 1}
  BY <1>1, <1>6 DEF Covers, ToSet, Delaying
<1>8. \A k \in DOMAIN two : Cardinality(Delayed(dims, plan[Len(one) + k])) = 2
  BY <1>2, <1>6 DEF Covers, ToSet, Delaying
<1>9. i > Len(one)
  BY <1>5, <1>6, <1>7
<1>10. CASE n = 1
  <2>1. s \in ToSet(one)
    BY <1>1, <1>10 DEF Covers, Delaying, given
  <2>2. PICK j \in DOMAIN one : one[j] = s
    BY <2>1 DEF ToSet
  <2> QED BY <1>5, <1>6, <1>9, <2>2
<1>11. CASE n = 2
  <2>1. s \in ToSet(two)
    BY <1>2, <1>11 DEF Covers, Delaying, given
  <2>2. PICK j \in DOMAIN two : two[j] = s
    BY <2>1 DEF ToSet
  <2>3. i > Len(one) + Len(two)
    <3> SUFFICES ASSUME i <= Len(one) + Len(two) PROVE FALSE
      BY <1>5, <1>6
    <3>1. i - Len(one) \in DOMAIN two /\ i = Len(one) + (i - Len(one))
      BY <1>5, <1>6, <1>9
    <3>2. Cardinality(Delayed(dims, plan[i])) = 2
      BY <1>8, <3>1
    <3> QED BY <1>11, <3>2
  <2>4. plan[Len(one) + j] = s
    BY <1>6, <2>2
  <2>5. Len(one) + j \in DOMAIN plan /\ Len(one) + j < i
    BY <1>5, <1>6, <2>3
  <2> QED BY <2>4, <2>5
<1> QED BY <1>10, <1>11

=============================================================================
