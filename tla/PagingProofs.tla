---------------------------- MODULE PagingProofs ----------------------------
(***************************************************************************)
(* What a client that reads GET /users page by page misses and sees twice, *)
(* for every set of accounts, every order of stamps and every limit.       *)
(***************************************************************************)
EXTENDS Paging, FiniteSetTheorems, SequenceTheorems, TLAPS

(* T is where the order of S begins: each of T was created after each of   *)
(* the others.                                                             *)
Upper(T, S) ==
    T \subseteq S /\ \A x \in T, y \in S \ T : Created[x] > Created[y]

(* The rows T at the top of S are behind the client.  Of those it had to   *)
(* get, F, it has not got some, who are not in G; the k rows it has asked  *)
(* for reach beyond T only as far as deletes have moved rows up under it,  *)
(* one each; d counts both.                                                *)
BehindIn(T, S, F, G, k, d) ==
    /\ Upper(T, S)
    /\ Cardinality((F \cap T) \ G) <= d
    /\ T = S \/ Cardinality((F \cap T) \ G) + k <= Cardinality(T) + d

Behind(T) ==
    /\ BehindIn(T, rows, first, ToSet(got), Len(got), Cardinality(Deleted))
    /\ phase = "done" => T = rows

(* All it has received, G, is at the top of S, in T; some of it came twice,*)
(* and T reaches beyond the k rows it has asked for, to come again, only   *)
(* as far as registrations have moved rows down; a counts both.            *)
AgainIn(T, S, G, k, twice, a) ==
    /\ Upper(T, S)
    /\ G \cap S \subseteq T
    /\ twice <= a
    /\ twice + Cardinality(T) <= k + a

(* How many of the accounts received came before.                          *)
Twice == Len(got) - Cardinality(ToSet(got))
Again(T) == AgainIn(T, rows, ToSet(got), Len(got), Twice, Cardinality(Added))

(* The inductive invariant.  The client asks from where its list ends,     *)
(* and while no stamps tie the table has two such tops.                    *)
PagingInv ==
    /\ PagingTypeOK
    /\ limit \in Limits
    /\ PageStart(OffsetOf(offset)) = Len(got)
    /\ ~Ties => /\ \E T \in SUBSET rows : Behind(T)
                /\ \E T \in SUBSET rows : Again(T)

-----------------------------------------------------------------------------
(* Facts about the top of an order.                                        *)
LEMMA Stamps == ASSUME NEW u \in UserID PROVE Created[u] \in Nat
  BY CreatedAssumption

(* Sizes of the sets met here.                                             *)
LEMMA UpTo == ASSUME NEW k \in Nat PROVE IsFiniteSet(1 .. k) /\ Cardinality(1 .. k) = k
  BY FS_Interval

LEMMA FiniteUsers == ASSUME NEW S \in SUBSET UserID PROVE IsFiniteSet(S)
  BY UserIDAssumption, FS_Subset

(* The first k rows.                                                       *)
Top(P, S, k) == Upper(P, S) /\ Cardinality(P) = k

(* Of two tops of one order one is part of the other.                      *)
LEMMA UpperChain ==
    ASSUME NEW S \in SUBSET UserID, NEW P, NEW T, Upper(P, S), Upper(T, S)
    PROVE  P \subseteq T \/ T \subseteq P
  <1> SUFFICES ASSUME NEW x \in P \ T, NEW y \in T \ P PROVE FALSE
    OBVIOUS
  <1>1. x \in S /\ y \in S
    BY DEF Upper
  <1>2. Created[x] \in Nat /\ Created[y] \in Nat
    BY <1>1, Stamps
  <1>3. Created[x] > Created[y] /\ Created[y] > Created[x]
    BY <1>1 DEF Upper
  <1> QED BY <1>2, <1>3

(* Their union is the longer of them.                                      *)
LEMMA UpperOfUnion ==
    ASSUME NEW S \in SUBSET UserID, NEW P, NEW T, Upper(P, S), Upper(T, S)
    PROVE  Upper(P \cup T, S)
  BY DEF Upper

(* A row more is below a top or within it.                                 *)
LEMMA UpperAdd ==
    ASSUME NEW S \in SUBSET UserID, NEW T, Upper(T, S), NEW u \in UserID \ S,
           \A x \in S : Created[x] # Created[u]
    PROVE  Upper(T, S \cup {u}) \/ Upper(T \cup {u}, S \cup {u})
  <1>1. \A x \in S \cup {u} : Created[x] \in Nat
    BY Stamps
  <1>2. CASE \E t \in T : Created[u] > Created[t]
    <2>1. PICK t \in T : Created[u] > Created[t]
      BY <1>2
    <2>2. SUFFICES ASSUME NEW x \in T \cup {u}, NEW y \in (S \cup {u}) \ (T \cup {u})
                   PROVE  Created[x] > Created[y]
      BY DEF Upper
    <2>3. y \in S \ T /\ t \in S
      BY DEF Upper
    <2>4. Created[t] > Created[y] /\ (x \in T => Created[x] > Created[y])
      BY <2>3 DEF Upper
    <2>5. Created[t] \in Nat /\ Created[y] \in Nat /\ Created[u] \in Nat
      BY <1>1, <2>3
    <2> QED BY <2>1, <2>4, <2>5
  <1>3. CASE \A t \in T : ~(Created[u] > Created[t])
    <2>1. SUFFICES ASSUME NEW x \in T, NEW y \in (S \cup {u}) \ T
                   PROVE  Created[x] > Created[y]
      BY DEF Upper
    <2>2. CASE y \in S
      BY <2>2 DEF Upper
    <2>3. CASE y = u
      <3>1. x \in S
        BY DEF Upper
      <3>2. Created[x] \in Nat /\ Created[u] \in Nat /\ Created[x] # Created[u]
        BY <1>1, <3>1
      <3> QED BY <1>3, <2>3, <3>2
    <2> QED BY <2>2, <2>3
  <1> QED BY <1>2, <1>3

(* A row less leaves what remains of a top a top.                          *)
LEMMA UpperRemove ==
    ASSUME NEW S, NEW T, Upper(T, S), NEW u
    PROVE  Upper(T \ {u}, S \ {u})
  BY DEF Upper

-----------------------------------------------------------------------------
(* The first rows of an answer to ORDER BY.                                *)
Firsts(o, k) == {o[i] : i \in {j \in DOMAIN o : j <= k}}

(* No two of S have one stamp.                                             *)
Distinct(S) == \A u, v \in S : u # v => Created[u] # Created[v]

(* An answer to ORDER BY lists every row once, the latest first.           *)
LEMMA OrderedListsAll ==
    ASSUME NEW S \in SUBSET UserID, NEW o \in Ordered(S)
    PROVE  /\ Cardinality(S) \in Nat
           /\ o \in [1 .. Cardinality(S) -> S]
           /\ \A i, j \in 1 .. Cardinality(S) : i # j => o[i] # o[j]
           /\ \A u \in S : \E i \in 1 .. Cardinality(S) : o[i] = u
           /\ \A i, j \in 1 .. Cardinality(S) : i < j => Created[o[i]] >= Created[o[j]]
  <1> DEFINE n == Cardinality(S)
             D == 1 .. n
  <1>1. IsFiniteSet(S) /\ n \in Nat
    BY FiniteUsers, FS_CardinalityType
  <1>2. /\ o \in [D -> S] /\ \A i, j \in D : i # j => o[i] # o[j]
        /\ \A i, j \in DOMAIN o : i < j => Created[o[i]] >= Created[o[j]]
    BY DEF Ordered, SetToSeqs
  <1>3. IsFiniteSet(D) /\ Cardinality(D) = n
    BY <1>1, UpTo
  <1>4. o \in Injection(D, S)
    BY <1>2 DEF Injection, IsInjective
  <1> HIDE DEF D
  <1>5. o \in Surjection(D, S)
    BY <1>1, <1>3, <1>4, FS_Injection
  <1>6. \A u \in S : \E i \in D : o[i] = u
    BY <1>5 DEF Surjection
  <1> USE DEF D
  <1> QED BY <1>1, <1>2, <1>6

(* While no stamps tie, its first k rows are the top of the order, ...     *)
LEMMA FirstsAreUpper ==
    ASSUME NEW S \in SUBSET UserID, NEW o \in Ordered(S), Distinct(S), NEW k \in Nat
    PROVE  Upper(Firsts(o, k), S)
  <1> DEFINE n == Cardinality(S)
  <1>1. /\ n \in Nat /\ o \in [1 .. n -> S]
        /\ \A i, j \in 1 .. n : i # j => o[i] # o[j]
        /\ \A u \in S : \E i \in 1 .. n : o[i] = u
        /\ \A i, j \in 1 .. n : i < j => Created[o[i]] >= Created[o[j]]
    BY OrderedListsAll
  <1> HIDE DEF n
  <1>2. Firsts(o, k) \subseteq S
    BY <1>1 DEF Firsts
  <1>3. ASSUME NEW x \in Firsts(o, k), NEW y \in S \ Firsts(o, k)
        PROVE  Created[x] > Created[y]
    <2>1. PICK i \in 1 .. n : i <= k /\ x = o[i]
      BY <1>1 DEF Firsts
    <2>2. PICK j \in 1 .. n : y = o[j]
      BY <1>1
    <2>3. ~(j <= k)
      BY <1>1, <2>2 DEF Firsts
    <2>4. i < j
      BY <1>1, <2>1, <2>3
    <2>5. Created[x] >= Created[y] /\ x # y
      BY <1>1, <2>1, <2>2, <2>4
    <2>6. x \in S /\ y \in S /\ Created[x] \in Nat /\ Created[y] \in Nat
      BY <1>2, Stamps
    <2> QED BY <2>5, <2>6 DEF Distinct
  <1> QED BY <1>2, <1>3 DEF Upper

(* ... and k in number.                                                    *)
LEMMA FirstsCount ==
    ASSUME NEW S \in SUBSET UserID, NEW o \in Ordered(S), NEW k \in Nat,
           k <= Cardinality(S)
    PROVE  Cardinality(Firsts(o, k)) = k
  <1> DEFINE n == Cardinality(S)
             f == [i \in 1 .. k |-> o[i]]
             F == Firsts(o, k)
             K == 1 .. k
  <1>1. /\ n \in Nat /\ o \in [1 .. n -> S]
        /\ \A i, j \in 1 .. n : i # j => o[i] # o[j]
    BY OrderedListsAll
  <1>2. F = {o[i] : i \in K}
    BY <1>1 DEF Firsts
  <1>3. f \in [K -> F] /\ \A i \in K : f[i] = o[i]
    BY <1>2
  <1>4. K \subseteq 1 .. n
    BY <1>1
  <1>5. IsFiniteSet(K) /\ Cardinality(K) = k
    BY UpTo
  <1> HIDE DEF f, F, K
  <1>6. f \in Injection(K, F)
    BY <1>1, <1>3, <1>4 DEF Injection, IsInjective
  <1>7. f \in Surjection(K, F)
    BY <1>2, <1>3 DEF Surjection
  <1>8. Cardinality(F) = Cardinality(K)
    BY <1>5, <1>6, <1>7, FS_Bijection DEF Bijection, ExistsBijection
  <1> QED BY <1>5, <1>8 DEF F

(* A page: what follows the first k rows, as much as there is of it.       *)
NextPage(S, k, size, o, p) ==
    /\ o \in Ordered(S) /\ p \in Seq(S)
    /\ Len(p) = 0 => Cardinality(S) <= k
    /\ Len(p) # 0 => /\ k + Len(p) <= Cardinality(S)
                     /\ Len(p) <= size
                     /\ Len(p) = size \/ k + Len(p) = Cardinality(S)
    /\ \A i \in 1 .. Len(p) : k + i \in 1 .. Cardinality(S) /\ p[i] = o[k + i]

(* What a slice holds, counted from its first element.                     *)
LEMMA SliceAt ==
    ASSUME NEW S, NEW o, NEW m \in Nat, NEW last \in Nat,
           \A i \in m + 1 .. last : o[i] \in S
    PROVE  /\ SubSeq(o, m + 1, last) \in Seq(S)
           /\ Len(SubSeq(o, m + 1, last)) = IF m < last THEN last - m ELSE 0
           /\ \A i \in 1 .. last - m : SubSeq(o, m + 1, last)[i] = o[m + i]
  <1> DEFINE p == SubSeq(o, m + 1, last)
  <1>1. /\ p \in Seq(S)
        /\ Len(p) = IF m + 1 <= last THEN last - (m + 1) + 1 ELSE 0
        /\ \A i \in 1 .. last - (m + 1) + 1 : p[i] = o[(m + 1) + i - 1]
    BY SubSeqProperties
  <1> HIDE DEF p
  <1>2. (IF m + 1 <= last THEN last - (m + 1) + 1 ELSE 0) = IF m < last THEN last - m ELSE 0
    OBVIOUS
  <1>3. \A i \in 1 .. last - m : /\ i \in 1 .. last - (m + 1) + 1
                                 /\ (m + 1) + i - 1 = m + i
    OBVIOUS
  <1> QED BY <1>1, <1>2, <1>3 DEF p

(* LIMIT and OFFSET cut such a page.                                       *)
LEMMA PageSlice ==
    ASSUME NEW S \in SUBSET UserID, NEW o \in Ordered(S), NEW k \in Nat,
           NEW size \in Nat \ {0}, NEW p,
           p = SubSeq(o, k + 1, Min({k + size, Len(o)}))
    PROVE  NextPage(S, k, size, o, p)
  <1> DEFINE n == Cardinality(S)
             last == Min({k + size, Len(o)})
  <1>1. n \in Nat /\ o \in [1 .. n -> S]
    BY OrderedListsAll
  <1> HIDE DEF n
  <1>2. Len(o) = n
    BY <1>1
  <1>3. last = IF k + size <= n THEN k + size ELSE n
    BY <1>1, <1>2 DEF Min
  <1> HIDE DEF last
  <1>4. last \in Nat /\ last <= n
    BY <1>1, <1>3
  <1>5. \A i \in k + 1 .. last : o[i] \in S
    BY <1>1, <1>4
  <1>6. p = SubSeq(o, k + 1, last)
    BY DEF last
  <1>7. /\ p \in Seq(S)
        /\ Len(p) = IF k < last THEN last - k ELSE 0
        /\ \A i \in 1 .. last - k : p[i] = o[k + i]
    <2> DEFINE q == SubSeq(o, k + 1, last)
    <2>1. /\ q \in Seq(S)
          /\ Len(q) = IF k < last THEN last - k ELSE 0
          /\ \A i \in 1 .. last - k : q[i] = o[k + i]
      BY <1>4, <1>5, SliceAt
    <2>2. p = q
      BY <1>6
    <2> HIDE DEF q
    <2> QED BY <2>1, <2>2
  <1>8. PICK len : len = Len(p)
    OBVIOUS
  <1>9. /\ len = IF k < last THEN last - k ELSE 0
        /\ \A i \in 1 .. last - k : p[i] = o[k + i]
    BY <1>7, <1>8
  <1>10. /\ len = 0 => n <= k
         /\ len # 0 => k + len <= n /\ len <= size /\ (len = size \/ k + len = n)
         /\ \A i \in 1 .. len : k + i \in 1 .. n /\ i \in 1 .. last - k
    <2> HIDE <1>6, <1>7, <1>8
    <2> QED BY <1>1, <1>3, <1>4, <1>9
  <1> QED BY <1>7, <1>8, <1>9, <1>10 DEF n, NextPage

(* A page adds as many new rows to the first k as it is long.              *)
LEMMA PageIsNext ==
    ASSUME NEW S \in SUBSET UserID, NEW o \in Ordered(S), NEW k \in Nat,
           NEW size, NEW p, NextPage(S, k, size, o, p), NEW len \in Nat, len = Len(p)
    PROVE  /\ ToSet(p) \subseteq S \ Firsts(o, k)
           /\ Firsts(o, k + len) = Firsts(o, k) \cup ToSet(p)
           /\ Cardinality(ToSet(p)) = len
  <1> DEFINE n == Cardinality(S)
             T == ToSet(p)
             K == 1 .. len
  <1>1. /\ n \in Nat /\ o \in [1 .. n -> S] /\ DOMAIN o = 1 .. n
        /\ \A i, j \in 1 .. n : i # j => o[i] # o[j]
    BY OrderedListsAll
  <1>2. p \in Seq(S) /\ \A i \in 1 .. len : k + i \in 1 .. n /\ p[i] = o[k + i]
    BY DEF NextPage
  <1>3. T = {p[i] : i \in K} /\ p \in [K -> T]
    <2>1. DOMAIN p = K /\ p \in [K -> S]
      BY <1>2, LenProperties
    <2> QED BY <2>1 DEF ToSet
  <1> HIDE DEF n, T
  <1>4. T \subseteq S \ Firsts(o, k)
    <2> SUFFICES ASSUME NEW i \in K PROVE p[i] \in S \ Firsts(o, k)
      BY <1>3
    <2>1. k + i \in 1 .. n /\ ~(k + i <= k) /\ p[i] = o[k + i]
      BY <1>2
    <2> QED BY <1>1, <2>1 DEF Firsts
  <1>5. Firsts(o, k + len) = Firsts(o, k) \cup T
    <2>1. ASSUME NEW j \in 1 .. n, j <= k + len, ~(j <= k)
          PROVE  o[j] \in T
      <3>1. j - k \in K /\ k + (j - k) = j
        BY <1>1, <2>1
      <3> QED BY <1>2, <1>3, <3>1
    <2>2. ASSUME NEW i \in K PROVE p[i] \in Firsts(o, k + len)
      <3>1. k + i \in 1 .. n /\ k + i <= k + len /\ p[i] = o[k + i]
        BY <1>2
      <3> QED BY <1>1, <3>1 DEF Firsts
    <2>3. Firsts(o, k) \subseteq Firsts(o, k + len)
      <3>1. \A j \in 1 .. n : j <= k => j <= k + len
        BY <1>1
      <3> QED BY <1>1, <3>1 DEF Firsts
    <2>4. Firsts(o, k + len) \subseteq Firsts(o, k) \cup T
      BY <1>1, <2>1 DEF Firsts
    <2> QED BY <1>3, <2>2, <2>3, <2>4
  <1>6. Cardinality(T) = len
    <2>1. \A i, j \in K : i # j => p[i] # p[j]
      <3> SUFFICES ASSUME NEW i \in K, NEW j \in K, i # j PROVE p[i] # p[j]
        OBVIOUS
      <3>1. k + i # k + j
        OBVIOUS
      <3> QED BY <1>1, <1>2, <3>1
    <2>2. IsFiniteSet(K) /\ Cardinality(K) = len
      BY UpTo
    <2> HIDE DEF K
    <2>3. p \in Injection(K, T) /\ p \in Surjection(K, T)
      BY <1>3, <2>1 DEF Injection, IsInjective, Surjection
    <2> QED BY <2>2, <2>3, FS_Bijection DEF Bijection, ExistsBijection
  <1> QED BY <1>4, <1>5, <1>6 DEF T

-----------------------------------------------------------------------------
(* Counting.                                                               *)
LEMMA Count ==
    ASSUME NEW B \in SUBSET UserID, NEW A \in SUBSET B
    PROVE  /\ Cardinality(A) \in Nat /\ Cardinality(B) \in Nat
           /\ Cardinality(A) <= Cardinality(B)
           /\ Cardinality(B \ A) = Cardinality(B) - Cardinality(A)
  <1>1. IsFiniteSet(B) /\ IsFiniteSet(A)
    BY FiniteUsers
  <1>2. Cardinality(A) \in Nat /\ Cardinality(B) \in Nat
    BY <1>1, FS_CardinalityType
  <1>3. Cardinality(A) <= Cardinality(B)
    BY <1>1, FS_Subset
  <1>4. B \cap A = A
    OBVIOUS
  <1>5. Cardinality(B \ A) = Cardinality(B) - Cardinality(A)
    BY <1>1, <1>4, FS_Difference
  <1> QED BY <1>2, <1>3, <1>5

(* A part has no more elements than the whole, and a part of a union no    *)
(* more than both together.                                                *)
LEMMA CountLess ==
    ASSUME NEW B \in SUBSET UserID, NEW A, A \subseteq B
    PROVE  Cardinality(A) <= Cardinality(B)
  BY Count

LEMMA CountUnion ==
    ASSUME NEW A \in SUBSET UserID, NEW B \in SUBSET UserID, NEW C \in SUBSET (A \cup B)
    PROVE  Cardinality(C) <= Cardinality(A) + Cardinality(B)
  <1>1. IsFiniteSet(A) /\ IsFiniteSet(B)
    BY FiniteUsers
  <1>2. Cardinality(A \cup B) = Cardinality(A) + Cardinality(B) - Cardinality(A \cap B)
    BY <1>1, FS_Union
  <1>3. Cardinality(C) <= Cardinality(A \cup B) /\ Cardinality(C) \in Nat
    BY Count
  <1>4. Cardinality(A) \in Nat /\ Cardinality(B) \in Nat /\ Cardinality(A \cap B) \in Nat
    BY Count
  <1> QED BY <1>2, <1>3, <1>4

(* What a page N, that follows the first k rows P, changes: T are the rows *)
(* behind the client so far, F those it has to get, G those it has got.    *)
LEMMA BehindPage ==
    ASSUME NEW S \in SUBSET UserID, NEW F \in SUBSET UserID, NEW G, NEW d \in Nat,
           NEW T, NEW P, NEW N, NEW k \in Nat, NEW len \in Nat,
           BehindIn(T, S, F, G, k, d), Top(P, S, k), Top(P \cup N, S, k + len)
    PROVE  BehindIn(T \cup (P \cup N), S, F, G \cup N, k + len, d)
  <1> DEFINE old == (F \cap T) \ G
             t == Cardinality(T)
  <1>a. PICK W, M : W = T \cup (P \cup N) /\ M = (F \cap W) \ (G \cup N)
    OBVIOUS
  <1>b. /\ Upper(T, S) /\ Upper(P, S) /\ Upper(P \cup N, S)
        /\ Cardinality(P) = k /\ Cardinality(P \cup N) = k + len
    BY DEF BehindIn, Top
  <1>c. Cardinality(old) <= d /\ (T = S \/ Cardinality(old) + k <= t + d)
    BY DEF BehindIn
  <1> SUFFICES /\ Upper(W, S) /\ Cardinality(M) <= d
               /\ W = S \/ Cardinality(M) + (k + len) <= Cardinality(W) + d
    BY <1>a DEF BehindIn
  <1>1. T \subseteq S /\ P \cup N \subseteq S /\ P \subseteq S
    BY <1>a, <1>b, <1>c DEF Upper
  <1>2. Upper(W, S)
    BY <1>a, <1>b, <1>c, UpperOfUnion
  <1>3. old \in SUBSET UserID /\ M \in SUBSET UserID
    BY <1>a, <1>b, <1>c, <1>1
  <1>4. Cardinality(old) \in Nat /\ Cardinality(M) \in Nat /\ t \in Nat
    BY <1>a, <1>b, <1>c, <1>1, <1>3, Count
  <1>5. CASE T = S
    <2>1. W = S /\ M \subseteq old
      BY <1>a, <1>b, <1>c, <1>1, <1>5
    <2> HIDE DEF old
    <2>2. Cardinality(M) <= Cardinality(old)
      BY <1>a, <1>b, <1>c, <1>3, <2>1, CountLess
    <2>3. Cardinality(old) <= d
      BY <1>a, <1>b, <1>c DEF old
    <2>4. Cardinality(M) <= d
      BY <1>a, <1>b, <1>c, <1>4, <2>2, <2>3
    <2> QED BY <1>a, <1>b, <1>c, <1>2, <2>1, <2>4
  <1>6. CASE T # S /\ P \cup N \subseteq T
    <2>1. W = T /\ M \subseteq old
      BY <1>a, <1>b, <1>c, <1>6
    <2> HIDE DEF old
    <2>2. Cardinality(M) <= Cardinality(old)
      BY <1>a, <1>b, <1>c, <1>3, <2>1, CountLess
    <2>3. k + len <= t
      <3>1. Cardinality(P \cup N) <= t
        BY <1>a, <1>b, <1>c, <1>1, <1>6, CountLess
      <3> QED BY <1>a, <1>b, <1>c, <3>1
    <2>4. Cardinality(old) <= d
      BY <1>a, <1>b, <1>c DEF old
    <2>5. Cardinality(M) <= d /\ Cardinality(M) + (k + len) <= t + d
      BY <1>a, <1>b, <1>c, <1>4, <2>2, <2>3, <2>4
    <2> QED BY <1>a, <1>b, <1>c, <1>2, <2>1, <2>5
  <1>7. CASE T # S /\ T \subseteq P \cup N
    <2>1. W = P \cup N /\ M \subseteq (F \cap P) \ G
      BY <1>a, <1>b, <1>c, <1>7
    <2>2. Cardinality(M) <= d
      <3>1. CASE P \subseteq T
        <4>1. M \subseteq old
          BY <1>a, <1>b, <1>c, <2>1, <3>1
        <4> HIDE DEF old
        <4>2. Cardinality(M) <= Cardinality(old)
          BY <1>a, <1>b, <1>c, <1>3, <4>1, CountLess
        <4>3. Cardinality(old) <= d
          BY <1>a, <1>b, <1>c DEF old
        <4> QED BY <1>a, <1>b, <1>c, <1>4, <4>2, <4>3
      <3>2. CASE T \subseteq P
        <4>1. M \subseteq old \cup (P \ T)
          BY <1>a, <1>b, <1>c, <2>1
        <4>2. P \ T \in SUBSET UserID /\ P \in SUBSET UserID
          BY <1>a, <1>b, <1>c, <1>1
        <4>3. Cardinality(P \ T) = k - t
          BY <1>a, <1>b, <1>c, <3>2, <4>2, Count
        <4>4. Cardinality(M) <= Cardinality(old) + Cardinality(P \ T)
          BY <1>a, <1>b, <1>c, <1>3, <4>1, <4>2, CountUnion
        <4>5. Cardinality(old) + k <= t + d
          BY <1>a, <1>b, <1>c, <1>7
        <4> HIDE DEF old
        <4> QED BY <1>a, <1>b, <1>c, <1>4, <4>3, <4>4, <4>5
      <3> QED BY <1>a, <1>b, <1>c, <3>1, <3>2, UpperChain
    <2> QED BY <1>a, <1>b, <1>c, <1>2, <1>4, <2>1, <2>2
  <1> QED BY <1>a, <1>b, <1>c, <1>5, <1>6, <1>7, UpperChain

(* An empty page: the client has asked for as many rows as there are, and  *)
(* all of them are behind it.                                              *)
LEMMA BehindLast ==
    ASSUME NEW S \in SUBSET UserID, NEW F \in SUBSET UserID, NEW G, NEW d \in Nat,
           NEW T, NEW k \in Nat, Cardinality(S) <= k, BehindIn(T, S, F, G, k, d)
    PROVE  BehindIn(S, S, F, G, k, d)
  <1> DEFINE old == (F \cap T) \ G
             M == (F \cap S) \ G
             t == Cardinality(T)
             n == Cardinality(S)
  <1>b. Upper(T, S) /\ Upper(S, S)
    BY DEF BehindIn, Upper
  <1>c. Cardinality(old) <= d /\ (T = S \/ Cardinality(old) + k <= t + d)
    BY DEF BehindIn
  <1>1. CASE T = S
    BY <1>1
  <1>2. CASE T # S
    <2>1. T \subseteq S /\ M \subseteq old \cup (S \ T)
      BY <1>b DEF Upper
    <2>2. old \in SUBSET UserID /\ S \ T \in SUBSET UserID /\ M \in SUBSET UserID
      BY <2>1
    <2>3. Cardinality(S \ T) = n - t /\ t \in Nat /\ n \in Nat
      BY <2>1, Count
    <2>4. Cardinality(M) <= Cardinality(old) + Cardinality(S \ T)
      BY <2>1, <2>2, CountUnion
    <2>5. Cardinality(M) \in Nat /\ Cardinality(old) \in Nat
      BY <2>2, Count
    <2>6. Cardinality(old) + k <= t + d /\ n <= k
      BY <1>2, <1>c
    <2> HIDE DEF old, M, t, n
    <2>7. Cardinality(M) <= d
      BY <2>3, <2>4, <2>5, <2>6
    <2> QED BY <1>b, <2>7 DEF M, BehindIn
  <1> QED BY <1>1, <1>2

(* The same page, on the other side: what of it was received before comes  *)
(* twice.                                                                  *)
LEMMA AgainPage ==
    ASSUME NEW S \in SUBSET UserID, NEW G, NEW a \in Nat, NEW twice \in Nat,
           NEW T, NEW P, NEW N \in SUBSET (S \ P), NEW k \in Nat, NEW len \in Nat,
           AgainIn(T, S, G, k, twice, a), Top(P, S, k), Top(P \cup N, S, k + len),
           Cardinality(N) = len
    PROVE  AgainIn(T \cup (P \cup N), S, G \cup N, k + len,
                   twice + Cardinality(G \cap N), a)
  <1> DEFINE r == Cardinality(G \cap N)
             t == Cardinality(T)
  <1>a. PICK W : W = T \cup (P \cup N)
    OBVIOUS
  <1>b. /\ Upper(T, S) /\ Upper(P, S) /\ Upper(P \cup N, S)
        /\ Cardinality(P) = k /\ Cardinality(P \cup N) = k + len
    BY DEF AgainIn, Top
  <1>c. G \cap S \subseteq T /\ twice <= a /\ twice + t <= k + a
    BY DEF AgainIn
  <1> SUFFICES /\ Upper(W, S) /\ (G \cup N) \cap S \subseteq W
               /\ twice + r <= a /\ twice + r + Cardinality(W) <= (k + len) + a
    BY <1>a DEF AgainIn
  <1>1. T \in SUBSET UserID /\ P \cup N \in SUBSET UserID /\ P \in SUBSET UserID
    BY <1>a, <1>b, <1>c DEF Upper
  <1>2. Upper(W, S) /\ (G \cup N) \cap S \subseteq W
    BY <1>a, <1>b, <1>c, UpperOfUnion
  <1>3. G \cap N \in SUBSET N /\ N \in SUBSET UserID
    OBVIOUS
  <1>4. r \in Nat /\ r <= len /\ t \in Nat
    BY <1>a, <1>b, <1>c, <1>1, <1>3, Count
  <1>5. CASE P \cup N \subseteq T
    <2>1. W = T /\ k + len <= t
      BY <1>a, <1>b, <1>c, <1>1, <1>5, Count
    <2> HIDE DEF r, t
    <2> QED BY <1>a, <1>b, <1>c, <1>2, <1>4, <2>1 DEF r, t
  <1>6. CASE T \subseteq P \cup N
    <2>1. Cardinality(W) = k + len
      <3>1. W = P \cup N
        BY <1>a, <1>b, <1>c, <1>6
      <3> QED BY <1>a, <1>b, <1>c, <3>1
    <2>2. twice + r <= a
      <3>1. CASE T \subseteq P
        <4>1. G \cap N = {}
          BY <1>a, <1>b, <1>c, <3>1
        <4>2. r = 0
          BY <1>a, <1>b, <1>c, <4>1, FS_EmptySet
        <4> QED BY <1>a, <1>b, <1>c, <4>2
      <3>2. CASE P \subseteq T
        <4>1. G \cap N \in SUBSET (T \ P) /\ T \ P \in SUBSET UserID
          BY <1>a, <1>b, <1>c, <1>1
        <4>2. Cardinality(T \ P) = t - k /\ r <= Cardinality(T \ P)
          BY <1>a, <1>b, <1>c, <1>1, <3>2, <4>1, Count
        <4> HIDE DEF r
        <4> QED BY <1>a, <1>b, <1>c, <1>4, <4>2
      <3> QED BY <1>a, <1>b, <1>c, <3>1, <3>2, UpperChain
    <2> HIDE DEF r
    <2> QED BY <1>a, <1>b, <1>c, <1>2, <1>4, <2>1, <2>2 DEF r
  <1> QED BY <1>a, <1>b, <1>c, <1>5, <1>6, UpperChain

(* What a list holds after more was appended to it.                        *)
LEMMA ToSetOfConcat ==
    ASSUME NEW S, NEW s \in Seq(S), NEW t \in Seq(S)
    PROVE  /\ s \o t \in Seq(S) /\ Len(s \o t) = Len(s) + Len(t)
           /\ ToSet(s \o t) = ToSet(s) \cup ToSet(t)
           /\ ToSet(s) \subseteq S
  <1>1. PICK m \in Nat : m = Len(s) /\ DOMAIN s = 1 .. m /\ s \in [1 .. m -> S]
    BY LenProperties
  <1>2. PICK n \in Nat : n = Len(t) /\ DOMAIN t = 1 .. n
    BY LenProperties
  <1>3. PICK c : c = s \o t
    OBVIOUS
  <1>4. /\ c \in Seq(S) /\ Len(c) = m + n
        /\ \A i \in 1 .. m + n : c[i] = IF i <= m THEN s[i] ELSE t[i - m]
    BY <1>1, <1>2, <1>3, ConcatProperties
  <1>5. DOMAIN c = 1 .. m + n
    BY <1>4, LenProperties
  <1>6. ToSet(c) = ToSet(s) \cup ToSet(t)
    <2>1. ASSUME NEW i \in 1 .. m + n PROVE c[i] \in ToSet(s) \cup ToSet(t)
      <3>1. CASE i <= m
        BY <1>1, <1>4, <3>1 DEF ToSet
      <3>2. CASE ~(i <= m)
        <4>1. i - m \in 1 .. n /\ c[i] = t[i - m]
          BY <1>4, <3>2
        <4> QED BY <1>2, <4>1 DEF ToSet
      <3> QED BY <3>1, <3>2
    <2>2. ASSUME NEW i \in 1 .. m PROVE s[i] \in ToSet(c)
      <3>1. i \in 1 .. m + n /\ c[i] = s[i]
        BY <1>4
      <3> QED BY <1>5, <3>1 DEF ToSet
    <2>3. ASSUME NEW i \in 1 .. n PROVE t[i] \in ToSet(c)
      <3>1. m + i \in 1 .. m + n /\ ~(m + i <= m) /\ (m + i) - m = i
        OBVIOUS
      <3>2. c[m + i] = t[i]
        BY <1>4, <3>1
      <3> QED BY <1>5, <3>1, <3>2 DEF ToSet
    <2> QED BY <1>1, <1>2, <1>5, <2>1, <2>2, <2>3 DEF ToSet
  <1>7. ToSet(s) \subseteq S
    BY <1>1 DEF ToSet
  <1> QED BY <1>1, <1>2, <1>3, <1>4, <1>6, <1>7

(* A sequence has no more elements than places.                            *)
LEMMA DistinctElements ==
    ASSUME NEW S, NEW s \in Seq(S)
    PROVE  Cardinality(ToSet(s)) <= Len(s)
  <1>1. PICK n \in Nat : n = Len(s) /\ DOMAIN s = 1 .. n
    BY LenProperties
  <1> DEFINE K == 1 .. n
             T == ToSet(s)
  <1>2. s \in [K -> T] /\ T = {s[i] : i \in K}
    BY <1>1, LenProperties DEF ToSet
  <1>3. IsFiniteSet(K) /\ Cardinality(K) = n
    BY UpTo
  <1> HIDE DEF K, T
  <1>4. s \in Surjection(K, T)
    BY <1>2 DEF Surjection
  <1>5. Cardinality(T) <= Cardinality(K)
    BY <1>3, <1>4, FS_Surjection
  <1> QED BY <1>1, <1>3, <1>5 DEF T

-----------------------------------------------------------------------------
(* The state.                                                              *)
LEMMA Sets ==
    ASSUME PagingTypeOK
    PROVE  /\ rows \in SUBSET UserID /\ used \in SUBSET UserID /\ first \in SUBSET UserID
           /\ Deleted \in SUBSET UserID /\ Added \in SUBSET UserID
           /\ got \in Seq(used) /\ Len(got) \in Nat /\ ToSet(got) \in SUBSET used
           /\ Cardinality(Deleted) \in Nat /\ Cardinality(Added) \in Nat
           /\ Cardinality(ToSet(got)) \in Nat
  <1>1. /\ rows \in SUBSET UserID /\ used \in SUBSET UserID /\ first \in SUBSET UserID
        /\ Deleted \in SUBSET UserID /\ Added \in SUBSET UserID
        /\ got \in Seq(used) /\ Len(got) \in Nat
    BY DEF PagingTypeOK, Deleted, Added
  <1>2. ToSet(got) \in SUBSET used
    BY <1>1, ToSetOfConcat
  <1> QED BY <1>1, <1>2, Count

(* Without ties among all the accounts there are none in the table.        *)
LEMMA Untied ==
    ASSUME PagingTypeOK, ~Ties
    PROVE  Distinct(used) /\ Distinct(rows)
  BY DEF PagingTypeOK, Ties, Distinct

(* The service's clamps: a page has at least one row and at most the       *)
(* limit.                                                                  *)
LEMMA PageSizes ==
    ASSUME limit \in Limits
    PROVE  /\ Atoi(limit, DefaultLimit) \in Int
           /\ PageSize(Atoi(limit, DefaultLimit)) \in Nat \ {0}
           /\ PageSize(Atoi(limit, DefaultLimit)) <= MaxLimit
           /\ Atoi(limit, DefaultLimit) > 0 =>
                PageSize(Atoi(limit, DefaultLimit)) = Min({Atoi(limit, DefaultLimit), MaxLimit})
  <1>1. PICK n : n = Atoi(limit, DefaultLimit)
    OBVIOUS
  <1>2. limit \in Parameter
    BY ParameterAssumption
  <1>3. n \in Int
    BY <1>1, <1>2, LimitAssumption DEF Atoi, Parameter
  <1>4. n > 0 => Min({n, MaxLimit}) = IF n <= MaxLimit THEN n ELSE MaxLimit
    BY <1>3, LimitAssumption DEF Min
  <1>5. /\ PageSize(n) \in Nat \ {0} /\ PageSize(n) <= MaxLimit
        /\ n > 0 => PageSize(n) = Min({n, MaxLimit})
    BY <1>3, <1>4, LimitAssumption DEF PageSize
  <1> QED BY <1>1, <1>3, <1>5

(* An offset the client computes is the one the page starts from.          *)
LEMMA StartOfNumber ==
    ASSUME NEW i \in Nat
    PROVE  Number(i) \in Parameter /\ PageStart(OffsetOf(Number(i))) = i
  <1>1. Number(i) \in Parameter /\ OffsetOf(Number(i)) = i
    BY DEF Number, Parameter, OffsetOf, Atoi
  <1>2. PageStart(i) = i
    BY DEF PageStart, Max
  <1> QED BY <1>1, <1>2

(* One request: the page that follows what the client has, or the end.     *)
LEMMA ListPage ==
    ASSUME PagingInv, List
    PROVE  \E o, p :
              /\ NextPage(rows, Len(got), PageSize(Atoi(limit, DefaultLimit)), o, p)
              /\ \/ /\ Len(p) = 0 /\ phase' = "done" /\ offset' = offset /\ got' = got
                 \/ /\ Len(p) # 0 /\ phase' = phase
                    /\ got' = got \o p /\ offset' = Number(Len(got'))
  <1> DEFINE size == PageSize(Atoi(limit, DefaultLimit))
  <1>1. PagingTypeOK /\ limit \in Limits /\ PageStart(OffsetOf(offset)) = Len(got)
    BY DEF PagingInv
  <1>2. PICK p \in Pages(size, Len(got)) :
            IF p = <<>>
            THEN phase' = "done" /\ offset' = offset /\ got' = got
            ELSE got' = got \o p /\ offset' = Number(Len(got')) /\ phase' = phase
    BY <1>1 DEF List
  <1>3. PICK o \in Ordered(rows) :
            p = SubSeq(o, Len(got) + 1, Min({Len(got) + size, Len(o)}))
    BY <1>2 DEF Pages
  <1>4. rows \in SUBSET UserID /\ Len(got) \in Nat /\ size \in Nat \ {0}
    BY <1>1, Sets, PageSizes
  <1> HIDE DEF size
  <1>5. NextPage(rows, Len(got), size, o, p)
    BY <1>3, <1>4, PageSlice
  <1>6. p = <<>> <=> Len(p) = 0
    BY <1>5, EmptySeq DEF NextPage
  <1> QED BY <1>2, <1>5, <1>6 DEF size

(* What holds whether or not stamps tie.                                   *)
Basics == /\ PagingTypeOK
          /\ limit \in Limits
          /\ PageStart(OffsetOf(offset)) = Len(got)

(* A page moves the client's offset by what it received.                   *)
LEMMA ListBasics == ASSUME PagingInv, List PROVE Basics'
  <1>1. PagingTypeOK /\ limit \in Limits /\ PageStart(OffsetOf(offset)) = Len(got)
    BY DEF PagingInv
  <1>2. rows' = rows /\ used' = used /\ first' = first /\ limit' = limit /\ phase = "scan"
    BY DEF List, table
  <1>3. PICK o, p :
              /\ NextPage(rows, Len(got), PageSize(Atoi(limit, DefaultLimit)), o, p)
              /\ \/ /\ Len(p) = 0 /\ phase' = "done" /\ offset' = offset /\ got' = got
                 \/ /\ Len(p) # 0 /\ phase' = phase
                    /\ got' = got \o p /\ offset' = Number(Len(got'))
    BY ListPage
  <1>4. CASE got' = got /\ offset' = offset /\ phase' = "done"
    BY <1>1, <1>2, <1>4 DEF Basics, PagingTypeOK
  <1>5. CASE got' = got \o p /\ offset' = Number(Len(got')) /\ phase' = phase
    <2>1. p \in Seq(used)
      BY <1>1, <1>3, SeqMonotonic DEF NextPage, PagingTypeOK
    <2>2. got' \in Seq(used) /\ Len(got') \in Nat
      BY <1>1, <1>5, <2>1, ToSetOfConcat, LenProperties DEF PagingTypeOK
    <2>3. offset' \in Parameter /\ PageStart(OffsetOf(offset')) = Len(got')
      BY <1>5, <2>2, StartOfNumber
    <2> QED BY <1>1, <1>2, <1>5, <2>2, <2>3 DEF Basics, PagingTypeOK
  <1> QED BY <1>3, <1>4, <1>5

(* What ListPage gives, for the sets it is about.                          *)
LEMMA PageTops ==
    ASSUME NEW S \in SUBSET UserID, Distinct(S), NEW k \in Nat, NEW size, NEW o, NEW p,
           NextPage(S, k, size, o, p), Len(p) # 0
    PROVE  /\ Len(p) \in Nat /\ p \in Seq(S)
           /\ ToSet(p) \in SUBSET (S \ Firsts(o, k)) /\ Cardinality(ToSet(p)) = Len(p)
           /\ Top(Firsts(o, k), S, k) /\ Top(Firsts(o, k) \cup ToSet(p), S, k + Len(p))
  <1>0. PICK len : len = Len(p)
    OBVIOUS
  <1>1. p \in Seq(S) /\ o \in Ordered(S) /\ k + len <= Cardinality(S)
    BY <1>0 DEF NextPage
  <1>2. len \in Nat /\ Cardinality(S) \in Nat
    BY <1>0, <1>1, LenProperties, Count
  <1>3. /\ ToSet(p) \subseteq S \ Firsts(o, k)
        /\ Firsts(o, k + len) = Firsts(o, k) \cup ToSet(p)
        /\ Cardinality(ToSet(p)) = len
    BY <1>0, <1>1, <1>2, PageIsNext
  <1>4. k + len \in Nat /\ k <= Cardinality(S)
    BY <1>1, <1>2
  <1>5. /\ Upper(Firsts(o, k), S) /\ Upper(Firsts(o, k + len), S)
    BY <1>1, <1>4, FirstsAreUpper
  <1>6. Cardinality(Firsts(o, k)) = k /\ Cardinality(Firsts(o, k + len)) = k + len
    BY <1>1, <1>4, FirstsCount
  <1> QED BY <1>0, <1>1, <1>2, <1>3, <1>5, <1>6 DEF Top

(* A page keeps both bounds.                                               *)
LEMMA ListKeepsBehind ==
    ASSUME PagingInv, List, NEW T, Behind(T), ~Ties
    PROVE  \E W \in SUBSET rows' : Behind(W)'
  <1>1. PagingTypeOK
    BY DEF PagingInv
  <1>2. rows' = rows /\ used' = used /\ first' = first /\ phase = "scan"
    BY DEF List, table
  <1>3. PICK o, p, size :
              /\ NextPage(rows, Len(got), size, o, p)
              /\ \/ Len(p) = 0 /\ phase' = "done" /\ got' = got
                 \/ Len(p) # 0 /\ phase' = phase /\ got' = got \o p
    BY ListPage
  <1>4. PICK k, len, d, S, F, G : /\ k = Len(got) /\ len = Len(p)
                                  /\ d = Cardinality(Deleted)
                                  /\ S = rows /\ F = first /\ G = ToSet(got)
    OBVIOUS
  <1>5. /\ S \in SUBSET UserID /\ F \in SUBSET UserID /\ d \in Nat /\ k \in Nat
        /\ Distinct(S) /\ NextPage(S, k, size, o, p)
    BY <1>1, <1>3, <1>4, Sets, Untied
  <1>6. BehindIn(T, S, F, G, k, d)
    BY <1>4 DEF Behind
  <1>7. Deleted' = Deleted
    BY <1>2 DEF Deleted
  <1>8. CASE len = 0 /\ phase' = "done" /\ got' = got
    <2>1. Cardinality(S) <= k
      BY <1>4, <1>5, <1>8 DEF NextPage
    <2>2. BehindIn(S, S, F, G, k, d)
      BY <1>5, <1>6, <2>1, BehindLast
    <2>3. Behind(S)'
      BY <1>2, <1>4, <1>7, <1>8, <2>2 DEF Behind
    <2> QED BY <1>2, <1>4, <2>3
  <1>9. CASE len # 0 /\ phase' = phase /\ got' = got \o p
    <2>1. PICK P, N : P = Firsts(o, k) /\ N = ToSet(p)
      OBVIOUS
    <2>2. /\ len \in Nat /\ p \in Seq(S) /\ Top(P, S, k) /\ Top(P \cup N, S, k + len)
      <3>1. len # 0 /\ len = Len(p)
        BY <1>4, <1>9
      <3>2. /\ Len(p) \in Nat /\ p \in Seq(S)
            /\ ToSet(p) \in SUBSET (S \ Firsts(o, k)) /\ Cardinality(ToSet(p)) = Len(p)
            /\ Top(Firsts(o, k), S, k)
            /\ Top(Firsts(o, k) \cup ToSet(p), S, k + Len(p))
        BY <1>5, <3>1, PageTops
      <3> QED BY <2>1, <3>1, <3>2
    <2>3. BehindIn(T \cup (P \cup N), S, F, G \cup N, k + len, d)
      BY <1>5, <1>6, <2>2, BehindPage
    <2>4. ToSet(got') = G \cup N /\ Len(got') = k + len
      <3>1. p \in Seq(used) /\ got \in Seq(used)
        BY <1>1, <1>4, <2>2, SeqMonotonic DEF PagingTypeOK
      <3> QED BY <1>4, <1>9, <2>1, <3>1, ToSetOfConcat
    <2>5. PICK W : W = T \cup (P \cup N)
      OBVIOUS
    <2>6. Behind(W)'
      BY <1>2, <1>4, <1>7, <1>9, <2>3, <2>4, <2>5 DEF Behind
    <2>7. W \subseteq S
      BY <2>3, <2>5 DEF BehindIn, Upper
    <2> QED BY <1>2, <1>4, <2>6, <2>7
  <1> QED BY <1>3, <1>4, <1>8, <1>9

LEMMA ListKeepsAgain ==
    ASSUME PagingInv, List, NEW T, Again(T), ~Ties
    PROVE  \E W \in SUBSET rows' : Again(W)'
  <1>1. PagingTypeOK
    BY DEF PagingInv
  <1>2. rows' = rows /\ used' = used /\ first' = first
    BY DEF List, table
  <1>3. PICK o, p, size :
              /\ NextPage(rows, Len(got), size, o, p)
              /\ \/ Len(p) = 0 /\ got' = got
                 \/ Len(p) # 0 /\ got' = got \o p
    BY ListPage
  <1>4. PICK k, len, a, S, G, g : /\ k = Len(got) /\ len = Len(p)
                                  /\ a = Cardinality(Added)
                                  /\ S = rows /\ G = ToSet(got) /\ g = Cardinality(G)
    OBVIOUS
  <1>5. /\ S \in SUBSET UserID /\ a \in Nat /\ k \in Nat /\ g \in Nat
        /\ Distinct(S) /\ NextPage(S, k, size, o, p) /\ G \in SUBSET UserID
    BY <1>1, <1>3, <1>4, Sets, Untied
  <1>6. g <= k
    BY <1>1, <1>4, DistinctElements, Sets
  <1>7. PICK twice \in Nat : twice = k - g
    BY <1>5, <1>6
  <1>8. AgainIn(T, S, G, k, twice, a)
    BY <1>4, <1>7 DEF Again, Twice
  <1>9. Added' = Added
    BY <1>2 DEF Added
  <1>10. CASE got' = got
    <2>1. Again(T)'
      BY <1>2, <1>9, <1>10 DEF Again, Twice
    <2>2. T \subseteq S
      BY <1>8 DEF AgainIn, Upper
    <2> QED BY <1>2, <1>4, <2>1, <2>2
  <1>11. CASE len # 0 /\ got' = got \o p
    <2>1. PICK P, N, c : P = Firsts(o, k) /\ N = ToSet(p) /\ c = Cardinality(G \cap N)
      OBVIOUS
    <2>2. /\ len \in Nat /\ p \in Seq(S) /\ Top(P, S, k) /\ Top(P \cup N, S, k + len)
          /\ N \in SUBSET (S \ P) /\ Cardinality(N) = len
      <3>1. len # 0 /\ len = Len(p)
        BY <1>4, <1>11
      <3>2. /\ Len(p) \in Nat /\ p \in Seq(S)
            /\ ToSet(p) \in SUBSET (S \ Firsts(o, k)) /\ Cardinality(ToSet(p)) = Len(p)
            /\ Top(Firsts(o, k), S, k)
            /\ Top(Firsts(o, k) \cup ToSet(p), S, k + Len(p))
        BY <1>5, <3>1, PageTops
      <3> QED BY <2>1, <3>1, <3>2
    <2>3. AgainIn(T \cup (P \cup N), S, G \cup N, k + len, twice + c, a)
      BY <1>5, <1>8, <2>1, <2>2, AgainPage
    <2>4. ToSet(got') = G \cup N /\ Len(got') = k + len
      <3>1. p \in Seq(used) /\ got \in Seq(used)
        BY <1>1, <1>4, <2>2, SeqMonotonic DEF PagingTypeOK
      <3> QED BY <1>4, <1>11, <2>1, <3>1, ToSetOfConcat
    <2>5. Twice' = twice + c
      <3>1. N \in SUBSET UserID /\ G \cap N \in SUBSET UserID
        BY <1>5, <2>2
      <3>2. Cardinality(G \cup N) = g + len - c
        BY <1>4, <1>5, <2>1, <2>2, <3>1, FiniteUsers, FS_Union
      <3>3. c \in Nat
        BY <2>1, <3>1, Count
      <3>4. (k + len) - (g + len - c) = twice + c
        BY <1>5, <1>7, <2>2, <3>3
      <3> QED BY <2>4, <3>2, <3>4 DEF Twice
    <2>6. PICK W : W = T \cup (P \cup N)
      OBVIOUS
    <2>7. Again(W)'
      BY <1>2, <1>4, <1>9, <2>3, <2>4, <2>5, <2>6 DEF Again
    <2>8. W \subseteq S
      BY <2>3, <2>6 DEF AgainIn, Upper
    <2> QED BY <1>2, <1>4, <2>7, <2>8
  <1> QED BY <1>3, <1>4, <1>10, <1>11

(* A registration: the new row is no row the client had to get or has got. *)
LEMMA RegisterKeeps ==
    ASSUME PagingInv, NEW u \in UserID, Register(u)
    PROVE  PagingInv'
  <1>1. PagingTypeOK /\ limit \in Limits /\ PageStart(OffsetOf(offset)) = Len(got)
    BY DEF PagingInv
  <1>2. /\ u \notin used /\ rows' = rows \cup {u} /\ used' = used \cup {u}
        /\ first' = first /\ limit' = limit /\ offset' = offset
        /\ got' = got /\ phase' = phase /\ phase = "scan"
    BY DEF Register, client
  <1>3. Basics'
    <2>1. got' \in Seq(used')
      BY <1>1, <1>2, SeqMonotonic DEF PagingTypeOK
    <2> QED BY <1>1, <1>2, <2>1 DEF Basics, PagingTypeOK
  <1>4. SUFFICES ASSUME ~Ties'
                 PROVE  /\ \E W \in SUBSET rows' : Behind(W)'
                        /\ \E W \in SUBSET rows' : Again(W)'
    BY <1>3 DEF PagingInv, Basics
  <1>5. ~Ties /\ \A x \in rows : Created[x] # Created[u]
    BY <1>1, <1>2, <1>4 DEF Ties, PagingTypeOK
  <1>6. /\ rows \in SUBSET UserID /\ u \notin rows /\ u \notin first
        /\ ToSet(got) \subseteq used /\ u \notin ToSet(got)
        /\ Deleted \in SUBSET UserID /\ Added \in SUBSET UserID
        /\ Cardinality(Deleted) \in Nat /\ Cardinality(Added) \in Nat
        /\ Len(got) \in Nat /\ Cardinality(ToSet(got)) \in Nat
    BY <1>1, <1>2, Sets DEF PagingTypeOK
  <1>7. Deleted' = Deleted /\ Added' = Added \cup {u} /\ u \notin Added
    BY <1>2, <1>6 DEF Deleted, Added
  <1>8. Cardinality(Added') = Cardinality(Added) + 1
    BY <1>6, <1>7, FiniteUsers, FS_AddElement
  <1>9. ASSUME NEW T, Upper(T, rows)
        PROVE  /\ Cardinality(T) \in Nat
               /\ Cardinality(T \cup {u}) = Cardinality(T) + 1
               /\ (first \cap (T \cup {u})) \ ToSet(got) = (first \cap T) \ ToSet(got)
    <2>1. T \in SUBSET UserID /\ u \notin T
      BY <1>6, <1>9 DEF Upper
    <2> QED BY <1>6, <2>1, FiniteUsers, FS_AddElement, FS_CardinalityType
  <1>10. PICK S : S = rows
    OBVIOUS
  <1>11. ASSUME NEW T, Upper(T, S) PROVE Upper(T, S \cup {u}) \/ Upper(T \cup {u}, S \cup {u})
    <2>1. u \in UserID \ S /\ S \in SUBSET UserID
      BY <1>6, <1>10
    <2> QED BY <1>5, <1>10, <1>11, <2>1, UpperAdd
  <1>12. \E W \in SUBSET rows' : Behind(W)'
    <2>1. PICK T \in SUBSET rows : Behind(T)
      BY <1>5 DEF PagingInv
    <2>2. PICK m, k, d : /\ m = Cardinality((first \cap T) \ ToSet(got))
                         /\ k = Len(got) /\ d = Cardinality(Deleted)
      OBVIOUS
    <2>3. Upper(T, S) /\ m <= d /\ (T = S \/ m + k <= Cardinality(T) + d)
      BY <1>10, <2>1, <2>2 DEF Behind, BehindIn
    <2>4. m \in Nat /\ k \in Nat /\ d \in Nat
      <3>1. (first \cap T) \ ToSet(got) \in SUBSET UserID
        BY <1>6
      <3> QED BY <1>6, <2>2, <3>1, Count
    <2>5. PICK W \in {T, T \cup {u}} : Upper(W, S \cup {u}) /\ (T = S => W = S \cup {u})
      <3>1. CASE T = S
        BY <3>1 DEF Upper
      <3>2. CASE T # S
        BY <1>11, <2>3, <3>2
      <3> QED BY <3>1, <3>2
    <2>6. Cardinality(T) \in Nat /\ Cardinality(W) \in Nat /\ Cardinality(W) >= Cardinality(T)
      <3>1. Cardinality(T) \in Nat /\ Cardinality(T \cup {u}) = Cardinality(T) + 1
        BY <1>9, <1>10, <2>3
      <3>2. CASE W = T
        BY <3>1, <3>2
      <3>3. CASE W = T \cup {u}
        BY <3>1, <3>3
      <3> QED BY <3>2, <3>3
    <2>7. (first \cap W) \ ToSet(got) = (first \cap T) \ ToSet(got)
      BY <1>9, <1>10, <2>3, <2>5
    <2>8. W = S \cup {u} \/ m + k <= Cardinality(W) + d
      BY <2>3, <2>4, <2>5, <2>6
    <2>9. BehindIn(W, S \cup {u}, first, ToSet(got), k, d)
      BY <2>2, <2>3, <2>5, <2>7, <2>8 DEF BehindIn
    <2>10. Behind(W)'
      BY <1>2, <1>7, <1>10, <2>2, <2>9 DEF Behind
    <2> QED BY <1>2, <1>10, <2>1, <2>5, <2>10
  <1>13. \E W \in SUBSET rows' : Again(W)'
    <2>1. PICK T \in SUBSET rows : Again(T)
      BY <1>5 DEF PagingInv
    <2>2. PICK a, k, twice : /\ a = Cardinality(Added) /\ k = Len(got) /\ twice = Twice
      OBVIOUS
    <2>3. /\ Upper(T, S) /\ ToSet(got) \cap S \subseteq T
          /\ twice <= a /\ twice + Cardinality(T) <= k + a
      BY <1>10, <2>1, <2>2 DEF Again, AgainIn
    <2>4. a \in Nat /\ k \in Nat /\ twice \in Int
      BY <1>6, <2>2 DEF Twice
    <2>5. PICK W \in {T, T \cup {u}} : Upper(W, S \cup {u})
      BY <1>11, <2>3
    <2>6. Cardinality(T) \in Nat /\ Cardinality(W) \in Nat
          /\ Cardinality(W) <= Cardinality(T) + 1
      <3>1. Cardinality(T) \in Nat /\ Cardinality(T \cup {u}) = Cardinality(T) + 1
        BY <1>9, <1>10, <2>3
      <3>2. CASE W = T
        BY <3>1, <3>2
      <3>3. CASE W = T \cup {u}
        BY <3>1, <3>3
      <3> QED BY <3>2, <3>3
    <2>7. ToSet(got) \cap (S \cup {u}) \subseteq W
      BY <1>6, <2>3, <2>5
    <2>8. twice <= a + 1 /\ twice + Cardinality(W) <= k + (a + 1)
      BY <2>3, <2>4, <2>6
    <2>9. AgainIn(W, S \cup {u}, ToSet(got), k, twice, a + 1)
      BY <2>5, <2>7, <2>8 DEF AgainIn
    <2>10. Again(W)'
      BY <1>2, <1>8, <1>10, <2>2, <2>9 DEF Again, Twice
    <2> QED BY <1>2, <1>10, <2>1, <2>5, <2>10
  <1> QED BY <1>12, <1>13

(* A delete moves the rows below it up.                                    *)
LEMMA DeleteKeeps ==
    ASSUME PagingInv, NEW u \in UserID, Delete(u)
    PROVE  PagingInv'
  <1>1. PagingTypeOK /\ limit \in Limits /\ PageStart(OffsetOf(offset)) = Len(got)
    BY DEF PagingInv
  <1>2. /\ u \in rows /\ rows' = rows \ {u} /\ used' = used
        /\ first' = first /\ limit' = limit /\ offset' = offset
        /\ got' = got /\ phase' = phase /\ phase = "scan"
    BY DEF Delete, client
  <1>3. Basics'
    BY <1>1, <1>2 DEF Basics, PagingTypeOK
  <1>4. SUFFICES ASSUME ~Ties'
                 PROVE  /\ \E W \in SUBSET rows' : Behind(W)'
                        /\ \E W \in SUBSET rows' : Again(W)'
    BY <1>3 DEF PagingInv, Basics
  <1>5. ~Ties
    BY <1>2, <1>4 DEF Ties
  <1>6. /\ rows \in SUBSET UserID /\ rows \subseteq used
        /\ Deleted \in SUBSET UserID /\ Added \in SUBSET UserID
        /\ Cardinality(Deleted) \in Nat /\ Cardinality(Added) \in Nat
        /\ Len(got) \in Nat /\ Cardinality(ToSet(got)) \in Nat
    BY <1>1, Sets DEF PagingTypeOK
  <1>7. Deleted' = Deleted \cup {u} /\ Added' = Added /\ u \notin Deleted
    BY <1>2, <1>6 DEF Deleted, Added
  <1>8. Cardinality(Deleted') = Cardinality(Deleted) + 1
    BY <1>6, <1>7, FiniteUsers, FS_AddElement
  <1>9. PICK S : S = rows
    OBVIOUS
  <1>10. ASSUME NEW T, Upper(T, S)
         PROVE  /\ Upper(T \ {u}, S \ {u})
                /\ Cardinality(T) \in Nat /\ Cardinality(T \ {u}) \in Nat
                /\ Cardinality(T \ {u}) <= Cardinality(T)
                /\ Cardinality(T) <= Cardinality(T \ {u}) + 1
    <2>1. T \in SUBSET UserID
      BY <1>6, <1>9, <1>10 DEF Upper
    <2>2. IsFiniteSet(T) /\ Cardinality(T) \in Nat /\ Cardinality(T \ {u}) \in Nat
      BY <2>1, FiniteUsers, Count
    <2>3. Cardinality(T \ {u}) = IF u \in T THEN Cardinality(T) - 1 ELSE Cardinality(T)
      BY <2>2, FS_RemoveElement
    <2>4. Upper(T \ {u}, S \ {u})
      BY <1>10, UpperRemove
    <2> QED BY <2>2, <2>3, <2>4
  <1>11. \E W \in SUBSET rows' : Behind(W)'
    <2>1. PICK T \in SUBSET rows : Behind(T)
      BY <1>5 DEF PagingInv
    <2>2. PICK m, k, d, W, n : /\ m = Cardinality((first \cap T) \ ToSet(got))
                               /\ k = Len(got) /\ d = Cardinality(Deleted)
                               /\ W = T \ {u}
                               /\ n = Cardinality((first \cap W) \ ToSet(got))
      OBVIOUS
    <2>3. Upper(T, S) /\ m <= d /\ (T = S \/ m + k <= Cardinality(T) + d)
      BY <1>9, <2>1, <2>2 DEF Behind, BehindIn
    <2>4. m \in Nat /\ k \in Nat /\ d \in Nat /\ n \in Nat /\ n <= m
      <3>1. /\ (first \cap T) \ ToSet(got) \in SUBSET UserID
            /\ (first \cap W) \ ToSet(got) \in SUBSET ((first \cap T) \ ToSet(got))
        BY <1>6, <2>2
      <3> QED BY <1>6, <2>2, <3>1, Count
    <2>5. /\ Upper(W, S \ {u}) /\ Cardinality(W) \in Nat /\ Cardinality(T) \in Nat
          /\ Cardinality(T) <= Cardinality(W) + 1
      BY <1>10, <2>2, <2>3
    <2>6. n <= d + 1 /\ (W = S \ {u} \/ n + k <= Cardinality(W) + (d + 1))
      BY <2>2, <2>3, <2>4, <2>5
    <2>7. BehindIn(W, S \ {u}, first, ToSet(got), k, d + 1)
      BY <2>2, <2>5, <2>6 DEF BehindIn
    <2>8. Behind(W)'
      BY <1>2, <1>8, <1>9, <2>2, <2>7 DEF Behind
    <2> QED BY <1>2, <1>9, <2>1, <2>2, <2>8
  <1>12. \E W \in SUBSET rows' : Again(W)'
    <2>1. PICK T \in SUBSET rows : Again(T)
      BY <1>5 DEF PagingInv
    <2>2. PICK a, k, twice, W : /\ a = Cardinality(Added) /\ k = Len(got)
                                /\ twice = Twice /\ W = T \ {u}
      OBVIOUS
    <2>3. /\ Upper(T, S) /\ ToSet(got) \cap S \subseteq T
          /\ twice <= a /\ twice + Cardinality(T) <= k + a
      BY <1>9, <2>1, <2>2 DEF Again, AgainIn
    <2>4. a \in Nat /\ k \in Nat /\ twice \in Int
      BY <1>6, <2>2 DEF Twice
    <2>5. /\ Upper(W, S \ {u}) /\ Cardinality(W) \in Nat /\ Cardinality(T) \in Nat
          /\ Cardinality(W) <= Cardinality(T)
      BY <1>10, <2>2, <2>3
    <2>6. ToSet(got) \cap (S \ {u}) \subseteq W
      BY <2>2, <2>3
    <2>7. twice + Cardinality(W) <= k + a
      BY <2>3, <2>4, <2>5
    <2>8. AgainIn(W, S \ {u}, ToSet(got), k, twice, a)
      BY <2>3, <2>5, <2>6, <2>7 DEF AgainIn
    <2>9. Again(W)'
      BY <1>2, <1>7, <1>9, <2>2, <2>8 DEF Again, Twice
    <2> QED BY <1>2, <1>9, <2>1, <2>2, <2>9
  <1> QED BY <1>11, <1>12

(* At first nothing is behind the client.                                  *)
LEMMA PagingInit == Init => PagingInv
  <1> SUFFICES ASSUME Init PROVE PagingInv
    OBVIOUS
  <1>1. /\ rows \in SUBSET UserID /\ used = rows /\ first = rows /\ got = <<>>
        /\ limit \in Limits /\ offset \in Starts /\ phase = "scan"
    BY DEF Init
  <1>2. Len(got) = 0 /\ ToSet(got) = {} /\ got \in Seq(used)
    BY <1>1, EmptySeq DEF ToSet
  <1>3. PagingTypeOK /\ PageStart(OffsetOf(offset)) = Len(got)
    BY <1>1, <1>2, ParameterAssumption, StartAssumption DEF PagingTypeOK
  <1>4. Cardinality({}) = 0
    BY FS_EmptySet
  <1>5. Deleted = {} /\ Added = {} /\ (first \cap {}) \ ToSet(got) = {}
    BY <1>1 DEF Deleted, Added
  <1>6. Upper({}, rows)
    BY DEF Upper
  <1>7. Behind({})
    BY <1>1, <1>2, <1>4, <1>5, <1>6 DEF Behind, BehindIn
  <1>8. Again({})
    BY <1>2, <1>4, <1>5, <1>6 DEF Again, AgainIn, Twice
  <1> QED BY <1>1, <1>3, <1>7, <1>8 DEF PagingInv

(* Pages, registrations and deletes keep the invariant.                    *)
LEMMA PagingStep == PagingInv /\ [Next]_vars => PagingInv'
  <1> SUFFICES ASSUME PagingInv, [Next]_vars PROVE PagingInv'
    OBVIOUS
  <1>1. CASE UNCHANGED vars
    <2>1. /\ rows' = rows /\ used' = used /\ first' = first /\ limit' = limit
          /\ offset' = offset /\ got' = got /\ phase' = phase
      BY <1>1 DEF vars, table, client
    <2>2. Ties' = Ties
      BY <2>1 DEF Ties
    <2>3. \A T : Behind(T)' = Behind(T) /\ Again(T)' = Again(T)
      BY <2>1 DEF Behind, Again, Twice, Deleted, Added
    <2>4. PagingTypeOK'
      BY <2>1 DEF PagingInv, PagingTypeOK
    <2> QED BY <2>1, <2>2, <2>3, <2>4 DEF PagingInv
  <1>2. CASE List
    <2>1. Basics'
      BY <1>2, ListBasics
    <2>2. ASSUME ~Ties' PROVE /\ \E W \in SUBSET rows' : Behind(W)'
                              /\ \E W \in SUBSET rows' : Again(W)'
      <3>1. ~Ties
        BY <1>2, <2>2 DEF Ties, List, table
      <3>2. PICK T : Behind(T)
        BY <3>1 DEF PagingInv
      <3>3. PICK R : Again(R)
        BY <3>1 DEF PagingInv
      <3> QED BY <1>2, <3>1, <3>2, <3>3, ListKeepsBehind, ListKeepsAgain
    <2> QED BY <2>1, <2>2 DEF PagingInv, Basics
  <1> QED BY <1>1, <1>2, RegisterKeeps, DeleteKeeps DEF Next, ListFails, Finished

LEMMA PagingAlways == Spec => []PagingInv
  BY PagingInit, PagingStep, PTL DEF Spec

-----------------------------------------------------------------------------
(* Every variable keeps to its type; the client receives accounts only.    *)
THEOREM PagingTypeCorrect == Spec => []PagingTypeOK
  <1>1. PagingInv => PagingTypeOK
    BY DEF PagingInv
  <1> QED BY <1>1, PagingAlways, PTL

(* A client that has read to the end missed, of the accounts that were     *)
(* there all the time, no more than were deleted meanwhile.                *)
THEOREM MissesNoMoreThanDeleted == Spec => []MissesOnlyByDeletes
  <1>1. PagingInv => MissesOnlyByDeletes
    <2> SUFFICES ASSUME PagingInv, phase = "done", ~Ties
                 PROVE  Cardinality((first \cap rows) \ ToSet(got)) <= Cardinality(Deleted)
      BY DEF MissesOnlyByDeletes
    <2>1. PICK T : Behind(T)
      BY DEF PagingInv
    <2> QED BY <2>1 DEF Behind, BehindIn
  <1> QED BY <1>1, PagingAlways, PTL

(* It receives accounts again no more often than others were registered.   *)
THEOREM RepeatsNoMoreThanAdded == Spec => []RepeatsOnlyByInserts
  <1>1. PagingInv => RepeatsOnlyByInserts
    <2> SUFFICES ASSUME PagingInv, ~Ties
                 PROVE  Len(got) - Cardinality(ToSet(got)) <= Cardinality(Added)
      BY DEF RepeatsOnlyByInserts
    <2>1. PICK T : Again(T)
      BY DEF PagingInv
    <2> QED BY <2>1 DEF Again, AgainIn, Twice
  <1> QED BY <1>1, PagingAlways, PTL

(* No answer is longer than the service allows, and none but the last is   *)
(* shorter than asked for.                                                 *)
THEOREM FillsPages == Spec => PagesFilled
  <1> DEFINE asked == Atoi(limit, DefaultLimit)
             Filled == LET n == Len(got') - Len(got)
                       IN /\ n <= MaxLimit
                          /\ asked > 0 /\ Len(got') < Cardinality(rows) =>
                                n = Min({asked, MaxLimit})
  <1>1. PagingInv /\ [Next]_vars => (got' # got => Filled)
    <2> SUFFICES ASSUME PagingInv, [Next]_vars, got' # got PROVE Filled
      OBVIOUS
    <2>1. List /\ PagingTypeOK /\ limit \in Limits
      BY DEF PagingInv, Next, ListFails, Register, Delete, Finished, vars, client
    <2>2. PICK o, p : /\ NextPage(rows, Len(got), PageSize(asked), o, p)
                      /\ Len(p) # 0 /\ got' = got \o p
      BY <2>1, ListPage
    <2>3. p \in Seq(used) /\ got \in Seq(used)
      BY <2>1, <2>2, SeqMonotonic DEF NextPage, PagingTypeOK
    <2>4. Len(got') = Len(got) + Len(p) /\ Len(got) \in Nat /\ Len(p) \in Nat
      BY <2>2, <2>3, ToSetOfConcat, LenProperties
    <2>5. /\ PageSize(asked) \in Nat \ {0} /\ PageSize(asked) <= MaxLimit
          /\ asked > 0 => PageSize(asked) = Min({asked, MaxLimit})
      BY <2>1, PageSizes
    <2>6. /\ Len(p) <= PageSize(asked)
          /\ Len(p) = PageSize(asked) \/ Len(got) + Len(p) = Cardinality(rows)
      BY <2>2 DEF NextPage
    <2>7. Cardinality(rows) \in Nat /\ MaxLimit \in Nat
      BY <2>1, Sets, Count, LimitAssumption
    <2> HIDE DEF asked
    <2>8. Len(got') - Len(got) = Len(p)
      BY <2>4
    <2> QED BY <2>4, <2>5, <2>6, <2>7, <2>8
  <1>2. PagingInv /\ [Next]_vars => [got' # got => Filled]_vars
    BY <1>1
  <1>3. Spec => [][got' # got => Filled]_vars
    BY <1>2, PagingAlways, PTL DEF Spec
  <1> QED BY <1>3 DEF PagesFilled
=============================================================================
