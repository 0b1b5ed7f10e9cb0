---------------------------- MODULE ConcatProofs ----------------------------
(***************************************************************************)
(* Numbers, recursion and what Joined returns: the lemmas that stand for   *)
(* induction over data in the other proofs.                                *)
(***************************************************************************)
EXTENDS Concat, SequenceTheorems, WellFoundedInduction, TLAPS

\* A set of numbers that is not empty has a smallest one.
LEMMA Least ==
    ASSUME NEW S \in SUBSET Nat, S # {}
    PROVE  \E n \in S : \A m \in S : n <= m
<1>1. PICK n \in S : \A m \in S : ~(<<m, n>> \in OpToRel(<, Nat))
  BY NatLessThanWellFounded, WFMin, Zenon
<1>2. \A m \in S : ~(m < n)
  BY <1>1 DEF OpToRel
<1>3. QED
  BY <1>2

-----------------------------------------------------------------------------
(* Recursion. The libraries' theorems take an operator; this one takes the steps as a *)
(* function.                                                                          *)

\* The first n steps.
Steps(S, b, step, n, g) ==
    /\ g \in [0..n -> S]
    /\ g[0] = b
    /\ \A k \in 0..n-1 : g[k+1] = step[k][g[k]]

LEMMA StepsExist ==
    ASSUME NEW S, NEW b \in S, NEW step \in [Nat -> [S -> S]]
    PROVE  \A n \in Nat : \E g : Steps(S, b, step, n, g)
<1> DEFINE Bad == {n \in Nat : ~(\E g : Steps(S, b, step, n, g))}
<1>1. SUFFICES ASSUME Bad # {} PROVE FALSE
  OBVIOUS
<1>2. PICK n \in Bad : \A m \in Bad : n <= m
  BY <1>1, Least
<1>3. n \in Nat /\ ~(\E g : Steps(S, b, step, n, g))
  BY <1>2
<1>4. CASE n = 0
  <2>1. Steps(S, b, step, 0, [k \in 0..0 |-> b])
    BY DEF Steps
  <2>2. QED
    BY <1>3, <1>4, <2>1
<1>5. CASE n # 0
  <2>1. n - 1 \in Nat /\ n - 1 \notin Bad
    BY <1>2, <1>3, <1>5
  <2>2. PICK g : Steps(S, b, step, n - 1, g)
    BY <2>1
  <2>3. /\ g \in [0..n-1 -> S] /\ g[0] = b
        /\ \A k \in 0..n-2 : g[k+1] = step[k][g[k]]
    BY <1>3, <2>2 DEF Steps
  <2> DEFINE h == [k \in 0..n |-> IF k < n THEN g[k] ELSE step[n-1][g[n-1]]]
  <2>4. g[n-1] \in S /\ step[n-1] \in [S -> S]
    BY <1>3, <2>1, <2>3
  <2>5. step[n-1][g[n-1]] \in S
    BY <2>4
  <2>6. h \in [0..n -> S]
    BY <1>3, <2>3, <2>5
  <2>7. h[0] = b
    BY <1>3, <1>5, <2>3
  <2>8. ASSUME NEW k \in 0..n-1 PROVE h[k+1] = step[k][h[k]]
    <3>1. CASE k < n - 1
      BY <1>3, <2>3, <3>1
    <3>2. CASE k = n - 1
      BY <1>3, <2>1, <3>2
    <3>3. QED
      BY <1>3, <3>1, <3>2
  <2>9. Steps(S, b, step, n, h)
    BY <2>6, <2>7, <2>8 DEF Steps
  <2>10. QED
    BY <1>3, <2>9
<1>6. QED
  BY <1>4, <1>5

LEMMA StepsAgree ==
    ASSUME NEW S, NEW b \in S, NEW step \in [Nat -> [S -> S]],
           NEW n \in Nat, NEW g, Steps(S, b, step, n, g),
           NEW m \in Nat, NEW h, Steps(S, b, step, m, h), n <= m
    PROVE  \A k \in 0..n : g[k] = h[k]
<1> DEFINE Bad == {k \in 0..n : g[k] # h[k]}
<1>1. SUFFICES ASSUME Bad # {} PROVE FALSE
  OBVIOUS
<1>2. PICK k \in Bad : \A l \in Bad : k <= l
  <2>1. Bad \in SUBSET Nat
    OBVIOUS
  <2>2. QED
    BY <1>1, <2>1, Least
<1>3. k \in 0..n /\ g[k] # h[k] /\ k # 0
  BY <1>2 DEF Steps
<1>4. k - 1 \in 0..n-1 /\ k - 1 \in 0..m-1 /\ k - 1 \notin Bad
  BY <1>2, <1>3
<1>5. g[k-1] = h[k-1]
  BY <1>3, <1>4
<1>6. g[(k-1)+1] = step[k-1][g[k-1]] /\ h[(k-1)+1] = step[k-1][h[k-1]]
  BY <1>4 DEF Steps
<1>7. (k-1)+1 = k
  BY <1>3
<1>8. QED
  BY <1>3, <1>5, <1>6, <1>7

AllSteps(S, b, step, f) ==
    /\ f \in [Nat -> S]
    /\ f[0] = b
    /\ \A k \in Nat : f[k+1] = step[k][f[k]]

LEMMA Recursion ==
    ASSUME NEW S, NEW b, b \in S, NEW step, step \in [Nat -> [S -> S]]
    PROVE  \E f : AllSteps(S, b, step, f)
<1> DEFINE G(n) == CHOOSE g : Steps(S, b, step, n, g)
           f == [n \in Nat |-> G(n)[n]]
<1>1. \A n \in Nat : Steps(S, b, step, n, G(n))
  BY StepsExist
<1> HIDE DEF G
<1>2. \A n \in Nat : G(n)[n] \in S
  BY <1>1 DEF Steps
<1>3. f \in [Nat -> S]
  BY <1>2
<1>4. f[0] = b
  BY <1>1 DEF Steps
<1>5. ASSUME NEW k \in Nat PROVE f[k+1] = step[k][f[k]]
  <2>1. k + 1 \in Nat /\ k <= k + 1 /\ k \in 0..k /\ k \in 0..(k+1)-1
    OBVIOUS
  <2>2. Steps(S, b, step, k, G(k)) /\ Steps(S, b, step, k + 1, G(k+1))
    BY <1>1
  <2>3. G(k)[k] = G(k+1)[k]
    BY <2>1, <2>2, StepsAgree
  <2>4. G(k+1)[k+1] = step[k][G(k+1)[k]]
    BY <2>1, <2>2 DEF Steps
  <2>5. QED
    BY <2>3, <2>4
<1>6. QED
  BY <1>3, <1>4, <1>5 DEF AllSteps

-----------------------------------------------------------------------------
(* Sequences joined. *)

LEMMA JoinedIs ==
    ASSUME NEW S, NEW seqs \in Seq(Seq(S))
    PROVE  /\ Joined(seqs) \in [0..Len(seqs) -> Seq(S)]
           /\ Joined(seqs)[0] = <<>>
           /\ \A k \in 1..Len(seqs) : Joined(seqs)[k] = Joined(seqs)[k-1] \o seqs[k]
<1> DEFINE n == Len(seqs)
           step == [k \in Nat |-> [s \in Seq(S) |-> IF k < n THEN s \o seqs[k+1] ELSE s]]
           Good(g) == g = [k \in 0..n |-> IF k = 0 THEN <<>> ELSE g[k-1] \o seqs[k]]
<1>1. n \in Nat /\ \A k \in 1..n : seqs[k] \in Seq(S)
  BY ElementOfSeq
<1>2. step \in [Nat -> [Seq(S) -> Seq(S)]]
  <2>1. ASSUME NEW k \in Nat, NEW s \in Seq(S)
        PROVE  (IF k < n THEN s \o seqs[k+1] ELSE s) \in Seq(S)
    <3>1. CASE k < n
      <4>1. seqs[k+1] \in Seq(S)
        BY <1>1, <3>1
      <4>2. QED
        BY <3>1, <4>1
    <3>2. CASE ~(k < n)
      BY <3>2
    <3>3. QED
      BY <3>1, <3>2
  <2>2. QED
    BY <2>1
<1>3. <<>> \in Seq(S)
  OBVIOUS
<1> HIDE DEF n, step
<1>4. PICK f \in [Nat -> Seq(S)] : f[0] = <<>> /\ \A k \in Nat : f[k+1] = step[k][f[k]]
  <2>1. \E f : AllSteps(Seq(S), <<>>, step, f)
    BY <1>2, <1>3, Recursion
  <2>2. QED
    BY <2>1 DEF AllSteps
<1> DEFINE g == [k \in 0..n |-> f[k]]
<1>5. ASSUME NEW k \in 1..n PROVE f[k] = f[k-1] \o seqs[k]
  <2>1. k - 1 \in Nat /\ (k-1) + 1 = k /\ k - 1 < n
    BY <1>1
  <2>2. f[(k-1)+1] = step[k-1][f[k-1]] /\ f[k-1] \in Seq(S)
    BY <1>4, <2>1
  <2>3. QED
    BY <2>1, <2>2 DEF step
<1>6. Good(g)
  <2>1. ASSUME NEW k \in 0..n
        PROVE  g[k] = IF k = 0 THEN <<>> ELSE g[k-1] \o seqs[k]
    <3>1. CASE k = 0
      BY <1>1, <1>4, <3>1
    <3>2. CASE k # 0
      <4>1. k \in 1..n /\ k - 1 \in 0..n
        BY <1>1, <3>2
      <4>2. QED
        BY <1>5, <3>2, <4>1, Zenon
    <3>3. QED
      BY <3>1, <3>2
  <2>2. QED
    BY <2>1
<1>7. Joined(seqs) = CHOOSE h : Good(h)
  BY Zenon DEF Joined, n
<1>8. Good(Joined(seqs))
  BY <1>6, <1>7, Zenon
<1> DEFINE joined == Joined(seqs)
<1> HIDE DEF g
<1>9. joined = [k \in 0..n |-> IF k = 0 THEN <<>> ELSE joined[k-1] \o seqs[k]]
  BY <1>8
<1>10. joined = g
  <2> DEFINE Bad == {k \in 0..n : joined[k] # g[k]}
  <2>1. SUFFICES ASSUME Bad # {} PROVE FALSE
    BY <1>6, <1>9
  <2>2. Bad \in SUBSET Nat
    OBVIOUS
  <2>3. PICK k \in Bad : \A l \in Bad : k <= l
    BY <2>1, <2>2, Least
  <2>4. k # 0
    BY <1>6, <1>9, <2>3
  <2>5. k \in 0..n /\ k - 1 \in 0..n /\ k - 1 \notin Bad
    BY <1>1, <2>3, <2>4
  <2>6. joined[k-1] = g[k-1]
    BY <2>5
  <2>7. joined[k] = joined[k-1] \o seqs[k] /\ g[k] = g[k-1] \o seqs[k]
    BY <1>6, <1>9, <2>4, <2>5
  <2>8. QED
    BY <2>3, <2>6, <2>7
<1>11. \A k \in 0..n : joined[k] \in Seq(S)
  BY <1>1, <1>4, <1>10 DEF g
<1>12. joined \in [0..n -> Seq(S)]
  BY <1>9, <1>11
<1>13. joined[0] = <<>>
  BY <1>1, <1>9
<1> HIDE DEF joined
<1>14. ASSUME NEW k \in 1..n PROVE joined[k] = joined[k-1] \o seqs[k]
  <2>1. k \in 0..n /\ k # 0
    BY <1>1
  <2>2. QED
    BY <1>9, <2>1
<1>15. QED
  BY <1>12, <1>13, <1>14 DEF n, joined

\* A sequence after one of a known length.
LEMMA After ==
    ASSUME NEW S, NEW s \in Seq(S), NEW t \in Seq(S)
    PROVE  /\ s \o t \in Seq(S)
           /\ Len(s \o t) = Len(s) + Len(t)
           /\ \A j \in 1..Len(s) : (s \o t)[j] = s[j]
           /\ \A j \in 1..Len(t) : (s \o t)[Len(s) + j] = t[j]
<1> DEFINE c == Len(s)
           d == Len(t)
           both == s \o t
<1>1. c \in Nat /\ d \in Nat
  BY LenProperties
<1>2. /\ both \in Seq(S) /\ Len(both) = c + d
      /\ \A j \in 1..c + d : both[j] = IF j <= c THEN s[j] ELSE t[j - c]
  BY ConcatProperties
<1> HIDE DEF c, d, both
<1>3. \A j \in 1..c : both[j] = s[j]
  BY <1>1, <1>2
<1>4. ASSUME NEW j \in 1..d PROVE both[c + j] = t[j]
  <2>1. c + j \in 1..c + d /\ ~(c + j <= c) /\ (c + j) - c = j
    BY <1>1
  <2>2. QED
    BY <1>2, <2>1
<1>5. QED
  BY <1>1, <1>2, <1>3, <1>4 DEF c, d, both

\* Each sequence is where the ones before it end, and nothing that follows moves it.
LEMMA JoinedAt ==
    ASSUME NEW S, NEW seqs \in Seq(Seq(S)), NEW k \in 1..Len(seqs), NEW n \in k..Len(seqs)
    PROVE  /\ Len(Joined(seqs)[k-1]) \in Nat
           /\ Len(Joined(seqs)[k]) = Len(Joined(seqs)[k-1]) + Len(seqs[k])
           /\ Len(Joined(seqs)[k]) <= Len(Joined(seqs)[n])
           /\ \A j \in 1..Len(seqs[k]) :
                Joined(seqs)[n][Len(Joined(seqs)[k-1]) + j] = seqs[k][j]
<1> DEFINE N == Len(seqs)
           J == Joined(seqs)
           End(m) == Len(J[m])
           Size(m) == Len(seqs[m])
<1>1. /\ J \in [0..N -> Seq(S)]
      /\ \A m \in 1..N : J[m] = J[m-1] \o seqs[m]
  BY JoinedIs
<1>2. N \in Nat /\ k \in 1..N /\ n \in k..N
  OBVIOUS
<1> HIDE DEF J
<1>3. ASSUME NEW m \in 1..N
      PROVE  J[m-1] \in Seq(S) /\ seqs[m] \in Seq(S) /\ J[m] \in Seq(S)
  <2>1. seqs[m] \in Seq(S)
    BY ElementOfSeq
  <2>2. m - 1 \in 0..N /\ m \in 0..N
    BY <1>2
  <2>3. QED
    BY <1>1, <2>1, <2>2
<1>4. ASSUME NEW m \in 1..N
      PROVE  /\ End(m-1) \in Nat /\ End(m) \in Nat /\ Size(m) \in Nat
             /\ End(m) = End(m-1) + Size(m)
             /\ \A j \in 1..End(m-1) : J[m][j] = J[m-1][j]
             /\ \A j \in 1..Size(m) : J[m][End(m-1) + j] = seqs[m][j]
  <2>1. J[m] = J[m-1] \o seqs[m] /\ J[m-1] \in Seq(S) /\ seqs[m] \in Seq(S) /\ J[m] \in Seq(S)
    BY <1>1, <1>3
  <2> DEFINE before == J[m-1]
             new == seqs[m]
  <2>2. /\ Len(before \o new) = Len(before) + Len(new)
        /\ \A j \in 1..Len(before) : (before \o new)[j] = before[j]
        /\ \A j \in 1..Len(new) : (before \o new)[Len(before) + j] = new[j]
    <3>1. before \in Seq(S) /\ new \in Seq(S)
      BY <2>1
    <3> HIDE DEF before, new
    <3>2. QED
      BY <3>1, After
  <2>3. QED
    BY <2>1, <2>2, LenProperties
<1> HIDE DEF N, End, Size
<1> DEFINE Kept(m) == End(k) <= End(m) /\ \A j \in 1..Size(k) : J[m][End(k-1) + j] = seqs[k][j]
           Bad == {m \in k..N : ~Kept(m)}
<1>5. Bad = {}
  <2>1. SUFFICES ASSUME Bad # {} PROVE FALSE
    OBVIOUS
  <2>2. Bad \in SUBSET Nat
    BY <1>2
  <2>3. PICK m \in Bad : \A l \in Bad : m <= l
    BY <2>1, <2>2, Least
  <2>4. m \in k..N /\ m \in 1..N /\ m \in Nat /\ ~Kept(m)
    BY <1>2, <2>3
  <2>5. m # k
    BY <1>2, <1>4, <2>4
  <2>6. m - 1 \in k..N /\ m - 1 \notin Bad
    BY <1>2, <2>3, <2>4, <2>5
  <2>7. Kept(m - 1)
    BY <2>6
  <2>8. /\ End(m-1) \in Nat /\ End(m) \in Nat /\ Size(m) \in Nat
        /\ End(m) = End(m-1) + Size(m)
        /\ \A j \in 1..End(m-1) : J[m][j] = J[m-1][j]
    BY <1>4, <2>4
  <2>9. End(k) \in Nat /\ End(k-1) \in Nat /\ Size(k) \in Nat /\ End(k) = End(k-1) + Size(k)
    BY <1>2, <1>4
  <2>10. End(k) <= End(m)
    BY <2>7, <2>8, <2>9
  <2>11. ASSUME NEW j \in 1..Size(k) PROVE J[m][End(k-1) + j] = seqs[k][j]
    <3>1. End(k-1) + j \in 1..End(m-1)
      <4>1. End(k) <= End(m-1) /\ End(m-1) \in Nat
        BY <2>7, <2>8
      <4>2. j \in 1..Size(k)
        OBVIOUS
      <4>3. QED
        <5>1. 1 <= End(k-1) + j /\ End(k-1) + j <= End(k) /\ End(k-1) + j \in Nat
          BY <2>9, <4>2
        <5>2. QED
          BY <2>9, <4>1, <5>1
    <3>2. QED
      BY <2>7, <2>8, <3>1
  <2>12. QED
    BY <2>4, <2>10, <2>11
<1>6. Kept(n)
  BY <1>2, <1>5
<1>7. QED
  BY <1>2, <1>4, <1>6 DEF J, N, End, Size

\* The same, counted from the sequences before it.
LEMMA JoinedNext ==
    ASSUME NEW S, NEW seqs \in Seq(Seq(S)), NEW k \in 0..Len(seqs)-1
    PROVE  LET all == Joined(seqs)[Len(seqs)]
               before == Len(Joined(seqs)[k])
           IN  /\ before \in Nat
               /\ Len(Joined(seqs)[k+1]) = before + Len(seqs[k+1])
               /\ Len(Joined(seqs)[k+1]) <= Len(all)
               /\ \A j \in 1..Len(seqs[k+1]) : all[before + j] = seqs[k+1][j]
<1>1. PICK n \in Nat : n = Len(seqs)
  BY LenProperties
<1>2. k + 1 \in 1..n /\ n \in k+1..n /\ (k+1) - 1 = k
  BY <1>1
<1>3. PICK next \in 1..n : next = k + 1 /\ n \in next..n /\ next - 1 = k
  BY <1>2
<1>4. /\ Len(Joined(seqs)[next-1]) \in Nat
      /\ Len(Joined(seqs)[next]) = Len(Joined(seqs)[next-1]) + Len(seqs[next])
      /\ Len(Joined(seqs)[next]) <= Len(Joined(seqs)[n])
      /\ \A j \in 1..Len(seqs[next]) :
           Joined(seqs)[n][Len(Joined(seqs)[next-1]) + j] = seqs[next][j]
  <2>1. next \in 1..Len(seqs) /\ n \in next..Len(seqs)
    BY <1>1, <1>3
  <2>2. QED
    BY <2>1, JoinedAt
<1>5. QED
  BY <1>1, <1>3, <1>4
=============================================================================
