------------------------------ MODULE CommonLemmas ------------------------------
(***************************************************************************)
(* What the proofs of several components need of sets of naturals, of      *)
(* sequences and of recursive functions.  The step of a loop is a function *)
(* T[k] and what holds after k steps a set P[k], so that the lemmas have   *)
(* constants as parameters, and no operators.                              *)
(***************************************************************************)
EXTENDS Sums, FiniteSets, SequencesExt, SequenceTheorems, FiniteSetTheorems,
        WellFoundedInduction, TLAPS

\* A set of naturals has a least element.
LEMMA LeastIn ==
    ASSUME NEW S \in SUBSET Nat, S # {}
    PROVE  \E m \in S : \A k \in S : m <= k
<1>1. IsWellFoundedOn(OpToRel(<, Nat), Nat)
    BY NatLessThanWellFounded
<1>2. PICK m \in S : \A k \in S : <<k, m>> \notin OpToRel(<, Nat)
    BY <1>1, WFMin
<1>3. \A k \in S : ~ (k < m)
    BY <1>2, Zenon DEF OpToRel
<1> QED
    BY <1>3

\* What holds at first and is kept by every step holds all along.
LEMMA Induction ==
    ASSUME NEW n \in Nat, NEW t, NEW P, t[0] \in P[0],
           \A k \in 1 .. n : t[k - 1] \in P[k - 1] => t[k] \in P[k]
    PROVE  \A k \in 0 .. n : t[k] \in P[k]
<1> DEFINE S == {k \in 0 .. n : t[k] \notin P[k]}
<1>1. SUFFICES ASSUME S # {} PROVE FALSE
    OBVIOUS
<1>2. PICK m \in S : \A k \in S : m <= k
    <2>1. S \in SUBSET Nat
        OBVIOUS
    <2> HIDE DEF S
    <2> QED
        BY <2>1, <1>1, LeastIn
<1>3. m \in 1 .. n /\ m - 1 \in 0 .. n /\ m - 1 \notin S
    BY <1>2
<1> QED
    BY <1>2, <1>3

\* f has what a loop has after each of its first n steps.
Runs(f, n, x, T, P) ==
    /\ f = [k \in 0 .. n |-> f[k]] /\ f[0] = x
    /\ \A k \in 1 .. n : f[k] = T[k][f[k - 1]]
    /\ \A k \in 0 .. n : f[k] \in P[k]

\* There is such a function.
LEMMA LoopExists ==
    ASSUME NEW n \in Nat, NEW x, NEW T, NEW P, x \in P[0],
           \A k \in 1 .. n : \A s \in P[k - 1] : T[k][s] \in P[k]
    PROVE  \E f : Runs(f, n, x, T, P)
<1> DEFINE S == {k \in 0 .. n : ~ \E f : Runs(f, k, x, T, P)}
<1>1. SUFFICES ASSUME S # {} PROVE FALSE
    OBVIOUS
<1>2. PICK m \in S : \A k \in S : m <= k
    <2>1. S \in SUBSET Nat
        OBVIOUS
    <2> HIDE DEF S
    <2> QED
        BY <2>1, <1>1, LeastIn
<1>3. CASE m = 0
    <2>1. Runs([k \in 0 .. 0 |-> x], 0, x, T, P)
        BY DEF Runs
    <2> QED
        BY <2>1, <1>2, <1>3
<1>4. CASE m # 0
    <2>1. m \in 1 .. n /\ m - 1 \in 0 .. n /\ m - 1 \notin S
        BY <1>2, <1>4
    <2>2. PICK f : Runs(f, m - 1, x, T, P)
        BY <2>1
    <2> DEFINE y == T[m][f[m - 1]]
               g == [k \in 0 .. m |-> IF k = m THEN y ELSE f[k]]
    <2>3. y \in P[m]
        <3>1. f[m - 1] \in P[m - 1]
            BY <2>1, <2>2 DEF Runs
        <3> QED
            BY <3>1, <2>1
    <2>4. g[m] = y /\ \A k \in 0 .. m - 1 : g[k] = f[k]
        BY <2>1
    <2>5. g = [k \in 0 .. m |-> g[k]]
        OBVIOUS
    <2>6. g[0] = x
        BY <2>1, <2>2, <2>4 DEF Runs
    <2> HIDE DEF g
    <2>7. ASSUME NEW k \in 1 .. m PROVE g[k] = T[k][g[k - 1]]
        <3>1. CASE k = m
            <4>1. g[m - 1] = f[m - 1]
                BY <2>4, <2>1
            <4> QED
                BY <4>1, <3>1, <2>4
        <3>2. CASE k # m
            <4>1. k \in 1 .. m - 1 /\ k \in 0 .. m - 1 /\ k - 1 \in 0 .. m - 1
                BY <3>2, <2>1
            <4>2. f[k] = T[k][f[k - 1]]
                BY <4>1, <2>2 DEF Runs
            <4>3. g[k] = f[k] /\ g[k - 1] = f[k - 1]
                BY <4>1, <2>4
            <4> QED
                BY <4>2, <4>3
        <3> QED
            BY <3>1, <3>2
    <2>8. ASSUME NEW k \in 0 .. m PROVE g[k] \in P[k]
        <3>1. CASE k = m
            BY <3>1, <2>3, <2>4
        <3>2. CASE k # m
            <4>1. k \in 0 .. m - 1
                BY <3>2, <2>1
            <4> QED
                BY <4>1, <2>2, <2>4 DEF Runs
        <3> QED
            BY <3>1, <3>2
    <2>9. Runs(g, m, x, T, P)
        BY <2>5, <2>6, <2>7, <2>8 DEF Runs
    <2> QED
        BY <2>9, <1>2
<1> QED
    BY <1>3, <1>4

-----------------------------------------------------------------------------
(* Sequences. *)

\* What a sequence holds, and that it is that.
LEMMA SeqIs ==
    ASSUME NEW S, NEW q \in Seq(S)
    PROVE  /\ \A i \in 1 .. Len(q) : q[i] \in S
           /\ q = [i \in 1 .. Len(q) |-> q[i]]
OBVIOUS

\* Appending to a sequence.
LEMMA AppendIs ==
    ASSUME NEW S, NEW s \in Seq(S), NEW x \in S
    PROVE  /\ Append(s, x) \in Seq(S) /\ Len(Append(s, x)) = Len(s) + 1 /\ Len(s) \in Nat
           /\ DOMAIN s = 1 .. Len(s) /\ DOMAIN Append(s, x) = 1 .. Len(s) + 1
           /\ \A i \in 1 .. Len(s) : s[i] \in S /\ Append(s, x)[i] = s[i]
           /\ Append(s, x)[Len(s) + 1] = x
OBVIOUS

\* InsertAt
LEMMA InsertAtIs ==
    ASSUME NEW S, NEW q \in Seq(S), NEW e \in S, NEW p \in 0 .. Len(q)
    PROVE  /\ InsertAt(q, p + 1, e) \in Seq(S)
           /\ Len(InsertAt(q, p + 1, e)) = Len(q) + 1
           /\ \A i \in 1 .. Len(q) + 1 :
                 InsertAt(q, p + 1, e)[i] =
                     IF i <= p THEN q[i] ELSE IF i = p + 1 THEN e ELSE q[i - 1]
<1> DEFINE a == SubSeq(q, 1, p)  b == SubSeq(q, p + 1, Len(q))  r == (a \o <<e>>) \o b
<1>1. InsertAt(q, p + 1, e) = r
    <2>1. (p + 1) - 1 = p
        OBVIOUS
    <2> QED
        BY <2>1, Zenon DEF InsertAt
<1>2. a \in Seq(S) /\ Len(a) = p /\ \A i \in 1 .. p : a[i] = q[i]
    <2>1. \A i \in 1 .. p : q[i] \in S
        OBVIOUS
    <2> QED
        BY <2>1, SubSeqProperties
<1>3. b \in Seq(S) /\ Len(b) = Len(q) - p /\ \A i \in 1 .. Len(q) - p : b[i] = q[p + i]
    <2>1. \A i \in p + 1 .. Len(q) : q[i] \in S
        OBVIOUS
    <2>2. /\ b \in Seq(S)
          /\ Len(b) = IF p + 1 <= Len(q) THEN Len(q) - (p + 1) + 1 ELSE 0
          /\ \A i \in 1 .. Len(q) - (p + 1) + 1 : b[i] = q[(p + 1) + i - 1]
        <3> HIDE DEF b
        <3>1. p + 1 \in Int /\ Len(q) \in Int
            OBVIOUS
        <3> QED
            BY <2>1, <3>1, SubSeqProperties DEF b
    <2> QED
        BY <2>2
<1>4. <<e>> \in Seq(S) /\ Len(<<e>>) = 1 /\ <<e>>[1] = e
    OBVIOUS
<1>5. Len(a) = p /\ Len(b) = Len(q) - p
    BY <1>2, <1>3
<1>6. /\ a \o <<e>> \in Seq(S) /\ Len(a \o <<e>>) = p + 1
      /\ \A i \in 1 .. p + 1 : (a \o <<e>>)[i] = IF i <= p THEN q[i] ELSE e
    <2> HIDE DEF a
    <2>1. /\ a \o <<e>> \in Seq(S) /\ Len(a \o <<e>>) = Len(a) + Len(<<e>>)
          /\ \A i \in 1 .. Len(a) + Len(<<e>>) :
                (a \o <<e>>)[i] = IF i <= Len(a) THEN a[i] ELSE <<e>>[i - Len(a)]
        BY <1>2, <1>4, ConcatProperties
    <2> QED
        BY <2>1, <1>2, <1>4
<1>7. /\ r \in Seq(S) /\ Len(r) = Len(q) + 1
      /\ \A i \in 1 .. Len(q) + 1 :
            r[i] = IF i <= p + 1 THEN (a \o <<e>>)[i] ELSE b[i - (p + 1)]
    <2> DEFINE c == a \o <<e>>
    <2> HIDE DEF a, b, c
    <2>1. /\ c \o b \in Seq(S) /\ Len(c \o b) = Len(c) + Len(b)
          /\ \A i \in 1 .. Len(c) + Len(b) :
                (c \o b)[i] = IF i <= Len(c) THEN c[i] ELSE b[i - Len(c)]
        BY <1>3, <1>6, ConcatProperties DEF c
    <2>2. Len(c) = p + 1
        BY <1>6 DEF c
    <2>3. Len(c) + Len(b) = Len(q) + 1
        BY <2>2, <1>5
    <2> QED
        BY <2>1, <2>2, <2>3 DEF c
<1> HIDE DEF r, a, b
<1>8. ASSUME NEW i \in 1 .. Len(q) + 1
      PROVE  r[i] = IF i <= p THEN q[i] ELSE IF i = p + 1 THEN e ELSE q[i - 1]
    <2>1. CASE i <= p + 1
        BY <2>1, <1>7, <1>6
    <2>2. CASE i > p + 1
        <3>1. r[i] = b[i - (p + 1)]
            BY <2>2, <1>7
        <3>2. PICK j \in 1 .. Len(q) - p : j = i - (p + 1)
            BY <2>2
        <3>3. b[j] = q[p + j] /\ p + j = i - 1
            BY <3>2, <1>3
        <3> QED
            BY <3>1, <3>2, <3>3, <2>2
    <2> QED
        BY <2>1, <2>2
<1> QED
    BY <1>1, <1>7, <1>8

-----------------------------------------------------------------------------
(* Sums. *)

\* f has the sums of the first numbers of ts, up to n of them.
Summed(f, ts, n) ==
    f = [k \in 0 .. n |-> IF k = 0 THEN 0 ELSE f[k - 1] + ts[k]]

\* There are such sums.
LEMMA SumsExist ==
    ASSUME NEW ts \in Seq(Nat)
    PROVE  \E f : Summed(f, ts, Len(ts))
<1> DEFINE n == Len(ts)
           T == [k \in 1 .. n |-> [s \in Nat |-> s + ts[k]]]
           P == [k \in 0 .. n |-> Nat]
<1>1. n \in Nat /\ \A k \in 1 .. n : ts[k] \in Nat
    OBVIOUS
<1> HIDE DEF n
<1>2. 0 \in P[0] /\ \A k \in 1 .. n : \A s \in P[k - 1] : T[k][s] \in P[k]
    BY <1>1
<1>3. PICK f : Runs(f, n, 0, T, P)
    <2> HIDE DEF T, P
    <2> QED
        BY <1>1, <1>2, LoopExists
<1>4. \A k \in 1 .. n : f[k] = f[k - 1] + ts[k]
    <2> TAKE k \in 1 .. n
    <2>1. f[k - 1] \in P[k - 1] /\ f[k] = T[k][f[k - 1]]
        <3>1. k - 1 \in 0 .. n
            BY <1>1
        <3> HIDE DEF P, T
        <3> QED
            BY <3>1, <1>3 DEF Runs
    <2>2. P[k - 1] = Nat
        BY <1>1
    <2> QED
        BY <2>1, <2>2
<1>5. f = [k \in 0 .. n |-> f[k]] /\ f[0] = 0
    BY <1>3 DEF Runs
<1>6. \A k \in 0 .. n : f[k] = IF k = 0 THEN 0 ELSE f[k - 1] + ts[k]
    <2> TAKE k \in 0 .. n
    <2>1. CASE k = 0
        BY <2>1, <1>5
    <2>2. CASE k # 0
        <3>1. k \in 1 .. n
            BY <2>2, <1>1
        <3> QED
            BY <3>1, <2>2, <1>4
    <2> QED
        BY <2>1, <2>2
<1>7. [k \in 0 .. n |-> f[k]] = [k \in 0 .. n |-> IF k = 0 THEN 0 ELSE f[k - 1] + ts[k]]
    BY <1>6
<1> QED
    BY <1>5, <1>7 DEF Summed, n

\* Total is the last of them.
LEMMA TotalIs ==
    ASSUME NEW ts \in Seq(Nat)
    PROVE  \E f : /\ f[0] = 0 /\ f[Len(ts)] = Total(ts)
                  /\ \A k \in 1 .. Len(ts) : f[k] = f[k - 1] + ts[k]
                  /\ \A k \in 0 .. Len(ts) : f[k] \in Nat
<1> DEFINE n == Len(ts)
           sum == CHOOSE f : f = [k \in 0 .. n |-> IF k = 0 THEN 0 ELSE f[k - 1] + ts[k]]
<1>1. Total(ts) = sum[n]
    BY DEF Total
<1>2. sum = [k \in 0 .. n |-> IF k = 0 THEN 0 ELSE sum[k - 1] + ts[k]]
    BY SumsExist, Zenon DEF Summed
<1> HIDE DEF sum
<1>3. n \in Nat /\ \A k \in 1 .. n : ts[k] \in Nat
    OBVIOUS
<1>4. sum[0] = 0 /\ \A k \in 1 .. n : sum[k] = sum[k - 1] + ts[k]
    BY <1>2, <1>3
<1> DEFINE P == [k \in 0 .. n |-> Nat]
<1>5. \A k \in 0 .. n : sum[k] \in P[k]
    <2>1. sum[0] \in P[0] /\ \A k \in 1 .. n : sum[k - 1] \in P[k - 1] => sum[k] \in P[k]
        BY <1>3, <1>4
    <2> HIDE DEF P, n
    <2> QED
        BY <2>1, <1>3, Induction
<1>6. \A k \in 0 .. n : sum[k] \in Nat
    BY <1>5
<1> QED
    BY <1>1, <1>4, <1>6

\* f grows by the first n numbers of ts.
Grows(f, ts, n) == \A k \in 1 .. n : f[k] = f[k - 1] + ts[k]

\* What grows by the same numbers stays the same.
LEMMA SumsAgree ==
    ASSUME NEW n \in Nat, NEW f, NEW g, NEW s, NEW t, f[0] = g[0],
           Grows(f, s, n), Grows(g, t, n), \A k \in 1 .. n : s[k] = t[k]
    PROVE  f[n] = g[n]
<1> DEFINE P == [k \in 0 .. n |-> {g[k]}]
<1>1. f[0] \in P[0] /\ \A k \in 1 .. n : f[k - 1] \in P[k - 1] => f[k] \in P[k]
    BY DEF Grows
<1>2. \A k \in 0 .. n : f[k] \in P[k]
    <2> HIDE DEF P
    <2> QED
        BY <1>1, Induction
<1> QED
    BY <1>2

\* The total of naturals is one.
LEMMA TotalNat ==
    ASSUME NEW ts \in Seq(Nat)
    PROVE  Total(ts) \in Nat
<1>1. PICK f : f[Len(ts)] = Total(ts) /\ \A k \in 0 .. Len(ts) : f[k] \in Nat
    BY TotalIs
<1>2. Len(ts) \in 0 .. Len(ts)
    OBVIOUS
<1> QED
    BY <1>1, <1>2

\* The total of no numbers.
LEMMA TotalEmpty == Total(<<>>) = 0
<1>1. <<>> \in Seq(Nat) /\ Len(<<>>) = 0
    OBVIOUS
<1>2. PICK f : f[0] = 0 /\ f[Len(<<>>)] = Total(<<>>)
    BY <1>1, TotalIs
<1> QED
    BY <1>1, <1>2

\* The sum of one number more.
LEMMA TotalAppend ==
    ASSUME NEW ts \in Seq(Nat), NEW t \in Nat
    PROVE  Total(ts) \in Nat /\ Total(Append(ts, t)) = Total(ts) + t
<1> DEFINE n == Len(ts)  u == Append(ts, t)
<1>1. u \in Seq(Nat) /\ Len(u) = n + 1 /\ u[n + 1] = t /\ \A i \in 1 .. n : u[i] = ts[i]
    OBVIOUS
<1>2. n \in Nat
    OBVIOUS
<1>3. PICK f : /\ f[0] = 0 /\ f[n] = Total(ts)
               /\ \A k \in 1 .. n : f[k] = f[k - 1] + ts[k]
               /\ \A k \in 0 .. n : f[k] \in Nat
    BY TotalIs
<1> HIDE DEF u
<1>4. PICK g : /\ g[0] = 0 /\ g[Len(u)] = Total(u)
               /\ \A k \in 1 .. Len(u) : g[k] = g[k - 1] + u[k]
    <2> HIDE DEF n
    <2> QED
        BY <1>1, TotalIs
<1> HIDE DEF n
<1>5. f[n] = g[n]
    <2>1. f[0] = g[0]
        BY <1>3, <1>4
    <2>2. \A k \in 1 .. n : k \in 1 .. n + 1
        BY <1>2
    <2>3. Grows(f, ts, n) /\ Grows(g, u, n) /\ \A k \in 1 .. n : ts[k] = u[k]
        BY <2>2, <1>1, <1>3, <1>4 DEF Grows
    <2> QED
        BY <2>1, <2>3, <1>2, SumsAgree
<1>6. g[n + 1] = g[n] + t
    BY <1>1, <1>2, <1>4
<1>7. n \in 0 .. n
    BY <1>2
<1> QED
    BY <1>1, <1>3, <1>5, <1>6, <1>4, <1>7 DEF u

\* And of one number less.
LEMMA TotalTail ==
    ASSUME NEW ts \in Seq(Nat), ts # <<>>
    PROVE  /\ Total(ts) \in Nat /\ Total(Tail(ts)) \in Nat
           /\ Total(ts) = ts[1] + Total(Tail(ts))
<1> DEFINE u == Tail(ts)  n == Len(u)
<1>1. /\ u \in Seq(Nat) /\ n \in Nat /\ Len(ts) = n + 1 /\ ts[1] \in Nat
      /\ \A k \in 1 .. n : u[k] = ts[k + 1]
    OBVIOUS
<1>2. PICK f : /\ f[0] = 0 /\ f[Len(ts)] = Total(ts)
               /\ \A k \in 1 .. Len(ts) : f[k] = f[k - 1] + ts[k]
               /\ \A k \in 0 .. Len(ts) : f[k] \in Nat
    BY TotalIs
<1> HIDE DEF u
<1>3. PICK g : /\ g[0] = 0 /\ g[Len(u)] = Total(u)
               /\ \A k \in 1 .. Len(u) : g[k] = g[k - 1] + u[k]
               /\ \A k \in 0 .. Len(u) : g[k] \in Nat
    BY <1>1, TotalIs
<1> HIDE DEF n
<1> DEFINE h == [k \in 0 .. n |-> f[k + 1] - ts[1]]
<1>4. f[1] = ts[1]
    <2>1. 1 \in 1 .. Len(ts) /\ 1 - 1 = 0
        BY <1>1
    <2> QED
        BY <2>1, <1>1, <1>2
<1>5. h[0] = g[0]
    BY <1>1, <1>3, <1>4
<1>6. ASSUME NEW k \in 1 .. n
      PROVE  h[k] = h[k - 1] + u[k]
    <2>1. k + 1 \in 1 .. Len(ts) /\ (k + 1) - 1 = k /\ k \in 0 .. Len(ts) /\ k - 1 \in 0 .. n
          /\ k \in 0 .. n /\ (k - 1) + 1 = k
        BY <1>1
    <2>2. f[k + 1] = f[k] + ts[k + 1] /\ f[k] \in Nat
        BY <2>1, <1>2
    <2>3. ts[k + 1] = u[k] /\ ts[k + 1] \in Nat
        BY <2>1, <1>1
    <2>4. h[k] = f[k + 1] - ts[1] /\ h[k - 1] = f[k] - ts[1]
        BY <2>1
    <2> HIDE DEF h
    <2> QED
        BY <2>2, <2>3, <2>4, <1>1
<1>7. h[n] = g[n]
    <2>1. Grows(h, u, n)
        BY <1>6 DEF Grows
    <2>2. Grows(g, u, n)
        BY <1>3 DEF Grows, n
    <2> HIDE DEF h
    <2> QED
        BY <1>1, <1>5, <2>1, <2>2, SumsAgree
<1>8. h[n] = f[n + 1] - ts[1]
    BY <1>1
<1>9. f[n + 1] \in Nat /\ g[n] \in Nat
    BY <1>1, <1>2, <1>3 DEF n
<1>10. f[n + 1] = Total(ts) /\ g[n] = Total(u)
    BY <1>1, <1>2, <1>3 DEF n
<1> QED
    BY <1>1, <1>7, <1>8, <1>9, <1>10 DEF u
=================================================================================
