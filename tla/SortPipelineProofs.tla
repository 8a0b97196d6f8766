--------------------------- MODULE SortPipelineProofs ---------------------------
(***************************************************************************)
(* That the sort thread's merge is one, for any number of lists of any     *)
(* lengths, that the two counters are exact, and that the threads are a    *)
(* conduit.  Of a merge in progress Merging says how what is out and what  *)
(* is left of the lists belong together; it does not depend on the order   *)
(* of the lists in the heap, which Ordered adds while there are more than  *)
(* two.                                                                    *)
(***************************************************************************)
EXTENDS SortPipeline, CommonLemmas

Lists == Seq(Fragments) \ {<<>>}

\* The lists of a heap, once each, and in the order of their first timestamps.
Of(heap) == {heap[h] : h \in DOMAIN heap}
Different(heap) == \A h, g \in DOMAIN heap : heap[h] = heap[g] => h = g
Ordered(heap) == \A h, g \in DOMAIN heap : h < g => heap[h][1].ts <= heap[g][1].ts

-----------------------------------------------------------------------------
(* The heap. *)

\* What the lists of a heap begin with.
LEMMA FirstIs ==
    ASSUME NEW l \in Lists
    PROVE  /\ Len(l) \in Nat \ {0} /\ DOMAIN l = 1 .. Len(l) /\ 1 \in DOMAIN l
           /\ \A i \in DOMAIN l : l[i] \in Fragments /\ l[i].ts \in Nat
<1>1. l \in Seq(Fragments) /\ l # <<>>
    BY DEF Lists
<1>2. Len(l) \in Nat \ {0} /\ DOMAIN l = 1 .. Len(l)
      /\ \A i \in 1 .. Len(l) : l[i] \in Fragments
    BY <1>1
<1> QED
    BY <1>2, PipelineAssumption

\* Place puts a list behind those that begin as early.
LEMMA PlaceAt ==
    ASSUME NEW heap \in Seq(Lists), Ordered(heap), NEW x \in Lists
    PROVE  \E p \in 0 .. Len(heap) :
              /\ Place(heap, x) = InsertAt(heap, p + 1, x)
              /\ \A k \in 1 .. Len(heap) : k <= p <=> heap[k][1].ts <= x[1].ts
<1> DEFINE n == Len(heap)
           S == {k \in DOMAIN heap : heap[k][1].ts <= x[1].ts}
           U == {k \in 1 .. n + 1 : k = n + 1 \/ k \notin S}
<1>1. n \in Nat /\ DOMAIN heap = 1 .. n /\ \A k \in 1 .. n : heap[k] \in Lists
    OBVIOUS
<1>2. x[1].ts \in Nat /\ \A k \in 1 .. n : heap[k][1].ts \in Nat
    BY <1>1, FirstIs
<1>3. PICK m \in U : \A k \in U : m <= k
    <2>1. U \in SUBSET Nat /\ n + 1 \in U
        BY <1>1
    <2> HIDE DEF U
    <2> QED
        BY <2>1, LeastIn
<1>4. m \in 1 .. n + 1
    OBVIOUS
<1>5. \A k \in 1 .. n : k <= m - 1 => k \in S
    <2> TAKE k \in 1 .. n
    <2> HAVE k <= m - 1
    <2>1. k \notin U
        <3> HIDE DEF U
        <3> QED
            BY <1>3, <1>4, <1>1
    <2> QED
        BY <2>1, <1>1
<1>6. \A k \in 1 .. n : k \in S => k <= m - 1
    <2> SUFFICES ASSUME NEW k \in 1 .. n, k \in S, ~(k <= m - 1) PROVE FALSE
        OBVIOUS
    <2>1. m \in 1 .. n /\ m <= k
        BY <1>1, <1>4
    <2>2. ~(heap[m][1].ts <= x[1].ts)
        BY <2>1, <1>1, <1>3
    <2>3. heap[m][1].ts <= heap[k][1].ts
        <3>1. CASE m = k
            BY <3>1, <1>2
        <3>2. CASE m < k
            BY <3>2, <2>1, <1>1 DEF Ordered
        <3> QED
            BY <3>1, <3>2, <2>1, <1>1
    <2> QED
        BY <2>1, <2>2, <2>3, <1>2
<1>7. S = 1 .. m - 1
    BY <1>1, <1>4, <1>5, <1>6
<1>8. Cardinality(S) = m - 1
    <2>1. Cardinality(1 .. m - 1) = IF 1 > m - 1 THEN 0 ELSE (m - 1) - 1 + 1
        BY <1>1, <1>4, FS_Interval
    <2> HIDE DEF S, U
    <2> QED
        BY <2>1, <1>7, <1>4, <1>1
<1>9. Place(heap, x) = InsertAt(heap, (m - 1) + 1, x)
    BY <1>8 DEF Place
<1>10. m - 1 \in 0 .. Len(heap)
    BY <1>1, <1>4
<1>11. \A k \in 1 .. Len(heap) : k <= m - 1 <=> heap[k][1].ts <= x[1].ts
    BY <1>1, <1>5, <1>6
<1> HIDE DEF S, U
<1> QED
    BY <1>9, <1>10, <1>11

\* And with it the heap stays one.
LEMMA PlaceIs ==
    ASSUME NEW heap \in Seq(Lists), Ordered(heap), NEW x \in Lists,
           Different(heap), x \notin Of(heap)
    PROVE  /\ Place(heap, x) \in Seq(Lists) /\ Len(Place(heap, x)) = Len(heap) + 1
           /\ Of(Place(heap, x)) = Of(heap) \cup {x}
           /\ Ordered(Place(heap, x)) /\ Different(Place(heap, x))
<1> DEFINE n == Len(heap)  r == Place(heap, x)
<1>1. n \in Nat /\ DOMAIN heap = 1 .. n /\ \A k \in 1 .. n : heap[k] \in Lists
    OBVIOUS
<1>2. x[1].ts \in Nat /\ \A k \in 1 .. n : heap[k][1].ts \in Nat
    BY <1>1, FirstIs
<1>3. PICK p \in 0 .. n :
          /\ r = InsertAt(heap, p + 1, x)
          /\ \A k \in 1 .. n : k <= p <=> heap[k][1].ts <= x[1].ts
    BY PlaceAt
<1>4. /\ r \in Seq(Lists) /\ Len(r) = n + 1
      /\ \A i \in 1 .. n + 1 :
            r[i] = IF i <= p THEN heap[i] ELSE IF i = p + 1 THEN x ELSE heap[i - 1]
    <2> DEFINE s == InsertAt(heap, p + 1, x)
    <2>1. /\ s \in Seq(Lists) /\ Len(s) = n + 1
          /\ \A i \in 1 .. n + 1 :
                s[i] = IF i <= p THEN heap[i] ELSE IF i = p + 1 THEN x ELSE heap[i - 1]
        BY InsertAtIs
    <2> HIDE DEF s, r, n
    <2>2. r = s
        BY <1>3 DEF s
    <2> QED
        BY <2>1, <2>2
<1>5. DOMAIN r = 1 .. n + 1
    BY <1>4
<1> HIDE DEF n, r
<1> DEFINE at(i) == IF i <= p THEN i ELSE i - 1
<1>6. \A i \in 1 .. n + 1 : i # p + 1 => at(i) \in 1 .. n /\ r[i] = heap[at(i)]
    BY <1>1, <1>4
<1>7. p + 1 \in 1 .. n + 1 /\ r[p + 1] = x
    BY <1>1, <1>4
<1>8. Of(r) = Of(heap) \cup {x}
    <2>1. ASSUME NEW i \in 1 .. n + 1 PROVE r[i] \in Of(heap) \cup {x}
        <3>1. CASE i = p + 1
            BY <3>1, <1>7
        <3>2. CASE i # p + 1
            BY <3>2, <1>6, <1>1 DEF Of
        <3> QED
            BY <3>1, <3>2
    <2>2. ASSUME NEW k \in 1 .. n PROVE heap[k] \in Of(r)
        <3>1. CASE k <= p
            <4>1. k \in 1 .. n + 1 /\ r[k] = heap[k]
                BY <3>1, <1>1, <1>4
            <4> QED
                BY <4>1, <1>5 DEF Of
        <3>2. CASE ~(k <= p)
            <4>1. k + 1 \in 1 .. n + 1 /\ (k + 1) - 1 = k /\ ~(k + 1 <= p) /\ k + 1 # p + 1
                BY <3>2, <1>1
            <4>2. r[k + 1] = heap[k]
                BY <4>1, <1>4
            <4> QED
                BY <4>1, <4>2, <1>5 DEF Of
        <3> QED
            BY <3>1, <3>2
    <2>3. x \in Of(r)
        BY <1>5, <1>7 DEF Of
    <2>4. Of(r) \subseteq Of(heap) \cup {x}
        BY <2>1, <1>5 DEF Of
    <2>5. Of(heap) \subseteq Of(r)
        BY <2>2, <1>1 DEF Of
    <2> QED
        BY <2>3, <2>4, <2>5
<1>9. Different(r)
    <2> SUFFICES ASSUME NEW i \in 1 .. n + 1, NEW j \in 1 .. n + 1, r[i] = r[j]
                 PROVE  i = j
        BY <1>5 DEF Different
    <2>1. \A k \in 1 .. n : heap[k] # x
        BY <1>1 DEF Of
    <2>2. CASE i = p + 1 \/ j = p + 1
        BY <2>1, <2>2, <1>6, <1>7
    <2>3. CASE i # p + 1 /\ j # p + 1
        <3>1. at(i) = at(j)
            BY <2>3, <1>6, <1>1 DEF Different
        <3> QED
            BY <3>1, <2>3, <1>1
    <2> QED
        BY <2>2, <2>3
<1>10. Ordered(r)
    <2> SUFFICES ASSUME NEW i \in 1 .. n + 1, NEW j \in 1 .. n + 1, i < j
                 PROVE  r[i][1].ts <= r[j][1].ts
        BY <1>5 DEF Ordered
    <2>1. CASE i = p + 1
        <3>1. j # p + 1 /\ at(j) \in 1 .. n /\ r[j] = heap[at(j)] /\ ~(at(j) <= p)
            BY <2>1, <1>6, <1>1
        <3>2. ~(heap[at(j)][1].ts <= x[1].ts) /\ heap[at(j)][1].ts \in Nat
            <4> HIDE DEF at
            <4> QED
                BY <3>1, <1>2, <1>3
        <3> QED
            BY <3>1, <3>2, <1>2, <1>7, <2>1
    <2>2. CASE j = p + 1
        <3>1. i # p + 1 /\ at(i) \in 1 .. n /\ r[i] = heap[at(i)] /\ at(i) <= p
            BY <2>2, <1>6, <1>1
        <3>2. heap[at(i)][1].ts <= x[1].ts
            <4> HIDE DEF at
            <4> QED
                BY <3>1, <1>2, <1>3
        <3> QED
            BY <3>1, <3>2, <1>7, <2>2
    <2>3. CASE i # p + 1 /\ j # p + 1
        <3>1. at(i) \in 1 .. n /\ at(j) \in 1 .. n /\ r[i] = heap[at(i)] /\ r[j] = heap[at(j)]
            BY <2>3, <1>6
        <3>2. at(i) < at(j)
            BY <2>3, <1>1
        <3> HIDE DEF at
        <3> QED
            BY <3>1, <3>2, <1>1 DEF Ordered
    <2> QED
        BY <2>1, <2>2, <2>3
<1> QED
    BY <1>4, <1>8, <1>9, <1>10 DEF n, r

-----------------------------------------------------------------------------
(* A merge in progress. *)

\* The fragments of the lists, and where they are from.
All(b) == {Conduit!Fragment(b, p) : p \in Conduit!Places(b)}

Apart(b, f, g) == Conduit!PlaceOf(b, f)[1] # Conduit!PlaceOf(b, g)[1]

Merging(b, out, left) ==
    /\ out \in Seq(Fragments) /\ left \subseteq Lists
    /\ \A j \in DOMAIN out : out[j] \in All(b)
    /\ \A l \in left : \A i \in DOMAIN l : l[i] \in All(b)
    /\ \A j, k \in DOMAIN out : j < k => Conduit!Before(b, out[j], out[k])
    /\ \A l \in left : \A i, j \in DOMAIN l : i < j => Conduit!Before(b, l[i], l[j])
    /\ \A k \in DOMAIN out : \A l \in left : \A i \in DOMAIN l : Conduit!Before(b, out[k], l[i])
    /\ \A l, r \in left : l # r => \A i \in DOMAIN l, j \in DOMAIN r : Apart(b, l[i], r[j])
    /\ \A f \in All(b) : \/ \E j \in DOMAIN out : out[j] = f
                         \/ \E l \in left : \E i \in DOMAIN l : l[i] = f

\* What a turn leaves of a list.
Rest(l) == IF Len(l) = 1 THEN {} ELSE {Tail(l)}

\* What is left of a list is the list from its second fragment on.
LEMMA RestIs ==
    ASSUME NEW l \in Lists, NEW r \in Rest(l)
    PROVE  /\ r = Tail(l) /\ r \in Lists /\ Len(l) > 1
           /\ \A i \in DOMAIN r : i + 1 \in DOMAIN l /\ r[i] = l[i + 1] /\ 1 < i + 1
<1>1. l \in Seq(Fragments) /\ l # <<>> /\ Len(l) # 1 /\ r = Tail(l)
    BY DEF Lists, Rest
<1>2. Len(l) \in Nat /\ Len(l) > 1 /\ DOMAIN l = 1 .. Len(l)
    <2>1. Len(l) \in Nat \ {0} /\ DOMAIN l = 1 .. Len(l)
        BY FirstIs
    <2>2. Len(l) # 1
        BY <1>1
    <2> QED
        BY <2>1, <2>2
<1>3. /\ Tail(l) \in Seq(Fragments) /\ Len(Tail(l)) = Len(l) - 1
      /\ \A i \in 1 .. Len(l) - 1 : Tail(l)[i] = l[i + 1]
    BY <1>1
<1> DEFINE t == Tail(l)
<1> HIDE DEF t
<1>4. t \in Seq(Fragments) /\ Len(t) = Len(l) - 1
    BY <1>3 DEF t
<1>5. DOMAIN t = 1 .. Len(l) - 1 /\ t # <<>>
    BY <1>2, <1>4
<1>6. \A i \in DOMAIN t : i + 1 \in DOMAIN l /\ t[i] = l[i + 1] /\ 1 < i + 1
    BY <1>2, <1>3, <1>5 DEF t
<1> QED
    BY <1>1, <1>2, <1>4, <1>5, <1>6 DEF Lists, t

\* The rest of a list is none of the others.
LEMMA RestIsNew ==
    ASSUME NEW b, NEW out, NEW left, Merging(b, out, left), NEW l \in left,
           NEW r \in Rest(l)
    PROVE  r \notin left \ {l}
<1>1. l \in Lists
    BY DEF Merging
<1>2. r \in Lists /\ \A i \in DOMAIN r : i + 1 \in DOMAIN l /\ r[i] = l[i + 1]
    BY <1>1, RestIs
<1>3. 1 \in DOMAIN r /\ 1 + 1 \in DOMAIN l /\ r[1] = l[1 + 1]
    BY <1>2, FirstIs
<1> SUFFICES ASSUME r \in left, r # l PROVE FALSE
    OBVIOUS
<1>4. Apart(b, l[1 + 1], r[1])
    BY <1>3 DEF Merging
<1> QED
    BY <1>3, <1>4 DEF Apart

\* A turn that takes the first fragment of a list that begins as early as any.
LEMMA TakeFirst ==
    ASSUME NEW b, NEW out, NEW left, Merging(b, out, left), NEW l \in left,
           \A r \in left : l[1].ts <= r[1].ts
    PROVE  Merging(b, Append(out, l[1]), (left \ {l}) \cup Rest(l))
<1> DEFINE new == Append(out, l[1])
           rest == (left \ {l}) \cup Rest(l)
           n == Len(out)
<1>1. /\ out \in Seq(Fragments) /\ left \subseteq Lists /\ l \in Lists
      /\ \A j \in DOMAIN out : out[j] \in All(b)
      /\ \A r \in left : \A i \in DOMAIN r : r[i] \in All(b)
    BY DEF Merging
<1>2. 1 \in DOMAIN l /\ l[1] \in Fragments /\ DOMAIN l = 1 .. Len(l) /\ Len(l) \in Nat
    BY <1>1, FirstIs
<1>3. /\ new \in Seq(Fragments) /\ n \in Nat /\ DOMAIN out = 1 .. n /\ DOMAIN new = 1 .. n + 1
      /\ \A i \in 1 .. n : new[i] = out[i]
      /\ new[n + 1] = l[1]
    BY <1>1, <1>2, AppendIs
<1> HIDE DEF new, n
<1>4. \A r \in Rest(l) :
          /\ r \in Lists
          /\ \A i \in DOMAIN r : i + 1 \in DOMAIN l /\ r[i] = l[i + 1] /\ 1 < i + 1
    BY <1>1, RestIs
<1>5. rest \subseteq Lists
    BY <1>1, <1>4
<1>6. \A j \in DOMAIN new :
          (j \in DOMAIN out /\ new[j] = out[j]) \/ (j = n + 1 /\ new[j] = l[1])
    BY <1>3
<1>7. \A j \in DOMAIN new : new[j] \in All(b)
    BY <1>6, <1>1, <1>2
<1>8. ASSUME NEW r \in rest, NEW i \in DOMAIN r
      PROVE  /\ r[i] \in All(b)
             /\ Conduit!Before(b, l[1], r[i])
             /\ \A k \in DOMAIN out : Conduit!Before(b, out[k], r[i])
             /\ \A j \in DOMAIN r : i < j => Conduit!Before(b, r[i], r[j])
    <2>1. CASE r \in Rest(l)
        <3>1. r[i] = l[i + 1] /\ i + 1 \in DOMAIN l /\ 1 < i + 1
            BY <2>1, <1>4
        <3>2. Conduit!Before(b, l[1], l[i + 1])
            BY <3>1, <1>2 DEF Merging
        <3>3. \A k \in DOMAIN out : Conduit!Before(b, out[k], l[i + 1])
            BY <3>1 DEF Merging
        <3>4. ASSUME NEW j \in DOMAIN r, i < j PROVE Conduit!Before(b, r[i], r[j])
            <4>1. r[j] = l[j + 1] /\ j + 1 \in DOMAIN l
                BY <2>1, <1>4
            <4>2. i + 1 < j + 1
                <5>1. r \in Lists
                    BY <2>1, <1>4
                <5>2. i \in Nat /\ j \in Nat
                    BY <5>1, FirstIs
                <5> QED
                    BY <5>2, <3>4
            <4>3. Conduit!Before(b, l[i + 1], l[j + 1])
                BY <4>1, <4>2, <3>1 DEF Merging
            <4> QED
                BY <4>1, <4>3, <3>1
        <3>5. r[i] \in All(b)
            BY <3>1, <1>1
        <3> QED
            BY <3>1, <3>2, <3>3, <3>4, <3>5
    <2>2. CASE r \in left \ {l}
        <3>1. r \in Lists
            BY <2>2, <1>1
        <3>2. 1 \in DOMAIN r /\ i \in Nat \ {0} /\ r[1].ts \in Nat /\ r[i].ts \in Nat
              /\ l[1].ts \in Nat
            BY <3>1, <1>1, FirstIs
        <3>3. r[1].ts <= r[i].ts
            <4>1. CASE i = 1
                BY <4>1, <3>2
            <4>2. CASE i # 1
                <5>1. 1 < i
                    BY <4>2, <3>2
                <5> QED
                    BY <5>1, <3>2, <2>2 DEF Merging, Conduit!Before
            <4> QED
                BY <4>1, <4>2
        <3>4. l[1].ts <= r[1].ts
            BY <2>2
        <3>5. l[1].ts <= r[i].ts
            BY <3>2, <3>3, <3>4
        <3>6. Apart(b, l[1], r[i])
            BY <2>2, <1>2 DEF Merging
        <3>7. Conduit!Before(b, l[1], r[i])
            BY <3>5, <3>6 DEF Conduit!Before, Apart
        <3>8. \A k \in DOMAIN out : Conduit!Before(b, out[k], r[i])
            BY <2>2 DEF Merging
        <3>9. \A j \in DOMAIN r : i < j => Conduit!Before(b, r[i], r[j])
            BY <2>2 DEF Merging
        <3> QED
            BY <3>7, <3>8, <3>9, <2>2, <1>1
    <2> QED
        BY <2>1, <2>2
<1>9. ASSUME NEW j \in DOMAIN new, NEW k \in DOMAIN new, j < k
      PROVE  Conduit!Before(b, new[j], new[k])
    <2>1. j \in DOMAIN out /\ new[j] = out[j]
        BY <1>9, <1>3
    <2>2. CASE k \in DOMAIN out
        <3>1. new[k] = out[k]
            BY <2>2, <1>3
        <3> QED
            BY <3>1, <2>1, <2>2, <1>9 DEF Merging
    <2>3. CASE k = n + 1
        <3>1. new[k] = l[1]
            BY <2>3, <1>3
        <3> QED
            BY <3>1, <2>1, <1>2 DEF Merging
    <2> QED
        BY <2>2, <2>3, <1>6
<1>10. ASSUME NEW k \in DOMAIN new, NEW r \in rest, NEW i \in DOMAIN r
       PROVE  Conduit!Before(b, new[k], r[i])
    BY <1>6, <1>8
<1>11. ASSUME NEW r \in rest, NEW s \in rest, r # s, NEW i \in DOMAIN r, NEW j \in DOMAIN s
       PROVE  Apart(b, r[i], s[j])
    <2>1. CASE r \in left \ {l} /\ s \in left \ {l}
        BY <2>1, <1>11 DEF Merging
    <2>2. CASE r \in left \ {l} /\ s \in Rest(l)
        <3>1. s[j] = l[j + 1] /\ j + 1 \in DOMAIN l
            BY <2>2, <1>4
        <3> QED
            BY <3>1, <2>2 DEF Merging
    <2>3. CASE r \in Rest(l) /\ s \in left \ {l}
        <3>1. r[i] = l[i + 1] /\ i + 1 \in DOMAIN l
            BY <2>3, <1>4
        <3> QED
            BY <3>1, <2>3 DEF Merging
    <2>4. CASE r \in Rest(l) /\ s \in Rest(l)
        BY <2>4, <1>11 DEF Rest
    <2> QED
        BY <2>1, <2>2, <2>3, <2>4
<1>12. ASSUME NEW f \in All(b)
       PROVE  (\E j \in DOMAIN new : new[j] = f) \/ \E r \in rest : \E i \in DOMAIN r : r[i] = f
    <2>1. CASE \E j \in DOMAIN out : out[j] = f
        BY <2>1, <1>3
    <2>2. CASE \E r \in left \ {l} : \E i \in DOMAIN r : r[i] = f
        BY <2>2
    <2>3. ASSUME NEW i \in DOMAIN l, l[i] = f
          PROVE  \/ \E j \in DOMAIN new : new[j] = f
                 \/ \E r \in rest : \E k \in DOMAIN r : r[k] = f
        <3>1. CASE i = 1
            <4>1. n + 1 \in DOMAIN new /\ new[n + 1] = f
                BY <3>1, <2>3, <1>3
            <4> QED
                BY <4>1
        <3>2. CASE i # 1
            <4>1. Len(l) # 1 /\ i - 1 \in 1 .. Len(l) - 1 /\ (i - 1) + 1 = i
                BY <3>2, <1>2
            <4>2. l \in Seq(Fragments) /\ l # <<>>
                BY <1>1 DEF Lists
            <4>3. DOMAIN Tail(l) = 1 .. Len(l) - 1 /\ Tail(l)[i - 1] = l[i]
                BY <4>1, <4>2
            <4>4. Tail(l) \in rest
                BY <4>1 DEF Rest
            <4> QED
                BY <4>1, <4>3, <4>4, <2>3
        <3> QED
            BY <3>1, <3>2
    <2>4. (\E j \in DOMAIN out : out[j] = f) \/ \E r \in left : \E i \in DOMAIN r : r[i] = f
        BY DEF Merging
    <2> HIDE DEF rest
    <2> QED
        BY <2>1, <2>2, <2>3, <2>4
<1> HIDE DEF rest
<1>13. Merging(b, new, rest)
    BY <1>3, <1>5, <1>7, <1>8, <1>9, <1>10, <1>11, <1>12 DEF Merging
<1> QED
    BY <1>13 DEF new, rest

\* A heap without its first list.
LEMMA HeapTail ==
    ASSUME NEW heap \in Seq(Lists), heap # <<>>, Different(heap)
    PROVE  /\ Tail(heap) \in Seq(Lists) /\ Len(Tail(heap)) = Len(heap) - 1
           /\ Of(Tail(heap)) = Of(heap) \ {heap[1]}
           /\ Different(Tail(heap)) /\ (Ordered(heap) => Ordered(Tail(heap)))
<1> DEFINE t == Tail(heap)  n == Len(heap)
<1>1. /\ t \in Seq(Lists) /\ Len(t) = n - 1 /\ n \in Nat \ {0}
      /\ \A i \in 1 .. n - 1 : t[i] = heap[i + 1]
    OBVIOUS
<1>2. DOMAIN t = 1 .. n - 1 /\ DOMAIN heap = 1 .. n
    BY <1>1
<1> HIDE DEF t, n
<1>3. \A i \in 1 .. n - 1 : i + 1 \in 1 .. n /\ 1 # i + 1
    BY <1>1
<1>4. \A k \in 1 .. n : k = 1 \/ (k - 1 \in 1 .. n - 1 /\ (k - 1) + 1 = k)
    BY <1>1
<1>5. Of(t) = Of(heap) \ {heap[1]}
    <2>1. ASSUME NEW i \in 1 .. n - 1 PROVE t[i] \in Of(heap) \ {heap[1]}
        <3>1. i + 1 \in 1 .. n /\ 1 \in 1 .. n /\ 1 # i + 1 /\ t[i] = heap[i + 1]
            BY <1>1, <1>3
        <3> QED
            BY <3>1, <1>2 DEF Of, Different
    <2>2. ASSUME NEW k \in 1 .. n, heap[k] # heap[1] PROVE heap[k] \in Of(t)
        <3>1. k - 1 \in 1 .. n - 1 /\ (k - 1) + 1 = k
            BY <2>2, <1>4
        <3>2. t[k - 1] = heap[k]
            BY <3>1, <1>1
        <3> QED
            BY <3>1, <3>2, <1>2 DEF Of
    <2>3. Of(t) \subseteq Of(heap) \ {heap[1]}
        BY <2>1, <1>2 DEF Of
    <2>4. Of(heap) \ {heap[1]} \subseteq Of(t)
        BY <2>2, <1>2 DEF Of
    <2> QED
        BY <2>3, <2>4
<1>6. Different(t)
    <2> SUFFICES ASSUME NEW i \in 1 .. n - 1, NEW j \in 1 .. n - 1, t[i] = t[j] PROVE i = j
        BY <1>2 DEF Different
    <2>1. i + 1 = j + 1
        BY <1>1, <1>2, <1>3 DEF Different
    <2> QED
        BY <2>1
<1>7. ASSUME Ordered(heap) PROVE Ordered(t)
    <2> SUFFICES ASSUME NEW i \in 1 .. n - 1, NEW j \in 1 .. n - 1, i < j
                 PROVE  t[i][1].ts <= t[j][1].ts
        BY <1>2 DEF Ordered
    <2>1. i + 1 < j + 1
        OBVIOUS
    <2> QED
        BY <2>1, <1>1, <1>2, <1>3, <1>7 DEF Ordered
<1> QED
    BY <1>1, <1>5, <1>6, <1>7 DEF t, n

\* What holds between two turns, with lists in the heap; and after k turns.
MergeOk(b, m) ==
    /\ m.heap # <<>> /\ Different(m.heap) /\ (Len(m.heap) > 2 => Ordered(m.heap))
    /\ Merging(b, m.out, Of(m.heap))
Merges == [out : Seq(Fragments), heap : Seq(Lists)]
AfterTurns(b, k) ==
    {m \in Merges : MergeOk(b, m) /\ (Len(m.heap) = 1 \/ Len(m.out) = k)}

\* A turn while there are more than two lists.
LEMMA HeapTurnOk ==
    ASSUME NEW b, NEW m \in Merges, MergeOk(b, m), Len(m.heap) > 2
    PROVE  /\ HeapTurn(m) \in Merges /\ MergeOk(b, HeapTurn(m))
           /\ HeapTurn(m).out = Append(m.out, m.heap[1][1])
<1> DEFINE heap == m.heap  list == heap[1]  t == Tail(heap)
           out == Append(m.out, Head(list))
           new == IF Len(list) = 1 THEN t ELSE Place(t, Tail(list))
<1>1. heap \in Seq(Lists) /\ heap # <<>> /\ Different(heap) /\ Ordered(heap)
      /\ m.out \in Seq(Fragments) /\ Merging(b, m.out, Of(heap))
    BY DEF Merges, MergeOk
<1>2. HeapTurn(m) = [out |-> out, heap |-> new]
    BY DEF HeapTurn
<1> HIDE DEF heap
<1>3. Len(heap) \in Nat /\ DOMAIN heap = 1 .. Len(heap) /\ 1 \in DOMAIN heap
      /\ Len(heap) > 2 /\ \A h \in DOMAIN heap : heap[h] \in Lists
    BY <1>1 DEF heap
<1>4. list \in Lists /\ list \in Of(heap) /\ Head(list) = list[1] /\ list[1] \in Fragments
    <2>1. list \in Lists /\ list \in Of(heap)
        BY <1>3 DEF Of
    <2>2. Head(list) = list[1]
        BY <2>1 DEF Lists
    <2>3. list[1] \in Fragments
        BY <2>1, FirstIs
    <2> QED
        BY <2>1, <2>2, <2>3
<1>5. \A r \in Of(heap) : list[1].ts <= r[1].ts
    <2> SUFFICES ASSUME NEW h \in DOMAIN heap PROVE list[1].ts <= heap[h][1].ts
        BY DEF Of
    <2>1. CASE h = 1
        <3>1. list[1].ts \in Nat
            BY <1>4, FirstIs
        <3> QED
            BY <3>1, <2>1
    <2>2. CASE h # 1
        <3>1. 1 < h
            BY <2>2, <1>3
        <3> QED
            BY <3>1, <1>1, <1>3 DEF Ordered
    <2> QED
        BY <2>1, <2>2
<1>6. Merging(b, Append(m.out, list[1]), (Of(heap) \ {list}) \cup Rest(list))
    <2> HIDE DEF list
    <2> QED
        BY <1>1, <1>4, <1>5, TakeFirst
<1>7. /\ t \in Seq(Lists) /\ Len(t) = Len(heap) - 1 /\ Of(t) = Of(heap) \ {list}
      /\ Different(t) /\ Ordered(t)
    BY <1>1, HeapTail
<1>8. out \in Seq(Fragments) /\ out = Append(m.out, list[1])
    BY <1>1, <1>4
<1> HIDE DEF list, t, out
<1>9. /\ new \in Seq(Lists) /\ new # <<>> /\ Different(new) /\ Ordered(new)
      /\ Of(new) = Of(t) \cup Rest(list)
    <2>1. CASE Len(list) = 1
        <3>1. t # <<>>
            BY <1>3, <1>7
        <3> QED
            BY <3>1, <2>1, <1>7 DEF Rest
    <2>2. CASE Len(list) # 1
        <3>1. Tail(list) \in Rest(list) /\ Rest(list) = {Tail(list)}
            BY <2>2 DEF Rest
        <3>2. Tail(list) \in Lists
            BY <3>1, <1>4, RestIs
        <3>3. Tail(list) \notin Of(t)
            <4> DEFINE left == Of(heap)  x == Tail(list)
            <4>1. Merging(b, m.out, left) /\ list \in left /\ x \in Rest(list)
                BY <3>1, <1>1, <1>4
            <4> HIDE DEF left, x
            <4>2. x \notin left \ {list}
                BY <4>1, RestIsNew
            <4> QED
                BY <4>2, <1>7 DEF left, x
        <3> DEFINE x == Tail(list)
        <3> HIDE DEF x
        <3>4. /\ Place(t, x) \in Seq(Lists) /\ Len(Place(t, x)) = Len(t) + 1
              /\ Of(Place(t, x)) = Of(t) \cup {x}
              /\ Ordered(Place(t, x)) /\ Different(Place(t, x))
            BY <3>2, <3>3, <1>7, PlaceIs DEF x
        <3>5. Len(t) \in Nat
            BY <1>7
        <3>6. Place(t, x) # <<>>
            <4> DEFINE p == Place(t, x)
            <4> HIDE DEF p
            <4>1. p \in Seq(Lists) /\ Len(p) = Len(t) + 1
                BY <3>4 DEF p
            <4>2. p # <<>>
                BY <4>1, <3>5
            <4> QED
                BY <4>2 DEF p
        <3>7. new = Place(t, x)
            BY <2>2 DEF x
        <3> QED
            BY <3>1, <3>4, <3>6, <3>7 DEF x
    <2> QED
        BY <2>1, <2>2
<1> HIDE DEF new
<1>10. Merging(b, out, Of(new))
    BY <1>6, <1>7, <1>8, <1>9
<1> DEFINE s == [out |-> out, heap |-> new]
<1>11. s.out = out /\ s.heap = new /\ s \in Merges
    BY <1>8, <1>9 DEF Merges
<1>12. MergeOk(b, s)
    BY <1>9, <1>10, <1>11 DEF MergeOk
<1> QED
    BY <1>2, <1>8, <1>11, <1>12 DEF list, heap

\* A turn of the merge of two lists.
LEMMA PairTurnOk ==
    ASSUME NEW b, NEW m \in Merges, MergeOk(b, m), Len(m.heap) = 2
    PROVE  /\ PairTurn(m) \in Merges /\ MergeOk(b, PairTurn(m))
           /\ \E f \in Fragments : PairTurn(m).out = Append(m.out, f)
<1> DEFINE heap == m.heap
           k == IF heap[1][1].ts < heap[2][1].ts THEN 1 ELSE 2
           list == heap[k]  other == heap[3 - k]
           out == Append(m.out, Head(list))
           new == IF Len(list) = 1 THEN <<other>> ELSE [heap EXCEPT ![k] = Tail(list)]
<1>1. heap \in Seq(Lists) /\ Different(heap)
      /\ m.out \in Seq(Fragments) /\ Merging(b, m.out, Of(heap))
    BY DEF Merges, MergeOk
<1>2. PairTurn(m) = [out |-> out, heap |-> new]
    BY DEF PairTurn
<1> HIDE DEF heap
<1>3. /\ Len(heap) = 2 /\ DOMAIN heap = {1, 2}
      /\ heap[1] \in Lists /\ heap[2] \in Lists /\ heap[1] # heap[2]
    <2>1. Len(heap) = 2
        BY DEF heap
    <2>2. DOMAIN heap = 1 .. 2 /\ \A h \in 1 .. 2 : heap[h] \in Lists
        <3>1. heap \in Seq(Lists)
            BY <1>1
        <3> QED
            BY <3>1, <2>1
    <2>3. 1 .. 2 = {1, 2}
        OBVIOUS
    <2> QED
        BY <1>1, <2>1, <2>2, <2>3 DEF Different
<1>4. heap[1][1].ts \in Nat /\ heap[2][1].ts \in Nat
    BY <1>3, FirstIs
<1>5. k \in {1, 2} /\ 3 - k \in {1, 2} /\ 3 - k # k
    OBVIOUS
<1>6. list[1].ts <= heap[1][1].ts /\ list[1].ts <= heap[2][1].ts
    BY <1>4
<1> HIDE DEF k
<1>7. Of(heap) = {heap[1], heap[2]}
    BY <1>3 DEF Of
<1>8. Of(heap) = {list, other} /\ list # other /\ list \in Lists /\ other \in Lists
    BY <1>3, <1>5, <1>7
<1>9. Head(list) = list[1] /\ list[1] \in Fragments
    <2>1. Head(list) = list[1]
        BY <1>8 DEF Lists
    <2>2. list[1] \in Fragments
        BY <1>8, FirstIs
    <2> QED
        BY <2>1, <2>2
<1>10. \A r \in Of(heap) : list[1].ts <= r[1].ts
    BY <1>6, <1>7
<1>11. Merging(b, Append(m.out, list[1]), (Of(heap) \ {list}) \cup Rest(list))
    <2> DEFINE left == Of(heap)
    <2>1. list \in left /\ Merging(b, m.out, left) /\ \A r \in left : list[1].ts <= r[1].ts
        BY <1>1, <1>8, <1>10
    <2> HIDE DEF list, left
    <2>2. Merging(b, Append(m.out, list[1]), (left \ {list}) \cup Rest(list))
        BY <2>1, TakeFirst
    <2> QED
        BY <2>2 DEF left
<1>12. out = Append(m.out, list[1]) /\ out \in Seq(Fragments)
    BY <1>1, <1>9
<1>13. list = heap[k] /\ other = heap[3 - k]
    OBVIOUS
<1> HIDE DEF list, other, out
<1>14. /\ new \in Seq(Lists) /\ Len(new) \in {1, 2} /\ Different(new)
       /\ Of(new) = {other} \cup Rest(list)
    <2>1. CASE Len(list) = 1
        <3>1. new = <<other>>
            BY <2>1
        <3> HIDE DEF new
        <3>2. new \in Seq(Lists) /\ Len(new) = 1 /\ DOMAIN new = {1} /\ new[1] = other
            BY <3>1, <1>8
        <3> QED
            BY <3>2, <2>1 DEF Different, Of, Rest
    <2>2. CASE Len(list) # 1
        <3> DEFINE x == Tail(list)
        <3>1. x \in Rest(list) /\ Rest(list) = {x} /\ new = [heap EXCEPT ![k] = x]
            BY <2>2 DEF Rest
        <3> HIDE DEF x, new
        <3>2. x \in Lists
            BY <3>1, <1>8, RestIs
        <3>3. x # other
            <4> DEFINE left == Of(heap)
            <4>1. Merging(b, m.out, left) /\ list \in left
                BY <1>1, <1>8
            <4> HIDE DEF left
            <4>2. x \notin left \ {list}
                BY <4>1, <3>1, RestIsNew
            <4> QED
                BY <4>2, <1>8 DEF left
        <3>4. new \in Seq(Lists) /\ Len(new) = 2
            <4>1. k \in 1 .. Len(heap)
                BY <1>3, <1>5
            <4>2. [heap EXCEPT ![k] = x] \in Seq(Lists)
                  /\ Len([heap EXCEPT ![k] = x]) = Len(heap)
                BY <4>1, <3>2, <1>1, ExceptSeq
            <4> QED
                BY <4>2, <3>1, <1>3
        <3>5. DOMAIN new = {1, 2} /\ new[k] = x /\ new[3 - k] = other
            BY <3>1, <1>3, <1>5, <1>13
        <3>6. Of(new) = {x, other}
            BY <3>5, <1>5 DEF Of
        <3>7. Different(new)
            BY <3>3, <3>5, <1>5 DEF Different
        <3> QED
            BY <3>1, <3>4, <3>6, <3>7
    <2> QED
        BY <2>1, <2>2
<1> HIDE DEF new
<1>15. Merging(b, out, Of(new))
    <2>1. Of(heap) \ {list} = {other}
        BY <1>8
    <2> QED
        BY <2>1, <1>11, <1>12, <1>14
<1> DEFINE s == [out |-> out, heap |-> new]
<1>16. s.out = out /\ s.heap = new /\ s \in Merges
    BY <1>12, <1>14 DEF Merges
<1>17. new # <<>> /\ ~(Len(new) > 2)
    <2> DEFINE n == Len(new)
    <2>1. n \in {1, 2} /\ (new = <<>> => n = 0)
        BY <1>14
    <2> HIDE DEF n
    <2>2. new # <<>> /\ ~(n > 2)
        BY <2>1
    <2> QED
        BY <2>2 DEF n
<1>18. MergeOk(b, s)
    BY <1>14, <1>15, <1>16, <1>17 DEF MergeOk
<1> QED
    BY <1>2, <1>9, <1>12, <1>16, <1>18

\* A turn, whichever.
LEMMA TurnOk ==
    ASSUME NEW b, NEW k \in Nat \ {0}, NEW m \in AfterTurns(b, k - 1)
    PROVE  Turn(m) \in AfterTurns(b, k)
<1>1. m \in Merges /\ MergeOk(b, m) /\ (Len(m.heap) = 1 \/ Len(m.out) = k - 1)
    BY DEF AfterTurns
<1>2. m.heap \in Seq(Lists) /\ m.heap # <<>> /\ m.out \in Seq(Fragments)
    BY <1>1 DEF Merges, MergeOk
<1>3. Len(m.heap) \in Nat \ {0}
    BY <1>2
<1> DEFINE n == Len(m.heap)
<1> HIDE DEF n
<1>4. n \in Nat \ {0}
    BY <1>3 DEF n
<1>5. n = 1 \/ (n = 2 /\ n # 1) \/ (n > 2 /\ n # 1 /\ n # 2)
    BY <1>4
<1>6. CASE n = 1
    <2>1. Len(m.heap) = 1
        BY <1>6 DEF n
    <2> QED
        BY <2>1, <1>1 DEF AfterTurns, Turn
<1>7. ASSUME NEW s \in Merges, MergeOk(b, s), NEW f \in Fragments, s.out = Append(m.out, f),
             n # 1
      PROVE  s \in AfterTurns(b, k)
    <2>1. Len(Append(m.out, f)) = Len(m.out) + 1 /\ Len(m.out) = k - 1
        BY <1>1, <1>2, <1>7 DEF n
    <2>2. Len(s.out) = k
        BY <2>1, <1>7
    <2> QED
        BY <2>2, <1>7 DEF AfterTurns
<1>8. CASE n = 2 /\ n # 1
    <2>1. Turn(m) = PairTurn(m)
        BY <1>8 DEF Turn, n
    <2>2. PairTurn(m) \in Merges /\ MergeOk(b, PairTurn(m))
          /\ \E f \in Fragments : PairTurn(m).out = Append(m.out, f)
        BY <1>1, <1>8, PairTurnOk DEF n
    <2> QED
        BY <2>1, <2>2, <1>7, <1>8
<1>9. CASE n > 2 /\ n # 1 /\ n # 2
    <2>1. Turn(m) = HeapTurn(m)
        BY <1>9 DEF Turn, n
    <2>2. PICK f \in Fragments : f = m.heap[1][1]
        <3>1. m.heap[1] \in Lists
            BY <1>2
        <3> QED
            BY <3>1, FirstIs
    <2>3. HeapTurn(m) \in Merges /\ MergeOk(b, HeapTurn(m))
          /\ HeapTurn(m).out = Append(m.out, f)
        BY <1>1, <1>9, <2>2, HeapTurnOk DEF n
    <2> QED
        BY <2>1, <2>3, <1>7, <1>9
<1> QED
    BY <1>6, <1>8, <1>9, <1>5

-----------------------------------------------------------------------------
(* The start and the end of a merge. *)

\* A batch of several lists.
Several(b) == IsBatch(b) /\ Len(b) > 1

\* Each of its fragments is from one place.
LEMMA SeveralIs ==
    ASSUME NEW b, Several(b)
    PROVE  /\ b \in Seq(Lists) /\ Len(b) \in Nat /\ DOMAIN b = 1 .. Len(b) /\ Len(b) > 1
           /\ \A l \in DOMAIN b : \A i \in DOMAIN b[l] :
                 b[l][i] \in All(b) /\ Conduit!PlaceOf(b, b[l][i]) = <<l, i>>
           /\ \A f \in All(b) : \E l \in DOMAIN b : \E i \in DOMAIN b[l] : b[l][i] = f
           /\ Different(b)
<1>1. /\ b \in Seq(Seq(Fragments)) /\ Len(b) > 1
      /\ \A l \in DOMAIN b : b[l] # <<>>
      /\ \A k, l \in DOMAIN b : \A i \in DOMAIN b[k], j \in DOMAIN b[l] :
            b[k][i] = b[l][j] => k = l /\ i = j
    BY DEF Several, IsBatch
<1>2. Len(b) \in Nat /\ DOMAIN b = 1 .. Len(b) /\ \A l \in 1 .. Len(b) : b[l] \in Seq(Fragments)
    BY <1>1
<1>3. \A l \in DOMAIN b : b[l] \in Lists
    BY <1>1, <1>2 DEF Lists
<1>4. b \in Seq(Lists)
    BY <1>1, <1>2, <1>3, SMTT(30)
<1>5. \A p : p \in Conduit!Places(b) <=> \E l \in DOMAIN b : \E i \in DOMAIN b[l] : p = <<l, i>>
    BY DEF Conduit!Places
<1>6. \A l, i : Conduit!Fragment(b, <<l, i>>) = b[l][i]
    BY DEF Conduit!Fragment
<1>7. ASSUME NEW l \in DOMAIN b, NEW i \in DOMAIN b[l]
      PROVE  b[l][i] \in All(b) /\ Conduit!PlaceOf(b, b[l][i]) = <<l, i>>
    <2>1. <<l, i>> \in Conduit!Places(b) /\ Conduit!Fragment(b, <<l, i>>) = b[l][i]
        BY <1>5, <1>6
    <2>2. b[l][i] \in All(b)
        BY <2>1 DEF All
    <2> DEFINE p == Conduit!PlaceOf(b, b[l][i])
    <2>3. p \in Conduit!Places(b) /\ Conduit!Fragment(b, p) = b[l][i]
        BY <2>1, Zenon DEF Conduit!PlaceOf
    <2> HIDE DEF p
    <2>4. PICK k \in DOMAIN b : \E j \in DOMAIN b[k] : p = <<k, j>>
        BY <2>3, <1>5
    <2>5. PICK j \in DOMAIN b[k] : p = <<k, j>>
        BY <2>4
    <2>6. b[k][j] = b[l][i]
        BY <2>3, <2>5, <1>6
    <2>7. k = l /\ j = i
        BY <2>6, <1>1
    <2> QED
        BY <2>2, <2>5, <2>7 DEF p
<1>8. ASSUME NEW f \in All(b)
      PROVE  \E l \in DOMAIN b : \E i \in DOMAIN b[l] : b[l][i] = f
    <2>1. PICK p \in Conduit!Places(b) : Conduit!Fragment(b, p) = f
        BY DEF All
    <2>2. PICK l \in DOMAIN b : \E i \in DOMAIN b[l] : p = <<l, i>>
        BY <1>5
    <2>3. PICK i \in DOMAIN b[l] : p = <<l, i>>
        BY <2>2
    <2> QED
        BY <2>1, <2>3, <1>6
<1>9. Different(b)
    <2> SUFFICES ASSUME NEW k \in DOMAIN b, NEW l \in DOMAIN b, b[k] = b[l] PROVE k = l
        BY DEF Different
    <2>1. 1 \in DOMAIN b[k] /\ 1 \in DOMAIN b[l]
        BY <1>3, FirstIs
    <2> QED
        BY <2>1, <1>1
<1> QED
    BY <1>1, <1>2, <1>4, <1>7, <1>8, <1>9

\* When a merge starts everything is left.
LEMMA StartOk ==
    ASSUME NEW b, Several(b)
    PROVE  Merging(b, <<>>, Of(b))
<1>1. /\ b \in Seq(Lists) /\ DOMAIN b = 1 .. Len(b) /\ Len(b) > 1
      /\ \A l \in DOMAIN b : \A i \in DOMAIN b[l] :
            b[l][i] \in All(b) /\ Conduit!PlaceOf(b, b[l][i]) = <<l, i>>
      /\ \A f \in All(b) : \E l \in DOMAIN b : \E i \in DOMAIN b[l] : b[l][i] = f
    BY SeveralIs
<1>2. \A l \in DOMAIN b : b[l] \in Lists
    BY <1>1
<1>3. <<>> \in Seq(Fragments) /\ DOMAIN <<>> = {}
    OBVIOUS
<1>4. Of(b) \subseteq Lists
    BY <1>2 DEF Of
<1>5. ASSUME NEW l \in DOMAIN b, NEW i \in DOMAIN b[l], NEW j \in DOMAIN b[l], i < j
      PROVE  Conduit!Before(b, b[l][i], b[l][j])
    <2>1. b[l][i].ts <= b[l][j].ts
        BY <1>5 DEF Several, IsBatch
    <2>2. Conduit!PlaceOf(b, b[l][i]) = <<l, i>> /\ Conduit!PlaceOf(b, b[l][j]) = <<l, j>>
        BY <1>1
    <2> QED
        BY <2>1, <2>2, <1>5 DEF Conduit!Before
<1>6. \A l \in Of(b) : \A i, j \in DOMAIN l : i < j => Conduit!Before(b, l[i], l[j])
    BY <1>5 DEF Of
<1>7. ASSUME NEW l \in DOMAIN b, NEW r \in DOMAIN b, b[l] # b[r],
             NEW i \in DOMAIN b[l], NEW j \in DOMAIN b[r]
      PROVE  Apart(b, b[l][i], b[r][j])
    <2>1. /\ Conduit!PlaceOf(b, b[l][i]) = <<l, i>> /\ Conduit!PlaceOf(b, b[r][j]) = <<r, j>>
          /\ l # r
        BY <1>1, <1>7
    <2> QED
        BY <2>1 DEF Apart
<1>8. \A l, r \in Of(b) : l # r => \A i \in DOMAIN l, j \in DOMAIN r : Apart(b, l[i], r[j])
    BY <1>7 DEF Of
<1>9. \A l \in Of(b) : \A i \in DOMAIN l : l[i] \in All(b)
    BY <1>1 DEF Of
<1>10. \A f \in All(b) : \E l \in Of(b) : \E i \in DOMAIN l : l[i] = f
    BY <1>1 DEF Of
<1> QED
    BY <1>3, <1>4, <1>6, <1>8, <1>9, <1>10 DEF Merging

\* The heap has all the lists.
LEMMA MinHeapIs ==
    ASSUME NEW b, Several(b)
    PROVE  /\ MinHeap(b) \in Seq(Lists) /\ MinHeap(b) # <<>>
           /\ Of(MinHeap(b)) = Of(b) /\ Ordered(MinHeap(b)) /\ Different(MinHeap(b))
<1> DEFINE n == Len(b)
           First(k) == {b[l] : l \in 1 .. k}
           P == [k \in 0 .. n |-> {h \in Seq(Lists) : Len(h) = k /\ Of(h) = First(k)
                                                       /\ Ordered(h) /\ Different(h)}]
           T == [k \in 1 .. n |-> [h \in P[k - 1] |-> Place(h, b[k])]]
           Is(f) == f = [k \in 0 .. n |-> IF k = 0 THEN <<>> ELSE Place(f[k - 1], b[k])]
           heap == CHOOSE f : Is(f)
<1>1. b \in Seq(Lists) /\ n \in Nat /\ DOMAIN b = 1 .. n /\ n > 1 /\ Different(b)
    BY SeveralIs
<1>2. \A k \in 1 .. n : b[k] \in Lists
    BY <1>1
<1>3. MinHeap(b) = heap[n]
    BY DEF MinHeap
<1> HIDE DEF n
<1>4. <<>> \in P[0]
    <2>1. /\ <<>> \in Seq(Lists) /\ Len(<<>>) = 0 /\ DOMAIN <<>> = {} /\ First(0) = {}
          /\ 0 \in 0 .. n
        BY <1>1
    <2> QED
        BY <2>1 DEF Of, Ordered, Different
<1>5. ASSUME NEW k \in 1 .. n, NEW h \in P[k - 1]
      PROVE  Place(h, b[k]) \in P[k]
    <2>1. k - 1 \in 0 .. n /\ k \in 0 .. n
        BY <1>1
    <2>2. /\ h \in Seq(Lists) /\ Len(h) = k - 1 /\ Of(h) = First(k - 1)
          /\ Ordered(h) /\ Different(h)
        BY <2>1, <1>5
    <2>3. b[k] \notin Of(h)
        BY <2>2, <1>1 DEF Different
    <2>4. /\ Place(h, b[k]) \in Seq(Lists) /\ Len(Place(h, b[k])) = Len(h) + 1
          /\ Of(Place(h, b[k])) = Of(h) \cup {b[k]}
          /\ Ordered(Place(h, b[k])) /\ Different(Place(h, b[k]))
        BY <2>2, <2>3, <1>2, PlaceIs
    <2>5. First(k - 1) \cup {b[k]} = First(k)
        BY <1>1
    <2>6. (k - 1) + 1 = k
        OBVIOUS
    <2> QED
        BY <2>1, <2>2, <2>4, <2>5, <2>6
<1>6. \A k \in 1 .. n : \A h \in P[k - 1] : T[k][h] = Place(h, b[k]) /\ T[k][h] \in P[k]
    <2> HIDE DEF P
    <2> QED
        BY <1>5
<1>7. \E f : Is(f)
    <2>1. PICK f : Runs(f, n, <<>>, T, P)
        <3> HIDE DEF T, P
        <3> QED
            BY <1>1, <1>4, <1>6, LoopExists
    <2>2. f = [k \in 0 .. n |-> f[k]] /\ f[0] = <<>>
        BY <2>1 DEF Runs
    <2>3. ASSUME NEW k \in 0 .. n
          PROVE  f[k] = IF k = 0 THEN <<>> ELSE Place(f[k - 1], b[k])
        <3>1. CASE k = 0
            BY <3>1, <2>2
        <3>2. CASE k # 0
            <4>1. k \in 1 .. n /\ k - 1 \in 0 .. n
                BY <3>2, <1>1
            <4>2. f[k] = T[k][f[k - 1]] /\ f[k - 1] \in P[k - 1]
                <5> HIDE DEF T, P
                <5> QED
                    BY <4>1, <2>1 DEF Runs
            <4>3. f[k] = Place(f[k - 1], b[k])
                <5> HIDE DEF T, P
                <5> QED
                    BY <4>1, <4>2, <1>6
            <4> QED
                BY <4>3, <3>2
        <3> QED
            BY <3>1, <3>2
    <2>4. [k \in 0 .. n |-> f[k]]
          = [k \in 0 .. n |-> IF k = 0 THEN <<>> ELSE Place(f[k - 1], b[k])]
        BY <2>3
    <2> QED
        BY <2>2, <2>4
<1>8. Is(heap)
    BY <1>7, Zenon
<1> HIDE DEF heap
<1>9. heap[0] = <<>> /\ \A k \in 1 .. n : heap[k] = Place(heap[k - 1], b[k])
    BY <1>8, <1>1
<1>10. \A k \in 0 .. n : heap[k] \in P[k]
    <2>1. heap[0] \in P[0] /\ \A k \in 1 .. n : heap[k - 1] \in P[k - 1] => heap[k] \in P[k]
        <3> HIDE DEF P
        <3> QED
            BY <1>4, <1>5, <1>9
    <2> HIDE DEF P
    <2> QED
        BY <2>1, <1>1, Induction
<1>11. heap[n] \in P[n] /\ n \in 0 .. n
    <2> HIDE DEF P
    <2> QED
        BY <1>1, <1>10
<1>12. /\ heap[n] \in Seq(Lists) /\ Len(heap[n]) = n /\ Of(heap[n]) = First(n)
       /\ Ordered(heap[n]) /\ Different(heap[n])
    BY <1>11
<1>13. First(n) = Of(b)
    BY <1>1 DEF Of
<1>14. heap[n] # <<>>
    BY <1>1, <1>12
<1> QED
    BY <1>3, <1>12, <1>13, <1>14

\* The lengths of lists.
Lengths(b) == [l \in DOMAIN b |-> Len(b[l])]

\* Their sum is the number of places.
LEMMA SizeIs ==
    ASSUME NEW b \in Seq(Seq(Fragments))
    PROVE  /\ Lengths(b) \in Seq(Nat) /\ Len(Lengths(b)) = Len(b) /\ Size(b) = Total(Lengths(b))
           /\ Size(b) \in Nat /\ IsFiniteSet(Conduit!Places(b))
           /\ Cardinality(Conduit!Places(b)) = Size(b)
<1> DEFINE n == Len(b)  ts == Lengths(b)
           Row(l) == {<<l, i>> : i \in DOMAIN b[l]}
           Rows(k) == UNION {Row(l) : l \in 1 .. k}
           P == [k \in 0 .. n |-> {v \in Nat : /\ IsFiniteSet(Rows(k))
                                         /\ Cardinality(Rows(k)) = v}]
<1>1. n \in Nat /\ DOMAIN b = 1 .. n /\ \A l \in 1 .. n : b[l] \in Seq(Fragments)
    OBVIOUS
<1>2. \A l \in 1 .. n : Len(b[l]) \in Nat /\ DOMAIN b[l] = 1 .. Len(b[l])
    BY <1>1
<1>3. ts \in Seq(Nat) /\ Len(ts) = n /\ \A l \in 1 .. n : ts[l] = Len(b[l])
    BY <1>1, <1>2 DEF Lengths
<1>4. Size(b) = Total(ts)
    BY DEF Size, Lengths
<1> HIDE DEF n, ts
<1>5. ASSUME NEW l \in 1 .. n
      PROVE  IsFiniteSet(Row(l)) /\ Cardinality(Row(l)) = Len(b[l])
    <2> DEFINE k == Len(b[l])  f == [i \in 1 .. k |-> <<l, i>>]
    <2>1. k \in Nat /\ DOMAIN b[l] = 1 .. k
        BY <1>2
    <2> HIDE DEF k
    <2>2. f \in Bijection(1 .. k, Row(l))
        <3>1. f \in [1 .. k -> Row(l)]
            BY <2>1
        <3>2. \A i, j \in 1 .. k : f[i] = f[j] => i = j
            OBVIOUS
        <3>3. \A r \in Row(l) : \E i \in 1 .. k : f[i] = r
            BY <2>1
        <3> HIDE DEF f
        <3> QED
            BY <3>1, <3>2, <3>3 DEF Bijection, Injection, Surjection, IsInjective
    <2>3. IsFiniteSet(1 .. k) /\ Cardinality(1 .. k) = k
        <3>1. /\ IsFiniteSet(1 .. k)
              /\ Cardinality(1 .. k) = IF 1 > k THEN 0 ELSE k - 1 + 1
            BY <2>1, FS_Interval
        <3> QED
            BY <3>1, <2>1
    <2> HIDE DEF f
    <2>4. ExistsBijection(1 .. k, Row(l))
        BY <2>2 DEF ExistsBijection
    <2>5. IsFiniteSet(Row(l)) /\ Cardinality(Row(l)) = Cardinality(1 .. k)
        <3> DEFINE s == 1 .. k  t == Row(l)
        <3>1. IsFiniteSet(s) /\ ExistsBijection(s, t)
            BY <2>3, <2>4
        <3> HIDE DEF s, t
        <3>2. IsFiniteSet(t) /\ Cardinality(t) = Cardinality(s)
            BY <3>1, FS_Bijection
        <3> QED
            BY <3>2 DEF s, t
    <2> QED
        BY <2>3, <2>5 DEF k
<1>6. PICK f : /\ f[0] = 0 /\ f[n] = Total(ts)
               /\ \A k \in 1 .. n : f[k] = f[k - 1] + ts[k]
    BY <1>3, TotalIs
<1>7. f[0] \in P[0]
    <2>1. Rows(0) = {} /\ 0 \in 0 .. n
        BY <1>1
    <2>2. IsFiniteSet(Rows(0)) /\ Cardinality(Rows(0)) = 0
        <3> HIDE DEF Rows
        <3> QED
            BY <2>1, FS_EmptySet
    <2> HIDE DEF Rows
    <2> QED
        BY <2>1, <2>2, <1>6
<1>8. ASSUME NEW k \in 1 .. n, f[k - 1] \in P[k - 1] PROVE f[k] \in P[k]
    <2>1. k - 1 \in 0 .. n /\ k \in 0 .. n
        BY <1>1
    <2> DEFINE old == Rows(k - 1)  row == Row(k)
    <2>2. f[k - 1] \in Nat /\ IsFiniteSet(old) /\ Cardinality(old) = f[k - 1]
        BY <2>1, <1>8
    <2>3. IsFiniteSet(row) /\ Cardinality(row) = ts[k] /\ ts[k] \in Nat
        BY <1>2, <1>3, <1>5
    <2>4. Rows(k) = old \cup row
        BY <1>1
    <2>5. old \cap row = {}
        OBVIOUS
    <2> HIDE DEF old, row
    <2>6. /\ IsFiniteSet(old \cup row)
          /\ Cardinality(old \cup row) = Cardinality(old) + Cardinality(row)
                                         - Cardinality(old \cap row)
        BY <2>2, <2>3, FS_Union
    <2>7. Cardinality(old \cap row) = 0
        BY <2>5, FS_EmptySet
    <2>8. f[k] = f[k - 1] + ts[k]
        BY <1>6
    <2>9. Cardinality(old \cup row) = f[k] /\ f[k] \in Nat
        BY <2>2, <2>3, <2>6, <2>7, <2>8
    <2> QED
        BY <2>1, <2>4, <2>6, <2>9
<1>9. f[n] \in P[n]
    <2> HIDE DEF P
    <2>1. \A k \in 0 .. n : f[k] \in P[k]
        BY <1>1, <1>7, <1>8, Induction
    <2> QED
        BY <2>1, <1>1
<1>10. f[n] \in Nat /\ IsFiniteSet(Rows(n)) /\ Cardinality(Rows(n)) = f[n]
    BY <1>9, <1>1
<1>11. Rows(n) = Conduit!Places(b)
    BY <1>1 DEF Conduit!Places
<1> QED
    BY <1>3, <1>4, <1>6, <1>10, <1>11 DEF n, ts

\* The fragments of a batch are as many.
LEMMA AllIs ==
    ASSUME NEW b, Several(b)
    PROVE  IsFiniteSet(All(b)) /\ Cardinality(All(b)) = Size(b) /\ Size(b) \in Nat
<1> DEFINE S == Conduit!Places(b)  T == All(b)
           f == [p \in S |-> Conduit!Fragment(b, p)]
<1>1. IsFiniteSet(S) /\ Cardinality(S) = Size(b) /\ Size(b) \in Nat
    <2>1. b \in Seq(Seq(Fragments))
        BY DEF Several, IsBatch
    <2> QED
        BY <2>1, SizeIs
<1>2. f \in [S -> T] /\ \A t \in T : \E p \in S : f[p] = t
    BY DEF All
<1>3. ASSUME NEW p \in S, NEW q \in S, f[p] = f[q] PROVE p = q
    <2>1. PICK l \in DOMAIN b : \E i \in DOMAIN b[l] : p = <<l, i>>
        BY DEF Conduit!Places
    <2>2. PICK i \in DOMAIN b[l] : p = <<l, i>>
        BY <2>1
    <2>3. PICK k \in DOMAIN b : \E j \in DOMAIN b[k] : q = <<k, j>>
        BY DEF Conduit!Places
    <2>4. PICK j \in DOMAIN b[k] : q = <<k, j>>
        BY <2>3
    <2>5. f[p] = b[l][i] /\ f[q] = b[k][j]
        BY <2>2, <2>4 DEF Conduit!Fragment
    <2>6. Conduit!PlaceOf(b, b[l][i]) = <<l, i>> /\ Conduit!PlaceOf(b, b[k][j]) = <<k, j>>
        BY SeveralIs
    <2> QED
        BY <1>3, <2>2, <2>4, <2>5, <2>6
<1> HIDE DEF S, T, f
<1>4. f \in Bijection(S, T)
    BY <1>2, <1>3 DEF Bijection, Injection, Surjection, IsInjective
<1>5. ExistsBijection(S, T)
    BY <1>4 DEF ExistsBijection
<1>6. IsFiniteSet(T) /\ Cardinality(T) = Cardinality(S)
    BY <1>1, <1>5, FS_Bijection
<1> QED
    BY <1>1, <1>6 DEF T

\* No fragment is before itself.
LEMMA NotBefore ==
    ASSUME NEW b, Several(b), NEW f \in All(b)
    PROVE  ~Conduit!Before(b, f, f)
<1>1. b \in Seq(Lists) /\ DOMAIN b = 1 .. Len(b)
      /\ (\A l \in DOMAIN b : \A i \in DOMAIN b[l] : Conduit!PlaceOf(b, b[l][i]) = <<l, i>>)
      /\ \E l \in DOMAIN b : \E i \in DOMAIN b[l] : b[l][i] = f
    BY SeveralIs
<1>2. PICK l \in DOMAIN b : \E i \in DOMAIN b[l] : b[l][i] = f
    BY <1>1
<1>3. PICK i \in DOMAIN b[l] : b[l][i] = f
    BY <1>2
<1>4. Conduit!PlaceOf(b, f) = <<l, i>>
    BY <1>1, <1>3
<1>5. b[l] \in Lists
    BY <1>1
<1>6. i \in Nat
    BY <1>5, FirstIs
<1> QED
    BY <1>4, <1>6 DEF Conduit!Before

\* What is out is out once, and has them all when it is as long.
LEMMA OutIs ==
    ASSUME NEW b, Several(b), NEW out \in Seq(All(b)),
           \A j, k \in DOMAIN out : j < k => Conduit!Before(b, out[j], out[k])
    PROVE  /\ \A j, k \in DOMAIN out : out[j] = out[k] => j = k
           /\ (Len(out) = Size(b) <=> \A f \in All(b) : \E j \in DOMAIN out : out[j] = f)
<1> DEFINE S == 1 .. Len(out)  T == All(b)
<1>1. DOMAIN out = S /\ Len(out) \in Nat /\ out \in [S -> T]
    OBVIOUS
<1>2. \A f \in All(b) : ~Conduit!Before(b, f, f)
    BY NotBefore
<1>3. ASSUME NEW j \in S, NEW k \in S, out[j] = out[k] PROVE j = k
    <2>1. out[j] \in All(b)
        BY <1>1
    <2>2. ~Conduit!Before(b, out[j], out[j])
        BY <2>1, <1>2
    <2>3. ~(j < k) /\ ~(k < j)
        BY <2>2, <1>1, <1>3
    <2> QED
        BY <2>3, <1>1
<1>4. IsFiniteSet(T) /\ Cardinality(T) = Size(b)
    BY AllIs
<1>5. Cardinality(S) = Len(out)
    <2>1. Cardinality(S) = IF 1 > Len(out) THEN 0 ELSE Len(out) - 1 + 1
        BY <1>1, FS_Interval
    <2> DEFINE n == Len(out)
    <2>2. n \in Nat
        BY <1>1
    <2>3. Cardinality(S) = IF 1 > n THEN 0 ELSE n - 1 + 1
        BY <2>1
    <2> HIDE DEF n, S
    <2>4. Cardinality(S) = n
        BY <2>2, <2>3
    <2> QED
        BY <2>4 DEF n
<1> HIDE DEF S, T
<1>6. out \in Injection(S, T)
    BY <1>1, <1>3 DEF Injection, IsInjective
<1>7. Cardinality(S) = Cardinality(T) <=> out \in Surjection(S, T)
    BY <1>4, <1>6, FS_Injection
<1>8. out \in Surjection(S, T) <=> \A f \in T : \E j \in S : out[j] = f
    BY <1>1 DEF Surjection
<1> QED
    BY <1>1, <1>3, <1>4, <1>5, <1>7, <1>8 DEF T

\* After as many turns one list is left, which makes the rest of the merge.
LEMMA EndIs ==
    ASSUME NEW b, Several(b), NEW m \in AfterTurns(b, Size(b))
    PROVE  Len(m.heap) = 1
<1>1. /\ m.out \in Seq(Fragments) /\ m.heap \in Seq(Lists) /\ m.heap # <<>>
      /\ Merging(b, m.out, Of(m.heap))
    BY DEF AfterTurns, Merges, MergeOk
<1> SUFFICES ASSUME Len(m.out) = Size(b) PROVE FALSE
    BY DEF AfterTurns
<1> DEFINE out == m.out  left == Of(m.heap)  l == m.heap[1]
<1>2. l \in left /\ l \in Lists
    BY <1>1 DEF Of
<1>3. /\ \A j \in DOMAIN out : out[j] \in All(b)
      /\ \A j, k \in DOMAIN out : j < k => Conduit!Before(b, out[j], out[k])
    BY <1>1 DEF Merging
<1>4. l[1] \in All(b) /\ \A k \in DOMAIN out : Conduit!Before(b, out[k], l[1])
    <2>1. 1 \in DOMAIN l
        BY <1>2, FirstIs
    <2> HIDE DEF l, left
    <2> QED
        BY <2>1, <1>1, <1>2 DEF Merging, left
<1>5. out \in Seq(All(b)) /\ Len(out) = Size(b)
    BY <1>1, <1>3
<1> HIDE DEF out, l
<1>6. PICK k \in DOMAIN out : out[k] = l[1]
    BY <1>3, <1>4, <1>5, OutIs
<1>7. Conduit!Before(b, out[k], out[k])
    BY <1>4, <1>6
<1> QED
    BY <1>4, <1>6, <1>7, NotBefore

\* What comes out of the turns.
LEMMA TurnsIs ==
    ASSUME NEW b, Several(b)
    PROVE  \E m \in AfterTurns(b, Size(b)) : Merge(b) = m.out \o m.heap[1]
<1> DEFINE N == Size(b)
           start == [out |-> <<>>, heap |-> IF Len(b) = 2 THEN b ELSE MinHeap(b)]
           P == [k \in 0 .. N |-> AfterTurns(b, k)]
           T == [k \in 1 .. N |-> [m \in P[k - 1] |-> Turn(m)]]
           Is(f) == f = [k \in 0 .. N |-> IF k = 0 THEN start ELSE Turn(f[k - 1])]
           m == CHOOSE f : Is(f)
<1>1. N \in Nat
    BY AllIs
<1>2. Merge(b) = m[N].out \o m[N].heap[1]
    <2>1. Len(b) # 1
        <3> DEFINE n == Len(b)
        <3>1. n \in Nat /\ n > 1
            BY SeveralIs
        <3> HIDE DEF n
        <3>2. n # 1
            BY <3>1
        <3> QED
            BY <3>2 DEF n
    <2> QED
        BY <2>1 DEF Merge
<1> HIDE DEF N
<1>3. start \in P[0]
    <2>1. start \in AfterTurns(b, 0)
        <3>1. b \in Seq(Lists) /\ Different(b) /\ b # <<>> /\ Merging(b, <<>>, Of(b))
            BY SeveralIs, StartOk DEF Several, IsBatch
        <3>2. /\ MinHeap(b) \in Seq(Lists) /\ MinHeap(b) # <<>>
              /\ Of(MinHeap(b)) = Of(b) /\ Ordered(MinHeap(b)) /\ Different(MinHeap(b))
            BY MinHeapIs
        <3> DEFINE h == IF Len(b) = 2 THEN b ELSE MinHeap(b)
        <3>3. h \in Seq(Lists) /\ h # <<>> /\ Different(h) /\ (Len(h) > 2 => Ordered(h))
              /\ Of(h) = Of(b)
            <4>1. CASE Len(b) = 2
                <5>1. h = b /\ ~(Len(b) > 2)
                    BY <4>1
                <5> QED
                    BY <5>1, <3>1
            <4>2. CASE Len(b) # 2
                BY <4>2, <3>2
            <4> QED
                BY <4>1, <4>2
        <3> HIDE DEF h
        <3>4. start = [out |-> <<>>, heap |-> h]
            BY DEF h
        <3> HIDE DEF start
        <3>5. start \in Merges /\ start.out = <<>> /\ start.heap = h
            BY <3>3, <3>4 DEF Merges
        <3>6. MergeOk(b, start)
            BY <3>1, <3>3, <3>5 DEF MergeOk
        <3>7. Len(<<>>) = 0
            OBVIOUS
        <3> QED
            BY <3>5, <3>6, <3>7 DEF AfterTurns
    <2> HIDE DEF start
    <2> QED
        BY <2>1, <1>1
<1> HIDE DEF start
<1>4. \A k \in 1 .. N : \A s \in P[k - 1] : T[k][s] = Turn(s) /\ Turn(s) \in P[k]
    <2> TAKE k \in 1 .. N
    <2>1. k \in Nat \ {0} /\ k - 1 \in 0 .. N /\ k \in 0 .. N
        BY <1>1
    <2>2. P[k - 1] = AfterTurns(b, k - 1) /\ P[k] = AfterTurns(b, k)
        BY <2>1
    <2>3. \A s \in AfterTurns(b, k - 1) : Turn(s) \in AfterTurns(b, k)
        BY <2>1, TurnOk
    <2> HIDE DEF P
    <2> QED
        BY <2>2, <2>3
<1> HIDE DEF P, T
<1>5. \E f : Is(f)
    <2>1. PICK f : Runs(f, N, start, T, P)
        BY <1>1, <1>3, <1>4, LoopExists
    <2>2. f = [k \in 0 .. N |-> f[k]] /\ f[0] = start
        BY <2>1 DEF Runs
    <2>3. ASSUME NEW k \in 0 .. N
          PROVE  f[k] = IF k = 0 THEN start ELSE Turn(f[k - 1])
        <3>1. CASE k = 0
            BY <3>1, <2>2
        <3>2. CASE k # 0
            <4>1. k \in 1 .. N /\ k - 1 \in 0 .. N
                BY <3>2, <1>1
            <4>2. f[k] = T[k][f[k - 1]] /\ f[k - 1] \in P[k - 1]
                BY <4>1, <2>1 DEF Runs
            <4>3. f[k] = Turn(f[k - 1])
                BY <4>1, <4>2, <1>4
            <4> QED
                BY <4>3, <3>2
        <3> QED
            BY <3>1, <3>2
    <2>4. [k \in 0 .. N |-> f[k]] = [k \in 0 .. N |-> IF k = 0 THEN start ELSE Turn(f[k - 1])]
        BY <2>3
    <2> QED
        BY <2>2, <2>4
<1>6. Is(m)
    BY <1>5, Zenon
<1> HIDE DEF m
<1>7. m[0] = start /\ \A k \in 1 .. N : m[k] = Turn(m[k - 1])
    BY <1>6, <1>1
<1>8. \A k \in 0 .. N : m[k] \in P[k]
    <2>1. m[0] \in P[0] /\ \A k \in 1 .. N : m[k - 1] \in P[k - 1] => m[k] \in P[k]
        BY <1>3, <1>4, <1>7
    <2> QED
        BY <2>1, <1>1, Induction
<1>9. m[N] \in AfterTurns(b, N)
    BY <1>1, <1>8 DEF P
<1> QED
    BY <1>2, <1>9 DEF N

\* A batch of one list is that list.
LEMMA OneIs ==
    ASSUME NEW b \in Seq(Seq(Fragments)), Len(b) = 1
    PROVE  b[1] \in Seq(Fragments) /\ Len(b[1]) \in Nat /\ Size(b) = Len(b[1])
<1>1. b[1] \in Seq(Fragments) /\ DOMAIN b = 1 .. 1
    <2>1. 1 \in 1 .. Len(b)
        OBVIOUS
    <2> QED
        BY <2>1
<1>2. Lengths(b) \in Seq(Nat) /\ Len(Lengths(b)) = 1 /\ Size(b) = Total(Lengths(b))
    BY SizeIs
<1>3. Lengths(b)[1] = Len(b[1]) /\ Len(b[1]) \in Nat
    BY <1>1 DEF Lengths
<1> DEFINE ts == Lengths(b)
<1> HIDE DEF ts
<1>4. ts \in Seq(Nat) /\ ts # <<>> /\ Tail(ts) = <<>>
    <2>1. ts \in Seq(Nat) /\ Len(ts) = 1
        BY <1>2 DEF ts
    <2>2. ts # <<>>
        <3>1. Len(<<>>) = 0 /\ 1 # 0
            OBVIOUS
        <3> QED
            BY <2>1, <3>1, Zenon
    <2> DEFINE t == Tail(ts)
    <2>3. t \in Seq(Nat) /\ Len(t) = 0
        BY <2>1, <2>2
    <2> HIDE DEF t
    <2>4. t = <<>>
        BY <2>3
    <2> QED
        BY <2>1, <2>2, <2>4 DEF t
<1>5. Total(ts) = ts[1] + Total(Tail(ts))
    BY <1>4, TotalTail
<1>6. Total(ts) = ts[1] + 0
    BY <1>4, <1>5, TotalEmpty
<1> QED
    BY <1>1, <1>2, <1>3, <1>6 DEF ts

\* merge: of a batch it makes one list with every fragment of it once, in the order
\* of their timestamps, and those of a list in their order; whatever the number of
\* lists, their lengths and the timestamps that are equal.
THEOREM MergeIs ==
    ASSUME NEW b, IsBatch(b)
    PROVE  /\ Conduit!IsMerge(Merge(b), b)
           /\ Merge(b) \in Seq(Fragments) /\ Len(Merge(b)) = Size(b)
<1>1. b \in Seq(Seq(Fragments)) /\ b # <<>>
    BY DEF IsBatch
<1>2. CASE Len(b) = 1
    <2>1. Merge(b) = b[1]
        BY <1>2 DEF Merge
    <2>2. b[1] \in Seq(Fragments) /\ Size(b) = Len(b[1])
        BY <1>1, <1>2, OneIs
    <2> QED
        BY <2>1, <2>2, <1>2 DEF Conduit!IsMerge
<1>3. CASE Several(b)
    <2> DEFINE N == Size(b)
    <2>1. PICK m \in AfterTurns(b, N) : Merge(b) = m.out \o m.heap[1]
        BY <1>3, TurnsIs
    <2> DEFINE out == m.out  l == m.heap[1]  r == out \o l  n == Len(out)  left == Of(m.heap)
    <2>2. out \in Seq(Fragments) /\ m.heap \in Seq(Lists) /\ Merging(b, out, left)
        BY DEF AfterTurns, Merges, MergeOk
    <2>3. Len(m.heap) = 1
        BY <1>3, EndIs
    <2>4. l \in Lists /\ left = {l}
        <3> DEFINE h == m.heap
        <3>1. h \in Seq(Lists) /\ Len(h) = 1
            BY <2>2, <2>3
        <3> HIDE DEF h
        <3>2. DOMAIN h = {1} /\ h[1] \in Lists
            <4>1. DOMAIN h = 1 .. 1
                BY <3>1
            <4>2. 1 .. 1 = {1}
                OBVIOUS
            <4> QED
                BY <4>1, <4>2, <3>1
        <3> QED
            BY <3>2 DEF h, Of
    <2>5. /\ r \in Seq(Fragments) /\ n \in Nat /\ Len(l) \in Nat
          /\ DOMAIN out = 1 .. n /\ DOMAIN l = 1 .. Len(l) /\ DOMAIN r = 1 .. n + Len(l)
          /\ \A j \in 1 .. n + Len(l) : r[j] = IF j <= n THEN out[j] ELSE l[j - n]
        <3> DEFINE s == out  t == l
        <3>1. s \in Seq(Fragments) /\ t \in Seq(Fragments)
            BY <2>2, <2>4 DEF Lists
        <3> HIDE DEF s, t
        <3>2. /\ s \o t \in Seq(Fragments)
              /\ Len(s \o t) = Len(s) + Len(t)
              /\ \A j \in 1 .. Len(s) + Len(t) :
                    (s \o t)[j] = IF j <= Len(s) THEN s[j] ELSE t[j - Len(s)]
            BY <3>1, ConcatProperties
        <3>3. /\ Len(s) \in Nat /\ DOMAIN s = 1 .. Len(s)
              /\ Len(t) \in Nat /\ DOMAIN t = 1 .. Len(t)
              /\ DOMAIN (s \o t) = 1 .. Len(s) + Len(t)
            BY <3>1, <3>2
        <3> QED
            BY <3>2, <3>3 DEF s, t
    <2>6. Merging(b, out, {l})
        BY <2>2, <2>4
    <2>7. /\ \A j \in DOMAIN out : out[j] \in All(b)
          /\ \A i \in DOMAIN l : l[i] \in All(b)
          /\ \A j, k \in DOMAIN out : j < k => Conduit!Before(b, out[j], out[k])
          /\ \A i, j \in DOMAIN l : i < j => Conduit!Before(b, l[i], l[j])
          /\ \A k \in DOMAIN out : \A i \in DOMAIN l : Conduit!Before(b, out[k], l[i])
          /\ \A f \in All(b) : \/ \E j \in DOMAIN out : out[j] = f
                               \/ \E i \in DOMAIN l : l[i] = f
        BY <2>6 DEF Merging
    <2>8. Merge(b) = r
        BY <2>1
    <2> HIDE DEF r, n, out, l
    <2>9. \A j \in DOMAIN r : \/ j \in DOMAIN out /\ r[j] = out[j]
                              \/ j - n \in DOMAIN l /\ r[j] = l[j - n] /\ j > n
        BY <2>5
    <2>10. \A j \in DOMAIN r : r[j] \in All(b)
        BY <2>7, <2>9
    <2>11. ASSUME NEW j \in DOMAIN r, NEW k \in DOMAIN r, j < k
           PROVE  Conduit!Before(b, r[j], r[k])
        <3>1. CASE j <= n /\ k <= n
            <4>1. j \in DOMAIN out /\ k \in DOMAIN out /\ r[j] = out[j] /\ r[k] = out[k]
                BY <3>1, <2>5
            <4> QED
                BY <4>1, <2>7, <2>11
        <3>2. CASE j <= n /\ k > n
            <4>1. j \in DOMAIN out /\ k - n \in DOMAIN l /\ r[j] = out[j] /\ r[k] = l[k - n]
                BY <3>2, <2>5
            <4> QED
                BY <4>1, <2>7
        <3>3. CASE j > n /\ k > n
            <4>1. j - n \in DOMAIN l /\ k - n \in DOMAIN l /\ r[j] = l[j - n] /\ r[k] = l[k - n]
                  /\ j - n < k - n
                BY <3>3, <2>5, <2>11
            <4> QED
                BY <4>1, <2>7
        <3> QED
            BY <3>1, <3>2, <3>3, <2>5, <2>11
    <2>12. ASSUME NEW f \in All(b) PROVE \E j \in DOMAIN r : r[j] = f
        <3>1. CASE \E j \in DOMAIN out : out[j] = f
            BY <3>1, <2>5
        <3>2. ASSUME NEW i \in DOMAIN l, l[i] = f PROVE \E j \in DOMAIN r : r[j] = f
            <4>1. n + i \in DOMAIN r /\ ~(n + i <= n) /\ (n + i) - n = i
                BY <2>5
            <4>2. r[n + i] = f
                BY <4>1, <3>2, <2>5
            <4> QED
                BY <4>1, <4>2
        <3> QED
            BY <3>1, <3>2, <2>7
    <2>13. r \in Seq(All(b)) /\ r \in Seq(Fragments)
        BY <2>5, <2>10
    <2>14. Len(r) = Size(b)
        BY <1>3, <2>11, <2>12, <2>13, OutIs
    <2>15. {r[k] : k \in DOMAIN r} = All(b)
        BY <2>10, <2>12
    <2>16. Len(b) # 1
        <3> DEFINE c == Len(b)
        <3>1. c \in Nat /\ c > 1
            BY <1>3, SeveralIs
        <3> HIDE DEF c
        <3>2. c # 1
            BY <3>1
        <3> QED
            BY <3>2 DEF c
    <2>17. Conduit!IsMerge(r, b)
        <3>1. {r[k] : k \in DOMAIN r} = {Conduit!Fragment(b, p) : p \in Conduit!Places(b)}
            BY <2>15 DEF All
        <3>2. \A j, k \in DOMAIN r : j < k => Conduit!Before(b, r[j], r[k])
            BY <2>11
        <3> QED
            BY <2>16, <3>1, <3>2, Zenon DEF Conduit!IsMerge
    <2> QED
        BY <2>8, <2>13, <2>14, <2>17
<1>4. Len(b) = 1 \/ Several(b)
    <2> DEFINE c == Len(b)
    <2>1. c \in Nat \ {0}
        BY <1>1
    <2> HIDE DEF c
    <2>2. c = 1 \/ c > 1
        BY <2>1
    <2> QED
        BY <2>2 DEF Several, c
<1> QED
    BY <1>2, <1>3, <1>4

-----------------------------------------------------------------------------
(* The invariant of the three threads. *)

\* Whether the handler has counted a batch and not queued it yet.
Holding == todo # <<>> /\ Head(todo) = "queue"

\* The handler queues a batch right after it has counted it.
Paired(chores) ==
    /\ \A i \in DOMAIN chores : chores[i] = "count" =>
          i + 1 \in DOMAIN chores /\ chores[i + 1] = "queue"
    /\ \A i \in DOMAIN chores : chores[i] = "queue" /\ i # 1 => chores[i - 1] = "count"

ChoresOk ==
    /\ Paired(todo)
    /\ Holding => batch \in Batches
    /\ ~Holding => batch = <<>>

\* The sort thread has a batch while it merges it.
SorterOk == IF sorter.at = "merge" THEN sorter.lists \in Batches ELSE sorter.lists = <<>>

\* What is merged, the oldest first, and what is not.
InWriter == IF writer.at = "get" THEN <<>> ELSE <<writer.list>>
InSorter == IF sorter.at \in {"count", "queue"} THEN <<sorter.list>> ELSE <<>>
Produced == delivered \o (InWriter \o (toOutput \o InSorter))
Waiting == (IF sorter.at = "merge" THEN <<sorter.lists>> ELSE <<>>) \o toSort

\* They are what was queued, in that order.
Conducts(produced, waiting, all) ==
    /\ Len(all) = Len(produced) + Len(waiting)
    /\ \A k \in 1 .. Len(produced) : produced[k] = Merge(all[k])
    /\ \A k \in 1 .. Len(waiting) : waiting[k] = all[Len(produced) + k]
InOrder == Conducts(Produced, Waiting, submitted)

PipelineIInv == TypeOK /\ ChoresOk /\ SorterOk /\ CountsExact /\ InOrder

-----------------------------------------------------------------------------
(* Chores. *)

\* Paired chores that do not begin with half a pair.
Whole(chores) ==
    /\ chores \in Seq(Chores) /\ Paired(chores)
    /\ chores # <<>> => Head(chores) # "queue"

\* Such chores one after the other are such chores.
LEMMA WholeConcat ==
    ASSUME NEW p, NEW q, Whole(p), Whole(q)
    PROVE  Whole(p \o q)
<1> DEFINE r == p \o q  m == Len(p)  n == Len(q)
<1>1. p \in Seq(Chores) /\ q \in Seq(Chores)
    BY DEF Whole
<1>2. m \in Nat /\ DOMAIN p = 1 .. m /\ n \in Nat /\ DOMAIN q = 1 .. n
    BY <1>1
<1>3. /\ r \in Seq(Chores) /\ DOMAIN r = 1 .. m + n
      /\ \A i \in 1 .. m + n : r[i] = IF i <= m THEN p[i] ELSE q[i - m]
    <2>1. /\ r \in Seq(Chores) /\ Len(r) = m + n
          /\ \A i \in 1 .. m + n : r[i] = IF i <= m THEN p[i] ELSE q[i - m]
        BY <1>1, ConcatProperties
    <2> HIDE DEF r, m, n
    <2>2. DOMAIN r = 1 .. Len(r)
        BY <2>1
    <2> QED
        BY <2>1, <2>2
<1>4. q # <<>> => n # 0 /\ q[1] # "queue"
    BY <1>1 DEF Whole
<1>5. n # 0 => q # <<>>
    BY <1>1
<1>6. Paired(p) /\ Paired(q)
    BY DEF Whole
<1>7. \A i \in 1 .. n : ~(m + i <= m) /\ m + i \in 1 .. m + n /\ (m + i) - m = i
    BY <1>2
<1>8. m # 0 => p # <<>> /\ p[1] # "queue"
    BY <1>1 DEF Whole
<1>9. r # <<>> => DOMAIN r # {} /\ Head(r) = r[1]
    BY <1>3
<1> HIDE DEF r, m, n
<1>10. \A i \in 1 .. m : i <= m /\ i \in 1 .. m + n /\ r[i] = p[i]
    BY <1>2, <1>3
<1>11. \A i \in 1 .. n : r[m + i] = q[i]
    BY <1>7, <1>3
<1>12. ASSUME NEW i \in 1 .. m + n
       PROVE  i \in 1 .. m \/ \E j \in 1 .. n : i = m + j
    <2>1. CASE i <= m
        BY <2>1, <1>2
    <2>2. CASE ~(i <= m)
        <3>1. i - m \in 1 .. n /\ i = m + (i - m)
            BY <2>2, <1>2
        <3> QED
            BY <3>1
    <2> QED
        BY <2>1, <2>2
<1>13. ASSUME NEW i \in 1 .. m + n, r[i] = "count"
       PROVE  i + 1 \in 1 .. m + n /\ r[i + 1] = "queue"
    <2>1. CASE i \in 1 .. m
        <3>1. i + 1 \in 1 .. m /\ p[i + 1] = "queue"
            BY <2>1, <1>2, <1>6, <1>10, <1>13 DEF Paired
        <3> QED
            BY <3>1, <1>10
    <2>2. CASE \E j \in 1 .. n : i = m + j
        <3>1. PICK j \in 1 .. n : i = m + j
            BY <2>2
        <3>2. j + 1 \in 1 .. n /\ q[j + 1] = "queue"
            BY <3>1, <1>2, <1>6, <1>11, <1>13 DEF Paired
        <3>3. m + (j + 1) = i + 1
            BY <3>1, <1>2
        <3>4. m + (j + 1) \in 1 .. m + n /\ r[m + (j + 1)] = "queue"
            BY <3>2, <1>7, <1>11
        <3> QED
            BY <3>3, <3>4
    <2> QED
        BY <2>1, <2>2, <1>12
<1>14. ASSUME NEW i \in 1 .. m + n, r[i] = "queue", i # 1
       PROVE  r[i - 1] = "count"
    <2>1. CASE i \in 1 .. m
        <3>1. i - 1 \in 1 .. m /\ p[i - 1] = "count"
            BY <2>1, <1>2, <1>6, <1>10, <1>14 DEF Paired
        <3> QED
            BY <3>1, <1>10
    <2>2. CASE \E j \in 1 .. n : i = m + j
        <3>1. PICK j \in 1 .. n : i = m + j
            BY <2>2
        <3>2. q[j] = "queue" /\ j # 1
            <4>1. q[j] = "queue"
                BY <3>1, <1>11, <1>14
            <4>2. n # 0
                BY <3>1, <1>2
            <4> QED
                BY <4>1, <4>2, <1>4, <1>5
        <3>3. j - 1 \in 1 .. n /\ q[j - 1] = "count"
            <4>1. q[j - 1] = "count"
                BY <3>2, <1>2, <1>6 DEF Paired
            <4>2. j - 1 \in 1 .. n
                BY <3>2, <1>2
            <4> QED
                BY <4>1, <4>2
        <3>4. m + (j - 1) = i - 1
            BY <3>1, <1>2
        <3>5. r[m + (j - 1)] = "count"
            BY <3>3, <1>11
        <3> QED
            BY <3>4, <3>5
    <2> QED
        BY <2>1, <2>2, <1>12
<1>15. r # <<>> => r[1] # "queue"
    <2>1. CASE m # 0
        <3>1. 1 \in 1 .. m
            BY <2>1, <1>2
        <3> QED
            BY <3>1, <2>1, <1>8, <1>10
    <2>2. CASE m = 0
        <3>1. CASE n = 0
            BY <3>1, <2>2, <1>3, <1>9
        <3>2. CASE n # 0
            <4>1. 1 \in 1 .. n /\ m + 1 = 1
                BY <3>2, <2>2, <1>2
            <4>2. r[1] = q[1]
                BY <4>1, <1>11
            <4> QED
                BY <4>2, <3>2, <1>4, <1>5
        <3> QED
            BY <3>1, <3>2
    <2> QED
        BY <2>1, <2>2
<1> QED
    BY <1>3, <1>9, <1>13, <1>14, <1>15 DEF Whole, Paired, r

\* What the handler sets out to do is.
LEMMA StartIsWhole ==
    ASSUME NEW chores \in FlushQueues, NEW last \in {<<"xoff">>, <<"xon">>, <<>>}
    PROVE  Whole(chores \o last)
<1>1. Whole(<<>>)
    BY DEF Whole, Paired
<1>2. Whole(Queue)
    <2>1. /\ Queue \in Seq(Chores) /\ DOMAIN Queue = 1 .. 2
          /\ Queue[1] = "count" /\ Queue[2] = "queue"
        BY DEF Queue, Chores
    <2>2. Head(Queue) = "count"
        BY DEF Queue
    <2>3. \A i \in 1 .. 2 : i = 1 \/ i = 2
        OBVIOUS
    <2> HIDE DEF Queue
    <2>4. Paired(Queue)
        BY <2>1, <2>3 DEF Paired
    <2> QED
        BY <2>1, <2>2, <2>4 DEF Whole
<1>3. ASSUME NEW c \in {"xon", "xoff"} PROVE Whole(<<c>>)
    <2>1. <<c>> \in Seq(Chores) /\ Head(<<c>>) = c
        BY DEF Chores
    <2>2. Paired(<<c>>)
        BY DEF Paired
    <2> QED
        BY <2>1, <2>2 DEF Whole
<1>4. Whole(<<"xon">>) /\ Whole(<<"xoff">>)
    BY <1>3
<1>5. PICK data \in {<<>>, Queue}, barrier \in {<<>>, <<"xon">> \o Queue} :
          chores = (data \o <<"xon">>) \o barrier
    BY DEF FlushQueues
<1>6. Whole(barrier)
    BY <1>1, <1>2, <1>4, WholeConcat
<1>7. Whole(data \o <<"xon">>)
    BY <1>1, <1>2, <1>4, WholeConcat
<1>8. Whole(chores)
    BY <1>5, <1>6, <1>7, WholeConcat
<1> QED
    BY <1>1, <1>4, <1>8, WholeConcat

\* What is left when a chore is done.
LEMMA PairedTail ==
    ASSUME NEW q \in Seq(Chores), q # <<>>, Paired(q)
    PROVE  /\ Tail(q) \in Seq(Chores) /\ Paired(Tail(q))
           /\ Head(q) = "count" => Tail(q) # <<>> /\ Head(Tail(q)) = "queue"
           /\ Head(q) # "count" => ~(Tail(q) # <<>> /\ Head(Tail(q)) = "queue")
<1> DEFINE t == Tail(q)  n == Len(t)
<1>1. /\ t \in Seq(Chores) /\ n \in Nat /\ DOMAIN t = 1 .. n /\ DOMAIN q = 1 .. n + 1
      /\ \A i \in 1 .. n : t[i] = q[i + 1]
    OBVIOUS
<1> HIDE DEF t
<1>2. Head(q) = q[1] /\ (t # <<>> => Head(t) = t[1] /\ n # 0) /\ (n # 0 => t # <<>>)
    BY <1>1
<1> HIDE DEF n
<1>3. \A i \in 1 .. n : i + 1 \in 1 .. n + 1 /\ i + 1 # 1
    BY <1>1
<1>4. ASSUME NEW i \in 1 .. n, t[i] = "count"
      PROVE  i + 1 \in 1 .. n /\ t[i + 1] = "queue"
    <2>1. q[i + 1] = "count"
        BY <1>1, <1>4
    <2>2. (i + 1) + 1 \in 1 .. n + 1 /\ q[(i + 1) + 1] = "queue"
        BY <2>1, <1>1, <1>3 DEF Paired
    <2>3. i + 1 \in 1 .. n
        BY <2>2, <1>1
    <2> QED
        BY <2>2, <2>3, <1>1
<1>5. ASSUME NEW i \in 1 .. n, t[i] = "queue"
      PROVE  q[i] = "count"
    <2>1. q[i + 1] = "queue" /\ (i + 1) - 1 = i
        BY <1>1, <1>5
    <2> QED
        BY <2>1, <1>1, <1>3 DEF Paired
<1>6. ASSUME NEW i \in 1 .. n, t[i] = "queue", i # 1
      PROVE  t[i - 1] = "count"
    <2>1. i - 1 \in 1 .. n /\ (i - 1) + 1 = i
        BY <1>1, <1>6
    <2> QED
        BY <2>1, <1>1, <1>5, <1>6
<1>7. Paired(t)
    BY <1>1, <1>4, <1>6 DEF Paired
<1>8. ASSUME Head(q) = "count" PROVE t # <<>> /\ Head(t) = "queue"
    <2>1. 1 \in 1 .. n + 1
        BY <1>1
    <2>2. 1 + 1 \in 1 .. n + 1 /\ q[1 + 1] = "queue"
        BY <2>1, <1>1, <1>2, <1>8 DEF Paired
    <2>3. 1 \in 1 .. n
        BY <2>2, <1>1
    <2>4. n # 0 /\ t[1] = "queue"
        BY <2>2, <2>3, <1>1
    <2> QED
        BY <2>4, <1>2
<1>9. ASSUME t # <<>>, Head(t) = "queue" PROVE Head(q) = "count"
    <2>1. 1 \in 1 .. n /\ t[1] = "queue"
        BY <1>9, <1>1, <1>2
    <2> QED
        BY <2>1, <1>2, <1>5
<1> QED
    BY <1>1, <1>7, <1>8, <1>9 DEF t

-----------------------------------------------------------------------------
(* Counting. *)

\* What the members of q weigh.
Weighed(q, w) == [k \in DOMAIN q |-> w[q[k]]]

\* The weight of a sequence, of one with a member more, and of one with one less.
LEMMA WeighedIs ==
    ASSUME NEW S, NEW w \in [S -> Nat], NEW q \in Seq(S)
    PROVE  /\ Total(Weighed(q, w)) \in Nat
           /\ \A x \in S : Total(Weighed(Append(q, x), w)) = Total(Weighed(q, w)) + w[x]
           /\ q # <<>> => /\ Total(Weighed(Tail(q), w)) \in Nat
                          /\ Total(Weighed(q, w)) = w[Head(q)] + Total(Weighed(Tail(q), w))
<1>1. ASSUME NEW r \in Seq(S)
      PROVE  /\ Weighed(r, w) \in Seq(Nat) /\ Len(Weighed(r, w)) = Len(r)
             /\ \A k \in 1 .. Len(r) : Weighed(r, w)[k] = w[r[k]]
             /\ Weighed(r, w) = [k \in 1 .. Len(r) |-> w[r[k]]]
    BY DEF Weighed
<1>2. Total(Weighed(q, w)) \in Nat
    BY <1>1, TotalNat
<1>3. ASSUME NEW x \in S
      PROVE  Total(Weighed(Append(q, x), w)) = Total(Weighed(q, w)) + w[x]
    <2> DEFINE n == Len(q)  r == Append(q, x)  wq == Weighed(q, w)
    <2>1. /\ r \in Seq(S) /\ Len(r) = n + 1 /\ n \in Nat
          /\ \A i \in 1 .. n : r[i] = q[i]
          /\ r[n + 1] = x
        BY AppendIs
    <2>2. wq \in Seq(Nat) /\ Len(wq) = n /\ \A k \in 1 .. n : wq[k] = w[q[k]]
        BY <1>1
    <2>3. Weighed(r, w) \in Seq(Nat) /\ Len(Weighed(r, w)) = n + 1
          /\ \A k \in 1 .. n + 1 : Weighed(r, w)[k] = w[r[k]]
        <3> HIDE DEF r, n
        <3> QED
            BY <2>1, <1>1
    <2>4. w[x] \in Nat
        OBVIOUS
    <2> DEFINE a == Append(wq, w[x])
    <2> HIDE DEF wq, r, n
    <2>5. /\ a \in Seq(Nat) /\ Len(a) = n + 1 /\ (\A k \in 1 .. n : a[k] = wq[k])
          /\ a[n + 1] = w[x]
        <3>1. /\ a \in Seq(Nat) /\ Len(a) = Len(wq) + 1
              /\ (\A k \in 1 .. Len(wq) : a[k] = wq[k])
              /\ a[Len(wq) + 1] = w[x]
            BY <2>2, <2>4, AppendIs
        <3> QED
            BY <3>1, <2>2
    <2>6. \A k \in 1 .. n + 1 : Weighed(r, w)[k] = a[k]
        <3> TAKE k \in 1 .. n + 1
        <3> HIDE DEF a
        <3>1. CASE k = n + 1
            BY <3>1, <2>1, <2>3, <2>5
        <3>2. CASE k # n + 1
            <4>1. k \in 1 .. n
                BY <3>2, <2>1
            <4>2. Weighed(r, w)[k] = w[r[k]] /\ r[k] = q[k]
                BY <4>1, <2>1, <2>3
            <4>3. a[k] = wq[k] /\ wq[k] = w[q[k]]
                BY <4>1, <2>2, <2>5
            <4> QED
                BY <4>2, <4>3, Zenon
        <3> QED
            BY <3>1, <3>2
    <2>7. Weighed(r, w) = a
        <3> DEFINE wr == Weighed(r, w)
        <3> HIDE DEF a, wr
        <3>1. wr = [k \in 1 .. Len(wr) |-> wr[k]] /\ a = [k \in 1 .. Len(a) |-> a[k]]
            BY <2>3, <2>5, SeqIs DEF wr
        <3> QED
            BY <3>1, <2>3, <2>5, <2>6 DEF wr
    <2>8. Total(a) = Total(wq) + w[x]
        BY <2>2, <2>4, TotalAppend
    <2> QED
        BY <2>7, <2>8 DEF r, wq
<1>4. ASSUME q # <<>>
      PROVE  /\ Total(Weighed(Tail(q), w)) \in Nat
             /\ Total(Weighed(q, w)) = w[Head(q)] + Total(Weighed(Tail(q), w))
    <2> DEFINE n == Len(q)  t == Tail(q)  wq == Weighed(q, w)  wt == Weighed(t, w)
    <2>1. /\ t \in Seq(S) /\ Len(t) = n - 1 /\ n \in Nat \ {0} /\ Head(q) = q[1]
          /\ \A i \in 1 .. n - 1 : t[i] = q[i + 1]
        BY <1>4
    <2>2. wq \in Seq(Nat) /\ Len(wq) = n /\ \A k \in 1 .. n : wq[k] = w[q[k]]
        BY <1>1
    <2>3. wt \in Seq(Nat) /\ Len(wt) = n - 1 /\ \A k \in 1 .. n - 1 : wt[k] = w[t[k]]
        <3> HIDE DEF t, n
        <3> QED
            BY <2>1, <1>1
    <2> DEFINE u == Tail(wq)
    <2> HIDE DEF wq, wt, t, n
    <2>4. wq # <<>>
        BY <2>1, <2>2
    <2>5. /\ u \in Seq(Nat) /\ Len(u) = n - 1 /\ \A k \in 1 .. n - 1 : u[k] = wq[k + 1]
        BY <2>2, <2>4
    <2> HIDE DEF u
    <2>6. \A k \in 1 .. n - 1 : u[k] = wt[k]
        <3> TAKE k \in 1 .. n - 1
        <3>1. k + 1 \in 1 .. n
            BY <2>1
        <3>2. u[k] = wq[k + 1] /\ wq[k + 1] = w[q[k + 1]]
            BY <3>1, <2>2, <2>5
        <3>3. wt[k] = w[t[k]] /\ t[k] = q[k + 1]
            BY <2>1, <2>3
        <3> QED
            BY <3>2, <3>3, Zenon
    <2>7. u = wt
        <3>1. u = [k \in 1 .. Len(u) |-> u[k]] /\ wt = [k \in 1 .. Len(wt) |-> wt[k]]
            BY <2>3, <2>5, SeqIs
        <3> QED
            BY <3>1, <2>3, <2>5, <2>6
    <2>8. Total(wq) = wq[1] + Total(Tail(wq)) /\ Total(Tail(wq)) \in Nat
        BY <2>2, <2>4, TotalTail
    <2>9. wq[1] = w[Head(q)]
        <3>1. 1 \in 1 .. n
            BY <2>1
        <3> QED
            BY <3>1, <2>1, <2>2
    <2> QED
        BY <2>7, <2>8, <2>9 DEF u, wt, wq, t
<1> QED
    BY <1>2, <1>3, <1>4

\* The fragments of the batches of a queue.
Queued(q) == Total([k \in DOMAIN q |-> Size(q[k])])

\* The batches there are are batches.
LEMMA BatchIs ==
    ASSUME NEW b \in Batches
    PROVE  /\ b \in Seq(Seq(Fragments)) /\ b # <<>> /\ Size(b) \in Nat
           /\ Merged[b] = Merge(b) /\ Merge(b) \in Seq(Fragments) /\ Len(Merge(b)) = Size(b)
<1>1. IsBatch(b)
    BY PipelineAssumption
<1>2. b \in Seq(Seq(Fragments)) /\ b # <<>>
    BY <1>1 DEF IsBatch
<1> QED
    BY <1>1, <1>2, SizeIs, MergeIs DEF Merged

\* How many they are.
LEMMA QueuedIs ==
    ASSUME NEW q \in Seq(Batches)
    PROVE  /\ Queued(q) \in Nat
           /\ \A b \in Batches : Queued(Append(q, b)) = Queued(q) + Size(b)
           /\ q # <<>> => /\ Queued(Tail(q)) \in Nat
                          /\ Queued(q) = Size(Head(q)) + Queued(Tail(q))
<1> DEFINE w == [b \in Batches |-> Size(b)]
<1>1. w \in [Batches -> Nat]
    BY BatchIs
<1>2. ASSUME NEW r \in Seq(Batches) PROVE Queued(r) = Total(Weighed(r, w))
    <2>1. \A k \in DOMAIN r : w[r[k]] = Size(r[k])
        OBVIOUS
    <2>2. Weighed(r, w) = [k \in DOMAIN r |-> Size(r[k])]
        <3> HIDE DEF w
        <3> QED
            BY <2>1 DEF Weighed
    <2> QED
        BY <2>2 DEF Queued
<1>3. \A b \in Batches : w[b] = Size(b) /\ Append(q, b) \in Seq(Batches)
    OBVIOUS
<1>4. q # <<>> => Tail(q) \in Seq(Batches) /\ Head(q) \in Batches
    OBVIOUS
<1> HIDE DEF w
<1>5. /\ Total(Weighed(q, w)) \in Nat
      /\ \A x \in Batches : Total(Weighed(Append(q, x), w)) = Total(Weighed(q, w)) + w[x]
      /\ q # <<>> => /\ Total(Weighed(Tail(q), w)) \in Nat
                     /\ Total(Weighed(q, w)) = w[Head(q)] + Total(Weighed(Tail(q), w))
    BY <1>1, WeighedIs
<1> QED
    BY <1>2, <1>3, <1>4, <1>5

\* How many fragments lists have.
LEMMA ListsAre ==
    ASSUME NEW q \in Seq(Seq(Fragments))
    PROVE  /\ Size(q) \in Nat
           /\ \A l \in Seq(Fragments) : Size(Append(q, l)) = Size(q) + Len(l)
           /\ q # <<>> => /\ Size(Tail(q)) \in Nat
                          /\ Size(q) = Len(Head(q)) + Size(Tail(q))
<1> DEFINE S == Seq(Fragments)  w == [l \in S |-> Len(l)]
<1>1. w \in [S -> Nat]
    OBVIOUS
<1>2. ASSUME NEW r \in Seq(S) PROVE Size(r) = Total(Weighed(r, w))
    <2> HIDE DEF S
    <2>1. \A k \in DOMAIN r : w[r[k]] = Len(r[k])
        OBVIOUS
    <2>2. Weighed(r, w) = [k \in DOMAIN r |-> Len(r[k])]
        <3> HIDE DEF w
        <3> QED
            BY <2>1 DEF Weighed
    <2> QED
        BY <2>2 DEF Size
<1> HIDE DEF S
<1>3. \A l \in S : w[l] = Len(l) /\ Append(q, l) \in Seq(S)
    BY DEF S
<1>4. q # <<>> => Tail(q) \in Seq(S) /\ Head(q) \in S
    BY DEF S
<1> HIDE DEF w
<1>5. /\ Total(Weighed(q, w)) \in Nat
      /\ \A x \in S : Total(Weighed(Append(q, x), w)) = Total(Weighed(q, w)) + w[x]
      /\ q # <<>> => /\ Total(Weighed(Tail(q), w)) \in Nat
                     /\ Total(Weighed(q, w)) = w[Head(q)] + Total(Weighed(Tail(q), w))
    <2>1. q \in Seq(S)
        BY DEF S
    <2> QED
        BY <2>1, <1>1, WeighedIs
<1>6. q \in Seq(S)
    BY DEF S
<1> QED
    BY <1>2, <1>3, <1>4, <1>5, <1>6 DEF S

\* Nothing has no fragments.
LEMMA NoneIs == Size(<<>>) = 0 /\ Queued(<<>>) = 0
<1>1. /\ [l \in DOMAIN <<>> |-> Len(<<>>[l])] = <<>>
      /\ [l \in DOMAIN <<>> |-> Size(<<>>[l])] = <<>>
    OBVIOUS
<1> QED
    BY <1>1, TotalEmpty DEF Size, Queued

-----------------------------------------------------------------------------
(* What is merged and what waits. *)

\* The first of a sequence and the rest of it are the sequence.
LEMMA FirstAndRest ==
    ASSUME NEW S, NEW q \in Seq(S), q # <<>>
    PROVE  /\ Head(q) \in S /\ Tail(q) \in Seq(S) /\ <<Head(q)>> \in Seq(S)
           /\ <<Head(q)>> \o Tail(q) = q
OBVIOUS

\* A sequence with one more at its end.
LEMMA OneMore ==
    ASSUME NEW S, NEW q \in Seq(S), NEW x \in S
    PROVE  /\ <<x>> \in Seq(S) /\ Append(q, x) \in Seq(S) /\ q \o <<x>> = Append(q, x)
           /\ \A p \in Seq(S) : p \o q \in Seq(S) /\ p \o Append(q, x) = Append(p \o q, x)
<1>1. <<x>> \in Seq(S) /\ Append(q, x) \in Seq(S) /\ q \o <<x>> = Append(q, x)
    OBVIOUS
<1>2. ASSUME NEW p \in Seq(S)
      PROVE  p \o q \in Seq(S) /\ p \o Append(q, x) = Append(p \o q, x)
    <2>1. p \o q \in Seq(S)
        BY ConcatProperties
    <2> DEFINE c == p \o q
    <2> HIDE DEF c
    <2>2. c \o <<x>> = Append(c, x)
        BY <2>1 DEF c
    <2>3. (p \o q) \o <<x>> = p \o (q \o <<x>>)
        BY <1>1, ConcatAssociative
    <2> QED
        BY <2>1, <2>2, <2>3, <1>1 DEF c
<1> QED
    BY <1>1, <1>2

\* What stands between two sequences.
LEMMA InTheMiddle ==
    ASSUME NEW S, NEW d \in Seq(S), NEW c \in Seq(S), NEW x \in S
    PROVE  /\ Len(d) \in Nat /\ Len(d \o (<<x>> \o c)) \in Nat
           /\ Len(d) + 1 <= Len(d \o (<<x>> \o c))
           /\ (d \o (<<x>> \o c))[Len(d) + 1] = x
<1> DEFINE r == <<x>> \o c
<1>1. r \in Seq(S) /\ Len(r) = 1 + Len(c) /\ r[1] = x
    OBVIOUS
<1>2. Len(c) \in Nat /\ Len(d) \in Nat
    OBVIOUS
<1> HIDE DEF r
<1>3. /\ Len(d \o r) = Len(d) + Len(r)
      /\ \A i \in 1 .. Len(d) + Len(r) :
            (d \o r)[i] = IF i <= Len(d) THEN d[i] ELSE r[i - Len(d)]
    <2>1. r \in Seq(S)
        BY <1>1
    <2> QED
        BY <2>1, ConcatProperties
<1> DEFINE m == Len(d)  k == Len(r)
<1>4. /\ m + 1 \in 1 .. m + k /\ ~(m + 1 <= m) /\ (m + 1) - m = 1
      /\ m + k \in Nat /\ m + 1 <= m + k
    <2> HIDE DEF m
    <2>1. k = 1 + Len(c) /\ Len(c) \in Nat /\ m \in Nat
        BY <1>1, <1>2 DEF m
    <2> HIDE DEF k
    <2> QED
        BY <2>1
<1>5. (d \o r)[m + 1] = r[1]
    BY <1>3, <1>4
<1> QED
    BY <1>1, <1>2, <1>3, <1>4, <1>5 DEF r

\* Sequences are joined in any grouping.
Joins(S) == \A p, r, v \in Seq(S) : (p \o r) \o v = p \o (r \o v)

\* Joining sequences is associative.
LEMMA Associative ==
    ASSUME NEW S
    PROVE  Joins(S)
BY ConcatAssociative DEF Joins

\* What has been merged: the lists the observers have, those the output thread has and
\* those that wait for it, and the one the sort thread has.
Line(d, w, q, s) == d \o (w \o (q \o s))

\* How it moves on.
Moves(S, d, w, q, s) ==
    /\ Line(d, w, q, s) \in Seq(S)
    /\ \A x \in S : Line(d, w, Append(q, x), <<>>) = Line(d, w, q, <<x>>)
    /\ \A x \in S : Line(d, w, q, <<x>>) = Append(Line(d, w, q, <<>>), x)
    /\ \A x \in S : Line(Append(d, x), <<>>, q, s) = Line(d, <<x>>, q, s)
    /\ q # <<>> => Line(d, <<Head(q)>>, Tail(q), s) = Line(d, <<>>, q, s)

\* Where they are does not matter to it.
LEMMA LineMoves ==
    ASSUME NEW S, NEW d \in Seq(S), NEW q \in Seq(S), NEW s \in Seq(S), NEW w \in Seq(S)
    PROVE  Moves(S, d, w, q, s)
<1>1. \A p, r \in Seq(S) : p \o r \in Seq(S)
    BY ConcatProperties
<1>2. \A p \in Seq(S) : p \o <<>> = p /\ <<>> \o p = p
    BY ConcatEmptySeq
<1>3. Joins(S)
    BY Associative
<1>4. \A p \in Seq(S) : \A x \in S :
          <<x>> \in Seq(S) /\ Append(p, x) \in Seq(S) /\ p \o <<x>> = Append(p, x)
    BY OneMore
<1>5. \A p, r \in Seq(S) : \A x \in S : p \o Append(r, x) = Append(p \o r, x)
    BY OneMore
<1>6. Line(d, w, q, s) \in Seq(S)
    <2>1. q \o s \in Seq(S)
        BY <1>1
    <2>2. w \o (q \o s) \in Seq(S)
        BY <2>1, <1>1
    <2> QED
        BY <2>2, <1>1 DEF Line
<1>7. ASSUME NEW x \in S
      PROVE  Line(d, w, Append(q, x), <<>>) = Line(d, w, q, <<x>>)
    <2>1. Append(q, x) \o <<>> = q \o <<x>>
        BY <1>2, <1>4, Zenon
    <2> QED
        BY <2>1, Zenon DEF Line
<1>8. ASSUME NEW x \in S
      PROVE  Line(d, w, q, <<x>>) = Append(Line(d, w, q, <<>>), x)
    <2>1. q \o <<>> = q /\ q \o <<x>> = Append(q, x)
        BY <1>2, <1>4, Zenon
    <2>2. w \o Append(q, x) = Append(w \o q, x) /\ w \o q \in Seq(S)
        BY <1>1, <1>5, Zenon
    <2>3. d \o Append(w \o q, x) = Append(d \o (w \o q), x)
        BY <2>2, <1>5, Zenon
    <2> QED
        BY <2>1, <2>2, <2>3, Zenon DEF Line
<1>9. ASSUME NEW x \in S
      PROVE  Line(Append(d, x), <<>>, q, s) = Line(d, <<x>>, q, s)
    <2> DEFINE c == q \o s
    <2>1. c \in Seq(S)
        BY <1>1
    <2> HIDE DEF c
    <2>2. <<>> \o c = c
        BY <2>1, <1>2, Zenon
    <2>3. Append(d, x) = d \o <<x>> /\ <<x>> \in Seq(S)
        BY <1>4, Zenon
    <2>4. (d \o <<x>>) \o c = d \o (<<x>> \o c)
        BY <2>1, <2>3, <1>3, ZenonT(30) DEF Joins
    <2> QED
        BY <2>2, <2>3, <2>4, Zenon DEF Line, c
<1>10. ASSUME q # <<>>
       PROVE  Line(d, <<Head(q)>>, Tail(q), s) = Line(d, <<>>, q, s)
    <2>1. Tail(q) \in Seq(S) /\ <<Head(q)>> \in Seq(S) /\ <<Head(q)>> \o Tail(q) = q
        BY <1>10, FirstAndRest
    <2>2. <<Head(q)>> \o (Tail(q) \o s) = (<<Head(q)>> \o Tail(q)) \o s
        BY <2>1, <1>3, ZenonT(30) DEF Joins
    <2>3. <<>> \o (q \o s) = q \o s
        BY <1>1, <1>2, Zenon
    <2> QED
        BY <2>1, <2>2, <2>3, Zenon DEF Line
<1> QED
    BY <1>6, <1>7, <1>8, <1>9, <1>10, Zenon DEF Moves

\* A batch that is queued waits.
LEMMA ConductsSubmit ==
    ASSUME NEW L, NEW B, NEW p \in Seq(L), NEW w \in Seq(B), NEW all \in Seq(B), NEW b \in B,
           Conducts(p, w, all)
    PROVE  Conducts(p, Append(w, b), Append(all, b))
<1> DEFINE m == Len(p)  n == Len(w)  v == Append(w, b)  a == Append(all, b)
<1>1. m \in Nat /\ n \in Nat /\ Len(all) = m + n
    BY DEF Conducts
<1>2. Len(v) = n + 1 /\ v[n + 1] = b /\ \A i \in 1 .. n : v[i] = w[i]
    BY AppendIs
<1>3. Len(a) = (m + n) + 1 /\ a[(m + n) + 1] = b /\ \A i \in 1 .. m + n : a[i] = all[i]
    <2>1. /\ Len(a) = Len(all) + 1 /\ a[Len(all) + 1] = b
          /\ \A i \in 1 .. Len(all) : a[i] = all[i]
        BY AppendIs
    <2> HIDE DEF a, m, n
    <2> QED
        BY <2>1, <1>1
<1>4. /\ \A k \in 1 .. m : p[k] = Merge(all[k])
      /\ \A k \in 1 .. n : w[k] = all[m + k]
    BY DEF Conducts
<1> HIDE DEF m, n, v, a
<1>5. Len(a) = m + Len(v)
    BY <1>1, <1>2, <1>3
<1>6. \A k \in 1 .. m : p[k] = Merge(a[k])
    <2> TAKE k \in 1 .. m
    <2>1. k \in 1 .. m + n
        BY <1>1
    <2>2. a[k] = all[k]
        BY <2>1, <1>3
    <2> QED
        BY <2>2, <1>4
<1>7. \A k \in 1 .. Len(v) : v[k] = a[m + k]
    <2> TAKE k \in 1 .. Len(v)
    <2>1. CASE k = n + 1
        <3>1. m + k = (m + n) + 1
            BY <2>1, <1>1
        <3> QED
            BY <3>1, <2>1, <1>2, <1>3
    <2>2. CASE k # n + 1
        <3>1. k \in 1 .. n
            BY <2>2, <1>1, <1>2
        <3>2. m + k \in 1 .. m + n
            BY <3>1, <1>1
        <3> QED
            BY <3>1, <3>2, <1>2, <1>3, <1>4
    <2> QED
        BY <2>1, <2>2
<1> QED
    BY <1>5, <1>6, <1>7 DEF Conducts, m, v, a

\* The first that waits is the next to be merged.
LEMMA ConductsMerge ==
    ASSUME NEW L, NEW B, NEW p \in Seq(L), NEW w \in Seq(B), NEW all \in Seq(B), w # <<>>,
           Merge(Head(w)) \in L, Conducts(p, w, all)
    PROVE  Conducts(Append(p, Merge(Head(w))), Tail(w), all)
<1> DEFINE m == Len(p)  n == Len(w)  v == Tail(w)  o == Append(p, Merge(Head(w)))
<1>1. m \in Nat /\ n \in Nat \ {0} /\ Len(all) = m + n
    BY DEF Conducts
<1>2. Len(v) = n - 1 /\ Head(w) = w[1] /\ \A i \in 1 .. n - 1 : v[i] = w[i + 1]
    OBVIOUS
<1>3. Len(o) = m + 1 /\ o[m + 1] = Merge(Head(w)) /\ \A i \in 1 .. m : o[i] = p[i]
    BY AppendIs
<1>4. /\ \A k \in 1 .. m : p[k] = Merge(all[k])
      /\ \A k \in 1 .. n : w[k] = all[m + k]
    BY DEF Conducts
<1> HIDE DEF m, n, v, o
<1>5. Len(all) = Len(o) + Len(v)
    BY <1>1, <1>2, <1>3
<1>6. \A k \in 1 .. Len(o) : o[k] = Merge(all[k])
    <2> TAKE k \in 1 .. Len(o)
    <2>1. CASE k = m + 1
        <3>1. 1 \in 1 .. n
            BY <1>1
        <3>2. w[1] = all[m + 1]
            BY <3>1, <1>4
        <3> QED
            BY <3>2, <2>1, <1>2, <1>3
    <2>2. CASE k # m + 1
        <3>1. k \in 1 .. m
            BY <2>2, <1>1, <1>3
        <3> QED
            BY <3>1, <1>3, <1>4
    <2> QED
        BY <2>1, <2>2
<1>7. \A k \in 1 .. Len(v) : v[k] = all[Len(o) + k]
    <2> TAKE k \in 1 .. Len(v)
    <2>1. k \in 1 .. n - 1 /\ k + 1 \in 1 .. n /\ m + (k + 1) = (m + 1) + k
        BY <1>1, <1>2
    <2>2. v[k] = w[k + 1] /\ w[k + 1] = all[m + (k + 1)]
        BY <2>1, <1>2, <1>4
    <2> QED
        BY <2>1, <2>2, <1>3
<1> QED
    BY <1>5, <1>6, <1>7 DEF Conducts, o, v

-----------------------------------------------------------------------------
(* The invariant. *)

\* What is merged is a line, and what waits is a sequence of batches.
LEMMA Sequences ==
    ASSUME TypeOK, SorterOk
    PROVE  /\ InWriter \in Seq(Seq(Fragments)) /\ InSorter \in Seq(Seq(Fragments))
           /\ Produced = Line(delivered, InWriter, toOutput, InSorter)
           /\ Produced \in Seq(Seq(Fragments)) /\ Waiting \in Seq(Batches)
<1>1. /\ delivered \in Seq(Seq(Fragments)) /\ toOutput \in Seq(Seq(Fragments))
      /\ toSort \in Seq(Batches) /\ writer.list \in Seq(Fragments)
      /\ sorter.list \in Seq(Fragments)
    BY DEF TypeOK
<1>2. InWriter \in Seq(Seq(Fragments))
    BY <1>1 DEF InWriter
<1>3. InSorter \in Seq(Seq(Fragments))
    BY <1>1 DEF InSorter
<1>4. Produced = Line(delivered, InWriter, toOutput, InSorter)
    BY DEF Produced, Line
<1>5. Produced \in Seq(Seq(Fragments))
    BY <1>1, <1>2, <1>3, <1>4, LineMoves DEF Moves
<1>6. Waiting \in Seq(Batches)
    <2>1. CASE sorter.at = "merge"
        <3>1. <<sorter.lists>> \in Seq(Batches)
            BY <2>1 DEF SorterOk
        <3> QED
            BY <3>1, <2>1, <1>1 DEF Waiting
    <2>2. CASE sorter.at # "merge"
        <3>1. <<>> \in Seq(Batches)
            OBVIOUS
        <3> QED
            BY <3>1, <2>2, <1>1 DEF Waiting
    <2> QED
        BY <2>1, <2>2
<1> QED
    BY <1>2, <1>3, <1>4, <1>5, <1>6

\* The three totals of the fragments not sorted, and of those sorted.
Held == IF Holding THEN Size(batch) ELSE 0
AtQueue == IF sorter.at = "queue" THEN Len(sorter.list) ELSE 0
AtCount == IF writer.at = "count" THEN Len(writer.list) ELSE 0

\* They add up to what the counters say.
LEMMA CountsAre ==
    /\ Unsorted = Queued(toSort) + Size(sorter.lists) + Held
    /\ Sorted = Size(toOutput) + AtQueue + AtCount
BY DEF Unsorted, Sorted, Queued, Held, AtQueue, AtCount, Holding

\* The invariant at first.
LEMMA PipelineInit == Init => PipelineIInv
<1> SUFFICES ASSUME Init PROVE PipelineIInv
    OBVIOUS
<1> USE DEF Init
<1>1. TypeOK
    <2>1. todo \in Seq(Chores) /\ toSort \in Seq(Batches) /\ submitted \in Seq(Batches)
        OBVIOUS
    <2>2. toOutput \in Seq(Seq(Fragments)) /\ delivered \in Seq(Seq(Fragments))
        OBVIOUS
    <2>3. seen \in [counter : {"none", "inflight", "queued"}, value : Nat]
        BY DEF Unread
    <2>4. <<>> \in Seq(Fragments)
        OBVIOUS
    <2>5. sorter \in [at : {"get", "merge", "count", "queue"}, lists : Batches \cup {<<>>},
                      list : Seq(Fragments)]
        BY <2>4 DEF Sorter
    <2>6. writer \in [at : {"get", "count", "observe"}, list : Seq(Fragments)]
        BY <2>4 DEF Writer
    <2> QED
        BY <2>1, <2>2, <2>3, <2>5, <2>6 DEF TypeOK
<1>2. ChoresOk
    BY DEF ChoresOk, Paired, Holding
<1>3. SorterOk
    BY DEF SorterOk, Sorter
<1>4. CountsExact
    <2>1. Unsorted = 0
        <3>1. Queued(toSort) = 0 /\ Size(sorter.lists) = 0 /\ Held = 0
            BY NoneIs DEF Sorter, Held, Holding
        <3> QED
            BY <3>1, CountsAre
    <2>2. Sorted = 0
        <3>1. Size(toOutput) = 0 /\ AtQueue = 0 /\ AtCount = 0
            BY NoneIs DEF Sorter, Writer, AtQueue, AtCount
        <3> QED
            BY <3>1, CountsAre
    <2> QED
        BY <2>1, <2>2 DEF CountsExact
<1>5. InOrder
    <2>1. Produced = <<>> /\ Waiting = <<>>
        <3>1. InWriter = <<>> /\ InSorter = <<>> /\ sorter.at # "merge"
            BY DEF InWriter, InSorter, Sorter, Writer
        <3> QED
            BY <3>1 DEF Produced, Waiting
    <2> QED
        BY <2>1 DEF InOrder, Conducts
<1> QED
    BY <1>1, <1>2, <1>3, <1>4, <1>5 DEF PipelineIInv

\* And they are naturals.
LEMMA CountsNat ==
    ASSUME TypeOK
    PROVE  /\ Queued(toSort) \in Nat /\ Size(sorter.lists) \in Nat /\ Held \in Nat
           /\ Size(toOutput) \in Nat /\ AtQueue \in Nat /\ AtCount \in Nat
<1>1. \A b \in Batches \cup {<<>>} : Size(b) \in Nat
    BY BatchIs, NoneIs
<1>2. Queued(toSort) \in Nat
    BY QueuedIs DEF TypeOK
<1>3. Size(toOutput) \in Nat
    BY ListsAre DEF TypeOK
<1>4. Size(sorter.lists) \in Nat
    BY <1>1 DEF TypeOK
<1>5. Held \in Nat
    BY <1>1 DEF TypeOK, Held
<1>6. sorter.list \in Seq(Fragments) /\ writer.list \in Seq(Fragments)
    BY DEF TypeOK
<1>7. Len(sorter.list) \in Nat /\ Len(writer.list) \in Nat
    BY <1>6
<1>8. AtQueue \in Nat /\ AtCount \in Nat
    BY <1>7 DEF AtQueue, AtCount
<1> QED
    BY <1>2, <1>3, <1>4, <1>5, <1>8

-----------------------------------------------------------------------------
(* The handler's steps keep it. *)

\* A chore done.
LEMMA DoesIs ==
    ASSUME PipelineIInv, NEW what \in Chores, Does(what)
    PROVE  /\ todo' \in Seq(Chores) /\ Paired(todo')
           /\ Holding <=> what = "queue"
           /\ Holding' <=> what = "count"
<1>1. todo # <<>> /\ Head(todo) = what /\ todo' = Tail(todo)
    BY DEF Does
<1>2. todo \in Seq(Chores) /\ Paired(todo)
    BY DEF PipelineIInv, TypeOK, ChoresOk
<1>3. /\ Tail(todo) \in Seq(Chores) /\ Paired(Tail(todo))
      /\ Head(todo) = "count" => Tail(todo) # <<>> /\ Head(Tail(todo)) = "queue"
      /\ Head(todo) # "count" => ~(Tail(todo) # <<>> /\ Head(Tail(todo)) = "queue")
    BY <1>1, <1>2, PairedTail
<1>4. Holding' <=> Tail(todo) # <<>> /\ Head(Tail(todo)) = "queue"
    BY <1>1, Zenon DEF Holding
<1>5. Holding <=> what = "queue"
    BY <1>1, Zenon DEF Holding
<1>6. Holding' <=> what = "count"
    BY <1>1, <1>3, <1>4, Zenon
<1> QED
    BY <1>1, <1>3, <1>5, <1>6, Zenon

\* What a step of the handler leaves alone when it queues nothing.
QueuesKept ==
    UNCHANGED <<toSort, queued, sorter, toOutput, inflight, writer, submitted, delivered>>

\* Such a step keeps the invariant when it keeps the handler's part of it.
LEMMA HandlerKeeps ==
    ASSUME PipelineIInv, QueuesKept, ChoresOk', Held' = Held,
           todo' \in Seq(Chores), batch' \in Batches \cup {<<>>}, xoffed' \in BOOLEAN,
           seen' \in [counter : {"none", "inflight", "queued"}, value : Nat]
    PROVE  PipelineIInv'
<1>1. /\ toSort' = toSort /\ queued' = queued /\ sorter' = sorter /\ toOutput' = toOutput
      /\ inflight' = inflight /\ writer' = writer /\ submitted' = submitted
      /\ delivered' = delivered
    BY DEF QueuesKept
<1>2. TypeOK'
    <2>1. TypeOK
        BY DEF PipelineIInv
    <2> QED
        BY <1>1, <2>1 DEF TypeOK
<1>3. SorterOk'
    <2>1. SorterOk
        BY DEF PipelineIInv
    <2> QED
        BY <1>1, <2>1 DEF SorterOk
<1>4. CountsExact'
    <2>1. /\ Unsorted = Queued(toSort) + Size(sorter.lists) + Held
          /\ Sorted = Size(toOutput) + AtQueue + AtCount
        BY CountsAre
    <2>2. /\ Unsorted' = Queued(toSort') + Size(sorter'.lists) + Held'
          /\ Sorted' = Size(toOutput') + AtQueue' + AtCount'
        BY DEF Unsorted, Sorted, Queued, Held, AtQueue, AtCount, Holding
    <2>3. AtQueue' = AtQueue /\ AtCount' = AtCount
        BY <1>1 DEF AtQueue, AtCount
    <2>4. Unsorted' = Unsorted /\ Sorted' = Sorted
        BY <1>1, <2>1, <2>2, <2>3
    <2> QED
        BY <1>1, <2>4 DEF PipelineIInv, CountsExact
<1>5. InOrder'
    <2>1. Produced' = Produced
        BY <1>1 DEF Produced, InWriter, InSorter
    <2>2. Waiting' = Waiting
        BY <1>1 DEF Waiting
    <2>3. InOrder
        BY DEF PipelineIInv
    <2> QED
        BY <1>1, <2>1, <2>2, <2>3 DEF InOrder, Conducts
<1> QED
    BY <1>2, <1>3, <1>4, <1>5 DEF PipelineIInv

\* addFragments, IdlePoll and flush.
LEMMA StartKeeps ==
    ASSUME PipelineIInv, NEW last \in {<<"xoff">>, <<"xon">>, <<>>}, Start(last)
    PROVE  PipelineIInv'
<1>1. PICK chores \in FlushQueues : todo' = chores \o last
    BY DEF Start
<1>2. Whole(todo')
    BY <1>1, StartIsWhole
<1>3. todo = <<>> /\ batch' = batch /\ seen' = seen /\ xoffed' = xoffed /\ QueuesKept
    BY DEF Start, QueuesKept
<1>4. ~Holding /\ ~Holding'
    BY <1>2, <1>3 DEF Holding, Whole
<1>5. batch = <<>>
    BY <1>4 DEF PipelineIInv, ChoresOk
<1>6. ChoresOk'
    BY <1>2, <1>3, <1>4, <1>5 DEF ChoresOk, Whole
<1>7. Held' = Held
    BY <1>4 DEF Held
<1>8. todo' \in Seq(Chores)
    BY <1>2 DEF Whole
<1>9. TypeOK
    BY DEF PipelineIInv
<1>10. /\ batch' \in Batches \cup {<<>>} /\ xoffed' \in BOOLEAN
       /\ seen' \in [counter : {"none", "inflight", "queued"}, value : Nat]
    BY <1>3, <1>9 DEF TypeOK
<1> QED
    BY <1>3, <1>6, <1>7, <1>8, <1>10, HandlerKeeps

\* The first load of inFlightFragmentCount.
LEMMA ReadFirstKeeps ==
    ASSUME PipelineIInv, ReadFirst
    PROVE  PipelineIInv'
<1>1. /\ todo' = todo /\ batch' = batch /\ xoffed' = xoffed /\ QueuesKept
      /\ seen' \in {[counter |-> "inflight", value |-> inflight],
                    [counter |-> "queued", value |-> queued]}
    BY DEF ReadFirst, QueuesKept
<1>2. TypeOK /\ ChoresOk
    BY DEF PipelineIInv
<1>3. /\ todo' \in Seq(Chores) /\ batch' \in Batches \cup {<<>>} /\ xoffed' \in BOOLEAN
      /\ seen' \in [counter : {"none", "inflight", "queued"}, value : Nat]
    <2>1. inflight \in Nat /\ queued \in Nat
        BY <1>2 DEF TypeOK
    <2>2. seen' \in [counter : {"none", "inflight", "queued"}, value : Nat]
        BY <1>1, <2>1
    <2> QED
        BY <1>1, <1>2, <2>2 DEF TypeOK
<1>4. ChoresOk' /\ Held' = Held
    BY <1>1, <1>2 DEF ChoresOk, Held, Holding
<1> QED
    BY <1>1, <1>3, <1>4, HandlerKeeps

\* checkXon and checkXoff.
LEMMA CheckKeeps ==
    ASSUME PipelineIInv, CheckXon \/ CheckXoff
    PROVE  PipelineIInv'
<1>1. PICK what \in {"xon", "xoff"} : Does(what)
    BY DEF CheckXon, CheckXoff
<1>2. seen' = Unread /\ batch' = batch /\ QueuesKept /\ xoffed' \in BOOLEAN
    BY DEF CheckXon, CheckXoff, Checked, QueuesKept
<1>3. todo' \in Seq(Chores) /\ Paired(todo') /\ ~Holding /\ ~Holding'
    <2>1. what \in Chores /\ what # "queue" /\ what # "count"
        BY DEF Chores
    <2> QED
        BY <1>1, <2>1, DoesIs
<1>4. batch = <<>>
    BY <1>3 DEF PipelineIInv, ChoresOk
<1>5. ChoresOk' /\ Held' = Held
    <2>1. ChoresOk'
        BY <1>2, <1>3, <1>4 DEF ChoresOk
    <2>2. Held' = Held
        BY <1>3 DEF Held
    <2> QED
        BY <2>1, <2>2
<1>6. seen' \in [counter : {"none", "inflight", "queued"}, value : Nat]
    BY <1>2 DEF Unread
<1>7. batch' \in Batches \cup {<<>>}
    BY <1>2, <1>4
<1> QED
    BY <1>2, <1>3, <1>5, <1>6, <1>7, HandlerKeeps


\* queueFragments counts the batch.
LEMMA CountBatchKeeps ==
    ASSUME PipelineIInv, CountBatch
    PROVE  PipelineIInv'
<1>1. Does("count") /\ batch' \in Batches /\ queued' = queued + Size(batch')
    BY DEF CountBatch
<1>2. /\ seen' = seen /\ xoffed' = xoffed /\ sorter' = sorter /\ toOutput' = toOutput
      /\ inflight' = inflight /\ writer' = writer /\ delivered' = delivered
      /\ toSort' = toSort /\ submitted' = submitted
    BY DEF CountBatch
<1>3. todo' \in Seq(Chores) /\ Paired(todo') /\ ~Holding /\ Holding'
    <2>1. "count" \in Chores
        BY DEF Chores
    <2> QED
        BY <1>1, <2>1, DoesIs
<1>4. TypeOK
    BY DEF PipelineIInv
<1>5. Size(batch') \in Nat
    BY <1>1, BatchIs
<1>6. TypeOK'
    <2>1. queued' \in Nat
        BY <1>1, <1>4, <1>5 DEF TypeOK
    <2> QED
        BY <1>1, <1>2, <1>3, <1>4, <2>1 DEF TypeOK
<1>7. ChoresOk'
    BY <1>1, <1>3 DEF ChoresOk
<1>8. SorterOk'
    BY <1>2 DEF PipelineIInv, SorterOk
<1>9. CountsExact'
    <2>1. /\ Unsorted = Queued(toSort) + Size(sorter.lists) + Held
          /\ Sorted = Size(toOutput) + AtQueue + AtCount
        BY CountsAre
    <2>2. /\ Unsorted' = Queued(toSort') + Size(sorter'.lists) + Held'
          /\ Sorted' = Size(toOutput') + AtQueue' + AtCount'
        BY DEF Unsorted, Sorted, Queued, Held, AtQueue, AtCount, Holding
    <2>3. AtQueue' = AtQueue /\ AtCount' = AtCount
        BY <1>2 DEF AtQueue, AtCount
    <2>4. Held = 0 /\ Held' = Size(batch')
        BY <1>3 DEF Held
    <2>5. Queued(toSort) \in Nat /\ Size(sorter.lists) \in Nat
        BY <1>4, CountsNat
    <2>6. queued = Unsorted /\ inflight = Sorted
        BY DEF PipelineIInv, CountsExact
    <2>7. queued' = Unsorted'
        BY <1>1, <1>2, <1>5, <2>1, <2>2, <2>4, <2>5, <2>6
    <2>8. inflight' = Sorted'
        BY <1>2, <2>1, <2>2, <2>3, <2>6
    <2> QED
        BY <2>7, <2>8 DEF CountsExact
<1>10. InOrder'
    <2>1. Produced' = Produced /\ Waiting' = Waiting
        BY <1>2 DEF Produced, InWriter, InSorter, Waiting
    <2>2. InOrder
        BY DEF PipelineIInv
    <2> QED
        BY <1>2, <2>1, <2>2 DEF InOrder, Conducts
<1> QED
    BY <1>6, <1>7, <1>8, <1>9, <1>10 DEF PipelineIInv

\* And queues it.
LEMMA QueueBatchKeeps ==
    ASSUME PipelineIInv, QueueBatch
    PROVE  PipelineIInv' /\ batch \in Batches
<1>1. /\ Does("queue") /\ toSort' = Append(toSort, batch)
      /\ submitted' = Append(submitted, batch) /\ batch' = <<>>
    BY DEF QueueBatch
<1>2. /\ seen' = seen /\ xoffed' = xoffed /\ sorter' = sorter /\ toOutput' = toOutput
      /\ inflight' = inflight /\ writer' = writer /\ delivered' = delivered
      /\ queued' = queued
    BY DEF QueueBatch
<1>3. todo' \in Seq(Chores) /\ Paired(todo') /\ Holding /\ ~Holding'
    <2>1. "queue" \in Chores
        BY DEF Chores
    <2> QED
        BY <1>1, <2>1, DoesIs
<1>4. TypeOK /\ SorterOk
    BY DEF PipelineIInv
<1>5. batch \in Batches
    BY <1>3 DEF PipelineIInv, ChoresOk
<1>6. toSort \in Seq(Batches) /\ submitted \in Seq(Batches)
    BY <1>4 DEF TypeOK
<1>7. TypeOK'
    <2>1. toSort' \in Seq(Batches) /\ submitted' \in Seq(Batches)
        BY <1>1, <1>5, <1>6
    <2> QED
        BY <1>1, <1>2, <1>3, <1>4, <2>1 DEF TypeOK
<1>8. ChoresOk'
    BY <1>1, <1>3 DEF ChoresOk
<1>9. SorterOk'
    BY <1>2, <1>4 DEF SorterOk
<1>10. CountsExact'
    <2>1. /\ Unsorted = Queued(toSort) + Size(sorter.lists) + Held
          /\ Sorted = Size(toOutput) + AtQueue + AtCount
        BY CountsAre
    <2>2. /\ Unsorted' = Queued(toSort') + Size(sorter'.lists) + Held'
          /\ Sorted' = Size(toOutput') + AtQueue' + AtCount'
        BY DEF Unsorted, Sorted, Queued, Held, AtQueue, AtCount, Holding
    <2>3. AtQueue' = AtQueue /\ AtCount' = AtCount
        BY <1>2 DEF AtQueue, AtCount
    <2>4. Held' = 0 /\ Held = Size(batch)
        BY <1>3 DEF Held
    <2>5. Queued(toSort) \in Nat /\ Size(sorter.lists) \in Nat /\ Size(batch) \in Nat
        BY <1>4, <1>5, CountsNat, BatchIs
    <2>6. Queued(toSort') = Queued(toSort) + Size(batch)
        BY <1>1, <1>5, <1>6, QueuedIs
    <2>7. queued = Unsorted /\ inflight = Sorted
        BY DEF PipelineIInv, CountsExact
    <2>8. queued' = Unsorted'
        BY <1>2, <2>1, <2>2, <2>4, <2>5, <2>6, <2>7
    <2>9. inflight' = Sorted'
        BY <1>2, <2>1, <2>2, <2>3, <2>7
    <2> QED
        BY <2>8, <2>9 DEF CountsExact
<1>11. InOrder'
    <2>1. Produced' = Produced
        BY <1>2 DEF Produced, InWriter, InSorter
    <2>2. Produced \in Seq(Seq(Fragments)) /\ Waiting \in Seq(Batches)
        BY <1>4, Sequences
    <2>3. Waiting' = Append(Waiting, batch)
        <3>1. CASE sorter.at = "merge"
            <4>1. <<sorter.lists>> \in Seq(Batches)
                BY <3>1, <1>4 DEF SorterOk
            <4>2. <<sorter.lists>> \o Append(toSort, batch)
                     = Append(<<sorter.lists>> \o toSort, batch)
                BY <4>1, <1>5, <1>6, OneMore
            <4> QED
                BY <3>1, <4>2, <1>1, <1>2, Zenon DEF Waiting
        <3>2. CASE sorter.at # "merge"
            <4>1. /\ <<>> \o toSort = toSort
                  /\ <<>> \o Append(toSort, batch) = Append(toSort, batch)
                <5>1. Append(toSort, batch) \in Seq(Batches)
                    BY <1>5, <1>6
                <5> QED
                    BY <5>1, <1>6, ConcatEmptySeq
            <4> QED
                BY <3>2, <4>1, <1>1, <1>2, Zenon DEF Waiting
        <3> QED
            BY <3>1, <3>2
    <2>4. Conducts(Produced, Waiting, submitted)
        BY DEF PipelineIInv, InOrder
    <2>5. Conducts(Produced, Append(Waiting, batch), Append(submitted, batch))
        BY <2>2, <2>4, <1>5, <1>6, ConductsSubmit
    <2> QED
        BY <2>1, <2>3, <2>5, <1>1, Zenon DEF InOrder
<1> QED
    BY <1>5, <1>7, <1>8, <1>9, <1>10, <1>11 DEF PipelineIInv

-----------------------------------------------------------------------------
(* The sort thread's steps keep it. *)

\* What the steps of the two threads leave alone.
HandlerKept == UNCHANGED <<todo, batch, seen, xoffed, submitted>>

\* Such a step keeps the handler's part of the invariant.
LEMMA ThreadKeeps ==
    ASSUME PipelineIInv, HandlerKept
    PROVE  /\ ChoresOk' /\ Held' = Held /\ submitted' = submitted
           /\ todo' \in Seq(Chores) /\ batch' \in Batches \cup {<<>>} /\ xoffed' \in BOOLEAN
           /\ seen' \in [counter : {"none", "inflight", "queued"}, value : Nat]
           /\ submitted' \in Seq(Batches)
<1>1. /\ todo' = todo /\ batch' = batch /\ seen' = seen /\ xoffed' = xoffed
      /\ submitted' = submitted
    BY DEF HandlerKept
<1>2. TypeOK /\ ChoresOk
    BY DEF PipelineIInv
<1>3. ChoresOk' /\ Held' = Held
    BY <1>1, <1>2 DEF ChoresOk, Held, Holding
<1>4. /\ todo' \in Seq(Chores) /\ batch' \in Batches \cup {<<>>} /\ xoffed' \in BOOLEAN
      /\ seen' \in [counter : {"none", "inflight", "queued"}, value : Nat]
      /\ submitted' \in Seq(Batches)
    BY <1>1, <1>2 DEF TypeOK
<1> QED
    BY <1>1, <1>3, <1>4

\* What the counters stand for after a step.
LEMMA CountsAfter ==
    /\ Unsorted' = Queued(toSort') + Size(sorter'.lists) + Held'
    /\ Sorted' = Size(toOutput') + AtQueue' + AtCount'
BY DEF Unsorted, Sorted, Queued, Held, AtQueue, AtCount, Holding

\* The sort thread takes the first batch.
LEMMA SortGetKeeps ==
    ASSUME PipelineIInv, SortGet
    PROVE  PipelineIInv'
<1>1. /\ sorter.at = "get" /\ toSort # <<>>
      /\ sorter' = Sorter("merge", Head(toSort), <<>>) /\ toSort' = Tail(toSort)
    BY DEF SortGet
<1>2. /\ queued' = queued /\ toOutput' = toOutput /\ inflight' = inflight
      /\ writer' = writer /\ delivered' = delivered
    BY DEF SortGet
<1>3. HandlerKept
    BY DEF SortGet, HandlerKept, handler
<1>4. TypeOK /\ SorterOk
    BY DEF PipelineIInv
<1>5. /\ ChoresOk' /\ Held' = Held /\ submitted' = submitted
      /\ todo' \in Seq(Chores) /\ batch' \in Batches \cup {<<>>} /\ xoffed' \in BOOLEAN
      /\ seen' \in [counter : {"none", "inflight", "queued"}, value : Nat]
      /\ submitted' \in Seq(Batches)
    BY <1>3, ThreadKeeps
<1>6. toSort \in Seq(Batches)
    BY <1>4 DEF TypeOK
<1>7. Head(toSort) \in Batches /\ Tail(toSort) \in Seq(Batches)
    BY <1>1, <1>6
<1>8. sorter'.at = "merge" /\ sorter'.lists = Head(toSort) /\ sorter'.list = <<>>
    BY <1>1 DEF Sorter
<1>9. TypeOK'
    <2>1. <<>> \in Seq(Fragments)
        OBVIOUS
    <2>2. sorter' \in [at : {"get", "merge", "count", "queue"}, lists : Batches \cup {<<>>},
                       list : Seq(Fragments)]
        BY <2>1, <1>1, <1>7 DEF Sorter
    <2> QED
        BY <2>2, <1>1, <1>2, <1>4, <1>5, <1>7 DEF TypeOK
<1>10. SorterOk'
    BY <1>7, <1>8 DEF SorterOk
<1>11. CountsExact'
    <2>1. sorter.lists = <<>>
        BY <1>1, <1>4 DEF SorterOk
    <2>2. Size(sorter.lists) = 0 /\ Size(sorter'.lists) = Size(Head(toSort))
        BY <2>1, <1>8, NoneIs
    <2>3. /\ Queued(toSort) = Size(Head(toSort)) + Queued(toSort')
          /\ Queued(toSort') \in Nat /\ Size(Head(toSort)) \in Nat /\ Held \in Nat
        BY <1>1, <1>4, <1>6, <1>7, QueuedIs, BatchIs, CountsNat
    <2>4. AtQueue' = AtQueue /\ AtCount' = AtCount
        BY <1>1, <1>2, <1>8 DEF AtQueue, AtCount
    <2>5. queued = Unsorted /\ inflight = Sorted
        BY DEF PipelineIInv, CountsExact
    <2>6. queued' = Unsorted'
        BY <1>2, <1>5, <2>2, <2>3, <2>5, CountsAre, CountsAfter
    <2>7. inflight' = Sorted'
        BY <1>2, <2>4, <2>5, CountsAre, CountsAfter
    <2> QED
        BY <2>6, <2>7 DEF CountsExact
<1>12. InOrder'
    <2>1. Produced' = Produced
        BY <1>1, <1>2, <1>8 DEF Produced, InWriter, InSorter
    <2>2. Waiting' = <<Head(toSort)>> \o Tail(toSort)
        BY <1>1, <1>8 DEF Waiting
    <2>3. Waiting = <<>> \o toSort
        BY <1>1 DEF Waiting
    <2>4. Waiting' = Waiting
        BY <1>1, <1>6, <2>2, <2>3, FirstAndRest, ConcatEmptySeq
    <2>5. InOrder
        BY DEF PipelineIInv
    <2> QED
        BY <1>5, <2>1, <2>4, <2>5 DEF InOrder, Conducts
<1> QED
    BY <1>5, <1>9, <1>10, <1>11, <1>12 DEF PipelineIInv

\* It merges it.
LEMMA SortMergeKeeps ==
    ASSUME PipelineIInv, SortMerge
    PROVE  PipelineIInv'
<1> DEFINE b == sorter.lists
<1>1. /\ sorter.at = "merge" /\ sorter' = Sorter("count", <<>>, Merged[b])
      /\ queued' = queued - Len(Merged[b])
    BY DEF SortMerge
<1>2. /\ toSort' = toSort /\ toOutput' = toOutput /\ inflight' = inflight
      /\ writer' = writer /\ delivered' = delivered
    BY DEF SortMerge
<1>3. HandlerKept
    BY DEF SortMerge, HandlerKept, handler
<1>4. TypeOK /\ SorterOk
    BY DEF PipelineIInv
<1>5. /\ ChoresOk' /\ Held' = Held /\ submitted' = submitted
      /\ todo' \in Seq(Chores) /\ batch' \in Batches \cup {<<>>} /\ xoffed' \in BOOLEAN
      /\ seen' \in [counter : {"none", "inflight", "queued"}, value : Nat]
      /\ submitted' \in Seq(Batches)
    BY <1>3, ThreadKeeps
<1>6. b \in Batches
    BY <1>1, <1>4 DEF SorterOk
<1>7. /\ Merged[b] = Merge(b) /\ Merge(b) \in Seq(Fragments) /\ Len(Merge(b)) = Size(b)
      /\ Size(b) \in Nat
    BY <1>6, BatchIs
<1>8. sorter'.at = "count" /\ sorter'.lists = <<>> /\ sorter'.list = Merge(b)
    BY <1>1, <1>7 DEF Sorter
<1>9. queued' = queued - Size(b)
    BY <1>1, <1>7
<1>10. CountsExact' /\ queued' \in Nat
    <2>1. Size(sorter'.lists) = 0
        BY <1>8, NoneIs
    <2>2. Queued(toSort) \in Nat /\ Held \in Nat
        BY <1>4, CountsNat
    <2>3. AtQueue' = AtQueue /\ AtCount' = AtCount
        BY <1>1, <1>2, <1>8 DEF AtQueue, AtCount
    <2>4. queued = Unsorted /\ inflight = Sorted
        BY DEF PipelineIInv, CountsExact
    <2>5. queued' = Unsorted' /\ queued' \in Nat
        BY <1>2, <1>5, <1>7, <1>9, <2>1, <2>2, <2>4, CountsAre, CountsAfter
    <2>6. inflight' = Sorted'
        BY <1>2, <2>3, <2>4, CountsAre, CountsAfter
    <2> QED
        BY <2>5, <2>6 DEF CountsExact
<1>11. TypeOK'
    <2>1. sorter' \in [at : {"get", "merge", "count", "queue"}, lists : Batches \cup {<<>>},
                       list : Seq(Fragments)]
        BY <1>1, <1>7 DEF Sorter
    <2> QED
        BY <2>1, <1>2, <1>4, <1>5, <1>10 DEF TypeOK
<1>12. SorterOk'
    BY <1>8 DEF SorterOk
<1>13. InOrder'
    <2>1. /\ delivered \in Seq(Seq(Fragments)) /\ toOutput \in Seq(Seq(Fragments))
          /\ toSort \in Seq(Batches) /\ submitted \in Seq(Batches)
        BY <1>4 DEF TypeOK
    <2>2. /\ InWriter \in Seq(Seq(Fragments)) /\ Produced \in Seq(Seq(Fragments))
          /\ Produced = Line(delivered, InWriter, toOutput, InSorter)
          /\ Waiting \in Seq(Batches)
        BY <1>4, Sequences
    <2>3. InSorter = <<>>
        BY <1>1 DEF InSorter
    <2>4. Produced' = Line(delivered, InWriter, toOutput, <<Merge(b)>>)
        BY <1>2, <1>8 DEF Produced, Line, InWriter, InSorter
    <2>5. <<>> \in Seq(Seq(Fragments))
        OBVIOUS
    <2>6. Line(delivered, InWriter, toOutput, <<Merge(b)>>)
             = Append(Line(delivered, InWriter, toOutput, <<>>), Merge(b))
        <3> DEFINE O == Seq(Fragments)
        <3>1. /\ delivered \in Seq(O) /\ InWriter \in Seq(O) /\ toOutput \in Seq(O)
              /\ <<>> \in Seq(O) /\ Merge(b) \in O
            BY <1>7, <2>1, <2>2, <2>5
        <3> HIDE DEF O, b
        <3>2. \A x \in O : Line(delivered, InWriter, toOutput, <<x>>)
                             = Append(Line(delivered, InWriter, toOutput, <<>>), x)
            <4>1. Moves(O, delivered, InWriter, toOutput, <<>>)
                BY <3>1, LineMoves
            <4> QED
                BY <4>1, Zenon DEF Moves
        <3> QED
            BY <3>1, <3>2, Zenon
    <2>7. Produced' = Append(Produced, Merge(b))
        BY <2>2, <2>3, <2>4, <2>6, Zenon
    <2>8. Waiting = <<b>> \o toSort /\ Waiting' = <<>> \o toSort
        BY <1>1, <1>2, <1>8 DEF Waiting
    <2>9. Waiting # <<>> /\ Head(Waiting) = b /\ Tail(Waiting) = Waiting'
        <3> HIDE DEF b
        <3>1. <<b>> \o toSort # <<>> /\ Head(<<b>> \o toSort) = b
            BY <1>6, <2>1
        <3>2. Tail(<<b>> \o toSort) = <<>> \o toSort
            BY <1>6, <2>1
        <3> QED
            BY <2>8, <3>1, <3>2, Zenon
    <2>10. Conducts(Produced, Waiting, submitted)
        BY DEF PipelineIInv, InOrder
    <2> HIDE DEF b
    <2>11. Conducts(Append(Produced, Merge(b)), Waiting', submitted)
        <3>1. Merge(Head(Waiting)) \in Seq(Fragments)
            BY <1>7, <2>9, Zenon
        <3>2. Conducts(Append(Produced, Merge(Head(Waiting))), Tail(Waiting), submitted)
            BY <2>1, <2>2, <2>9, <2>10, <3>1, ConductsMerge
        <3> QED
            BY <2>9, <3>2, Zenon
    <2> QED
        BY <1>5, <2>7, <2>11, Zenon DEF InOrder
<1> QED
    BY <1>5, <1>10, <1>11, <1>12, <1>13 DEF PipelineIInv

\* It counts what it has merged for the output thread.
LEMMA SortCountKeeps ==
    ASSUME PipelineIInv, SortCount
    PROVE  PipelineIInv'
<1>1. /\ sorter.at = "count" /\ sorter' = [sorter EXCEPT !.at = "queue"]
      /\ inflight' = inflight + Len(sorter.list)
    BY DEF SortCount
<1>2. /\ toSort' = toSort /\ queued' = queued /\ toOutput' = toOutput
      /\ writer' = writer /\ delivered' = delivered
    BY DEF SortCount
<1>3. HandlerKept
    BY DEF SortCount, HandlerKept, handler
<1>4. TypeOK /\ SorterOk
    BY DEF PipelineIInv
<1>5. /\ ChoresOk' /\ Held' = Held /\ submitted' = submitted
      /\ todo' \in Seq(Chores) /\ batch' \in Batches \cup {<<>>} /\ xoffed' \in BOOLEAN
      /\ seen' \in [counter : {"none", "inflight", "queued"}, value : Nat]
      /\ submitted' \in Seq(Batches)
    BY <1>3, ThreadKeeps
<1>6. /\ sorter \in [at : {"get", "merge", "count", "queue"}, lists : Batches \cup {<<>>},
                     list : Seq(Fragments)]
      /\ inflight \in Nat
    BY <1>4 DEF TypeOK
<1>7. sorter'.at = "queue" /\ sorter'.lists = sorter.lists /\ sorter'.list = sorter.list
    BY <1>1, <1>6
<1>8. Len(sorter.list) \in Nat
    <2>1. sorter.list \in Seq(Fragments)
        BY <1>6
    <2> QED
        BY <2>1
<1>9. TypeOK'
    <2>1. sorter' \in [at : {"get", "merge", "count", "queue"}, lists : Batches \cup {<<>>},
                       list : Seq(Fragments)]
        BY <1>1, <1>6
    <2>2. inflight' \in Nat
        BY <1>1, <1>6, <1>8
    <2> QED
        BY <2>1, <2>2, <1>2, <1>4, <1>5 DEF TypeOK
<1>10. SorterOk'
    BY <1>1, <1>4, <1>7 DEF SorterOk
<1>11. CountsExact'
    <2>1. AtQueue = 0 /\ AtQueue' = Len(sorter.list) /\ AtCount' = AtCount
        BY <1>1, <1>2, <1>7 DEF AtQueue, AtCount
    <2>2. Size(toOutput) \in Nat /\ AtCount \in Nat
        BY <1>4, CountsNat
    <2>3. queued = Unsorted /\ inflight = Sorted
        BY DEF PipelineIInv, CountsExact
    <2>4. queued' = Unsorted'
        BY <1>2, <1>5, <1>7, <2>3, CountsAre, CountsAfter
    <2>5. inflight' = Sorted'
        BY <1>1, <1>2, <1>8, <2>1, <2>2, <2>3, CountsAre, CountsAfter
    <2> QED
        BY <2>4, <2>5 DEF CountsExact
<1>12. InOrder'
    <2>1. Produced' = Produced /\ Waiting' = Waiting
        BY <1>1, <1>2, <1>7 DEF Produced, InWriter, InSorter, Waiting
    <2>2. InOrder
        BY DEF PipelineIInv
    <2> QED
        BY <1>5, <2>1, <2>2 DEF InOrder, Conducts
<1> QED
    BY <1>5, <1>9, <1>10, <1>11, <1>12 DEF PipelineIInv

\* And queues it.
LEMMA SortQueueKeeps ==
    ASSUME PipelineIInv, SortQueue
    PROVE  PipelineIInv'
<1>1. /\ sorter.at = "queue" /\ sorter' = Sorter("get", <<>>, <<>>)
      /\ toOutput' = Append(toOutput, sorter.list)
    BY DEF SortQueue
<1>2. /\ toSort' = toSort /\ queued' = queued /\ inflight' = inflight
      /\ writer' = writer /\ delivered' = delivered
    BY DEF SortQueue
<1>3. HandlerKept
    BY DEF SortQueue, HandlerKept, handler
<1>4. TypeOK /\ SorterOk
    BY DEF PipelineIInv
<1>5. /\ ChoresOk' /\ Held' = Held /\ submitted' = submitted
      /\ todo' \in Seq(Chores) /\ batch' \in Batches \cup {<<>>} /\ xoffed' \in BOOLEAN
      /\ seen' \in [counter : {"none", "inflight", "queued"}, value : Nat]
      /\ submitted' \in Seq(Batches)
    BY <1>3, ThreadKeeps
<1>6. sorter.list \in Seq(Fragments) /\ toOutput \in Seq(Seq(Fragments))
    BY <1>4 DEF TypeOK
<1>7. sorter'.at = "get" /\ sorter'.lists = <<>> /\ sorter'.list = <<>>
    BY <1>1 DEF Sorter
<1>8. sorter.lists = <<>>
    BY <1>1, <1>4 DEF SorterOk
<1>9. TypeOK'
    <2>1. toOutput' \in Seq(Seq(Fragments)) /\ <<>> \in Seq(Fragments)
        BY <1>1, <1>6, AppendIs
    <2>2. sorter' \in [at : {"get", "merge", "count", "queue"}, lists : Batches \cup {<<>>},
                       list : Seq(Fragments)]
        BY <1>1, <2>1 DEF Sorter
    <2> QED
        BY <2>1, <2>2, <1>2, <1>4, <1>5 DEF TypeOK
<1>10. SorterOk'
    BY <1>7 DEF SorterOk
<1>11. CountsExact'
    <2>1. AtQueue = Len(sorter.list) /\ AtQueue' = 0 /\ AtCount' = AtCount
        BY <1>1, <1>2, <1>7 DEF AtQueue, AtCount
    <2>2. Size(toOutput) \in Nat /\ AtCount \in Nat /\ AtQueue \in Nat
        BY <1>4, CountsNat
    <2>3. Size(toOutput') = Size(toOutput) + Len(sorter.list)
        BY <1>1, <1>6, ListsAre
    <2>4. queued = Unsorted /\ inflight = Sorted
        BY DEF PipelineIInv, CountsExact
    <2>5. queued' = Unsorted'
        BY <1>2, <1>5, <1>7, <1>8, <2>4, CountsAre, CountsAfter
    <2>6. inflight' = Sorted'
        BY <1>2, <2>1, <2>2, <2>3, <2>4, CountsAre, CountsAfter
    <2> QED
        BY <2>5, <2>6 DEF CountsExact
<1>12. InOrder'
    <2> DEFINE O == Seq(Fragments)  x == sorter.list
    <2>1. Produced = Line(delivered, InWriter, toOutput, <<x>>)
        BY <1>1 DEF Produced, Line, InSorter
    <2>2. Produced' = Line(delivered, InWriter, Append(toOutput, x), <<>>)
        BY <1>1, <1>2, <1>7 DEF Produced, Line, InSorter, InWriter
    <2>3. Produced' = Produced
        <3>1. /\ delivered \in Seq(O) /\ InWriter \in Seq(O) /\ toOutput \in Seq(O)
              /\ <<>> \in Seq(O) /\ x \in O
            BY <1>4, <1>6, Sequences DEF TypeOK
        <3> HIDE DEF O, x
        <3>2. Line(delivered, InWriter, Append(toOutput, x), <<>>)
                 = Line(delivered, InWriter, toOutput, <<x>>)
            <4>1. Moves(O, delivered, InWriter, toOutput, <<>>)
                BY <3>1, LineMoves
            <4> QED
                BY <3>1, <4>1, Zenon DEF Moves
        <3> QED
            BY <2>1, <2>2, <3>2, Zenon
    <2>4. Waiting' = Waiting
        BY <1>1, <1>2, <1>7 DEF Waiting
    <2>5. InOrder
        BY DEF PipelineIInv
    <2> QED
        BY <1>5, <2>3, <2>4, <2>5, Zenon DEF InOrder
<1> QED
    BY <1>5, <1>9, <1>10, <1>11, <1>12 DEF PipelineIInv

-----------------------------------------------------------------------------
(* The output thread's steps keep it. *)

\* What the output thread's steps leave alone.
SorterKept == UNCHANGED <<toSort, queued, sorter>>

\* Such a step keeps the counter of the sort thread.
LEMMA OutputKeeps ==
    ASSUME PipelineIInv, HandlerKept, SorterKept
    PROVE  /\ SorterOk' /\ queued' = Unsorted' /\ AtQueue' = AtQueue
           /\ InSorter' = InSorter /\ Waiting' = Waiting
           /\ toSort' \in Seq(Batches) /\ queued' \in Nat
           /\ sorter' \in [at : {"get", "merge", "count", "queue"}, lists : Batches \cup {<<>>},
                           list : Seq(Fragments)]
<1>1. toSort' = toSort /\ queued' = queued /\ sorter' = sorter
    BY DEF SorterKept
<1>2. TypeOK /\ SorterOk
    BY DEF PipelineIInv
<1>3. SorterOk'
    BY <1>1, <1>2 DEF SorterOk
<1>4. queued' = Unsorted'
    <2>1. queued = Unsorted
        BY DEF PipelineIInv, CountsExact
    <2>2. Held' = Held
        BY ThreadKeeps
    <2> QED
        BY <2>1, <2>2, <1>1, CountsAre, CountsAfter
<1>5. AtQueue' = AtQueue /\ InSorter' = InSorter /\ Waiting' = Waiting
    BY <1>1 DEF AtQueue, InSorter, Waiting
<1>6. /\ toSort' \in Seq(Batches) /\ queued' \in Nat
      /\ sorter' \in [at : {"get", "merge", "count", "queue"}, lists : Batches \cup {<<>>},
                      list : Seq(Fragments)]
    BY <1>1, <1>2 DEF TypeOK
<1> QED
    BY <1>3, <1>4, <1>5, <1>6

\* What remains of the invariant then.
LEMMA OutputRest ==
    ASSUME PipelineIInv, HandlerKept, SorterKept, inflight' = Sorted', inflight' \in Nat,
           toOutput' \in Seq(Seq(Fragments)), delivered' \in Seq(Seq(Fragments)),
           writer' \in [at : {"get", "count", "observe"}, list : Seq(Fragments)],
           Produced' = Produced
    PROVE  PipelineIInv'
<1>1. /\ ChoresOk' /\ submitted' = submitted
      /\ todo' \in Seq(Chores) /\ batch' \in Batches \cup {<<>>} /\ xoffed' \in BOOLEAN
      /\ seen' \in [counter : {"none", "inflight", "queued"}, value : Nat]
      /\ submitted' \in Seq(Batches)
    BY ThreadKeeps
<1>2. /\ SorterOk' /\ queued' = Unsorted' /\ Waiting' = Waiting
      /\ toSort' \in Seq(Batches) /\ queued' \in Nat
      /\ sorter' \in [at : {"get", "merge", "count", "queue"}, lists : Batches \cup {<<>>},
                      list : Seq(Fragments)]
    BY OutputKeeps
<1>3. TypeOK'
    BY <1>1, <1>2 DEF TypeOK
<1>4. CountsExact'
    BY <1>2 DEF CountsExact
<1>5. InOrder'
    <2>1. InOrder
        BY DEF PipelineIInv
    <2> QED
        BY <2>1, <1>1, <1>2, Zenon DEF InOrder
<1> QED
    BY <1>1, <1>2, <1>3, <1>4, <1>5 DEF PipelineIInv

\* It takes the first list.
LEMMA OutputGetKeeps ==
    ASSUME PipelineIInv, OutputGet
    PROVE  PipelineIInv'
<1>1. /\ writer.at = "get" /\ toOutput # <<>>
      /\ writer' = Writer("count", Head(toOutput)) /\ toOutput' = Tail(toOutput)
      /\ inflight' = inflight /\ delivered' = delivered
    BY DEF OutputGet
<1>2. HandlerKept /\ SorterKept
    BY DEF OutputGet, HandlerKept, SorterKept, handler
<1>3. TypeOK /\ SorterOk
    BY DEF PipelineIInv
<1>4. toOutput \in Seq(Seq(Fragments)) /\ delivered \in Seq(Seq(Fragments)) /\ inflight \in Nat
    BY <1>3 DEF TypeOK
<1>5. Head(toOutput) \in Seq(Fragments) /\ Tail(toOutput) \in Seq(Seq(Fragments))
    BY <1>1, <1>4
<1>6. writer'.at = "count" /\ writer'.list = Head(toOutput)
    BY <1>1 DEF Writer
<1>7. writer' \in [at : {"get", "count", "observe"}, list : Seq(Fragments)]
    BY <1>1, <1>5 DEF Writer
<1>8. inflight' = Sorted'
    <2>1. AtCount = 0 /\ AtCount' = Len(Head(toOutput)) /\ AtQueue' = AtQueue
        BY <1>1, <1>2, <1>6, OutputKeeps DEF AtCount
    <2>2. /\ Size(toOutput) = Len(Head(toOutput)) + Size(toOutput')
          /\ Size(toOutput') \in Nat
        BY <1>1, <1>4, ListsAre
    <2>3. AtQueue \in Nat
        BY <1>3, CountsNat
    <2>4. Len(Head(toOutput)) \in Nat
        BY <1>5
    <2>5. inflight = Sorted
        BY DEF PipelineIInv, CountsExact
    <2> QED
        BY <1>1, <2>1, <2>2, <2>3, <2>4, <2>5, CountsAre, CountsAfter
<1>9. Produced' = Produced
    <2> DEFINE O == Seq(Fragments)
    <2>1. InSorter' = InSorter
        BY <1>2, OutputKeeps
    <2>2. Produced = Line(delivered, <<>>, toOutput, InSorter)
        BY <1>1 DEF Produced, Line, InWriter
    <2>3. Produced' = Line(delivered, <<Head(toOutput)>>, Tail(toOutput), InSorter)
        BY <1>1, <1>6, <2>1 DEF Produced, Line, InWriter
    <2>4. /\ delivered \in Seq(O) /\ toOutput \in Seq(O) /\ InSorter \in Seq(O)
          /\ <<>> \in Seq(O)
        BY <1>3, <1>4, Sequences
    <2> HIDE DEF O
    <2>5. Line(delivered, <<Head(toOutput)>>, Tail(toOutput), InSorter)
             = Line(delivered, <<>>, toOutput, InSorter)
        <3>1. Moves(O, delivered, <<>>, toOutput, InSorter)
            BY <2>4, LineMoves
        <3> QED
            BY <3>1, <1>1, Zenon DEF Moves
    <2> QED
        BY <2>2, <2>3, <2>5, Zenon
<1> QED
    BY <1>1, <1>2, <1>4, <1>5, <1>7, <1>8, <1>9, OutputRest

\* It counts it off.
LEMMA OutputCountKeeps ==
    ASSUME PipelineIInv, OutputCount
    PROVE  PipelineIInv'
<1>1. /\ writer.at = "count" /\ writer' = [writer EXCEPT !.at = "observe"]
      /\ inflight' = inflight - Len(writer.list)
      /\ toOutput' = toOutput /\ delivered' = delivered
    BY DEF OutputCount
<1>2. HandlerKept /\ SorterKept
    BY DEF OutputCount, HandlerKept, SorterKept, handler
<1>3. TypeOK
    BY DEF PipelineIInv
<1>4. /\ toOutput \in Seq(Seq(Fragments)) /\ delivered \in Seq(Seq(Fragments))
      /\ writer \in [at : {"get", "count", "observe"}, list : Seq(Fragments)]
    BY <1>3 DEF TypeOK
<1>5. writer'.at = "observe" /\ writer'.list = writer.list
    BY <1>1, <1>4
<1>6. writer' \in [at : {"get", "count", "observe"}, list : Seq(Fragments)]
    BY <1>1, <1>4
<1>7. inflight' = Sorted' /\ inflight' \in Nat
    <2>1. AtCount = Len(writer.list) /\ AtCount' = 0 /\ AtQueue' = AtQueue
        BY <1>1, <1>2, <1>5, OutputKeeps DEF AtCount
    <2>2. Size(toOutput) \in Nat /\ AtQueue \in Nat /\ AtCount \in Nat
        BY <1>3, CountsNat
    <2>3. inflight = Sorted
        BY DEF PipelineIInv, CountsExact
    <2> QED
        BY <1>1, <2>1, <2>2, <2>3, CountsAre, CountsAfter
<1>8. Produced' = Produced
    <2>1. InSorter' = InSorter
        BY <1>2, OutputKeeps
    <2> QED
        BY <1>1, <1>5, <2>1 DEF Produced, InWriter
<1> QED
    BY <1>1, <1>2, <1>4, <1>6, <1>7, <1>8, OutputRest

\* And hands it to the observers.
LEMMA OutputObserveKeeps ==
    ASSUME PipelineIInv, OutputObserve
    PROVE  PipelineIInv' /\ writer.at = "observe"
<1>1. /\ writer.at = "observe" /\ writer' = Writer("get", <<>>)
      /\ delivered' = Append(delivered, writer.list)
      /\ toOutput' = toOutput /\ inflight' = inflight
    BY DEF OutputObserve
<1>2. HandlerKept /\ SorterKept
    BY DEF OutputObserve, HandlerKept, SorterKept, handler
<1>3. TypeOK /\ SorterOk
    BY DEF PipelineIInv
<1>4. /\ toOutput \in Seq(Seq(Fragments)) /\ delivered \in Seq(Seq(Fragments))
      /\ writer.list \in Seq(Fragments) /\ inflight \in Nat
    BY <1>3 DEF TypeOK
<1>5. writer'.at = "get" /\ writer'.list = <<>>
    BY <1>1 DEF Writer
<1>6. writer' \in [at : {"get", "count", "observe"}, list : Seq(Fragments)]
    <2>1. <<>> \in Seq(Fragments)
        OBVIOUS
    <2> QED
        BY <1>1, <2>1 DEF Writer
<1>7. inflight' = Sorted'
    <2>1. AtCount = 0 /\ AtCount' = 0 /\ AtQueue' = AtQueue
        BY <1>1, <1>2, <1>5, OutputKeeps DEF AtCount
    <2>2. inflight = Sorted
        BY DEF PipelineIInv, CountsExact
    <2> QED
        BY <1>1, <2>1, <2>2, CountsAre, CountsAfter
<1>8. delivered' \in Seq(Seq(Fragments))
    BY <1>1, <1>4, AppendIs
<1>9. Produced' = Produced
    <2> DEFINE O == Seq(Fragments)  x == writer.list
    <2>1. InSorter' = InSorter
        BY <1>2, OutputKeeps
    <2>2. Produced = Line(delivered, <<x>>, toOutput, InSorter)
        BY <1>1 DEF Produced, Line, InWriter
    <2>3. Produced' = Line(Append(delivered, x), <<>>, toOutput, InSorter)
        BY <1>1, <1>5, <2>1 DEF Produced, Line, InWriter
    <2>4. /\ delivered \in Seq(O) /\ toOutput \in Seq(O) /\ InSorter \in Seq(O)
          /\ <<>> \in Seq(O) /\ x \in O
        BY <1>3, <1>4, Sequences
    <2> HIDE DEF O, x
    <2>5. Line(Append(delivered, x), <<>>, toOutput, InSorter)
             = Line(delivered, <<x>>, toOutput, InSorter)
        <3>1. Moves(O, delivered, <<>>, toOutput, InSorter)
            BY <2>4, LineMoves
        <3> QED
            BY <2>4, <3>1, Zenon DEF Moves
    <2> QED
        BY <2>2, <2>3, <2>5, Zenon
<1> QED
    BY <1>1, <1>2, <1>4, <1>6, <1>7, <1>8, <1>9, OutputRest

-----------------------------------------------------------------------------
(* The threads. *)

\* Every step keeps the invariant.
LEMMA PipelineNext == PipelineIInv /\ [Next]_vars => PipelineIInv'
<1> SUFFICES ASSUME PipelineIInv, [Next]_vars PROVE PipelineIInv'
    OBVIOUS
<1>1. CASE AddFragments
    BY <1>1, StartKeeps DEF AddFragments
<1>2. CASE IdlePoll
    BY <1>2, StartKeeps DEF IdlePoll
<1>3. CASE Flush
    BY <1>3, StartKeeps DEF Flush
<1>4. CASE CountBatch
    BY <1>4, CountBatchKeeps
<1>5. CASE QueueBatch
    BY <1>5, QueueBatchKeeps
<1>6. CASE ReadFirst
    BY <1>6, ReadFirstKeeps
<1>7. CASE CheckXon \/ CheckXoff
    BY <1>7, CheckKeeps
<1>8. CASE SortGet
    BY <1>8, SortGetKeeps
<1>9. CASE SortMerge
    BY <1>9, SortMergeKeeps
<1>10. CASE SortCount
    BY <1>10, SortCountKeeps
<1>11. CASE SortQueue
    BY <1>11, SortQueueKeeps
<1>12. CASE OutputGet
    BY <1>12, OutputGetKeeps
<1>13. CASE OutputCount
    BY <1>13, OutputCountKeeps
<1>14. CASE OutputObserve
    BY <1>14, OutputObserveKeeps
<1>15. CASE UNCHANGED vars
    <2>1. HandlerKept /\ SorterKept
        BY <1>15 DEF vars, handler, HandlerKept, SorterKept
    <2>2. /\ toOutput' = toOutput /\ inflight' = inflight /\ writer' = writer
          /\ delivered' = delivered
        BY <1>15 DEF vars
    <2>3. Produced' = Produced
        BY <2>1, <2>2, OutputKeeps DEF Produced, InWriter
    <2>4. inflight' = Sorted'
        <3>1. inflight = Sorted
            BY DEF PipelineIInv, CountsExact
        <3>2. AtQueue' = AtQueue
            BY <2>1, OutputKeeps
        <3>3. AtCount' = AtCount
            BY <2>2 DEF AtCount
        <3> QED
            BY <2>2, <3>1, <3>2, <3>3, CountsAre, CountsAfter
    <2>5. /\ inflight' \in Nat /\ toOutput' \in Seq(Seq(Fragments))
          /\ delivered' \in Seq(Seq(Fragments))
          /\ writer' \in [at : {"get", "count", "observe"}, list : Seq(Fragments)]
        BY <2>2 DEF PipelineIInv, TypeOK
    <2> QED
        BY <2>1, <2>3, <2>4, <2>5, OutputRest
<1> QED
    BY <1>1, <1>2, <1>3, <1>4, <1>5, <1>6, <1>7, <1>8, <1>9, <1>10, <1>11, <1>12, <1>13,
       <1>14, <1>15, Zenon DEF Next, Handle, Sort, Output

\* The inductive invariant holds of the threads.
THEOREM PipelineInductive == Spec => []PipelineIInv
<1> QED
    BY PipelineInit, PipelineNext, PTL DEF Spec

\* PipelineInv: no addition and no subtraction of the two counters is lost or made twice, so
\* that they are exact and never below zero, for every batch and any number of them.
THEOREM PipelineInvHolds == Spec => []PipelineInv
<1>1. PipelineIInv => PipelineInv
    BY DEF PipelineIInv, PipelineInv
<1> QED
    BY <1>1, PipelineInductive, PTL

\* MergeIsRight: CSortThread::merge, for whatever may be queued.
THEOREM MergeIsRightHolds == Spec => []MergeIsRight
<1>1. \A b \in Batches \cup Trials : Conduit!IsMerge(Merge(b), b)
    BY PipelineAssumption, MergeIs
<1>2. MergeIsRight
    BY <1>1, Zenon DEF MergeIsRight
<1> QED
    BY <1>2, PTL

\* A list that the observers are given is the next batch, merged.
LEMMA NextIsMerged ==
    ASSUME PipelineIInv, writer.at = "observe"
    PROVE  /\ Len(delivered) < Len(submitted)
           /\ Conduit!IsMerge(writer.list, submitted[Len(delivered) + 1])
<1>1. TypeOK /\ SorterOk /\ Conducts(Produced, Waiting, submitted)
    BY DEF PipelineIInv, InOrder
<1>2. /\ delivered \in Seq(Seq(Fragments)) /\ toOutput \in Seq(Seq(Fragments))
      /\ writer.list \in Seq(Fragments) /\ submitted \in Seq(Batches)
    BY <1>1 DEF TypeOK
<1>3. /\ InSorter \in Seq(Seq(Fragments)) /\ Produced \in Seq(Seq(Fragments))
      /\ Waiting \in Seq(Batches)
    BY <1>1, Sequences
<1> DEFINE O == Seq(Fragments)  x == writer.list  c == toOutput \o InSorter  n == Len(delivered)
<1>4. Produced = delivered \o (<<x>> \o c)
    BY DEF Produced, InWriter
<1>5. delivered \in Seq(O) /\ c \in Seq(O) /\ x \in O
    BY <1>2, <1>3, ConcatProperties
<1> HIDE DEF O, x, c
<1>6. /\ n \in Nat /\ Len(delivered \o (<<x>> \o c)) \in Nat
      /\ n + 1 <= Len(delivered \o (<<x>> \o c)) /\ (delivered \o (<<x>> \o c))[n + 1] = x
    BY <1>5, InTheMiddle
<1> HIDE DEF n
<1>7. Len(Produced) \in Nat /\ n \in Nat /\ n + 1 <= Len(Produced) /\ Produced[n + 1] = x
    BY <1>4, <1>6, Zenon
<1>8. /\ Len(submitted) = Len(Produced) + Len(Waiting) /\ Len(Waiting) \in Nat
      /\ \A k \in 1 .. Len(Produced) : Produced[k] = Merge(submitted[k])
    BY <1>1, <1>3 DEF Conducts
<1>9. n < Len(submitted) /\ n + 1 \in 1 .. Len(Produced) /\ n + 1 \in 1 .. Len(submitted)
    BY <1>7, <1>8
<1>10. x = Merge(submitted[n + 1])
    BY <1>7, <1>8, <1>9
<1>11. submitted[n + 1] \in Batches
    BY <1>2, <1>9
<1>12. Conduit!IsMerge(Merge(submitted[n + 1]), submitted[n + 1])
    <2>1. IsBatch(submitted[n + 1])
        BY <1>11, PipelineAssumption
    <2> QED
        BY <2>1, MergeIs
<1> QED
    BY <1>9, <1>10, <1>12, Zenon DEF n, x

\* The threads are a conduit: whatever the interleaving, the observers get each batch
\* once, in the order in which they were queued, merged.
THEOREM Implements == Spec => Conduit!Spec
<1>1. Init => Conduit!Init
    BY DEF Init, Conduit!Init
<1>2. PipelineIInv /\ [Next]_vars
          => [Conduit!Submit \/ Conduit!Deliver]_<<submitted, delivered>>
    <2> SUFFICES ASSUME PipelineIInv, [Next]_vars
                 PROVE  \/ Conduit!Submit \/ Conduit!Deliver
                        \/ UNCHANGED <<submitted, delivered>>
        OBVIOUS
    <2>1. CASE QueueBatch
        <3>1. submitted' = Append(submitted, batch) /\ delivered' = delivered
            BY <2>1 DEF QueueBatch
        <3>2. batch \in Batches
            BY <2>1, QueueBatchKeeps
        <3> QED
            BY <3>1, <3>2 DEF Conduit!Submit
    <2>2. CASE OutputObserve
        <3>1. /\ writer.at = "observe" /\ delivered' = Append(delivered, writer.list)
              /\ submitted' = submitted
            BY <2>2 DEF OutputObserve
        <3>2. /\ Len(delivered) < Len(submitted)
              /\ Conduit!IsMerge(writer.list, submitted[Len(delivered) + 1])
            BY <3>1, NextIsMerged
        <3>3. delivered \in Seq(Seq(Fragments)) /\ writer.list \in Seq(Fragments)
            BY DEF PipelineIInv, TypeOK
        <3>4. /\ Len(delivered') = Len(delivered) + 1
              /\ SubSeq(delivered', 1, Len(delivered)) = delivered
              /\ delivered'[Len(delivered) + 1] = writer.list
            <4> DEFINE O == Seq(Fragments)  x == writer.list
            <4>1. delivered \in Seq(O) /\ x \in O
                BY <3>3
            <4> HIDE DEF O, x
            <4>2. delivered' = Append(delivered, x)
                BY <3>1 DEF x
            <4>3. /\ Len(Append(delivered, x)) = Len(delivered) + 1
                  /\ SubSeq(Append(delivered, x), 1, Len(delivered)) = delivered
                  /\ Append(delivered, x)[Len(delivered) + 1] = x
                BY <4>1
            <4> QED
                BY <4>2, <4>3, Zenon DEF x
        <3> QED
            BY <3>1, <3>2, <3>4, Zenon DEF Conduit!Deliver
    <2>3. CASE AddFragments \/ IdlePoll \/ Flush
        BY <2>3 DEF AddFragments, IdlePoll, Flush, Start
    <2>4. CASE CountBatch \/ ReadFirst \/ CheckXon \/ CheckXoff
        BY <2>4 DEF CountBatch, ReadFirst, CheckXon, CheckXoff, Checked
    <2>5. CASE Sort
        BY <2>5 DEF Sort, SortGet, SortMerge, SortCount, SortQueue
    <2>6. CASE OutputGet \/ OutputCount
        BY <2>6 DEF OutputGet, OutputCount
    <2>7. CASE UNCHANGED vars
        BY <2>7 DEF vars
    <2> QED
        BY <2>1, <2>2, <2>3, <2>4, <2>5, <2>6, <2>7, Zenon DEF Next, Handle, Output
<1> QED
    BY <1>1, <1>2, PipelineInductive, PTL DEF Spec, Conduit!Spec
================================================================================
