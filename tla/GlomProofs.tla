------------------------------- MODULE GlomProofs -------------------------------
(***************************************************************************)
(* That glom keeps GlomInv, and that its events, barriers, counts and      *)
(* timestamps are right.  main handles a fragment by several functions in  *)
(* a row, each of which leaves an accumulator and a stream: Ok says what   *)
(* holds of these two between any two of them, so there is a lemma for     *)
(* every function, and Settled what holds between two fragments.  Of the   *)
(* way from main to the output Kept says that what is written, in hand,    *)
(* queued, buffered and still to be put is the stream.                     *)
(***************************************************************************)
EXTENDS Glom, CommonLemmas

\* What a remainder is.
LEMMA ModOf ==
    ASSUME NEW w \in Nat \ {0}, NEW x \in Int, NEW k \in Int, NEW r \in 0 .. w - 1,
           x = k * w + r
    PROVE  x % w = r
OBVIOUS

\* The remainder of a number no further than one divisor outside.
LEMMA ModIs ==
    ASSUME NEW w \in Nat \ {0}, NEW x \in Int, -w <= x, x < 2 * w
    PROVE  x % w = IF x < 0 THEN x + w ELSE IF x < w THEN x ELSE x - w
<1>1. CASE x < 0
    <2>1. x = (-1) * w + (x + w) /\ x + w \in 0 .. w - 1
        BY <1>1
    <2> QED
        BY <2>1, <1>1
<1>2. CASE x >= 0 /\ x < w
    <2>1. x = 0 * w + x /\ x \in 0 .. w - 1
        BY <1>2
    <2> QED
        BY <2>1, <1>2
<1>3. CASE x >= w
    <2>1. x = 1 * w + (x - w) /\ x - w \in 0 .. w - 1
        BY <1>3
    <2> QED
        BY <2>1, <1>3
<1> QED
    BY <1>1, <1>2, <1>3

\* Remainders add up.
LEMMA ModAdd ==
    ASSUME NEW w \in Nat \ {0}, NEW x \in Int, NEW y \in Int
    PROVE  ((x % w) + y) % w = (x + y) % w
<1>1. PICK q \in Int, r \in 0 .. w - 1 : x = q * w + r /\ x % w = r
    <2>1. x = (x \div w) * w + (x % w) /\ x \div w \in Int /\ x % w \in 0 .. w - 1
        OBVIOUS
    <2> QED
        BY <2>1
<1>2. PICK p \in Int, t \in 0 .. w - 1 : r + y = p * w + t /\ (r + y) % w = t
    <2>1. r + y \in Int
        OBVIOUS
    <2>2. r + y = ((r + y) \div w) * w + ((r + y) % w)
          /\ (r + y) \div w \in Int /\ (r + y) % w \in 0 .. w - 1
        BY <2>1
    <2> QED
        BY <2>2
<1>3. x + y = (q + p) * w + t
    <2>1. (q + p) * w = q * w + p * w
        OBVIOUS
    <2> QED
        BY <2>1, <1>1, <1>2
<1>4. (x + y) % w = t
    <2>1. x + y \in Int /\ q + p \in Int
        OBVIOUS
    <2> QED
        BY <2>1, <1>3, ModOf
<1> QED
    BY <1>1, <1>2, <1>4

\* A remainder is no larger than the number.
LEMMA ModLess ==
    ASSUME NEW w \in Nat \ {0}, NEW x \in Nat
    PROVE  x % w \in Nat /\ x % w <= x
<1>1. CASE x < w
    BY <1>1, ModIs
<1>2. CASE x >= w
    BY <1>2
<1> QED
    BY <1>1, <1>2

\* The test of the window: apart by no more than Window one way or the other round.
LEMMA ApartIsNear ==
    ASSUME NEW t \in 0 .. Word - 1, NEW first \in 0 .. Word - 1
    PROVE  TimeApart(t, first) <= Window <=> Near(t, first)
<1> DEFINE forth == (t - first) % Word
           back == (first - t) % Word
<1>1. Word \in Nat \ {0} /\ Window \in Nat
    BY GlomAssumption
<1>2. forth = (IF t - first < 0 THEN t - first + Word ELSE t - first)
      /\ back = (IF first - t < 0 THEN first - t + Word ELSE first - t)
    <2>1. /\ t - first \in Int /\ -Word <= t - first /\ t - first < 2 * Word
          /\ first - t \in Int /\ -Word <= first - t /\ first - t < 2 * Word
          /\ t - first < Word /\ first - t < Word
        BY <1>1
    <2> QED
        BY <2>1, <1>1, ModIs
<1>3. TimeApart(t, first) <= Window <=> forth <= Window \/ back <= Window
    <2>1. forth \in Int /\ back \in Int
        BY <1>2, <1>1
    <2>2. TimeApart(t, first) = IF forth < back THEN forth ELSE back
        BY DEF TimeApart
    <2> HIDE DEF forth, back
    <2> QED
        BY <2>1, <2>2, <1>1
<1>4. ASSUME forth <= Window PROVE Near(t, first)
    <2>1. forth \in -Window .. Window
        BY <1>4, <1>2, <1>1
    <2>2. first + forth = t \/ first + forth = t + Word
        BY <1>2, <1>1
    <2>3. t = (first + forth) % Word
        <3> DEFINE u == first + forth
        <3>1. u \in Int /\ -Word <= u /\ u < 2 * Word /\ (u = t \/ u = t + Word)
            BY <2>2, <1>1
        <3> HIDE DEF u
        <3>2. u % Word = IF u < 0 THEN u + Word ELSE IF u < Word THEN u ELSE u - Word
            BY <3>1, <1>1, ModIs
        <3>3. u % Word = t
            BY <3>2, <3>1, <1>1
        <3> QED
            BY <3>3 DEF u
    <2> QED
        BY <2>1, <2>3 DEF Near
<1>5. ASSUME back <= Window PROVE Near(t, first)
    <2>1. -back \in -Window .. Window
        BY <1>5, <1>2, <1>1
    <2>2. first + (-back) = t \/ first + (-back) = t - Word
        BY <1>2, <1>1
    <2>3. t = (first + (-back)) % Word
        <3> DEFINE u == first + (-back)
        <3>1. u \in Int /\ -Word <= u /\ u < 2 * Word /\ (u = t \/ u = t - Word)
            BY <2>2, <1>1
        <3> HIDE DEF u
        <3>2. u % Word = IF u < 0 THEN u + Word ELSE IF u < Word THEN u ELSE u - Word
            BY <3>1, <1>1, ModIs
        <3>3. u % Word = t
            BY <3>2, <3>1, <1>1
        <3> QED
            BY <3>3 DEF u
    <2> QED
        BY <2>1, <2>3 DEF Near
<1>6. ASSUME Near(t, first) PROVE forth <= Window \/ back <= Window
    <2>1. PICK d \in -Window .. Window : t = (first + d) % Word
        BY <1>6 DEF Near
    <2>2. CASE d >= 0
        <3>1. forth = d % Word
            <4>1. forth = (((first + d) % Word) + (-first)) % Word
                BY <2>1, <1>1
            <4>2. (((first + d) % Word) + (-first)) % Word = ((first + d) + (-first)) % Word
                <5>1. first + d \in Int /\ -first \in Int
                    BY <1>1
                <5> QED
                    BY <5>1, <1>1, ModAdd
            <4>3. (first + d) + (-first) = d
                BY <1>1
            <4> QED
                BY <4>1, <4>2, <4>3
        <3>2. d % Word <= d /\ d % Word \in Nat
            BY <2>2, <1>1, ModLess
        <3> HIDE DEF forth, back
        <3> QED
            BY <3>1, <3>2, <1>1
    <2>3. CASE d < 0
        <3>1. back = (-d) % Word
            <4>1. t + back = first \/ t + back = first + Word
                BY <1>2, <1>1
            <4>2. PICK k \in Int : t + back = first + k * Word
                <5>1. first = first + 0 * Word /\ first + Word = first + 1 * Word
                    BY <1>1
                <5> QED
                    BY <5>1, <4>1
            <4>3. PICK q \in Int : first + d = q * Word + t
                <5>1. first + d \in Int
                    BY <1>1
                <5>2. first + d = ((first + d) \div Word) * Word + ((first + d) % Word)
                      /\ (first + d) \div Word \in Int
                    BY <5>1, <1>1
                <5> QED
                    BY <5>2, <2>1
            <4>4. back \in 0 .. Word - 1
                BY <1>2, <1>1
            <4>5. -d = back + (-(k + q)) * Word
                <5> HIDE DEF back
                <5>1. back \in Int
                    BY <4>4
                <5>2. (-(k + q)) * Word = -(k * Word) - (q * Word)
                    BY <1>1
                <5>3. k * Word \in Int /\ q * Word \in Int
                    BY <1>1
                <5> QED
                    BY <4>2, <4>3, <5>1, <5>2, <5>3, <1>1
            <4>6. -d \in Int /\ -(k + q) \in Int
                BY <2>1, <1>1
            <4> HIDE DEF back
            <4>7. back \in Int /\ (-(k + q)) * Word \in Int
                BY <4>4, <4>6, <1>1
            <4>8. -d = (-(k + q)) * Word + back
                BY <4>5, <4>7
            <4> QED
                BY <4>4, <4>6, <4>8, <1>1, ModOf
        <3>2. (-d) % Word <= -d /\ (-d) % Word \in Nat
            BY <2>3, <1>1, ModLess
        <3> HIDE DEF forth, back
        <3> QED
            BY <3>1, <3>2, <1>1, <2>1
    <2> QED
        BY <2>2, <2>3, <1>1
<1> HIDE DEF forth, back
<1> QED
    BY <1>3, <1>4, <1>5, <1>6

\* A mean is less than one below the quotient.
LEMMA MeanIs ==
    ASSUME NEW n \in Nat \ {0}, NEW s \in Nat
    PROVE  s \div n \in Nat /\ (s \div n) * n \in s - n + 1 .. s
OBVIOUS

-----------------------------------------------------------------------------
(* The invariants of the events, of an accumulator a, the stream s made so far, the *)
(* input r and how many n of its fragments have been handled.  main's functions go   *)
(* through several of these between two states.                                      *)

Bar(r, id) == id \in DOMAIN r /\ r[id].bar # 0
Physics(r, id) == id \in DOMAIN r /\ r[id].bar = 0 /\ r[id].kind = "PHYSICS"
Within(r, i, j) == \E id \in i .. j : Bar(r, id)
StampsIn(r, e) == [i \in DOMAIN e |-> r[e[i]].ts]
Events(s) == {p \in DOMAIN s : s[p].type = "EVENT"}
SinceIn(s, p) == {q \in 1 .. p : s[q].type = "EVENT" /\ \A i \in q .. p : s[i].type # "BEGIN"}
Good(r, e) ==
    /\ e # <<>> /\ Len(e) <= IF options.build THEN MaxFragments + 1 ELSE 1
    /\ \A i \in DOMAIN e : Physics(r, e[i]) /\ Near(r[e[i]].ts, r[e[1]].ts)
    /\ \A i, j \in DOMAIN e : i < j => e[i] < e[j]
PartedIn(r, d, e) ==
    \/ ~options.build
    \/ Len(d) = MaxFragments + 1
    \/ ~Near(r[e[1]].ts, r[d[1]].ts)
    \/ Within(r, Last(d), e[1])

IdsOk(a, s, n) ==
    /\ \A p \in DOMAIN s : \A i \in DOMAIN s[p].frags : s[p].frags[i] <= n
    /\ \A i \in DOMAIN a.event : a.event[i] <= n

StaticsOk(a, r) ==
    /\ a.firstEvent <=> a.event = <<>>
    /\ a.event # <<>> =>
          /\ a.first = r[a.event[1]].ts /\ a.last = r[Last(a.event)].ts
          /\ a.count = Len(a.event) /\ a.sum = Total(StampsIn(r, a.event)) % Word

CountsOk(a, s) ==
    /\ a.events = Cardinality(SinceIn(s, Len(s)))
    /\ \A p \in DOMAIN s : s[p].type = "COUNT" => s[p].n = Cardinality(SinceIn(s, p))

StampsOk(s, r) == \A p \in Events(s) : StampTrue(StampsIn(r, s[p].frags), s[p].ts)

BarsOk(a, s, r, n) ==
    /\ \A p, q \in DOMAIN s : p < q =>
          \A i \in DOMAIN s[p].frags, j \in DOMAIN s[q].frags :
              Bar(r, s[p].frags[i]) \/ Bar(r, s[q].frags[j]) => s[p].frags[i] < s[q].frags[j]
    /\ \A i \in DOMAIN a.event : \A b \in a.event[i] .. n : ~Bar(r, b)

\* Of the events in the stream; of the one being built; of the two.
AllOk(a, s, r, n) ==
    \A id \in 1 .. n : Physics(r, id) =>
        \/ \E i \in DOMAIN a.event : a.event[i] = id
        \/ \E p \in Events(s) : \E i \in DOMAIN s[p].frags : s[p].frags[i] = id
PastOk(s, r) ==
    /\ \A p \in Events(s) : Good(r, s[p].frags)
    /\ \A p, q \in Events(s) : p < q =>
          /\ Before(s[p].frags, s[q].frags)
          /\ (p + 1 .. q - 1) \cap Events(s) = {} => PartedIn(r, s[p].frags, s[q].frags)
NowOk(a, s, r) ==
    a.event # <<>> =>
        /\ Good(r, a.event)
        /\ \A p \in Events(s) :
              /\ Before(s[p].frags, a.event)
              /\ (p + 1 .. Len(s)) \cap Events(s) = {} => PartedIn(r, s[p].frags, a.event)

Ok(a, s, r, n) ==
    /\ a \in Accumulators /\ s \in Seq(Items) /\ r \in Seq(Fragments) /\ n \in Nat
    /\ IdsOk(a, s, n) /\ StaticsOk(a, r) /\ CountsOk(a, s) /\ StampsOk(s, r)
    /\ BarsOk(a, s, r, n) /\ AllOk(a, s, r, n) /\ PastOk(s, r) /\ NowOk(a, s, r)

\* Without an event being built a barrier is behind the last one.
Closed(a, s, r, n) ==
    a.event = <<>> => \A p \in Events(s) : Within(r, Last(s[p].frags), n)

\* The fields that all this is about.
Same(b, a) ==
    /\ b.event = a.event /\ b.firstEvent = a.firstEvent /\ b.first = a.first /\ b.last = a.last
    /\ b.sum = a.sum /\ b.count = a.count

-----------------------------------------------------------------------------
(* An item more. *)

\* The events since the last begin run, of a longer stream.
LEMMA SinceAppend ==
    ASSUME NEW s \in Seq(Items), NEW x \in Items
    PROVE  LET t == Append(s, x)  m == Len(s)
           IN  /\ \A p \in 1 .. m : SinceIn(t, p) = SinceIn(s, p)
               /\ x.type = "BEGIN" => SinceIn(t, m + 1) = {}
               /\ x.type = "EVENT" => SinceIn(t, m + 1) = SinceIn(s, m) \cup {m + 1}
               /\ x.type \notin {"BEGIN", "EVENT"} => SinceIn(t, m + 1) = SinceIn(s, m)
               /\ m + 1 \notin SinceIn(s, m) /\ IsFiniteSet(SinceIn(s, m))
<1> DEFINE t == Append(s, x)  m == Len(s)
<1>1. /\ m \in Nat /\ \A i \in 1 .. m : t[i] = s[i]
      /\ t[m + 1] = x
    BY AppendIs
<1> HIDE DEF t, m
<1>2. ASSUME NEW p \in 1 .. m PROVE SinceIn(t, p) = SinceIn(s, p)
    <2>1. \A i \in 1 .. p : t[i] = s[i]
        BY <1>1
    <2> QED
        BY <2>1, <1>1 DEF SinceIn
<1>3. ASSUME x.type = "BEGIN" PROVE SinceIn(t, m + 1) = {}
    <2> SUFFICES ASSUME NEW q \in SinceIn(t, m + 1) PROVE FALSE
        OBVIOUS
    <2>1. q \in 1 .. m + 1 /\ \A i \in q .. m + 1 : t[i].type # "BEGIN"
        BY DEF SinceIn
    <2>2. m + 1 \in q .. m + 1
        BY <2>1, <1>1
    <2> QED
        BY <2>1, <2>2, <1>1, <1>3
<1>4. ASSUME NEW q \in 1 .. m, x.type # "BEGIN"
      PROVE  q \in SinceIn(t, m + 1) <=> q \in SinceIn(s, m)
    <2>1. (\A i \in q .. m + 1 : t[i].type # "BEGIN")
              <=> (\A i \in q .. m : s[i].type # "BEGIN")
        <3>1. \A i \in q .. m + 1 : i = m + 1 \/ (i \in q .. m /\ t[i] = s[i])
            BY <1>1
        <3>2. \A i \in q .. m : i \in q .. m + 1 /\ t[i] = s[i]
            BY <1>1
        <3> QED
            BY <3>1, <3>2, <1>1, <1>4, Zenon
    <2>2. q \in 1 .. m + 1 /\ t[q] = s[q]
        BY <1>1
    <2> QED
        BY <2>1, <2>2 DEF SinceIn
<1>5. x.type # "BEGIN" => (m + 1 \in SinceIn(t, m + 1) <=> x.type = "EVENT")
    <2>1. \A i \in m + 1 .. m + 1 : i = m + 1
        BY <1>1
    <2>2. m + 1 \in 1 .. m + 1
        BY <1>1
    <2> QED
        BY <2>1, <2>2, <1>1 DEF SinceIn
<1>6. /\ \A q : q \in SinceIn(t, m + 1) => q \in 1 .. m \/ q = m + 1
      /\ \A q : q \in SinceIn(s, m) => q \in 1 .. m
    BY <1>1 DEF SinceIn
<1>7. x.type = "EVENT" => SinceIn(t, m + 1) = SinceIn(s, m) \cup {m + 1}
    BY <1>4, <1>5, <1>6
<1>8. x.type \notin {"BEGIN", "EVENT"} => SinceIn(t, m + 1) = SinceIn(s, m)
    BY <1>4, <1>5, <1>6
<1>9. m + 1 \notin SinceIn(s, m) /\ IsFiniteSet(SinceIn(s, m))
    <2>1. m + 1 \notin 1 .. m
        BY <1>1
    <2>2. IsFiniteSet(1 .. m)
        BY <1>1, FS_Interval
    <2>3. SinceIn(s, m) \subseteq 1 .. m
        BY <1>6
    <2> QED
        BY <2>1, <2>2, <2>3, FS_Subset
<1> QED
    BY <1>2, <1>3, <1>7, <1>8, <1>9 DEF t, m

\* The counts stay true: of an event put and counted, a begin run that clears the
\* counter, a count, or anything else.
LEMMA CountsStep ==
    ASSUME NEW a, NEW b, NEW s \in Seq(Items), NEW x \in Items, CountsOk(a, s),
           a.events \in Nat,
           x.type = "BEGIN" => b.events = 0,
           x.type = "EVENT" => b.events = a.events + 1,
           x.type \notin {"BEGIN", "EVENT"} => b.events = a.events,
           x.type = "COUNT" => x.n = a.events
    PROVE  CountsOk(b, Append(s, x))
<1> DEFINE t == Append(s, x)  m == Len(s)
<1>1. /\ m \in Nat /\ Len(t) = m + 1 /\ DOMAIN s = 1 .. m /\ DOMAIN t = 1 .. m + 1
      /\ \A i \in 1 .. m : t[i] = s[i]
      /\ t[m + 1] = x
    BY AppendIs
<1>2. /\ \A p \in 1 .. m : SinceIn(t, p) = SinceIn(s, p)
      /\ x.type = "BEGIN" => SinceIn(t, m + 1) = {}
      /\ x.type = "EVENT" => SinceIn(t, m + 1) = SinceIn(s, m) \cup {m + 1}
      /\ x.type \notin {"BEGIN", "EVENT"} => SinceIn(t, m + 1) = SinceIn(s, m)
      /\ m + 1 \notin SinceIn(s, m) /\ IsFiniteSet(SinceIn(s, m))
    BY SinceAppend
<1> HIDE DEF t, m
<1>3. a.events = Cardinality(SinceIn(s, m))
    BY DEF CountsOk, m
<1>4. b.events = Cardinality(SinceIn(t, m + 1))
    <2>1. CASE x.type = "BEGIN"
        BY <2>1, <1>2, FS_EmptySet
    <2>2. CASE x.type = "EVENT"
        <3>1. Cardinality(SinceIn(s, m) \cup {m + 1}) = Cardinality(SinceIn(s, m)) + 1
            BY <1>2, FS_AddElement
        <3> QED
            BY <3>1, <2>2, <1>2, <1>3
    <2>3. CASE x.type \notin {"BEGIN", "EVENT"}
        BY <2>3, <1>2, <1>3
    <2> QED
        BY <2>1, <2>2, <2>3
<1>5. ASSUME NEW p \in 1 .. m + 1, t[p].type = "COUNT"
      PROVE  t[p].n = Cardinality(SinceIn(t, p))
    <2>1. CASE p = m + 1
        <3>1. x.type = "COUNT" /\ x.type \notin {"BEGIN", "EVENT"}
            BY <2>1, <1>5, <1>1
        <3> QED
            BY <3>1, <2>1, <1>1, <1>2, <1>3
    <2>2. CASE p # m + 1
        <3>1. p \in 1 .. m
            BY <2>2, <1>1
        <3> QED
            BY <3>1, <1>1, <1>2, <1>5 DEF CountsOk
    <2> QED
        BY <2>1, <2>2
<1>6. CountsOk(b, t)
    BY <1>1, <1>4, <1>5 DEF CountsOk
<1> QED
    BY <1>6 DEF t

\* The events of a longer stream.
LEMMA EventsAppend ==
    ASSUME NEW s \in Seq(Items), NEW x \in Items
    PROVE  /\ x.type = "EVENT" => Events(Append(s, x)) = Events(s) \cup {Len(s) + 1}
           /\ x.type # "EVENT" => Events(Append(s, x)) = Events(s)
           /\ \A p \in Events(s) : p \in 1 .. Len(s) /\ Append(s, x)[p] = s[p]
           /\ Len(s) + 1 \notin Events(s)
<1> DEFINE t == Append(s, x)  m == Len(s)
<1>1. /\ m \in Nat /\ DOMAIN s = 1 .. m /\ DOMAIN t = 1 .. m + 1
      /\ \A i \in 1 .. m : t[i] = s[i]
      /\ t[m + 1] = x
    BY AppendIs
<1> HIDE DEF t, m
<1>2. \A p : p \in 1 .. m + 1 <=> p \in 1 .. m \/ p = m + 1
    BY <1>1
<1>3. m + 1 \notin 1 .. m
    BY <1>1
<1>4. \A p : p \in Events(t) <=> p \in Events(s) \/ (p = m + 1 /\ x.type = "EVENT")
    BY <1>1, <1>2, <1>3 DEF Events
<1>5. \A p \in Events(s) : p \in 1 .. m /\ t[p] = s[p]
    BY <1>1 DEF Events
<1>6. x.type = "EVENT" => Events(t) = Events(s) \cup {m + 1}
    BY <1>4
<1>7. x.type # "EVENT" => Events(t) = Events(s)
    BY <1>4
<1>8. m + 1 \notin Events(s)
    BY <1>3, <1>5
<1> QED
    BY <1>5, <1>6, <1>7, <1>8 DEF t, m

\* What sequences of numbers hold.
LEMMA NumbersIn ==
    ASSUME NEW n \in Nat, NEW q \in Seq(1 .. n)
    PROVE  /\ \A i \in DOMAIN q : q[i] \in Nat /\ q[i] >= 1
           /\ DOMAIN q = 1 .. Len(q) /\ Len(q) \in Nat
           /\ q # <<>> => Len(q) >= 1
OBVIOUS

\* What an item is made of.
LEMMA FragsAre ==
    ASSUME NEW x \in Items
    PROVE  /\ x.frags \in Seq(1 .. MaxInput + 1) /\ x.type \in Types
           /\ \A i \in DOMAIN x.frags : x.frags[i] \in Nat /\ x.frags[i] >= 1
           /\ DOMAIN x.frags = 1 .. Len(x.frags) /\ Len(x.frags) \in Nat
<1>1. x.frags \in Seq(1 .. MaxInput + 1) /\ x.type \in Types
    BY DEF Items
<1>2. MaxInput + 1 \in Nat
    BY GlomAssumption
<1> QED
    BY <1>1, <1>2, NumbersIn

\* What an event being built is made of.
LEMMA EventIs ==
    ASSUME NEW a \in Accumulators
    PROVE  /\ a.event \in Seq(1 .. MaxInput)
           /\ \A i \in DOMAIN a.event : a.event[i] \in Nat /\ a.event[i] >= 1
           /\ DOMAIN a.event = 1 .. Len(a.event) /\ Len(a.event) \in Nat
           /\ a.event # <<>> => Len(a.event) >= 1
<1>1. a.event \in Seq(1 .. MaxInput)
    BY DEF Accumulators
<1>2. MaxInput \in Nat
    BY GlomAssumption
<1> QED
    BY <1>1, <1>2, NumbersIn

\* Barriers, when the event that was built is put: all of them are before it.
LEMMA BarsFlush ==
    ASSUME NEW a \in Accumulators, NEW b, NEW s \in Seq(Items), NEW r, NEW n \in Nat,
           NEW x \in Items, x.frags = a.event, b.event = <<>>,
           IdsOk(a, s, n), BarsOk(a, s, r, n)
    PROVE  BarsOk(b, Append(s, x), r, n)
<1> DEFINE t == Append(s, x)  m == Len(s)
<1>1. /\ m \in Nat /\ DOMAIN s = 1 .. m /\ DOMAIN t = 1 .. m + 1
      /\ \A i \in 1 .. m : s[i] \in Items /\ t[i] = s[i]
      /\ t[m + 1] = x
    BY AppendIs
<1> HIDE DEF t, m
<1>2. ASSUME NEW p \in 1 .. m, NEW i \in DOMAIN s[p].frags, NEW j \in DOMAIN a.event,
             Bar(r, s[p].frags[i]) \/ Bar(r, a.event[j])
      PROVE  s[p].frags[i] < a.event[j]
    <2>1. s[p].frags[i] \in Nat /\ s[p].frags[i] <= n
        BY <1>1, FragsAre DEF IdsOk
    <2>2. a.event[j] \in Nat /\ a.event[j] <= n
        BY EventIs DEF IdsOk
    <2>3. \A k \in a.event[j] .. n : ~Bar(r, k)
        BY DEF BarsOk
    <2>4. a.event[j] \in a.event[j] .. n
        BY <2>2
    <2>5. Bar(r, s[p].frags[i])
        BY <2>3, <2>4, <1>2
    <2>6. s[p].frags[i] \notin a.event[j] .. n
        BY <2>3, <2>5
    <2> QED
        BY <2>1, <2>2, <2>6
<1>3. ASSUME NEW p \in 1 .. m + 1, NEW q \in 1 .. m + 1, p < q,
             NEW i \in DOMAIN t[p].frags, NEW j \in DOMAIN t[q].frags,
             Bar(r, t[p].frags[i]) \/ Bar(r, t[q].frags[j])
      PROVE  t[p].frags[i] < t[q].frags[j]
    <2>1. p \in 1 .. m /\ t[p] = s[p]
        BY <1>1, <1>3
    <2>2. CASE q = m + 1
        BY <2>1, <2>2, <1>1, <1>2, <1>3
    <2>3. CASE q # m + 1
        <3>1. q \in 1 .. m /\ t[q] = s[q]
            BY <2>3, <1>1
        <3> QED
            BY <3>1, <2>1, <1>1, <1>3 DEF BarsOk
    <2> QED
        BY <2>2, <2>3
<1>4. DOMAIN b.event = {}
    OBVIOUS
<1>5. BarsOk(b, t, r, n)
    BY <1>1, <1>3, <1>4 DEF BarsOk
<1> QED
    BY <1>5 DEF t

\* When an item is put that is made of nothing or of the next fragment.
LEMMA BarsPut ==
    ASSUME NEW a \in Accumulators, NEW b, NEW s \in Seq(Items), NEW r, NEW n \in Nat,
           NEW k \in {n, n + 1}, NEW x \in Items, b.event = a.event,
           \A i \in DOMAIN x.frags : x.frags[i] = n + 1,
           Bar(r, n + 1) => a.event = <<>> \/ k = n,
           IdsOk(a, s, n), BarsOk(a, s, r, n)
    PROVE  BarsOk(b, Append(s, x), r, k)
<1> DEFINE t == Append(s, x)  m == Len(s)
<1>1. /\ m \in Nat /\ DOMAIN s = 1 .. m /\ DOMAIN t = 1 .. m + 1
      /\ \A i \in 1 .. m : s[i] \in Items /\ t[i] = s[i]
      /\ t[m + 1] = x
    BY AppendIs
<1> HIDE DEF t, m
<1>2. ASSUME NEW p \in 1 .. m + 1, NEW q \in 1 .. m + 1, p < q,
             NEW i \in DOMAIN t[p].frags, NEW j \in DOMAIN t[q].frags,
             Bar(r, t[p].frags[i]) \/ Bar(r, t[q].frags[j])
      PROVE  t[p].frags[i] < t[q].frags[j]
    <2>1. p \in 1 .. m /\ t[p] = s[p]
        BY <1>1, <1>2
    <2>2. CASE q = m + 1
        <3>1. t[q].frags[j] = n + 1
            BY <2>2, <1>1
        <3>2. s[p].frags[i] \in Nat /\ s[p].frags[i] <= n
            BY <2>1, <1>1, FragsAre DEF IdsOk
        <3> QED
            BY <3>1, <3>2, <2>1
    <2>3. CASE q # m + 1
        <3>1. q \in 1 .. m /\ t[q] = s[q]
            BY <2>3, <1>1
        <3> QED
            BY <3>1, <2>1, <1>1, <1>2 DEF BarsOk
    <2> QED
        BY <2>2, <2>3
<1>3. ASSUME NEW i \in DOMAIN b.event, NEW c \in b.event[i] .. k PROVE ~Bar(r, c)
    <2>1. i \in DOMAIN a.event /\ b.event[i] = a.event[i] /\ a.event[i] \in Nat
        BY EventIs
    <2>2. CASE c <= n
        <3>1. c \in a.event[i] .. n
            BY <2>1, <2>2
        <3> QED
            BY <3>1, <2>1 DEF BarsOk
    <2>3. CASE c > n
        <3>1. c = n + 1 /\ k = n + 1
            BY <2>3, <2>1
        <3>2. a.event # <<>>
            BY <2>1
        <3> QED
            BY <3>1, <3>2
    <2> QED
        BY <2>1, <2>2, <2>3
<1>4. BarsOk(b, t, r, k)
    BY <1>1, <1>2, <1>3 DEF BarsOk
<1> QED
    BY <1>4 DEF t

\* When a fragment is added to the event.
LEMMA BarsTake ==
    ASSUME NEW a \in Accumulators, NEW b \in Accumulators, NEW s \in Seq(Items), NEW r,
           NEW n \in Nat, b.event = Append(a.event, n + 1), ~Bar(r, n + 1),
           IdsOk(a, s, n), BarsOk(a, s, r, n)
    PROVE  BarsOk(b, s, r, n + 1)
<1>1. ASSUME NEW i \in DOMAIN b.event, NEW c \in b.event[i] .. n + 1 PROVE ~Bar(r, c)
    <2>1. CASE c = n + 1
        BY <2>1
    <2>2. CASE c # n + 1
        <3>1. b.event[i] \in Nat
            BY EventIs
        <3>2. c \in b.event[i] .. n
            BY <2>2, <3>1
        <3>3. i \in 1 .. Len(a.event) + 1 /\ (i = Len(a.event) + 1 => b.event[i] = n + 1)
              /\ (i # Len(a.event) + 1 => b.event[i] = a.event[i])
            BY EventIs
        <3>4. i # Len(a.event) + 1
            BY <3>2, <3>3
        <3>5. i \in DOMAIN a.event /\ b.event[i] = a.event[i]
            BY <3>3, <3>4, EventIs
        <3> QED
            BY <3>2, <3>5 DEF BarsOk
    <2> QED
        BY <2>1, <2>2
<1> QED
    BY <1>1 DEF BarsOk

\* No place of an item is beyond what has been read.
LEMMA IdsPut ==
    ASSUME NEW a, NEW b, NEW s \in Seq(Items), NEW n \in Nat, NEW k \in {n, n + 1},
           NEW x \in Items, b.event = a.event \/ b.event = <<>>,
           \A i \in DOMAIN x.frags : x.frags[i] <= k,
           \A i \in DOMAIN a.event : a.event[i] \in Nat,
           IdsOk(a, s, n)
    PROVE  IdsOk(b, Append(s, x), k)
<1> DEFINE t == Append(s, x)  m == Len(s)
<1>1. /\ m \in Nat /\ DOMAIN s = 1 .. m /\ DOMAIN t = 1 .. m + 1
      /\ \A i \in 1 .. m : s[i] \in Items /\ t[i] = s[i]
      /\ t[m + 1] = x
    BY AppendIs
<1> HIDE DEF t, m
<1>2. ASSUME NEW p \in 1 .. m + 1, NEW i \in DOMAIN t[p].frags PROVE t[p].frags[i] <= k
    <2>1. CASE p = m + 1
        BY <2>1, <1>1
    <2>2. CASE p # m + 1
        <3>1. p \in 1 .. m /\ t[p] = s[p]
            BY <2>2, <1>1
        <3>2. t[p].frags[i] \in Nat /\ t[p].frags[i] <= n
            BY <3>1, <1>1, FragsAre DEF IdsOk
        <3> QED
            BY <3>2
    <2> QED
        BY <2>1, <2>2
<1>3. ASSUME NEW i \in DOMAIN b.event PROVE b.event[i] <= k
    <2>1. i \in DOMAIN a.event /\ b.event[i] = a.event[i]
        OBVIOUS
    <2>2. a.event[i] \in Nat /\ a.event[i] <= n
        BY <2>1 DEF IdsOk
    <2> QED
        BY <2>1, <2>2
<1>4. IdsOk(b, t, k)
    BY <1>1, <1>2, <1>3 DEF IdsOk
<1> QED
    BY <1>4 DEF t

\* Nor is a place of the event being built, when a fragment is added to it.
LEMMA IdsTake ==
    ASSUME NEW a \in Accumulators, NEW b \in Accumulators, NEW s \in Seq(Items),
           NEW n \in Nat, b.event = Append(a.event, n + 1), IdsOk(a, s, n)
    PROVE  IdsOk(b, s, n + 1)
<1>1. ASSUME NEW p \in DOMAIN s, NEW i \in DOMAIN s[p].frags PROVE s[p].frags[i] <= n + 1
    <2>1. s[p] \in Items
        OBVIOUS
    <2>2. s[p].frags[i] \in Nat /\ s[p].frags[i] <= n
        BY <2>1, FragsAre DEF IdsOk
    <2> QED
        BY <2>2
<1>2. ASSUME NEW i \in DOMAIN b.event PROVE b.event[i] <= n + 1
    <2>1. i \in 1 .. Len(a.event) + 1 /\ (i = Len(a.event) + 1 => b.event[i] = n + 1)
          /\ (i # Len(a.event) + 1 => b.event[i] = a.event[i])
        BY EventIs
    <2>2. CASE i # Len(a.event) + 1
        <3>1. i \in DOMAIN a.event /\ b.event[i] = a.event[i]
            BY <2>1, <2>2, EventIs
        <3>2. a.event[i] \in Nat /\ a.event[i] <= n
            BY <3>1, EventIs DEF IdsOk
        <3> QED
            BY <3>1, <3>2
    <2> QED
        BY <2>1, <2>2
<1> QED
    BY <1>1, <1>2 DEF IdsOk

\* Every fragment of physics is in an event: when the event built is put.
LEMMA AllFlush ==
    ASSUME NEW a, NEW b, NEW s \in Seq(Items), NEW r, NEW n,
           NEW x \in Items, x.frags = a.event, x.type = "EVENT", AllOk(a, s, r, n)
    PROVE  AllOk(b, Append(s, x), r, n)
<1> DEFINE t == Append(s, x)  m == Len(s)
<1>1. /\ Events(t) = Events(s) \cup {m + 1} /\ t[m + 1] = x
      /\ \A p \in Events(s) : t[p] = s[p]
    BY EventsAppend, AppendIs
<1> HIDE DEF t, m
<1>2. ASSUME NEW id \in 1 .. n, Physics(r, id)
      PROVE  \E p \in Events(t) : \E i \in DOMAIN t[p].frags : t[p].frags[i] = id
    <2>1. CASE \E i \in DOMAIN a.event : a.event[i] = id
        <3>1. m + 1 \in Events(t) /\ t[m + 1].frags = a.event
            BY <1>1
        <3> QED
            BY <3>1, <2>1
    <2>2. CASE \E p \in Events(s) : \E i \in DOMAIN s[p].frags : s[p].frags[i] = id
        <3>1. PICK p \in Events(s) : \E i \in DOMAIN s[p].frags : s[p].frags[i] = id
            BY <2>2
        <3>2. p \in Events(t) /\ t[p] = s[p]
            BY <1>1
        <3> QED
            BY <3>1, <3>2
    <2> QED
        BY <1>2, <2>1, <2>2 DEF AllOk
<1> QED
    BY <1>2 DEF AllOk, t

\* When another item is put, or a fragment that is not physics was handled.
LEMMA AllPut ==
    ASSUME NEW a, NEW b, NEW s \in Seq(Items), NEW r, NEW n \in Nat, NEW k \in {n, n + 1},
           NEW x \in Items, x.type # "EVENT", b.event = a.event,
           k = n + 1 => ~Physics(r, n + 1), AllOk(a, s, r, n)
    PROVE  AllOk(b, Append(s, x), r, k)
<1> DEFINE t == Append(s, x)
<1>1. Events(t) = Events(s) /\ \A p \in Events(s) : t[p] = s[p]
    BY EventsAppend
<1> HIDE DEF t
<1>2. ASSUME NEW id \in 1 .. k, Physics(r, id)
      PROVE  \/ \E i \in DOMAIN b.event : b.event[i] = id
             \/ \E p \in Events(t) : \E i \in DOMAIN t[p].frags : t[p].frags[i] = id
    <2>1. id \in 1 .. n
        <3>1. id = n + 1 => k = n + 1
            OBVIOUS
        <3>2. id # n + 1
            BY <1>2, <3>1
        <3> QED
            BY <3>2
    <2>2. CASE \E i \in DOMAIN a.event : a.event[i] = id
        BY <2>2
    <2>3. CASE \E p \in Events(s) : \E i \in DOMAIN s[p].frags : s[p].frags[i] = id
        <3>1. PICK p \in Events(s) : \E i \in DOMAIN s[p].frags : s[p].frags[i] = id
            BY <2>3
        <3>2. p \in Events(t) /\ t[p] = s[p]
            BY <1>1
        <3> QED
            BY <3>1, <3>2
    <2> QED
        BY <1>2, <2>1, <2>2, <2>3 DEF AllOk
<1> QED
    BY <1>2 DEF AllOk, t

\* The fragment added is in an event.
LEMMA AllTake ==
    ASSUME NEW a \in Accumulators, NEW b, NEW s, NEW r, NEW n \in Nat,
           b.event = Append(a.event, n + 1), AllOk(a, s, r, n)
    PROVE  AllOk(b, s, r, n + 1)
<1>1. /\ \A i \in DOMAIN a.event : i \in DOMAIN b.event /\ b.event[i] = a.event[i]
      /\ Len(a.event) + 1 \in DOMAIN b.event /\ b.event[Len(a.event) + 1] = n + 1
    BY EventIs
<1>2. ASSUME NEW id \in 1 .. n + 1, Physics(r, id)
      PROVE  \/ \E i \in DOMAIN b.event : b.event[i] = id
             \/ \E p \in Events(s) : \E i \in DOMAIN s[p].frags : s[p].frags[i] = id
    <2>1. CASE id = n + 1
        BY <2>1, <1>1
    <2>2. CASE id # n + 1
        <3>1. id \in 1 .. n
            BY <2>2
        <3>2. CASE \E i \in DOMAIN a.event : a.event[i] = id
            BY <3>2, <1>1
        <3> QED
            BY <3>1, <3>2, <1>2 DEF AllOk
    <2> QED
        BY <2>1, <2>2
<1> QED
    BY <1>2 DEF AllOk

\* The events in the stream, with the one that was built.
LEMMA PastFlush ==
    ASSUME NEW a, NEW s \in Seq(Items), NEW r, NEW x \in Items,
           x.frags = a.event, x.type = "EVENT", a.event # <<>>, PastOk(s, r), NowOk(a, s, r)
    PROVE  PastOk(Append(s, x), r)
<1> DEFINE t == Append(s, x)  m == Len(s)
<1>1. /\ Events(t) = Events(s) \cup {m + 1} /\ t[m + 1] = x /\ m \in Nat
      /\ \A p \in Events(s) : p \in 1 .. m /\ t[p] = s[p]
    BY EventsAppend, AppendIs
<1> HIDE DEF t, m
<1>2. ASSUME NEW p \in Events(t) PROVE Good(r, t[p].frags)
    <2>1. CASE p = m + 1
        BY <2>1, <1>1 DEF NowOk
    <2>2. CASE p \in Events(s)
        BY <2>2, <1>1 DEF PastOk
    <2> QED
        BY <2>1, <2>2, <1>1
<1>3. ASSUME NEW p \in Events(t), NEW q \in Events(t), p < q
      PROVE  /\ Before(t[p].frags, t[q].frags)
             /\ (p + 1 .. q - 1) \cap Events(t) = {} => PartedIn(r, t[p].frags, t[q].frags)
    <2>1. p \in Events(s) /\ t[p] = s[p]
        BY <1>1, <1>3
    <2>2. CASE q = m + 1
        <3>1. q - 1 = m
            BY <2>2, <1>1
        <3>2. Events(s) \subseteq Events(t)
            BY <1>1
        <3>3. (p + 1 .. q - 1) \cap Events(t) = {} => (p + 1 .. m) \cap Events(s) = {}
            BY <3>1, <3>2
        <3>4. t[q].frags = a.event
            BY <2>2, <1>1
        <3>5. Before(s[p].frags, a.event)
              /\ ((p + 1 .. m) \cap Events(s) = {} => PartedIn(r, s[p].frags, a.event))
            BY <2>1 DEF NowOk, m
        <3> QED
            BY <3>3, <3>4, <3>5, <2>1
    <2>3. CASE q \in Events(s)
        <3>1. (p + 1 .. q - 1) \cap Events(t) = {} => (p + 1 .. q - 1) \cap Events(s) = {}
            BY <1>1
        <3> QED
            BY <3>1, <2>1, <2>3, <1>1, <1>3 DEF PastOk
    <2> QED
        BY <2>2, <2>3, <1>1
<1> QED
    BY <1>2, <1>3 DEF PastOk, t

\* With another item; the event being built, too.
LEMMA PastPut ==
    ASSUME NEW a, NEW b, NEW s \in Seq(Items), NEW r, NEW x \in Items,
           x.type # "EVENT", b.event = a.event, PastOk(s, r), NowOk(a, s, r)
    PROVE  PastOk(Append(s, x), r) /\ NowOk(b, Append(s, x), r)
<1> DEFINE t == Append(s, x)  m == Len(s)
<1>1. /\ Events(t) = Events(s) /\ m \in Nat /\ Len(t) = m + 1
      /\ \A p \in Events(s) : p \in 1 .. m /\ t[p] = s[p]
    BY EventsAppend, AppendIs
<1> HIDE DEF t, m
<1>2. PastOk(t, r)
    BY <1>1 DEF PastOk
<1>3. ASSUME NEW p \in Events(t), b.event # <<>>
      PROVE  /\ Before(t[p].frags, b.event)
             /\ (p + 1 .. m + 1) \cap Events(t) = {} => PartedIn(r, t[p].frags, b.event)
    <2>1. p \in Events(s) /\ t[p] = s[p] /\ p \in 1 .. m
        BY <1>1
    <2>2. \A k : k \in p + 1 .. m => k \in p + 1 .. m + 1
        BY <2>1, <1>1
    <2>3. (p + 1 .. m + 1) \cap Events(t) = {} => (p + 1 .. m) \cap Events(s) = {}
        BY <2>2, <1>1
    <2>4. Before(s[p].frags, a.event)
          /\ ((p + 1 .. m) \cap Events(s) = {} => PartedIn(r, s[p].frags, a.event))
        BY <2>1, <1>3 DEF NowOk, m
    <2> QED
        BY <2>1, <2>3, <2>4
<1>4. b.event # <<>> => Good(r, b.event)
    BY DEF NowOk
<1> QED
    BY <1>1, <1>2, <1>3, <1>4 DEF NowOk, t

\* A timestamp of the input.
LEMMA TsIs ==
    ASSUME NEW r \in Seq(Fragments), NEW id \in DOMAIN r
    PROVE  r[id].ts \in 0 .. Word - 1
<1>1. r[id] \in Fragments
    OBVIOUS
<1> QED
    BY <1>1, GlomAssumption

\* A timestamp is near itself.
LEMMA NearSelf ==
    ASSUME NEW t \in 0 .. Word - 1
    PROVE  Near(t, t)
<1>1. Word \in Nat \ {0} /\ 0 \in -Window .. Window
    BY GlomAssumption
<1>2. t \in Int /\ -Word <= t /\ t < 2 * Word /\ t < Word
    BY <1>1
<1>3. t % Word = t
    BY <1>1, <1>2, ModIs
<1>4. t = (t + 0) % Word
    BY <1>2, <1>3
<1> QED
    BY <1>1, <1>4 DEF Near

\* The event being built: its first fragment.
LEMMA NowBegin ==
    ASSUME NEW a, NEW b, NEW s \in Seq(Items), NEW r \in Seq(Fragments), NEW n \in Nat,
           b.event = <<n + 1>>, Physics(r, n + 1), IdsOk(a, s, n),
           \A p \in Events(s) : (p + 1 .. Len(s)) \cap Events(s) = {} =>
               PartedIn(r, s[p].frags, <<n + 1>>)
    PROVE  NowOk(b, s, r)
<1>1. DOMAIN b.event = {1} /\ b.event[1] = n + 1 /\ Len(b.event) = 1 /\ b.event # <<>>
    OBVIOUS
<1>2. Near(r[n + 1].ts, r[n + 1].ts)
    BY TsIs, NearSelf DEF Physics
<1>3. 1 <= IF options.build THEN MaxFragments + 1 ELSE 1
    BY GlomAssumption
<1>4. Good(r, b.event)
    BY <1>1, <1>2, <1>3 DEF Good
<1>5. ASSUME NEW p \in Events(s) PROVE Before(s[p].frags, b.event)
    <2>1. p \in DOMAIN s /\ s[p] \in Items
        BY DEF Events
    <2>2. \A i \in DOMAIN s[p].frags : s[p].frags[i] \in Nat /\ s[p].frags[i] <= n
        BY <2>1, FragsAre DEF IdsOk
    <2> QED
        BY <2>2, <1>1 DEF Before
<1> QED
    BY <1>4, <1>5 DEF NowOk

\* One more.
LEMMA NowExtend ==
    ASSUME NEW a \in Accumulators, NEW b, NEW s \in Seq(Items), NEW r, NEW n \in Nat,
           b.event = Append(a.event, n + 1), a.event # <<>>, Physics(r, n + 1),
           options.build, Len(a.event) <= MaxFragments,
           Near(r[n + 1].ts, r[a.event[1]].ts), IdsOk(a, s, n), NowOk(a, s, r)
    PROVE  NowOk(b, s, r)
<1> DEFINE m == Len(a.event)
<1>1. /\ m \in Nat \ {0} /\ DOMAIN b.event = 1 .. m + 1 /\ Len(b.event) = m + 1
      /\ DOMAIN a.event = 1 .. m
      /\ \A i \in 1 .. m : b.event[i] = a.event[i] /\ a.event[i] \in Nat /\ a.event[i] <= n
      /\ b.event[m + 1] = n + 1 /\ b.event # <<>>
    BY EventIs, SMTT(30) DEF IdsOk
<1>2. b.event[1] = a.event[1]
    BY <1>1
<1>3. Good(r, a.event) /\ m <= MaxFragments /\ MaxFragments \in Nat
    BY GlomAssumption DEF NowOk
<1> HIDE DEF m
<1>4. Len(b.event) <= IF options.build THEN MaxFragments + 1 ELSE 1
    BY <1>1, <1>3
<1>5. ASSUME NEW i \in 1 .. m + 1
      PROVE  Physics(r, b.event[i]) /\ Near(r[b.event[i]].ts, r[b.event[1]].ts)
    <2>1. CASE i = m + 1
        BY <2>1, <1>1, <1>2
    <2>2. CASE i # m + 1
        <3>1. i \in 1 .. m
            BY <2>2, <1>1
        <3> QED
            BY <3>1, <1>1, <1>2, <1>3 DEF Good
    <2> QED
        BY <2>1, <2>2
<1>6. ASSUME NEW i \in 1 .. m + 1, NEW j \in 1 .. m + 1, i < j
      PROVE  b.event[i] < b.event[j]
    <2>1. i \in 1 .. m
        BY <1>6, <1>1
    <2>2. CASE j = m + 1
        BY <2>1, <2>2, <1>1
    <2>3. CASE j # m + 1
        <3>1. j \in 1 .. m
            BY <2>3, <1>1
        <3> QED
            BY <3>1, <2>1, <1>1, <1>3, <1>6 DEF Good
    <2> QED
        BY <2>2, <2>3
<1>7. Good(r, b.event)
    BY <1>1, <1>4, <1>5, <1>6 DEF Good
<1>8. ASSUME NEW p \in Events(s)
      PROVE  /\ Before(s[p].frags, b.event)
             /\ (p + 1 .. Len(s)) \cap Events(s) = {} => PartedIn(r, s[p].frags, b.event)
    <2>1. Before(s[p].frags, a.event)
          /\ ((p + 1 .. Len(s)) \cap Events(s) = {} => PartedIn(r, s[p].frags, a.event))
        BY DEF NowOk
    <2>2. p \in DOMAIN s /\ s[p] \in Items
        BY DEF Events
    <2>3. \A i \in DOMAIN s[p].frags : s[p].frags[i] \in Nat /\ s[p].frags[i] <= n
        BY <2>2, FragsAre DEF IdsOk
    <2>4. ASSUME NEW i \in DOMAIN s[p].frags, NEW j \in 1 .. m + 1
          PROVE  s[p].frags[i] < b.event[j]
        <3>1. CASE j = m + 1
            BY <3>1, <2>3, <1>1
        <3>2. CASE j # m + 1
            <4>1. j \in 1 .. m
                BY <3>2, <1>1
            <4> QED
                BY <4>1, <2>1, <1>1 DEF Before
        <3> QED
            BY <3>1, <3>2
    <2>5. Before(s[p].frags, b.event)
        BY <2>4, <1>1 DEF Before
    <2>6. PartedIn(r, s[p].frags, a.event) => PartedIn(r, s[p].frags, b.event)
        BY <1>2 DEF PartedIn
    <2> QED
        BY <2>1, <2>5, <2>6
<1> QED
    BY <1>7, <1>8 DEF NowOk

\* The timestamps of an event.
LEMMA StampsAre ==
    ASSUME NEW r \in Seq(Fragments), NEW S, NEW e \in Seq(S), Good(r, e)
    PROVE  /\ StampsIn(r, e) \in Seq(0 .. Word - 1) /\ StampsIn(r, e) \in Seq(Nat)
           /\ Len(StampsIn(r, e)) = Len(e) /\ DOMAIN StampsIn(r, e) = 1 .. Len(e)
           /\ Len(e) \in Nat \ {0}
           /\ \A i \in 1 .. Len(e) : StampsIn(r, e)[i] = r[e[i]].ts /\ e[i] \in DOMAIN r
<1> DEFINE n == Len(e)  ts == StampsIn(r, e)
<1>1. n \in Nat \ {0} /\ DOMAIN e = 1 .. n
    BY DEF Good
<1>2. ts = [i \in 1 .. n |-> r[e[i]].ts]
    BY <1>1 DEF StampsIn
<1>3. \A i \in 1 .. n : e[i] \in DOMAIN r
    BY <1>1 DEF Good, Physics
<1>4. \A i \in 1 .. n : r[e[i]].ts \in 0 .. Word - 1
    BY <1>3, TsIs
<1>5. 0 .. Word - 1 \subseteq Nat
    BY GlomAssumption
<1> HIDE DEF n
<1>6. ts \in Seq(0 .. Word - 1) /\ Len(ts) = n
    BY <1>1, <1>2, <1>4
<1>7. \A i \in 1 .. n : r[e[i]].ts \in Nat
    BY <1>4, <1>5
<1>8. ts \in Seq(Nat)
    BY <1>1, <1>2, <1>7
<1>9. DOMAIN ts = 1 .. n /\ \A i \in 1 .. n : ts[i] = r[e[i]].ts
    BY <1>2
<1> QED
    BY <1>1, <1>3, <1>6, <1>8, <1>9 DEF n

\* The timestamp of an event that is put.
LEMMA StampIs ==
    ASSUME NEW a \in Accumulators, NEW r \in Seq(Fragments), options \in Options,
           a.event # <<>>, Good(r, a.event), StaticsOk(a, r)
    PROVE  /\ EventTimestamp(a) \in 0 .. Word - 1
           /\ StampTrue(StampsIn(r, a.event), EventTimestamp(a))
<1> DEFINE ts == StampsIn(r, a.event)  n == Len(a.event)
<1>1. /\ ts \in Seq(0 .. Word - 1) /\ ts \in Seq(Nat) /\ Len(ts) = n /\ DOMAIN ts = 1 .. n
      /\ n \in Nat \ {0}
      /\ \A i \in 1 .. n : ts[i] = r[a.event[i]].ts
      /\ \A i \in 1 .. n : ts[i] \in 0 .. Word - 1
    <2>1. a.event \in Seq(1 .. MaxInput)
        BY EventIs
    <2>2. /\ ts \in Seq(0 .. Word - 1) /\ ts \in Seq(Nat) /\ Len(ts) = n /\ DOMAIN ts = 1 .. n
          /\ n \in Nat \ {0}
          /\ \A i \in 1 .. n : ts[i] = r[a.event[i]].ts
        BY <2>1, StampsAre
    <2> HIDE DEF ts, n
    <2>3. \A i \in 1 .. n : ts[i] \in 0 .. Word - 1
        BY <2>2, SeqIs
    <2> QED
        BY <2>2, <2>3
<1>2. a.first = ts[1] /\ a.last = ts[n] /\ a.count = n /\ a.sum = Total(ts) % Word
    <2>1. 1 \in 1 .. n /\ n \in 1 .. n
        BY <1>1
    <2>2. Last(a.event) = a.event[n]
        BY DEF Last
    <2> QED
        BY <2>1, <2>2, <1>1 DEF StaticsOk
<1>3. Total(ts) \in Nat
    BY <1>1, TotalNat
<1>4. Word \in Nat \ {0} /\ options.policy \in {"earliest", "latest", "average"}
    BY GlomAssumption
<1>5. a.sum \in Nat /\ a.sum < Word /\ (Total(ts) < Word => a.sum = Total(ts))
    <2>1. a.sum \in 0 .. Word - 1
        BY DEF Accumulators
    <2>2. Total(ts) < Word => Total(ts) % Word = Total(ts)
        <3>1. Total(ts) < Word =>
                  Total(ts) \in Int /\ -Word <= Total(ts) /\ Total(ts) < 2 * Word
            BY <1>3, <1>4
        <3> QED
            BY <3>1, <1>3, <1>4, ModIs
    <2> QED
        BY <2>1, <2>2, <1>2, <1>4
<1> HIDE DEF ts, n
<1>6. /\ options.policy = "earliest" => EventTimestamp(a) = ts[1]
      /\ options.policy = "latest" => EventTimestamp(a) = ts[n]
      /\ options.policy = "average" => EventTimestamp(a) = a.sum \div n
    BY <1>2 DEF EventTimestamp
<1>7. ts[1] \in 0 .. Word - 1 /\ ts[n] \in 0 .. Word - 1 /\ 1 \in 1 .. n /\ n \in 1 .. n
    BY <1>1
<1>8. a.sum \div n \in 0 .. Word - 1
    <2> DEFINE q == a.sum \div n
    <2>1. q \in Nat /\ q * n \in a.sum - n + 1 .. a.sum
        BY <1>1, <1>5, MeanIs
    <2>2. q * n >= q
        <3> HIDE DEF q
        <3>1. n >= 1
            BY <1>1
        <3> QED
            BY <2>1, <3>1, <1>1
    <2> HIDE DEF q
    <2>3. q * n \in Nat
        BY <2>1, <1>1
    <2>4. q <= a.sum
        BY <2>1, <2>2, <2>3, <1>5
    <2>5. q \in 0 .. Word - 1
        BY <2>4, <2>1, <1>4, <1>5
    <2> QED
        BY <2>5 DEF q
<1>9. EventTimestamp(a) \in 0 .. Word - 1
    BY <1>4, <1>6, <1>7, <1>8
<1>10. ASSUME options.policy = "average", Total(ts) < Word
       PROVE  EventTimestamp(a) * Len(ts) \in Total(ts) - Len(ts) + 1 .. Total(ts)
    <2>1. (a.sum \div n) * n \in a.sum - n + 1 .. a.sum
        BY <1>1, <1>5, MeanIs
    <2> QED
        BY <2>1, <1>1, <1>5, <1>6, <1>10
<1>11. ASSUME \A i, j \in DOMAIN ts : i < j => ts[i] <= ts[j]
       PROVE  /\ options.policy = "earliest" =>
                    /\ EventTimestamp(a) \in Range(ts)
                    /\ \A t \in Range(ts) : EventTimestamp(a) <= t
              /\ options.policy = "latest" =>
                    /\ EventTimestamp(a) \in Range(ts)
                    /\ \A t \in Range(ts) : t <= EventTimestamp(a)
    <2>1. ts[1] \in Range(ts) /\ ts[n] \in Range(ts)
        BY <1>1, <1>7 DEF Range
    <2>2. ASSUME NEW t \in Range(ts) PROVE ts[1] <= t /\ t <= ts[n]
        <3>1. PICK i \in 1 .. n : t = ts[i]
            BY <1>1 DEF Range
        <3>2. ts[i] \in Int /\ ts[1] \in Int /\ ts[n] \in Int
            BY <1>1, <1>7
        <3>3. CASE i = 1
            BY <3>1, <3>2, <3>3, <1>1, <1>7, <1>11, SMTT(30)
        <3>4. CASE i = n
            BY <3>1, <3>2, <3>4, <1>1, <1>7, <1>11
        <3>5. CASE i # 1 /\ i # n
            <4>1. 1 < i /\ i < n
                BY <3>5, <1>1
            <4> QED
                BY <4>1, <3>1, <1>1, <1>7, <1>11
        <3> QED
            BY <3>3, <3>4, <3>5
    <2> QED
        BY <2>1, <2>2, <1>6
<1>12. StampTrue(ts, EventTimestamp(a))
    BY <1>10, <1>11 DEF StampTrue
<1> QED
    BY <1>9, <1>12 DEF ts

\* Of a longer stream.
LEMMA StampsPut ==
    ASSUME NEW s \in Seq(Items), NEW r, NEW x \in Items, StampsOk(s, r),
           x.type = "EVENT" => StampTrue(StampsIn(r, x.frags), x.ts)
    PROVE  StampsOk(Append(s, x), r)
<1> DEFINE t == Append(s, x)  m == Len(s)
<1>1. /\ x.type = "EVENT" => Events(t) = Events(s) \cup {m + 1}
      /\ x.type # "EVENT" => Events(t) = Events(s)
      /\ \A p \in Events(s) : t[p] = s[p]
      /\ t[m + 1] = x
    BY EventsAppend, AppendIs
<1> HIDE DEF t, m
<1>2. ASSUME NEW p \in Events(t) PROVE StampTrue(StampsIn(r, t[p].frags), t[p].ts)
    <2>1. CASE p \in Events(s)
        BY <2>1, <1>1 DEF StampsOk
    <2>2. CASE p \notin Events(s)
        BY <2>2, <1>1
    <2> QED
        BY <2>1, <2>2
<1> QED
    BY <1>2 DEF StampsOk, t

\* The statics after the first fragment, and after one more.
LEMMA StaticsTake ==
    ASSUME NEW a \in Accumulators, NEW b, NEW r \in Seq(Fragments), NEW n \in Nat,
           Physics(r, n + 1), StaticsOk(a, r), a.event # <<>> => Good(r, a.event),
           b.event = Append(a.event, n + 1), b.firstEvent = FALSE, b.last = r[n + 1].ts,
           a.event = <<>> => /\ b.first = r[n + 1].ts /\ b.count = 1
                             /\ b.sum = r[n + 1].ts % Word,
           a.event # <<>> => /\ b.first = a.first /\ b.count = a.count + 1
                             /\ b.sum = (a.sum + r[n + 1].ts) % Word
    PROVE  StaticsOk(b, r)
<1> DEFINE m == Len(a.event)  e == a.event  u == r[n + 1].ts
<1>1. /\ m \in Nat /\ DOMAIN e = 1 .. m /\ e \in Seq(1 .. MaxInput)
      /\ DOMAIN b.event = 1 .. m + 1 /\ Len(b.event) = m + 1 /\ b.event # <<>>
      /\ \A i \in 1 .. m : b.event[i] = e[i]
      /\ b.event[m + 1] = n + 1 /\ (e = <<>> <=> m = 0)
    <2>1. e \in Seq(1 .. MaxInput) /\ \A i \in DOMAIN e : e[i] \in Nat
        BY EventIs
    <2>2. b.event = Append(e, n + 1) /\ n + 1 \in Nat /\ m = Len(e)
        OBVIOUS
    <2> HIDE DEF e, m
    <2>3. e \in Seq(Nat)
        BY <2>1
    <2> DEFINE c == Append(e, n + 1)
    <2>4. /\ Len(e) \in Nat /\ DOMAIN e = 1 .. Len(e)
          /\ DOMAIN c = 1 .. Len(e) + 1 /\ Len(c) = Len(e) + 1
          /\ \A i \in 1 .. Len(e) : c[i] = e[i]
          /\ c[Len(e) + 1] = n + 1
        BY <2>2, <2>3, AppendIs
    <2> HIDE DEF c
    <2>5. b.event = c
        BY <2>2 DEF c
    <2>6. /\ m \in Nat /\ DOMAIN e = 1 .. m
          /\ DOMAIN b.event = 1 .. m + 1 /\ Len(b.event) = m + 1
          /\ \A i \in 1 .. m : b.event[i] = e[i]
          /\ b.event[m + 1] = n + 1
        BY <2>2, <2>4, <2>5
    <2>7. b.event # <<>> /\ (e = <<>> <=> m = 0)
        BY <2>2, <2>3, <2>6
    <2> QED
        BY <2>1, <2>6, <2>7
<1>2. u \in 0 .. Word - 1 /\ u \in Nat /\ Word \in Nat \ {0}
    BY TsIs, GlomAssumption DEF Physics
<1>3. Last(b.event) = n + 1
    BY <1>1 DEF Last
<1>4. CASE e = <<>>
    <2>1. b.event[1] = n + 1
        BY <1>1, <1>4
    <2>2. StampsIn(r, b.event) = Append(<<>>, u)
        <3>1. DOMAIN b.event = 1 .. 1
            BY <1>1, <1>4
        <3>2. StampsIn(r, b.event) = [i \in 1 .. 1 |-> u]
            BY <3>1, <2>1 DEF StampsIn
        <3>3. [i \in 1 .. 1 |-> u] = Append(<<>>, u)
            OBVIOUS
        <3> QED
            BY <3>2, <3>3
    <2>3. Total(Append(<<>>, u)) = u
        <3>1. <<>> \in Seq(Nat)
            OBVIOUS
        <3>2. Total(Append(<<>>, u)) = Total(<<>>) + u
            BY <3>1, <1>2, TotalAppend
        <3> QED
            BY <3>2, <1>2, TotalEmpty
    <2> QED
        BY <2>1, <2>2, <2>3, <1>1, <1>3, <1>4 DEF StaticsOk
<1>5. CASE e # <<>>
    <2>1. m \in Nat \ {0} /\ b.event[1] = e[1]
        BY <1>1, <1>5
    <2>2. /\ StampsIn(r, e) \in Seq(Nat) /\ Len(StampsIn(r, e)) = m
          /\ \A i \in 1 .. m : StampsIn(r, e)[i] = r[e[i]].ts
        BY <1>1, <1>5, StampsAre
    <2>3. StampsIn(r, b.event) = Append(StampsIn(r, e), u)
        <3> DEFINE ts == StampsIn(r, e)
        <3>1. StampsIn(r, b.event) = [i \in 1 .. m + 1 |-> r[b.event[i]].ts]
            BY <1>1 DEF StampsIn
        <3>2. ts \in Seq(Nat) /\ Len(ts) = m
            BY <2>2
        <3> HIDE DEF ts, m, u
        <3>3. /\ Append(ts, u) \in Seq(Nat) /\ Len(Append(ts, u)) = m + 1
              /\ \A i \in 1 .. m : Append(ts, u)[i] = ts[i]
              /\ Append(ts, u)[m + 1] = u
            BY <3>2, <1>2, AppendIs
        <3>4. ASSUME NEW i \in 1 .. m + 1 PROVE r[b.event[i]].ts = Append(ts, u)[i]
            <4>1. CASE i = m + 1
                BY <4>1, <1>1, <3>3 DEF u
            <4>2. CASE i # m + 1
                <5>1. i \in 1 .. m
                    BY <4>2, <1>1
                <5> QED
                    BY <5>1, <1>1, <2>2, <3>3 DEF ts
            <4> QED
                BY <4>1, <4>2
        <3>5. Append(ts, u) = [i \in 1 .. m + 1 |-> Append(ts, u)[i]]
            BY <3>3, SeqIs
        <3> DEFINE h == Append(ts, u)
        <3> HIDE DEF h
        <3>6. [i \in 1 .. m + 1 |-> r[b.event[i]].ts] = [i \in 1 .. m + 1 |-> h[i]]
            BY <3>4 DEF h
        <3> QED
            BY <3>1, <3>5, <3>6, Zenon DEF h, ts, u
    <2>4. Total(StampsIn(r, b.event)) = Total(StampsIn(r, e)) + u
          /\ Total(StampsIn(r, e)) \in Nat
        BY <2>2, <2>3, <1>2, TotalAppend
    <2>5. (a.sum + u) % Word = Total(StampsIn(r, b.event)) % Word
        <3>1. a.sum = Total(StampsIn(r, e)) % Word
            BY <1>5 DEF StaticsOk
        <3>2. ((Total(StampsIn(r, e)) % Word) + u) % Word = (Total(StampsIn(r, e)) + u) % Word
            <4> DEFINE T == Total(StampsIn(r, e))
            <4>1. T \in Int /\ u \in Int
                BY <2>4, <1>2
            <4> HIDE DEF T, u
            <4>2. ((T % Word) + u) % Word = (T + u) % Word
                BY <4>1, <1>2, ModAdd
            <4> QED
                BY <4>2 DEF T
        <3> QED
            BY <3>1, <3>2, <2>4
    <2>6. a.first = r[e[1]].ts /\ a.count = m
        BY <1>5 DEF StaticsOk
    <2> QED
        BY <2>1, <2>5, <2>6, <1>1, <1>3, <1>5 DEF StaticsOk
<1> QED
    BY <1>4, <1>5

-----------------------------------------------------------------------------
(* What main's functions do. *)

\* An item that is not an event.
LEMMA PutOk ==
    ASSUME NEW a, NEW b \in Accumulators, NEW s, NEW r, NEW n \in Nat, NEW k \in {n, n + 1},
           NEW x \in Items, Ok(a, s, r, n), Same(b, a), x.type # "EVENT",
           \A i \in DOMAIN x.frags : x.frags[i] = n + 1 /\ k = n + 1,
           k = n + 1 => ~Physics(r, n + 1),
           Bar(r, n + 1) => a.event = <<>> \/ k = n,
           x.type = "BEGIN" => b.events = 0,
           x.type # "BEGIN" => b.events = a.events,
           x.type = "COUNT" => x.n = a.events
    PROVE  Ok(b, Append(s, x), r, k)
<1>1. /\ a \in Accumulators /\ s \in Seq(Items) /\ r \in Seq(Fragments) /\ k \in Nat
      /\ Append(s, x) \in Seq(Items) /\ a.events \in Nat
    BY AppendIs DEF Ok, Accumulators
<1>2. b.event = a.event
    BY DEF Same
<1>3. IdsOk(b, Append(s, x), k)
    <2>1. \A i \in DOMAIN x.frags : x.frags[i] <= k
        OBVIOUS
    <2>2. \A i \in DOMAIN a.event : a.event[i] \in Nat
        BY <1>1, EventIs
    <2> QED
        BY <2>1, <2>2, <1>1, <1>2, IdsPut DEF Ok
<1>4. StaticsOk(b, r)
    BY DEF Ok, StaticsOk, Same
<1>5. CountsOk(b, Append(s, x))
    BY <1>1, CountsStep DEF Ok
<1>6. StampsOk(Append(s, x), r)
    BY <1>1, StampsPut DEF Ok
<1>7. BarsOk(b, Append(s, x), r, k)
    <2>1. \A i \in DOMAIN x.frags : x.frags[i] = n + 1
        OBVIOUS
    <2> QED
        BY <2>1, <1>1, <1>2, BarsPut DEF Ok
<1>8. AllOk(b, Append(s, x), r, k)
    BY <1>1, <1>2, AllPut DEF Ok
<1>9. PastOk(Append(s, x), r) /\ NowOk(b, Append(s, x), r)
    BY <1>1, <1>2, PastPut DEF Ok
<1> QED
    BY <1>1, <1>3, <1>4, <1>5, <1>6, <1>7, <1>8, <1>9 DEF Ok

\* flushEvent
LEMMA FlushIs ==
    ASSUME NEW a \in Accumulators, a.event # <<>>, EventTimestamp(a) \in 0 .. Word - 1
    PROVE  LET b == FlushEvent(a)
               x == Item("EVENT", a.event, EventTimestamp(a), 0, FALSE)
           IN  /\ x \in Items /\ x.type = "EVENT" /\ x.frags = a.event
               /\ x.ts = EventTimestamp(a)
               /\ b \in Accumulators /\ b.event = <<>> /\ b.firstEvent = TRUE
               /\ b.events = a.events + 1 /\ b.out = Append(a.out, x)
               /\ b.firstBarrier = a.firstBarrier
<1> DEFINE b == FlushEvent(a)
           x == Item("EVENT", a.event, EventTimestamp(a), 0, FALSE)
<1>1. a.event \in Seq(1 .. MaxInput + 1)
    <2>1. a.event \in Seq(1 .. MaxInput) /\ MaxInput \in Nat
        BY EventIs, GlomAssumption
    <2>2. 1 .. MaxInput \subseteq 1 .. MaxInput + 1
        BY <2>1
    <2> QED
        BY <2>1, <2>2
<1>2. x \in Items /\ x.type = "EVENT" /\ x.frags = a.event /\ x.ts = EventTimestamp(a)
    BY <1>1 DEF Item, Items, Types
<1>3. a.out \in Seq(Items) /\ a.events \in Nat
    BY DEF Accumulators
<1>4. Append(a.out, x) \in Seq(Items) /\ a.events + 1 \in Nat
      /\ <<>> \in Seq(1 .. MaxInput)
    <2>1. Append(a.out, x) \in Seq(Items)
        BY <1>2, <1>3, AppendIs
    <2>2. <<>> \in Seq(1 .. MaxInput)
        OBVIOUS
    <2>3. a.events + 1 \in Nat
        BY <1>3
    <2> HIDE DEF x
    <2> QED
        BY <2>1, <2>2, <2>3
<1> HIDE DEF x
<1>5. b = [a EXCEPT !.out = Append(a.out, x), !.event = <<>>, !.firstEvent = TRUE,
                    !.events = a.events + 1]
    BY DEF FlushEvent, Put, x, Accumulators
<1>6. b \in Accumulators
    BY <1>4, <1>5 DEF Accumulators
<1>7. /\ b.event = <<>> /\ b.firstEvent = TRUE /\ b.events = a.events + 1
      /\ b.out = Append(a.out, x) /\ b.firstBarrier = a.firstBarrier
    BY <1>5 DEF Accumulators
<1> QED
    BY <1>2, <1>6, <1>7 DEF x

\* flushEvent keeps the invariants of the events, with the event in the stream.
LEMMA FlushOk ==
    ASSUME NEW a, NEW s, NEW r, NEW n, options \in Options, Ok(a, s, r, n), a.event # <<>>
    PROVE  LET b == FlushEvent(a)
               x == Item("EVENT", a.event, EventTimestamp(a), 0, FALSE)
           IN  /\ b \in Accumulators /\ x \in Items /\ b.event = <<>>
               /\ b.out = Append(a.out, x) /\ b.firstBarrier = a.firstBarrier
               /\ Ok(b, Append(s, x), r, n)
<1> DEFINE b == FlushEvent(a)
           x == Item("EVENT", a.event, EventTimestamp(a), 0, FALSE)
<1>1. /\ a \in Accumulators /\ s \in Seq(Items) /\ r \in Seq(Fragments) /\ n \in Nat
      /\ a.events \in Nat
    BY DEF Ok, Accumulators
<1>2. /\ EventTimestamp(a) \in 0 .. Word - 1
      /\ StampTrue(StampsIn(r, a.event), EventTimestamp(a))
    BY <1>1, StampIs DEF Ok, NowOk
<1>3. /\ x \in Items /\ x.type = "EVENT" /\ x.frags = a.event /\ x.ts = EventTimestamp(a)
      /\ b \in Accumulators /\ b.event = <<>> /\ b.firstEvent = TRUE
      /\ b.events = a.events + 1 /\ b.out = Append(a.out, x)
      /\ b.firstBarrier = a.firstBarrier
    BY <1>1, <1>2, FlushIs
<1> HIDE DEF b, x
<1>4. IdsOk(b, Append(s, x), n)
    <2>1. \A i \in DOMAIN x.frags : x.frags[i] <= n
        BY <1>3 DEF Ok, IdsOk
    <2>2. \A i \in DOMAIN a.event : a.event[i] \in Nat
        BY <1>1, EventIs
    <2> QED
        BY <2>1, <2>2, <1>1, <1>3, IdsPut DEF Ok
<1>5. StaticsOk(b, r)
    BY <1>3 DEF StaticsOk
<1>6. CountsOk(b, Append(s, x))
    BY <1>1, <1>3, CountsStep DEF Ok
<1>7. StampsOk(Append(s, x), r)
    BY <1>1, <1>2, <1>3, StampsPut DEF Ok
<1>8. BarsOk(b, Append(s, x), r, n)
    BY <1>1, <1>3, BarsFlush DEF Ok
<1>9. AllOk(b, Append(s, x), r, n)
    BY <1>1, <1>3, AllFlush DEF Ok
<1>10. PastOk(Append(s, x), r)
    BY <1>1, <1>3, PastFlush DEF Ok
<1>11. NowOk(b, Append(s, x), r)
    BY <1>3 DEF NowOk
<1>12. Append(s, x) \in Seq(Items)
    BY <1>1, <1>3, AppendIs
<1> QED
    BY <1>1, <1>3, <1>4, <1>5, <1>6, <1>7, <1>8, <1>9, <1>10, <1>11, <1>12 DEF Ok, b, x

\* The stream with what is still to be put of it.
With(t, a) == t \o a.out

\* What is put is behind both.
LEMMA WithAppend ==
    ASSUME NEW t \in Seq(Items), NEW o \in Seq(Items), NEW x \in Items
    PROVE  t \o Append(o, x) = Append(t \o o, x)
OBVIOUS

\* No event more.
Grown(s, t) == Events(t) = Events(s) /\ \A p \in Events(s) : t[p] = s[p]

\* An item that is not an event adds none.
LEMMA GrownAppend ==
    ASSUME NEW s \in Seq(Items), NEW x \in Items, x.type # "EVENT"
    PROVE  Grown(s, Append(s, x))
BY EventsAppend DEF Grown

\* outputBarrier, of the next fragment.
LEMMA PassOk ==
    ASSUME NEW a, NEW t \in Seq(Items), NEW r, NEW n, NEW kind, Ok(a, With(t, a), r, n),
           n + 1 \in 1 .. MaxInput + 1, ~Physics(r, n + 1), Bar(r, n + 1) => a.event = <<>>
    PROVE  LET b == OutputBarrier(a, n + 1, kind)
           IN  /\ Ok(b, With(t, b), r, n + 1) /\ b.event = a.event
               /\ Grown(With(t, a), With(t, b))
<1> DEFINE x == Passed(kind, n + 1)
           c == Put(a, x)
           b == OutputBarrier(a, n + 1, kind)
<1>1. /\ a \in Accumulators /\ n \in Nat /\ n + 1 \in {n, n + 1} /\ n + 1 \in Nat
      /\ a.out \in Seq(Items) /\ a.events \in Nat /\ a.nesting \in Int
      /\ Unsigned \in Nat \ {0}
    <2>1. a \in Accumulators /\ n \in Nat
        BY DEF Ok
    <2>2. Unsigned \in Nat \ {0}
        BY GlomAssumption
    <2>3. a.nesting \in 0 .. Unsigned - 1 /\ a.out \in Seq(Items) /\ a.events \in Nat
        BY <2>1 DEF Accumulators
    <2> QED
        BY <2>1, <2>2, <2>3
<1>2. /\ x \in Items /\ x.type # "EVENT" /\ x.type # "COUNT"
      /\ (x.type = "BEGIN" <=> kind = "BEGIN")
      /\ \A i \in DOMAIN x.frags : x.frags[i] = n + 1
    <2>1. <<n + 1>> \in Seq(1 .. MaxInput + 1) /\ 0 \in 0 .. Word - 1
        BY GlomAssumption
    <2>2. x = [type |-> IF kind \in Known THEN kind ELSE "UNKNOWN", frags |-> <<n + 1>>,
               ts |-> 0, n |-> 0, flush |-> TRUE]
        BY DEF Passed, Item
    <2>3. x.type = IF kind \in Known THEN kind ELSE "UNKNOWN"
        BY <2>2
    <2>4. x.frags = <<n + 1>>
        BY <2>2
    <2>5. x.type \in Types
        BY <2>3 DEF Types
    <2>6. x \in Items
        <3>1. ASSUME NEW u \in Types, NEW f \in Seq(1 .. MaxInput + 1)
              PROVE  [type |-> u, frags |-> f, ts |-> 0, n |-> 0, flush |-> TRUE] \in Items
            BY <2>1 DEF Items
        <3>2. (IF kind \in Known THEN kind ELSE "UNKNOWN") \in Types
            BY <2>3, <2>5
        <3> QED
            BY <3>1, <3>2, <2>1, <2>2
    <2>7. x.type # "EVENT" /\ x.type # "COUNT" /\ (x.type = "BEGIN" <=> kind = "BEGIN")
        BY <2>3 DEF Known
    <2>8. \A i \in DOMAIN x.frags : x.frags[i] = n + 1
        BY <2>4
    <2> QED
        BY <2>6, <2>7, <2>8
<1> HIDE DEF x
<1>3. Append(a.out, x) \in Seq(Items) /\ With(t, a) \in Seq(Items)
      /\ t \o Append(a.out, x) = Append(With(t, a), x)
    BY <1>1, <1>2, AppendIs, WithAppend DEF With
<1>4. c = [a EXCEPT !.out = Append(a.out, x)]
    BY <1>1 DEF Put, Accumulators
<1>5. c \in Accumulators /\ Same(c, a) /\ c.events = a.events /\ c.out = Append(a.out, x)
      /\ c.nesting = a.nesting
    BY <1>1, <1>3, <1>4 DEF Accumulators, Same
<1>6. CASE kind = "SCALER"
    <2> DEFINE y == Item("COUNT", <<>>, 0, a.events, FALSE)
    <2>1. y \in Items /\ y.type = "COUNT" /\ y.n = a.events /\ y.frags = <<>>
        <3>1. <<>> \in Seq(1 .. MaxInput + 1) /\ 0 \in 0 .. Word - 1
            BY GlomAssumption
        <3> QED
            BY <3>1, <1>1 DEF Item, Items, Types
    <2>2. b = Put(c, y)
        BY <1>5, <1>6 DEF OutputBarrier, OutputEventCount, x
    <2> HIDE DEF y, b, c
    <2>3. b = [c EXCEPT !.out = Append(c.out, y)]
        BY <2>2 DEF Put
    <2>4. Append(c.out, y) \in Seq(Items)
          /\ t \o Append(c.out, y) = Append(t \o c.out, y)
        BY <1>3, <1>5, <2>1, AppendIs, WithAppend
    <2>5. b \in Accumulators /\ Same(b, c) /\ b.events = c.events /\ b.out = Append(c.out, y)
        BY <1>5, <2>3, <2>4 DEF Accumulators, Same
    <2>6. Ok(c, Append(With(t, a), x), r, n + 1)
        <3>1. x.type # "BEGIN"
            BY <1>2, <1>6
        <3> QED
            BY <3>1, <1>1, <1>2, <1>5, PutOk
    <2>7. Ok(b, Append(Append(With(t, a), x), y), r, n + 1)
        <3>1. /\ \A i \in DOMAIN y.frags : FALSE
              /\ n + 1 \in {n + 1, (n + 1) + 1} /\ n + 1 # (n + 1) + 1
              /\ y.type # "EVENT" /\ y.type # "BEGIN" /\ y.n = c.events
            BY <1>1, <1>5, <2>1
        <3>2. Bar(r, (n + 1) + 1) => c.event = <<>> \/ n + 1 = n + 1
            OBVIOUS
        <3> HIDE DEF With
        <3> QED
            BY <3>1, <3>2, <1>1, <2>1, <2>5, <2>6, PutOk
    <2>8. With(t, b) = Append(Append(With(t, a), x), y)
        BY <1>3, <1>5, <2>4, <2>5 DEF With
    <2>9. b.event = a.event
        BY <1>5, <2>5 DEF Same
    <2>10. Grown(With(t, a), With(t, b))
        <3>1. Grown(With(t, a), Append(With(t, a), x))
            BY <1>2, <1>3, GrownAppend
        <3>2. Append(With(t, a), x) \in Seq(Items) /\ y.type # "EVENT"
            BY <1>2, <1>3, <2>1, AppendIs
        <3>3. Grown(Append(With(t, a), x), Append(Append(With(t, a), x), y))
            BY <3>2, <2>1, GrownAppend
        <3> QED
            BY <3>1, <3>3, <2>8 DEF Grown
    <2> QED
        BY <2>7, <2>8, <2>9, <2>10 DEF b
<1>7. CASE kind # "SCALER"
    <2>1. /\ b \in Accumulators /\ Same(b, a) /\ b.out = Append(a.out, x)
          /\ kind = "BEGIN" => b.events = 0
          /\ kind # "BEGIN" => b.events = a.events
        <3>1. CASE kind = "BEGIN"
            <4>1. b = [c EXCEPT !.events = 0, !.nesting = (c.nesting + 1) % Unsigned]
                BY <3>1, <1>5 DEF OutputBarrier, x
            <4>2. (c.nesting + 1) % Unsigned \in 0 .. Unsigned - 1
                BY <1>1, <1>5
            <4> HIDE DEF b, c
            <4> QED
                BY <3>1, <4>1, <4>2, <1>5 DEF Accumulators, Same
        <3>2. CASE kind = "END"
            <4>1. b = [c EXCEPT !.nesting = (c.nesting - 1) % Unsigned]
                BY <3>2, <1>5 DEF OutputBarrier, x
            <4>2. (c.nesting - 1) % Unsigned \in 0 .. Unsigned - 1
                BY <1>1, <1>5
            <4> HIDE DEF b, c
            <4> QED
                BY <3>2, <4>1, <4>2, <1>5 DEF Accumulators, Same
        <3>3. CASE kind = "ABEND"
            <4>1. b = [c EXCEPT !.nesting = 0]
                BY <3>3, <1>5 DEF OutputBarrier, x
            <4>2. 0 \in 0 .. Unsigned - 1
                BY <1>1
            <4> HIDE DEF b, c
            <4> QED
                BY <3>3, <4>1, <4>2, <1>5 DEF Accumulators, Same
        <3>4. CASE kind \notin {"BEGIN", "END", "ABEND"}
            <4>1. b = c
                BY <3>4, <1>7 DEF OutputBarrier, x
            <4> HIDE DEF b, c
            <4> QED
                BY <3>4, <4>1, <1>5
        <3> QED
            BY <3>1, <3>2, <3>3, <3>4
    <2> HIDE DEF b
    <2>2. Ok(b, Append(With(t, a), x), r, n + 1)
        <3> HIDE DEF With
        <3> QED
            BY <2>1, <1>1, <1>2, PutOk
    <2>3. With(t, b) = Append(With(t, a), x)
        BY <2>1, <1>3 DEF With
    <2>4. b.event = a.event
        BY <2>1 DEF Same
    <2>5. Grown(With(t, a), With(t, b))
        BY <2>3, <1>2, <1>3, GrownAppend
    <2> QED
        BY <2>2, <2>3, <2>4, <2>5 DEF b
<1> QED
    BY <1>6, <1>7

\* outputGlomParameters
LEMMA ParamsOk ==
    ASSUME NEW a, NEW t \in Seq(Items), NEW r, NEW n, NEW bar, Ok(a, With(t, a), r, n)
    PROVE  LET b == GlomParameters(a, bar)
           IN  Ok(b, With(t, b), r, n) /\ b.event = a.event
<1> DEFINE x == Bare("PARAMS")
           b == GlomParameters(a, bar)
<1>1. CASE ~(a.firstBarrier /\ bar = 1)
    <2>1. b = a
        BY <1>1 DEF GlomParameters
    <2> QED
        BY <2>1
<1>2. CASE a.firstBarrier /\ bar = 1
    <2>1. a \in Accumulators /\ n \in Nat /\ a.out \in Seq(Items)
        BY DEF Ok, Accumulators
    <2>2. x \in Items /\ x.type = "PARAMS" /\ x.frags = <<>>
        <3>1. <<>> \in Seq(1 .. MaxInput + 1) /\ 0 \in 0 .. Word - 1
            BY GlomAssumption
        <3> QED
            BY <3>1 DEF Bare, Item, Items, Types
    <2>3. b = [a EXCEPT !.out = Append(a.out, x), !.firstBarrier = FALSE]
        BY <1>2, <2>1 DEF GlomParameters, Put, Accumulators
    <2> HIDE DEF x, b
    <2>4. Append(a.out, x) \in Seq(Items)
          /\ t \o Append(a.out, x) = Append(t \o a.out, x)
        BY <2>1, <2>2, AppendIs, WithAppend
    <2>5. b \in Accumulators /\ Same(b, a) /\ b.events = a.events /\ b.out = Append(a.out, x)
        BY <2>1, <2>3, <2>4 DEF Accumulators, Same
    <2>6. Ok(b, Append(With(t, a), x), r, n)
        <3>1. /\ \A i \in DOMAIN x.frags : FALSE
              /\ n \in {n, n + 1} /\ n # n + 1
              /\ x.type # "EVENT" /\ x.type # "BEGIN" /\ x.type # "COUNT"
            BY <2>1, <2>2
        <3>2. Bar(r, n + 1) => a.event = <<>> \/ n = n
            OBVIOUS
        <3> HIDE DEF With
        <3> QED
            BY <3>1, <3>2, <2>1, <2>2, <2>5, PutOk
    <2>7. With(t, b) = Append(With(t, a), x)
        BY <2>4, <2>5 DEF With
    <2>8. b.event = a.event
        BY <2>5 DEF Same
    <2> QED
        BY <2>6, <2>7, <2>8 DEF b
<1> QED
    BY <1>1, <1>2

\* The rest of accumulateEvent, behind the flush of a complete event.
Extend(c, id, t) ==
    LET b == BeginEvent(c, t)
    IN  [b EXCEPT !.last = t, !.count = @ + 1, !.sum = (@ + t) % Word, !.event = Append(@, id)]

Extended(b, c, id, u) ==
    /\ b \in Accumulators /\ b.event = Append(c.event, id) /\ b.last = u
    /\ b.out = c.out /\ b.events = c.events /\ b.firstEvent = FALSE
    /\ c.firstEvent => b.first = u /\ b.count = 1 /\ b.sum = u % Word
    /\ ~c.firstEvent => /\ b.first = c.first /\ b.count = c.count + 1
                        /\ b.sum = (c.sum + u) % Word

\* What adding a fragment to the event does to the statics.
LEMMA ExtendIs ==
    ASSUME NEW c \in Accumulators, NEW id \in 1 .. MaxInput, NEW u \in 0 .. Word - 1
    PROVE  Extended(Extend(c, id, u), c, id, u)
<1> DEFINE b == Extend(c, id, u)
           d == BeginEvent(c, u)
<1>1. Word \in Nat \ {0} /\ u \in Nat
    BY GlomAssumption
<1>2. /\ d \in Accumulators /\ d.event = c.event /\ d.out = c.out /\ d.events = c.events
      /\ d.firstEvent = FALSE
      /\ c.firstEvent => d.first = u /\ d.count = 0 /\ d.sum = 0
      /\ ~c.firstEvent => d.first = c.first /\ d.count = c.count /\ d.sum = c.sum
    <2>1. CASE c.firstEvent
        <3>1. d = [c EXCEPT !.first = u, !.firstEvent = FALSE, !.count = 0, !.sum = 0]
            BY <2>1 DEF BeginEvent
        <3>2. 0 \in 0 .. Word - 1 /\ 0 \in Nat
            BY <1>1
        <3> HIDE DEF d
        <3> QED
            BY <2>1, <3>1, <3>2 DEF Accumulators
    <2>2. CASE ~c.firstEvent
        <3>1. d = c
            BY <2>2 DEF BeginEvent
        <3>2. c.firstEvent = FALSE
            BY <2>2 DEF Accumulators
        <3> QED
            BY <3>1, <3>2, <2>2
    <2> QED
        BY <2>1, <2>2
<1>3. /\ d.count \in Nat /\ d.sum \in 0 .. Word - 1 /\ d.event \in Seq(1 .. MaxInput)
    BY <1>2 DEF Accumulators
<1> HIDE DEF d
<1>4. b = [d EXCEPT !.last = u, !.count = d.count + 1, !.sum = (d.sum + u) % Word,
                    !.event = Append(d.event, id)]
    BY <1>2 DEF Extend, Accumulators, d
<1>5. /\ (d.sum + u) % Word \in 0 .. Word - 1 /\ d.count + 1 \in Nat
      /\ Append(d.event, id) \in Seq(1 .. MaxInput)
    <2>1. d.sum + u \in Int
        BY <1>1, <1>3
    <2>2. (d.sum + u) % Word \in 0 .. Word - 1
        BY <2>1, <1>1
    <2> QED
        BY <2>2, <1>3, AppendIs
<1> HIDE DEF b
<1>6. /\ b \in Accumulators /\ b.event = Append(c.event, id) /\ b.last = u
      /\ b.out = c.out /\ b.events = c.events /\ b.firstEvent = FALSE
      /\ b.first = d.first /\ b.count = d.count + 1 /\ b.sum = (d.sum + u) % Word
    BY <1>2, <1>4, <1>5 DEF Accumulators
<1>7. 0 + 1 = 1 /\ 0 + u = u
    BY <1>1
<1> QED
    BY <1>2, <1>6, <1>7 DEF Extended, b

\* The event being built may take a fragment, or there is none and it may begin one.
Takes(a, s, r, id) ==
    /\ a.event # <<>> => /\ options.build /\ Len(a.event) <= MaxFragments
                         /\ Near(r[id].ts, r[a.event[1]].ts)
    /\ a.event = <<>> => \A p \in Events(s) : (p + 1 .. Len(s)) \cap Events(s) = {} =>
                             PartedIn(r, s[p].frags, <<id>>)

\* A fragment is added to the event being built or begins one.
LEMMA ExtendOk ==
    ASSUME NEW a, NEW s, NEW r, NEW n, Ok(a, s, r, n), Physics(r, n + 1),
           n + 1 \in 1 .. MaxInput, Takes(a, s, r, n + 1)
    PROVE  LET b == Extend(a, n + 1, r[n + 1].ts)
           IN  Ok(b, s, r, n + 1) /\ b.out = a.out /\ b.event # <<>>
<1> DEFINE u == r[n + 1].ts
           b == Extend(a, n + 1, u)
<1>1. /\ a \in Accumulators /\ s \in Seq(Items) /\ r \in Seq(Fragments) /\ n \in Nat
      /\ n + 1 \in Nat
    BY DEF Ok
<1>2. u \in 0 .. Word - 1 /\ a.firstEvent \in BOOLEAN
    BY <1>1, TsIs DEF Physics, Accumulators
<1>3. /\ b \in Accumulators /\ b.event = Append(a.event, n + 1) /\ b.last = u
      /\ b.out = a.out /\ b.events = a.events /\ b.firstEvent = FALSE
      /\ a.firstEvent => b.first = u /\ b.count = 1 /\ b.sum = u % Word
      /\ ~a.firstEvent => /\ b.first = a.first /\ b.count = a.count + 1
                          /\ b.sum = (a.sum + u) % Word
    <2> HIDE DEF u
    <2>1. Extended(b, a, n + 1, u)
        BY <1>1, <1>2, ExtendIs
    <2> QED
        BY <2>1 DEF Extended
<1>4. a.firstEvent <=> a.event = <<>>
    BY DEF Ok, StaticsOk
<1> HIDE DEF b
<1>5. b.event # <<>>
    BY <1>1, <1>3, EventIs
<1>6. IdsOk(b, s, n + 1)
    BY <1>1, <1>3, IdsTake DEF Ok
<1>7. StaticsOk(b, r)
    <2>1. a.event # <<>> => Good(r, a.event)
        BY DEF Ok, NowOk
    <2>2. StaticsOk(a, r)
        BY DEF Ok
    <2> QED
        BY <2>1, <2>2, <1>1, <1>3, <1>4, StaticsTake
<1>8. CountsOk(b, s)
    BY <1>3 DEF Ok, CountsOk
<1>9. BarsOk(b, s, r, n + 1)
    <2>1. ~Bar(r, n + 1)
        BY DEF Physics, Bar
    <2> QED
        BY <2>1, <1>1, <1>3, BarsTake DEF Ok
<1>10. AllOk(b, s, r, n + 1)
    BY <1>1, <1>3, AllTake DEF Ok
<1>11. NowOk(b, s, r)
    <2>1. CASE a.event = <<>>
        <3>1. b.event = <<n + 1>>
            BY <2>1, <1>3
        <3> QED
            BY <3>1, <2>1, <1>1, NowBegin DEF Ok, Takes
    <2>2. CASE a.event # <<>>
        BY <2>2, <1>1, <1>3, NowExtend DEF Ok, Takes
    <2> QED
        BY <2>1, <2>2
<1>12. StampsOk(s, r) /\ PastOk(s, r)
    BY DEF Ok
<1> QED
    BY <1>1, <1>3, <1>5, <1>6, <1>7, <1>8, <1>9, <1>10, <1>11, <1>12 DEF Ok, b

\* The last fragment of an event.
LEMMA LastIs ==
    ASSUME NEW a, NEW s, NEW r, NEW n, Ok(a, s, r, n), NEW p \in Events(s)
    PROVE  Last(s[p].frags) \in Nat /\ Last(s[p].frags) <= n
<1>1. s \in Seq(Items) /\ p \in DOMAIN s /\ s[p].frags # <<>>
    BY DEF Ok, PastOk, Good, Events
<1>2. s[p] \in Items
    BY <1>1
<1>3. Len(s[p].frags) \in DOMAIN s[p].frags
    <2>1. s[p].frags \in Seq(1 .. MaxInput + 1)
        BY <1>2, FragsAre
    <2> QED
        BY <2>1, <1>1
<1> QED
    BY <1>1, <1>2, <1>3, FragsAre DEF Ok, IdsOk, Last

\* accumulateEvent
LEMMA AccumulateOk ==
    ASSUME NEW a, NEW t \in Seq(Items), NEW r, NEW n, options \in Options,
           Ok(a, With(t, a), r, n), Closed(a, With(t, a), r, n), Physics(r, n + 1),
           n + 1 \in 1 .. MaxInput
    PROVE  LET b == AccumulateEvent(a, n + 1, r[n + 1].ts)
           IN  Ok(b, With(t, b), r, n + 1) /\ b.event # <<>>
<1> DEFINE u == r[n + 1].ts
           c == IF Complete(a, u) THEN FlushEvent(a) ELSE a
           b == AccumulateEvent(a, n + 1, u)
           s == With(t, a)
<1>1. /\ a \in Accumulators /\ s \in Seq(Items) /\ r \in Seq(Fragments) /\ n \in Nat
      /\ u \in 0 .. Word - 1
    BY TsIs DEF Ok, Physics
<1>2. b = Extend(c, n + 1, u)
    BY DEF AccumulateEvent, Extend
<1>3. MaxFragments \in Nat /\ options.build \in BOOLEAN
    BY GlomAssumption
<1>4. CASE a.event = <<>>
    <2>1. c = a
        BY <1>4 DEF FlushEvent
    <2>2. ASSUME NEW p \in Events(s) PROVE PartedIn(r, s[p].frags, <<n + 1>>)
        <3>1. Within(r, Last(s[p].frags), n)
            BY <1>4 DEF Closed
        <3>2. PICK i \in Last(s[p].frags) .. n : Bar(r, i)
            BY <3>1 DEF Within
        <3>3. Last(s[p].frags) \in Nat
            <4> HIDE DEF s
            <4> QED
                BY LastIs DEF s
        <3>4. i \in Last(s[p].frags) .. n + 1
            BY <3>2, <3>3, <1>1
        <3>5. Within(r, Last(s[p].frags), <<n + 1>>[1])
            BY <3>2, <3>4 DEF Within
        <3> QED
            BY <3>5 DEF PartedIn
    <2> HIDE DEF b, s, u
    <2>3. Takes(a, s, r, n + 1) /\ Ok(a, s, r, n)
        BY <2>2, <1>4 DEF Takes, s
    <2>4. Ok(b, s, r, n + 1) /\ b.out = a.out /\ b.event # <<>>
        BY <2>1, <2>3, <1>2, ExtendOk DEF u
    <2>5. With(t, b) = s
        BY <2>4 DEF With, s
    <2> QED
        BY <2>4, <2>5 DEF b, u
<1>5. CASE a.event # <<>> /\ ~Complete(a, u)
    <2>1. c = a
        BY <1>5
    <2>2. /\ a.first = r[a.event[1]].ts /\ a.count = Len(a.event) /\ ~a.firstEvent
          /\ a.first \in 0 .. Word - 1 /\ a.count \in Nat
        BY <1>1, <1>5 DEF Ok, StaticsOk, Accumulators
    <2>3. options.build /\ TimeApart(u, a.first) <= Window /\ a.count <= MaxFragments
        <3>1. TimeApart(u, a.first) \in Int /\ Window \in Nat
            <4>1. Word \in Nat \ {0} /\ Window \in Nat
                BY GlomAssumption
            <4>2. (u - a.first) % Word \in Int /\ (a.first - u) % Word \in Int
                BY <4>1, <1>1, <2>2, SMTT(30)
            <4> QED
                BY <4>1, <4>2 DEF TimeApart
        <3> HIDE DEF u
        <3> QED
            BY <3>1, <1>3, <1>5, <2>2 DEF Complete
    <2>4. Near(u, r[a.event[1]].ts)
        BY <2>2, <2>3, <1>1, ApartIsNear
    <2> HIDE DEF b, s, u
    <2>5. Takes(a, s, r, n + 1) /\ Ok(a, s, r, n)
        BY <2>2, <2>3, <2>4, <1>5 DEF Takes, s, u
    <2> HIDE DEF c
    <2>6. Ok(b, s, r, n + 1) /\ b.out = a.out /\ b.event # <<>>
        BY <2>1, <2>5, <1>2, ExtendOk DEF u
    <2>7. With(t, b) = s
        BY <2>6 DEF With, s
    <2> QED
        BY <2>6, <2>7 DEF b, u
<1>6. CASE a.event # <<>> /\ Complete(a, u)
    <2> DEFINE x == Item("EVENT", a.event, EventTimestamp(a), 0, FALSE)
    <2>1. /\ c \in Accumulators /\ x \in Items /\ c.event = <<>> /\ c.out = Append(a.out, x)
          /\ Ok(c, Append(s, x), r, n)
        BY <1>6, FlushOk
    <2>2. x.frags = a.event /\ x.type = "EVENT"
        BY DEF Item
    <2>3. /\ Events(Append(s, x)) = Events(s) \cup {Len(s) + 1} /\ Len(s) \in Nat
          /\ Len(Append(s, x)) = Len(s) + 1
          /\ \A p \in Events(s) : p \in 1 .. Len(s)
          /\ Append(s, x)[Len(s) + 1] = x
        <3> HIDE DEF x, s
        <3> QED
            BY <1>1, <2>1, <2>2, EventsAppend, AppendIs DEF s
    <2>4. PartedIn(r, a.event, <<n + 1>>)
        <3>1. Good(r, a.event) /\ a.count = Len(a.event) /\ a.first = r[a.event[1]].ts
              /\ ~a.firstEvent /\ Len(a.event) \in Nat
            BY <1>1, <1>6, EventIs DEF Ok, StaticsOk, NowOk
        <3>2. CASE ~options.build
            BY <3>2 DEF PartedIn
        <3>3. CASE a.count > MaxFragments /\ options.build
            <4>1. Len(a.event) <= MaxFragments + 1
                BY <3>1, <3>3 DEF Good
            <4>2. Len(a.event) = MaxFragments + 1
                BY <4>1, <3>1, <3>3, <1>3
            <4> QED
                BY <4>2 DEF PartedIn
        <3>4. CASE TimeApart(u, a.first) > Window
            <4>1. a.first \in 0 .. Word - 1
                BY <1>1 DEF Accumulators
            <4>2. TimeApart(u, a.first) \in Int /\ Window \in Nat
                <5>1. Word \in Nat \ {0} /\ Window \in Nat
                    BY GlomAssumption
                <5>2. (u - a.first) % Word \in Int /\ (a.first - u) % Word \in Int
                    BY <5>1, <1>1, <4>1, SMTT(30)
                <5> QED
                    BY <5>1, <5>2 DEF TimeApart
            <4>3. ~(TimeApart(u, a.first) <= Window)
                <5> HIDE DEF u
                <5> QED
                    BY <4>2, <3>4
            <4>4. ~Near(u, a.first)
                BY <4>1, <4>3, <1>1, ApartIsNear
            <4>5. <<n + 1>>[1] = n + 1
                OBVIOUS
            <4> QED
                BY <4>4, <4>5, <3>1 DEF PartedIn
        <3> QED
            BY <3>2, <3>3, <3>4, <1>6 DEF Complete
    <2>5. ASSUME NEW p \in Events(Append(s, x)),
                 (p + 1 .. Len(Append(s, x))) \cap Events(Append(s, x)) = {}
          PROVE  PartedIn(r, Append(s, x)[p].frags, <<n + 1>>)
        <3>1. p = Len(s) + 1
            <4>1. p \in 1 .. Len(s) => Len(s) + 1 \in p + 1 .. Len(s) + 1
                BY <2>3
            <4> HIDE DEF s, x
            <4> QED
                BY <4>1, <2>3, <2>5
        <3> HIDE DEF s, x
        <3> QED
            BY <3>1, <2>2, <2>3, <2>4
    <2> HIDE DEF b, s, u, x, c
    <2>6. Takes(c, Append(s, x), r, n + 1)
        BY <2>1, <2>5 DEF Takes
    <2>7. Ok(b, Append(s, x), r, n + 1) /\ b.out = c.out /\ b.event # <<>>
        BY <2>1, <2>6, <1>2, ExtendOk DEF u
    <2>8. With(t, b) = Append(s, x)
        <3>1. a.out \in Seq(Items)
            BY <1>1 DEF Accumulators
        <3> QED
            BY <3>1, <2>1, <2>7, WithAppend, SMTT(30) DEF With, s
    <2> QED
        BY <2>7, <2>8 DEF b, u
<1> QED
    BY <1>4, <1>5, <1>6

-----------------------------------------------------------------------------
(* A fragment. *)

\* Between two fragments.
Settled(a, t, r, n) == Ok(a, With(t, a), r, n) /\ Closed(a, With(t, a), r, n)

\* A field that all this is not about changes.
LEMMA OkSame ==
    ASSUME NEW a, NEW b \in Accumulators, NEW s, NEW r, NEW n, Ok(a, s, r, n),
           Same(b, a), b.events = a.events
    PROVE  Ok(b, s, r, n)
<1>1. IdsOk(b, s, n) /\ StaticsOk(b, r) /\ CountsOk(b, s)
    BY DEF Ok, Same, IdsOk, StaticsOk, CountsOk
<1>2. BarsOk(b, s, r, n) /\ AllOk(b, s, r, n) /\ NowOk(b, s, r)
    BY DEF Ok, Same, BarsOk, AllOk, NowOk
<1> QED
    BY <1>1, <1>2 DEF Ok

\* The last one handled is a barrier.
LEMMA ClosedAtBarrier ==
    ASSUME NEW a, NEW s, NEW r, NEW n, Ok(a, s, r, n), Bar(r, n)
    PROVE  Closed(a, s, r, n)
<1> SUFFICES ASSUME NEW p \in Events(s) PROVE Within(r, Last(s[p].frags), n)
    BY DEF Closed
<1>1. Last(s[p].frags) \in Nat /\ Last(s[p].frags) <= n /\ n \in Nat
    BY LastIs DEF Ok
<1>2. n \in Last(s[p].frags) .. n
    BY <1>1
<1> QED
    BY <1>2 DEF Within

\* A barrier stays where it is.
LEMMA ClosedStays ==
    ASSUME NEW a, NEW b, NEW s, NEW t, NEW r, NEW n, Ok(a, s, r, n), Closed(a, s, r, n),
           Grown(s, t), b.event = a.event
    PROVE  Closed(b, t, r, n + 1)
<1> SUFFICES ASSUME b.event = <<>>, NEW p \in Events(t)
             PROVE  Within(r, Last(t[p].frags), n + 1)
    BY DEF Closed
<1>1. p \in Events(s) /\ t[p] = s[p]
    BY DEF Grown
<1>2. Last(s[p].frags) \in Nat /\ n \in Nat
    BY <1>1, LastIs DEF Ok
<1>3. PICK i \in Last(s[p].frags) .. n : Bar(r, i)
    BY <1>1 DEF Closed, Within
<1>4. i \in Last(s[p].frags) .. n + 1
    BY <1>2, <1>3
<1> QED
    BY <1>1, <1>3, <1>4 DEF Within

\* flushEvent, of an event or of none.
LEMMA EndEvent ==
    ASSUME NEW a, NEW t \in Seq(Items), NEW r, NEW n, options \in Options,
           Ok(a, With(t, a), r, n)
    PROVE  LET b == FlushEvent(a)
           IN  Ok(b, With(t, b), r, n) /\ b.event = <<>>
<1> DEFINE b == FlushEvent(a)
<1>1. CASE a.event = <<>>
    BY <1>1 DEF FlushEvent
<1>2. CASE a.event # <<>>
    <2> DEFINE x == Item("EVENT", a.event, EventTimestamp(a), 0, FALSE)
               s == With(t, a)
    <2>1. /\ x \in Items /\ b.event = <<>> /\ b.out = Append(a.out, x)
          /\ Ok(b, Append(s, x), r, n)
        BY <1>2, FlushOk
    <2>2. a.out \in Seq(Items)
        BY DEF Ok, Accumulators
    <2> HIDE DEF b, x
    <2>3. With(t, b) = Append(s, x)
        BY <2>1, <2>2, WithAppend DEF With
    <2> QED
        BY <2>1, <2>3 DEF b
<1> QED
    BY <1>1, <1>2

\* Handle keeps what main has settled.
LEMMA HandleOk ==
    ASSUME NEW a, NEW t \in Seq(Items), NEW r, NEW n, options \in Options,
           Settled(a, t, r, n), n + 1 \in DOMAIN r, n + 1 \in 1 .. MaxInput
    PROVE  Settled(Handle(a, n + 1, r[n + 1]), t, r, n + 1)
<1> DEFINE f == r[n + 1]
<1>1. Ok(a, With(t, a), r, n) /\ Closed(a, With(t, a), r, n) /\ n \in Nat
      /\ n + 1 \in 1 .. MaxInput + 1
    <2>1. MaxInput \in Nat
        BY GlomAssumption
    <2> QED
        BY <2>1 DEF Settled, Ok
<1>2. CASE f.bar # 0
    <2> DEFINE b == FlushEvent(a)
               c == OutputBarrier(b, n + 1, f.kind)
               d == GlomParameters(c, f.bar)
    <2>1. Ok(b, With(t, b), r, n) /\ b.event = <<>>
        BY <1>1, EndEvent
    <2>2. Bar(r, n + 1) /\ ~Physics(r, n + 1)
        BY <1>2 DEF Bar, Physics
    <2>3. Handle(a, n + 1, f) = d
        BY <1>2 DEF Handle
    <2> HIDE DEF b, f
    <2>4. Ok(c, With(t, c), r, n + 1)
        BY <2>1, <2>2, <1>1, PassOk
    <2> HIDE DEF c
    <2>5. Ok(d, With(t, d), r, n + 1)
        BY <2>4, ParamsOk
    <2>6. Closed(d, With(t, d), r, n + 1)
        BY <2>2, <2>5, ClosedAtBarrier
    <2> QED
        BY <2>3, <2>5, <2>6 DEF Settled, f
<1>3. CASE f.bar = 0
    <2> DEFINE b == [a EXCEPT !.firstBarrier = TRUE]
    <2>1. b \in Accumulators /\ Same(b, a) /\ b.events = a.events /\ b.out = a.out
        BY <1>1 DEF Ok, Accumulators, Same
    <2>2. With(t, b) = With(t, a)
        BY <2>1 DEF With
    <2>3. b.event = a.event
        BY <2>1 DEF Same
    <2>4. ~Bar(r, n + 1)
        BY <1>3 DEF Bar
    <2> HIDE DEF b
    <2>5. Ok(b, With(t, b), r, n) /\ Closed(b, With(t, b), r, n)
        <3>1. Ok(b, With(t, a), r, n)
            BY <2>1, <1>1, OkSame
        <3> QED
            BY <3>1, <2>2, <2>3, <1>1 DEF Closed
    <2>6. CASE f.kind = "PHYSICS"
        <3> DEFINE c == AccumulateEvent(b, n + 1, f.ts)
        <3>1. Physics(r, n + 1)
            BY <1>3, <2>6 DEF Physics
        <3>2. Ok(c, With(t, c), r, n + 1) /\ c.event # <<>>
            BY <2>5, <3>1, AccumulateOk
        <3>3. Closed(c, With(t, c), r, n + 1)
            BY <3>2 DEF Closed
        <3>4. Handle(a, n + 1, f) = c
            BY <1>3, <2>6 DEF Handle, b
        <3> QED
            BY <3>2, <3>3, <3>4 DEF Settled
    <2>7. CASE f.kind # "PHYSICS"
        <3> DEFINE c == OutputBarrier(b, n + 1, f.kind)
        <3>1. ~Physics(r, n + 1)
            BY <2>7 DEF Physics
        <3>2. /\ Ok(c, With(t, c), r, n + 1) /\ c.event = b.event
              /\ Grown(With(t, b), With(t, c))
            BY <2>4, <2>5, <3>1, <1>1, PassOk
        <3>3. Handle(a, n + 1, f) = c
            BY <1>3, <2>7 DEF Handle, b
        <3> HIDE DEF c
        <3>4. Closed(c, With(t, c), r, n + 1)
            BY <2>5, <3>2, ClosedStays
        <3> QED
            BY <3>2, <3>3, <3>4 DEF Settled
    <2> QED
        BY <2>6, <2>7
<1> QED
    BY <1>2, <1>3

-----------------------------------------------------------------------------
(* The input. *)

\* r and q agree on the first n.
Alike(r, q, n) == \A id \in 1 .. n : id \in DOMAIN r /\ id \in DOMAIN q /\ q[id] = r[id]

\* An event stays what it is when the input grows.
LEMMA GoodLonger ==
    ASSUME NEW r, NEW q, NEW n \in Nat, Alike(r, q, n), NEW e, Good(r, e),
           1 \in DOMAIN e, \A i \in DOMAIN e : e[i] \in 1 .. n
    PROVE  Good(q, e) /\ StampsIn(q, e) = StampsIn(r, e)
<1>1. \A i \in DOMAIN e : e[i] \in DOMAIN q /\ q[e[i]] = r[e[i]]
    BY DEF Alike
<1>2. StampsIn(q, e) = StampsIn(r, e)
    BY <1>1 DEF StampsIn
<1>3. \A i \in DOMAIN e : Physics(q, e[i]) /\ Near(q[e[i]].ts, q[e[1]].ts)
    BY <1>1 DEF Good, Physics
<1> QED
    BY <1>2, <1>3 DEF Good

\* Two events stay apart when the input grows.
LEMMA PartedLonger ==
    ASSUME NEW r, NEW q, NEW n \in Nat, Alike(r, q, n), NEW d, NEW e, PartedIn(r, d, e),
           e[1] \in 1 .. n, d[1] \in 1 .. n, Last(d) \in 1 .. n
    PROVE  PartedIn(q, d, e)
<1>1. q[e[1]] = r[e[1]] /\ q[d[1]] = r[d[1]]
    BY DEF Alike
<1>2. ASSUME Within(r, Last(d), e[1]) PROVE Within(q, Last(d), e[1])
    <2>1. PICK i \in Last(d) .. e[1] : Bar(r, i)
        BY <1>2 DEF Within
    <2>2. i \in 1 .. n
        BY <2>1
    <2>3. Bar(q, i)
        BY <2>1, <2>2 DEF Alike, Bar
    <2> QED
        BY <2>1, <2>3 DEF Within
<1> QED
    BY <1>1, <1>2 DEF PartedIn

\* The input grows.
LEMMA OkLonger ==
    ASSUME NEW a, NEW s, NEW r, NEW n, Ok(a, s, r, n), NEW q \in Seq(Fragments),
           Alike(r, q, n)
    PROVE  Ok(a, s, q, n)
<1>1. /\ a \in Accumulators /\ s \in Seq(Items) /\ n \in Nat
    BY DEF Ok
<1>2. \A p \in DOMAIN s : \A i \in DOMAIN s[p].frags : s[p].frags[i] \in 1 .. n
    <2> TAKE p \in DOMAIN s
    <2> TAKE i \in DOMAIN s[p].frags
    <2>1. s[p] \in Items
        BY <1>1
    <2>2. s[p].frags[i] \in Nat /\ s[p].frags[i] >= 1
        BY <2>1, FragsAre
    <2>3. s[p].frags[i] <= n
        BY DEF Ok, IdsOk
    <2> QED
        BY <2>2, <2>3, <1>1
<1>3. \A i \in DOMAIN a.event : a.event[i] \in 1 .. n
    <2> TAKE i \in DOMAIN a.event
    <2>1. a.event[i] \in Nat /\ a.event[i] >= 1
        BY <1>1, EventIs
    <2>2. a.event[i] <= n
        BY DEF Ok, IdsOk
    <2> QED
        BY <2>1, <2>2, <1>1
<1>4. \A id \in 1 .. n : /\ Bar(q, id) <=> Bar(r, id)
                         /\ Physics(q, id) <=> Physics(r, id)
    BY DEF Alike, Bar, Physics
<1>5. ASSUME NEW p \in Events(s)
      PROVE  /\ Good(q, s[p].frags) /\ StampsIn(q, s[p].frags) = StampsIn(r, s[p].frags)
             /\ s[p].frags[1] \in 1 .. n /\ Last(s[p].frags) \in 1 .. n
    <2>1. p \in DOMAIN s /\ s[p] \in Items /\ Good(r, s[p].frags)
        BY <1>1 DEF Ok, PastOk, Events
    <2>2. 1 \in DOMAIN s[p].frags /\ Len(s[p].frags) \in DOMAIN s[p].frags
        <3>1. s[p].frags # <<>> /\ s[p].frags \in Seq(1 .. MaxInput + 1)
            BY <2>1, FragsAre DEF Good
        <3> QED
            BY <3>1
    <2>3. \A i \in DOMAIN s[p].frags : s[p].frags[i] \in 1 .. n
        BY <2>1, <1>2
    <2>4. s[p].frags[1] \in 1 .. n /\ Last(s[p].frags) \in 1 .. n
        BY <2>2, <2>3 DEF Last
    <2> QED
        BY <2>1, <2>2, <2>3, <2>4, <1>1, GoodLonger
<1>6. ASSUME a.event # <<>>
      PROVE  /\ Good(q, a.event) /\ StampsIn(q, a.event) = StampsIn(r, a.event)
             /\ a.event[1] \in 1 .. n /\ Last(a.event) \in 1 .. n
    <2>1. Good(r, a.event)
        BY <1>6 DEF Ok, NowOk
    <2>2. 1 \in DOMAIN a.event /\ Len(a.event) \in DOMAIN a.event
        BY <1>1, <1>6, EventIs
    <2>3. a.event[1] \in 1 .. n /\ Last(a.event) \in 1 .. n
        BY <2>2, <1>3 DEF Last
    <2> QED
        BY <2>1, <2>2, <2>3, <1>1, <1>3, GoodLonger
<1>7. StaticsOk(a, q)
    <2>1. StaticsOk(a, r)
        BY DEF Ok
    <2>2. a.event # <<>> => q[a.event[1]] = r[a.event[1]] /\ q[Last(a.event)] = r[Last(a.event)]
        BY <1>6 DEF Alike
    <2> QED
        BY <2>1, <2>2, <1>6 DEF StaticsOk
<1>8. StampsOk(s, q)
    BY <1>5 DEF Ok, StampsOk
<1>9. BarsOk(a, s, q, n)
    <2>1. ASSUME NEW p \in DOMAIN s, NEW k \in DOMAIN s, p < k,
                 NEW i \in DOMAIN s[p].frags, NEW j \in DOMAIN s[k].frags,
                 Bar(q, s[p].frags[i]) \/ Bar(q, s[k].frags[j])
          PROVE  s[p].frags[i] < s[k].frags[j]
        <3>1. Bar(r, s[p].frags[i]) \/ Bar(r, s[k].frags[j])
            BY <2>1, <1>2, <1>4
        <3> QED
            BY <3>1, <2>1 DEF Ok, BarsOk
    <2>2. ASSUME NEW i \in DOMAIN a.event, NEW b \in a.event[i] .. n PROVE ~Bar(q, b)
        <3>1. b \in 1 .. n
            BY <2>2, <1>1, <1>3
        <3>2. ~Bar(r, b)
            BY <2>2 DEF Ok, BarsOk
        <3> QED
            BY <3>1, <3>2, <1>4
    <2> QED
        BY <2>1, <2>2 DEF BarsOk
<1>10. AllOk(a, s, q, n)
    BY <1>4 DEF Ok, AllOk
<1>11. PastOk(s, q)
    <2>1. ASSUME NEW p \in Events(s), NEW k \in Events(s), p < k
          PROVE  /\ Before(s[p].frags, s[k].frags)
                 /\ (p + 1 .. k - 1) \cap Events(s) = {} => PartedIn(q, s[p].frags, s[k].frags)
        <3>1. /\ Before(s[p].frags, s[k].frags)
              /\ (p + 1 .. k - 1) \cap Events(s) = {} => PartedIn(r, s[p].frags, s[k].frags)
            BY <2>1 DEF Ok, PastOk
        <3>2. PartedIn(r, s[p].frags, s[k].frags) => PartedIn(q, s[p].frags, s[k].frags)
            BY <1>1, <1>5, PartedLonger
        <3> QED
            BY <3>1, <3>2
    <2> QED
        BY <2>1, <1>5 DEF PastOk
<1>12. NowOk(a, s, q)
    <2> SUFFICES ASSUME a.event # <<>>
                 PROVE  /\ Good(q, a.event)
                        /\ \A p \in Events(s) :
                              /\ Before(s[p].frags, a.event)
                              /\ (p + 1 .. Len(s)) \cap Events(s) = {} =>
                                    PartedIn(q, s[p].frags, a.event)
        BY DEF NowOk
    <2>1. ASSUME NEW p \in Events(s)
          PROVE  /\ Before(s[p].frags, a.event)
                 /\ (p + 1 .. Len(s)) \cap Events(s) = {} => PartedIn(q, s[p].frags, a.event)
        <3>1. /\ Before(s[p].frags, a.event)
              /\ (p + 1 .. Len(s)) \cap Events(s) = {} => PartedIn(r, s[p].frags, a.event)
            BY <2>1 DEF Ok, NowOk
        <3>2. PartedIn(r, s[p].frags, a.event) => PartedIn(q, s[p].frags, a.event)
            BY <1>1, <1>5, <1>6, PartedLonger
        <3> QED
            BY <3>1, <3>2
    <2> QED
        BY <2>1, <1>6
<1> QED
    BY <1>1, <1>7, <1>8, <1>9, <1>10, <1>11, <1>12 DEF Ok

\* So does a barrier behind the last event.
LEMMA ClosedLonger ==
    ASSUME NEW a, NEW s, NEW r, NEW n, Ok(a, s, r, n), Closed(a, s, r, n), NEW q,
           Alike(r, q, n)
    PROVE  Closed(a, s, q, n)
<1> SUFFICES ASSUME a.event = <<>>, NEW p \in Events(s)
             PROVE  Within(q, Last(s[p].frags), n)
    BY DEF Closed
<1>1. PICK i \in Last(s[p].frags) .. n : Bar(r, i)
    BY DEF Closed, Within
<1>2. Bar(q, i)
    <2>1. i \in DOMAIN r /\ n \in Nat /\ r \in Seq(Fragments)
        BY <1>1 DEF Bar, Ok
    <2>2. i \in 1 .. n
        BY <1>1, <2>1
    <2> QED
        BY <1>1, <2>2 DEF Alike, Bar
<1> QED
    BY <1>1, <1>2 DEF Within

\* What is behind the input is neither.
LEMMA OkNext ==
    ASSUME NEW a, NEW s, NEW r, NEW n, Ok(a, s, r, n), ~Physics(r, n + 1), ~Bar(r, n + 1)
    PROVE  Ok(a, s, r, n + 1)
<1>1. /\ a \in Accumulators /\ s \in Seq(Items) /\ n \in Nat /\ n + 1 \in Nat
    BY DEF Ok
<1>2. IdsOk(a, s, n + 1)
    <2>1. ASSUME NEW p \in DOMAIN s, NEW i \in DOMAIN s[p].frags PROVE s[p].frags[i] <= n + 1
        <3>1. s[p] \in Items
            BY <1>1
        <3>2. s[p].frags[i] \in Nat /\ s[p].frags[i] <= n
            BY <3>1, FragsAre DEF Ok, IdsOk
        <3> QED
            BY <3>2, <1>1
    <2>2. ASSUME NEW i \in DOMAIN a.event PROVE a.event[i] <= n + 1
        <3>1. a.event[i] \in Nat /\ a.event[i] <= n
            BY <1>1, EventIs DEF Ok, IdsOk
        <3> QED
            BY <3>1, <1>1
    <2> QED
        BY <2>1, <2>2 DEF IdsOk
<1>3. BarsOk(a, s, r, n + 1)
    <2>1. ASSUME NEW i \in DOMAIN a.event, NEW b \in a.event[i] .. n + 1 PROVE ~Bar(r, b)
        <3>1. a.event[i] \in Nat
            BY <1>1, EventIs
        <3>2. b = n + 1 \/ b \in a.event[i] .. n
            BY <3>1, <1>1, <2>1
        <3> QED
            BY <3>2 DEF Ok, BarsOk
    <2> QED
        BY <2>1 DEF Ok, BarsOk
<1>4. AllOk(a, s, r, n + 1)
    <2>1. ASSUME NEW id \in 1 .. n + 1, Physics(r, id) PROVE id \in 1 .. n
        BY <2>1, <1>1
    <2> QED
        BY <2>1 DEF Ok, AllOk
<1> QED
    BY <1>1, <1>2, <1>3, <1>4 DEF Ok

-----------------------------------------------------------------------------
(* The state. *)

\* The fragments handled, with the one made up at the end.
Taken == Len(received) + (IF main \in {"run", "full"} THEN 0 ELSE 1)

\* Of the events, the inductive invariant.
MadeInv ==
    /\ Ok(acc, stream, received, Taken)
    /\ main \in {"run", "full"} => Closed(acc, stream, received, Len(received))

\* The events with the one being built are past ones.
LEMMA MadeIs ==
    ASSUME TypeOK, MadeInv
    PROVE  /\ MadeEvents = Events(Made) /\ PastOk(Made, received)
           /\ AllOk([event |-> <<>>], Made, received, Taken)
<1>1. acc \in Accumulators /\ stream \in Seq(Items) /\ Ok(acc, stream, received, Taken)
    BY DEF TypeOK, MadeInv, Ok
<1>2. MadeEvents = Events(Made)
    BY DEF MadeEvents, Events, IsEvent
<1>3. CASE acc.event = <<>>
    <2>1. Made = stream
        BY <1>3 DEF Made
    <2>2. AllOk([event |-> <<>>], stream, received, Taken)
        BY <1>1, <1>3 DEF Ok, AllOk
    <2> QED
        BY <2>1, <2>2, <1>1, <1>2 DEF Ok
<1>4. CASE acc.event # <<>>
    <2> DEFINE x == Item("EVENT", acc.event, 0, 0, FALSE)
    <2>1. x \in Items /\ x.type = "EVENT" /\ x.frags = acc.event
        <3>1. MaxInput \in Nat /\ 0 \in 0 .. Word - 1
            BY GlomAssumption
        <3>2. 1 .. MaxInput \subseteq 1 .. MaxInput + 1
            BY <3>1
        <3>3. acc.event \in Seq(1 .. MaxInput + 1)
            <4>1. acc.event \in Seq(1 .. MaxInput)
                BY <1>1, EventIs
            <4> QED
                BY <4>1, <3>1, <3>2
        <3> QED
            BY <3>1, <3>3 DEF Item, Items, Types
    <2>2. Made = Append(stream, x)
        BY <1>4 DEF Made
    <2> HIDE DEF x
    <2>3. PastOk(Append(stream, x), received)
        BY <2>1, <1>1, <1>4, PastFlush DEF Ok
    <2>4. AllOk([event |-> <<>>], Append(stream, x), received, Taken)
        BY <2>1, <1>1, AllFlush DEF Ok
    <2> QED
        BY <2>2, <2>3, <2>4, <1>2
<1> QED
    BY <1>3, <1>4

\* The events are as they should be.
LEMMA MadeEventsBuilt ==
    ASSUME TypeOK, MadeInv PROVE EventsBuilt
<1>1. /\ MadeEvents = Events(Made) /\ PastOk(Made, received)
      /\ AllOk([event |-> <<>>], Made, received, Taken)
    BY MadeIs
<1>2. received \in Seq(Fragments)
    BY DEF TypeOK
<1>3. \A id : IsPhysics(id) <=> Physics(received, id)
    BY DEF IsPhysics, Physics
<1>4. ASSUME NEW id \in DOMAIN received, IsPhysics(id)
      PROVE  \E p \in MadeEvents : id \in Range(Made[p].frags)
    <2>1. id \in 1 .. Taken
        BY <1>2, <1>4 DEF Taken
    <2>2. PICK p \in Events(Made) : \E i \in DOMAIN Made[p].frags : Made[p].frags[i] = id
        BY <2>1, <1>1, <1>3, <1>4 DEF AllOk
    <2> QED
        BY <2>2, <1>1 DEF Range
<1>5. ASSUME NEW p \in MadeEvents PROVE EventOk(Made[p].frags)
    <2>1. Good(received, Made[p].frags)
        BY <1>1 DEF PastOk
    <2> QED
        BY <2>1, <1>3 DEF Good, EventOk, Stamp
<1>6. ASSUME NEW p \in MadeEvents, NEW q \in MadeEvents, p < q
      PROVE  /\ Before(Made[p].frags, Made[q].frags)
             /\ (p + 1 .. q - 1) \cap MadeEvents = {} => Parted(Made[p].frags, Made[q].frags)
    <2>1. \A i, j : BarrierWithin(i, j) <=> Within(received, i, j)
        BY DEF BarrierWithin, Within, IsBarrier, Bar
    <2>2. PartedIn(received, Made[p].frags, Made[q].frags) =>
              Parted(Made[p].frags, Made[q].frags)
        BY <2>1 DEF PartedIn, Parted, Stamp
    <2> QED
        BY <2>2, <1>1, <1>6 DEF PastOk
<1> QED
    BY <1>4, <1>5, <1>6 DEF EventsBuilt

\* The rest.
LEMMA MadeTrue ==
    ASSUME TypeOK, MadeInv
    PROVE  AccInv /\ ReadInv /\ BarriersBetween /\ CountsTrue /\ StampsTrue
<1>1. /\ acc \in Accumulators /\ stream \in Seq(Items) /\ received \in Seq(Fragments)
      /\ Ok(acc, stream, received, Taken) /\ Len(received) \in Nat
    BY DEF TypeOK, MadeInv, Ok
<1>2. /\ \A p : Since(p) = SinceIn(stream, p)
      /\ \A id : IsBarrier(id) <=> Bar(received, id)
      /\ \A e : Stamps(e) = StampsIn(received, e)
    BY DEF Since, SinceIn, IsEvent, IsBarrier, Bar, Stamps, StampsIn, Stamp
<1>3. CountsTrue
    BY <1>1, <1>2 DEF Ok, CountsOk, CountsTrue
<1>4. StampsTrue
    BY <1>1, <1>2 DEF Ok, StampsOk, StampsTrue, Events, IsEvent
<1>5. ReadInv
    BY <1>1 DEF Ok, IdsOk, ReadInv, Range, Taken
<1>6. BarriersBetween
    <2> SUFFICES ASSUME NEW p \in DOMAIN stream, NEW q \in DOMAIN stream, p < q,
                        NEW i \in Range(stream[p].frags), NEW j \in Range(stream[q].frags),
                        IsBarrier(i) \/ IsBarrier(j)
                 PROVE  i < j
        BY DEF BarriersBetween
    <2>1. PICK k \in DOMAIN stream[p].frags : i = stream[p].frags[k]
        BY DEF Range
    <2>2. PICK m \in DOMAIN stream[q].frags : j = stream[q].frags[m]
        BY DEF Range
    <2> QED
        BY <2>1, <2>2, <1>1, <1>2 DEF Ok, BarsOk
<1>7. AccInv
    <2>1. /\ StaticsOk(acc, received) /\ CountsOk(acc, stream)
          /\ BarsOk(acc, stream, received, Taken)
        BY <1>1 DEF Ok
    <2>2. acc.firstEvent <=> acc.event = <<>>
        BY <2>1 DEF StaticsOk
    <2>3. acc.event # <<>> =>
              /\ acc.first = Stamp(acc.event[1]) /\ acc.last = Stamp(Last(acc.event))
              /\ acc.count = Len(acc.event) /\ acc.sum = Total(Stamps(acc.event)) % Word
        BY <2>1, <1>2 DEF StaticsOk, Stamp
    <2>4. acc.events = Cardinality(Since(Len(stream)))
        BY <2>1, <1>2 DEF CountsOk
    <2>5. ASSUME NEW id \in Range(acc.event), NEW b \in id .. Len(received)
          PROVE  ~IsBarrier(b)
        <3>1. PICK k \in DOMAIN acc.event : id = acc.event[k]
            BY DEF Range
        <3>2. id \in Nat
            BY <3>1, <1>1, EventIs
        <3>3. b \in acc.event[k] .. Taken
            BY <3>1, <3>2, <1>1 DEF Taken
        <3> QED
            BY <3>1, <3>3, <2>1, <1>2 DEF BarsOk
    <2>6. ASSUME acc.event = <<>>, main \in {"run", "full"}, NEW p \in DOMAIN stream,
                 IsEvent(stream[p])
          PROVE  BarrierWithin(Last(stream[p].frags), Len(received))
        <3>1. Within(received, Last(stream[p].frags), Len(received))
            BY <2>6 DEF MadeInv, Closed, Events, IsEvent
        <3> QED
            BY <3>1, <1>2 DEF Within, BarrierWithin
    <2> QED
        BY <2>2, <2>3, <2>4, <2>5, <2>6 DEF AccInv
<1> QED
    BY <1>3, <1>4, <1>5, <1>6, <1>7

-----------------------------------------------------------------------------
(* Steps. *)

\* The command line stays.
LEMMA SameOptions ==
    ASSUME options' = options, NEW k, Ok(acc', stream', received', k), Taken' = k
    PROVE  Ok(acc, stream, received, Taken)'
<1>1. StampsOk(stream', received') => StampsOk(stream, received)'
    BY DEF StampsOk, StampTrue
<1>2. PastOk(stream', received') => PastOk(stream, received)'
    BY DEF PastOk, Good, PartedIn
<1>3. NowOk(acc', stream', received') => NowOk(acc, stream, received)'
    BY DEF NowOk, Good, PartedIn
<1> QED
    BY <1>1, <1>2, <1>3 DEF Ok

\* Initially.
LEMMA MadeInit ==
    ASSUME Init PROVE MadeInv
<1> DEFINE x == Bare("FORMAT")
<1>1. /\ stream = <<x>> /\ received = <<>> /\ acc.event = <<>> /\ acc.firstEvent = TRUE
      /\ acc.events = 0 /\ main = "run" /\ acc.out = <<x>>
    BY DEF Init
<1>2. x \in Items /\ x.type = "FORMAT" /\ x.frags = <<>>
    <2>1. <<>> \in Seq(1 .. MaxInput + 1) /\ 0 \in 0 .. Word - 1
        BY GlomAssumption
    <2> QED
        BY <2>1 DEF Bare, Item, Items, Types
<1> HIDE DEF x
<1>3. /\ stream \in Seq(Items) /\ DOMAIN stream = {1} /\ Len(stream) = 1 /\ stream[1] = x
      /\ received \in Seq(Fragments) /\ Len(received) = 0
    BY <1>1, <1>2
<1>4. acc \in Accumulators
    <2>1. acc = [event |-> <<>>, firstEvent |-> TRUE, first |-> 0, last |-> 0, sum |-> 0,
                 count |-> 0, events |-> 0, nesting |-> 0, firstBarrier |-> TRUE,
                 out |-> <<x>>]
        BY DEF Init, x
    <2>2. 0 \in 0 .. Word - 1 /\ 0 \in 0 .. Unsigned - 1 /\ 0 \in Nat
        BY GlomAssumption
    <2>3. <<>> \in Seq(1 .. MaxInput)
        OBVIOUS
    <2>4. <<x>> \in Seq(Items)
        BY <1>2
    <2> QED
        BY <2>1, <2>2, <2>3, <2>4 DEF Accumulators
<1>5. Taken = 0
    BY <1>1, <1>3 DEF Taken
<1>6. Events(stream) = {}
    BY <1>2, <1>3 DEF Events
<1>7. IdsOk(acc, stream, 0)
    <2>1. DOMAIN x.frags = {} /\ DOMAIN acc.event = {}
        BY <1>1, <1>2
    <2> QED
        BY <2>1, <1>3 DEF IdsOk
<1>8. StaticsOk(acc, received) /\ StampsOk(stream, received) /\ PastOk(stream, received)
      /\ NowOk(acc, stream, received)
    BY <1>1, <1>6 DEF StaticsOk, StampsOk, PastOk, NowOk
<1>9. CountsOk(acc, stream)
    <2>1. SinceIn(stream, 1) = {}
        <3>1. \A q \in 1 .. 1 : q = 1
            OBVIOUS
        <3> QED
            BY <3>1, <1>2, <1>3 DEF SinceIn
    <2>2. stream[1].type # "COUNT"
        BY <1>2, <1>3
    <2> QED
        BY <2>1, <2>2, <1>1, <1>3, FS_EmptySet DEF CountsOk
<1>10. BarsOk(acc, stream, received, 0)
    <2>1. DOMAIN acc.event = {} /\ \A p, q \in DOMAIN stream : ~(p < q)
        BY <1>1, <1>3
    <2> QED
        BY <2>1 DEF BarsOk
<1>11. AllOk(acc, stream, received, 0)
    BY DEF AllOk
<1>12. Closed(acc, stream, received, Len(received))
    BY <1>6 DEF Closed
<1> QED
    BY <1>3, <1>4, <1>5, <1>7, <1>8, <1>9, <1>10, <1>11, <1>12 DEF MadeInv, Ok

\* A fragment is handled.
LEMMA MadeGet ==
    ASSUME TypeOK, MadeInv, GetFragment PROVE MadeInv'
<1> DEFINE n == Len(received)
<1>1. /\ options \in Options /\ stream \in Seq(Items) /\ received \in Seq(Fragments)
      /\ acc \in Accumulators /\ n \in Nat /\ Taken = n
      /\ Ok(acc, stream, received, n) /\ Closed(acc, stream, received, n)
    BY DEF TypeOK, MadeInv, GetFragment, Reading, Taken
<1>2. PICK f \in Fragments : received' = Append(received, f) /\ Becomes(Handle(acc, n + 1, f))
    BY DEF GetFragment
<1>3. /\ received' \in Seq(Fragments) /\ Len(received') = n + 1 /\ received'[n + 1] = f
      /\ \A i \in 1 .. n : i \in DOMAIN received /\ i \in DOMAIN received'
                           /\ received'[i] = received[i]
      /\ n + 1 \in DOMAIN received'
    <2>1. /\ Append(received, f) \in Seq(Fragments) /\ Len(Append(received, f)) = n + 1
          /\ DOMAIN received = 1 .. n /\ DOMAIN Append(received, f) = 1 .. n + 1
          /\ \A i \in 1 .. n : Append(received, f)[i] = received[i]
          /\ Append(received, f)[n + 1] = f
        BY <1>1, AppendIs
    <2> QED
        BY <2>1, <1>1, <1>2
<1>4. n + 1 \in 1 .. MaxInput
    <2>1. n < MaxInput /\ MaxInput \in Nat
        BY GlomAssumption DEF GetFragment
    <2> QED
        BY <2>1, <1>1
<1> HIDE DEF n
<1>5. Alike(received, received', n)
    BY <1>3 DEF Alike
<1>6. With(stream, acc) = stream
    BY <1>1 DEF GetFragment, Reading, With
<1>7. Settled(acc, stream, received', n)
    <2>1. Ok(acc, stream, received', n)
        BY <1>1, <1>3, <1>5, OkLonger
    <2>2. Closed(acc, stream, received', n)
        BY <1>1, <1>5, ClosedLonger
    <2> QED
        BY <2>1, <2>2, <1>6 DEF Settled
<1>8. Settled(Handle(acc, n + 1, received'[n + 1]), stream, received', n + 1)
    BY <1>1, <1>3, <1>4, <1>7, HandleOk
<1>9. acc' = Handle(acc, n + 1, received'[n + 1]) /\ stream' = With(stream, acc')
    BY <1>2, <1>3 DEF Becomes, With
<1>10. Ok(acc', stream', received', n + 1) /\ Closed(acc', stream', received', n + 1)
    BY <1>8, <1>9 DEF Settled
<1>11. main' = main /\ main = "run" /\ options' = options
    BY DEF GetFragment, Reading
<1>12. Taken' = n + 1
    BY <1>3, <1>11, <1>1 DEF Taken
<1>13. Ok(acc, stream, received, Taken)'
    BY <1>10, <1>11, <1>12, SameOptions
<1>14. Closed(acc, stream, received, Len(received))'
    BY <1>3, <1>10 DEF Closed
<1> QED
    BY <1>13, <1>14 DEF MadeInv

\* Nothing is behind the input.
LEMMA Behind ==
    ASSUME NEW r \in Seq(Fragments)
    PROVE  ~Physics(r, Len(r) + 1) /\ ~Bar(r, Len(r) + 1)
<1>1. Len(r) + 1 \notin DOMAIN r
    OBVIOUS
<1> QED
    BY <1>1 DEF Physics, Bar

\* The end of the input.
LEMMA MadeEnd ==
    ASSUME TypeOK, MadeInv, EndOfInput PROVE MadeInv'
<1> DEFINE n == Len(received)
           a == FlushEvent(acc)
<1>1. /\ options \in Options /\ stream \in Seq(Items) /\ received \in Seq(Fragments)
      /\ acc \in Accumulators /\ n \in Nat /\ Taken = n
      /\ Ok(acc, stream, received, n) /\ n <= MaxInput
    BY DEF TypeOK, MadeInv, EndOfInput, Reading, Taken
<1>2. With(stream, acc) = stream
    BY <1>1 DEF EndOfInput, Reading, With
<1>3. Ok(a, With(stream, a), received, n) /\ a.event = <<>>
    BY <1>1, <1>2, EndEvent
<1>4. ~Physics(received, n + 1) /\ ~Bar(received, n + 1)
    BY <1>1, Behind
<1>5. n + 1 \in 1 .. MaxInput + 1
    BY <1>1, GlomAssumption
<1>6. Ok(acc', stream', received, n + 1)
    <2>1. CASE Becomes(a)
        <3>1. stream' = With(stream, a) /\ acc' = a
            BY <2>1 DEF Becomes, With
        <3> HIDE DEF a, n
        <3>2. Ok(a, With(stream, a), received, n + 1)
            BY <1>3, <1>4, OkNext
        <3> QED
            BY <3>1, <3>2
    <2>2. CASE \E kind \in Junk : Becomes(OutputBarrier(a, n + 1, kind))
        <3>1. PICK kind \in Junk : Becomes(OutputBarrier(a, n + 1, kind))
            BY <2>2
        <3> DEFINE b == OutputBarrier(a, n + 1, kind)
        <3>2. stream' = With(stream, b) /\ acc' = b
            BY <3>1 DEF Becomes, With
        <3> HIDE DEF a, n
        <3>3. Ok(b, With(stream, b), received, n + 1)
            BY <1>1, <1>3, <1>4, <1>5, PassOk
        <3> QED
            BY <3>2, <3>3
    <2> QED
        BY <2>1, <2>2 DEF EndOfInput
<1>7. received' = received /\ options' = options /\ main' = "return"
    BY DEF EndOfInput
<1>8. Taken' = n + 1
    BY <1>7 DEF Taken
<1>9. Ok(acc, stream, received, Taken)'
    <2>1. Ok(acc', stream', received', n + 1)
        BY <1>6, <1>7
    <2> QED
        BY <2>1, <1>7, <1>8, SameOptions
<1> QED
    BY <1>7, <1>9 DEF MadeInv

\* Nothing of it changes.
LEMMA MadeStays ==
    ASSUME TypeOK, MadeInv, acc' \in Accumulators, Same(acc', acc), acc'.events = acc.events,
           UNCHANGED <<options, received, stream>>,
           (main' \in {"run", "full"}) <=> (main \in {"run", "full"})
    PROVE  MadeInv'
<1>1. options' = options /\ received' = received /\ stream' = stream
    OBVIOUS
<1>2. Taken' = Taken
    BY <1>1 DEF Taken
<1>3. Ok(acc, stream, received, Taken)
    BY DEF MadeInv
<1>4. Ok(acc', stream, received, Taken)
    BY <1>3, OkSame
<1>5. Ok(acc, stream, received, Taken)'
    <2>1. Ok(acc', stream', received', Taken)
        BY <1>1, <1>4
    <2> QED
        BY <2>1, <1>1, <1>2, SameOptions
<1>6. main' \in {"run", "full"} => Closed(acc, stream, received, Len(received))'
    BY <1>1 DEF MadeInv, Closed, Same
<1> QED
    BY <1>5, <1>6 DEF MadeInv

\* Reading has failed.
LEMMA MadeFails ==
    ASSUME TypeOK, MadeInv, ReadFails PROVE MadeInv'
<1>1. received \in Seq(Fragments) /\ Ok(acc, stream, received, Len(received))
    BY DEF TypeOK, MadeInv, ReadFails, Reading, Taken
<1>2. ~Physics(received, Len(received) + 1) /\ ~Bar(received, Len(received) + 1)
    BY <1>1, Behind
<1>3. Ok(acc, stream, received, Len(received) + 1)
    BY <1>1, <1>2, OkNext
<1>4. /\ received' = received /\ options' = options /\ main' = "return" /\ acc' = acc
      /\ stream' = stream
    BY DEF ReadFails
<1>5. Taken' = Len(received) + 1
    BY <1>4 DEF Taken
<1>6. Ok(acc, stream, received, Taken)'
    <2>1. Ok(acc', stream', received', Len(received) + 1)
        BY <1>3, <1>4
    <2> QED
        BY <2>1, <1>4, <1>5, SameOptions
<1> QED
    BY <1>4, <1>6 DEF MadeInv

-----------------------------------------------------------------------------
(* Between the two threads. *)

\* q is what s has behind place n.
PartIn(s, q, n) == n + Len(q) <= Len(s) /\ \A i \in DOMAIN q : q[i] = s[n + i]

\* Of a longer stream.
LEMMA PartMore ==
    ASSUME NEW s \in Seq(Items), NEW o \in Seq(Items), NEW q \in Seq(Items), NEW n \in Nat,
           PartIn(s, q, n)
    PROVE  PartIn(s \o o, q, n)
<1>1. /\ Len(s \o o) = Len(s) + Len(o) /\ Len(s) \in Nat /\ Len(o) \in Nat /\ Len(q) \in Nat
      /\ DOMAIN q = 1 .. Len(q)
      /\ \A i \in 1 .. Len(s) : (s \o o)[i] = s[i]
    OBVIOUS
<1>2. n + Len(q) <= Len(s \o o)
    BY <1>1 DEF PartIn
<1>3. ASSUME NEW i \in DOMAIN q PROVE q[i] = (s \o o)[n + i]
    <2>1. n + i \in 1 .. Len(s)
        BY <1>1 DEF PartIn
    <2> QED
        BY <2>1, <1>1 DEF PartIn
<1> QED
    BY <1>2, <1>3 DEF PartIn

\* What is appended.
LEMMA PartLast ==
    ASSUME NEW s \in Seq(Items), NEW o \in Seq(Items)
    PROVE  PartIn(s \o o, o, Len(s)) /\ Len(s \o o) = Len(s) + Len(o)
<1>1. /\ Len(s \o o) = Len(s) + Len(o) /\ Len(s) \in Nat /\ Len(o) \in Nat
      /\ DOMAIN o = 1 .. Len(o)
      /\ \A i \in 1 .. Len(o) : (s \o o)[Len(s) + i] = o[i]
    OBVIOUS
<1> QED
    BY <1>1 DEF PartIn

\* Two parts next to one another are one.
LEMMA PartJoin ==
    ASSUME NEW s \in Seq(Items), NEW q \in Seq(Items), NEW o \in Seq(Items), NEW n \in Nat,
           PartIn(s, q, n), PartIn(s, o, n + Len(q))
    PROVE  PartIn(s, q \o o, n) /\ Len(q \o o) = Len(q) + Len(o)
<1>1. /\ Len(q \o o) = Len(q) + Len(o) /\ Len(q) \in Nat /\ Len(o) \in Nat /\ Len(s) \in Nat
      /\ DOMAIN (q \o o) = 1 .. Len(q) + Len(o) /\ DOMAIN o = 1 .. Len(o)
      /\ DOMAIN q = 1 .. Len(q)
      /\ \A i \in 1 .. Len(q) : (q \o o)[i] = q[i]
      /\ \A i \in 1 .. Len(o) : (q \o o)[Len(q) + i] = o[i]
    OBVIOUS
<1>2. n + Len(q \o o) <= Len(s)
    BY <1>1 DEF PartIn
<1>3. ASSUME NEW i \in 1 .. Len(q) + Len(o) PROVE (q \o o)[i] = s[n + i]
    <2>1. CASE i <= Len(q)
        <3>1. i \in 1 .. Len(q)
            BY <1>1, <2>1
        <3> QED
            BY <3>1, <1>1 DEF PartIn
    <2>2. CASE i > Len(q)
        <3>1. PICK j \in 1 .. Len(o) : i = Len(q) + j
            <4>1. i - Len(q) \in 1 .. Len(o) /\ i = Len(q) + (i - Len(q))
                BY <1>1, <2>2
            <4> QED
                BY <4>1
        <3>2. n + i = (n + Len(q)) + j
            BY <3>1, <1>1
        <3>3. o[j] = s[(n + Len(q)) + j]
            BY <3>1, <1>1 DEF PartIn
        <3> QED
            BY <3>1, <3>2, <3>3, <1>1
    <2> QED
        BY <2>1, <2>2, <1>1
<1> QED
    BY <1>1, <1>2, <1>3 DEF PartIn

\* One part is two.
LEMMA PartCut ==
    ASSUME NEW s \in Seq(Items), NEW q \in Seq(Items), NEW n \in Nat,
           NEW k \in 0 .. Len(q), PartIn(s, q, n)
    PROVE  LET head == SubSeq(q, 1, k)  tail == SubSeq(q, k + 1, Len(q))
           IN  /\ head \in Seq(Items) /\ tail \in Seq(Items)
               /\ PartIn(s, head, n) /\ PartIn(s, tail, n + k)
               /\ Len(head) = k /\ Len(tail) = Len(q) - k
<1> DEFINE head == SubSeq(q, 1, k)
           tail == SubSeq(q, k + 1, Len(q))
<1>1. Len(q) \in Nat /\ k \in Nat /\ k <= Len(q) /\ DOMAIN q = 1 .. Len(q) /\ Len(s) \in Nat
    OBVIOUS
<1>2. /\ head \in Seq(Items) /\ Len(head) = k /\ DOMAIN head = 1 .. k
      /\ \A i \in 1 .. k : head[i] = q[i]
    <2>1. head = [i \in 1 .. k |-> q[i]]
        BY <1>1
    <2>2. \A i \in 1 .. k : q[i] \in Items
        BY <1>1
    <2> QED
        BY <2>1, <2>2, <1>1
<1>3. /\ tail \in Seq(Items) /\ Len(tail) = Len(q) - k /\ DOMAIN tail = 1 .. Len(q) - k
      /\ \A i \in 1 .. Len(q) - k : tail[i] = q[k + i]
    <2>1. tail = [i \in 1 .. Len(q) - k |-> q[k + i]]
        BY <1>1
    <2>2. \A i \in 1 .. Len(q) - k : q[k + i] \in Items
        BY <1>1
    <2>3. Len(q) - k \in Nat
        BY <1>1
    <2> DEFINE m == Len(q) - k
    <2> HIDE DEF m, tail
    <2>4. tail \in Seq(Items) /\ Len(tail) = m
        <3>1. tail = [i \in 1 .. m |-> q[k + i]] /\ m \in Nat
            BY <2>1, <2>3 DEF m
        <3>2. \A i \in 1 .. m : q[k + i] \in Items
            BY <2>2 DEF m
        <3> QED
            BY <3>1, <3>2
    <2> QED
        BY <2>1, <2>3, <2>4 DEF m
<1> HIDE DEF head, tail
<1>4. PartIn(s, head, n)
    <2>1. n + k <= Len(s)
        BY <1>1 DEF PartIn
    <2>2. ASSUME NEW i \in 1 .. k PROVE head[i] = s[n + i]
        <3>1. i \in 1 .. Len(q)
            BY <1>1
        <3> QED
            BY <3>1, <1>1, <1>2 DEF PartIn
    <2> QED
        BY <2>1, <2>2, <1>2 DEF PartIn
<1>5. PartIn(s, tail, n + k)
    <2>1. (n + k) + (Len(q) - k) <= Len(s)
        BY <1>1 DEF PartIn
    <2>2. ASSUME NEW i \in 1 .. Len(q) - k PROVE tail[i] = s[(n + k) + i]
        <3>1. k + i \in 1 .. Len(q) /\ n + (k + i) = (n + k) + i
            BY <1>1
        <3>2. q[k + i] = s[n + (k + i)]
            BY <3>1, <1>1 DEF PartIn
        <3> QED
            BY <3>1, <3>2, <1>3
    <2> QED
        BY <2>1, <2>2, <1>3 DEF PartIn
<1> QED
    BY <1>2, <1>3, <1>4, <1>5 DEF head, tail

\* Nothing is part of everything.
LEMMA PartNone ==
    ASSUME NEW s \in Seq(Items), NEW n \in 0 .. Len(s)
    PROVE  PartIn(s, <<>>, n)
BY DEF PartIn

\* An item and a part.
LEMMA PartTail ==
    ASSUME NEW s \in Seq(Items), NEW q \in Seq(Items), NEW n \in Nat, q # <<>>,
           PartIn(s, q, n)
    PROVE  /\ Head(q) \in Items /\ Tail(q) \in Seq(Items) /\ Len(Tail(q)) = Len(q) - 1
           /\ Len(q) \in Nat /\ Len(q) >= 1 /\ Len(s) \in Nat
           /\ n + 1 <= Len(s) /\ Head(q) = s[n + 1] /\ PartIn(s, Tail(q), n + 1)
<1>1. /\ Head(q) \in Items /\ Tail(q) \in Seq(Items) /\ Len(Tail(q)) = Len(q) - 1
      /\ Len(q) \in Nat /\ Len(q) >= 1 /\ DOMAIN q = 1 .. Len(q) /\ Head(q) = q[1]
      /\ DOMAIN Tail(q) = 1 .. Len(q) - 1 /\ Len(s) \in Nat
      /\ \A i \in 1 .. Len(q) - 1 : Tail(q)[i] = q[i + 1]
    OBVIOUS
<1>2. n + 1 <= Len(s) /\ q[1] = s[n + 1]
    BY <1>1 DEF PartIn
<1>3. PartIn(s, Tail(q), n + 1)
    <2>1. (n + 1) + (Len(q) - 1) <= Len(s)
        BY <1>1 DEF PartIn
    <2>2. ASSUME NEW i \in 1 .. Len(q) - 1 PROVE Tail(q)[i] = s[(n + 1) + i]
        <3>1. i + 1 \in 1 .. Len(q) /\ n + (i + 1) = (n + 1) + i
            BY <1>1
        <3>2. q[i + 1] = s[n + (i + 1)]
            BY <3>1, <1>1 DEF PartIn
        <3> QED
            BY <3>1, <3>2, <1>1
    <2> QED
        BY <2>1, <2>2, <1>1 DEF PartIn
<1> QED
    BY <1>1, <1>2, <1>3

\* An item more.
LEMMA PartAppend ==
    ASSUME NEW s \in Seq(Items), NEW q \in Seq(Items), NEW n \in Nat, NEW x,
           PartIn(s, q, n), n + Len(q) + 1 <= Len(s), x = s[n + Len(q) + 1], x \in Items
    PROVE  PartIn(s, Append(q, x), n)
<1>1. /\ Len(Append(q, x)) = Len(q) + 1 /\ Len(q) \in Nat /\ DOMAIN q = 1 .. Len(q)
      /\ DOMAIN Append(q, x) = 1 .. Len(q) + 1
      /\ \A i \in 1 .. Len(q) : Append(q, x)[i] = q[i]
      /\ Append(q, x)[Len(q) + 1] = x
    BY AppendIs
<1>2. ASSUME NEW i \in 1 .. Len(q) + 1 PROVE Append(q, x)[i] = s[n + i]
    <2>1. CASE i = Len(q) + 1
        <3>1. n + i = n + Len(q) + 1
            BY <2>1, <1>1
        <3> QED
            BY <3>1, <2>1, <1>1
    <2>2. CASE i # Len(q) + 1
        <3>1. i \in 1 .. Len(q)
            BY <2>2, <1>1
        <3> QED
            BY <3>1, <1>1 DEF PartIn
    <2> QED
        BY <2>1, <2>2
<1>3. Len(s) \in Nat /\ n + (Len(q) + 1) <= Len(s)
    BY <1>1
<1> QED
    BY <1>1, <1>2, <1>3 DEF PartIn

\* The sequences of the two threads, in the order of the stream.
StartIn(wr, h, e, k) == IF k = 1 THEN Len(wr) + Len(h) ELSE e[k - 1]
Typed(st, wr, h, qs, e, buf, out) ==
    /\ st \in Seq(Items) /\ wr \in Seq(Items) /\ h \in Seq(Items)
    /\ qs \in Seq(Seq(Items)) /\ e \in Seq(Nat)
    /\ buf \in Seq(Items) /\ out \in Seq(Items)
InTurn(st, wr, h, qs, e) ==
    /\ PartIn(st, wr, 0) /\ PartIn(st, h, Len(wr)) /\ Len(e) = Len(qs)
    /\ \A k \in 1 .. Len(qs) : /\ PartIn(st, qs[k], StartIn(wr, h, e, k))
                               /\ e[k] = StartIn(wr, h, e, k) + Len(qs[k])
AtEnd(st, n, buf, out) ==
    PartIn(st, buf, n) /\ PartIn(st, out, n + Len(buf)) /\ n + Len(buf) + Len(out) = Len(st)
Kept(st, wr, h, qs, e, buf, out) ==
    /\ Typed(st, wr, h, qs, e, buf, out) /\ InTurn(st, wr, h, qs, e)
    /\ AtEnd(st, StartIn(wr, h, e, Len(qs) + 1), buf, out)

\* Where a buffer starts.
LEMMA StartsIn ==
    ASSUME NEW wr \in Seq(Items), NEW h \in Seq(Items), NEW e \in Seq(Nat),
           NEW k \in 1 .. Len(e) + 1
    PROVE  StartIn(wr, h, e, k) \in Nat
<1>1. k = 1 \/ k - 1 \in 1 .. Len(e)
    OBVIOUS
<1> QED
    BY <1>1 DEF StartIn

\* The stream grows by what is to be put.
LEMMA KeptMade ==
    ASSUME NEW st, NEW wr, NEW h, NEW qs, NEW e, NEW buf, NEW o \in Seq(Items),
           Kept(st, wr, h, qs, e, buf, <<>>)
    PROVE  Kept(st \o o, wr, h, qs, e, buf, o)
<1> DEFINE n == StartIn(wr, h, e, Len(qs) + 1)
<1>1. /\ st \in Seq(Items) /\ wr \in Seq(Items) /\ h \in Seq(Items) /\ qs \in Seq(Seq(Items))
      /\ e \in Seq(Nat) /\ buf \in Seq(Items) /\ st \o o \in Seq(Items)
      /\ Len(wr) \in Nat /\ Len(qs) \in Nat /\ Len(e) = Len(qs) /\ Len(buf) \in Nat
    BY DEF Kept, Typed, InTurn
<1>2. PartIn(st \o o, wr, 0) /\ PartIn(st \o o, h, Len(wr))
    <2>1. PartIn(st, wr, 0) /\ PartIn(st, h, Len(wr)) /\ 0 \in Nat
        BY DEF Kept, InTurn
    <2> QED
        BY <2>1, <1>1, PartMore
<1>3. ASSUME NEW k \in 1 .. Len(qs) PROVE PartIn(st \o o, qs[k], StartIn(wr, h, e, k))
    <2>1. k \in 1 .. Len(e) + 1 /\ qs[k] \in Seq(Items)
        BY <1>1
    <2>2. StartIn(wr, h, e, k) \in Nat
        BY <2>1, <1>1, StartsIn
    <2>3. PartIn(st, qs[k], StartIn(wr, h, e, k))
        BY DEF Kept, InTurn
    <2> QED
        BY <2>1, <2>2, <2>3, <1>1, PartMore
<1>4. n \in Nat
    BY <1>1, StartsIn
<1> HIDE DEF n
<1>5. PartIn(st, buf, n) /\ n + Len(buf) = Len(st)
    <2>1. PartIn(st, buf, n) /\ n + Len(buf) + Len(<<>>) = Len(st)
        BY DEF Kept, AtEnd, n
    <2> QED
        BY <2>1, <1>1, <1>4
<1>6. /\ PartIn(st \o o, buf, n) /\ PartIn(st \o o, o, n + Len(buf))
      /\ n + Len(buf) + Len(o) = Len(st \o o)
    BY <1>1, <1>4, <1>5, PartMore, PartLast, ZenonT(60)
<1> QED
    BY <1>1, <1>2, <1>3, <1>6 DEF Kept, Typed, InTurn, AtEnd, n

\* Some of the buffer in hand is written.
LEMMA KeptWritten ==
    ASSUME NEW st, NEW wr, NEW h, NEW qs, NEW e, NEW buf, NEW out, NEW k \in 0 .. Len(h),
           Kept(st, wr, h, qs, e, buf, out)
    PROVE  Kept(st, wr \o SubSeq(h, 1, k), SubSeq(h, k + 1, Len(h)), qs, e, buf, out)
<1> DEFINE head == SubSeq(h, 1, k)
           tail == SubSeq(h, k + 1, Len(h))
<1>1. /\ st \in Seq(Items) /\ wr \in Seq(Items) /\ h \in Seq(Items)
      /\ Len(wr) \in Nat /\ Len(h) \in Nat /\ k \in Nat
      /\ PartIn(st, wr, 0) /\ PartIn(st, h, Len(wr)) /\ 0 + Len(wr) = Len(wr)
    BY DEF Kept, Typed, InTurn
<1>2. /\ head \in Seq(Items) /\ tail \in Seq(Items)
      /\ PartIn(st, head, Len(wr)) /\ PartIn(st, tail, Len(wr) + k)
      /\ Len(head) = k /\ Len(tail) = Len(h) - k
    BY <1>1, PartCut
<1> HIDE DEF head, tail
<1>3. /\ wr \o head \in Seq(Items) /\ PartIn(st, wr \o head, 0)
      /\ Len(wr \o head) = Len(wr) + k
    <2>1. PartIn(st, head, 0 + Len(wr)) /\ 0 \in Nat
        BY <1>1, <1>2
    <2>2. PartIn(st, wr \o head, 0) /\ Len(wr \o head) = Len(wr) + Len(head)
        BY <2>1, <1>1, <1>2, PartJoin
    <2> QED
        BY <2>2, <1>1, <1>2
<1>4. Len(wr \o head) + Len(tail) = Len(wr) + Len(h)
    BY <1>1, <1>2, <1>3
<1>5. \A i : StartIn(wr \o head, tail, e, i) = StartIn(wr, h, e, i)
    BY <1>4 DEF StartIn
<1>6. InTurn(st, wr \o head, tail, qs, e)
    BY <1>2, <1>3, <1>5 DEF Kept, InTurn
<1> QED
    BY <1>2, <1>3, <1>5, <1>6 DEF Kept, Typed, head, tail

\* The first buffer queued is taken.
LEMMA KeptTaken ==
    ASSUME NEW st, NEW wr, NEW qs, NEW e, NEW buf, NEW out, qs # <<>>,
           Kept(st, wr, <<>>, qs, e, buf, out)
    PROVE  Kept(st, wr, Head(qs), Tail(qs), Tail(e), buf, out)
<1> DEFINE h == Head(qs)  m == Len(qs)
<1>1. /\ st \in Seq(Items) /\ wr \in Seq(Items) /\ qs \in Seq(Seq(Items)) /\ e \in Seq(Nat)
      /\ m \in Nat /\ m >= 1 /\ Len(e) = m /\ Len(wr) \in Nat
    BY DEF Kept, Typed, InTurn
<1>2. /\ h \in Seq(Items) /\ h = qs[1] /\ Tail(qs) \in Seq(Seq(Items))
      /\ Len(Tail(qs)) = m - 1 /\ \A k \in 1 .. m - 1 : Tail(qs)[k] = qs[k + 1]
      /\ Tail(e) \in Seq(Nat) /\ Len(Tail(e)) = m - 1
      /\ \A k \in 1 .. m - 1 : Tail(e)[k] = e[k + 1]
    BY <1>1
<1> HIDE DEF h, m
<1>3. \A k \in 1 .. m : /\ PartIn(st, qs[k], StartIn(wr, <<>>, e, k))
                        /\ e[k] = StartIn(wr, <<>>, e, k) + Len(qs[k])
    BY DEF Kept, InTurn, m
<1>4. StartIn(wr, <<>>, e, 1) = Len(wr)
    BY <1>1 DEF StartIn
<1>5. PartIn(st, h, Len(wr)) /\ e[1] = Len(wr) + Len(h)
    BY <1>1, <1>2, <1>3, <1>4
<1>6. ASSUME NEW k \in 1 .. m PROVE StartIn(wr, h, Tail(e), k) = StartIn(wr, <<>>, e, k + 1)
    <2>1. StartIn(wr, <<>>, e, k + 1) = e[k]
        BY <1>1 DEF StartIn
    <2>2. CASE k = 1
        BY <2>1, <2>2, <1>5 DEF StartIn
    <2>3. CASE k # 1
        <3>1. k - 1 \in 1 .. m - 1 /\ (k - 1) + 1 = k
            BY <2>3, <1>1
        <3>2. Tail(e)[k - 1] = e[k]
            BY <3>1, <1>2
        <3> QED
            BY <3>2, <2>1, <2>3 DEF StartIn
    <2> QED
        BY <2>2, <2>3
<1>7. ASSUME NEW k \in 1 .. m - 1
      PROVE  /\ PartIn(st, Tail(qs)[k], StartIn(wr, h, Tail(e), k))
             /\ Tail(e)[k] = StartIn(wr, h, Tail(e), k) + Len(Tail(qs)[k])
    <2>1. k \in 1 .. m /\ k + 1 \in 1 .. m
        BY <1>1
    <2> QED
        BY <2>1, <1>2, <1>3, <1>6
<1>8. InTurn(st, wr, h, Tail(qs), Tail(e))
    BY <1>2, <1>5, <1>7 DEF Kept, InTurn
<1>9. StartIn(wr, h, Tail(e), Len(Tail(qs)) + 1) = StartIn(wr, <<>>, e, m + 1)
    <2>1. Len(Tail(qs)) + 1 = m /\ m \in 1 .. m
        BY <1>1, <1>2
    <2> QED
        BY <2>1, <1>6
<1> QED
    BY <1>2, <1>8, <1>9 DEF Kept, Typed, h, m

\* An item is put into the buffer.
LEMMA KeptPut ==
    ASSUME NEW st, NEW wr, NEW h, NEW qs, NEW e, NEW buf, NEW out, out # <<>>,
           Kept(st, wr, h, qs, e, buf, out)
    PROVE  Kept(st, wr, h, qs, e, Append(buf, Head(out)), Tail(out))
<1> DEFINE n == StartIn(wr, h, e, Len(qs) + 1)
<1>1. /\ st \in Seq(Items) /\ wr \in Seq(Items) /\ h \in Seq(Items) /\ qs \in Seq(Seq(Items))
      /\ e \in Seq(Nat) /\ buf \in Seq(Items) /\ out \in Seq(Items)
      /\ Len(qs) \in Nat /\ Len(e) = Len(qs) /\ Len(buf) \in Nat
    BY DEF Kept, Typed, InTurn
<1>2. n \in Nat
    BY <1>1, StartsIn
<1> HIDE DEF n
<1>3. /\ PartIn(st, buf, n) /\ PartIn(st, out, n + Len(buf))
      /\ n + Len(buf) + Len(out) = Len(st) /\ n + Len(buf) \in Nat
    BY <1>1, <1>2 DEF Kept, AtEnd, n
<1>4. /\ Head(out) \in Items /\ Tail(out) \in Seq(Items) /\ Len(Tail(out)) = Len(out) - 1
      /\ Len(out) \in Nat /\ Len(out) >= 1 /\ Len(st) \in Nat
      /\ n + Len(buf) + 1 <= Len(st) /\ Head(out) = st[n + Len(buf) + 1]
      /\ PartIn(st, Tail(out), n + Len(buf) + 1)
    <2> DEFINE k == n + Len(buf)
    <2>1. k \in Nat /\ PartIn(st, out, k)
        BY <1>3
    <2> HIDE DEF k
    <2>2. /\ Head(out) \in Items /\ Tail(out) \in Seq(Items)
          /\ Len(Tail(out)) = Len(out) - 1
          /\ Len(out) \in Nat /\ Len(out) >= 1 /\ Len(st) \in Nat
          /\ k + 1 <= Len(st) /\ Head(out) = st[k + 1]
          /\ PartIn(st, Tail(out), k + 1)
        BY <2>1, <1>1, PartTail
    <2> QED
        BY <2>2 DEF k
<1>5. PartIn(st, Append(buf, Head(out)), n)
    BY <1>1, <1>2, <1>3, <1>4, PartAppend
<1>6. Append(buf, Head(out)) \in Seq(Items) /\ Len(Append(buf, Head(out))) = Len(buf) + 1
    BY <1>1, <1>4, AppendIs
<1>7. /\ n + (Len(buf) + 1) = n + Len(buf) + 1
      /\ n + (Len(buf) + 1) + (Len(out) - 1) = Len(st)
    <2>1. /\ Len(buf) \in Nat /\ Len(out) \in Nat /\ Len(st) \in Nat
          /\ n + Len(buf) + Len(out) = Len(st)
        BY <1>1, <1>3, <1>4
    <2> QED
        BY <2>1, <1>2
<1> QED
    BY <1>1, <1>4, <1>5, <1>6, <1>7 DEF Kept, Typed, AtEnd, n

\* The buffer is queued.
LEMMA KeptQueued ==
    ASSUME NEW st, NEW wr, NEW h, NEW qs, NEW e, NEW buf, NEW out,
           Kept(st, wr, h, qs, e, buf, out)
    PROVE  Kept(st, wr, h, Append(qs, buf), Append(e, Len(st) - Len(out)), <<>>, out)
<1> DEFINE m == Len(qs)
           n == StartIn(wr, h, e, m + 1)
           x == Len(st) - Len(out)
           qx == Append(qs, buf)
           ex == Append(e, x)
<1>1. /\ st \in Seq(Items) /\ wr \in Seq(Items) /\ h \in Seq(Items) /\ qs \in Seq(Seq(Items))
      /\ e \in Seq(Nat) /\ buf \in Seq(Items) /\ out \in Seq(Items)
      /\ m \in Nat /\ Len(e) = m /\ Len(buf) \in Nat /\ Len(out) \in Nat /\ Len(st) \in Nat
    BY DEF Kept, Typed, InTurn
<1>2. n \in Nat
    BY <1>1, StartsIn
<1>3. /\ PartIn(st, buf, n) /\ PartIn(st, out, n + Len(buf))
      /\ n + Len(buf) + Len(out) = Len(st)
    BY DEF Kept, AtEnd
<1> HIDE DEF n
<1>4. x = n + Len(buf) /\ x \in Nat /\ x \in 0 .. Len(st)
    BY <1>1, <1>2, <1>3
<1> HIDE DEF x, m
<1>5. /\ qx \in Seq(Seq(Items)) /\ Len(qx) = m + 1 /\ qx[m + 1] = buf
      /\ \A k \in 1 .. m : qx[k] = qs[k]
    BY <1>1, AppendIs DEF m
<1>6. /\ ex \in Seq(Nat) /\ Len(ex) = m + 1 /\ ex[m + 1] = x
      /\ \A k \in 1 .. m : ex[k] = e[k]
    BY <1>1, <1>4, AppendIs
<1> HIDE DEF qx, ex
<1>7. ASSUME NEW k \in 1 .. m + 1 PROVE StartIn(wr, h, ex, k) = StartIn(wr, h, e, k)
    <2>1. k = 1 \/ k - 1 \in 1 .. m
        BY <1>1
    <2> QED
        BY <2>1, <1>6 DEF StartIn
<1>8. StartIn(wr, h, ex, (m + 1) + 1) = x
    <2>1. (m + 1) + 1 # 1 /\ ((m + 1) + 1) - 1 = m + 1
        BY <1>1
    <2> QED
        BY <2>1, <1>6 DEF StartIn
<1>9. \A k \in 1 .. m : /\ PartIn(st, qs[k], StartIn(wr, h, e, k))
                        /\ e[k] = StartIn(wr, h, e, k) + Len(qs[k])
    BY DEF Kept, InTurn, m
<1>10. ASSUME NEW k \in 1 .. m + 1
       PROVE  /\ PartIn(st, qx[k], StartIn(wr, h, ex, k))
              /\ ex[k] = StartIn(wr, h, ex, k) + Len(qx[k])
    <2>1. CASE k = m + 1
        BY <2>1, <1>3, <1>4, <1>5, <1>6, <1>7 DEF n
    <2>2. CASE k # m + 1
        <3>1. k \in 1 .. m
            BY <2>2, <1>1
        <3> QED
            BY <3>1, <1>5, <1>6, <1>7, <1>9
    <2> QED
        BY <2>1, <2>2
<1>11. InTurn(st, wr, h, qx, ex)
    BY <1>5, <1>6, <1>10 DEF Kept, InTurn
<1>12. AtEnd(st, x, <<>>, out)
    <2>1. PartIn(st, <<>>, x)
        BY <1>1, <1>4, PartNone
    <2>2. x + 0 = x /\ x + 0 + Len(out) = Len(st) /\ Len(<<>>) = 0
        BY <1>1, <1>2, <1>3, <1>4
    <2>3. PartIn(st, out, x + 0)
        BY <2>2, <1>3, <1>4
    <2> QED
        BY <2>1, <2>2, <2>3 DEF AtEnd
<1>13. <<>> \in Seq(Items)
    OBVIOUS
<1> QED
    BY <1>1, <1>5, <1>6, <1>8, <1>11, <1>12, <1>13 DEF Kept, Typed, qx, ex, x

-----------------------------------------------------------------------------
(* The invariant. *)

\* What is between the threads, of this state and of the next.
StreamTyped == Typed(stream, written, hand, queued, ends, buffer, acc.out)
StreamIs == Kept(stream, written, hand, queued, ends, buffer, acc.out)

\* StreamKept says what Kept says of this state.
LEMMA KeptIs ==
    ASSUME StreamTyped PROVE StreamKept <=> StreamIs
<1>1. \A q, n : Part(q, n) <=> PartIn(stream, q, n)
    BY DEF Part, PartIn
<1>2. \A k : Start(k) = StartIn(written, hand, ends, k)
    BY DEF Start, StartIn
<1>3. DOMAIN queued = 1 .. Len(queued)
    BY DEF StreamTyped, Typed
<1> QED
    BY <1>1, <1>2, <1>3 DEF StreamKept, StreamIs, StreamTyped, Kept, InTurn, AtEnd

\* And of the next.
LEMMA KeptNext ==
    ASSUME StreamTyped' PROVE StreamKept' <=> StreamIs'
<1>1. \A q, n : Part(q, n)' <=> PartIn(stream', q, n)
    BY DEF Part, PartIn
<1>2. \A k : Start(k)' = StartIn(written', hand', ends', k)
    BY DEF Start, StartIn
<1>3. DOMAIN queued' = 1 .. Len(queued')
    BY DEF StreamTyped, Typed
<1> QED
    BY <1>1, <1>2, <1>3 DEF StreamKept, StreamIs, StreamTyped, Kept, InTurn, AtEnd,
        Part, Start, PartIn, StartIn

\* The inductive invariant.
GlomIInv == TypeOK /\ BuffersKept /\ StreamKept /\ MadeInv

\* Where main waits for a buffer.
LEMMA MainIs ==
    /\ DOMAIN Waiting = {"run", "return"} /\ DOMAIN Resumed = {"full", "fullReturn"}
    /\ Waiting["run"] = "full" /\ Waiting["return"] = "fullReturn"
    /\ Resumed["full"] = "run" /\ Resumed["fullReturn"] = "return"
BY DEF Waiting, Resumed

\* The streams have their types.
LEMMA TypedIs ==
    ASSUME TypeOK PROVE StreamTyped
<1>1. acc.out \in Seq(Items)
    BY DEF TypeOK, Accumulators
<1> QED
    BY <1>1 DEF TypeOK, StreamTyped, Typed

\* The events are the accumulator's.
LEMMA PutIs ==
    ASSUME TypeOK, PutItem
    PROVE  /\ acc' \in Accumulators /\ Same(acc', acc) /\ acc'.events = acc.events
           /\ acc.out # <<>> /\ acc'.out = Tail(acc.out)
<1>1. acc \in Accumulators /\ acc.out \in Seq(Items) /\ acc.out # <<>>
    BY DEF TypeOK, Accumulators, PutItem, Putting
<1>2. Tail(acc.out) \in Seq(Items)
    BY <1>1
<1>3. acc' = [acc EXCEPT !.out = Tail(acc.out)]
    BY <1>1 DEF PutItem, Accumulators
<1> QED
    BY <1>1, <1>2, <1>3 DEF Accumulators, Same

-----------------------------------------------------------------------------
(* Of the events. *)

\* Every step keeps what is known of the events.
LEMMA MadeStep ==
    ASSUME TypeOK, MadeInv, [Next]_vars PROVE MadeInv'
<1>1. CASE GetFragment
    BY <1>1, MadeGet
<1>2. CASE EndOfInput
    BY <1>2, MadeEnd
<1>3. CASE ReadFails
    BY <1>3, MadeFails
<1> DEFINE Stays == /\ acc' = acc /\ options' = options /\ received' = received
                    /\ stream' = stream
                    /\ (main' \in {"run", "full"}) <=> (main \in {"run", "full"})
<1>4. CASE PutItem
    <2>1. UNCHANGED <<options, received, stream>>
        BY <1>4 DEF PutItem
    <2>2. (main' \in {"run", "full"}) <=> (main \in {"run", "full"})
        BY <1>4, MainIs DEF PutItem, Putting, Flush
    <2>3. acc' \in Accumulators /\ Same(acc', acc) /\ acc'.events = acc.events
        BY <1>4, PutIs
    <2> QED
        BY <2>1, <2>2, <2>3, MadeStays
<1>5. ASSUME Stays PROVE MadeInv'
    <2>1. acc' \in Accumulators /\ Same(acc', acc) /\ acc'.events = acc.events
        BY <1>5 DEF TypeOK, Same
    <2>2. UNCHANGED <<options, received, stream>>
        BY <1>5
    <2>3. (main' \in {"run", "full"}) <=> (main \in {"run", "full"})
        BY <1>5
    <2> QED
        BY <2>1, <2>2, <2>3, MadeStays
<1>6. CASE Exit
    <2>1. Stays
        BY <1>6 DEF Exit
    <2> QED
        BY <2>1, <1>5
<1>7. CASE GetFreeBuffer
    <2>1. Stays
        BY <1>7, MainIs DEF GetFreeBuffer
    <2> QED
        BY <2>1, <1>5
<1>8. CASE GetQueuedBuffer
    <2>1. Stays
        BY <1>8 DEF GetQueuedBuffer
    <2> QED
        BY <2>1, <1>5
<1>9. CASE WriteBuffer
    <2>1. Stays
        BY <1>9 DEF WriteBuffer
    <2> QED
        BY <2>1, <1>5
<1>10. CASE WriteFails
    <2>1. Stays
        BY <1>10 DEF WriteFails
    <2> QED
        BY <2>1, <1>5
<1>11. CASE UNCHANGED vars
    <2>1. Stays
        BY <1>11 DEF vars
    <2> QED
        BY <2>1, <1>5
<1> QED
    BY <1>1, <1>2, <1>3, <1>4, <1>6, <1>7, <1>8, <1>9, <1>10, <1>11
       DEF Next, MainOutputs, WriterOutputs

-----------------------------------------------------------------------------
(* Of the stream. *)

\* io::writeData, of the whole buffer or of some of it.
LEMMA StreamWritten ==
    ASSUME StreamIs, WriteSome, acc' = acc, UNCHANGED <<stream, queued, ends, buffer>>
    PROVE  StreamIs'
<1>1. PICK k \in 0 .. Len(hand) : /\ written' = written \o SubSeq(hand, 1, k)
                                  /\ hand' = SubSeq(hand, k + 1, Len(hand))
    BY DEF WriteSome
<1>2. Kept(stream, written \o SubSeq(hand, 1, k), SubSeq(hand, k + 1, Len(hand)), queued,
           ends, buffer, acc.out)
    BY KeptWritten DEF StreamIs
<1> QED
    BY <1>1, <1>2 DEF StreamIs

\* Every step keeps the stream in its order between the threads.
LEMMA StreamStep ==
    ASSUME TypeOK, BuffersKept, StreamIs, MadeInv', [Next]_vars PROVE StreamIs'
<1>1. acc' \in Accumulators /\ acc'.out \in Seq(Items)
    BY DEF MadeInv, Ok, Accumulators
<1>2. ASSUME NEW a, Becomes(a), acc.out = <<>>, UNCHANGED output PROVE StreamIs'
    <2>1. Kept(stream, written, hand, queued, ends, buffer, <<>>)
        BY <1>2 DEF StreamIs
    <2>2. Kept(stream \o acc'.out, written, hand, queued, ends, buffer, acc'.out)
        BY <2>1, <1>1, KeptMade
    <2>3. stream' = stream \o acc'.out
        BY <1>2 DEF Becomes
    <2>4. /\ written' = written /\ hand' = hand /\ queued' = queued /\ ends' = ends
          /\ buffer' = buffer
        BY <1>2 DEF output
    <2> QED
        BY <2>2, <2>3, <2>4 DEF StreamIs
<1>3. CASE GetFragment
    <2>1. PICK f \in Fragments : Becomes(Handle(acc, Len(received) + 1, f))
        BY <1>3 DEF GetFragment
    <2> QED
        BY <2>1, <1>2, <1>3 DEF GetFragment, Reading
<1>4. CASE EndOfInput
    <2>1. PICK a : Becomes(a)
        BY <1>4 DEF EndOfInput
    <2> QED
        BY <2>1, <1>2, <1>4 DEF EndOfInput, Reading
<1>5. CASE ReadFails \/ GetFreeBuffer \/ UNCHANGED vars
    <2>1. /\ stream' = stream /\ written' = written /\ hand' = hand /\ queued' = queued
          /\ ends' = ends /\ buffer' = buffer /\ acc' = acc
        BY <1>5 DEF ReadFails, GetFreeBuffer, vars, output
    <2> QED
        BY <2>1 DEF StreamIs
<1>6. CASE Exit \/ WriteFails
    <2>1. WriteSome /\ acc' = acc /\ UNCHANGED <<stream, queued, ends, buffer>>
        BY <1>6 DEF Exit, WriteFails
    <2> QED
        BY <2>1, StreamWritten
<1>7. CASE WriteBuffer
    <2>1. hand \in Seq(Items) /\ Len(hand) \in 0 .. Len(hand)
        BY DEF TypeOK
    <2>2. SubSeq(hand, 1, Len(hand)) = hand /\ SubSeq(hand, Len(hand) + 1, Len(hand)) = <<>>
        BY <2>1
    <2>3. WriteSome
        <3>1. /\ written' = written \o SubSeq(hand, 1, Len(hand))
              /\ hand' = SubSeq(hand, Len(hand) + 1, Len(hand))
            BY <2>2, <1>7 DEF WriteBuffer
        <3> QED
            BY <3>1, <2>1 DEF WriteSome
    <2>4. acc' = acc /\ UNCHANGED <<stream, queued, ends, buffer>>
        BY <1>7 DEF WriteBuffer
    <2> QED
        BY <2>3, <2>4, StreamWritten
<1>8. CASE GetQueuedBuffer
    <2>1. hand = <<>> /\ queued # <<>>
        BY <1>8 DEF GetQueuedBuffer, BuffersKept
    <2>2. Kept(stream, written, Head(queued), Tail(queued), Tail(ends), buffer, acc.out)
        BY <2>1, KeptTaken DEF StreamIs
    <2>3. /\ stream' = stream /\ written' = written /\ hand' = Head(queued)
          /\ queued' = Tail(queued) /\ ends' = Tail(ends) /\ buffer' = buffer /\ acc' = acc
        BY <1>8 DEF GetQueuedBuffer
    <2> QED
        BY <2>2, <2>3 DEF StreamIs
<1>9. CASE PutItem
    <2> DEFINE items == Append(buffer, Head(acc.out))
    <2>1. acc.out # <<>> /\ acc'.out = Tail(acc.out)
        BY <1>9, PutIs
    <2>2. Kept(stream, written, hand, queued, ends, items, acc'.out)
        BY <2>1, KeptPut DEF StreamIs
    <2>3. /\ stream' = stream /\ written' = written /\ hand' = hand
          /\ \/ Flush(items)
             \/ buffer' = items /\ queued' = queued /\ ends' = ends
        BY <1>9 DEF PutItem
    <2> HIDE DEF items
    <2>4. CASE Flush(items)
        <3>1. Kept(stream, written, hand, Append(queued, items),
                   Append(ends, Len(stream) - Len(acc'.out)), <<>>, acc'.out)
            BY <2>2, KeptQueued
        <3> QED
            BY <3>1, <2>3, <2>4 DEF StreamIs, Flush
    <2>5. CASE buffer' = items /\ queued' = queued /\ ends' = ends
        BY <2>2, <2>3, <2>5 DEF StreamIs
    <2> QED
        BY <2>3, <2>4, <2>5
<1> QED
    BY <1>3, <1>4, <1>5, <1>6, <1>7, <1>8, <1>9 DEF Next, MainOutputs, WriterOutputs

-----------------------------------------------------------------------------
(* Of the pool. *)

\* BuffersKept, with main's places spelled out.
LEMMA BuffersAre ==
    BuffersKept <=>
        /\ free + Len(queued) + (IF writer = "get" THEN 0 ELSE 1)
                + (IF main \in {"full", "fullReturn"} THEN 0 ELSE 1) = NBuffers
        /\ Len(buffer) < Capacity
        /\ writer = "get" => hand = <<>>
        /\ main \in {"full", "fullReturn"} => buffer = <<>>
        /\ \A k \in DOMAIN queued : queued[k] # <<>>
BY MainIs DEF BuffersKept

\* Every step keeps the pool.
LEMMA BuffersStep ==
    ASSUME TypeOK, BuffersKept, [Next]_vars PROVE BuffersKept' /\ free' \in Nat
<1>1. /\ free + Len(queued) + (IF writer = "get" THEN 0 ELSE 1)
              + (IF main \in {"full", "fullReturn"} THEN 0 ELSE 1) = NBuffers
      /\ Len(buffer) < Capacity
      /\ writer = "get" => hand = <<>>
      /\ main \in {"full", "fullReturn"} => buffer = <<>>
      /\ \A k \in DOMAIN queued : queued[k] # <<>>
    BY BuffersAre
<1>2. /\ free \in Nat /\ NBuffers \in Nat /\ Len(queued) \in Nat /\ Capacity \in Nat \ {0}
      /\ queued \in Seq(Seq(Items)) /\ buffer \in Seq(Items) /\ hand \in Seq(Items)
      /\ acc \in Accumulators /\ acc.out \in Seq(Items)
    BY GlomAssumption DEF TypeOK, Accumulators
<1>3. SUFFICES
        /\ free' + Len(queued') + (IF writer' = "get" THEN 0 ELSE 1)
                + (IF main' \in {"full", "fullReturn"} THEN 0 ELSE 1) = NBuffers
        /\ Len(buffer') < Capacity
        /\ writer' = "get" => hand' = <<>>
        /\ main' \in {"full", "fullReturn"} => buffer' = <<>>
        /\ \A k \in DOMAIN queued' : queued'[k] # <<>>
        /\ free' \in Nat
    BY MainIs DEF BuffersKept, Resumed
<1>4. CASE GetFragment \/ EndOfInput \/ ReadFails \/ UNCHANGED vars
    <2>1. /\ free' = free /\ queued' = queued /\ writer' = writer /\ buffer' = buffer
          /\ hand' = hand
          /\ main' = main \/ (main = "run" /\ main' = "return")
        BY <1>4 DEF GetFragment, EndOfInput, ReadFails, Reading, vars, output
    <2> QED
        BY <2>1, <1>1, <1>2
<1>5. CASE Exit
    <2>1. /\ free' = free /\ queued' = queued /\ writer' = writer /\ buffer' = buffer
          /\ main = "return" /\ main' = "exited" /\ WriteSome
        BY <1>5 DEF Exit
    <2>2. writer = "get" => hand' = <<>>
        <3> SUFFICES ASSUME writer = "get" PROVE hand' = <<>>
            OBVIOUS
        <3>1. hand = <<>> /\ Len(hand) = 0
            BY <1>1
        <3>2. PICK k \in 0 .. Len(hand) : hand' = SubSeq(hand, k + 1, Len(hand))
            BY <2>1 DEF WriteSome
        <3>3. hand' = SubSeq(hand, 1, 0)
            BY <3>1, <3>2
        <3> QED
            BY <3>3, <1>2
    <2> QED
        BY <2>1, <2>2, <1>1, <1>2
<1>6. CASE PutItem
    <2> DEFINE items == Append(buffer, Head(acc.out))
    <2>1. items # <<>> /\ items \in Seq(Items)
        <3>1. acc.out # <<>>
            BY <1>6 DEF PutItem, Putting
        <3>2. Head(acc.out) \in Items
            BY <3>1, <1>2
        <3>3. items \in Seq(Items) /\ Len(items) = Len(buffer) + 1 /\ Len(buffer) \in Nat
            BY <3>2, <1>2, AppendIs
        <3> HIDE DEF items
        <3> QED
            BY <3>3
    <2>2. /\ free' = free /\ writer' = writer /\ hand' = hand
          /\ main \in {"run", "return"}
          /\ \/ Flush(items)
             \/ Len(items) < Capacity /\ buffer' = items /\ queued' = queued /\ main' = main
        BY <1>6, MainIs DEF PutItem, Putting
    <2> HIDE DEF items
    <2>3. CASE Flush(items)
        <3>1. /\ queued' = Append(queued, items) /\ buffer' = <<>>
              /\ main' \in {"full", "fullReturn"}
            BY <2>2, <2>3, MainIs DEF Flush
        <3>2. /\ Len(queued') = Len(queued) + 1 /\ DOMAIN queued' = 1 .. Len(queued) + 1
              /\ DOMAIN queued = 1 .. Len(queued)
              /\ queued'[Len(queued) + 1] = items
              /\ \A k \in 1 .. Len(queued) : queued'[k] = queued[k]
            BY <3>1, <2>1, <1>2
        <3>3. \A k \in DOMAIN queued' : queued'[k] # <<>>
            <4>1. \A k \in DOMAIN queued' : k \in 1 .. Len(queued) \/ k = Len(queued) + 1
                BY <3>2, <1>2
            <4> QED
                BY <4>1, <3>2, <2>1, <1>1
        <3>4. /\ free' + Len(queued') + (IF writer' = "get" THEN 0 ELSE 1)
                       + (IF main' \in {"full", "fullReturn"} THEN 0 ELSE 1) = NBuffers
            <4> DEFINE w == IF writer = "get" THEN 0 ELSE 1
            <4>1. (IF main \in {"full", "fullReturn"} THEN 0 ELSE 1) = 1
                BY <2>2
            <4>2. (IF main' \in {"full", "fullReturn"} THEN 0 ELSE 1) = 0
                BY <3>1
            <4>3. w \in Nat /\ (IF writer' = "get" THEN 0 ELSE 1) = w
                BY <2>2
            <4>4. free + Len(queued) + w + 1 = NBuffers
                BY <4>1, <1>1
            <4> HIDE DEF w
            <4>5. free' + Len(queued') + w + 0 = NBuffers
                BY <4>3, <4>4, <3>2, <2>2, <1>2
            <4> QED
                BY <4>2, <4>3, <4>5
        <3>5. Len(<<>>) = 0 /\ 0 < Capacity
            BY <1>2
        <3> QED
            BY <3>1, <3>3, <3>4, <3>5, <2>2, <1>1, <1>2
    <2>4. CASE Len(items) < Capacity /\ buffer' = items /\ queued' = queued /\ main' = main
        BY <2>2, <2>4, <1>1, <1>2
    <2> QED
        BY <2>2, <2>3, <2>4
<1>7. CASE GetFreeBuffer
    <2>1. /\ free' = free - 1 /\ free > 0 /\ queued' = queued /\ writer' = writer
          /\ buffer' = buffer /\ hand' = hand
          /\ main \in {"full", "fullReturn"} /\ main' \in {"run", "return"}
        BY <1>7, MainIs DEF GetFreeBuffer
    <2> DEFINE w == IF writer = "get" THEN 0 ELSE 1
    <2>2. (IF main \in {"full", "fullReturn"} THEN 0 ELSE 1) = 0
        BY <2>1
    <2>3. (IF main' \in {"full", "fullReturn"} THEN 0 ELSE 1) = 1
        BY <2>1
    <2>4. w \in Nat /\ (IF writer' = "get" THEN 0 ELSE 1) = w
        BY <2>1
    <2>5. free + Len(queued) + w + 0 = NBuffers
        BY <2>2, <1>1
    <2> HIDE DEF w
    <2>6. free' + Len(queued') + w + 1 = NBuffers /\ free' \in Nat
        BY <2>1, <2>4, <2>5, <1>2
    <2>7. main' \notin {"full", "fullReturn"}
        BY <2>1
    <2> QED
        BY <2>1, <2>3, <2>4, <2>6, <2>7, <1>1
<1>8. CASE GetQueuedBuffer
    <2>1. /\ free' = free /\ queued' = Tail(queued) /\ writer = "get" /\ writer' = "write"
          /\ buffer' = buffer /\ main' = main /\ queued # <<>>
        BY <1>8 DEF GetQueuedBuffer
    <2>2. /\ Len(Tail(queued)) = Len(queued) - 1 /\ DOMAIN Tail(queued) = 1 .. Len(queued) - 1
          /\ DOMAIN queued = 1 .. Len(queued)
          /\ \A k \in 1 .. Len(queued) - 1 : Tail(queued)[k] = queued[k + 1]
        BY <2>1, <1>2
    <2>3. \A k \in DOMAIN Tail(queued) : Tail(queued)[k] # <<>>
        <3>1. \A k \in 1 .. Len(queued) - 1 : k + 1 \in 1 .. Len(queued)
            BY <1>2
        <3> QED
            BY <3>1, <2>2, <1>1
    <2> QED
        BY <2>1, <2>2, <2>3, <1>1, <1>2
<1>9. CASE WriteFails
    <2>1. /\ free' = free /\ queued' = queued /\ writer = "write" /\ writer' = "dead"
          /\ buffer' = buffer /\ main' = main
        BY <1>9 DEF WriteFails
    <2> QED
        BY <2>1, <1>1, <1>2
<1>10. CASE WriteBuffer
    <2>1. /\ free' = free + 1 /\ queued' = queued /\ writer = "write" /\ writer' = "get"
          /\ buffer' = buffer /\ main' = main /\ hand' = <<>>
        BY <1>10 DEF WriteBuffer
    <2> QED
        BY <2>1, <1>1, <1>2
<1> QED
    BY <1>4, <1>5, <1>6, <1>7, <1>8, <1>9, <1>10 DEF Next, MainOutputs, WriterOutputs

-----------------------------------------------------------------------------
(* The theorems. *)

\* Every step keeps the types.
LEMMA TypeStep ==
    ASSUME TypeOK, MadeInv', StreamIs', BuffersKept', free' \in Nat, [Next]_vars
    PROVE  TypeOK'
<1>1. options' = options
    BY DEF Next, GetFragment, EndOfInput, ReadFails, Exit, MainOutputs, WriterOutputs, PutItem,
           GetFreeBuffer, GetQueuedBuffer, WriteBuffer, WriteFails, vars
<1>2. Len(received') <= MaxInput
    <2>1. CASE GetFragment
        <3>1. PICK f \in Fragments : received' = Append(received, f)
            BY <2>1 DEF GetFragment
        <3>2. Len(received) < MaxInput /\ Len(received) \in Nat /\ MaxInput \in Nat
              /\ received \in Seq(Fragments)
            BY <2>1, GlomAssumption DEF GetFragment, TypeOK
        <3>3. Len(received') = Len(received) + 1
            BY <3>1, <3>2, AppendIs
        <3> QED
            BY <3>2, <3>3
    <2>2. CASE ~GetFragment
        <3>1. received' = received
            BY <2>2 DEF Next, EndOfInput, ReadFails, Exit, MainOutputs, WriterOutputs, PutItem,
                        GetFreeBuffer, GetQueuedBuffer, WriteBuffer, WriteFails, vars
        <3> QED
            BY <3>1 DEF TypeOK
    <2> QED
        BY <2>1, <2>2
<1>3. main' \in {"run", "full", "return", "fullReturn", "exited"}
    BY MainIs DEF TypeOK, Next, GetFragment, EndOfInput, ReadFails, Exit, MainOutputs,
        WriterOutputs, PutItem, Putting, Flush, GetFreeBuffer, GetQueuedBuffer, WriteBuffer,
        WriteFails, vars
<1>4. writer' \in {"get", "write", "dead"}
    BY DEF TypeOK, Next, GetFragment, EndOfInput, ReadFails, Exit, MainOutputs,
        WriterOutputs, PutItem, GetFreeBuffer, GetQueuedBuffer, WriteBuffer,
        WriteFails, vars, output
<1>5. /\ stream' \in Seq(Items) /\ written' \in Seq(Items) /\ hand' \in Seq(Items)
      /\ queued' \in Seq(Seq(Items)) /\ ends' \in Seq(Nat) /\ buffer' \in Seq(Items)
    BY DEF StreamIs, Kept, Typed
<1>6. acc' \in Accumulators /\ received' \in Seq(Fragments)
    BY DEF MadeInv, Ok
<1>7. free' \in 0 .. NBuffers
    <2>1. Len(queued') \in Nat /\ NBuffers \in Nat
        BY <1>5, GlomAssumption
    <2>2. free' + Len(queued') + (IF writer' = "get" THEN 0 ELSE 1)
                + (IF main' \in {"full", "fullReturn"} THEN 0 ELSE 1) = NBuffers
        BY MainIs DEF BuffersKept, Resumed
    <2> QED
        BY <2>1, <2>2
<1>8. options' \in Options
    BY <1>1 DEF TypeOK
<1> QED
    BY <1>2, <1>3, <1>4, <1>5, <1>6, <1>7, <1>8 DEF TypeOK

\* Every step keeps the inductive invariant.
LEMMA GlomStep ==
    ASSUME GlomIInv, [Next]_vars PROVE GlomIInv'
<1>1. TypeOK /\ BuffersKept /\ StreamIs /\ MadeInv
    BY TypedIs, KeptIs DEF GlomIInv
<1>2. MadeInv'
    BY <1>1, MadeStep
<1>3. StreamIs'
    BY <1>1, <1>2, StreamStep
<1>4. BuffersKept' /\ free' \in Nat
    BY <1>1, BuffersStep
<1>5. TypeOK'
    BY <1>1, <1>2, <1>3, <1>4, TypeStep
<1>6. StreamKept'
    <2>1. StreamTyped'
        BY <1>3 DEF StreamIs, StreamTyped, Kept
    <2> QED
        BY <2>1, <1>3, KeptNext
<1> QED
    BY <1>2, <1>4, <1>5, <1>6 DEF GlomIInv

\* The initial states have it.
LEMMA GlomStart ==
    ASSUME Init PROVE GlomIInv
<1> DEFINE x == Bare("FORMAT")
<1>1. MadeInv
    BY MadeInit
<1>2. x \in Items
    <2>1. <<>> \in Seq(1 .. MaxInput + 1) /\ 0 \in 0 .. Word - 1
        BY GlomAssumption
    <2> QED
        BY <2>1 DEF Bare, Item, Items, Types
<1> HIDE DEF x
<1>3. /\ stream = <<x>> /\ acc.out = <<x>> /\ received = <<>> /\ buffer = <<>>
      /\ queued = <<>> /\ ends = <<>> /\ hand = <<>> /\ written = <<>> /\ main = "run"
      /\ writer = "get" /\ free = NBuffers - 1 /\ options \in Options
    BY DEF Init, x
<1>4. TypeOK
    <2>1. acc \in Accumulators /\ received \in Seq(Fragments) /\ stream \in Seq(Items)
        BY <1>1 DEF MadeInv, Ok
    <2>2. free \in 0 .. NBuffers
        BY <1>3, GlomAssumption
    <2>3. <<>> \in Seq(Items) /\ <<>> \in Seq(Seq(Items)) /\ <<>> \in Seq(Nat)
        OBVIOUS
    <2>4. Len(<<>>) <= MaxInput
        BY GlomAssumption
    <2> QED
        BY <2>1, <2>2, <2>3, <2>4, <1>3 DEF TypeOK
<1>5. BuffersKept
    <2>1. /\ Len(<<>>) = 0 /\ DOMAIN <<>> = {} /\ 0 < Capacity
          /\ NBuffers - 1 + 0 + 0 + 1 = NBuffers
        BY GlomAssumption
    <2>2. main \notin DOMAIN Resumed
        BY <1>3, MainIs
    <2> QED
        BY <2>1, <2>2, <1>3 DEF BuffersKept
<1>6. StreamKept
    <2>1. PartIn(stream, <<>>, 0) /\ PartIn(stream, <<x>>, 0) /\ Len(stream) = 1
        BY <1>2, <1>3 DEF PartIn
    <2>2. \A k \in {0, 1} : Start(k) = 0 \/ k = 0
        BY <1>3 DEF Start
    <2>3. Start(Len(queued) + 1) = 0 /\ Len(queued) = 0
        BY <1>3 DEF Start
    <2>4. StreamTyped
        BY <1>4, TypedIs
    <2>5. /\ written = <<>> /\ hand = <<>> /\ queued = <<>> /\ ends = <<>> /\ buffer = <<>>
          /\ Len(<<>>) = 0 /\ Len(<<x>>) = 1
        BY <1>3
    <2>6. Kept(stream, <<>>, <<>>, <<>>, <<>>, <<>>, <<x>>)
        <3>1. InTurn(stream, <<>>, <<>>, <<>>, <<>>)
            BY <2>1, <2>5 DEF InTurn
        <3>2. StartIn(<<>>, <<>>, <<>>, Len(<<>>) + 1) = 0
            BY <2>5 DEF StartIn
        <3>3. AtEnd(stream, 0, <<>>, <<x>>)
            BY <2>1, <2>5 DEF AtEnd
        <3>4. Typed(stream, <<>>, <<>>, <<>>, <<>>, <<>>, <<x>>)
            BY <2>4, <1>3 DEF StreamTyped
        <3> QED
            BY <3>1, <3>2, <3>3, <3>4 DEF Kept
    <2>7. StreamIs
        BY <2>6, <1>3 DEF StreamIs
    <2> QED
        BY <2>4, <2>7, KeptIs
<1> QED
    BY <1>1, <1>4, <1>5, <1>6 DEF GlomIInv

\* glom keeps the inductive invariant.
THEOREM GlomInductive == Spec => []GlomIInv
<1>1. Init => GlomIInv
    BY GlomStart
<1>2. GlomIInv /\ [Next]_vars => GlomIInv'
    BY GlomStep
<1> QED
    BY <1>1, <1>2, PTL DEF Spec

\* GlomInv: no buffer of CBufferedOutput's pool is lost or used twice, and what is
\* written, in hand, queued, in main's buffer and still to be put is the stream, in order.
THEOREM GlomInvariant == Spec => []GlomInv
<1>1. GlomIInv => GlomInv
    BY MadeTrue DEF GlomIInv, GlomInv
<1> QED
    BY <1>1, GlomInductive, PTL

\* EventsBuilt: accumulateEvent puts every physics fragment into one event, and events
\* are as they should be.
THEOREM EventsSafe == Spec => []EventsBuilt
<1>1. GlomIInv => EventsBuilt
    BY MadeEventsBuilt DEF GlomIInv
<1> QED
    BY <1>1, GlomInductive, PTL

\* BarriersBetween: physics data never moves across a state change.
THEOREM BarriersSafe == Spec => []BarriersBetween
<1>1. GlomIInv => BarriersBetween
    BY MadeTrue DEF GlomIInv
<1> QED
    BY <1>1, GlomInductive, PTL

\* CountsTrue: an event count is the number of events put since the last begin run.
THEOREM CountsSafe == Spec => []CountsTrue
<1>1. GlomIInv => CountsTrue
    BY MadeTrue DEF GlomIInv
<1> QED
    BY <1>1, GlomInductive, PTL

\* StampsTrue: an event's timestamp is what --timestamp-policy asks for.
THEOREM StampsSafe == Spec => []StampsTrue
<1>1. GlomIInv => StampsTrue
    BY MadeTrue DEF GlomIInv
<1> QED
    BY <1>1, GlomInductive, PTL
=================================================================================
