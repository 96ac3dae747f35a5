---------------------------- MODULE SignalProofs ----------------------------
(***************************************************************************)
(* What the audio and video detectors report of a stream that declares its *)
(* true length is what can be heard and seen in it, for every file, every  *)
(* minimum length and window and every failure of a tool.                  *)
(***************************************************************************)
EXTENDS SignalDetectors, FiniteSetTheorems, WellFoundedInduction, SequenceTheorems, TLAPS

-----------------------------------------------------------------------------
(*                             Lists in order                              *)
-----------------------------------------------------------------------------
(* R orders the elements of S, and none is before itself. *)
Orders(R, S) ==
  /\ \A x \in S : <<x, x>> \notin R
  /\ \A x, y, z \in S : <<x, y>> \in R /\ <<y, z>> \in R => <<x, z>> \in R
  /\ \A x, y \in S : x = y \/ <<x, y>> \in R \/ <<y, x>> \in R

(* How many of the set come before. *)
CountBelow(S, R, x) == Cardinality({y \in S : <<y, x>> \in R})

(* Where one comes before another, fewer come before it. *)
LEMMA CountGrows ==
  ASSUME NEW S, IsFiniteSet(S), NEW R, Orders(R, S), NEW x \in S
  PROVE  /\ CountBelow(S, R, x) \in 0..(Cardinality(S) - 1)
         /\ \A y \in S : <<y, x>> \in R => CountBelow(S, R, y) < CountBelow(S, R, x)
<1> DEFINE B(z) == {y \in S : <<y, z>> \in R}
<1>1. \A z : B(z) \in SUBSET S /\ IsFiniteSet(B(z)) /\ Cardinality(B(z)) \in Nat
  BY FS_Subset, FS_CardinalityType
<1>2. x \notin B(x)
  BY DEF Orders
<1>3. Cardinality(B(x)) <= Cardinality(S) /\ Cardinality(B(x)) # Cardinality(S)
  BY <1>1, <1>2, FS_Subset
<1>4. Cardinality(S) \in Nat
  BY FS_CardinalityType
<1>5. ASSUME NEW y \in S, <<y, x>> \in R PROVE Cardinality(B(y)) < Cardinality(B(x))
  <2>1. B(y) \in SUBSET B(x)
    BY <1>5 DEF Orders
  <2>2. y \in B(x) /\ y \notin B(y)
    BY <1>5 DEF Orders
  <2>3. Cardinality(B(y)) <= Cardinality(B(x)) /\ Cardinality(B(y)) # Cardinality(B(x))
    BY <1>1, <2>1, <2>2, FS_Subset
  <2>4. Cardinality(B(y)) \in Nat /\ Cardinality(B(x)) \in Nat
    BY <1>1
  <2> HIDE DEF B
  <2>5. QED
    BY <2>3, <2>4
<1>6. CountBelow(S, R, x) = Cardinality(B(x)) /\ \A y \in S : CountBelow(S, R, y) = Cardinality(B(y))
  BY DEF CountBelow
<1>7. CountBelow(S, R, x) \in 0..(Cardinality(S) - 1)
  <2>1. Cardinality(B(x)) \in Nat /\ CountBelow(S, R, x) = Cardinality(B(x))
    BY <1>1, <1>6
  <2> HIDE DEF B
  <2>2. QED
    BY <1>3, <1>4, <2>1
<1>8. \A y \in S : <<y, x>> \in R => CountBelow(S, R, y) < CountBelow(S, R, x)
  BY <1>5, <1>6
<1>9. QED
  BY <1>7, <1>8

(* A list in order has each element once, where its count says. *)
LEMMA ArrangedIsAll ==
  ASSUME NEW S, IsFiniteSet(S), NEW R, Orders(R, S)
  PROVE  /\ Cardinality(S) \in Nat
         /\ Arranged(S, R) \in [1..Cardinality(S) -> S]
         /\ \A x \in S : \E k \in 1..Cardinality(S) : Arranged(S, R)[k] = x
         /\ \A k \in 1..Cardinality(S) : CountBelow(S, R, Arranged(S, R)[k]) = k - 1
         /\ \A k, l \in 1..Cardinality(S) : k < l => <<Arranged(S, R)[k], Arranged(S, R)[l]>> \in R
         /\ \A x, y \in S : CountBelow(S, R, x) = CountBelow(S, R, y) => x = y
<1> DEFINE n == Cardinality(S)
           place == [x \in S |-> CountBelow(S, R, x) + 1]
           q == Arranged(S, R)
<1>1. n \in Nat
  BY FS_CardinalityType
<1>2. \A x \in S : CountBelow(S, R, x) \in 0..(n - 1)
  BY CountGrows
<1>3. \A x, y \in S : <<x, y>> \in R => CountBelow(S, R, x) < CountBelow(S, R, y)
  BY CountGrows
<1>4. \A x, y \in S : CountBelow(S, R, x) = CountBelow(S, R, y) => x = y
  <2>1. SUFFICES ASSUME NEW x \in S, NEW y \in S, CountBelow(S, R, x) = CountBelow(S, R, y), x # y
                 PROVE  FALSE
    OBVIOUS
  <2>2. <<x, y>> \in R \/ <<y, x>> \in R
    BY <2>1 DEF Orders
  <2>3. CountBelow(S, R, x) \in Int
    BY <1>2
  <2>4. QED
    BY <1>3, <2>1, <2>2, <2>3
<1>5. place \in [S -> 1..n] /\ \A x, y \in S : place[x] = place[y] => x = y
  BY <1>1, <1>2, <1>4
<1>6. place \in Injection(S, 1..n)
  BY <1>5 DEF Injection, IsInjective
<1>7. IsFiniteSet(1..n) /\ Cardinality(1..n) = n
  BY <1>1, FS_Interval
<1>8. place \in Surjection(S, 1..n)
  BY <1>1, <1>6, <1>7, FS_Injection
<1>9. \A k \in 1..n : \E x \in S : CountBelow(S, R, x) = k - 1
  <2>1. SUFFICES ASSUME NEW k \in 1..n PROVE \E x \in S : CountBelow(S, R, x) = k - 1
    OBVIOUS
  <2>2. PICK x \in S : place[x] = k
    BY <1>8 DEF Surjection
  <2>3. QED
    BY <1>1, <1>2, <2>2
<1>10. q = [k \in 1..n |-> CHOOSE x \in S : CountBelow(S, R, x) = k - 1]
  BY DEF Arranged, CountBelow
<1>11. \A k \in 1..n : q[k] \in S /\ CountBelow(S, R, q[k]) = k - 1
  <2>1. SUFFICES ASSUME NEW k \in 1..n PROVE q[k] \in S /\ CountBelow(S, R, q[k]) = k - 1
    OBVIOUS
  <2>2. q[k] = CHOOSE x \in S : CountBelow(S, R, x) = k - 1
    BY <1>10
  <2> HIDE DEF q
  <2>3. QED
    BY <1>9, <2>2
<1> HIDE DEF q
<1>12. q \in [1..n -> S]
  BY <1>10, <1>11
<1>13. ASSUME NEW x \in S PROVE \E k \in 1..n : q[k] = x
  <2>1. CountBelow(S, R, x) + 1 \in 1..n /\ (CountBelow(S, R, x) + 1) - 1 = CountBelow(S, R, x)
    BY <1>1, <1>2
  <2>2. q[CountBelow(S, R, x) + 1] \in S
        /\ CountBelow(S, R, q[CountBelow(S, R, x) + 1]) = CountBelow(S, R, x)
    BY <1>11, <2>1
  <2>3. QED
    BY <1>4, <2>1, <2>2
<1>14. ASSUME NEW k \in 1..n, NEW l \in 1..n, k < l PROVE <<q[k], q[l]>> \in R
  <2>1. CountBelow(S, R, q[k]) < CountBelow(S, R, q[l])
    BY <1>1, <1>11, <1>14
  <2>2. ~ (<<q[l], q[k]>> \in R) /\ q[k] # q[l]
    <3>1. CountBelow(S, R, q[k]) \in Int /\ CountBelow(S, R, q[l]) \in Int
      BY <1>2, <1>11
    <3>2. QED
      BY <1>3, <1>11, <2>1, <3>1
  <2>3. QED
    BY <1>11, <2>2 DEF Orders
<1>15. QED
  BY <1>1, <1>4, <1>11, <1>12, <1>13, <1>14 DEF q

-----------------------------------------------------------------------------
(*                          Numbers and stretches                          *)
-----------------------------------------------------------------------------
(* A set of numbers has a least one: the library's well-founded < on Nat.  *)
LEMMA LeastNumber ==
  ASSUME NEW T \in SUBSET Nat, T # {}
  PROVE  \E x \in T : \A y \in T : x <= y
<1> DEFINE R == OpToRel(<, Nat)
<1>1. IsWellFoundedOn(R, Nat)
  BY NatLessThanWellFounded, Zenon
<1>2. \A x, y \in Nat : x < y => <<x, y>> \in R
  BY SMT DEF OpToRel
<1> HIDE DEF R
<1>3. PICK x \in T : \A y \in T : ~ (<<y, x>> \in R)
  BY <1>1, WFMin
<1>4. ASSUME NEW y \in T PROVE x <= y
  <2>1. ~ (y < x)
    BY <1>2, <1>3
  <2>2. x \in Nat /\ y \in Nat
    OBVIOUS
  <2>3. QED
    BY <2>1, <2>2
<1>5. QED
  BY <1>4

(* And a bounded one a greatest. *)
LEMMA GreatestNumber ==
  ASSUME NEW n \in Nat, NEW T \in SUBSET (0..n), T # {}
  PROVE  \E x \in T : \A y \in T : y <= x
<1> DEFINE U == {n - y : y \in T}
<1>1. U \in SUBSET Nat /\ U # {}
  <2>1. \A y \in T : y \in 0..n /\ n - y \in Nat
    OBVIOUS
  <2>2. QED
    BY <2>1
<1> HIDE DEF U
<1>2. PICK u \in U : \A v \in U : u <= v
  BY <1>1, LeastNumber
<1>3. PICK x \in T : u = n - x
  BY DEF U
<1>4. ASSUME NEW y \in T PROVE y <= x
  <2>1. n - y \in U
    BY DEF U
  <2>2. n - x <= n - y
    BY <1>2, <1>3, <2>1
  <2>3. x \in Nat /\ y \in Nat
    OBVIOUS
  <2>4. QED
    BY <2>2, <2>3
<1>5. QED
  BY <1>4

(* A stretch is what its definition says. *)
LEMMA StretchIs ==
  ASSUME NEW n \in Nat, NEW least, NEW T, NEW s \in Stretches(n, least, T)
  PROVE  /\ s.start \in 0..n /\ s.end \in 0..n /\ s.start < s.end
         /\ s = [start |-> s.start, end |-> s.end]
         /\ \A t \in (s.start + 1)..s.end : t \in T
         /\ s.start \notin T /\ s.end + 1 \notin T
         /\ s \in [start : 0..n, end : 0..n]
BY DEF Stretches

(* Stretches are apart: one that starts before another ends before it.     *)
LEMMA StretchesApart ==
  ASSUME NEW n \in Nat, NEW least, NEW T,
         NEW s \in Stretches(n, least, T), NEW r \in Stretches(n, least, T)
  PROVE  /\ s.start = r.start => s = r
         /\ s.start < r.start => s.end < r.start
<1>1. /\ s.start \in 0..n /\ s.end \in 0..n /\ s.start < s.end
      /\ r.start \in 0..n /\ r.end \in 0..n /\ r.start < r.end
      /\ s = [start |-> s.start, end |-> s.end] /\ r = [start |-> r.start, end |-> r.end]
  BY StretchIs
<1>2. /\ \A t \in (s.start + 1)..s.end : t \in T
      /\ \A t \in (r.start + 1)..r.end : t \in T
      /\ s.end + 1 \notin T /\ r.end + 1 \notin T /\ r.start \notin T
  BY StretchIs
<1>3. ASSUME s.start = r.start PROVE s = r
  <2>1. ~ (s.end < r.end)
    <3>1. s.end < r.end => s.end + 1 \in (r.start + 1)..r.end
      BY <1>1, <1>3
    <3>2. QED
      BY <1>2, <3>1
  <2>2. ~ (r.end < s.end)
    <3>1. r.end < s.end => r.end + 1 \in (s.start + 1)..s.end
      BY <1>1, <1>3
    <3>2. QED
      BY <1>2, <3>1
  <2>3. s.end = r.end
    BY <1>1, <2>1, <2>2
  <2>4. QED
    BY <1>1, <1>3, <2>3
<1>4. ASSUME s.start < r.start PROVE s.end < r.start
  <2>1. ~ (r.start <= s.end)
    <3>1. r.start <= s.end => r.start \in (s.start + 1)..s.end
      BY <1>1, <1>4
    <3>2. QED
      BY <1>2, <3>1
  <2>2. QED
    BY <1>1, <2>1
<1>5. QED
  BY <1>3, <1>4

(* A file has finitely many. *)
LEMMA StretchesFinite ==
  ASSUME NEW n \in Nat, NEW least, NEW T
  PROVE  IsFiniteSet(Stretches(n, least, T)) /\ Cardinality(Stretches(n, least, T)) \in Nat
<1> DEFINE S == Stretches(n, least, T)
           f == [s \in S |-> s.start]
<1>1. \A s \in S : s.start \in 0..n
  BY StretchIs
<1>2. \A s, r \in S : s.start = r.start => s = r
  BY StretchesApart
<1>3. IsFiniteSet(0..n)
  BY FS_Interval
<1> HIDE DEF S
<1>4. f \in Injection(S, 0..n)
  BY <1>1, <1>2 DEF Injection, IsInjective
<1>5. IsFiniteSet(S)
  BY <1>3, <1>4, FS_Injection
<1>6. QED
  BY <1>5, FS_CardinalityType DEF S

(* What holds at a tick holds on a stretch around it. *)
LEMMA StretchAround ==
  ASSUME NEW n \in Nat, NEW T \in SUBSET (1..n), NEW t \in T
  PROVE  \E s \in Stretches(n, 1, T) : s.start < t /\ t <= s.end
<1> DEFINE From == {m \in 0..n : m < t /\ \A u \in (m + 1)..t : u \in T}
           To == {m \in 0..n : t <= m /\ \A u \in t..m : u \in T}
<1>1. t \in 1..n
  OBVIOUS
<1>2. From \in SUBSET Nat /\ t - 1 \in From
  BY <1>1
<1>3. To \in SUBSET (0..n) /\ t \in To
  BY <1>1
<1> HIDE DEF From, To
<1>4. PICK a \in From : \A m \in From : a <= m
  BY <1>2, LeastNumber
<1>5. PICK b \in To : \A m \in To : m <= b
  BY <1>3, GreatestNumber
<1>6. /\ a \in 0..n /\ a < t /\ \A u \in (a + 1)..t : u \in T
      /\ b \in 0..n /\ t <= b /\ \A u \in t..b : u \in T
  BY DEF From, To
<1>7. a \notin T
  <2>1. SUFFICES ASSUME a \in T PROVE FALSE
    OBVIOUS
  <2>2. a - 1 \in 0..n /\ a - 1 < t
    BY <1>6, <2>1
  <2>3. \A u \in ((a - 1) + 1)..t : u = a \/ u \in (a + 1)..t
    BY <1>1, <1>6
  <2>4. \A u \in ((a - 1) + 1)..t : u \in T
    BY <1>6, <2>1, <2>3
  <2>5. a - 1 \in From
    BY <2>2, <2>4 DEF From
  <2>6. QED
    BY <1>4, <1>6, <2>5
<1>8. b + 1 \notin T
  <2>1. SUFFICES ASSUME b + 1 \in T PROVE FALSE
    OBVIOUS
  <2>2. b + 1 \in 0..n /\ t <= b + 1
    BY <1>1, <1>6, <2>1
  <2>3. \A u \in t..(b + 1) : u = b + 1 \/ u \in t..b
    BY <1>1, <1>6
  <2>4. \A u \in t..(b + 1) : u \in T
    BY <1>6, <2>1, <2>3
  <2>5. b + 1 \in To
    BY <2>2, <2>4 DEF To
  <2>6. QED
    BY <1>5, <1>6, <2>5
<1>9. \A u \in (a + 1)..b : u \in (a + 1)..t \/ u \in t..b
  BY <1>1, <1>6
<1>10. (a + 1)..b \subseteq T
  BY <1>6, <1>9
<1>11. b - a >= 1 /\ b > a
  BY <1>1, <1>6
<1>12. [start |-> a, end |-> b] \in Stretches(n, 1, T)
  BY <1>6, <1>7, <1>8, <1>10, <1>11 DEF Stretches
<1>13. QED
  BY <1>6, <1>12

-----------------------------------------------------------------------------
(*                      What a log of events tells                         *)
-----------------------------------------------------------------------------
(* The events of a stream in the order of their starts: all of them, each  *)
(* once, and only the last one may reach its end.                          *)
LEMMA InOrderIsAll ==
  ASSUME NEW n \in Nat, NEW least, NEW T
  PROVE  LET S == Stretches(n, least, T)
         IN /\ Cardinality(S) \in Nat
            /\ InOrder(S) \in Seq(S) /\ Len(InOrder(S)) = Cardinality(S)
            /\ DOMAIN InOrder(S) = 1..Cardinality(S)
            /\ \A s \in S : \E k \in 1..Cardinality(S) : InOrder(S)[k] = s
            /\ \A k, l \in 1..Cardinality(S) : k < l => InOrder(S)[k].end < InOrder(S)[l].start
<1> DEFINE S == Stretches(n, least, T)
           R == {p \in S \X S : p[1].start < p[2].start}
           q == InOrder(S)
<1>1. \A s \in S : s.start \in Nat
  BY StretchIs
<1>2. \A s, r \in S : /\ s.start = r.start => s = r
                      /\ s.start < r.start => s.end < r.start
  BY StretchesApart
<1>3. IsFiniteSet(S)
  BY StretchesFinite
<1>4. q = Arranged(S, R)
  BY DEF InOrder
<1> HIDE DEF S, q
<1>5. \A s, r \in S : <<s, r>> \in R <=> s.start < r.start
  OBVIOUS
<1> HIDE DEF R
<1>6. Orders(R, S)
  <2>1. \A s \in S : <<s, s>> \notin R
    BY <1>1, <1>5
  <2>2. \A s, r, t \in S : <<s, r>> \in R /\ <<r, t>> \in R => <<s, t>> \in R
    BY <1>1, <1>5
  <2>3. \A s, r \in S : s = r \/ <<s, r>> \in R \/ <<r, s>> \in R
    <3>1. SUFFICES ASSUME NEW s \in S, NEW r \in S, s # r PROVE <<s, r>> \in R \/ <<r, s>> \in R
      OBVIOUS
    <3>2. s.start \in Nat /\ r.start \in Nat /\ s.start # r.start
      BY <1>1, <1>2, <3>1
    <3>3. s.start < r.start \/ r.start < s.start
      BY <3>2
    <3>4. QED
      BY <1>5, <3>3
  <2>4. QED
    BY <2>1, <2>2, <2>3 DEF Orders
<1>7. /\ Cardinality(S) \in Nat
      /\ q \in [1..Cardinality(S) -> S]
      /\ \A s \in S : \E k \in 1..Cardinality(S) : q[k] = s
      /\ \A k, l \in 1..Cardinality(S) : k < l => <<q[k], q[l]>> \in R
  BY <1>3, <1>4, <1>6, ArrangedIsAll
<1>8. q \in Seq(S) /\ Len(q) = Cardinality(S) /\ DOMAIN q = 1..Cardinality(S)
  BY <1>7
<1>9. \A k, l \in 1..Cardinality(S) : k < l => q[k].end < q[l].start
  BY <1>2, <1>5, <1>7
<1>10. QED
  BY <1>7, <1>8, <1>9 DEF S, q

(* Read back with the true length, the log is the list of the events: an   *)
(* end is missing only at the last one, which ends with the stream.        *)
LEMMA PairedIsInOrder ==
  ASSUME NEW n \in Nat, NEW least, NEW T, Unknown \notin Int
  PROVE  LET q == InOrder(Stretches(n, least, T))
         IN Paired(OpenLog(q, n), n) = q
<1> DEFINE S == Stretches(n, least, T)
           q == InOrder(S)
           c == Cardinality(S)
           Ended == {k \in DOMAIN q : q[k].end < n}
           m == Cardinality(Ended)
           log == OpenLog(q, n)
<1>1. /\ c \in Nat
      /\ q \in [1..c -> S] /\ DOMAIN q = 1..c
      /\ \A k, l \in 1..c : k < l => q[k].end < q[l].start
  BY InOrderIsAll
<1>2. \A s \in S : /\ s.start \in 0..n /\ s.end \in 0..n /\ s.start < s.end
                   /\ s = [start |-> s.start, end |-> s.end]
  BY StretchIs
<1> HIDE DEF S, q, c
<1>3. \A k \in 1..c : /\ q[k].start \in 0..n /\ q[k].end \in 0..n /\ q[k].start < q[k].end
                      /\ q[k] = [start |-> q[k].start, end |-> q[k].end]
  BY <1>1, <1>2
<1>4. \A k \in 1..c : k < c => q[k].end < n
  <2>1. SUFFICES ASSUME NEW k \in 1..c, k < c PROVE q[k].end < n
    OBVIOUS
  <2>2. c \in 1..c
    BY <1>1, <2>1
  <2>3. q[k].end < q[c].start
    BY <1>1, <2>1, <2>2
  <2>4. q[c].start \in 0..n /\ q[k].end \in 0..n
    BY <1>3, <2>2
  <2>5. QED
    BY <2>3, <2>4
<1>5. m \in Nat /\ m <= c /\ \A k \in 1..c : IF k <= m THEN TRUE ELSE q[k].end = n
  <2>1. CASE c = 0
    <3>1. Ended = {}
      BY <1>1, <2>1
    <3>2. m = 0
      BY <3>1, FS_EmptySet
    <3> HIDE DEF m
    <3>3. QED
      BY <2>1, <3>2
  <2>2. CASE c # 0 /\ q[c].end < n
    <3>1. Ended = 1..c
      BY <1>1, <1>4, <2>2
    <3> HIDE DEF Ended
    <3>2. m = Cardinality(1..c)
      BY <3>1
    <3> HIDE DEF m
    <3>3. Cardinality(1..c) = c
      BY <1>1, FS_Interval
    <3>4. QED
      BY <1>1, <3>2, <3>3
  <2>3. CASE c # 0 /\ ~ (q[c].end < n)
    <3>1. q[c].end = n
      BY <1>1, <1>3, <2>3
    <3>2. Ended = 1..(c - 1)
      BY <1>1, <1>4, <2>3
    <3> HIDE DEF Ended
    <3>3. m = Cardinality(1..(c - 1))
      BY <3>2
    <3> HIDE DEF m
    <3>4. c - 1 \in Nat
      BY <1>1, <2>3
    <3>5. Cardinality(1..(c - 1)) = c - 1
      BY <3>4, FS_Interval
    <3>6. m = c - 1
      BY <3>3, <3>5
    <3>7. \A k \in 1..c : k <= c - 1 \/ k = c
      BY <1>1
    <3>8. \A k \in 1..c : k <= m \/ q[k].end = n
      BY <3>1, <3>6, <3>7
    <3>9. m \in Nat /\ m <= c
      BY <1>1, <3>4, <3>6
    <3> HIDE DEF c
    <3>10. QED
      BY <3>8, <3>9
  <2>4. QED
    BY <2>1, <2>2, <2>3
<1>6. /\ log.starts = [k \in 1..c |-> q[k].start]
      /\ log.ends = [k \in 1..m |-> q[k].end]
  BY <1>1 DEF OpenLog
<1> HIDE DEF m, log
<1>7. Len(log.starts) = c /\ Len(log.ends) = m
  <2>1. log.starts \in [1..c -> 0..n]
    BY <1>3, <1>6
  <2>2. log.ends \in [1..m -> 0..n]
    BY <1>1, <1>3, <1>5, <1>6
  <2>3. QED
    BY <1>1, <1>5, <2>1, <2>2
<1> DEFINE P == Paired(log, n)
<1>8. P = [k \in 1..c |-> [start |-> LargerOf(log.starts[k], 0),
                           end   |-> IF k <= m THEN log.ends[k] ELSE n]]
  BY <1>7 DEF Paired
<1>9. ASSUME NEW k \in 1..c PROVE P[k] = q[k]
  <2>1. LargerOf(log.starts[k], 0) = q[k].start
    <3>1. log.starts[k] = q[k].start
      BY <1>6
    <3>2. q[k].start \in 0..n
      BY <1>3
    <3>3. q[k].start >= 0
      BY <3>2
    <3>4. QED
      BY <3>1, <3>2, <3>3 DEF LargerOf
  <2>2. (IF k <= m THEN log.ends[k] ELSE n) = q[k].end
    BY <1>1, <1>5, <1>6
  <2>3. P[k] = [start |-> LargerOf(log.starts[k], 0), end |-> IF k <= m THEN log.ends[k] ELSE n]
    BY <1>8
  <2>4. QED
    BY <1>3, <2>1, <2>2, <2>3
<1>10. P = q
  BY <1>1, <1>8, <1>9
<1>11. QED
  BY <1>10 DEF P, log, q, S

-----------------------------------------------------------------------------
(*                       The streams and their places                      *)
-----------------------------------------------------------------------------
(* The k-th stream of a kind is the one ffmpeg maps for the ordinal k.     *)
LEMMA StreamsInOrder ==
  ASSUME NEW a \in Assets, NEW kind
  PROVE  LET S == StreamsOf(a, kind)
             q == Arranged(S, {p \in S \X S : p[1] < p[2]})
         IN /\ Cardinality(S) \in Nat
            /\ S \subseteq Nat
            /\ q \in [1..Cardinality(S) -> S]
            /\ \A i \in S : \E k \in 1..Cardinality(S) : q[k] = i
            /\ \A k, l \in 1..Cardinality(S) : q[k] = q[l] => k = l
            /\ \A k \in 1..Cardinality(S) : Mapped(a, kind, k) = q[k]
            /\ \A i \in S : (\A j \in S : i <= j) => 1 \in 1..Cardinality(S) /\ q[1] = i
            /\ S = {} <=> Cardinality(S) = 0
<1> DEFINE S == StreamsOf(a, kind)
           R == {p \in S \X S : p[1] < p[2]}
           q == Arranged(S, R)
           n == Len(a.streams)
<1>1. n \in Nat /\ S \subseteq 1..n
  BY SignalAssumption DEF StreamsOf
<1>2. IsFiniteSet(S) /\ \A i \in S : i \in Nat
  <2>1. IsFiniteSet(1..n)
    BY <1>1, FS_Interval
  <2>2. QED
    BY <1>1, <2>1, FS_Subset
<1>3. \A k \in 1..Cardinality(S) :
        Mapped(a, kind, k) = CHOOSE i \in S : Cardinality({j \in S : j <= i}) = k
  BY DEF Mapped
<1> HIDE DEF S, n
<1>4. \A i, j \in S : <<i, j>> \in R <=> i < j
  OBVIOUS
<1>5. Orders(R, S)
  <2>1. \A i \in S : <<i, i>> \notin R
    BY <1>2, <1>4
  <2>2. \A i, j, k \in S : <<i, j>> \in R /\ <<j, k>> \in R => <<i, k>> \in R
    BY <1>2, <1>4
  <2>3. \A i, j \in S : i = j \/ <<i, j>> \in R \/ <<j, i>> \in R
    <3>1. SUFFICES ASSUME NEW i \in S, NEW j \in S PROVE i = j \/ <<i, j>> \in R \/ <<j, i>> \in R
      OBVIOUS
    <3>2. i < j \/ i = j \/ j < i
      BY <1>2
    <3>3. QED
      BY <1>4, <3>2
  <2>4. QED
    BY <2>1, <2>2, <2>3 DEF Orders
<1> HIDE DEF R
<1>6. /\ Cardinality(S) \in Nat
      /\ q \in [1..Cardinality(S) -> S]
      /\ \A i \in S : \E k \in 1..Cardinality(S) : q[k] = i
      /\ \A k \in 1..Cardinality(S) : CountBelow(S, R, q[k]) = k - 1
      /\ \A k, l \in 1..Cardinality(S) : k < l => <<q[k], q[l]>> \in R
      /\ \A i, j \in S : CountBelow(S, R, i) = CountBelow(S, R, j) => i = j
  BY <1>2, <1>5, ArrangedIsAll
<1> HIDE DEF q
<1>7. ASSUME NEW i \in S PROVE Cardinality({j \in S : j <= i}) = CountBelow(S, R, i) + 1
  <2> DEFINE B == {j \in S : <<j, i>> \in R}
  <2>1. IsFiniteSet(B) /\ i \notin B
    <3>1. i \notin B
      BY <1>5 DEF Orders
    <3>2. B \in SUBSET S
      OBVIOUS
    <3>3. QED
      BY <1>2, <3>1, <3>2, FS_Subset
  <2>2. {j \in S : j <= i} = B \cup {i}
    <3>1. \A j \in S : j <= i <=> j < i \/ j = i
      BY <1>2
    <3>2. QED
      BY <1>4, <3>1
  <2> HIDE DEF B
  <2>3. Cardinality(B \cup {i}) = Cardinality(B) + 1
    BY <2>1, FS_AddElement
  <2>4. QED
    BY <2>2, <2>3 DEF B, CountBelow
<1>8. ASSUME NEW k \in 1..Cardinality(S) PROVE Mapped(a, kind, k) = q[k]
  <2> DEFINE Fits(i) == Cardinality({j \in S : j <= i}) = k
  <2>1. q[k] \in S /\ CountBelow(S, R, q[k]) = k - 1 /\ k \in Int
    BY <1>6
  <2>2. Fits(q[k])
    BY <1>7, <2>1
  <2>3. ASSUME NEW i \in S, Fits(i) PROVE i = q[k]
    <3>1. CountBelow(S, R, i) + 1 = k
      BY <1>7, <2>3
    <3>2. CountBelow(S, R, i) \in Nat
      <4>1. CountBelow(S, R, i) \in 0..(Cardinality(S) - 1)
        BY <1>2, <1>5, CountGrows
      <4>2. QED
        BY <4>1
    <3>3. CountBelow(S, R, i) = CountBelow(S, R, q[k])
      BY <2>1, <3>1, <3>2
    <3>4. QED
      BY <1>6, <2>1, <3>3
  <2>4. Mapped(a, kind, k) = CHOOSE i \in S : Fits(i)
    BY <1>3
  <2> HIDE DEF Fits
  <2>5. QED
    BY <2>1, <2>2, <2>3, <2>4
<1>9. \A k, l \in 1..Cardinality(S) : q[k] = q[l] => k = l
  <2>1. SUFFICES ASSUME NEW k \in 1..Cardinality(S), NEW l \in 1..Cardinality(S), q[k] = q[l]
                 PROVE  k = l
    OBVIOUS
  <2>2. k - 1 = l - 1
    BY <1>6, <2>1
  <2>3. QED
    BY <2>2
<1>10. ASSUME NEW i \in S, \A j \in S : i <= j PROVE 1 \in 1..Cardinality(S) /\ q[1] = i
  <2>1. PICK k \in 1..Cardinality(S) : q[k] = i
    BY <1>6
  <2>2. 1 \in 1..Cardinality(S) /\ q[1] \in S
    BY <1>6, <2>1
  <2>3. ~ (1 < k)
    <3>1. 1 < k => q[1] < i
      BY <1>4, <1>6, <2>1, <2>2
    <3>2. i <= q[1] /\ i \in Nat /\ q[1] \in Nat
      BY <1>2, <1>10, <2>2
    <3>3. QED
      BY <3>1, <3>2
  <2>4. QED
    BY <2>1, <2>2, <2>3
<1>11. S = {} <=> Cardinality(S) = 0
  BY <1>2, FS_EmptySet
<1>12. QED
  BY <1>2, <1>6, <1>8, <1>9, <1>10, <1>11 DEF S, R, q

-----------------------------------------------------------------------------
(*                        Whose facts they are                             *)
-----------------------------------------------------------------------------
Soundings == {"head_silence", "tail_silence", "internal_silences", "internal_silence",
              "low_rms_count", "low_rms", "peak_level", "integrated_loudness"}
Sightings == {"black_count", "freeze_count", "black", "freeze", "luma_min", "luma_max"}

(* The values and the places that facts of one stream give a parameter.    *)
ValuesIn(F, p) == {f.value : f \in {g \in F : g.parameter = p}}
PlacesIn(F, p) == {[start |-> f.start, end |-> f.end] : f \in {g \in F : g.parameter = p}}

(* The fields of a measurement. *)
LEMMA FactIs ==
  ASSUME NEW p, NEW i, NEW v, NEW from, NEW to
  PROVE  LET f == Fact(p, i, v, from, to)
         IN f.parameter = p /\ f.stream = i /\ f.value = v /\ f.start = from /\ f.end = to
BY DEF Fact

(* Each span is reported once, with its place. *)
LEMMA SpansAre ==
  ASSUME NEW p, NEW i, NEW S
  PROVE  /\ \A f \in Spans(p, i, S) : f.parameter = p /\ f.stream = i
         /\ \A f \in Spans(p, i, S) : \E s \in S : f.start = s.start /\ f.end = s.end
         /\ \A s \in S : \E f \in Spans(p, i, S) : f.start = s.start /\ f.end = s.end
<1> DEFINE G(s) == Fact(p, i, s.end - s.start, s.start, s.end)
<1>1. \A s \in S : /\ G(s).parameter = p /\ G(s).stream = i
                   /\ G(s).start = s.start /\ G(s).end = s.end
  BY FactIs
<1>2. Spans(p, i, S) = {G(s) : s \in S}
  BY DEF Spans
<1> HIDE DEF G
<1>3. QED
  BY <1>1, <1>2

(* What the silences of a stream become. *)
LEMMA SilenceFactsAre ==
  ASSUME NEW i, NEW spans, NEW d
  PROVE  LET F == SilenceFacts(i, spans, d)
         IN /\ \A f \in F : /\ f.stream = i
                            /\ f.parameter \in {"head_silence", "tail_silence",
                                                "internal_silences", "internal_silence"}
            /\ ValuesIn(F, "head_silence") = {HeadLength(spans)}
            /\ ValuesIn(F, "tail_silence") = {TailLength(spans, d)}
            /\ {f \in F : f.parameter = "internal_silence"}
                 = Spans("internal_silence", i, Internal(spans, d))
<1> DEFINE head == HeadLength(spans)
           tail == TailLength(spans, d)
           A == Fact("head_silence", i, head, IF head > 0 THEN 0 ELSE Unknown,
                     IF head > 0 THEN head ELSE Unknown)
           B == Fact("tail_silence", i, tail, IF tail > 0 THEN d - tail ELSE Unknown,
                     IF tail > 0 THEN d ELSE Unknown)
           C == Fact("internal_silences", i, Cardinality(Internal(spans, d)), Unknown, Unknown)
           S == Spans("internal_silence", i, Internal(spans, d))
           F == SilenceFacts(i, spans, d)
<1>1. F = {A, B, C} \cup S
  BY DEF SilenceFacts
<1>2. /\ A.parameter = "head_silence" /\ A.stream = i /\ A.value = head
      /\ B.parameter = "tail_silence" /\ B.stream = i /\ B.value = tail
      /\ C.parameter = "internal_silences" /\ C.stream = i
  BY FactIs
<1>3. \A f \in S : f.parameter = "internal_silence" /\ f.stream = i
  BY SpansAre
<1> HIDE DEF A, B, C, S, F
<1>4. \A f \in F : f.stream = i /\ f.parameter \in {"head_silence", "tail_silence",
                                                    "internal_silences", "internal_silence"}
  BY <1>1, <1>2, <1>3
<1>5. {g \in F : g.parameter = "head_silence"} = {A}
  BY <1>1, <1>2, <1>3
<1>6. {g \in F : g.parameter = "tail_silence"} = {B}
  BY <1>1, <1>2, <1>3
<1>7. {g \in F : g.parameter = "internal_silence"} = S
  BY <1>1, <1>2, <1>3
<1>8. ValuesIn(F, "head_silence") = {head} /\ ValuesIn(F, "tail_silence") = {tail}
  BY <1>2, <1>5, <1>6 DEF ValuesIn
<1>9. QED
  BY <1>4, <1>7, <1>8 DEF F, S, A, B, C

(* One analysis of a stream: its silences, low windows, peak and loudness. *)
LEMMA AnalysisFactsAre ==
  ASSUME NEW a \in Assets, NEW o \in 1..Cardinality(StreamsOf(a, "audio"))
  PROVE  LET i == AudioIndex(a)[o]
             x == a.streams[i]
             d == DurationOf(a, i)
             spans == Paired(OpenLog(InOrder(Silences(x)), Len(x.levels)), d)
         IN /\ AnalysisFacts(a, o) =
                 SilenceFacts(i, spans, d) \cup LowRmsFacts(i, WindowLog(x), d)
                   \cup PeakFacts(i, x) \cup LoudnessFacts(i, x)
            /\ \A f \in AnalysisFacts(a, o) : f.stream = i /\ f.parameter \in Soundings
            /\ ValuesIn(AnalysisFacts(a, o), "head_silence") = {HeadLength(spans)}
            /\ ValuesIn(AnalysisFacts(a, o), "tail_silence") = {TailLength(spans, d)}
            /\ {f \in AnalysisFacts(a, o) : f.parameter = "internal_silence"}
                 = Spans("internal_silence", i, Internal(spans, d))
            /\ {f \in AnalysisFacts(a, o) : f.parameter = "low_rms"}
                 = Spans("low_rms", i, LowRuns(WindowLog(x), d))
            /\ {f \in AnalysisFacts(a, o) : f.parameter = "peak_level"} = PeakFacts(i, x)
<1> DEFINE i == AudioIndex(a)[o]
           x == a.streams[i]
           d == DurationOf(a, i)
           spans == Paired(OpenLog(InOrder(Silences(x)), Len(x.levels)), d)
           S == SilenceFacts(i, spans, d)
           L == LowRmsFacts(i, WindowLog(x), d)
           P == PeakFacts(i, x)
           G == LoudnessFacts(i, x)
           F == AnalysisFacts(a, o)
           C == Fact("low_rms_count", i, Cardinality(LowRuns(WindowLog(x), d)), Unknown, Unknown)
           W == Spans("low_rms", i, LowRuns(WindowLog(x), d))
<1>1. Mapped(a, "audio", o) = i
  BY StreamsInOrder DEF AudioIndex
<1>2. F = S \cup L \cup P \cup G
  BY <1>1 DEF AnalysisFacts
<1>3. /\ \A f \in S : f.stream = i /\ f.parameter \in {"head_silence", "tail_silence",
                                                       "internal_silences", "internal_silence"}
      /\ ValuesIn(S, "head_silence") = {HeadLength(spans)}
      /\ ValuesIn(S, "tail_silence") = {TailLength(spans, d)}
      /\ {f \in S : f.parameter = "internal_silence"}
           = Spans("internal_silence", i, Internal(spans, d))
  BY SilenceFactsAre
<1>4. L = {C} \cup W
  BY DEF LowRmsFacts
<1>5. C.parameter = "low_rms_count" /\ C.stream = i
  BY FactIs
<1>6. \A f \in W : f.parameter = "low_rms" /\ f.stream = i
  BY SpansAre
<1>7. \A f \in P : f.parameter = "peak_level" /\ f.stream = i
  BY FactIs DEF PeakFacts
<1>8. \A f \in G : f.parameter = "integrated_loudness" /\ f.stream = i
  BY FactIs DEF LoudnessFacts
<1> HIDE DEF S, L, P, G, F, C, W
<1>9. \A f \in L : f.parameter \in {"low_rms_count", "low_rms"} /\ f.stream = i
  BY <1>4, <1>5, <1>6
<1>10. \A f \in F : f.stream = i /\ f.parameter \in Soundings
  BY <1>2, <1>3, <1>7, <1>8, <1>9 DEF Soundings
<1>11. /\ {f \in F : f.parameter = "head_silence"} = {f \in S : f.parameter = "head_silence"}
       /\ {f \in F : f.parameter = "tail_silence"} = {f \in S : f.parameter = "tail_silence"}
       /\ {f \in F : f.parameter = "internal_silence"} = {f \in S : f.parameter = "internal_silence"}
  BY <1>2, <1>7, <1>8, <1>9
<1>12. {f \in F : f.parameter = "low_rms"} = W
  BY <1>2, <1>3, <1>4, <1>5, <1>6, <1>7, <1>8
<1>13. {f \in F : f.parameter = "peak_level"} = P
  BY <1>2, <1>3, <1>7, <1>8, <1>9
<1>14. /\ ValuesIn(F, "head_silence") = ValuesIn(S, "head_silence")
       /\ ValuesIn(F, "tail_silence") = ValuesIn(S, "tail_silence")
  BY <1>11 DEF ValuesIn
<1>15. QED
  BY <1>2, <1>3, <1>10, <1>11, <1>12, <1>13, <1>14 DEF S, L, P, G, F, W

-----------------------------------------------------------------------------
(*                               Silences                                  *)
-----------------------------------------------------------------------------
(* The last of one span. *)
LEMMA LastOfOne ==
  ASSUME NEW spans, NEW k \in Nat
  PROVE  LastLength(spans, {k}) = spans[k].end - spans[k].start
<1>1. (CHOOSE j \in {k} : \A l \in {k} : l <= j) = k
  OBVIOUS
<1>2. {k} # {}
  OBVIOUS
<1>3. QED
  BY <1>1, <1>2 DEF LastLength

(* Of the silences of a stream that has the length it declares, the one    *)
(* that begins with it and the one that ends with it are found as such,    *)
(* and all the others are internal.                                        *)
Classified(S, n) ==
  LET spans == InOrder(S)
      head == {s \in S : s.start = 0}
      tail == {s \in S : s.end = n}
  IN /\ {HeadLength(spans)} = IF head = {} THEN {0} ELSE {s.end : s \in head}
     /\ {TailLength(spans, n)} = IF tail = {} THEN {0} ELSE {n - s.start : s \in tail}
     /\ Internal(spans, n) = S \ (head \cup tail)

(* Head, tail and what lies between are the silences that can be heard. *)
LEMMA SilencesMatch ==
  ASSUME NEW n \in Nat, NEW least, NEW T, Unknown \notin Int
  PROVE  Classified(Stretches(n, least, T), n)
<1> DEFINE S == Stretches(n, least, T)
           q == InOrder(S)
           c == Cardinality(S)
           head == {s \in S : s.start = 0}
           tail == {s \in S : s.end = n}
           H == {k \in DOMAIN q : AtHead(q[k])}
           E == {k \in DOMAIN q : AtTail(q[k], n)}
<1>1. /\ c \in Nat
      /\ q \in [1..c -> S] /\ DOMAIN q = 1..c
      /\ \A s \in S : \E k \in 1..c : q[k] = s
      /\ \A k, l \in 1..c : k < l => q[k].end < q[l].start
  BY InOrderIsAll
<1>2. \A s \in S : s.start \in 0..n /\ s.end \in 0..n /\ s.start < s.end
  BY StretchIs
<1> HIDE DEF S, q, c
<1>3. \A s \in S : /\ AtHead(s) <=> s.start = 0
                   /\ AtTail(s, n) <=> s.end = n
  BY <1>2 DEF AtHead, AtTail
<1>4. \A k \in 1..c : /\ q[k] \in S
                      /\ q[k].start \in 0..n /\ q[k].end \in 0..n /\ q[k].start < q[k].end
  BY <1>1, <1>2
<1>5. H = {k \in 1..c : q[k].start = 0} /\ E = {k \in 1..c : q[k].end = n}
  BY <1>1, <1>3, <1>4
<1>6. HeadLength(q) = LastLength(q, H) /\ TailLength(q, n) = LastLength(q, E)
  BY DEF HeadLength, TailLength
<1> HIDE DEF H, E
<1>7. ASSUME NEW k \in 1..c, NEW l \in 1..c, k # l PROVE q[k].start # 0 \/ q[l].start # 0
  <2>1. q[k].end < q[l].start \/ q[l].end < q[k].start
    <3>1. k < l \/ l < k
      BY <1>1, <1>7
    <3>2. QED
      BY <1>1, <3>1
  <2>2. q[k].end >= 0 /\ q[l].end >= 0
    BY <1>4
  <2>3. q[k].end \in Int /\ q[l].end \in Int
    BY <1>4
  <2>4. QED
    BY <2>1, <2>2, <2>3
<1>8. ASSUME NEW k \in 1..c, NEW l \in 1..c, k # l PROVE q[k].end # n \/ q[l].end # n
  <2>1. q[k].end < q[l].start \/ q[l].end < q[k].start
    <3>1. k < l \/ l < k
      BY <1>1, <1>8
    <3>2. QED
      BY <1>1, <3>1
  <2>2. q[k].start \in 0..n /\ q[l].start \in 0..n
    BY <1>4
  <2>3. q[k].start <= n /\ q[l].start <= n /\ q[k].start \in Int /\ q[l].start \in Int
    BY <2>2
  <2>4. QED
    BY <2>1, <2>3
<1>9. {HeadLength(q)} = IF head = {} THEN {0} ELSE {s.end : s \in head}
  <2>1. CASE head = {}
    <3>1. H = {}
      BY <1>4, <1>5, <2>1
    <3>2. HeadLength(q) = 0
      BY <1>6, <3>1 DEF LastLength
    <3>3. QED
      BY <2>1, <3>2
  <2>2. CASE head # {}
    <3>1. PICK s \in S : s.start = 0
      BY <2>2
    <3>2. PICK k \in 1..c : q[k] = s
      BY <1>1, <3>1
    <3>3. H = {k}
      BY <1>5, <1>7, <3>1, <3>2
    <3>4. head = {s}
      <4>1. ASSUME NEW r \in S, r.start = 0 PROVE r = s
        <5>1. PICK l \in 1..c : q[l] = r
          BY <1>1
        <5>2. l = k
          BY <1>7, <3>1, <3>2, <4>1, <5>1
        <5>3. QED
          BY <3>2, <5>1, <5>2
      <4>2. QED
        BY <3>1, <4>1
    <3>5. k \in Nat
      BY <1>1
    <3>6. HeadLength(q) = s.end - s.start
      BY <1>6, <3>2, <3>3, <3>5, LastOfOne
    <3>7. s.end - s.start = s.end
      BY <1>2, <3>1
    <3>8. {r.end : r \in head} = {s.end}
      BY <3>4
    <3>9. QED
      BY <2>2, <3>6, <3>7, <3>8
  <2>3. QED
    BY <2>1, <2>2
<1>10. {TailLength(q, n)} = IF tail = {} THEN {0} ELSE {n - s.start : s \in tail}
  <2>1. CASE tail = {}
    <3>1. E = {}
      BY <1>4, <1>5, <2>1
    <3>2. TailLength(q, n) = 0
      BY <1>6, <3>1 DEF LastLength
    <3>3. QED
      BY <2>1, <3>2
  <2>2. CASE tail # {}
    <3>1. PICK s \in S : s.end = n
      BY <2>2
    <3>2. PICK k \in 1..c : q[k] = s
      BY <1>1, <3>1
    <3>3. E = {k}
      BY <1>5, <1>8, <3>1, <3>2
    <3>4. tail = {s}
      <4>1. ASSUME NEW r \in S, r.end = n PROVE r = s
        <5>1. PICK l \in 1..c : q[l] = r
          BY <1>1
        <5>2. l = k
          BY <1>8, <3>1, <3>2, <4>1, <5>1
        <5>3. QED
          BY <3>2, <5>1, <5>2
      <4>2. QED
        BY <3>1, <4>1
    <3>5. k \in Nat
      BY <1>1
    <3>6. TailLength(q, n) = n - s.start
      BY <1>6, <3>1, <3>2, <3>3, <3>5, LastOfOne
    <3>7. {n - r.start : r \in tail} = {n - s.start}
      BY <3>4
    <3>8. QED
      BY <2>2, <3>6, <3>7
  <2>3. QED
    BY <2>1, <2>2
<1>11. Internal(q, n) = S \ (head \cup tail)
  <2> DEFINE I == {l \in DOMAIN q : ~ AtHead(q[l]) /\ ~ AtTail(q[l], n)}
  <2>1. Internal(q, n) = {q[k] : k \in I}
    BY DEF Internal
  <2>2. I = {l \in 1..c : q[l].start # 0 /\ q[l].end # n}
    BY <1>1, <1>3, <1>4
  <2> HIDE DEF I
  <2>3. QED
    BY <1>1, <1>4, <2>1, <2>2
<1>12. QED
  BY <1>9, <1>10, <1>11 DEF Classified, S, q

-----------------------------------------------------------------------------
(*                             Low windows                                 *)
-----------------------------------------------------------------------------
(* The tick after which window k + 1 starts, and the window of tick t.     *)
Tick(k) == k * Window
WindowOf(t) == (t - 1) \div Window + 1
WindowCount(n) == (n + Window - 1) \div Window

(* A number lies in the window that its quotient names. *)
LEMMA DivisionIs ==
  ASSUME NEW m \in Nat, NEW w \in Nat \ {0}
  PROVE  m \div w \in Nat /\ (m \div w) * w <= m /\ m < (m \div w) * w + w
<1>1. m \div w \in Int
  OBVIOUS
<1>2. m = (m \div w) * w + (m % w) /\ m % w \in 0..(w - 1)
  OBVIOUS
<1>3. m \div w \in Nat
  OBVIOUS
<1>4. QED
  BY <1>1, <1>2, <1>3

(* Windows begin one after the other. *)
LEMMA TicksGrow ==
  /\ Window \in Nat /\ Window >= 1
  /\ \A k \in Nat : Tick(k) \in Nat /\ Tick(k + 1) = Tick(k) + Window
  /\ Tick(0) = 0
  /\ \A j, k \in Nat : j < k => Tick(j) + Window <= Tick(k)
  /\ \A j, k \in Nat : j <= k => Tick(j) <= Tick(k)
<1>1. Window \in Nat /\ Window >= 1
  BY SignalAssumption
<1>2. \A k \in Nat : Tick(k) \in Nat /\ Tick(k + 1) = Tick(k) + Window
  BY <1>1 DEF Tick
<1>3. Tick(0) = 0
  BY <1>1 DEF Tick
<1>4. ASSUME NEW j \in Nat, NEW k \in Nat, j < k PROVE Tick(j) + Window <= Tick(k)
  <2>1. PICK e \in Nat : k = j + 1 + e
    <3>1. k - j - 1 \in Nat /\ k = j + 1 + (k - j - 1)
      BY <1>4
    <3>2. QED
      BY <3>1
  <2>2. (j + 1 + e) * Window = j * Window + Window + e * Window
    BY <1>1
  <2>3. e * Window \in Nat /\ j * Window \in Nat
    BY <1>1
  <2>4. QED
    BY <1>1, <2>1, <2>2, <2>3 DEF Tick
<1>5. ASSUME NEW j \in Nat, NEW k \in Nat, j <= k PROVE Tick(j) <= Tick(k)
  <2>1. CASE j = k
    BY <1>2, <2>1
  <2>2. CASE j < k
    <3>1. Tick(j) + Window <= Tick(k) /\ Tick(j) \in Nat /\ Tick(k) \in Nat
      BY <1>2, <1>4, <2>2
    <3>2. QED
      BY <1>1, <3>1
  <2>3. QED
    BY <1>5, <2>1, <2>2
<1>6. QED
  BY <1>1, <1>2, <1>3, <1>4, <1>5

(* A tick is in its window, and in no other. *)
LEMMA WindowIs ==
  ASSUME NEW t \in Nat, t >= 1
  PROVE  /\ WindowOf(t) \in Nat /\ WindowOf(t) >= 1 /\ WindowOf(t) - 1 \in Nat
         /\ Tick(WindowOf(t) - 1) < t /\ t <= Tick(WindowOf(t))
         /\ \A k \in Nat : k >= 1 /\ Tick(k - 1) < t /\ t <= Tick(k) => k = WindowOf(t)
         /\ WindowOf(t) - 1 = (t - 1) \div Window
<1> DEFINE q == (t - 1) \div Window
<1>1. q \in Nat /\ q * Window <= t - 1 /\ t - 1 < q * Window + Window
  <2>1. t - 1 \in Nat /\ Window \in Nat \ {0}
    BY SignalAssumption
  <2>2. QED
    BY <2>1, DivisionIs
<1>2. WindowOf(t) = q + 1
  BY DEF WindowOf
<1> HIDE DEF q
<1>3. WindowOf(t) \in Nat /\ WindowOf(t) >= 1 /\ WindowOf(t) - 1 = q
  BY <1>1, <1>2
<1>4. Tick(q) = q * Window /\ Tick(q + 1) = Tick(q) + Window /\ Tick(q) \in Nat
  BY <1>1, TicksGrow DEF Tick
<1>5. Tick(q) < t /\ t <= Tick(q + 1)
  <2>1. Window \in Nat
    BY TicksGrow
  <2>2. QED
    BY <1>1, <1>4, <2>1
<1>6. ASSUME NEW k \in Nat, k >= 1, Tick(k - 1) < t, t <= Tick(k) PROVE k = q + 1
  <2>1. k - 1 \in Nat
    BY <1>6
  <2>2. Tick(k - 1) \in Nat /\ Tick(k) \in Nat /\ Tick(q + 1) \in Nat
    <3>1. q + 1 \in Nat
      BY <1>1
    <3>2. QED
      BY <2>1, <3>1, TicksGrow
  <2>3. ~ (k <= q)
    <3>1. k <= q => Tick(k) <= Tick(q)
      BY <1>1, TicksGrow
    <3>2. QED
      BY <1>4, <1>5, <1>6, <2>2, <3>1
  <2>4. ~ (q + 1 <= k - 1)
    <3>1. q + 1 <= k - 1 => Tick(q + 1) <= Tick(k - 1)
      BY <1>1, <2>1, TicksGrow
    <3>2. QED
      BY <1>4, <1>5, <1>6, <2>2, <3>1
  <2>5. QED
    BY <1>1, <2>3, <2>4
<1>7. QED
  BY <1>1, <1>2, <1>3, <1>5, <1>6 DEF q

(* The windows cover the ticks, and each has one. *)
LEMMA WindowsCover ==
  ASSUME NEW n \in Nat
  PROVE  /\ WindowCount(n) \in Nat
         /\ n <= Tick(WindowCount(n))
         /\ \A k \in Nat : k < WindowCount(n) => Tick(k) < n
         /\ \A t \in 1..n : WindowOf(t) \in 1..WindowCount(n)
<1> DEFINE c == WindowCount(n)
<1>1. Window \in Nat /\ Window >= 1
  BY TicksGrow
<1>2. c \in Nat /\ c * Window <= n + Window - 1 /\ n + Window - 1 < c * Window + Window
  <2>1. n + Window - 1 \in Nat /\ Window \in Nat \ {0}
    BY <1>1
  <2>2. QED
    BY <2>1, DivisionIs DEF WindowCount
<1>3. Tick(c) = c * Window /\ Tick(c) \in Nat
  BY <1>2, TicksGrow DEF Tick
<1> HIDE DEF c
<1>4. n <= Tick(c)
  BY <1>1, <1>2, <1>3
<1>5. ASSUME NEW k \in Nat, k < c PROVE Tick(k) < n
  <2>1. Tick(k) + Window <= Tick(c) /\ Tick(k) \in Nat
    BY <1>2, <1>5, TicksGrow
  <2>2. QED
    BY <1>1, <1>2, <1>3, <2>1
<1>6. ASSUME NEW t \in 1..n PROVE WindowOf(t) \in 1..c
  <2> DEFINE k == WindowOf(t)
  <2>1. t \in Nat /\ t >= 1 /\ t <= n
    OBVIOUS
  <2>2. k \in Nat /\ k >= 1 /\ k - 1 \in Nat /\ Tick(k - 1) < t
    BY <2>1, WindowIs
  <2> HIDE DEF k
  <2>3. ~ (c <= k - 1)
    <3>1. c <= k - 1 => Tick(c) <= Tick(k - 1)
      BY <1>2, <2>2, TicksGrow
    <3>2. Tick(k - 1) \in Nat
      BY <2>2, TicksGrow
    <3>3. QED
      BY <1>3, <1>4, <2>1, <2>2, <3>1, <3>2
  <2>4. QED
    BY <1>2, <2>2, <2>3 DEF k
<1>7. QED
  BY <1>2, <1>4, <1>5, <1>6 DEF c

(* The log has a line per window, which is low when all its ticks are.     *)
LEMMA WindowLogIs ==
  ASSUME NEW x, x.levels \in Seq(0..2)
  PROVE  LET n == Len(x.levels)
             w == WindowLog(x)
         IN /\ Len(w) = WindowCount(n) /\ DOMAIN w = 1..WindowCount(n)
            /\ \A k \in 1..WindowCount(n) :
                 /\ w[k].start = Tick(k - 1)
                 /\ w[k].low <=> \A t \in 1..n : WindowOf(t) = k => x.levels[t] = 0
<1> DEFINE n == Len(x.levels)
           w == WindowLog(x)
           c == WindowCount(n)
           Heard(k) == \A t \in ((k - 1) * Window + 1)..SmallerOf(k * Window, n) : x.levels[t] = 0
<1>1. n \in Nat
  OBVIOUS
<1>2. w = [k \in 1..c |-> [start |-> (k - 1) * Window, low |-> Heard(k)]]
  BY DEF WindowLog, WindowCount
<1>3. c \in Nat
  BY <1>1, WindowsCover
<1> HIDE DEF n, w, c, Heard
<1>4. DOMAIN w = 1..c /\ Len(w) = c
  <2> DEFINE Line == {[start |-> (k - 1) * Window, low |-> Heard(k)] : k \in 1..c}
  <2>1. w \in [1..c -> Line]
    BY <1>2
  <2> HIDE DEF Line
  <2>2. QED
    BY <1>3, <2>1
<1>5. ASSUME NEW k \in 1..c
      PROVE  /\ w[k].start = Tick(k - 1)
             /\ w[k].low <=> \A t \in 1..n : WindowOf(t) = k => x.levels[t] = 0
  <2>1. w[k].start = (k - 1) * Window /\ w[k].low = Heard(k)
    BY <1>2
  <2>2. (k - 1) * Window = Tick(k - 1) /\ k * Window = Tick(k)
    BY DEF Tick
  <2>3. k \in Nat /\ k >= 1 /\ k - 1 \in Nat /\ Tick(k) \in Nat /\ Tick(k - 1) \in Nat
    <3>1. k \in Nat /\ k >= 1 /\ k - 1 \in Nat
      BY <1>3
    <3>2. QED
      BY <3>1, TicksGrow
  <2>4. Heard(k) <=> \A t \in (Tick(k - 1) + 1)..SmallerOf(Tick(k), n) : x.levels[t] = 0
    BY <2>2 DEF Heard
  <2>5. ASSUME NEW t \in 1..n
        PROVE  WindowOf(t) = k <=> t \in (Tick(k - 1) + 1)..SmallerOf(Tick(k), n)
    <3>1. t \in Nat /\ t >= 1 /\ t <= n
      BY <1>1
    <3>2. /\ Tick(WindowOf(t) - 1) < t /\ t <= Tick(WindowOf(t))
          /\ Tick(k - 1) < t /\ t <= Tick(k) => k = WindowOf(t)
      BY <2>3, <3>1, WindowIs
    <3>3. WindowOf(t) = k <=> Tick(k - 1) < t /\ t <= Tick(k)
      BY <3>2
    <3>4. t \in (Tick(k - 1) + 1)..SmallerOf(Tick(k), n) <=> Tick(k - 1) < t /\ t <= Tick(k)
      BY <1>1, <2>3, <3>1 DEF SmallerOf
    <3>5. QED
      BY <3>3, <3>4
  <2>6. (Tick(k - 1) + 1)..SmallerOf(Tick(k), n) \subseteq 1..n
    BY <1>1, <2>3 DEF SmallerOf
  <2>7. Heard(k) <=> \A t \in 1..n : WindowOf(t) = k => x.levels[t] = 0
    BY <2>4, <2>5, <2>6
  <2>8. QED
    BY <2>1, <2>2, <2>7
<1>6. QED
  BY <1>4, <1>5 DEF n, w, c

(* The low spans of a stream of the length it declares: their ticks are    *)
(* those of the low windows, and none could be longer.                     *)
LowTicks(x) ==
  {t \in 1..Len(x.levels) : \A u \in 1..Len(x.levels) :
     (u - 1) \div Window = (t - 1) \div Window => x.levels[u] = 0}

(* Runs of low windows are the maximal runs of low ticks. *)
LEMMA LowRunsMatch ==
  ASSUME NEW x, x.levels \in Seq(0..2), Unknown \notin Int
  PROVE  LET runs == LowRuns(WindowLog(x), Len(x.levels))
         IN /\ Ticks(runs) = LowTicks(x)
            /\ \A s \in runs : s.start \notin LowTicks(x) /\ s.end + 1 \notin LowTicks(x)
<1> DEFINE n == Len(x.levels)
           w == WindowLog(x)
           c == WindowCount(n)
           runs == LowRuns(w, n)
           low == LowTicks(x)
           L == {k \in DOMAIN w : w[k].low}
           Span(r) == [start |-> w[r.start + 1].start, end |-> RunEnd(w, r.end, n)]
<1>1. n \in Nat
  OBVIOUS
<1>2. /\ Len(w) = c /\ DOMAIN w = 1..c
      /\ \A k \in 1..c : w[k].start = Tick(k - 1)
      /\ \A k \in 1..c : w[k].low <=> \A t \in 1..n : WindowOf(t) = k => x.levels[t] = 0
  BY WindowLogIs
<1>3. /\ c \in Nat /\ n <= Tick(c)
      /\ \A k \in Nat : k < c => Tick(k) < n
      /\ \A t \in 1..n : WindowOf(t) \in 1..c
  BY <1>1, WindowsCover
<1>4. runs = {Span(r) : r \in Stretches(c, 1, L)}
  BY <1>2 DEF LowRuns
<1>5. ASSUME NEW t \in 1..n PROVE t \in low <=> WindowOf(t) \in L
  <2>1. \A u \in 1..n : (u - 1) \div Window = (t - 1) \div Window <=> WindowOf(u) = WindowOf(t)
    <3>1. SUFFICES ASSUME NEW u \in 1..n
                   PROVE  (u - 1) \div Window = (t - 1) \div Window <=> WindowOf(u) = WindowOf(t)
      OBVIOUS
    <3>2. u \in Nat /\ u >= 1 /\ t \in Nat /\ t >= 1
      BY <1>1
    <3>3. /\ WindowOf(u) \in Nat /\ WindowOf(t) \in Nat
          /\ WindowOf(u) - 1 = (u - 1) \div Window
          /\ WindowOf(t) - 1 = (t - 1) \div Window
      BY <3>2, WindowIs
    <3>4. QED
      BY <3>3
  <2>2. t \in low <=> \A u \in 1..n : WindowOf(u) = WindowOf(t) => x.levels[u] = 0
    BY <2>1 DEF LowTicks
  <2>3. WindowOf(t) \in L <=> \A u \in 1..n : WindowOf(u) = WindowOf(t) => x.levels[u] = 0
    BY <1>2, <1>3
  <2>4. QED
    BY <2>2, <2>3
<1>6. low \subseteq 1..n /\ L \subseteq 1..c
  BY <1>2 DEF LowTicks
<1> HIDE DEF low, L, runs, w, n, c
<1>7. ASSUME NEW r \in Stretches(c, 1, L)
      PROVE  /\ r.start \in Nat /\ r.end \in Nat /\ r.start < r.end /\ r.end <= c
             /\ \A k \in (r.start + 1)..r.end : k \in L
             /\ r.start \notin L /\ r.end + 1 \notin L
             /\ Span(r).start = Tick(r.start) /\ Span(r).end = SmallerOf(Tick(r.end), n)
  <2>1. /\ r.start \in 0..c /\ r.end \in 0..c /\ r.start < r.end
        /\ \A k \in (r.start + 1)..r.end : k \in L
        /\ r.start \notin L /\ r.end + 1 \notin L
    BY <1>3, StretchIs
  <2>2. r.start \in Nat /\ r.end \in Nat /\ r.end <= c
    BY <1>3, <2>1
  <2>3. Span(r).start = Tick(r.start)
    <3>1. r.start + 1 \in 1..c /\ (r.start + 1) - 1 = r.start
      BY <1>3, <2>1
    <3>2. QED
      BY <1>2, <3>1
  <2>4. RunEnd(w, r.end, n) = SmallerOf(Tick(r.end), n)
    <3>1. n # Unknown
      BY <1>1
    <3>2. CASE r.end < c
      <4>1. r.end + 1 \in 1..c /\ (r.end + 1) - 1 = r.end
        BY <1>3, <2>2, <3>2
      <4>2. w[r.end + 1].start = Tick(r.end)
        BY <1>2, <4>1
      <4>3. QED
        BY <1>2, <3>1, <3>2, <4>2 DEF RunEnd
    <3>3. CASE ~ (r.end < c)
      <4>1. r.end = c /\ c \in 1..c /\ c - 1 \in Nat /\ (c - 1) + 1 = c
        BY <1>3, <2>1, <2>2, <3>3
      <4>2. w[r.end].start + Window = Tick(r.end)
        <5>1. w[r.end].start = Tick(c - 1)
          BY <1>2, <4>1
        <5>2. Tick(c) = Tick(c - 1) + Window
          BY <4>1, TicksGrow
        <5>3. QED
          BY <4>1, <5>1, <5>2
      <4>3. QED
        BY <1>2, <3>1, <3>3, <4>2 DEF RunEnd
    <3>4. QED
      BY <3>2, <3>3
  <2>5. QED
    BY <2>1, <2>2, <2>3, <2>4
<1> HIDE DEF Span
<1>8. ASSUME NEW t \in low PROVE \E r \in Stretches(c, 1, L) : Span(r).start < t /\ t <= Span(r).end
  <2>1. t \in Nat /\ t >= 1 /\ t <= n /\ t \in 1..n
    BY <1>1, <1>6
  <2> DEFINE k == WindowOf(t)
  <2>2. k \in L /\ k \in Nat /\ k >= 1 /\ k - 1 \in Nat /\ Tick(k - 1) < t /\ t <= Tick(k)
    BY <1>5, <2>1, WindowIs
  <2> HIDE DEF k
  <2>3. PICK r \in Stretches(c, 1, L) : r.start < k /\ k <= r.end
    BY <1>3, <1>6, <2>2, StretchAround
  <2>4. /\ r.start \in Nat /\ r.end \in Nat
        /\ Span(r).start = Tick(r.start) /\ Span(r).end = SmallerOf(Tick(r.end), n)
    BY <1>7
  <2>5. Tick(r.start) <= Tick(k - 1) /\ Tick(k) <= Tick(r.end)
    <3>1. r.start <= k - 1
      BY <2>2, <2>3, <2>4
    <3>2. QED
      BY <2>2, <2>3, <2>4, <3>1, TicksGrow
  <2>6. Tick(r.start) \in Nat /\ Tick(k - 1) \in Nat /\ Tick(k) \in Nat /\ Tick(r.end) \in Nat
    BY <2>2, <2>4, TicksGrow
  <2>7. Tick(r.start) < t /\ t <= SmallerOf(Tick(r.end), n)
    BY <1>1, <2>1, <2>2, <2>5, <2>6 DEF SmallerOf
  <2>8. QED
    BY <2>4, <2>7
<1>9. ASSUME NEW r \in Stretches(c, 1, L), NEW t \in (Span(r).start + 1)..Span(r).end PROVE t \in low
  <2>1. /\ r.start \in Nat /\ r.end \in Nat /\ r.end <= c
        /\ \A k \in (r.start + 1)..r.end : k \in L
        /\ Span(r).start = Tick(r.start) /\ Span(r).end = SmallerOf(Tick(r.end), n)
    BY <1>7
  <2>2. Tick(r.start) \in Nat /\ Tick(r.end) \in Nat
    BY <2>1, TicksGrow
  <2>3. t \in (Tick(r.start) + 1)..SmallerOf(Tick(r.end), n)
    BY <2>1
  <2>4. t \in Nat /\ t >= 1 /\ t <= n /\ Tick(r.start) < t /\ t <= Tick(r.end) /\ t \in 1..n
    BY <1>1, <2>2, <2>3 DEF SmallerOf
  <2> DEFINE k == WindowOf(t)
  <2>5. k \in Nat /\ k >= 1 /\ k - 1 \in Nat /\ Tick(k - 1) < t /\ t <= Tick(k)
    BY <2>4, WindowIs
  <2>6. Tick(k - 1) \in Nat /\ Tick(k) \in Nat
    BY <2>5, TicksGrow
  <2> HIDE DEF k
  <2>7. ~ (k <= r.start)
    <3>1. k <= r.start => Tick(k) <= Tick(r.start)
      BY <2>1, <2>5, TicksGrow
    <3>2. QED
      BY <2>2, <2>4, <2>5, <2>6, <3>1
  <2>8. ~ (r.end <= k - 1)
    <3>1. r.end <= k - 1 => Tick(r.end) <= Tick(k - 1)
      BY <2>1, <2>5, TicksGrow
    <3>2. QED
      BY <2>2, <2>4, <2>5, <2>6, <3>1
  <2>9. k \in (r.start + 1)..r.end
    BY <2>1, <2>5, <2>7, <2>8
  <2>10. QED
    BY <1>5, <2>1, <2>4, <2>9 DEF k
<1>10. Ticks(runs) = low
  <2>1. \A t : t \in Ticks(runs) <=> \E s \in runs : t \in (s.start + 1)..s.end
    BY DEF Ticks
  <2>2. \A t : t \in Ticks(runs) <=>
           \E r \in Stretches(c, 1, L) : t \in (Span(r).start + 1)..Span(r).end
    BY <1>4, <2>1
  <2>3. ASSUME NEW t \in low PROVE t \in Ticks(runs)
    <3>1. PICK r \in Stretches(c, 1, L) : Span(r).start < t /\ t <= Span(r).end
      BY <1>8
    <3>2. /\ r.start \in Nat /\ r.end \in Nat
          /\ Span(r).start = Tick(r.start) /\ Span(r).end = SmallerOf(Tick(r.end), n)
      BY <1>7
    <3>3. Span(r).start \in Nat /\ Span(r).end \in Nat
      <4>1. Tick(r.start) \in Nat /\ Tick(r.end) \in Nat
        BY <3>2, TicksGrow
      <4>2. QED
        BY <1>1, <3>2, <4>1 DEF SmallerOf
    <3>4. t \in Nat
      BY <1>1, <1>6
    <3>5. t \in (Span(r).start + 1)..Span(r).end
      BY <3>1, <3>3, <3>4
    <3>6. QED
      BY <2>2, <3>5
  <2>4. QED
    BY <1>9, <2>2, <2>3
<1>11. ASSUME NEW r \in Stretches(c, 1, L) PROVE Span(r).start \notin low
  <2>1. /\ r.start \in Nat /\ r.start \notin L /\ Span(r).start = Tick(r.start)
    BY <1>7
  <2>2. CASE r.start = 0
    <3>1. Span(r).start = 0
      BY <2>1, <2>2, TicksGrow
    <3>2. QED
      BY <1>1, <1>6, <3>1
  <2>3. CASE r.start # 0
    <3> DEFINE t == Tick(r.start)
    <3>1. r.start >= 1 /\ r.start - 1 \in Nat /\ r.start - 1 < r.start
      BY <2>1, <2>3
    <3>2. t \in Nat /\ Tick(r.start - 1) + Window <= t /\ Tick(r.start - 1) \in Nat
      BY <2>1, <3>1, TicksGrow
    <3> HIDE DEF t
    <3>3. Window \in Nat /\ Window >= 1
      BY TicksGrow
    <3>4. t >= 1 /\ Tick(r.start - 1) < t /\ t <= Tick(r.start)
      <4>1. t <= t
        BY <3>2
      <4>2. QED
        BY <3>2, <3>3, <4>1 DEF t
    <3>5. r.start = WindowOf(t)
      BY <2>1, <3>1, <3>2, <3>4, WindowIs
    <3>6. t \notin low
      BY <1>5, <1>6, <2>1, <3>5
    <3>7. QED
      BY <2>1, <3>6 DEF t
  <2>4. QED
    BY <2>2, <2>3
<1>12. ASSUME NEW r \in Stretches(c, 1, L) PROVE Span(r).end + 1 \notin low
  <2>1. /\ r.end \in Nat /\ r.end + 1 \notin L /\ Span(r).end = SmallerOf(Tick(r.end), n)
    BY <1>7
  <2>2. Tick(r.end) \in Nat /\ Window \in Nat /\ Window >= 1 /\ Tick(r.end + 1) = Tick(r.end) + Window
    BY <2>1, TicksGrow
  <2>3. CASE n <= Tick(r.end)
    <3>1. Span(r).end = n
      BY <1>1, <2>1, <2>2, <2>3 DEF SmallerOf
    <3>2. QED
      BY <1>1, <1>6, <3>1
  <2>4. CASE Tick(r.end) < n
    <3> DEFINE t == Tick(r.end) + 1
               k == r.end + 1
    <3>1. Span(r).end + 1 = t
      BY <2>1, <2>4 DEF SmallerOf
    <3>2. k \in Nat /\ k >= 1 /\ k - 1 = r.end /\ t \in Nat /\ t >= 1
      BY <2>1, <2>2
    <3>3. Tick(k - 1) < t /\ t <= Tick(k)
      BY <2>2, <3>2
    <3> HIDE DEF t
    <3>4. k = WindowOf(t)
      <4> HIDE DEF k
      <4>1. QED
        BY <3>2, <3>3, WindowIs
    <3>5. t \notin low
      BY <1>5, <1>6, <2>1, <3>4
    <3>6. QED
      BY <3>1, <3>5
  <2>5. QED
    BY <1>1, <2>2, <2>3, <2>4
<1>13. \A s \in runs : s.start \notin low /\ s.end + 1 \notin low
  BY <1>4, <1>11, <1>12
<1>14. QED
  BY <1>10, <1>13 DEF runs, low, n, w

-----------------------------------------------------------------------------
(*                       Peaks and equal channels                          *)
-----------------------------------------------------------------------------
(* The peak that is reported is the highest level, unless all is silent.   *)
Highest(x, l) ==
  /\ \E t \in 1..Len(x.levels) : x.levels[t] = l
  /\ \A t \in 1..Len(x.levels) : x.levels[t] <= l

(* The peak is the highest level that occurs. *)
LEMMA PeakMatches ==
  ASSUME NEW x, x.levels \in Seq(0..2), x.levels # <<>>, LastOverall = "whole", NEW i
  PROVE  \A l \in 1..2 : l \in {f.value : f \in PeakFacts(i, x)} <=> Highest(x, l)
<1> DEFINE n == Len(x.levels)
           Top(l) == (\E t \in 1..n : x.levels[t] = l) /\ \A t \in 1..n : x.levels[t] <= l
           peak == OverallPeak(x)
<1>1. n \in Nat /\ 1 \in 1..n /\ \A t \in 1..n : x.levels[t] \in 0..2
  OBVIOUS
<1>2. peak = CHOOSE l \in 0..2 : Top(l)
  BY DEF OverallPeak, PeakOf
<1> HIDE DEF n
<1>3. \E l \in 0..2 : Top(l)
  <2> DEFINE T == {x.levels[t] : t \in 1..n}
  <2>1. T \in SUBSET (0..2) /\ T # {}
    BY <1>1
  <2> HIDE DEF T
  <2>2. PICK l \in T : \A m \in T : m <= l
    BY <2>1, GreatestNumber
  <2>3. QED
    BY <2>1, <2>2 DEF T
<1>4. \A l, m \in 0..2 : Top(l) /\ Top(m) => l = m
  BY <1>1
<1> HIDE DEF Top, peak
<1>5. peak \in 0..2 /\ Top(peak)
  BY <1>2, <1>3
<1>6. {f.value : f \in PeakFacts(i, x)} = IF peak = 0 THEN {} ELSE {peak}
  <2>1. Fact("peak_level", i, peak, Unknown, Unknown).value = peak
    BY FactIs
  <2>2. QED
    BY <2>1 DEF PeakFacts, peak
<1>7. \A l \in 1..2 : l \in {f.value : f \in PeakFacts(i, x)} <=> Top(l)
  BY <1>4, <1>5, <1>6
<1>8. QED
  BY <1>7 DEF Highest, Top, n

(* The pairs of channels are all listed, in the order of the blocks.       *)
LEMMA PairsAreAll ==
  ASSUME NEW c \in Nat
  PROVE  /\ Cardinality(PairsOf(c)) \in Nat
         /\ ChannelPairs(c) \in [1..Cardinality(PairsOf(c)) -> PairsOf(c)]
         /\ \A p \in PairsOf(c) : \E k \in 1..Cardinality(PairsOf(c)) : ChannelPairs(c)[k] = p
<1> DEFINE S == PairsOf(c)
           R == {p \in S \X S : Before(p[1], p[2])}
<1>1. \A p \in S : p[1] \in Nat /\ p[2] \in Nat /\ p = <<p[1], p[2]>>
  BY DEF PairsOf
<1>2. IsFiniteSet(S)
  <2>1. IsFiniteSet(1..c)
    BY FS_Interval
  <2>2. IsFiniteSet((1..c) \X (1..c))
    BY <2>1, FS_Product
  <2>3. S \in SUBSET ((1..c) \X (1..c))
    BY DEF PairsOf
  <2>4. QED
    BY <2>2, <2>3, FS_Subset
<1> HIDE DEF S
<1>3. \A p, q \in S : <<p, q>> \in R <=> Before(p, q)
  OBVIOUS
<1> HIDE DEF R
<1>4. Orders(R, S)
  <2>1. \A p \in S : <<p, p>> \notin R
    BY <1>1, <1>3 DEF Before
  <2>2. \A p, q, r \in S : <<p, q>> \in R /\ <<q, r>> \in R => <<p, r>> \in R
    <3>1. SUFFICES ASSUME NEW p \in S, NEW q \in S, NEW r \in S, Before(p, q), Before(q, r)
                   PROVE  Before(p, r)
      BY <1>3
    <3>2. /\ p[1] \in Nat /\ p[2] \in Nat /\ q[1] \in Nat /\ q[2] \in Nat
          /\ r[1] \in Nat /\ r[2] \in Nat
      BY <1>1
    <3>3. QED
      BY <3>1, <3>2 DEF Before
  <2>3. \A p, q \in S : p = q \/ <<p, q>> \in R \/ <<q, p>> \in R
    <3>1. SUFFICES ASSUME NEW p \in S, NEW q \in S, ~ Before(p, q), ~ Before(q, p)
                   PROVE  p = q
      BY <1>3
    <3>2. p[1] \in Nat /\ p[2] \in Nat /\ q[1] \in Nat /\ q[2] \in Nat
      BY <1>1
    <3>3. p[1] = q[1] /\ p[2] = q[2]
      BY <3>1, <3>2 DEF Before
    <3>4. p = <<p[1], p[2]>> /\ q = <<q[1], q[2]>>
      BY <1>1
    <3>5. QED
      BY <3>3, <3>4
  <2>4. QED
    BY <2>1, <2>2, <2>3 DEF Orders
<1>5. ChannelPairs(c) = Arranged(S, R)
  BY DEF ChannelPairs, S, R
<1>6. QED
  BY <1>2, <1>4, <1>5, ArrangedIsAll DEF S

(* A pair is found to carry one signal when two of the channels looked at   *)
(* do, and it is to be heard.                                              *)
LEMMA PairsMatch ==
  ASSUME NEW x, x.channels \in Seq(STRING)
  PROVE  (Len(x.channels) >= 2 /\ DuplicatePairs(ChannelBlocks(x), Analysed(x)) # {}) <=>
           \E c, d \in 1..SmallerOf(Len(x.channels), MaxChannels) :
             c # d /\ x.channels[c] = x.channels[d] /\ x.channels[c] # "silence"
<1> DEFINE n == Analysed(x)
           m == Cardinality(PairsOf(n))
           pairs == ChannelPairs(n)
           Ones == [k \in 1..n |-> x.channels[k]]
           Twos == [k \in DOMAIN pairs |->
                      LET p == pairs[k]
                      IN IF x.channels[p[1]] = x.channels[p[2]] THEN "silence" ELSE "difference"]
           blocks == ChannelBlocks(x)
           Words == {x.channels[c] : c \in 1..n} \cup {"silence", "difference"}
<1>1. n \in Nat /\ n <= Len(x.channels) /\ Len(x.channels) \in Nat
      /\ n = SmallerOf(Len(x.channels), MaxChannels)
  BY SignalAssumption DEF Analysed, SmallerOf
<1>2. /\ m \in Nat /\ pairs \in [1..m -> PairsOf(n)] /\ DOMAIN pairs = 1..m
      /\ \A p \in PairsOf(n) : \E k \in 1..m : pairs[k] = p
  BY <1>1, PairsAreAll
<1>3. \A p \in PairsOf(n) : p[1] \in 1..n /\ p[2] \in 1..n /\ p[1] < p[2]
  BY DEF PairsOf
<1>4. \A c, d \in 1..n : c < d => <<c, d>> \in PairsOf(n)
  BY DEF PairsOf
<1>5. blocks = Ones \o Twos
  BY DEF ChannelBlocks
<1> HIDE DEF n, m, pairs, blocks
<1>6. \A c \in 1..n : x.channels[c] \in Words
  OBVIOUS
<1> HIDE DEF Words
<1>7. Ones \in Seq(Words) /\ Len(Ones) = n /\ \A c \in 1..n : Ones[c] = x.channels[c]
  <2>1. Ones \in [1..n -> Words]
    BY <1>6
  <2>2. QED
    BY <1>1, <2>1
<1>8. Twos \in Seq(Words) /\ Len(Twos) = m
  <2>1. Twos \in [1..m -> Words]
    <3>1. "silence" \in Words /\ "difference" \in Words
      BY DEF Words
    <3>2. Twos = [k \in 1..m |-> IF x.channels[pairs[k][1]] = x.channels[pairs[k][2]]
                                THEN "silence" ELSE "difference"]
      BY <1>2
    <3> HIDE DEF Twos
    <3>3. QED
      BY <3>1, <3>2
  <2>2. QED
    BY <1>2, <2>1
<1>9. ASSUME NEW k \in 1..m
      PROVE  Twos[k] = "silence" <=> x.channels[pairs[k][1]] = x.channels[pairs[k][2]]
  BY <1>2
<1> HIDE DEF Ones, Twos
<1>10. \A c \in 1..n : blocks[c] = x.channels[c]
  BY <1>1, <1>5, <1>7, <1>8
<1>11. \A k \in 1..m : blocks[n + k] = Twos[k]
  BY <1>1, <1>2, <1>5, <1>7, <1>8
<1>12. ASSUME NEW k
       PROVE  k \in DuplicatePairs(blocks, n) <=>
                /\ k \in 1..m
                /\ x.channels[pairs[k][1]] = x.channels[pairs[k][2]]
                /\ x.channels[pairs[k][1]] # "silence"
  <2>1. k \in DuplicatePairs(blocks, n) <=>
          /\ k \in 1..m
          /\ blocks[n + k] = "silence"
          /\ \E c \in {pairs[k][1], pairs[k][2]} : blocks[c] # "silence"
    BY <1>2 DEF DuplicatePairs, pairs
  <2>2. CASE k \in 1..m
    <3>1. pairs[k] \in PairsOf(n)
      BY <1>2, <2>2
    <3>2. pairs[k][1] \in 1..n /\ pairs[k][2] \in 1..n
      BY <1>3, <3>1
    <3>3. blocks[pairs[k][1]] = x.channels[pairs[k][1]] /\ blocks[pairs[k][2]] = x.channels[pairs[k][2]]
      BY <1>10, <3>2
    <3>4. blocks[n + k] = "silence" <=> x.channels[pairs[k][1]] = x.channels[pairs[k][2]]
      BY <1>9, <1>11, <2>2
    <3>5. QED
      BY <2>1, <2>2, <3>3, <3>4
  <2>3. QED
    BY <2>1, <2>2
<1>13. ASSUME NEW k \in DuplicatePairs(blocks, n)
       PROVE  /\ Len(x.channels) >= 2
              /\ \E c, d \in 1..n : c # d /\ x.channels[c] = x.channels[d] /\ x.channels[c] # "silence"
  <2>1. pairs[k] \in PairsOf(n)
    BY <1>2, <1>12
  <2>2. pairs[k][1] \in 1..n /\ pairs[k][2] \in 1..n /\ pairs[k][1] < pairs[k][2]
    BY <1>3, <2>1
  <2>3. Len(x.channels) >= 2 /\ pairs[k][1] # pairs[k][2]
    BY <1>1, <2>2
  <2>4. QED
    BY <1>12, <2>2, <2>3
<1>14. ASSUME NEW c \in 1..n, NEW d \in 1..n, c < d, x.channels[c] = x.channels[d], x.channels[c] # "silence"
       PROVE  Len(x.channels) >= 2 /\ DuplicatePairs(blocks, n) # {}
  <2>1. <<c, d>> \in PairsOf(n)
    BY <1>4, <1>14
  <2>2. PICK k \in 1..m : pairs[k] = <<c, d>>
    BY <1>2, <2>1
  <2>3. k \in DuplicatePairs(blocks, n)
    BY <1>12, <1>14, <2>2
  <2>4. Len(x.channels) >= 2
    BY <1>1, <1>14
  <2>5. QED
    BY <2>3, <2>4
<1>15. \A c, d \in 1..n : c # d => c < d \/ d < c
  BY <1>1
<1>16. (Len(x.channels) >= 2 /\ DuplicatePairs(blocks, n) # {}) <=>
         \E c, d \in 1..n : c # d /\ x.channels[c] = x.channels[d] /\ x.channels[c] # "silence"
  <2>1. ASSUME DuplicatePairs(blocks, n) # {}
        PROVE  \E c, d \in 1..n : c # d /\ x.channels[c] = x.channels[d] /\ x.channels[c] # "silence"
    BY <1>13, <2>1
  <2>2. ASSUME NEW c \in 1..n, NEW d \in 1..n, c # d, x.channels[c] = x.channels[d],
               x.channels[c] # "silence"
        PROVE  Len(x.channels) >= 2 /\ DuplicatePairs(blocks, n) # {}
    BY <1>14, <1>15, <2>2
  <2>3. QED
    BY <2>1, <2>2
<1>17. QED
  BY <1>1, <1>16 DEF blocks, n

-----------------------------------------------------------------------------
(*                 When the analysis of a sound raises                     *)
-----------------------------------------------------------------------------
(* A duration is a number of ticks or not given. *)
LEMMA DurationsAre ==
  ASSUME NEW a \in Assets, NEW i \in DOMAIN a.streams
  PROVE  DurationOf(a, i) \in Nat \cup {Unknown}
BY SignalAssumption DEF DurationOf

(* Events are read back with their starts; an end is one of the log, or    *)
(* the duration.                                                           *)
EventsOf(spans, n, d) ==
  \E c \in Nat :
    /\ DOMAIN spans \subseteq 1..c
    /\ \A k \in DOMAIN spans :
         /\ spans[k].start \in 0..n
         /\ spans[k].end \in 0..n \/ spans[k].end = d

(* Pairing the log of the events gives the events back, up to the end of the last. *)
LEMMA PairedIs ==
  ASSUME NEW n \in Nat, NEW least, NEW T, NEW d \in Nat \cup {Unknown}
  PROVE  EventsOf(Paired(OpenLog(InOrder(Stretches(n, least, T)), n), d), n, d)
<1> DEFINE S == Stretches(n, least, T)
           q == InOrder(S)
           c == Cardinality(S)
           Ended == {k \in DOMAIN q : q[k].end < n}
           m == Cardinality(Ended)
           log == OpenLog(q, n)
           spans == Paired(log, d)
<1>1. c \in Nat /\ q \in [1..c -> S] /\ DOMAIN q = 1..c
  BY InOrderIsAll
<1>2. \A s \in S : s.start \in 0..n /\ s.end \in 0..n
  BY StretchIs
<1> HIDE DEF S, q, c
<1>3. \A k \in 1..c : q[k].start \in 0..n /\ q[k].end \in 0..n
  BY <1>1, <1>2
<1>4. m \in Nat /\ m <= c
  <2>1. Ended \in SUBSET (1..c)
    BY <1>1
  <2>2. IsFiniteSet(1..c) /\ Cardinality(1..c) = c
    BY <1>1, FS_Interval
  <2> HIDE DEF Ended
  <2>3. IsFiniteSet(Ended) /\ Cardinality(Ended) <= Cardinality(1..c)
    BY <2>1, <2>2, FS_Subset
  <2>4. Cardinality(Ended) \in Nat
    BY <2>3, FS_CardinalityType
  <2>5. QED
    BY <2>2, <2>3, <2>4
<1>5. /\ log.starts = [k \in 1..c |-> q[k].start]
      /\ log.ends = [k \in 1..m |-> q[k].end]
  BY <1>1 DEF OpenLog
<1> HIDE DEF m, log
<1>6. Len(log.starts) = c /\ Len(log.ends) = m
  <2>1. log.starts \in [1..c -> 0..n]
    BY <1>3, <1>5
  <2>2. log.ends \in [1..m -> 0..n]
    BY <1>1, <1>3, <1>4, <1>5
  <2>3. QED
    BY <1>1, <1>4, <2>1, <2>2
<1> DEFINE e == IF d # Unknown THEN c ELSE m
<1>7. spans = [k \in 1..e |-> [start |-> LargerOf(log.starts[k], 0),
                               end   |-> IF k <= m THEN log.ends[k] ELSE d]]
  BY <1>6 DEF Paired
<1>8. 1..e \subseteq 1..c
  BY <1>1, <1>4
<1> HIDE DEF e, spans
<1>9. ASSUME NEW k \in 1..e
      PROVE  spans[k].start \in 0..n /\ (spans[k].end \in 0..n \/ spans[k].end = d)
  <2>1. k \in 1..c
    BY <1>8
  <2>2. log.starts[k] = q[k].start /\ q[k].start \in 0..n
    BY <1>3, <1>5, <2>1
  <2>3. LargerOf(log.starts[k], 0) \in 0..n
    BY <2>2 DEF LargerOf
  <2>4. k <= m => log.ends[k] \in 0..n
    <3>1. k <= m => k \in 1..m
      BY <1>1, <1>4, <2>1
    <3>2. QED
      BY <1>3, <1>5, <2>1, <3>1
  <2>5. /\ spans[k].start = LargerOf(log.starts[k], 0)
        /\ spans[k].end = IF k <= m THEN log.ends[k] ELSE d
    BY <1>7
  <2>6. QED
    BY <2>3, <2>4, <2>5
<1>10. DOMAIN spans = 1..e
  BY <1>7
<1>11. QED
  BY <1>1, <1>8, <1>9, <1>10 DEF EventsOf, spans, log, q, S

(* A fact with a time before zero needs a stream that is longer than it    *)
(* declares: its silence at the tail then begins before the file.          *)
LEMMA IllegalIsLonger ==
  ASSUME NEW a \in Assets, NEW o \in 1..Cardinality(StreamsOf(a, "audio")),
         NEW f \in AnalysisFacts(a, o), ~ Legal(f)
  PROVE  LET i == AudioIndex(a)[o]
         IN /\ i \in DOMAIN a.streams /\ a.streams[i].kind = "audio"
            /\ DurationOf(a, i) # Unknown
            /\ DurationOf(a, i) < Len(a.streams[i].levels)
<1> DEFINE i == AudioIndex(a)[o]
           x == a.streams[i]
           n == Len(x.levels)
           T == {t \in DOMAIN x.levels : x.levels[t] < 2}
           d == DurationOf(a, i)
           spans == Paired(OpenLog(InOrder(Silences(x)), n), d)
           w == WindowLog(x)
           tail == TailLength(spans, d)
           E == {k \in DOMAIN spans : AtTail(spans[k], d)}
<1>1. i \in StreamsOf(a, "audio")
  BY StreamsInOrder DEF AudioIndex
<1>2. i \in DOMAIN a.streams /\ x.kind = "audio"
  BY <1>1 DEF StreamsOf
<1>3. x.levels \in Seq(0..2) /\ n \in Nat
  <2>1. x.levels \in Seq(0..2)
    BY <1>2, SignalAssumption
  <2>2. QED
    BY <2>1
<1>4. d \in Nat \cup {Unknown} /\ Unknown \notin Int
  BY <1>2, DurationsAre, SignalAssumption
<1>5. AnalysisFacts(a, o) = SilenceFacts(i, spans, d) \cup LowRmsFacts(i, w, d)
                              \cup PeakFacts(i, x) \cup LoudnessFacts(i, x)
  BY AnalysisFactsAre
<1>6. Silences(x) = Stretches(n, MinSilence, T)
  BY DEF Silences
<1> HIDE DEF i, n, T, d
<1>7. PICK c \in Nat : /\ DOMAIN spans \subseteq 1..c
                       /\ \A k \in DOMAIN spans :
                            /\ spans[k].start \in 0..n
                            /\ spans[k].end \in 0..n \/ spans[k].end = d
  <2>1. Paired(OpenLog(InOrder(Stretches(n, MinSilence, T)), n), d) = spans
    BY <1>6
  <2>2. EventsOf(Paired(OpenLog(InOrder(Stretches(n, MinSilence, T)), n), d), n, d)
    BY <1>3, <1>4, PairedIs
  <2> HIDE DEF spans
  <2>3. EventsOf(spans, n, d)
    BY <2>1, <2>2
  <2>4. QED
    BY <2>3 DEF EventsOf
<1> HIDE DEF spans, x
<1>8. f \in LowRmsFacts(i, w, d) => Legal(f)
  <2>1. SUFFICES ASSUME f \in LowRmsFacts(i, w, d) PROVE Legal(f)
    OBVIOUS
  <2>2. CASE f = Fact("low_rms_count", i, Cardinality(LowRuns(w, d)), Unknown, Unknown)
    <3>1. f.start = Unknown
      BY <2>2, FactIs
    <3>2. QED
      BY <3>1 DEF Legal
  <2>3. CASE f \in Spans("low_rms", i, LowRuns(w, d))
    <3>1. PICK s \in LowRuns(w, d) : f.start = s.start
      BY <2>3, SpansAre
    <3> DEFINE m == WindowCount(n)
               L == {k \in DOMAIN w : w[k].low}
    <3>2. Len(w) = m /\ \A k \in 1..m : w[k].start = Tick(k - 1)
      BY <1>3, WindowLogIs DEF n
    <3>3. m \in Nat
      BY <1>3, WindowsCover
    <3> HIDE DEF m, w
    <3>4. PICK r \in Stretches(m, 1, L) : s.start = w[r.start + 1].start
      BY <3>2 DEF LowRuns
    <3>5. r.start \in 0..m /\ r.end \in 0..m /\ r.start < r.end
      <4> HIDE DEF L
      <4>1. QED
        BY <3>3, StretchIs
    <3>6. r.start \in Nat /\ r.start + 1 \in 1..m /\ (r.start + 1) - 1 = r.start
      BY <3>3, <3>5
    <3>7. s.start = Tick(r.start)
      BY <3>2, <3>4, <3>6
    <3>8. s.start \in Nat
      BY <3>6, <3>7, TicksGrow
    <3>9. QED
      BY <3>1, <3>8 DEF Legal
  <2>4. QED
    BY <2>1, <2>2, <2>3 DEF LowRmsFacts
<1>9. f \in PeakFacts(i, x) \cup LoudnessFacts(i, x) => Legal(f)
  <2>1. SUFFICES ASSUME f \in PeakFacts(i, x) \cup LoudnessFacts(i, x) PROVE Legal(f)
    OBVIOUS
  <2>2. f = Fact("peak_level", i, OverallPeak(x), Unknown, Unknown)
        \/ f = Fact("integrated_loudness", i, 2, Unknown, Unknown)
    BY <2>1 DEF PeakFacts, LoudnessFacts
  <2>3. f.start = Unknown
    BY <2>2, FactIs
  <2>4. QED
    BY <2>3 DEF Legal
<1> DEFINE A == Fact("head_silence", i, HeadLength(spans), IF HeadLength(spans) > 0 THEN 0 ELSE Unknown,
                     IF HeadLength(spans) > 0 THEN HeadLength(spans) ELSE Unknown)
           B == Fact("tail_silence", i, tail, IF tail > 0 THEN d - tail ELSE Unknown,
                     IF tail > 0 THEN d ELSE Unknown)
           C == Fact("internal_silences", i, Cardinality(Internal(spans, d)), Unknown, Unknown)
<1>10. f \in {A, B, C} \cup Spans("internal_silence", i, Internal(spans, d))
  BY <1>5, <1>8, <1>9 DEF SilenceFacts
<1>11. f = B
  <2>1. CASE f = A
    <3>1. f.start = 0 \/ f.start = Unknown
      <4>1. f.start = IF HeadLength(spans) > 0 THEN 0 ELSE Unknown
        BY <2>1, FactIs
      <4>2. QED
        BY <4>1
    <3>2. QED
      BY <3>1 DEF Legal
  <2>2. CASE f = C
    <3>1. f.start = Unknown
      BY <2>2, FactIs
    <3>2. QED
      BY <3>1 DEF Legal
  <2>3. CASE f \in Spans("internal_silence", i, Internal(spans, d))
    <3>1. PICK s \in Internal(spans, d) : f.start = s.start
      BY <2>3, SpansAre
    <3>2. PICK k \in DOMAIN spans : s = spans[k]
      BY DEF Internal
    <3>3. f.start \in 0..n
      BY <1>7, <3>1, <3>2
    <3>4. f.start >= 0
      BY <1>3, <3>3
    <3>5. QED
      BY <3>4 DEF Legal
  <2> HIDE DEF A, B, C
  <2>4. QED
    BY <1>10, <2>1, <2>2, <2>3
<1>12. f.start = IF tail > 0 THEN d - tail ELSE Unknown
  BY <1>11, FactIs
<1> HIDE DEF A, B, C
<1>13. tail > 0 /\ ~ (d - tail >= 0)
  BY <1>12 DEF Legal
<1>14. E # {}
  <2>1. SUFFICES ASSUME E = {} PROVE FALSE
    OBVIOUS
  <2>2. tail = 0
    BY <2>1 DEF TailLength, LastLength
  <2> HIDE DEF tail
  <2>3. QED
    BY <1>13, <2>2
<1>15. E \in SUBSET (0..c)
  BY <1>7
<1>16. tail = LET k == CHOOSE k \in E : \A l \in E : l <= k IN spans[k].end - spans[k].start
  BY <1>14 DEF TailLength, LastLength
<1> HIDE DEF tail
<1>17. PICK k \in E : tail = spans[k].end - spans[k].start
  <2> HIDE DEF E
  <2>1. \E k \in E : \A l \in E : l <= k
    BY <1>14, <1>15, GreatestNumber
  <2>2. QED
    BY <1>16, <2>1
<1>18. d # Unknown /\ spans[k].end >= d
  BY DEF AtTail
<1>19. spans[k].start \in 0..n /\ (spans[k].end \in 0..n \/ spans[k].end = d)
  BY <1>7
<1>20. d < n
  <2>1. d \in Nat
    BY <1>4, <1>18
  <2>2. SUFFICES ASSUME n <= d PROVE FALSE
    BY <1>3, <2>1
  <2>3. spans[k].end = d
    BY <1>3, <1>18, <1>19, <2>1, <2>2
  <2>4. d - tail = spans[k].start
    BY <1>3, <1>17, <1>19, <2>1, <2>3
  <2>5. spans[k].start >= 0
    BY <1>3, <1>19
  <2>6. QED
    BY <1>13, <2>4, <2>5
<1>21. QED
  BY <1>2, <1>18, <1>20 DEF d, n, x, i

(* No verdict on channels and no event of a picture has a time before zero *)
(* that could end the analysis of a sound.                                 *)
LEMMA DualMonoFactsAre ==
  ASSUME NEW a \in Assets, NEW o \in 1..Cardinality(StreamsOf(a, "audio"))
  PROVE  LET i == AudioIndex(a)[o]
             x == a.streams[i]
         IN /\ \A f \in DualMonoFacts(a, o) :
                 Legal(f) /\ f.stream = i /\ f.parameter = "duplicate_channel_risk"
            /\ x.counted => ValuesIn(DualMonoFacts(a, o), "duplicate_channel_risk") =
                 {Truth(Len(x.channels) >= 2 /\ DuplicatePairs(ChannelBlocks(x), Analysed(x)) # {})}
<1> DEFINE i == AudioIndex(a)[o]
           x == a.streams[i]
           v == Truth(Len(x.channels) >= 2 /\ DuplicatePairs(ChannelBlocks(x), Analysed(x)) # {})
           g == Fact("duplicate_channel_risk", i, v, Unknown, Unknown)
           F == DualMonoFacts(a, o)
<1>1. Mapped(a, "audio", o) = i
  BY StreamsInOrder DEF AudioIndex
<1>2. F = IF ~ x.counted THEN {} ELSE {g}
  BY <1>1 DEF DualMonoFacts
<1>3. /\ g.parameter = "duplicate_channel_risk" /\ g.stream = i /\ g.value = v
      /\ g.start = Unknown
  BY FactIs
<1> HIDE DEF g, F, v
<1>4. \A f \in F : Legal(f) /\ f.stream = i /\ f.parameter = "duplicate_channel_risk"
  BY <1>2, <1>3 DEF Legal
<1>5. x.counted => ValuesIn(F, "duplicate_channel_risk") = {v}
  BY <1>2, <1>3 DEF ValuesIn
<1>6. QED
  BY <1>4, <1>5 DEF F, v

(* The places in the measurements are those of the spans. *)
LEMMA PlacesOfSpans ==
  ASSUME NEW p, NEW i, NEW S, \A s \in S : s = [start |-> s.start, end |-> s.end]
  PROVE  PlacesIn(Spans(p, i, S), p) = S
         /\ {[start |-> f.start, end |-> f.end] : f \in Spans(p, i, S)} = S
<1>1. \A f \in Spans(p, i, S) : f.parameter = p
  BY SpansAre
<1>2. {f \in Spans(p, i, S) : f.parameter = p} = Spans(p, i, S)
  BY <1>1
<1>3. \A f \in Spans(p, i, S) : \E s \in S : [start |-> f.start, end |-> f.end] = s
  BY SpansAre
<1>4. \A s \in S : \E f \in Spans(p, i, S) : [start |-> f.start, end |-> f.end] = s
  BY SpansAre
<1>5. {[start |-> f.start, end |-> f.end] : f \in Spans(p, i, S)} = S
  BY <1>3, <1>4
<1>6. QED
  BY <1>2, <1>5 DEF PlacesIn

(* The picture's facts are of the first video stream. *)
Sighted(F, i, x, freezes) ==
  /\ \A f \in F : f.stream = i /\ f.parameter \in Sightings
  /\ ValuesIn(F, "black_count") = {Cardinality(Blacks(x))}
  /\ ValuesIn(F, "freeze_count") = {Len(freezes)}
  /\ {f \in F : f.parameter = "black"} = Spans("black", i, Blacks(x))
  /\ {f \in F : f.parameter = "freeze"}
       = Spans("freeze", i, {freezes[k] : k \in DOMAIN freezes})

(* What the video detector reports of the first video stream. *)
LEMMA VideoFactsAre ==
  ASSUME NEW a \in Assets
  PROVE  LET i == Mapped(a, "video", 1)
             x == a.streams[i]
         IN Sighted(VideoFacts(a), i, x,
                    Paired(OpenLog(InOrder(Freezes(x)), Len(x.frames)), DurationOf(a, i)))
<1> DEFINE i == Mapped(a, "video", 1)
           x == a.streams[i]
           freezes == Paired(OpenLog(InOrder(Freezes(x)), Len(x.frames)), DurationOf(a, i))
           Luma == {x.frames[t] : t \in DOMAIN x.frames}
           A == Fact("black_count", i, Cardinality(Blacks(x)), Unknown, Unknown)
           B == Fact("freeze_count", i, Len(freezes), Unknown, Unknown)
           C == Fact("luma_min", i, CHOOSE l \in Luma : \A m \in Luma : l <= m, Unknown, Unknown)
           D == Fact("luma_max", i, CHOOSE l \in Luma : \A m \in Luma : m <= l, Unknown, Unknown)
           S == Spans("black", i, Blacks(x))
           Z == Spans("freeze", i, {freezes[k] : k \in DOMAIN freezes})
           F == VideoFacts(a)
<1>1. F = {A, B} \cup S \cup Z \cup {C, D}
  BY DEF VideoFacts
<1>2. /\ A.parameter = "black_count" /\ A.stream = i /\ A.value = Cardinality(Blacks(x))
      /\ B.parameter = "freeze_count" /\ B.stream = i /\ B.value = Len(freezes)
  BY FactIs
<1>3. /\ C.parameter = "luma_min" /\ C.stream = i
      /\ D.parameter = "luma_max" /\ D.stream = i
  BY FactIs
<1>4. /\ \A f \in S : f.parameter = "black" /\ f.stream = i
      /\ \A f \in Z : f.parameter = "freeze" /\ f.stream = i
  BY SpansAre
<1> HIDE DEF A, B, C, D, S, Z, F
<1>5. \A f \in F : f.stream = i /\ f.parameter \in Sightings
  BY <1>1, <1>2, <1>3, <1>4 DEF Sightings
<1>6. {g \in F : g.parameter = "black_count"} = {A}
  BY <1>1, <1>2, <1>3, <1>4
<1>7. {g \in F : g.parameter = "freeze_count"} = {B}
  BY <1>1, <1>2, <1>3, <1>4
<1>8. {g \in F : g.parameter = "black"} = S /\ {g \in F : g.parameter = "freeze"} = Z
  BY <1>1, <1>2, <1>3, <1>4
<1>9. /\ ValuesIn(F, "black_count") = {Cardinality(Blacks(x))}
      /\ ValuesIn(F, "freeze_count") = {Len(freezes)}
  BY <1>2, <1>6, <1>7 DEF ValuesIn
<1>10. QED
  BY <1>5, <1>8, <1>9 DEF Sighted, F, S, Z

-----------------------------------------------------------------------------
(*                        The run of the detectors                         *)
-----------------------------------------------------------------------------
(* The detectors that are behind. *)
Past(d) ==
  IF d = "audio.dualmono" THEN {"audio.analysis"}
  ELSE IF d = "video.incidents" THEN {"audio.analysis", "audio.dualmono"}
  ELSE IF d = "done" THEN {"audio.analysis", "audio.dualmono", "video.incidents"}
  ELSE {}

FactsUpTo(d, a, k) == UNION {FactsOf(d, a, l) : l \in 1..k}
FactsPast(D, a) == UNION {FactsUpTo(d, a, StreamCount(d, a)) : d \in D}

(* What the detectors delivered: all the facts of those that are behind    *)
(* and did not fail, and those of the streams that the present one has     *)
(* decoded.                                                                *)
DeliveredInv ==
  /\ detector \in {"idle", "audio.analysis", "audio.dualmono", "video.incidents", "done"}
  /\ detector # "idle" => asset \in Assets
  /\ broken \subseteq Past(detector)
  /\ measured = FactsPast(Past(detector) \ broken, asset)
  /\ detector \in {"idle", "done"} => stream = 0 /\ produced = {}
  /\ detector \notin {"idle", "done"} =>
       /\ stream \in 0..StreamCount(detector, asset)
       /\ produced = FactsUpTo(detector, asset, stream)

(* Why an analysis ended early. *)
RaisedInv ==
  raised =>
    /\ detector # "idle"
    /\ \/ detector = "video.incidents"
       \/ \E i \in DOMAIN asset.streams :
            asset.streams[i].kind = "audio" /\ DurationOf(asset, i) # Unknown
            /\ DurationOf(asset, i) < Len(asset.streams[i].levels)

SignalInv == DeliveredInv /\ RaisedInv

(* There are finitely many streams for a detector. *)
LEMMA CountsAre ==
  ASSUME NEW a \in Assets, NEW d
  PROVE  StreamCount(d, a) \in Nat
<1>1. Cardinality(StreamsOf(a, "audio")) \in Nat
  BY StreamsInOrder
<1>2. QED
  BY <1>1 DEF StreamCount

(* One more stream adds its facts. *)
LEMMA FactsGrow ==
  ASSUME NEW d, NEW a, NEW k \in Nat
  PROVE  /\ FactsUpTo(d, a, k + 1) = FactsUpTo(d, a, k) \cup FactsOf(d, a, k + 1)
         /\ FactsUpTo(d, a, 0) = {}
<1>1. 1..(k + 1) = (1..k) \cup {k + 1} /\ 1..0 = {}
  OBVIOUS
<1>2. QED
  BY <1>1 DEF FactsUpTo

(* A detector is left behind, with its facts or without them. *)
LEMMA LeaveKeeps ==
  ASSUME SignalInv, Runs, Leave, UNCHANGED <<asset, raised>>,
         \/ /\ broken' = broken \cup {detector} /\ measured' = measured
         \/ /\ broken' = broken
            /\ measured' = measured \cup FactsUpTo(detector, asset, StreamCount(detector, asset))
  PROVE  SignalInv'
<1>1. /\ detector \in {"audio.analysis", "audio.dualmono", "video.incidents"}
      /\ asset \in Assets /\ ~ raised
      /\ broken \subseteq Past(detector)
      /\ measured = FactsPast(Past(detector) \ broken, asset)
  BY DEF SignalInv, DeliveredInv, Runs
<1>2. detector' = After(detector) /\ stream' = 0 /\ produced' = {}
  BY DEF Leave
<1>3. /\ detector' \in {"audio.dualmono", "video.incidents", "done"}
      /\ Past(detector') = Past(detector) \cup {detector}
      /\ detector \notin Past(detector)
  BY <1>1, <1>2 DEF After, Past
<1>4. broken' \subseteq Past(detector')
  BY <1>1, <1>3
<1>5. measured' = FactsPast(Past(detector') \ broken', asset')
  <2>1. CASE broken' = broken \cup {detector} /\ measured' = measured
    <3>1. Past(detector') \ broken' = Past(detector) \ broken
      BY <1>3, <2>1
    <3>2. QED
      BY <1>1, <2>1, <3>1
  <2>2. CASE broken' = broken
             /\ measured' = measured \cup FactsUpTo(detector, asset, StreamCount(detector, asset))
    <3>1. Past(detector') \ broken' = (Past(detector) \ broken) \cup {detector}
      BY <1>1, <1>3, <2>2
    <3>2. FactsPast((Past(detector) \ broken) \cup {detector}, asset) =
            FactsPast(Past(detector) \ broken, asset)
              \cup FactsUpTo(detector, asset, StreamCount(detector, asset))
      BY DEF FactsPast
    <3>3. QED
      BY <1>1, <2>2, <3>1, <3>2
  <2>3. QED
    BY <2>1, <2>2
<1>6. detector' \notin {"idle", "done"} =>
        /\ stream' \in 0..StreamCount(detector', asset')
        /\ produced' = FactsUpTo(detector', asset', stream')
  <2>1. StreamCount(detector', asset) \in Nat
    BY <1>1, CountsAre
  <2>2. FactsUpTo(detector', asset, 0) = {}
    BY FactsGrow
  <2>3. QED
    BY <1>2, <2>1, <2>2
<1>7. DeliveredInv'
  BY <1>1, <1>2, <1>3, <1>4, <1>5, <1>6 DEF DeliveredInv
<1>8. RaisedInv'
  BY <1>1 DEF RaisedInv
<1>9. QED
  BY <1>7, <1>8 DEF SignalInv

(* An analysis starts with nothing measured. *)
LEMMA OpenKeeps ==
  ASSUME SignalInv, Open
  PROVE  SignalInv'
<1>1. /\ detector = "idle" /\ asset' \in Assets /\ detector' = "audio.analysis"
      /\ UNCHANGED <<stream, produced, measured, broken, raised>>
  BY DEF Open
<1>2. /\ broken \subseteq Past("idle") /\ measured = FactsPast(Past("idle") \ broken, asset)
      /\ stream = 0 /\ produced = {} /\ ~ raised
  BY <1>1 DEF SignalInv, DeliveredInv, RaisedInv
<1>3. Past("idle") = {} /\ Past("audio.analysis") = {}
  BY DEF Past
<1>4. FactsPast({}, asset) = {} /\ FactsPast({}, asset') = {}
  BY DEF FactsPast
<1>5. StreamCount("audio.analysis", asset') \in Nat /\ FactsUpTo("audio.analysis", asset', 0) = {}
  BY <1>1, CountsAre, FactsGrow
<1>6. stream = 0 /\ produced = {} /\ broken = {} /\ measured = {}
  BY <1>2, <1>3, <1>4
<1>7. DeliveredInv'
  BY <1>1, <1>3, <1>4, <1>5, <1>6 DEF DeliveredInv
<1>8. QED
  BY <1>1, <1>2, <1>7 DEF SignalInv, RaisedInv

(* The facts of one more stream, or the end of the analysis. *)
LEMMA AnalyseStreamKeeps ==
  ASSUME SignalInv, AnalyseStream
  PROVE  SignalInv'
<1> DEFINE new == FactsOf(detector, asset, stream + 1)
<1>1. /\ detector \in {"audio.analysis", "audio.dualmono", "video.incidents"}
      /\ asset \in Assets /\ ~ raised
      /\ stream \in 0..StreamCount(detector, asset) /\ stream < StreamCount(detector, asset)
      /\ produced = FactsUpTo(detector, asset, stream)
      /\ UNCHANGED <<asset, detector, measured, broken>>
  BY DEF SignalInv, DeliveredInv, AnalyseStream, Runs
<1>2. StreamCount(detector, asset) \in Nat
  BY <1>1, CountsAre
<1>3. stream \in Nat /\ stream + 1 \in 1..StreamCount(detector, asset)
  BY <1>1, <1>2
<1>4. \/ /\ \A f \in new : Legal(f)
         /\ produced' = produced \cup new /\ stream' = stream + 1 /\ UNCHANGED raised
      \/ /\ ~ \A f \in new : Legal(f)
         /\ raised' = TRUE /\ UNCHANGED <<produced, stream>>
  BY DEF AnalyseStream
<1> HIDE DEF new
<1>5. CASE \A f \in new : Legal(f)
  <2>1. produced' = produced \cup new /\ stream' = stream + 1 /\ UNCHANGED raised
    BY <1>4, <1>5
  <2>2. produced' = FactsUpTo(detector, asset, stream')
    BY <1>1, <1>3, <2>1, FactsGrow DEF new
  <2>3. stream' \in 0..StreamCount(detector, asset)
    BY <1>2, <1>3, <2>1
  <2>4. DeliveredInv'
    BY <1>1, <2>2, <2>3 DEF SignalInv, DeliveredInv
  <2>5. QED
    BY <1>1, <2>1, <2>4 DEF SignalInv, RaisedInv
<1>6. CASE ~ \A f \in new : Legal(f)
  <2>1. raised' = TRUE /\ UNCHANGED <<produced, stream>>
    BY <1>4, <1>6
  <2>2. DeliveredInv'
    BY <1>1, <2>1 DEF SignalInv, DeliveredInv
  <2>3. CASE detector = "video.incidents"
    BY <1>1, <2>2, <2>3 DEF SignalInv, RaisedInv
  <2>4. CASE detector # "video.incidents"
    <3>1. stream + 1 \in 1..Cardinality(StreamsOf(asset, "audio"))
      BY <1>3, <2>4 DEF StreamCount
    <3>2. PICK f \in new : ~ Legal(f)
      BY <1>6
    <3>3. detector # "audio.dualmono"
      <4>1. SUFFICES ASSUME detector = "audio.dualmono" PROVE FALSE
        OBVIOUS
      <4>2. f \in DualMonoFacts(asset, stream + 1)
        BY <4>1 DEF new, FactsOf
      <4>3. QED
        BY <1>1, <3>1, <3>2, <4>2, DualMonoFactsAre
    <3>4. f \in AnalysisFacts(asset, stream + 1)
      BY <1>1, <2>4, <3>3 DEF new, FactsOf
    <3>5. \E i \in DOMAIN asset.streams :
            asset.streams[i].kind = "audio" /\ DurationOf(asset, i) # Unknown
            /\ DurationOf(asset, i) < Len(asset.streams[i].levels)
      BY <1>1, <3>1, <3>2, <3>4, IllegalIsLonger
    <3>6. RaisedInv'
      BY <1>1, <3>5 DEF RaisedInv
    <3>7. QED
      BY <2>2, <3>6 DEF SignalInv
  <2>5. QED
    BY <2>3, <2>4
<1>7. QED
  BY <1>5, <1>6

(* The detectors' facts are delivered whole or not at all. *)
THEOREM SignalInvariant == SignalSpec => []SignalInv
<1>1. SignalInit => SignalInv
  <2>1. SUFFICES ASSUME SignalInit PROVE SignalInv
    OBVIOUS
  <2>2. Past("idle") = {} /\ FactsPast({}, asset) = {}
    BY DEF Past, FactsPast
  <2>3. QED
    BY <2>1, <2>2 DEF SignalInit, SignalInv, DeliveredInv, RaisedInv
<1>2. ASSUME SignalInv, [SignalNext]_signalVars PROVE SignalInv'
  <2>1. CASE Open
    BY <1>2, <2>1, OpenKeeps
  <2>2. CASE AnalyseStream
    BY <1>2, <2>2, AnalyseStreamKeeps
  <2>3. CASE DetectorDone
    <3>1. /\ Runs /\ Leave /\ UNCHANGED <<asset, raised>> /\ broken' = broken
          /\ measured' = measured \cup produced /\ stream = StreamCount(detector, asset)
      BY <2>3 DEF DetectorDone
    <3>2. produced = FactsUpTo(detector, asset, stream)
      BY <1>2, <3>1 DEF SignalInv, DeliveredInv, Runs
    <3>3. QED
      BY <1>2, <3>1, <3>2, LeaveKeeps
  <2>4. CASE ToolFails
    BY <1>2, <2>4, LeaveKeeps DEF ToolFails
  <2>5. CASE ProbeUnreadable
    BY <1>2, <2>5 DEF ProbeUnreadable, SignalInv, DeliveredInv, RaisedInv
  <2>6. CASE UNCHANGED signalVars
    BY <1>2, <2>6 DEF signalVars, SignalInv, DeliveredInv, RaisedInv
  <2>7. QED
    BY <1>2, <2>1, <2>2, <2>3, <2>4, <2>5, <2>6 DEF SignalNext
<1>3. QED
  BY <1>1, <1>2, PTL DEF SignalSpec

(* What was measured of an audio stream is what its analyses found.        *)
LEMMA SoundFacts ==
  ASSUME SignalInv, detector = "done", NEW i \in StreamsOf(asset, "audio")
  PROVE  \E o \in 1..Cardinality(StreamsOf(asset, "audio")) :
           /\ AudioIndex(asset)[o] = i
           /\ "audio.analysis" \notin broken =>
                \A p \in Soundings :
                  {g \in measured : g.parameter = p /\ g.stream = i}
                    = {g \in AnalysisFacts(asset, o) : g.parameter = p}
           /\ "audio.dualmono" \notin broken =>
                {g \in measured : g.parameter = "duplicate_channel_risk" /\ g.stream = i}
                  = {g \in DualMonoFacts(asset, o) : g.parameter = "duplicate_channel_risk"}
<1> DEFINE N == Cardinality(StreamsOf(asset, "audio"))
           All == {"audio.analysis", "audio.dualmono", "video.incidents"}
<1>1. asset \in Assets /\ measured = FactsPast(All \ broken, asset)
  BY DEF SignalInv, DeliveredInv, Past
<1>2. PICK o \in 1..N : AudioIndex(asset)[o] = i
  BY <1>1, StreamsInOrder DEF AudioIndex
<1>3. \A k \in 1..N : AudioIndex(asset)[k] = i => k = o
  BY <1>1, <1>2, StreamsInOrder DEF AudioIndex
<1>4. /\ StreamCount("audio.analysis", asset) = N /\ StreamCount("audio.dualmono", asset) = N
  BY DEF StreamCount
<1> HIDE DEF N
<1>5. \A k \in 1..N : \A f \in AnalysisFacts(asset, k) :
        f.stream = AudioIndex(asset)[k] /\ f.parameter \in Soundings
  BY <1>1, AnalysisFactsAre DEF N
<1>6. \A k \in 1..N : \A f \in DualMonoFacts(asset, k) :
        f.stream = AudioIndex(asset)[k] /\ f.parameter = "duplicate_channel_risk"
  BY <1>1, DualMonoFactsAre DEF N
<1>7. \A f \in VideoFacts(asset) : f.parameter \in Sightings
  BY <1>1, VideoFactsAre DEF Sighted
<1>8. \A f : f \in measured <=>
        \/ "audio.analysis" \notin broken /\ \E k \in 1..N : f \in AnalysisFacts(asset, k)
        \/ "audio.dualmono" \notin broken /\ \E k \in 1..N : f \in DualMonoFacts(asset, k)
        \/ /\ "video.incidents" \notin broken
           /\ \E k \in 1..StreamCount("video.incidents", asset) : f \in VideoFacts(asset)
  <2>1. \A f : f \in measured <=> \E d \in All \ broken : f \in FactsUpTo(d, asset, StreamCount(d, asset))
    BY <1>1 DEF FactsPast
  <2>2. \A d, f : f \in FactsUpTo(d, asset, StreamCount(d, asset)) <=>
                    \E k \in 1..StreamCount(d, asset) : f \in FactsOf(d, asset, k)
    BY DEF FactsUpTo
  <2>3. \A k : /\ FactsOf("audio.analysis", asset, k) = AnalysisFacts(asset, k)
               /\ FactsOf("audio.dualmono", asset, k) = DualMonoFacts(asset, k)
               /\ FactsOf("video.incidents", asset, k) = VideoFacts(asset)
    BY DEF FactsOf
  <2>4. QED
    BY <1>4, <2>1, <2>2, <2>3
<1>9. "duplicate_channel_risk" \notin Soundings /\ "duplicate_channel_risk" \notin Sightings
      /\ \A p \in Soundings : p \notin Sightings
  BY DEF Soundings, Sightings
<1>10. ASSUME "audio.analysis" \notin broken, NEW p \in Soundings
       PROVE  {g \in measured : g.parameter = p /\ g.stream = i}
                = {g \in AnalysisFacts(asset, o) : g.parameter = p}
  <2>1. ASSUME NEW g \in measured, g.parameter = p, g.stream = i PROVE g \in AnalysisFacts(asset, o)
    <3>1. PICK k \in 1..N : g \in AnalysisFacts(asset, k)
      BY <1>6, <1>7, <1>8, <1>9, <1>10, <2>1
    <3>2. k = o
      BY <1>3, <1>5, <2>1, <3>1
    <3>3. QED
      BY <3>1, <3>2
  <2>2. ASSUME NEW g \in AnalysisFacts(asset, o) PROVE g \in measured /\ g.stream = i
    BY <1>2, <1>5, <1>8, <1>10
  <2>3. QED
    BY <2>1, <2>2
<1>11. ASSUME "audio.dualmono" \notin broken
       PROVE  {g \in measured : g.parameter = "duplicate_channel_risk" /\ g.stream = i}
                = {g \in DualMonoFacts(asset, o) : g.parameter = "duplicate_channel_risk"}
  <2>1. ASSUME NEW g \in measured, g.parameter = "duplicate_channel_risk", g.stream = i
        PROVE  g \in DualMonoFacts(asset, o)
    <3>1. PICK k \in 1..N : g \in DualMonoFacts(asset, k)
      BY <1>5, <1>7, <1>8, <1>9, <2>1
    <3>2. k = o
      BY <1>3, <1>6, <2>1, <3>1
    <3>3. QED
      BY <3>1, <3>2
  <2>2. ASSUME NEW g \in DualMonoFacts(asset, o) PROVE g \in measured /\ g.stream = i
    BY <1>2, <1>6, <1>8, <1>11
  <2>3. QED
    BY <2>1, <2>2
<1>12. QED
  BY <1>2, <1>10, <1>11 DEF N

(* What a stream declares is what the detectors take for its length. *)
LEMMA LengthsAgree ==
  ASSUME NEW i
  PROVE  DeclaredLength(i) = DurationOf(asset, i)
BY DEF DeclaredLength, DurationOf

(* The three parts of a sound, from what one analysis found of the stream. *)
LEMMA SoundMatches ==
  ASSUME NEW a \in Assets, NEW o \in 1..Cardinality(StreamsOf(a, "audio")), a = asset,
         NEW i, i = AudioIndex(a)[o],
         NEW x, x = a.streams[i], x.kind = "audio", i \in DOMAIN a.streams,
         TrueLength(i, Len(x.levels)),
         \A p \in Soundings : {g \in measured : g.parameter = p /\ g.stream = i}
                                = {g \in AnalysisFacts(a, o) : g.parameter = p}
  PROVE  SilenceIsReal(i, x) /\ LevelsAreReal(i, x)
<1> DEFINE n == Len(x.levels)
           S == Silences(x)
           spans == InOrder(S)
           T == {t \in DOMAIN x.levels : x.levels[t] < 2}
           F == AnalysisFacts(a, o)
           runs == LowRuns(WindowLog(x), n)
<1>1. x.levels \in Seq(0..2) /\ x.levels # <<>> /\ n \in Nat /\ DOMAIN x.levels = 1..n /\ Unknown \notin Int
  <2>1. x.levels \in Seq(0..2) /\ x.levels # <<>> /\ Unknown \notin Int
    BY SignalAssumption
  <2>2. QED
    BY <2>1
<1>2. DurationOf(a, i) = n
  BY LengthsAgree DEF TrueLength
<1>3. S = Stretches(n, MinSilence, T)
  BY DEF Silences
<1> HIDE DEF n, T
<1>4. Paired(OpenLog(spans, n), n) = spans
  BY <1>1, <1>3, PairedIsInOrder
<1>5. /\ ValuesIn(F, "head_silence") = {HeadLength(spans)}
      /\ ValuesIn(F, "tail_silence") = {TailLength(spans, n)}
      /\ {f \in F : f.parameter = "internal_silence"} = Spans("internal_silence", i, Internal(spans, n))
      /\ {f \in F : f.parameter = "low_rms"} = Spans("low_rms", i, runs)
      /\ {f \in F : f.parameter = "peak_level"} = PeakFacts(i, x)
  <2>1. Paired(OpenLog(InOrder(Silences(x)), Len(x.levels)), DurationOf(a, i)) = spans
    BY <1>2, <1>4 DEF n
  <2>2. DurationOf(a, i) = n
    BY <1>2
  <2> HIDE DEF spans, S, F
  <2>3. QED
    BY <2>1, <2>2, AnalysisFactsAre DEF F
<1> HIDE DEF F
<1>6. \A p \in Soundings : Value(p, i) = ValuesIn(F, p) /\ Timed(p, i) = PlacesIn(F, p)
  BY DEF Value, Timed, ValuesIn, PlacesIn, F
<1>7. {"head_silence", "tail_silence", "internal_silence", "low_rms", "peak_level"} \subseteq Soundings
  BY DEF Soundings
<1>8. /\ {HeadLength(spans)} = IF {s \in S : s.start = 0} = {} THEN {0} ELSE {s.end : s \in {s \in S : s.start = 0}}
      /\ {TailLength(spans, n)} = IF {s \in S : s.end = n} = {} THEN {0} ELSE {n - s.start : s \in {s \in S : s.end = n}}
      /\ Internal(spans, n) = S \ ({s \in S : s.start = 0} \cup {s \in S : s.end = n})
  <2>1. Classified(S, n)
    BY <1>1, <1>3, SilencesMatch
  <2> HIDE DEF S
  <2>2. QED
    BY <2>1 DEF Classified
<1>9. \A s \in S : s = [start |-> s.start, end |-> s.end]
  BY <1>1, <1>3, StretchIs
<1> HIDE DEF S, spans, runs
<1>10. Timed("internal_silence", i) = Internal(spans, n)
  <2>1. \A s \in Internal(spans, n) : s = [start |-> s.start, end |-> s.end]
    BY <1>8, <1>9
  <2>2. {[start |-> f.start, end |-> f.end] : f \in Spans("internal_silence", i, Internal(spans, n))}
          = Internal(spans, n)
    BY <2>1, PlacesOfSpans
  <2>3. Timed("internal_silence", i) = PlacesIn(F, "internal_silence")
    BY <1>6, <1>7
  <2>4. QED
    BY <1>5, <2>2, <2>3 DEF PlacesIn
<1>11. SilenceIsReal(i, x)
  <2>1. Value("head_silence", i) = {HeadLength(spans)} /\ Value("tail_silence", i) = {TailLength(spans, n)}
    BY <1>5, <1>6, <1>7
  <2>2. QED
    BY <1>8, <1>10, <2>1 DEF SilenceIsReal, S, n
<1>12. Timed("low_rms", i) = runs
  <2>1. \A s \in runs : s = [start |-> s.start, end |-> s.end]
    <3> DEFINE w == WindowLog(x)
               E(r) == [start |-> w[r.start + 1].start, end |-> RunEnd(w, r.end, n)]
    <3>1. \A r : E(r) = [start |-> E(r).start, end |-> E(r).end]
      OBVIOUS
    <3>2. runs = {E(r) : r \in Stretches(Len(w), 1, {k \in DOMAIN w : w[k].low})}
      BY DEF runs, LowRuns
    <3> HIDE DEF E
    <3>3. QED
      BY <3>1, <3>2
  <2>2. {[start |-> f.start, end |-> f.end] : f \in Spans("low_rms", i, runs)} = runs
    BY <2>1, PlacesOfSpans
  <2>3. Timed("low_rms", i) = PlacesIn(F, "low_rms")
    BY <1>6, <1>7
  <2>4. QED
    BY <1>5, <2>2, <2>3 DEF PlacesIn
<1>13. Value("peak_level", i) = {f.value : f \in PeakFacts(i, x)}
  <2>1. Value("peak_level", i) = ValuesIn(F, "peak_level")
    BY <1>6, <1>7
  <2>2. QED
    BY <1>5, <2>1 DEF ValuesIn
<1>14. LastOverall = "whole" =>
         \A l \in 1..2 : l \in Value("peak_level", i) <=>
           (\E t \in 1..n : x.levels[t] = l) /\ \A t \in 1..n : x.levels[t] <= l
  <2>1. SUFFICES ASSUME LastOverall = "whole"
                 PROVE  \A l \in 1..2 : l \in Value("peak_level", i) <=>
                          (\E t \in 1..n : x.levels[t] = l) /\ \A t \in 1..n : x.levels[t] <= l
    OBVIOUS
  <2>2. \A l \in 1..2 : l \in {f.value : f \in PeakFacts(i, x)} <=> Highest(x, l)
    BY <1>1, <2>1, PeakMatches
  <2>3. QED
    BY <1>13, <2>2 DEF Highest, n
<1>15. /\ Ticks(runs) = LowTicks(x)
       /\ \A s \in runs : s.start \notin LowTicks(x) /\ s.end + 1 \notin LowTicks(x)
  BY <1>1, LowRunsMatch DEF n, runs
<1>16. LevelsAreReal(i, x)
  BY <1>12, <1>14, <1>15 DEF LevelsAreReal, LowTicks, n
<1>17. QED
  BY <1>11, <1>16

(* What the audio detectors report of a stream that declares its length is *)
(* what can be heard in it: the silences with their places, the low        *)
(* windows as maximal spans, the peak, and whether two channels carry one  *)
(* signal.                                                                 *)
THEOREM SoundCorrect == SignalSpec => []SoundIsReal
<1>1. SignalInv => SoundIsReal
  <2>1. SUFFICES ASSUME SignalInv, detector = "done", NEW i \in DOMAIN asset.streams,
                        asset.streams[i].kind = "audio",
                        TrueLength(i, Len(asset.streams[i].levels))
                 PROVE  LET x == asset.streams[i]
                        IN /\ "audio.analysis" \notin broken => SilenceIsReal(i, x) /\ LevelsAreReal(i, x)
                           /\ "audio.dualmono" \notin broken /\ x.counted => DualMonoIsReal(i, x)
    BY DEF SoundIsReal
  <2> DEFINE x == asset.streams[i]
             N == Cardinality(StreamsOf(asset, "audio"))
  <2>2. asset \in Assets
    BY <2>1 DEF SignalInv, DeliveredInv
  <2>3. i \in StreamsOf(asset, "audio")
    BY <2>1 DEF StreamsOf
  <2>4. PICK o \in 1..N :
           /\ AudioIndex(asset)[o] = i
           /\ "audio.analysis" \notin broken =>
                \A p \in Soundings :
                  {g \in measured : g.parameter = p /\ g.stream = i}
                    = {g \in AnalysisFacts(asset, o) : g.parameter = p}
           /\ "audio.dualmono" \notin broken =>
                {g \in measured : g.parameter = "duplicate_channel_risk" /\ g.stream = i}
                  = {g \in DualMonoFacts(asset, o) : g.parameter = "duplicate_channel_risk"}
    BY <2>1, <2>3, SoundFacts
  <2>5. ASSUME "audio.analysis" \notin broken PROVE SilenceIsReal(i, x) /\ LevelsAreReal(i, x)
    BY <2>1, <2>2, <2>4, <2>5, SoundMatches
  <2>6. ASSUME "audio.dualmono" \notin broken, x.counted PROVE DualMonoIsReal(i, x)
    <3> DEFINE found == Len(x.channels) >= 2 /\ DuplicatePairs(ChannelBlocks(x), Analysed(x)) # {}
               pair == \E c, d \in 1..SmallerOf(Len(x.channels), MaxChannels) :
                         c # d /\ x.channels[c] = x.channels[d] /\ x.channels[c] # "silence"
    <3>1. x.channels \in Seq(STRING)
      BY <2>1, <2>2, SignalAssumption
    <3>2. found <=> pair
      BY <3>1, PairsMatch
    <3>3. ValuesIn(DualMonoFacts(asset, o), "duplicate_channel_risk") = {Truth(found)}
      BY <2>2, <2>4, <2>6, DualMonoFactsAre
    <3>4. Value("duplicate_channel_risk", i) = {Truth(found)}
      BY <2>4, <2>6, <3>3 DEF Value, ValuesIn
    <3> HIDE DEF found, pair
    <3>5. Truth(found) = Truth(pair)
      BY <3>2 DEF Truth
    <3>6. Value("duplicate_channel_risk", i) = {Truth(pair)}
      BY <3>4, <3>5
    <3>7. QED
      BY <3>6 DEF DualMonoIsReal, pair
  <2>7. QED
    BY <2>5, <2>6
<1>2. QED
  BY <1>1, SignalInvariant, PTL

(* What was measured of the first video stream is what its analysis found. *)
LEMMA PictureFacts ==
  ASSUME SignalInv, detector = "done", "video.incidents" \notin broken,
         NEW i \in StreamsOf(asset, "video"), \A j \in StreamsOf(asset, "video") : i <= j
  PROVE  /\ Mapped(asset, "video", 1) = i
         /\ \A p \in Sightings : {g \in measured : g.parameter = p /\ g.stream = i}
                                   = {g \in VideoFacts(asset) : g.parameter = p}
<1> DEFINE All == {"audio.analysis", "audio.dualmono", "video.incidents"}
           N == Cardinality(StreamsOf(asset, "audio"))
<1>1. asset \in Assets /\ measured = FactsPast(All \ broken, asset)
  BY DEF SignalInv, DeliveredInv, Past
<1>2. Mapped(asset, "video", 1) = i
  <2> DEFINE S == StreamsOf(asset, "video")
             q == Arranged(S, {p \in S \X S : p[1] < p[2]})
  <2>1. /\ \A k \in 1..Cardinality(S) : Mapped(asset, "video", k) = q[k]
        /\ \A l \in S : (\A j \in S : l <= j) => 1 \in 1..Cardinality(S) /\ q[1] = l
    BY <1>1, StreamsInOrder
  <2> HIDE DEF q
  <2>2. 1 \in 1..Cardinality(S) /\ q[1] = i
    BY <2>1
  <2>3. QED
    BY <2>1, <2>2
<1>3. /\ StreamCount("video.incidents", asset) = 1
      /\ StreamCount("audio.analysis", asset) = N /\ StreamCount("audio.dualmono", asset) = N
  BY DEF StreamCount
<1> HIDE DEF N
<1>4. \A f \in VideoFacts(asset) : f.stream = i /\ f.parameter \in Sightings
  BY <1>1, <1>2, VideoFactsAre DEF Sighted
<1>5. \A k \in 1..N : \A f \in AnalysisFacts(asset, k) : f.parameter \in Soundings
  BY <1>1, AnalysisFactsAre DEF N
<1>6. \A k \in 1..N : \A f \in DualMonoFacts(asset, k) : f.parameter = "duplicate_channel_risk"
  BY <1>1, DualMonoFactsAre DEF N
<1>7. \A f \in VideoFacts(asset) : f \in measured
  <2>1. SUFFICES ASSUME NEW f \in VideoFacts(asset) PROVE f \in measured
    OBVIOUS
  <2>2. f \in FactsOf("video.incidents", asset, 1) /\ 1 \in 1..1
    BY DEF FactsOf
  <2>3. f \in FactsUpTo("video.incidents", asset, StreamCount("video.incidents", asset))
    BY <1>3, <2>2 DEF FactsUpTo
  <2>4. QED
    BY <1>1, <2>3 DEF FactsPast
<1>8. ASSUME NEW f \in measured, f.parameter \in Sightings PROVE f \in VideoFacts(asset)
  <2>1. PICK d \in All \ broken : f \in FactsUpTo(d, asset, StreamCount(d, asset))
    BY <1>1 DEF FactsPast
  <2>2. PICK k \in 1..StreamCount(d, asset) : f \in FactsOf(d, asset, k)
    BY <2>1 DEF FactsUpTo
  <2>3. "duplicate_channel_risk" \notin Sightings /\ \A p \in Soundings : p \notin Sightings
    BY DEF Soundings, Sightings
  <2>4. d # "audio.analysis"
    BY <1>3, <1>5, <1>8, <2>2, <2>3 DEF FactsOf
  <2>5. d # "audio.dualmono"
    BY <1>3, <1>6, <1>8, <2>2, <2>3 DEF FactsOf
  <2>6. QED
    BY <2>1, <2>2, <2>4, <2>5 DEF FactsOf
<1>9. QED
  BY <1>2, <1>4, <1>7, <1>8

(* The black and the frozen spans of the first video stream, each once.    *)
LEMMA PictureMatches ==
  ASSUME NEW a \in Assets, a = asset,
         NEW i \in DOMAIN a.streams, i = Mapped(a, "video", 1),
         NEW x, x = a.streams[i], x.kind = "video",
         TrueLength(i, Len(x.frames)),
         \A p \in Sightings : {g \in measured : g.parameter = p /\ g.stream = i}
                                = {g \in VideoFacts(a) : g.parameter = p}
  PROVE  /\ Timed("freeze", i) = Freezes(x) /\ Value("freeze_count", i) = {Cardinality(Freezes(x))}
         /\ Timed("black", i) = Blacks(x) /\ Value("black_count", i) = {Cardinality(Blacks(x))}
<1> DEFINE n == Len(x.frames)
           Z == Freezes(x)
           spans == InOrder(Z)
           F == VideoFacts(a)
           T == {t \in 2..n : x.frames[t] = x.frames[t - 1]}
           U == {t \in DOMAIN x.frames : x.frames[t] = 0}
<1>1. n \in Nat /\ Unknown \notin Int
  <2>1. x.frames \in Seq(Nat) /\ Unknown \notin Int
    BY SignalAssumption
  <2>2. QED
    BY <2>1
<1>2. DurationOf(a, i) = n
  BY LengthsAgree DEF TrueLength
<1>3. Z = Stretches(n, MinFreeze, T) /\ Blacks(x) = Stretches(n, MinBlack, U)
  BY DEF Freezes, Blacks
<1> HIDE DEF n, T, U
<1>4. Paired(OpenLog(spans, n), n) = spans
  BY <1>1, <1>3, PairedIsInOrder
<1>5. /\ Cardinality(Z) \in Nat
      /\ spans \in [1..Cardinality(Z) -> Z] /\ DOMAIN spans = 1..Cardinality(Z)
      /\ Len(spans) = Cardinality(Z)
      /\ \A s \in Z : \E k \in 1..Cardinality(Z) : spans[k] = s
  <2>1. Z = Stretches(n, MinFreeze, T)
    BY <1>3
  <2> DEFINE Y == Stretches(n, MinFreeze, T)
  <2>2. /\ Cardinality(Y) \in Nat
        /\ InOrder(Y) \in Seq(Y) /\ Len(InOrder(Y)) = Cardinality(Y)
        /\ DOMAIN InOrder(Y) = 1..Cardinality(Y)
        /\ \A s \in Y : \E k \in 1..Cardinality(Y) : InOrder(Y)[k] = s
    BY <1>1, InOrderIsAll
  <2> HIDE DEF Y
  <2>3. InOrder(Y) \in [1..Cardinality(Y) -> Y]
    BY <2>2
  <2> HIDE DEF Z
  <2>4. Z = Y
    BY <2>1 DEF Y
  <2>5. QED
    BY <2>2, <2>3, <2>4
<1>6. \A s \in Z : s = [start |-> s.start, end |-> s.end]
  BY <1>1, <1>3, StretchIs
<1>7. \A s \in Blacks(x) : s = [start |-> s.start, end |-> s.end]
  BY <1>1, <1>3, StretchIs
<1>8. /\ ValuesIn(F, "black_count") = {Cardinality(Blacks(x))}
      /\ ValuesIn(F, "freeze_count") = {Len(spans)}
      /\ {f \in F : f.parameter = "black"} = Spans("black", i, Blacks(x))
      /\ {f \in F : f.parameter = "freeze"}
           = Spans("freeze", i, {spans[k] : k \in DOMAIN spans})
  <2>1. Paired(OpenLog(InOrder(Freezes(x)), Len(x.frames)), DurationOf(a, i)) = spans
    BY <1>2, <1>4 DEF n
  <2>2. Sighted(VideoFacts(a), Mapped(a, "video", 1), a.streams[Mapped(a, "video", 1)],
                Paired(OpenLog(InOrder(Freezes(a.streams[Mapped(a, "video", 1)])),
                               Len(a.streams[Mapped(a, "video", 1)].frames)),
                       DurationOf(a, Mapped(a, "video", 1))))
    BY VideoFactsAre
  <2> HIDE DEF spans, Z, F
  <2>3. Sighted(VideoFacts(a), i, x, spans)
    BY <2>1, <2>2
  <2>4. QED
    BY <2>3 DEF Sighted, F
<1> HIDE DEF F, Z, spans
<1>9. \A p \in Sightings : Value(p, i) = ValuesIn(F, p) /\ Timed(p, i) = PlacesIn(F, p)
  BY DEF Value, Timed, ValuesIn, PlacesIn, F
<1>10. {"black_count", "freeze_count", "black", "freeze"} \subseteq Sightings
  BY DEF Sightings
<1>11. {spans[k] : k \in DOMAIN spans} = Z
  BY <1>5
<1>12. Timed("freeze", i) = Z
  <2>1. {[start |-> f.start, end |-> f.end] : f \in Spans("freeze", i, Z)} = Z
    BY <1>6, PlacesOfSpans
  <2>2. Timed("freeze", i) = PlacesIn(F, "freeze")
    BY <1>9, <1>10
  <2>3. QED
    BY <1>8, <1>11, <2>1, <2>2 DEF PlacesIn
<1>13. Timed("black", i) = Blacks(x)
  <2>1. {[start |-> f.start, end |-> f.end] : f \in Spans("black", i, Blacks(x))} = Blacks(x)
    BY <1>7, PlacesOfSpans
  <2>2. Timed("black", i) = PlacesIn(F, "black")
    BY <1>9, <1>10
  <2>3. QED
    BY <1>8, <2>1, <2>2 DEF PlacesIn
<1>14. Value("black_count", i) = {Cardinality(Blacks(x))} /\ Value("freeze_count", i) = {Len(spans)}
  BY <1>8, <1>9, <1>10
<1>15. QED
  BY <1>5, <1>12, <1>13, <1>14 DEF Z

(* The black and the frozen spans of the first video stream are all there  *)
(* is, one event each, when the stream declares its length; and an analysis *)
(* ends early only for an unreadable answer of ffprobe or a sound that is   *)
(* longer than it declares.                                                *)
THEOREM PictureCorrect == SignalSpec => []PictureIsReal
<1>1. SignalInv => PictureIsReal
  <2>1. SUFFICES ASSUME SignalInv PROVE PictureIsReal
    OBVIOUS
  <2>2. ASSUME detector = "done", "video.incidents" \notin broken,
               NEW i \in DOMAIN asset.streams, asset.streams[i].kind = "video",
               \A k \in 1..(i - 1) : asset.streams[k].kind # "video",
               TrueLength(i, Len(asset.streams[i].frames))
        PROVE  LET x == asset.streams[i]
               IN /\ Timed("freeze", i) = Freezes(x) /\ Value("freeze_count", i) = {Cardinality(Freezes(x))}
                  /\ Timed("black", i) = Blacks(x) /\ Value("black_count", i) = {Cardinality(Blacks(x))}
    <3>1. asset \in Assets
      BY <2>1, <2>2 DEF SignalInv, DeliveredInv
    <3>2. i \in StreamsOf(asset, "video")
      BY <2>2 DEF StreamsOf
    <3>3. ASSUME NEW j \in StreamsOf(asset, "video") PROVE i <= j
      <4>1. j \in DOMAIN asset.streams /\ asset.streams[j].kind = "video"
        BY DEF StreamsOf
      <4>2. DOMAIN asset.streams = 1..Len(asset.streams) /\ Len(asset.streams) \in Nat
        BY <3>1, SignalAssumption
      <4>3. i \in Nat /\ j \in Nat /\ j >= 1
        BY <2>2, <4>1, <4>2
      <4>4. j < i => j \in 1..(i - 1)
        BY <4>3
      <4>5. QED
        BY <2>2, <4>1, <4>3, <4>4
    <3>4. /\ Mapped(asset, "video", 1) = i
          /\ \A p \in Sightings : {g \in measured : g.parameter = p /\ g.stream = i}
                                    = {g \in VideoFacts(asset) : g.parameter = p}
      BY <2>1, <2>2, <3>2, <3>3, PictureFacts
    <3>5. QED
      BY <2>2, <3>1, <3>4, PictureMatches
  <2>3. raised => \/ detector = "video.incidents"
                  \/ \E i \in DOMAIN asset.streams :
                       asset.streams[i].kind = "audio" /\ DeclaredLength(i) # Unknown
                       /\ DeclaredLength(i) < Len(asset.streams[i].levels)
    BY <2>1, LengthsAgree DEF SignalInv, RaisedInv
  <2>4. QED
    BY <2>2, <2>3 DEF PictureIsReal
<1>2. QED
  BY <1>1, SignalInvariant, PTL
=============================================================================
