--------------------------- MODULE DurabilityProofs ---------------------------
(***************************************************************************)
(* ReturnedIsStored and SummaryCountsReading for any number of clients,    *)
(* times, values and rows.                                                 *)
(*                                                                         *)
(* What holds of a request follows from the order of the awaits it has     *)
(* left: a reading that is taken is inserted later, an insert is committed *)
(* later, and nothing is taken after an insert or an aggregate.  The rows  *)
(* only grow, except in a crash, which leaves those that are committed.    *)
(***************************************************************************)
EXTENDS MeterProofs, SequenceTheorems, FiniteSetTheorems

-----------------------------------------------------------------------------
(* The order of the awaits *)

Takes == {"FUNC1?", "MEAS1?"}

InOrder(q) ==
  \A i \in 1 .. Len(q) :
    /\ q[i] \in Takes => \E j \in i + 1 .. Len(q) : q[j] = "insert"
    /\ q[i] = "insert" => \E j \in i + 1 .. Len(q) : q[j] = "commit"
    /\ q[i] \in {"insert", "aggregate"} =>
         \A j \in i + 1 .. Len(q) : q[j] \notin Takes \cup {"insert"}

\* The tail of a list in order is in order, and continues what its head began.
LEMMA InOrderTail ==
  ASSUME NEW q \in Seq(Steps), q # <<>>, InOrder(q)
  PROVE  /\ InOrder(Tail(q))
         /\ Head(q) \in Takes => Has(Tail(q), "insert")
         /\ Head(q) = "insert" => Has(Tail(q), "commit")
         /\ Head(q) \in {"insert", "aggregate"} =>
              \A x \in Takes \cup {"insert"} : ~Has(Tail(q), x)
<1> DEFINE t == Tail(q)
<1>1. /\ Len(t) = Len(q) - 1 /\ Len(q) \in Nat \ {0} /\ Head(q) = q[1]
      /\ \A i \in 1 .. Len(q) - 1 : t[i] = q[i + 1]
  BY TailOf
<1> HIDE DEF t
<1>2. \A i \in 1 .. Len(t) : i + 1 \in 1 .. Len(q) /\ t[i] = q[i + 1]
  BY <1>1
<1>3. ASSUME NEW i \in 1 .. Len(q), NEW j \in i + 1 .. Len(q)
      PROVE  j - 1 \in i .. Len(t) /\ j - 1 \in 1 .. Len(t) /\ t[j - 1] = q[j]
  BY <1>1
<1>4. ASSUME NEW i \in 1 .. Len(t), NEW j \in i + 1 .. Len(t)
      PROVE  j + 1 \in (i + 1) + 1 .. Len(q) /\ t[j] = q[j + 1]
  BY <1>1
<1>5. InOrder(t)
  <2> SUFFICES ASSUME NEW i \in 1 .. Len(t)
               PROVE  /\ t[i] \in Takes => \E j \in i + 1 .. Len(t) : t[j] = "insert"
                      /\ t[i] = "insert" => \E j \in i + 1 .. Len(t) : t[j] = "commit"
                      /\ t[i] \in {"insert", "aggregate"} =>
                           \A j \in i + 1 .. Len(t) : t[j] \notin Takes \cup {"insert"}
    BY DEF InOrder
  <2>1. i + 1 \in 1 .. Len(q) /\ t[i] = q[i + 1]
    BY <1>2
  <2>2. ASSUME t[i] \in Takes PROVE \E j \in i + 1 .. Len(t) : t[j] = "insert"
    <3>1. PICK j \in (i + 1) + 1 .. Len(q) : q[j] = "insert"
      BY <2>1, <2>2 DEF InOrder
    <3> QED  BY <3>1, <2>1, <1>3
  <2>3. ASSUME t[i] = "insert" PROVE \E j \in i + 1 .. Len(t) : t[j] = "commit"
    <3>1. PICK j \in (i + 1) + 1 .. Len(q) : q[j] = "commit"
      BY <2>1, <2>3 DEF InOrder
    <3> QED  BY <3>1, <2>1, <1>3
  <2>4. ASSUME t[i] \in {"insert", "aggregate"}, NEW j \in i + 1 .. Len(t)
        PROVE  t[j] \notin Takes \cup {"insert"}
    BY <2>1, <2>4, <1>4 DEF InOrder
  <2> QED  BY <2>2, <2>3, <2>4
<1>6. 1 \in 1 .. Len(q)
  BY <1>1
<1>7. ASSUME Head(q) \in Takes PROVE Has(t, "insert")
  <2>1. PICK j \in 1 + 1 .. Len(q) : q[j] = "insert"
    BY <1>1, <1>6, <1>7 DEF InOrder
  <2> QED  BY <2>1, <1>3, <1>6 DEF Has
<1>8. ASSUME Head(q) = "insert" PROVE Has(t, "commit")
  <2>1. PICK j \in 1 + 1 .. Len(q) : q[j] = "commit"
    BY <1>1, <1>6, <1>8 DEF InOrder
  <2> QED  BY <2>1, <1>3, <1>6 DEF Has
<1>9. ASSUME Head(q) \in {"insert", "aggregate"}, NEW x \in Takes \cup {"insert"}
      PROVE  ~Has(t, x)
  <2>1. \A j \in 1 + 1 .. Len(q) : q[j] # x
    BY <1>1, <1>6, <1>9 DEF InOrder
  <2>2. \A j \in 1 .. Len(t) : j + 1 \in 1 + 1 .. Len(q) /\ t[j] = q[j + 1]
    BY <1>1
  <2> QED  BY <2>1, <2>2 DEF Has
<1> QED  BY <1>5, <1>7, <1>8, <1>9 DEF t

\* Two lists in order make one, when nothing of the second is out of order
\* after the first.
LEMMA InOrderJoin ==
  ASSUME NEW q \in Seq(Steps), NEW r \in Seq(Steps), InOrder(q), InOrder(r),
         \A x \in Takes \cup {"insert"} : ~Has(r, x)
  PROVE  InOrder(q \o r)
<1> DEFINE u == q \o r
<1>1. /\ Len(u) = Len(q) + Len(r) /\ Len(q) \in Nat /\ Len(r) \in Nat
      /\ \A i \in 1 .. Len(q) : u[i] = q[i]
      /\ \A i \in 1 .. Len(r) : u[Len(q) + i] = r[i]
  <2>1. Len(u) = Len(q) + Len(r) /\ Len(q) \in Nat /\ Len(r) \in Nat
    OBVIOUS
  <2>2. \A i \in 1 .. Len(q) : u[i] = q[i]
    OBVIOUS
  <2>3. \A i \in 1 .. Len(r) : u[Len(q) + i] = r[i]
    BY JoinHas
  <2> QED  BY <2>1, <2>2, <2>3
<1> HIDE DEF u
<1>2. ASSUME NEW i \in 1 .. Len(u), i > Len(q)
      PROVE  i - Len(q) \in 1 .. Len(r) /\ u[i] = r[i - Len(q)]
  <2>1. i - Len(q) \in 1 .. Len(r) /\ Len(q) + (i - Len(q)) = i
    BY <1>1, <1>2
  <2> QED  BY <2>1, <1>1
<1>3. ASSUME NEW i \in 1 .. Len(u), i > Len(q)
      PROVE  u[i] \notin Takes \cup {"insert"}
  BY <1>2, <1>3 DEF Has
<1>4. SUFFICES ASSUME NEW i \in 1 .. Len(u)
               PROVE  /\ u[i] \in Takes => \E j \in i + 1 .. Len(u) : u[j] = "insert"
                      /\ u[i] = "insert" => \E j \in i + 1 .. Len(u) : u[j] = "commit"
                      /\ u[i] \in {"insert", "aggregate"} =>
                           \A j \in i + 1 .. Len(u) : u[j] \notin Takes \cup {"insert"}
  BY DEF InOrder, u
<1>5. CASE i > Len(q)
  <2>1. \A j \in i + 1 .. Len(u) : j \in 1 .. Len(u) /\ j > Len(q)
    BY <1>1, <1>5
  <2> QED  BY <1>3, <1>5, <2>1
<1>6. CASE ~(i > Len(q))
  <2>1. i \in 1 .. Len(q) /\ u[i] = q[i]
    BY <1>1, <1>6
  <2>2. \A j \in i + 1 .. Len(q) : j \in i + 1 .. Len(u) /\ u[j] = q[j]
    BY <1>1, <2>1
  <2>3. \A j \in i + 1 .. Len(u) : (j \in i + 1 .. Len(q) /\ u[j] = q[j]) \/ (j \in 1 .. Len(u) /\ j > Len(q))
    BY <1>1, <2>1
  <2>4. /\ q[i] \in Takes => \E j \in i + 1 .. Len(q) : q[j] = "insert"
        /\ q[i] = "insert" => \E j \in i + 1 .. Len(q) : q[j] = "commit"
        /\ q[i] \in {"insert", "aggregate"} =>
             \A j \in i + 1 .. Len(q) : q[j] \notin Takes \cup {"insert"}
    BY <2>1 DEF InOrder
  <2>5. u[i] \in Takes => \E j \in i + 1 .. Len(u) : u[j] = "insert"
    BY <2>1, <2>2, <2>4
  <2>6. u[i] = "insert" => \E j \in i + 1 .. Len(u) : u[j] = "commit"
    BY <2>1, <2>2, <2>4
  <2>7. ASSUME u[i] \in {"insert", "aggregate"}, NEW j \in i + 1 .. Len(u)
        PROVE  u[j] \notin Takes \cup {"insert"}
    BY <2>1, <2>3, <2>4, <2>7, <1>3
  <2> QED  BY <2>5, <2>6, <2>7
<1> QED  BY <1>5, <1>6

\* A list without readings and inserts is in order.
LEMMA InOrderFree ==
  ASSUME NEW q \in Seq(Steps), \A x \in Takes \cup {"insert"} : ~Has(q, x)
  PROVE  InOrder(q)
<1>1. \A i \in 1 .. Len(q) : q[i] \notin Takes \cup {"insert"}
  BY DEF Has
<1>2. \A i \in 1 .. Len(q) : \A j \in i + 1 .. Len(q) : j \in 1 .. Len(q)
  OBVIOUS
<1> QED  BY <1>1, <1>2 DEF InOrder

\* The awaits of _take_reading are in order.
LEMMA InOrderTake == InOrder(TakeReading)
<1>1. Len(TakeReading) = 4
  BY DEF TakeReading
<1>2. /\ TakeReading[1] = "FUNC1?" /\ TakeReading[2] = "MEAS1?"
      /\ TakeReading[3] = "insert" /\ TakeReading[4] = "commit"
  BY DEF TakeReading
<1>3. SUFFICES ASSUME NEW i \in 1 .. 4
               PROVE  /\ TakeReading[i] \in Takes => \E j \in i + 1 .. 4 : TakeReading[j] = "insert"
                      /\ TakeReading[i] = "insert" => \E j \in i + 1 .. 4 : TakeReading[j] = "commit"
                      /\ TakeReading[i] \in {"insert", "aggregate"} =>
                           \A j \in i + 1 .. 4 : TakeReading[j] \notin Takes \cup {"insert"}
  BY <1>1 DEF InOrder
<1>4. i \in {1, 2, 3, 4}
  OBVIOUS
<1>5. CASE i \in {1, 2}
  <2>1. 3 \in i + 1 .. 4
    BY <1>5
  <2> QED  BY <1>2, <1>5, <2>1
<1>6. CASE i = 3
  <2>1. i + 1 .. 4 = {4}
    BY <1>6
  <2> QED  BY <1>2, <1>6, <2>1 DEF Takes
<1>7. CASE i = 4
  BY <1>2, <1>7 DEF Takes
<1> QED  BY <1>4, <1>5, <1>6, <1>7

\* Every endpoint's awaits are in order; who inserts or aggregates takes a
\* reading first, and the two that show a summary aggregate.
LEMMA AwaitsInOrder ==
  ASSUME NEW p \in Reads \cup {"measurement", "smoothed"}
  PROVE  /\ Awaits(p) \in Seq(Steps) /\ InOrder(Awaits(p))
         /\ Has(Awaits(p), "insert") \/ Has(Awaits(p), "aggregate") =>
              Has(Awaits(p), "FUNC1?") /\ Has(Awaits(p), "MEAS1?") /\ Has(Awaits(p), "insert")
         /\ p \in {"status", "smoothed"} => Has(Awaits(p), "aggregate")
<1> DEFINE last  == <<"aggregate">>
           first == <<"set">>
           both  == TakeReading \o ReadState
<1>a. last \in Seq(Steps) /\ \A s : Has(last, s) <=> s = "aggregate"
  BY OneHas, "aggregate" \in Steps DEF Steps
<1>b. first \in Seq(Steps) /\ \A s : Has(first, s) <=> s = "set"
  BY OneHas, "set" \in Steps DEF Steps
<1>c. both \in Seq(Steps) /\ \A s : Has(both, s) <=> Has(TakeReading, s) \/ Has(ReadState, s)
  BY TakeHas, ReadHas, JoinHas
<1> HIDE DEF last, first
<1>d. InOrder(both)
  BY TakeHas, ReadHas, InOrderTake, InOrderFree, InOrderJoin DEF Takes
<1> HIDE DEF both
<1>e. InOrder(last)
  BY <1>a, InOrderFree DEF Takes
<1>1. CASE p = "measurement"
  <2>1. Awaits(p) = TakeReading
    BY <1>1 DEF Awaits
  <2> QED  BY <2>1, <1>1, TakeHas, InOrderTake
<1>2. CASE p = "smoothed"
  <2>1. Awaits(p) = TakeReading \o last
    BY <1>2 DEF Awaits, last
  <2>2. Awaits(p) \in Seq(Steps)
        /\ \A s : Has(Awaits(p), s) <=> Has(TakeReading, s) \/ Has(last, s)
    BY <2>1, <1>a, TakeHas, JoinHas
  <2>3. InOrder(Awaits(p))
    BY <2>1, <1>a, <1>e, TakeHas, InOrderTake, InOrderJoin DEF Takes
  <2> QED  BY <2>2, <2>3, <1>a, TakeHas
<1>3. CASE p = "state"
  <2>1. Awaits(p) = ReadState
    BY <1>3 DEF Awaits
  <2> QED  BY <2>1, <1>3, ReadHas, InOrderFree DEF Takes
<1>4. CASE p = "status"
  <2>1. Awaits(p) = both \o last
    BY <1>4 DEF Awaits, both, last
  <2>2. Awaits(p) \in Seq(Steps)
        /\ \A s : Has(Awaits(p), s) <=> Has(both, s) \/ Has(last, s)
    BY <2>1, <1>a, <1>c, JoinHas
  <2>3. InOrder(Awaits(p))
    BY <2>1, <1>a, <1>c, <1>d, <1>e, InOrderJoin DEF Takes
  <2> QED  BY <2>2, <2>3, <1>a, <1>c, TakeHas
<1>5. CASE p \in {"function", "rate", "auto-range"}
  <2>1. Awaits(p) = first \o ReadState
    BY <1>5 DEF Awaits, SetThenRead, first
  <2>2. Awaits(p) \in Seq(Steps)
        /\ \A s : Has(Awaits(p), s) <=> Has(first, s) \/ Has(ReadState, s)
    BY <2>1, <1>b, ReadHas, JoinHas
  <2>3. InOrder(Awaits(p))
    BY <2>2, <1>b, ReadHas, InOrderFree DEF Takes
  <2> QED  BY <2>2, <2>3, <1>b, <1>5, ReadHas
<1> QED  BY <1>1, <1>2, <1>3, <1>4, <1>5 DEF Reads

-----------------------------------------------------------------------------
(* Extremes, by the least element of a set of natural numbers *)

\* A set of natural numbers has a least element.
LEMMA LeastOf ==
  ASSUME NEW S \in SUBSET Nat, S # {}
  PROVE  \E m \in S : \A k \in S : m =< k
<1>1. PICK m \in S : \A k \in S : <<k, m>> \notin OpToRel(<, Nat)
  BY NatLessThanWellFounded, WFMin
<1>2. \A k \in S : ~(k < m)
  BY <1>1 DEF OpToRel
<1> QED  BY <1>2

\* Finitely many natural numbers have an upper bound.
LEMMA BoundOf ==
  ASSUME NEW n \in Nat, NEW f \in [1 .. n -> Nat]
  PROVE  \E b \in Nat : \A i \in 1 .. n : f[i] =< b
<1> DEFINE Bounded(k) == \E b \in Nat : \A i \in 1 .. k : f[i] =< b
           unbounded  == {k \in 0 .. n : ~Bounded(k)}
<1>1. SUFFICES ASSUME unbounded # {} PROVE FALSE
  <2>1. n \in 0 .. n
    OBVIOUS
  <2> QED  BY <2>1
<1>2. PICK k \in unbounded : \A l \in unbounded : k =< l
  <2>1. unbounded \in SUBSET Nat
    OBVIOUS
  <2> HIDE DEF unbounded
  <2> QED  BY <1>1, <2>1, LeastOf
<1>3. k # 0
  <2>1. 0 \in Nat /\ 1 .. 0 = {}
    OBVIOUS
  <2>2. Bounded(0)
    BY <2>1
  <2> QED  BY <2>2, <1>2
<1>4. k \in 1 .. n /\ k - 1 \in 0 .. n /\ ~(k =< k - 1)
  BY <1>3
<1>5. PICK b \in Nat : \A i \in 1 .. k - 1 : f[i] =< b
  BY <1>2, <1>4
<1>6. PICK c \in Nat : b =< c /\ f[k] =< c
  <2>1. f[k] \in Nat
    BY <1>4
  <2>2. CASE f[k] =< b
    BY <2>2
  <2>3. CASE b =< f[k]
    BY <2>1, <2>3
  <2> QED  BY <2>1, <2>2, <2>3
<1>7. \A i \in 1 .. k : i = k \/ i \in 1 .. k - 1
  BY <1>4
<1>8. \A i \in 1 .. k : f[i] =< c
  <2> TAKE i \in 1 .. k
  <2>1. f[i] \in Nat
    BY <1>4
  <2>2. CASE i = k
    BY <2>2, <1>6
  <2>3. CASE i \in 1 .. k - 1
    BY <2>1, <2>3, <1>5, <1>6
  <2> QED  BY <2>2, <2>3, <1>7
<1>9. Bounded(k)
  BY <1>8
<1> QED  BY <1>2, <1>9

\* A bounded set of natural numbers has a greatest element.
LEMMA GreatestOf ==
  ASSUME NEW S \in SUBSET Nat, S # {}, NEW b \in Nat, \A x \in S : x =< b
  PROVE  \E m \in S : \A x \in S : m >= x
<1> DEFINE above == {k \in Nat : \A x \in S : x =< k}
<1>1. PICK m \in above : \A k \in above : m =< k
  <2>1. b \in above
    OBVIOUS
  <2>2. above \in SUBSET Nat /\ above # {}
    BY <2>1
  <2> HIDE DEF above
  <2> QED  BY <2>2, LeastOf
<1>2. m \in S
  <2>1. SUFFICES ASSUME m \notin S PROVE FALSE
    OBVIOUS
  <2>2. PICK x \in S : TRUE
    OBVIOUS
  <2>3. \A y \in S : y =< m /\ y # m
    BY <2>1
  <2>4. m - 1 \in Nat /\ \A y \in S : y =< m - 1
    <3>1. m \in Nat /\ x \in Nat /\ x =< m /\ x # m
      BY <2>3
    <3>2. m - 1 \in Nat
      BY <3>1
    <3>3. ASSUME NEW y \in S PROVE y =< m - 1
      <4>1. y \in Nat /\ y =< m /\ y # m
        BY <2>3
      <4> QED  BY <4>1, <3>1
    <3> QED  BY <3>2, <3>3
  <2>5. m =< m - 1
    BY <2>4, <1>1
  <2> QED  BY <2>5
<1>3. \A x \in S : m >= x
  <2> TAKE x \in S
  <2>1. x \in Nat /\ m \in Nat /\ x =< m
    BY <1>1
  <2> QED  BY <2>1
<1> QED  BY <1>2, <1>3

-----------------------------------------------------------------------------
(* The aggregate *)

\* what a row of the table is
WholeReading == [ts: Times, function: Functions, value: Values, of: Functions \cup {None}]

SummaryNumbers == [count: Nat, min: Values \cup {None}, max: Values \cup {None}]

\* Of a table of whole readings, an aggregate counts each row of its window,
\* and its extremes are about it.
LEMMA AggregateOf ==
  ASSUME NEW table \in Seq(WholeReading), NEW q
  PROVE  /\ Aggregate(table, q) \in SummaryNumbers
         /\ Aggregate(table, q).count =< Len(table)
         /\ \A k \in Where(table, q) :
              /\ Aggregate(table, q).count > 0
              /\ Aggregate(table, q).min =< table[k].value
              /\ table[k].value =< Aggregate(table, q).max
<1> DEFINE found  == Where(table, q)
           values == {table[i].value : i \in found}
<1>1. Len(table) \in Nat /\ found \subseteq 1 .. Len(table)
      /\ \A i \in 1 .. Len(table) : table[i].value \in Values /\ table[i].value \in Nat
  <2>1. DOMAIN table = 1 .. Len(table) /\ Len(table) \in Nat
    OBVIOUS
  <2>2. \A i \in 1 .. Len(table) : table[i] \in WholeReading
    OBVIOUS
  <2>3. found \subseteq DOMAIN table
    BY DEF Where
  <2> QED  BY <2>1, <2>2, <2>3, MeterConstants DEF WholeReading
<1>2. IsFiniteSet(found) /\ Cardinality(found) \in Nat /\ Cardinality(found) =< Len(table)
      /\ (Cardinality(found) = 0 <=> found = {})
  <2>1. IsFiniteSet(1 .. Len(table)) /\ Cardinality(1 .. Len(table)) = Len(table)
    <3>1. 1 \in Int /\ Len(table) \in Int
      BY <1>1
    <3>2. /\ IsFiniteSet(1 .. Len(table))
          /\ Cardinality(1 .. Len(table)) = IF 1 > Len(table) THEN 0 ELSE Len(table) - 1 + 1
      BY <3>1, FS_Interval
    <3> QED  BY <1>1, <3>2
  <2> HIDE DEF found
  <2>2. IsFiniteSet(found) /\ Cardinality(found) =< Len(table)
    BY <1>1, <2>1, FS_Subset
  <2> QED  BY <2>2, FS_CardinalityType, FS_EmptySet
<1>3. Aggregate(table, q) = [count |-> Cardinality(found),
                             min |-> IF found = {} THEN None ELSE Min(values),
                             max |-> IF found = {} THEN None ELSE Max(values)]
  BY DEF Aggregate
<1> HIDE DEF found
<1>4. CASE found = {}
  BY <1>2, <1>3, <1>4 DEF SummaryNumbers, found
<1>5. CASE found # {}
  <2>1. values \in SUBSET Nat /\ values \subseteq Values /\ values # {}
    BY <1>1, <1>5
  <2>2. PICK b \in Nat : \A x \in values : x =< b
    <3> DEFINE f == [i \in 1 .. Len(table) |-> table[i].value]
    <3>1. f \in [1 .. Len(table) -> Nat]
      BY <1>1
    <3>2. \A i \in found : f[i] = table[i].value
      BY <1>1
    <3> HIDE DEF f
    <3>3. PICK b \in Nat : \A i \in 1 .. Len(table) : f[i] =< b
      BY <3>1, <1>1, BoundOf
    <3> QED  BY <3>2, <3>3, <1>1
  <2> HIDE DEF values
  <2>3. Min(values) \in values /\ \A x \in values : Min(values) =< x
    BY <2>1, LeastOf DEF Min
  <2>4. Max(values) \in values /\ \A x \in values : Max(values) >= x
    BY <2>1, <2>2, GreatestOf DEF Max
  <2>5. \A k \in found : table[k].value \in values
    BY DEF values
  <2>6. Cardinality(found) > 0
    BY <1>2, <1>5
  <2>7. /\ Aggregate(table, q).count = Cardinality(found)
        /\ Aggregate(table, q).min = Min(values)
        /\ Aggregate(table, q).max = Max(values)
        /\ Aggregate(table, q) \in SummaryNumbers
    <3>1. Min(values) \in Values /\ Max(values) \in Values
      BY <2>1, <2>3, <2>4
    <3>2. Aggregate(table, q) = [count |-> Cardinality(found), min |-> Min(values), max |-> Max(values)]
      BY <1>3, <1>5 DEF values
    <3> QED  BY <1>2, <3>1, <3>2 DEF SummaryNumbers
  <2>8. ASSUME NEW k \in found
        PROVE  Min(values) =< table[k].value /\ table[k].value =< Max(values)
    <3>1. table[k].value \in Nat /\ Max(values) \in Nat /\ Max(values) >= table[k].value
      BY <2>1, <2>4, <2>5
    <3> QED  BY <3>1, <2>3, <2>5
  <2> QED  BY <1>2, <2>6, <2>7, <2>8 DEF found
<1> QED  BY <1>4, <1>5

-----------------------------------------------------------------------------
(* The inductive invariant *)

\* the reading of c is one of the first n rows
Among(c, n) == \E i \in 1 .. n : rows[i] = reading[c]

\* what the reading lacks is still to be taken
Filled(c) ==
  /\ reading[c].function = None => Has(todo[c], "FUNC1?")
  /\ reading[c].value = None \/ reading[c].ts = None => Has(todo[c], "MEAS1?")

\* the summary counts the reading, when it is about its function
Counts(c) ==
  request[c].arg \in {None, reading[c].function} =>
    /\ summary[c].count > 0
    /\ summary[c].min =< reading[c].value
    /\ reading[c].value =< summary[c].max

Shows == {"status", "smoothed"}

Kept(c) ==
  /\ InOrder(todo[c])
  /\ Has(todo[c], "insert") \/ Has(todo[c], "aggregate") => Filled(c)
  /\ reading[c] # NoReading /\ ~Has(todo[c], "insert") =>
       Among(c, IF Has(todo[c], "commit") THEN Len(rows) ELSE committed)
  /\ request[c].path \in Shows /\ ~Has(todo[c], "aggregate") =>
       Counts(c) /\ \A x \in Takes : ~Has(todo[c], x)

Table ==
  /\ rows \in Seq(WholeReading) /\ committed \in 0 .. Len(rows)
  /\ summary \in [Clients -> SummaryNumbers]

KInv ==
  /\ Table
  /\ \A c \in Clients : Pending(c) \/ Answered(c) => Kept(c)
  /\ \A c \in Clients : Answered(c) => todo[c] = <<>>

\* Nothing is in the table.
LEMMA InitKept == Init => KInv
  BY DEF Init, KInv, Table, Pending, Answered, NoSummary, SummaryNumbers

\* An empty list has nothing.
LEMMA HasNone == \A x : ~Has(<<>>, x)
  BY DEF Has

\* An answered request has nothing left to insert, to commit or to aggregate.
LEMMA KeptImplies == KInv => ReturnedIsStored /\ SummaryCountsReading
<1> SUFFICES ASSUME KInv PROVE ReturnedIsStored /\ SummaryCountsReading
  OBVIOUS
<1>1. ASSUME NEW c \in Clients, Answered(c)
      PROVE  /\ reading[c] # NoReading => Among(c, committed)
             /\ request[c].path \in Shows => Counts(c)
  <2>1. \A x : ~Has(todo[c], x)
    BY <1>1, HasNone DEF KInv
  <2> QED  BY <1>1, <2>1 DEF KInv, Kept
<1>2. ReturnedIsStored
  BY <1>1 DEF ReturnedIsStored, Among
<1>3. SummaryCountsReading
  <2> SUFFICES ASSUME NEW c \in Clients, Answered(c), request[c].path \in Shows,
                      request[c].arg \in {None, reading[c].function}
               PROVE  /\ summary[c].count > 0
                      /\ summary[c].min <= reading[c].value /\ reading[c].value <= summary[c].max
    BY DEF SummaryCountsReading, Shows
  <2> QED  BY <1>1 DEF Counts
<1> QED  BY <1>2, <1>3

-----------------------------------------------------------------------------
(* One step *)

\* rows are only appended, and what is committed stays so
Grown ==
  /\ Len(rows) =< Len(rows') /\ committed =< committed'
  /\ \A i \in 1 .. Len(rows) : rows'[i] = rows[i]

\* A client that does nothing keeps its reading in a growing table.
LEMMA KeptStill ==
  ASSUME Table, Table', Grown, NEW d \in Clients, Kept(d), todo'[d] = todo[d],
         request'[d] = request[d], reading'[d] = reading[d], summary'[d] = summary[d]
  PROVE  Kept(d)'
<1>1. /\ Len(rows) \in Nat /\ Len(rows') \in Nat /\ committed \in 0 .. Len(rows)
      /\ committed' \in 0 .. Len(rows')
  BY DEF Table
<1>2. ASSUME NEW n \in {Len(rows), committed}, NEW m \in {Len(rows'), committed'},
             n =< m, Among(d, n)
      PROVE  \E i \in 1 .. m : rows'[i] = reading'[d]
  <2>1. PICK i \in 1 .. n : rows[i] = reading[d]
    BY <1>2 DEF Among
  <2>2. i \in 1 .. Len(rows) /\ i \in 1 .. m
    BY <1>1, <1>2
  <2> QED  BY <2>1, <2>2 DEF Grown
<1>3. reading[d] # NoReading /\ ~Has(todo[d], "insert") =>
        Among(d, IF Has(todo[d], "commit") THEN Len(rows) ELSE committed)'
  <2> SUFFICES ASSUME reading[d] # NoReading, ~Has(todo[d], "insert")
               PROVE  Among(d, IF Has(todo[d], "commit") THEN Len(rows) ELSE committed)'
    OBVIOUS
  <2>1. CASE Has(todo[d], "commit")
    <3>1. Among(d, Len(rows)) /\ Len(rows) =< Len(rows')
      BY <2>1 DEF Kept, Grown
    <3> QED  BY <2>1, <3>1, <1>2 DEF Among
  <2>2. CASE ~Has(todo[d], "commit")
    <3>1. Among(d, committed) /\ committed =< committed'
      BY <2>2 DEF Kept, Grown
    <3> QED  BY <2>2, <3>1, <1>2 DEF Among
  <2> QED  BY <2>1, <2>2
<1>4. Filled(d) => Filled(d)'
  BY DEF Filled
<1>5. Counts(d) => Counts(d)'
  BY DEF Counts
<1> QED  BY <1>3, <1>4, <1>5 DEF Kept

\* What an await leaves of the list of the client that did it.
LEMMA KeptDoes ==
  ASSUME SInv, NEW c \in Clients, NEW s \in Steps, Does(c, s), Kept(c)
  PROVE  /\ Pending(c) /\ request' = request /\ Has(todo[c], s) /\ InOrder(todo'[c])
         /\ \A d \in Clients \ {c} : todo'[d] = todo[d] /\ status'[d] = status[d]
         /\ \A x : x # s => (Has(todo'[c], x) <=> Has(todo[c], x))
         /\ \A x : Has(todo'[c], x) => Has(todo[c], x)
         /\ s \in Takes => Has(todo'[c], "insert")
         /\ s = "insert" => Has(todo'[c], "commit")
         /\ s \in {"insert", "aggregate"} =>
              \A x \in Takes : ~Has(todo[c], x) /\ ~Has(todo'[c], x)
         /\ s \in {"insert", "aggregate"} => ~Has(todo'[c], "insert")
         /\ status'[c] = "ok" => todo'[c] = <<>>
<1>1. Types /\ Order(c) /\ Pending(c)
  BY DEF SInv, ClientInv, Does
<1>2. todo[c] \in Seq(Steps) /\ todo[c] # <<>> /\ Head(todo[c]) = s
  BY <1>1 DEF Types, Order, Does
<1>3. todo'[c] = Tail(todo[c])
  BY <1>1 DEF Does, Types
<1>4. /\ InOrder(todo'[c])
      /\ s \in Takes => Has(todo'[c], "insert")
      /\ s = "insert" => Has(todo'[c], "commit")
      /\ s \in {"insert", "aggregate"} =>
           \A x \in Takes \cup {"insert"} : ~Has(todo'[c], x)
  BY <1>2, <1>3, InOrderTail DEF Kept
<1>5. /\ request' = request /\ Has(todo[c], s)
      /\ \A d \in Clients \ {c} : todo'[d] = todo[d] /\ status'[d] = status[d]
      /\ \A x : Has(todo'[c], x) => Has(todo[c], x)
      /\ \A x : Has(todo[c], x) /\ x # s => Has(todo'[c], x)
  BY <1>1, DoesOf
<1>6. s \in {"insert", "aggregate"} => \A x \in Takes : ~Has(todo[c], x)
  <2> SUFFICES ASSUME s \in {"insert", "aggregate"}, NEW x \in Takes, Has(todo[c], x)
               PROVE  FALSE
    OBVIOUS
  <2>1. x # s
    BY DEF Takes
  <2> QED  BY <2>1, <1>4, <1>5
<1>7. ASSUME status'[c] = "ok" PROVE todo'[c] = <<>>
  <2>1. Len(todo[c]) = 1
    BY <1>1, <1>7 DEF Does, Types, Pending
  <2>2. Tail(todo[c]) \in Seq(Steps) /\ Len(Tail(todo[c])) = 0
    BY <1>2, <2>1, TailOf
  <2> QED  BY <2>2, <1>3, EmptySeq
<1>8. /\ s \in {"insert", "aggregate"} =>
           \A x \in Takes : ~Has(todo[c], x) /\ ~Has(todo'[c], x)
      /\ s \in {"insert", "aggregate"} => ~Has(todo'[c], "insert")
  BY <1>4, <1>6
<1>9. \A x : x # s => (Has(todo'[c], x) <=> Has(todo[c], x))
  BY <1>5
<1> QED  BY <1>1, <1>4, <1>5, <1>7, <1>8, <1>9

\* A step that is one await of c concerns c and the table.
LEMMA KeptRest ==
  ASSUME SInv, KInv, NEW c \in Clients, NEW s \in Steps, Does(c, s), Table', Grown, Kept(c)',
         \A d \in Clients \ {c} : reading'[d] = reading[d] /\ summary'[d] = summary[d]
  PROVE  KInv'
<1>1. Kept(c)
  BY DEF KInv, Does
<1>2. /\ request' = request /\ (status'[c] = "ok" => todo'[c] = <<>>)
      /\ \A d \in Clients \ {c} : todo'[d] = todo[d] /\ status'[d] = status[d]
  BY <1>1, KeptDoes
<1>3. ASSUME NEW d \in Clients \ {c}, (Pending(d) \/ Answered(d))' PROVE Kept(d)'
  <2>1. Kept(d)
    BY <1>2, <1>3 DEF KInv, Pending, Answered
  <2> QED  BY <2>1, <1>2, KeptStill DEF KInv
<1>4. \A d \in Clients \ {c} : Answered(d)' => todo'[d] = <<>>
  BY <1>2 DEF KInv, Answered
<1> QED  BY <1>2, <1>3, <1>4 DEF KInv, Answered

-----------------------------------------------------------------------------
(* The actions *)

\* FUNC1? and MEAS1? of a measurement: an insert is still to come.
LEMMA KeptTakes ==
  ASSUME SInv, KInv, NEW c \in Clients, ReadFunction(c) \/ Measure(c)
  PROVE  KInv'
<1>1. PICK s \in Takes :
        /\ Does(c, s)
        /\ s = "FUNC1?" => reading' = [reading EXCEPT ![c].function = meter.function]
        /\ s = "MEAS1?" => \E v \in Values, ts \in Times :
             reading' = [reading EXCEPT ![c].value = v, ![c].ts = ts, ![c].of = meter.function]
  <2>1. CASE ReadFunction(c)
    <3>1. Does(c, "FUNC1?") /\ reading' = [reading EXCEPT ![c].function = meter.function]
      BY <2>1 DEF ReadFunction
    <3> QED  BY <3>1 DEF Takes
  <2>2. CASE Measure(c)
    <3>1. /\ Does(c, "MEAS1?")
          /\ \E v \in Values, ts \in Times :
               reading' = [reading EXCEPT ![c].value = v, ![c].ts = ts, ![c].of = meter.function]
      BY <2>2 DEF Measure
    <3> QED  BY <3>1 DEF Takes
  <2> QED  BY <2>1, <2>2
<1>2. summary' = summary /\ rows' = rows /\ committed' = committed /\ s \in Steps
  BY DEF ReadFunction, Measure, tableVars, Takes, Steps
<1>3. Table /\ Table' /\ Grown /\ Kept(c) /\ Types
  <2>1. Pending(c)
    BY <1>1 DEF Does
  <2> QED  BY <2>1, <1>2 DEF KInv, Table, Grown, SInv
<1>4. /\ request' = request /\ Has(todo[c], s) /\ InOrder(todo'[c])
      /\ \A x : x # s => (Has(todo'[c], x) <=> Has(todo[c], x))
      /\ Has(todo'[c], "insert")
  BY <1>1, <1>2, <1>3, KeptDoes
<1>5. /\ \A d \in Clients \ {c} : reading'[d] = reading[d]
      /\ s = "FUNC1?" => /\ reading'[c].function # None
                         /\ reading'[c].value = reading[c].value /\ reading'[c].ts = reading[c].ts
      /\ s = "MEAS1?" => /\ reading'[c].function = reading[c].function
                         /\ reading'[c].value # None /\ reading'[c].ts # None
  <2>1. reading[c] \in ReadingType /\ meter.function # None
    BY <1>3, MeterConstants DEF Types, Settings
  <2>2. CASE s = "FUNC1?"
    BY <1>1, <1>3, <2>1, <2>2 DEF Types, ReadingType
  <2>3. CASE s = "MEAS1?"
    <3>1. PICK v \in Values, ts \in Times :
            reading' = [reading EXCEPT ![c].value = v, ![c].ts = ts, ![c].of = meter.function]
      BY <1>1, <2>3
    <3>2. v # None /\ ts # None
      BY MeterConstants
    <3> QED  BY <1>3, <2>1, <2>3, <3>1, <3>2 DEF Types, ReadingType
  <2> QED  BY <2>2, <2>3 DEF Takes
<1>6. Filled(c)'
  <2>1. Filled(c)
    BY <1>3, <1>4 DEF Kept, Takes
  <2> QED  BY <2>1, <1>4, <1>5 DEF Filled, Takes
<1>7. request'[c].path \in Shows => Has(todo'[c], "aggregate")
  BY <1>3, <1>4 DEF Kept, Takes
<1>8. Kept(c)'
  BY <1>4, <1>6, <1>7 DEF Kept
<1> QED  BY <1>1, <1>2, <1>3, <1>5, <1>8, KeptRest

\* The awaits that neither take a reading nor use the table.
LEMMA KeptSettings ==
  ASSUME SInv, KInv, NEW c \in Clients,
         GetFunction(c) \/ GetRate(c) \/ GetAutoRange(c) \/ GetRange(c) \/ Set(c)
  PROVE  KInv'
<1>1. PICK s \in {"FUNC?", "RATE?", "AUTO?", "RANGE?", "set"} : Does(c, s)
  BY DEF GetFunction, GetRate, GetAutoRange, GetRange, Set
<1>2. reading' = reading /\ summary' = summary /\ rows' = rows /\ committed' = committed /\ s \in Steps
  BY DEF GetFunction, GetRate, GetAutoRange, GetRange, Set, tableVars, replyVars, Steps
<1>3. Table /\ Table' /\ Grown /\ Kept(c)
  BY <1>1, <1>2 DEF KInv, Table, Grown, Does
<1>4. /\ request' = request /\ InOrder(todo'[c])
      /\ \A x : x # s => (Has(todo'[c], x) <=> Has(todo[c], x))
  BY <1>1, <1>2, <1>3, KeptDoes
<1>5. \A x \in Takes \cup {"insert", "commit", "aggregate"} : Has(todo'[c], x) <=> Has(todo[c], x)
  BY <1>4 DEF Takes
<1>6. Filled(c) => Filled(c)'
  BY <1>2, <1>5 DEF Filled, Takes
<1>7. Counts(c) => Counts(c)'
  BY <1>2, <1>4 DEF Counts
<1>8. Among(c, IF Has(todo[c], "commit") THEN Len(rows) ELSE committed)
        => Among(c, IF Has(todo[c], "commit") THEN Len(rows) ELSE committed)'
  BY <1>2, <1>5 DEF Among
<1>9. Kept(c)'
  BY <1>2, <1>3, <1>4, <1>5, <1>6, <1>7, <1>8 DEF Kept
<1> QED  BY <1>1, <1>2, <1>3, <1>9, KeptRest

\* A reading that is inserted is whole, and its commit is still to come.
LEMMA KeptInsert ==
  ASSUME SInv, KInv, NEW c \in Clients, Insert(c)
  PROVE  KInv'
<1>1. /\ Does(c, "insert") /\ rows' = Append(rows, reading[c])
      /\ reading' = reading /\ summary' = summary /\ committed' = committed /\ "insert" \in Steps
  BY DEF Insert, replyVars, Steps
<1>2. Table /\ Kept(c) /\ Types
  BY <1>1 DEF KInv, Does, SInv
<1>3. /\ request' = request /\ Has(todo[c], "insert") /\ InOrder(todo'[c])
      /\ \A x : x # "insert" => (Has(todo'[c], x) <=> Has(todo[c], x))
      /\ \A x \in Takes : ~Has(todo[c], x) /\ ~Has(todo'[c], x)
      /\ Has(todo'[c], "commit")
  BY <1>1, <1>2, KeptDoes
<1>4. Filled(c) /\ reading[c] \in WholeReading
  <2>1. Filled(c)
    BY <1>2, <1>3 DEF Kept
  <2>2. reading[c].function # None /\ reading[c].value # None /\ reading[c].ts # None
    BY <2>1, <1>3 DEF Filled, Takes
  <2>3. reading[c] \in ReadingType
    BY <1>2 DEF Types
  <2> QED  BY <2>1, <2>2, <2>3 DEF ReadingType, WholeReading
<1>5. /\ rows' \in Seq(WholeReading) /\ Len(rows') = Len(rows) + 1
      /\ \A i \in 1 .. Len(rows) : rows'[i] = rows[i]
      /\ rows'[Len(rows) + 1] = reading[c]
  BY <1>1, <1>2, <1>4, AppendProperties DEF Table
<1>6. Len(rows) \in Nat /\ committed \in 0 .. Len(rows)
  BY <1>2 DEF Table
<1>7. Table' /\ Grown
  BY <1>1, <1>2, <1>5, <1>6 DEF Table, Grown
<1>8. Among(c, Len(rows))'
  <2>1. Len(rows) + 1 \in 1 .. Len(rows')
    BY <1>5, <1>6
  <2> QED  BY <1>1, <1>5, <2>1 DEF Among
<1>9. Filled(c)'
  BY <1>1, <1>3, <1>4 DEF Filled, Takes
<1>10. Counts(c) => Counts(c)'
  BY <1>1, <1>3 DEF Counts
<1>11. Kept(c)'
  BY <1>2, <1>3, <1>8, <1>9, <1>10 DEF Kept
<1> QED  BY <1>1, <1>7, <1>11, KeptRest

\* A commit keeps every row there is.
LEMMA KeptCommit ==
  ASSUME SInv, KInv, NEW c \in Clients, Commit(c)
  PROVE  KInv'
<1>1. /\ Does(c, "commit") /\ rows' = rows /\ reading' = reading
      /\ summary' = summary /\ committed' = Len(rows) /\ "commit" \in Steps
  BY DEF Commit, replyVars, Steps
<1>2. Table /\ Kept(c)
  BY <1>1 DEF KInv, Does
<1>3. /\ request' = request /\ Has(todo[c], "commit") /\ InOrder(todo'[c])
      /\ \A x : x # "commit" => (Has(todo'[c], x) <=> Has(todo[c], x))
  BY <1>1, <1>2, KeptDoes
<1>4. Len(rows) \in Nat /\ committed \in 0 .. Len(rows)
  BY <1>2 DEF Table
<1>5. Table' /\ Grown
  BY <1>1, <1>2, <1>4 DEF Table, Grown
<1>6. reading[c] # NoReading /\ ~Has(todo[c], "insert") => Among(c, Len(rows))
  BY <1>2, <1>3 DEF Kept
<1>7. Among(c, Len(rows)) =>
        Among(c, IF Has(todo[c], "commit") THEN Len(rows) ELSE committed)'
  BY <1>1 DEF Among
<1>8. Filled(c) => Filled(c)'
  BY <1>1, <1>3 DEF Filled
<1>9. Counts(c) => Counts(c)'
  BY <1>1, <1>3 DEF Counts
<1>10. Kept(c)'
  BY <1>1, <1>2, <1>3, <1>6, <1>7, <1>8, <1>9 DEF Kept, Takes
<1> QED  BY <1>1, <1>5, <1>10, KeptRest

\* The reading that is in the table is in the window of its own summary.
LEMMA InWindow ==
  ASSUME NEW c \in Clients, NEW k \in 1 .. Len(rows), rows[k] = reading[c],
         rows \in Seq(WholeReading), reading[c].ts \in Nat,
         request[c].arg \in {None, reading[c].function}
  PROVE  k \in Where(rows, Window(c))
<1> DEFINE ts == reading[c].ts
<1>1. DOMAIN rows = 1 .. Len(rows)
  OBVIOUS
<1>2. /\ Window(c).since = (IF ts > Seconds THEN ts - Seconds ELSE 0)
      /\ Window(c).until = None
      /\ Window(c).function = reading[c].function
  BY DEF Window
<1>3. ts >= Window(c).since
  BY <1>2, MeterConstants
<1> QED  BY <1>1, <1>2, <1>3 DEF Where

\* The aggregate: it comes after the insert, so it finds the reading.
LEMMA KeptSummarise ==
  ASSUME SInv, KInv, NEW c \in Clients, Summarise(c)
  PROVE  KInv'
<1>1. /\ Does(c, "aggregate") /\ rows' = rows /\ reading' = reading /\ committed' = committed
      /\ summary' = [summary EXCEPT ![c] = Aggregate(rows, Window(c))] /\ "aggregate" \in Steps
  BY DEF Summarise, tableVars, Steps
<1>2. Table /\ Kept(c) /\ Types
  BY <1>1 DEF KInv, Does, SInv
<1>3. /\ request' = request /\ Has(todo[c], "aggregate") /\ InOrder(todo'[c])
      /\ \A x : x # "aggregate" => (Has(todo'[c], x) <=> Has(todo[c], x))
      /\ \A x \in Takes : ~Has(todo[c], x) /\ ~Has(todo'[c], x)
      /\ ~Has(todo'[c], "insert")
  BY <1>1, <1>2, KeptDoes
<1>4. /\ Aggregate(rows, Window(c)) \in SummaryNumbers
      /\ \A k \in Where(rows, Window(c)) :
           /\ Aggregate(rows, Window(c)).count > 0
           /\ Aggregate(rows, Window(c)).min =< rows[k].value
           /\ rows[k].value =< Aggregate(rows, Window(c)).max
  BY <1>2, AggregateOf DEF Table
<1>5. /\ summary'[c] = Aggregate(rows, Window(c)) /\ summary' \in [Clients -> SummaryNumbers]
      /\ \A d \in Clients \ {c} : summary'[d] = summary[d]
  BY <1>1, <1>2, <1>4 DEF Table
<1>6. Table' /\ Grown
  BY <1>1, <1>2, <1>5 DEF Table, Grown
<1>7. Filled(c)
  BY <1>2, <1>3 DEF Kept
<1>8. reading[c].function # None /\ reading[c].ts # None
  BY <1>3, <1>7 DEF Filled, Takes
<1>9. PICK k \in 1 .. Len(rows) : rows[k] = reading[c]
  <2>1. reading[c] # NoReading
    BY <1>8 DEF NoReading
  <2>2. Among(c, IF Has(todo[c], "commit") THEN Len(rows) ELSE committed)
    BY <1>2, <1>3, <2>1 DEF Kept
  <2>3. \A i \in 1 .. committed : i \in 1 .. Len(rows)
    BY <1>2 DEF Table
  <2> QED  BY <2>2, <2>3 DEF Among
<1>10. Counts(c)'
  <2> SUFFICES ASSUME request[c].arg \in {None, reading[c].function}
               PROVE  /\ summary'[c].count > 0
                      /\ summary'[c].min =< reading[c].value
                      /\ reading[c].value =< summary'[c].max
    BY <1>1, <1>3 DEF Counts
  <2>1. reading[c].ts \in Nat
    BY <1>2, <1>8, MeterConstants DEF Types, ReadingType
  <2>2. k \in Where(rows, Window(c))
    BY <1>2, <1>9, <2>1, InWindow DEF Table
  <2> QED  BY <1>4, <1>5, <1>9, <2>2
<1>11. Filled(c)'
  BY <1>1, <1>3, <1>7 DEF Filled, Takes
<1>12. Among(c, IF Has(todo[c], "commit") THEN Len(rows) ELSE committed)
         => Among(c, IF Has(todo[c], "commit") THEN Len(rows) ELSE committed)'
  BY <1>1, <1>3 DEF Among
<1>13. Kept(c)'
  BY <1>1, <1>2, <1>3, <1>10, <1>11, <1>12 DEF Kept
<1> QED  BY <1>1, <1>5, <1>6, <1>13, KeptRest

\* A new request has taken nothing yet.
LEMMA KeptRequest ==
  ASSUME SInv, KInv, NEW c \in Clients, Request(c)
  PROVE  KInv'
<1>1. PICK r \in Requests :
        /\ request' = [request EXCEPT ![c] = r]
        /\ todo' = [todo EXCEPT ![c] = Awaits(r.path)]
  BY DEF Request
<1>2. /\ status' = [status EXCEPT ![c] = "pending"]
      /\ reading' = [reading EXCEPT ![c] = NoReading]
      /\ summary' = [summary EXCEPT ![c] = NoSummary]
      /\ rows' = rows /\ committed' = committed
  BY DEF Request, tableVars
<1>3. r.path \in Reads \cup {"measurement", "smoothed"}
  BY DEF Requests, Reads
<1>4. Types /\ Table
  BY DEF SInv, KInv
<1>5. Table' /\ Grown
  <2>1. NoSummary \in SummaryNumbers
    BY DEF NoSummary, SummaryNumbers
  <2> QED  BY <1>2, <1>4, <2>1 DEF Table, Grown
<1>6. /\ todo'[c] = Awaits(r.path) /\ request'[c] = r /\ reading'[c] = NoReading
      /\ status'[c] = "pending"
  BY <1>1, <1>2, <1>4 DEF Types
<1>7. Kept(c)'
  <2>1. /\ InOrder(todo'[c])
        /\ Has(todo'[c], "insert") \/ Has(todo'[c], "aggregate") =>
             Has(todo'[c], "FUNC1?") /\ Has(todo'[c], "MEAS1?")
        /\ request'[c].path \in Shows => Has(todo'[c], "aggregate")
    BY <1>3, <1>6, AwaitsInOrder DEF Shows
  <2> QED  BY <2>1, <1>6 DEF Kept, Filled
<1>8. ASSUME NEW d \in Clients \ {c}
      PROVE  /\ todo'[d] = todo[d] /\ request'[d] = request[d] /\ reading'[d] = reading[d]
             /\ summary'[d] = summary[d] /\ status'[d] = status[d]
  BY <1>1, <1>2, <1>4 DEF Types, Table
<1>9. ASSUME NEW d \in Clients \ {c}, (Pending(d) \/ Answered(d))' PROVE Kept(d)'
  <2>1. Kept(d)
    BY <1>8, <1>9 DEF KInv, Pending, Answered
  <2> QED  BY <2>1, <1>4, <1>5, <1>8, KeptStill
<1>10. ASSUME NEW d \in Clients, Answered(d)' PROVE todo'[d] = <<>>
  BY <1>6, <1>8, <1>10 DEF KInv, Answered
<1> QED  BY <1>5, <1>7, <1>9, <1>10 DEF KInv

\* A request that fails promises nothing, and leaves the table alone.
LEMMA KeptFail ==
  ASSUME SInv, KInv, NEW c \in Clients, Fail(c)
  PROVE  KInv'
<1>1. /\ status' = [status EXCEPT ![c] = "failed"]
      /\ todo' = [todo EXCEPT ![c] = <<>>]
      /\ request' = request /\ reading' = reading /\ summary' = summary
      /\ rows' = rows /\ committed' = committed
  BY DEF Fail, replyVars, tableVars
<1>2. Types /\ Table /\ Table' /\ Grown
  BY <1>1 DEF SInv, KInv, Table, Grown
<1>3. ASSUME NEW d \in Clients, (Pending(d) \/ Answered(d))'
      PROVE  d # c /\ todo'[d] = todo[d] /\ status'[d] = status[d]
  BY <1>1, <1>2, <1>3 DEF Types, Pending, Answered
<1>4. ASSUME NEW d \in Clients, (Pending(d) \/ Answered(d))' PROVE Kept(d)'
  <2>1. Kept(d)
    BY <1>3, <1>4 DEF KInv, Pending, Answered
  <2> QED  BY <2>1, <1>1, <1>2, <1>3, <1>4, KeptStill
<1>5. ASSUME NEW d \in Clients, Answered(d)' PROVE todo'[d] = <<>>
  BY <1>3, <1>5 DEF KInv, Answered
<1> QED  BY <1>2, <1>4, <1>5 DEF KInv

\* A crash loses the rows that nobody was told of.
LEMMA KeptCrash ==
  ASSUME SInv, KInv, Crash
  PROVE  KInv'
<1>1. /\ status' = [c \in Clients |-> IF Pending(c) THEN "failed" ELSE status[c]]
      /\ todo' = [c \in Clients |-> <<>>]
      /\ rows' = SubSeq(rows, 1, committed) /\ committed' = committed
      /\ request' = request /\ reading' = reading /\ summary' = summary
  BY DEF Crash, replyVars
<1>2. rows \in Seq(WholeReading) /\ committed \in 0 .. Len(rows) /\ Len(rows) \in Nat
  BY DEF KInv, Table
<1>3. /\ rows' \in Seq(WholeReading) /\ Len(rows') = committed
      /\ \A i \in 1 .. committed : rows'[i] = rows[i]
  <2>1. 1 \in Int /\ committed \in Int /\ committed \in Nat /\ 1 .. committed \subseteq 1 .. Len(rows)
    BY <1>2
  <2>2. \A i \in 1 .. committed : rows[i] \in WholeReading
    BY <1>2, <2>1, ElementOfSeq
  <2>3. /\ SubSeq(rows, 1, committed) \in Seq(WholeReading)
        /\ Len(SubSeq(rows, 1, committed)) = IF 1 <= committed THEN committed - 1 + 1 ELSE 0
        /\ \A i \in 1 .. committed - 1 + 1 : SubSeq(rows, 1, committed)[i] = rows[1 + i - 1]
    BY <2>1, <2>2, SubSeqProperties
  <2>4. (IF 1 <= committed THEN committed - 1 + 1 ELSE 0) = committed /\ committed - 1 + 1 = committed
    BY <2>1
  <2>5. \A i \in 1 .. committed : 1 + i - 1 = i
    BY <2>1
  <2> QED  BY <1>1, <2>3, <2>4, <2>5
<1>4. Table'
  BY <1>1, <1>2, <1>3 DEF KInv, Table
<1>5. ASSUME NEW c \in Clients, (Pending(c) \/ Answered(c))' PROVE Kept(c)'
  <2>1. Answered(c) /\ todo[c] = <<>> /\ todo'[c] = <<>> /\ Kept(c)
    BY <1>1, <1>5 DEF KInv, Pending, Answered
  <2>2. reading[c] # NoReading => \E i \in 1 .. committed : rows[i] = reading[c]
    BY <2>1, HasNone DEF Kept, Among
  <2>3. reading[c] # NoReading => Among(c, committed)'
    BY <2>2, <1>1, <1>3 DEF Among
  <2>4. Counts(c) => Counts(c)'
    BY <1>1 DEF Counts
  <2> QED  BY <2>1, <2>3, <2>4, <1>1, HasNone DEF Kept
<1>6. \A c \in Clients : todo'[c] = <<>>
  BY <1>1
<1> QED  BY <1>4, <1>5, <1>6 DEF KInv

\* Every step preserves the invariant.
LEMMA KeptNext == SInv /\ KInv /\ [Next]_vars => KInv'
<1> SUFFICES ASSUME SInv, KInv, [Next]_vars PROVE KInv'
  OBVIOUS
<1>1. ASSUME NEW c \in Clients, Request(c) \/ Transact(c) \/ Store(c) \/ Fail(c)
      PROVE  KInv'
  BY <1>1, KeptRequest, KeptTakes, KeptSettings, KeptInsert, KeptCommit, KeptSummarise, KeptFail
     DEF Transact, Store
<1>2. CASE TurnKnob \/ UNCHANGED vars
  <2>1. /\ request' = request /\ todo' = todo /\ status' = status /\ reading' = reading
        /\ summary' = summary /\ rows' = rows /\ committed' = committed
    BY <1>2 DEF TurnKnob, vars, replyVars, tableVars
  <2>2. Table /\ Table' /\ Grown
    BY <2>1 DEF KInv, Table, Grown
  <2>3. ASSUME NEW d \in Clients, (Pending(d) \/ Answered(d))' PROVE Kept(d)'
    <3>1. Kept(d)
      BY <2>1, <2>3 DEF KInv, Pending, Answered
    <3> QED  BY <2>1, <2>2, <3>1, KeptStill
  <2> QED  BY <2>1, <2>2, <2>3 DEF KInv, Answered
<1>3. CASE Crash
  BY <1>3, KeptCrash
<1> QED  BY <1>1, <1>2, <1>3 DEF Next

\* The invariant holds for ever.
LEMMA KeptAlways == Spec => []KInv
<1>1. Spec => [](SInv /\ KInv)
  <2>1. Init => SInv /\ KInv
    BY InitInv, InitKept
  <2>2. SInv /\ KInv /\ [Next]_vars => (SInv /\ KInv)'
    BY NextInv, KeptNext
  <2> QED  BY <2>1, <2>2, PTL DEF Spec
<1> QED  BY <1>1, PTL

\* A reading that was returned is in the database and survives a crash: record
\* inserts and commits before the endpoint answers, and whatever other tasks
\* insert and commit on the shared connection in between takes nothing away.
THEOREM ReturnedStaysStored == Spec => []ReturnedIsStored
  BY KeptAlways, KeptImplies, PTL

\* The summary beside a reading counts that reading: it is inserted before the
\* aggregate runs, and lies in the window that ends at its own timestamp.
THEOREM SummaryHasReading == Spec => []SummaryCountsReading
  BY KeptAlways, KeptImplies, PTL

-----------------------------------------------------------------------------
(* Types: the table stays within its bound, so every count does *)

Inserters == {c \in Clients : "insert" \in Range(todo[c])}

CountInv ==
  /\ Len(rows) + Cardinality(Inserters) =< MaxRows
  /\ summary \in [Clients -> SummaryType]
  /\ turns \in 0 .. MaxTurns

\* Who has an insert in the list is an inserter.
LEMMA InsertersHas ==
  ASSUME Types, NEW c \in Clients
  PROVE  c \in Inserters <=> Has(todo[c], "insert")
<1>1. todo[c] \in Seq(Steps) /\ DOMAIN todo[c] = 1 .. Len(todo[c])
  BY DEF Types
<1> QED  BY <1>1 DEF Inserters, Has, Range

\* Fewer inserters and no more rows leave room for as many as before.
LEMMA FewerClaims ==
  ASSUME IsFiniteSet(Clients), KInv, CountInv, Len(rows') \in Nat, Len(rows') =< Len(rows),
         Inserters' \subseteq Inserters
  PROVE  Len(rows') + Cardinality(Inserters') =< MaxRows
<1> DEFINE I == Inserters
           J == Inserters'
<1>1. IsFiniteSet(I)
  <2>1. I \in SUBSET Clients
    BY DEF Inserters
  <2> QED  BY <2>1, FS_Subset
<1>2. IsFiniteSet(J) /\ Cardinality(J) <= Cardinality(I)
  <2>1. J \in SUBSET I
    OBVIOUS
  <2> QED  BY <1>1, <2>1, FS_Subset
<1>3. Cardinality(I) \in Nat /\ Cardinality(J) \in Nat
  BY <1>1, <1>2, FS_CardinalityType
<1>4. Len(rows) + Cardinality(I) =< MaxRows /\ Len(rows) \in Nat /\ MaxRows \in Nat
  BY MeterConstants DEF CountInv, KInv, Table
<1> HIDE DEF I
<1> QED  BY <1>2, <1>3, <1>4

\* An await of a client: an insert uses up its claim.
LEMMA CountDoes ==
  ASSUME IsFiniteSet(Clients), SInv, KInv, CountInv, NEW c \in Clients, NEW s \in Steps,
         Does(c, s), SInv',
         \/ rows' = rows
         \/ s = "insert" /\ Len(rows') = Len(rows) + 1
  PROVE  Len(rows') + Cardinality(Inserters') =< MaxRows /\ turns' \in 0 .. MaxTurns
<1>1. Kept(c) /\ Types /\ Types' /\ turns' = turns
  BY DEF KInv, Does, SInv
<1>2. /\ \A d \in Clients \ {c} : todo'[d] = todo[d]
      /\ \A x : Has(todo'[c], x) => Has(todo[c], x)
      /\ s = "insert" => ~Has(todo'[c], "insert")
      /\ Has(todo[c], s)
  BY <1>1, KeptDoes
<1>3. ASSUME NEW d \in Clients PROVE d \in Inserters' <=> Has(todo'[d], "insert")
  <2>1. todo'[d] \in Seq(Steps) /\ DOMAIN todo'[d] = 1 .. Len(todo'[d])
    BY <1>1 DEF Types
  <2> QED  BY <2>1 DEF Inserters, Has, Range
<1>4. Inserters' \subseteq Inserters
  <2>1. ASSUME NEW d \in Inserters' PROVE d \in Inserters
    <3>1. d \in Clients
      BY <2>1 DEF Inserters
    <3>2. Has(todo[d], "insert")
      BY <1>2, <1>3, <2>1, <3>1
    <3> QED  BY <1>1, <3>1, <3>2, InsertersHas
  <2> QED  BY <2>1
<1>5. Len(rows) \in Nat
  BY DEF KInv, Table
<1>6. CASE rows' = rows
  BY <1>1, <1>4, <1>5, <1>6, FewerClaims DEF CountInv
<1>7. CASE s = "insert" /\ Len(rows') = Len(rows) + 1
  <2> DEFINE I == Inserters
             J == Inserters'
  <2>1. c \in I /\ c \notin J
    BY <1>1, <1>2, <1>3, <1>7, InsertersHas
  <2>2. IsFiniteSet(I)
    <3>1. I \in SUBSET Clients
      BY DEF Inserters
    <3> QED  BY <3>1, FS_Subset
  <2>3. J \in SUBSET (I \ {c})
    BY <1>4, <2>1
  <2> HIDE DEF I, J
  <2>4. IsFiniteSet(I \ {c}) /\ Cardinality(I \ {c}) = Cardinality(I) - 1
    BY <2>1, <2>2, FS_RemoveElement
  <2>5. IsFiniteSet(J) /\ Cardinality(J) =< Cardinality(I) - 1
    BY <2>3, <2>4, FS_Subset
  <2>6. Cardinality(I) \in Nat /\ Cardinality(J) \in Nat
    BY <2>2, <2>5, FS_CardinalityType
  <2>7. Len(rows) + Cardinality(I) =< MaxRows /\ MaxRows \in Nat
    BY MeterConstants DEF CountInv, I
  <2>8. Len(rows') + Cardinality(J) =< MaxRows
    BY <1>5, <1>7, <2>5, <2>6, <2>7
  <2> QED  BY <1>1, <2>8 DEF J, CountInv
<1> QED  BY <1>6, <1>7

\* Every step leaves room for the rows that are still to be inserted.
LEMMA CountNext ==
  ASSUME IsFiniteSet(Clients), SInv, KInv, CountInv, [Next]_vars, SInv', KInv'
  PROVE  CountInv'
<1>0. /\ Len(rows) \in Nat /\ MaxRows \in Nat /\ Types /\ Types'
      /\ committed \in 0 .. Len(rows) /\ turns \in 0 .. MaxTurns /\ MaxTurns \in Nat
      /\ summary \in [Clients -> SummaryType]
  BY MeterConstants DEF KInv, Table, SInv, CountInv
<1>1. ASSUME NEW c \in Clients, Request(c) PROVE CountInv'
  <2>1. PICK r \in Requests :
          /\ "insert" \in Range(Awaits(r.path)) => Claimed < MaxRows
          /\ todo' = [todo EXCEPT ![c] = Awaits(r.path)]
    BY <1>1 DEF Request
  <2>2. rows' = rows /\ turns' = turns /\ summary' = [summary EXCEPT ![c] = NoSummary]
    BY <1>1 DEF Request, tableVars
  <2>3. summary' \in [Clients -> SummaryType]
    <3>1. NoSummary \in SummaryType
      BY <1>0 DEF NoSummary, SummaryType
    <3> QED  BY <1>0, <2>2, <3>1
  <2>4. /\ todo'[c] = Awaits(r.path)
        /\ \A d \in Clients \ {c} : todo'[d] = todo[d]
    BY <1>0, <2>1 DEF Types
  <2>5. CASE "insert" \notin Range(Awaits(r.path))
    <3>1. Inserters' \subseteq Inserters
      BY <2>4, <2>5 DEF Inserters
    <3>2. Len(rows') + Cardinality(Inserters') =< MaxRows
      BY <1>0, <2>2, <3>1, FewerClaims
    <3> QED  BY <1>0, <2>2, <2>3, <3>2 DEF CountInv
  <2>6. CASE "insert" \in Range(Awaits(r.path))
    <3> DEFINE I == Inserters
               J == Inserters'
    <3>1. I \in SUBSET Clients /\ J \in SUBSET (I \cup {c})
      BY <2>4 DEF Inserters
    <3>2. Len(rows) + Cardinality(I) < MaxRows
      BY <2>1, <2>6 DEF Claimed, Inserters
    <3> HIDE DEF I, J
    <3>3. IsFiniteSet(I)
      BY <3>1, FS_Subset
    <3>4. IsFiniteSet(I \cup {c})
          /\ Cardinality(I \cup {c}) = IF c \in I THEN Cardinality(I) ELSE Cardinality(I) + 1
      BY <3>3, FS_AddElement
    <3>5. IsFiniteSet(J) /\ Cardinality(J) =< Cardinality(I \cup {c})
      BY <3>1, <3>4, FS_Subset
    <3>6. Cardinality(I) \in Nat /\ Cardinality(J) \in Nat
      BY <3>3, <3>5, FS_CardinalityType
    <3>7. Len(rows) + Cardinality(J) =< MaxRows
      BY <1>0, <3>2, <3>4, <3>5, <3>6
    <3> QED  BY <1>0, <2>2, <2>3, <3>7 DEF CountInv, J
  <2> QED  BY <2>5, <2>6
<1>2. ASSUME NEW c \in Clients, Transact(c) PROVE CountInv'
  <2>1. PICK s \in Steps : Does(c, s)
    BY <1>2 DEF Transact, ReadFunction, Measure, GetFunction, GetRate, GetAutoRange, GetRange,
                Set, Steps
  <2>2. rows' = rows /\ summary' = summary
    BY <1>2 DEF Transact, ReadFunction, Measure, GetFunction, GetRate, GetAutoRange, GetRange,
                Set, tableVars, replyVars
  <2> QED  BY <1>0, <2>1, <2>2, CountDoes DEF CountInv
<1>3. ASSUME NEW c \in Clients, Insert(c) PROVE CountInv'
  <2>1. Does(c, "insert") /\ rows' = Append(rows, reading[c]) /\ summary' = summary
        /\ "insert" \in Steps
    BY <1>3 DEF Insert, replyVars, Steps
  <2>2. Len(rows') = Len(rows) + 1
    <3>1. rows \in Seq(ReadingType \cup WholeReading) /\ reading[c] \in ReadingType \cup WholeReading
      BY <1>0, SeqMonotonic DEF KInv, Table, Types
    <3> QED  BY <2>1, <3>1, AppendProperties
  <2> QED  BY <1>0, <2>1, <2>2, CountDoes DEF CountInv
<1>4. ASSUME NEW c \in Clients, Commit(c) PROVE CountInv'
  <2>1. Does(c, "commit") /\ rows' = rows /\ summary' = summary /\ "commit" \in Steps
    BY <1>4 DEF Commit, replyVars, Steps
  <2> QED  BY <1>0, <2>1, CountDoes DEF CountInv
<1>5. ASSUME NEW c \in Clients, Summarise(c) PROVE CountInv'
  <2> DEFINE a == Aggregate(rows, Window(c))
  <2>1. Does(c, "aggregate") /\ rows' = rows /\ summary' = [summary EXCEPT ![c] = a]
        /\ "aggregate" \in Steps
    BY <1>5 DEF Summarise, tableVars, Steps
  <2>2. a \in SummaryNumbers /\ a.count =< Len(rows)
    BY AggregateOf DEF KInv, Table
  <2> HIDE DEF a
  <2>3. Len(rows) =< MaxRows
    <3> DEFINE I == Inserters
    <3>1. I \in SUBSET Clients
      BY DEF Inserters
    <3> HIDE DEF I
    <3>2. Cardinality(I) \in Nat
      BY <3>1, FS_Subset, FS_CardinalityType
    <3>3. Len(rows) + Cardinality(I) =< MaxRows
      BY DEF CountInv, I
    <3> QED  BY <1>0, <3>2, <3>3
  <2>4. a \in SummaryType
    <3>1. a.count \in 0 .. MaxRows
      BY <1>0, <2>2, <2>3 DEF SummaryNumbers
    <3> QED  BY <2>2, <3>1 DEF SummaryNumbers, SummaryType
  <2>5. summary' \in [Clients -> SummaryType]
    BY <1>0, <2>1, <2>4
  <2> QED  BY <1>0, <2>1, <2>5, CountDoes DEF CountInv
<1>6. ASSUME NEW c \in Clients, Fail(c) PROVE CountInv'
  <2>1. /\ todo' = [todo EXCEPT ![c] = <<>>] /\ rows' = rows /\ turns' = turns
        /\ summary' = summary
    BY <1>6 DEF Fail, replyVars, tableVars
  <2>2. Inserters' \subseteq Inserters
    <3>1. todo'[c] = <<>> /\ \A d \in Clients \ {c} : todo'[d] = todo[d]
      BY <1>0, <2>1 DEF Types
    <3>2. "insert" \notin Range(<<>>)
      BY DEF Range
    <3> QED  BY <3>1, <3>2 DEF Inserters
  <2>3. Len(rows') + Cardinality(Inserters') =< MaxRows
    BY <1>0, <2>1, <2>2, FewerClaims
  <2> QED  BY <1>0, <2>1, <2>3 DEF CountInv
<1>7. CASE TurnKnob
  <2>1. todo' = todo /\ rows' = rows /\ summary' = summary /\ turns' = turns + 1 /\ turns < MaxTurns
    BY <1>7 DEF TurnKnob, replyVars, tableVars
  <2>2. Inserters' = Inserters
    BY <2>1 DEF Inserters
  <2>3. turns' \in 0 .. MaxTurns
    BY <1>0, <2>1
  <2> QED  BY <1>0, <2>1, <2>2, <2>3 DEF CountInv
<1>8. CASE Crash
  <2>1. /\ todo' = [c \in Clients |-> <<>>] /\ rows' = SubSeq(rows, 1, committed)
        /\ summary' = summary /\ turns' = turns /\ committed' = committed
    BY <1>8 DEF Crash, replyVars
  <2>2. Inserters' \subseteq Inserters
    <3>1. "insert" \notin Range(<<>>)
      BY DEF Range
    <3> QED  BY <2>1, <3>1 DEF Inserters
  <2>3. Len(rows') \in Nat /\ Len(rows') =< Len(rows)
    <3>1. committed \in Int /\ 1 \in Int /\ \A i \in 1 .. committed : rows[i] \in WholeReading
      BY <1>0, ElementOfSeq DEF KInv, Table
    <3>2. Len(rows') = IF 1 <= committed THEN committed - 1 + 1 ELSE 0
      BY <2>1, <3>1, SubSeqProperties
    <3> QED  BY <1>0, <3>1, <3>2
  <2>4. Len(rows') + Cardinality(Inserters') =< MaxRows
    BY <2>2, <2>3, FewerClaims
  <2> QED  BY <1>0, <2>1, <2>4 DEF CountInv
<1>9. CASE UNCHANGED vars
  <2>1. todo' = todo /\ rows' = rows /\ summary' = summary /\ turns' = turns
    BY <1>9 DEF vars, replyVars, tableVars
  <2>2. Inserters' = Inserters
    BY <2>1 DEF Inserters
  <2> QED  BY <1>0, <2>1, <2>2 DEF CountInv
<1> QED  BY <1>1, <1>2, <1>3, <1>4, <1>5, <1>6, <1>7, <1>8, <1>9 DEF Next, Store

\* The variables keep their types, for any finite set of clients: the table
\* takes no more rows than it was given room for, and no range is one that the
\* meter does not tell.
THEOREM MeterTypeCorrect ==
  ASSUME IsFiniteSet(Clients)
  PROVE  Spec => []TypeOK
<1>1. Init => SInv /\ KInv /\ CountInv
  <2> SUFFICES ASSUME Init PROVE SInv /\ KInv /\ CountInv
    OBVIOUS
  <2>1. Inserters = {} /\ Len(rows) = 0
    <3>1. "insert" \notin Range(<<>>) /\ Len(<<>>) = 0
      BY DEF Range
    <3> QED  BY <3>1 DEF Init, Inserters
  <2>2. Cardinality({}) = 0
    BY FS_EmptySet
  <2>3. summary \in [Clients -> SummaryType] /\ turns \in 0 .. MaxTurns
    BY MeterConstants DEF Init, NoSummary, SummaryType
  <2> QED  BY <2>1, <2>2, <2>3, InitInv, InitKept, MeterConstants DEF CountInv
<1>2. SInv /\ KInv /\ CountInv /\ [Next]_vars => (SInv /\ KInv /\ CountInv)'
  BY NextInv, KeptNext, CountNext
<1>3. SInv /\ KInv /\ CountInv => TypeOK
  <2> SUFFICES ASSUME SInv, KInv, CountInv PROVE TypeOK
    OBVIOUS
  <2>1. rows \in Seq(ReadingType)
    <3>1. WholeReading \subseteq ReadingType
      BY DEF WholeReading, ReadingType
    <3> QED  BY <3>1, SeqMonotonic DEF KInv, Table
  <2> QED  BY <2>1 DEF SInv, Types, KInv, Table, CountInv, TypeOK
<1> QED  BY <1>1, <1>2, <1>3, PTL DEF Spec

-----------------------------------------------------------------------------
(* The history *)

Rank(table, S, i) == Cardinality({j \in S : Newer(table, j, i)})

\* The rows of a finite set are in a strict total order.
LEMMA NewerOrders ==
  ASSUME NEW S \in SUBSET Nat, NEW table, \A i \in S : table[i].ts \in Nat
  PROVE  /\ \A i \in S : ~Newer(table, i, i)
         /\ \A i, j \in S : i = j \/ Newer(table, i, j) \/ Newer(table, j, i)
         /\ \A i, j, k \in S : Newer(table, i, j) /\ Newer(table, j, k) => Newer(table, i, k)
<1>1. \A i \in S : i \in Nat
  OBVIOUS
<1>2. \A i \in S : ~Newer(table, i, i)
  BY <1>1 DEF Newer
<1>3. \A i, j \in S : i = j \/ Newer(table, i, j) \/ Newer(table, j, i)
  BY <1>1 DEF Newer
<1>4. \A i, j, k \in S : Newer(table, i, j) /\ Newer(table, j, k) => Newer(table, i, k)
  BY <1>1 DEF Newer
<1> QED  BY <1>2, <1>3, <1>4

\* A row has as many newer ones as come before it.
LEMMA RankGrows ==
  ASSUME NEW S \in SUBSET Nat, IsFiniteSet(S), NEW table, \A i \in S : table[i].ts \in Nat
  PROVE  /\ Cardinality(S) \in Nat
         /\ \A i \in S : Rank(table, S, i) \in 0 .. Cardinality(S) - 1
         /\ \A i, j \in S : Newer(table, i, j) => Rank(table, S, i) < Rank(table, S, j)
<1> DEFINE before(i) == {j \in S : Newer(table, j, i)}
<1>1. \A i \in S : IsFiniteSet(before(i)) /\ Cardinality(before(i)) \in Nat
                   /\ Rank(table, S, i) = Cardinality(before(i))
  BY FS_Subset, FS_CardinalityType DEF Rank
<1>2. \A i \in S : before(i) \subseteq S \ {i}
  BY NewerOrders
<1>3. ASSUME NEW i \in S, NEW j \in S, Newer(table, i, j)
      PROVE  i \in before(j) /\ before(i) \subseteq before(j) \ {i}
  <2>1. i \in before(j)
    BY <1>3
  <2>2. ASSUME NEW k \in before(i)
        PROVE  k \in before(j) /\ k # i
    <3>1. k \in S /\ Newer(table, k, i)
      OBVIOUS
    <3>2. Newer(table, k, j)
      <4>1. \A a, b, c \in S : Newer(table, a, b) /\ Newer(table, b, c) => Newer(table, a, c)
        BY NewerOrders
      <4> HIDE DEF before
      <4> QED  BY <1>3, <3>1, <4>1
    <3>3. k # i
      <4>1. \A a \in S : ~Newer(table, a, a)
        BY NewerOrders
      <4> HIDE DEF before
      <4> QED  BY <1>3, <3>1, <4>1
    <3> QED  BY <3>1, <3>2, <3>3
  <2> QED  BY <2>1, <2>2
<1> HIDE DEF before
<1>4. Cardinality(S) \in Nat
  BY FS_CardinalityType
<1>5. ASSUME NEW i \in S
      PROVE  Rank(table, S, i) \in 0 .. Cardinality(S) - 1
  <2>1. IsFiniteSet(S \ {i}) /\ Cardinality(S \ {i}) = Cardinality(S) - 1
    BY FS_RemoveElement
  <2>2. Cardinality(before(i)) <= Cardinality(S \ {i})
    BY <1>2, <2>1, FS_Subset
  <2> QED  BY <1>1, <1>4, <2>1, <2>2
<1>6. ASSUME NEW i \in S, NEW j \in S, Newer(table, i, j)
      PROVE  Rank(table, S, i) < Rank(table, S, j)
  <2>1. /\ IsFiniteSet(before(j) \ {i})
        /\ Cardinality(before(j) \ {i}) = Cardinality(before(j)) - 1
    BY <1>1, <1>3, <1>6, FS_RemoveElement
  <2>2. Cardinality(before(i)) <= Cardinality(before(j) \ {i})
    BY <1>3, <1>6, <2>1, FS_Subset
  <2> QED  BY <1>1, <2>1, <2>2
<1> QED  BY <1>4, <1>5, <1>6

\* NewestFirst lists every row of a finite set once, the newer before the older.
LEMMA NewestFirstSorts ==
  ASSUME NEW S \in SUBSET Nat, IsFiniteSet(S), NEW table, \A i \in S : table[i].ts \in Nat
  PROVE  LET n == Cardinality(S)
             order == NewestFirst(table, S)
         IN  /\ n \in Nat /\ order \in [1 .. n -> S]
             /\ \A i, j \in 1 .. n : i < j => Newer(table, order[i], order[j])
             /\ \A r \in S : \E k \in 1 .. n : order[k] = r
<1> DEFINE n == Cardinality(S)
           rank(i) == Rank(table, S, i)
           order == NewestFirst(table, S)
           f == [i \in S |-> rank(i)]
<1>1. /\ n \in Nat /\ \A i \in S : rank(i) \in 0 .. n - 1
      /\ \A i, j \in S : Newer(table, i, j) => rank(i) < rank(j)
  BY RankGrows
<1>2. order = [k \in 1 .. n |-> CHOOSE i \in S : rank(i) = k - 1]
  BY DEF NewestFirst, Rank
<1> HIDE DEF n, rank, order
<1>3. \A i, j \in S : rank(i) = rank(j) => i = j
  <2>1. \A i \in S : rank(i) \in Nat
    BY <1>1
  <2> QED  BY <1>1, <2>1, NewerOrders
<1>4. f \in Surjection(S, 0 .. n - 1)
  <2>1. f \in Injection(S, 0 .. n - 1)
    BY <1>1, <1>3 DEF Injection, IsInjective
  <2>2. IsFiniteSet(0 .. n - 1) /\ Cardinality(0 .. n - 1) = n
    <3>1. 0 \in Int /\ n - 1 \in Int
      BY <1>1
    <3>2. /\ IsFiniteSet(0 .. n - 1)
          /\ Cardinality(0 .. n - 1) = IF 0 > n - 1 THEN 0 ELSE (n - 1) - 0 + 1
      BY <3>1, FS_Interval
    <3> QED  BY <1>1, <3>2
  <2> QED  BY <2>1, <2>2, FS_Injection DEF n
<1>5. \A k \in 1 .. n : \E i \in S : rank(i) = k - 1
  <2> TAKE k \in 1 .. n
  <2>1. k - 1 \in 0 .. n - 1
    BY <1>1
  <2> QED  BY <1>4, <2>1 DEF Surjection
<1>6. /\ order \in [1 .. n -> S]
      /\ \A k \in 1 .. n : rank(order[k]) = k - 1
  BY <1>2, <1>5
<1>7. ASSUME NEW i \in 1 .. n, NEW j \in 1 .. n, i < j
      PROVE  Newer(table, order[i], order[j])
  <2>1. order[i] \in S /\ order[j] \in S /\ rank(order[i]) = i - 1 /\ rank(order[j]) = j - 1
    BY <1>6
  <2>2. ~(rank(order[j]) < rank(order[i])) /\ rank(order[i]) # rank(order[j])
    BY <1>1, <1>7, <2>1
  <2> QED  BY <1>1, <2>1, <2>2, NewerOrders
<1>8. ASSUME NEW r \in S
      PROVE  \E k \in 1 .. n : order[k] = r
  <2>1. rank(r) + 1 \in 1 .. n /\ (rank(r) + 1) - 1 = rank(r)
    BY <1>1
  <2>2. rank(order[rank(r) + 1]) = rank(r) /\ order[rank(r) + 1] \in S
    BY <1>6, <2>1
  <2> QED  BY <1>3, <2>1, <2>2
<1> QED  BY <1>1, <1>6, <1>7, <1>8 DEF n, order

\* The rows a query finds.
LEMMA WhereFinds ==
  ASSUME NEW table \in Seq(WholeReading), NEW q
  PROVE  /\ Where(table, q) \in SUBSET Nat /\ IsFiniteSet(Where(table, q))
         /\ Where(table, q) \subseteq 1 .. Len(table)
         /\ \A i \in Where(table, q) : table[i] \in WholeReading /\ table[i].ts \in Nat
<1>1. Len(table) \in Nat /\ \A i \in 1 .. Len(table) : table[i] \in WholeReading
  OBVIOUS
<1>2. Where(table, q) \subseteq 1 .. Len(table)
  BY DEF Where
<1>3. IsFiniteSet(1 .. Len(table))
  BY <1>1, FS_Interval
<1>4. \A r \in WholeReading : r.ts \in Nat
  BY MeterConstants DEF WholeReading
<1> QED  BY <1>1, <1>2, <1>3, <1>4, FS_Subset

LEMMA MinOfTwo ==
  ASSUME NEW a \in Nat, NEW b \in Nat
  PROVE  Min({a, b}) \in {a, b} /\ Min({a, b}) <= a /\ Min({a, b}) <= b
<1>1. CASE a <= b
  BY <1>1 DEF Min
<1>2. CASE b <= a
  BY <1>2 DEF Min
<1> QED  BY <1>1, <1>2

\* history returns the first rows of that order, the oldest of them first.
LEMMA HistoryOf ==
  ASSUME NEW table \in Seq(WholeReading), NEW q, NEW limit \in Int
  PROVE  LET S == Where(table, q)
             m == Limited(limit, Cardinality(S))
         IN  /\ m \in Nat /\ m <= Cardinality(S)
             /\ Len(History(table, q, limit)) = m /\ DOMAIN History(table, q, limit) = 1 .. m
             /\ \A i \in 1 .. m :
                  History(table, q, limit)[i] = table[NewestFirst(table, S)[m - i + 1]]
<1> DEFINE S == Where(table, q)
           n == Cardinality(S)
           order == NewestFirst(table, S)
           m == Limited(limit, n)
           first == [i \in 1 .. m |-> table[order[i]]]
<1>1. n \in Nat /\ order \in [1 .. n -> S] /\ \A i \in S : table[i] \in WholeReading
  BY WhereFinds, NewestFirstSorts
<1>2. Len(order) = n
  BY <1>1
<1>3. m \in Nat /\ m <= n
  <2>1. CASE limit < 0
    BY <1>1, <2>1 DEF Limited
  <2>2. CASE limit >= 0
    <3>1. limit \in Nat
      BY <2>2
    <3> QED  BY <1>1, <2>2, <3>1, MinOfTwo DEF Limited
  <2> QED  BY <2>1, <2>2
<1>4. first \in Seq(WholeReading) /\ Len(first) = m
  <2>1. \A i \in 1 .. m : i \in 1 .. n
    BY <1>1, <1>3
  <2>2. first \in [1 .. m -> WholeReading]
    BY <1>1, <2>1
  <2> HIDE DEF first, m
  <2>3. first \in Seq(WholeReading)
    BY <1>3, <2>2, SeqDef
  <2> QED  BY <1>3, <2>2, <2>3, LenProperties
<1>5. History(table, q, limit) = Reverse(first)
  <2>1. History(table, q, limit) = Reverse([i \in 1 .. Limited(limit, Len(order)) |-> table[order[i]]])
    BY DEF History
  <2> QED  BY <1>2, <2>1, Zenon
<1>6. Reverse(first) = [i \in 1 .. m |-> first[m - i + 1]]
  <2>1. Reverse(first) = [i \in 1 .. Len(first) |-> first[(Len(first) - i) + 1]]
    BY DEF Reverse
  <2>2. Len(first) = m
    BY <1>4
  <2> HIDE DEF first, m
  <2> QED  BY <2>1, <2>2
<1>7. \A i \in 1 .. m : m - i + 1 \in 1 .. m
  BY <1>3
<1>8. \A i \in 1 .. m : Reverse(first)[i] = table[order[m - i + 1]]
  BY <1>6, <1>7
<1>9. Len(Reverse(first)) = m /\ DOMAIN Reverse(first) = 1 .. m
  <2>1. \A i \in 1 .. m : first[m - i + 1] \in WholeReading
    BY <1>4, <1>7, ElementOfSeq
  <2>2. Reverse(first) \in [1 .. m -> WholeReading]
    BY <1>6, <2>1
  <2> HIDE DEF first, m
  <2>3. Reverse(first) \in Seq(WholeReading)
    BY <1>3, <2>2, SeqDef
  <2> QED  BY <1>3, <2>2, <2>3, LenProperties
<1> QED  BY <1>3, <1>5, <1>8, <1>9

\* Whatever table of whole readings history reads, whatever the filters.
LEMMA NewestListed ==
  ASSUME NEW table \in Seq(WholeReading)
  PROVE  ListsNewest(table)
<1> SUFFICES ASSUME NEW s \in Times \cup {None}, NEW u \in Times \cup {None},
                    NEW f \in Functions \cup {None}, NEW limit \in -1 .. Len(table)
             PROVE  LET q     == [since |-> s, until |-> u, function |-> f]
                        found == {table[i] : i \in Where(table, q)}
                        list  == History(table, q, limit)
                    IN  /\ Len(list) = Limited(limit, Cardinality(Where(table, q)))
                        /\ Range(list) \subseteq found
                        /\ \A i, j \in 1 .. Len(list) : i < j => list[i].ts <= list[j].ts
                        /\ \A r \in found \ Range(list), i \in 1 .. Len(list) : r.ts <= list[i].ts
  BY DEF ListsNewest
<1> DEFINE q == [since |-> s, until |-> u, function |-> f]
           S == Where(table, q)
           found == {table[i] : i \in S}
           list == History(table, q, limit)
           n == Cardinality(S)
           m == Limited(limit, n)
           order == NewestFirst(table, S)
<1>1. limit \in Int
  OBVIOUS
<1> HIDE DEF q
<1>2. /\ S \in SUBSET Nat /\ IsFiniteSet(S) /\ \A i \in S : table[i].ts \in Nat
  BY WhereFinds
<1>3. /\ n \in Nat /\ order \in [1 .. n -> S]
      /\ \A i, j \in 1 .. n : i < j => Newer(table, order[i], order[j])
      /\ \A r \in S : \E k \in 1 .. n : order[k] = r
  BY <1>2, NewestFirstSorts
<1>4. /\ m \in Nat /\ m <= n /\ Len(list) = m /\ DOMAIN list = 1 .. m
      /\ \A i \in 1 .. m : list[i] = table[order[m - i + 1]]
  BY <1>1, HistoryOf
<1> HIDE DEF S, list, n, m, order
<1>5. \A i \in 1 .. m : m - i + 1 \in 1 .. m /\ m - i + 1 \in 1 .. n
  BY <1>3, <1>4
<1>6. Range(list) \subseteq found
  <2>1. \A i \in 1 .. m : order[m - i + 1] \in S
    BY <1>3, <1>5
  <2>2. \A i \in DOMAIN list : list[i] \in found
    BY <1>4, <2>1
  <2> QED  BY <2>2 DEF Range
<1>7. \A i, j \in 1 .. n : i < j => table[order[j]].ts <= table[order[i]].ts
  <2> TAKE i, j \in 1 .. n
  <2>1. order[i] \in S /\ order[j] \in S
    BY <1>3
  <2>2. table[order[i]].ts \in Nat /\ table[order[j]].ts \in Nat
    BY <1>2, <2>1
  <2>3. i < j => Newer(table, order[i], order[j])
    BY <1>3
  <2> QED  BY <2>2, <2>3 DEF Newer
<1>8. \A i, j \in 1 .. m : i < j => list[i].ts <= list[j].ts
  <2> TAKE i, j \in 1 .. m
  <2>1. i < j => m - j + 1 < m - i + 1
    BY <1>4
  <2> QED  BY <1>4, <1>5, <1>7, <2>1
<1>9. ASSUME NEW r \in found \ Range(list), NEW i \in 1 .. m
      PROVE  r.ts <= list[i].ts
  <2>1. PICK k \in 1 .. n : r = table[order[k]]
    BY <1>3
  <2>2. k \notin 1 .. m
    <3> SUFFICES ASSUME k \in 1 .. m PROVE FALSE
      OBVIOUS
    <3>1. m - k + 1 \in 1 .. m /\ m - (m - k + 1) + 1 = k
      BY <1>4
    <3>2. list[m - k + 1] = r
      BY <1>4, <2>1, <3>1
    <3> QED  BY <1>4, <1>9, <3>1, <3>2 DEF Range
  <2>3. m - i + 1 < k
    BY <1>3, <1>4, <2>2
  <2> QED  BY <1>4, <1>5, <1>7, <2>1, <2>3
<1> QED  BY <1>4, <1>6, <1>8, <1>9 DEF list, m, n, S, q

\* db.py: "Take the most recent `limit` rows, then present them oldest-first", for any
\* table that requests, failures and crashes can leave, any filters and any limit.
THEOREM HistoryIsNewest == Spec => NewestOldestFirst
<1>1. KInv' => ListsNewest(rows')
  BY NewestListed DEF KInv, Table
<1>2. KInv' => [Len(rows') > Len(rows) => ListsNewest(rows')]_vars
  BY <1>1
<1> QED  BY <1>2, KeptAlways, PTL DEF NewestOldestFirst

=============================================================================
