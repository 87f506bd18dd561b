--------------------------- MODULE NatSetTheorems ---------------------------
(* Facts about sets of natural numbers that the executor's allocations rest   *)
(* on: the lowest free descriptor, the lowest free slot, the next heredoc.    *)
(* And one about recursion on whatever has a rank in the naturals, which the  *)
(* loops over lists, words and trees rest on.                                 *)
EXTENDS Integers, FiniteSets, TLAPS, FiniteSetTheorems, WellFoundedInduction

\* A set of naturals that is not empty has a least element.
LEMMA NatMin ==
    ASSUME NEW S, S \subseteq Nat, S # {}
    PROVE  \E x \in S : \A y \in S : x <= y
<1> DEFINE R == {ss \in Nat \X Nat : ss[1] < ss[2]}
<1>1. IsWellFoundedOn(R, Nat)
  BY NatLessThanWellFounded DEF OpToRel
<1>2. PICK x \in S : \A y \in S : <<y, x>> \notin R
  <2> HIDE DEF R
  <2> QED BY <1>1, WFMin
<1>3. ASSUME NEW y \in S, ~ (x <= y) PROVE FALSE
  <2>1. y < x
    BY <1>3
  <2>2. <<y, x>> \in Nat \X Nat
    OBVIOUS
  <2>3. <<y, x>> \in R
    BY <2>1, <2>2
  <2> QED BY <1>2, <2>3
<1> QED BY <1>3

\* A set of naturals that is bounded and not empty has a greatest element.
LEMMA NatMax ==
    ASSUME NEW S, S \subseteq Nat, S # {}, NEW b \in Nat, \A s \in S : s <= b
    PROVE  \E x \in S : \A y \in S : y <= x
<1> DEFINE T == {b - s : s \in S}
<1>1. T \subseteq Nat /\ T # {}
  <2>1. \A s \in S : b - s \in Nat
    OBVIOUS
  <2> QED BY <2>1
<1>2. PICK x \in T : \A y \in T : x <= y
  <2> HIDE DEF T
  <2> QED BY <1>1, NatMin
<1>3. PICK s \in S : x = b - s
  OBVIOUS
<1>4. \A y \in S : b - s <= b - y
  BY <1>2, <1>3
<1> QED BY <1>4

\* In a finite set of naturals there is an element with exactly c below it.
LEMMA NthExists ==
    ASSUME NEW S, S \subseteq Nat, IsFiniteSet(S),
           NEW c \in Nat, c < Cardinality(S)
    PROVE  \E x \in S : Cardinality({y \in S : y < x}) = c
<1> DEFINE Below(x) == {y \in S : y < x}
           Missed == {d \in Nat : d < Cardinality(S) /\ \A x \in S : Cardinality(Below(x)) # d}
<1>1. ASSUME Missed # {} PROVE FALSE
  <2>1. PICK d \in Missed : \A e \in Missed : d <= e
    <3>1. Missed \subseteq Nat
      OBVIOUS
    <3> HIDE DEF Missed
    <3> QED BY <1>1, <3>1, NatMin
  <2>2. CASE d = 0
    <3>1. S # {}
      BY <2>1, FS_EmptySet
    <3>2. PICK x \in S : \A y \in S : x <= y
      BY <3>1, NatMin
    <3>3. Below(x) = {}
      <4>1. \A y \in S : ~ (y < x)
        BY <3>2
      <4> QED BY <4>1
    <3>4. Cardinality(Below(x)) = 0
      BY <3>3, FS_EmptySet
    <3> QED BY <2>1, <2>2, <3>4
  <2>3. CASE d # 0
    <3>1. d - 1 \in Nat /\ d - 1 < Cardinality(S) /\ d - 1 \notin Missed
      <4>1. Cardinality(S) \in Nat
        BY FS_CardinalityType
      <4> QED BY <2>1, <2>3, <4>1
    <3>2. PICK x \in S : Cardinality(Below(x)) = d - 1
      BY <3>1
    <3> DEFINE Upto == Below(x) \cup {x}
               Above == {y \in S : y > x}
    <3>3. IsFiniteSet(Below(x)) /\ IsFiniteSet(Upto) /\ Cardinality(Upto) = d
      <4>1. IsFiniteSet(Below(x))
        BY FS_Subset
      <4>2. x \notin Below(x)
        OBVIOUS
      <4> HIDE DEF Below
      <4>3. IsFiniteSet(Upto) /\ Cardinality(Upto) = Cardinality(Below(x)) + 1
        BY <4>1, <4>2, FS_AddElement
      <4> QED BY <4>1, <4>3, <3>2, <2>1
    <3>4. Above # {}
      <4>1. SUFFICES ASSUME Above = {} PROVE FALSE
        OBVIOUS
      <4>2. S = Upto
        <5>1. \A y \in S : y < x \/ y = x \/ y > x
          OBVIOUS
        <5>2. \A y \in S : ~ (y > x)
          BY <4>1
        <5>3. \A y \in S : y \in Upto
          BY <5>1, <5>2
        <5>4. Upto \subseteq S
          OBVIOUS
        <5> QED BY <5>3, <5>4
      <4> HIDE DEF Upto
      <4> QED BY <4>2, <3>3, <2>1
    <3>5. PICK z \in Above : \A y \in Above : z <= y
      <4>1. Above \subseteq Nat
        OBVIOUS
      <4> HIDE DEF Above
      <4> QED BY <4>1, <3>4, NatMin
    <3>6. Below(z) = Upto
      <4>1. z \in S /\ z > x
        OBVIOUS
      <4>2. \A y \in S : y < z => y < x \/ y = x
        <5>1. \A y \in S : y > x => z <= y
          BY <3>5
        <5> QED BY <4>1, <5>1
      <4>3. \A y \in S : y < x \/ y = x => y < z
        BY <4>1
      <4>4. \A y \in S : y \in Below(z) <=> y \in Upto
        BY <4>2, <4>3
      <4>5. Upto \subseteq S /\ Below(z) \subseteq S
        OBVIOUS
      <4> HIDE DEF Upto, Below
      <4> QED BY <4>4, <4>5
    <3> QED BY <3>3, <3>5, <3>6, <2>1
  <2> QED BY <2>2, <2>3
<1> QED BY <1>1

(***************************************************************************)
(* Recursion.                                                              *)
(***************************************************************************)
\* A recursion on S: it stops, or goes on with the next argument, whose rank is
\* less, and makes its value of what comes back.
Descends(S, rank, next, stop) ==
    /\ rank \in [S -> Nat] /\ next \in [S -> S] /\ stop \in [S -> BOOLEAN]
    /\ \A x \in S : ~ stop[x] => rank[next[x]] < rank[x]
Solves(f, S, next, stop, base, step) ==
    \A x \in S : f[x] = IF stop[x] THEN base[x] ELSE step[<<x, f[next[x]]>>]

\* The equation of such a definition has a solution.
LEMMA Recursion ==
    ASSUME NEW S, NEW T, NEW rank, NEW next, NEW stop, Descends(S, rank, next, stop),
           NEW base \in [S -> T], NEW step \in [S \X T -> T]
    PROVE  \E f \in [S -> T] : Solves(f, S, next, stop, base, step)
<1> DEFINE Closed(R) ==
             /\ \A x \in S : stop[x] => <<x, base[x]>> \in R
             /\ \A x \in S, v \in T : ~ stop[x] /\ <<next[x], v>> \in R
                                        => <<x, step[<<x, v>>]>> \in R
           G == {a \in S \X T : \A R \in SUBSET (S \X T) : Closed(R) => a \in R}
           One(x) == \E v \in T : \A w \in T : <<x, w>> \in G <=> w = v
           Missed == {x \in S : ~ One(x)}
<1> USE DEF Descends
<1>1. \A x \in S, v \in T : step[<<x, v>>] \in T /\ base[x] \in T /\ next[x] \in S
  OBVIOUS
<1>2. Closed(G)
  <2>1. ASSUME NEW x \in S, stop[x] PROVE <<x, base[x]>> \in G
    BY <2>1, <1>1
  <2>2. ASSUME NEW x \in S, NEW v \in T, ~ stop[x], <<next[x], v>> \in G
        PROVE  <<x, step[<<x, v>>]>> \in G
    <3>1. <<x, step[<<x, v>>]>> \in S \X T
      BY <1>1
    <3>2. ASSUME NEW R \in SUBSET (S \X T), Closed(R) PROVE <<x, step[<<x, v>>]>> \in R
      <4>1. <<next[x], v>> \in R
        BY <2>2, <3>2
      <4> QED BY <2>2, <3>2, <4>1
    <3> HIDE DEF Closed
    <3> QED BY <3>1, <3>2
  <2> HIDE DEF G
  <2> QED BY <2>1, <2>2
\* Only one value follows from the value at the smaller argument.
<1>3. ASSUME NEW x \in S, stop[x] \/ One(next[x]) PROVE One(x)
  <2>1. PICK w \in T : /\ <<x, w>> \in G
                       /\ stop[x] => w = base[x]
                       /\ ~ stop[x] => \A v \in T : <<next[x], v>> \in G => w = step[<<x, v>>]
    <3>1. CASE stop[x]
      BY <1>1, <1>2, <3>1
    <3>2. CASE ~ stop[x]
      <4>1. PICK v \in T : \A u \in T : <<next[x], u>> \in G <=> u = v
        BY <1>3, <3>2
      <4> HIDE DEF G
      <4>2. <<x, step[<<x, v>>]>> \in G
        BY <1>2, <3>2, <4>1
      <4> QED BY <1>1, <3>2, <4>1, <4>2
    <3> QED BY <3>1, <3>2
  <2>2. ASSUME NEW v \in T, <<x, v>> \in G, v # w PROVE FALSE
    <3> DEFINE R == G \ {<<x, v>>}
    <3>1. R \in SUBSET (S \X T)
      OBVIOUS
    <3>2. Closed(R)
      <4> HIDE DEF G
      <4>1. ASSUME NEW y \in S, stop[y] PROVE <<y, base[y]>> \in R
        BY <1>2, <2>1, <2>2, <4>1
      <4>2. ASSUME NEW y \in S, NEW u \in T, ~ stop[y], <<next[y], u>> \in R
            PROVE  <<y, step[<<y, u>>]>> \in R
        <5>1. <<next[y], u>> \in G /\ <<y, step[<<y, u>>]>> \in G
          BY <1>2, <4>2
        <5>2. y = x => step[<<y, u>>] = w
          BY <2>1, <4>2, <5>1
        <5> QED BY <2>2, <5>1, <5>2
      <4> HIDE DEF R
      <4> QED BY <4>1, <4>2
    <3>3. <<x, v>> \in R
      <4> HIDE DEF Closed, R
      <4> QED BY <2>2, <3>1, <3>2
    <3> QED BY <3>3
  <2> HIDE DEF G
  <2> QED BY <2>1, <2>2
<1>4. Missed = {}
  <2> DEFINE Ranks == {rank[x] : x \in Missed}
  <2> HIDE DEF One
  <2>1. SUFFICES ASSUME Missed # {} PROVE FALSE
    OBVIOUS
  <2>2. Ranks \subseteq Nat /\ Ranks # {}
    BY <2>1
  <2>3. PICK r \in Ranks : \A q \in Ranks : r <= q
    <3> HIDE DEF Ranks
    <3> QED BY <2>2, NatMin
  <2>4. PICK x \in Missed : \A y \in Missed : rank[x] <= rank[y]
    BY <2>3
  <2>5. x \in S /\ ~ One(x)
    OBVIOUS
  <2>6. stop[x] \/ One(next[x])
    <3>1. SUFFICES ASSUME ~ stop[x], ~ One(next[x]) PROVE FALSE
      OBVIOUS
    <3>2. next[x] \in Missed
      BY <2>5, <3>1
    <3>3. rank[x] <= rank[next[x]]
      BY <2>4, <3>2
    <3>4. rank[next[x]] < rank[x] /\ rank[x] \in Nat /\ rank[next[x]] \in Nat
      BY <2>5, <3>1
    <3> QED BY <3>3, <3>4
  <2> QED BY <1>3, <2>5, <2>6
<1> DEFINE f == [x \in S |-> CHOOSE v \in T : <<x, v>> \in G]
<1>5. ASSUME NEW x \in S
      PROVE  f[x] \in T /\ \A w \in T : <<x, w>> \in G <=> w = f[x]
  <2>1. One(x)
    <3> HIDE DEF One
    <3> QED BY <1>4
  <2> HIDE DEF G
  <2> QED BY <2>1
<1>6. f \in [S -> T]
  BY <1>5
<1> HIDE DEF f, G
<1>7. ASSUME NEW x \in S
      PROVE  f[x] = IF stop[x] THEN base[x] ELSE step[<<x, f[next[x]]>>]
  <2>1. CASE stop[x]
    BY <1>1, <1>2, <1>5, <2>1
  <2>2. CASE ~ stop[x]
    <3>1. next[x] \in S /\ f[next[x]] \in T /\ <<next[x], f[next[x]]>> \in G
      BY <1>1, <1>5
    <3>2. <<x, step[<<x, f[next[x]]>>]>> \in G
      BY <1>2, <2>2, <3>1
    <3> QED BY <1>1, <1>5, <2>2, <3>1, <3>2
  <2> QED BY <2>1, <2>2
<1> QED BY <1>6, <1>7 DEF Solves

\* A definition at n that looks at what is defined below n only.
LooksBelow(N, T, step) ==
    /\ step \in [(1 .. N) \X [1 .. N -> T] -> T]
    /\ \A n \in 1 .. N : \A v, w \in [1 .. N -> T] :
         (\A m \in 1 .. N : m < n => v[m] = w[m]) => step[<<n, v>>] = step[<<n, w>>]

\* Such a definition, which may call itself more than once, has a solution.
LEMMA Tabulation ==
    ASSUME NEW N \in Nat, NEW T, NEW t \in T, NEW step, LooksBelow(N, T, step)
    PROVE  \E f \in [1 .. N -> T] : \A n \in 1 .. N : f[n] = step[<<n, f>>]
<1> DEFINE S == 0 .. N
           Table == [1 .. N -> T]
           rank == [k \in S |-> k]
           next == [k \in S |-> IF k = 0 THEN 0 ELSE k - 1]
           stop == [k \in S |-> k = 0]
           base == [k \in S |-> [n \in 1 .. N |-> t]]
           Row(k, v) == IF k = 0 THEN v ELSE [v EXCEPT ![k] = step[<<k, v>>]]
           fill == [a \in S \X Table |-> Row(a[1], a[2])]
<1>1. rank \in [S -> Nat] /\ next \in [S -> S] /\ stop \in [S -> BOOLEAN]
  OBVIOUS
<1>2. ASSUME NEW k \in S, ~ stop[k]
      PROVE  /\ k \in 1 .. N /\ k - 1 \in S /\ next[k] = k - 1
             /\ rank[next[k]] < rank[k]
  <2>1. k \in 0 .. N /\ k # 0
    BY <1>2
  <2>2. k \in 1 .. N /\ k - 1 \in S
    BY <2>1
  <2>3. next[k] = k - 1 /\ rank[k] = k
    BY <2>1
  <2>4. rank[k - 1] = k - 1
    BY <2>2
  <2> HIDE DEF next, rank, S, stop
  <2>5. rank[next[k]] < rank[k]
    BY <2>2, <2>3, <2>4
  <2> QED BY <2>2, <2>3, <2>5
<1>3. Descends(S, rank, next, stop)
  <2> HIDE DEF S, rank, next, stop
  <2> QED BY <1>1, <1>2 DEF Descends
<1>4. \A k \in 1 .. N, v \in Table : step[<<k, v>>] \in T
  BY DEF LooksBelow
<1>5. \A k \in S, v \in Table : Row(k, v) \in Table
  BY <1>4
<1>6. base \in [S -> Table] /\ fill \in [S \X Table -> Table]
  <2>1. base \in [S -> Table]
    OBVIOUS
  <2> HIDE DEF Row, Table, S, base
  <2> QED BY <2>1, <1>5
<1>7. PICK g \in [S -> Table] : Solves(g, S, next, stop, base, fill)
  <2> HIDE DEF S, Table, rank, next, stop, base, fill
  <2> QED BY <1>3, <1>6, Recursion, Zenon
<1>8. \A k \in 1 .. N : k - 1 \in S /\ k \in S /\ g[k] \in Table /\ g[k - 1] \in Table
                        /\ g[k] = Row(k, g[k - 1])
  <2>1. \A k \in 1 .. N : k \in S /\ k - 1 \in S /\ k # 0 /\ ~ stop[k] /\ next[k] = k - 1
    <3>1. ASSUME NEW k \in 1 .. N PROVE k \in S /\ k # 0 /\ ~ stop[k]
      <4>1. k \in S /\ k # 0
        OBVIOUS
      <4> HIDE DEF S
      <4>2. stop[k] = (k = 0)
        BY <4>1
      <4> QED BY <4>1, <4>2
    <3> HIDE DEF S, stop, next
    <3> QED BY <1>2, <3>1
  <2>2. \A k \in 1 .. N : g[k] = fill[<<k, g[k - 1]>>] /\ g[k] \in Table /\ g[k - 1] \in Table
    <3> HIDE DEF S, Table, next, stop, base, fill
    <3> QED BY <1>7, <2>1 DEF Solves
  <2> HIDE DEF Row, Table, S
  <2> QED BY <2>1, <2>2
<1>9. ASSUME NEW k \in 1 .. N
      PROVE  /\ g[k][k] = step[<<k, g[k - 1]>>]
             /\ \A n \in 1 .. N : n # k => g[k][n] = g[k - 1][n]
  <2> DEFINE v == g[k - 1]
             e == step[<<k, v>>]
  <2>1. v \in Table /\ k # 0 /\ g[k] = Row(k, v)
    BY <1>8
  <2>2. g[k] = [v EXCEPT ![k] = e]
    BY <2>1
  <2> HIDE DEF v, e
  <2>3. g[k][k] = e /\ \A n \in 1 .. N : n # k => g[k][n] = v[n]
    BY <2>1, <2>2
  <2> QED BY <2>3 DEF v, e
<1> DEFINE f == [n \in 1 .. N |-> g[n][n]]
\* A row keeps what the rows before it have found.
<1>10. \A k \in S : \A n \in 1 .. N : n <= k => g[k][n] = f[n]
  <2> DEFINE Bad == {k \in S : ~ \A n \in 1 .. N : n <= k => g[k][n] = f[n]}
  <2>1. SUFFICES ASSUME Bad # {} PROVE FALSE
    OBVIOUS
  <2>2. PICK k \in Bad : \A j \in Bad : k <= j
    <3>1. Bad \subseteq Nat
      OBVIOUS
    <3> HIDE DEF Bad
    <3> QED BY <2>1, <3>1, NatMin
  <2>3. PICK n \in 1 .. N : n <= k /\ g[k][n] # f[n]
    OBVIOUS
  <2>4. k \in 1 .. N /\ n # k /\ k - 1 \in S /\ n <= k - 1
    BY <2>3
  <2>5. g[k][n] = g[k - 1][n]
    BY <1>9, <2>4
  <2>6. k - 1 \notin Bad
    <3> HIDE DEF Bad
    <3>1. k \in Nat
      BY <2>4
    <3> QED BY <2>2, <3>1
  <2>7. g[k - 1][n] = f[n]
    BY <2>4, <2>6
  <2> QED BY <2>3, <2>5, <2>7
<1>11. f \in [1 .. N -> T]
  BY <1>8
<1>12. ASSUME NEW n \in 1 .. N PROVE f[n] = step[<<n, f>>]
  <2>1. f[n] = step[<<n, g[n - 1]>>]
    BY <1>9
  <2>2. \A m \in 1 .. N : m < n => g[n - 1][m] = f[m]
    <3>1. \A m \in 1 .. N : m < n => m <= n - 1
      OBVIOUS
    <3> HIDE DEF f
    <3> QED BY <1>8, <1>10, <3>1
  <2> HIDE DEF f
  <2>3. g[n - 1] \in [1 .. N -> T]
    BY <1>8
  <2> QED BY <1>11, <2>1, <2>2, <2>3 DEF LooksBelow
<1> QED BY <1>11, <1>12
=============================================================================
