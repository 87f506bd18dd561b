------------------------- MODULE Environment_proofs -------------------------
(* For all names, files, environments and arguments: the list of the          *)
(* environment stays typed, never holds a name twice, and implements EnvMap;  *)
(* what export and unset report as done is done; and what is made of the      *)
(* list, sorted for export and as an array for a program, is the whole of it. *)
(*                                                                            *)
(* The loops over the list (get_environ, bubble_sort_map) are recursive       *)
(* functions: Recursion shows that their equation has a solution, and what    *)
(* they return is shown for the least list, or the least number of turns      *)
(* left, for which it would be wrong.                                         *)
EXTENDS Environment, SequenceTheorems, NatSetTheorems

\* UniqueNames of a list.
UniqueIn(e) == \A k, l \in DOMAIN e : e[k].name = e[l].name => k = l

MaybeValue == {NULL} \cup Value

(***************************************************************************)
(* Looking up.                                                             *)
(***************************************************************************)
\* The only item with a name is the one that map_find_item finds.
LEMMA Found ==
    ASSUME NEW e \in Seq(Item), UniqueIn(e), NEW k \in DOMAIN e
    PROVE  /\ IsHeld(e, e[k].name) /\ map_find_item(e, e[k].name) = k
           /\ map_get(e, e[k].name) = e[k].value
<1>1. k \in Int
  BY LenProperties
<1>2. Holding(e, e[k].name) = {k}
  BY DEF Holding, UniqueIn
<1>3. IsHeld(e, e[k].name) /\ map_find_item(e, e[k].name) = k
  BY <1>1, <1>2 DEF IsHeld, map_find_item
<1> QED BY <1>3 DEF map_get

\* A name that is held has an item.
LEMMA Held ==
    ASSUME NEW e \in Seq(Item), NEW n, IsHeld(e, n)
    PROVE  \E k \in DOMAIN e : e[k].name = n
BY DEF IsHeld, Holding

\* What the map says of a name, from the items.
LEMMA AsMapValue ==
    ASSUME NEW e \in Seq(Item), UniqueIn(e), NEW x \in Name
    PROVE  /\ \A k \in DOMAIN e : e[k].name = x => AsMap(e)[x] = e[k].value
           /\ (\A k \in DOMAIN e : e[k].name # x) => AsMap(e)[x] = Unset
<1>1. ASSUME NEW k \in DOMAIN e, e[k].name = x PROVE AsMap(e)[x] = e[k].value
  BY <1>1, Found DEF AsMap
<1>2. ASSUME \A k \in DOMAIN e : e[k].name # x PROVE AsMap(e)[x] = Unset
  BY <1>2, Held DEF AsMap
<1> QED BY <1>1, <1>2

\* map_get and the map agree.
LEMMA GetIs ==
    ASSUME NEW e \in Seq(Item), UniqueIn(e), NEW x \in Name
    PROVE  /\ map_get(e, x) \in MaybeValue
           /\ AsMap(e)[x] \in MaybeValue \cup {Unset}
           /\ map_get(e, x) = IF AsMap(e)[x] \in Value THEN AsMap(e)[x] ELSE NULL
<1>1. CASE IsHeld(e, x)
  <2>1. PICK k \in DOMAIN e : e[k].name = x
    BY <1>1, Held
  <2>2. map_get(e, x) = e[k].value /\ AsMap(e)[x] = e[k].value
    BY <2>1, Found, AsMapValue
  <2>3. e[k] \in Item
    BY ElementOfSeq, LenProperties
  <2>4. e[k].value \in MaybeValue
    BY <2>3 DEF Item, MaybeValue
  <2> QED BY <2>2, <2>4 DEF MaybeValue
<1>2. CASE ~ IsHeld(e, x)
  <2>1. map_get(e, x) = NULL /\ AsMap(e)[x] = Unset
    BY <1>2 DEF map_get, AsMap
  <2> QED BY <2>1, NamesAssumption DEF MaybeValue
<1> QED BY <1>1, <1>2

(***************************************************************************)
(* Changing.                                                               *)
(***************************************************************************)
\* What map_set and map_unset do to the list and to the map it stands for.
Becomes(e, f, n, v) ==
    /\ f \in Seq(Item)
    /\ UniqueIn(f)
    /\ AsMap(f) = [x \in Name |-> IF x = n THEN v ELSE AsMap(e)[x]]

\* An item is changed in place.
LEMMA UpdateList ==
    ASSUME NEW e \in Seq(Item), UniqueIn(e), NEW n \in Name, NEW v \in MaybeValue,
           IsHeld(e, n)
    PROVE  Becomes(e, map_update_item(e, n, v), n, v)
<1> DEFINE f == map_update_item(e, n, v)
<1>1. PICK k \in DOMAIN e : e[k].name = n
  BY Held
<1>2. f = [e EXCEPT ![k] = [e[k] EXCEPT !.value = v]]
  BY <1>1, Found DEF map_update_item
<1>3. k \in 1 .. Len(e) /\ DOMAIN e = 1 .. Len(e)
  BY LenProperties
<1>4. [e[k] EXCEPT !.value = v] \in Item
  <2>1. e[k] \in Item
    BY <1>3, ElementOfSeq
  <2> QED BY <2>1 DEF Item, MaybeValue
<1>5. f \in Seq(Item) /\ DOMAIN f = DOMAIN e
  BY <1>2, <1>3, <1>4, ExceptSeq, LenProperties
<1>6. \A j \in DOMAIN e : /\ f[j].name = e[j].name
                          /\ f[j].value = IF j = k THEN v ELSE e[j].value
  <2>1. \A j \in DOMAIN e : e[j] \in Item
    BY <1>3, ElementOfSeq
  <2> QED BY <1>2, <2>1 DEF Item
<1> HIDE DEF f
<1>7. UniqueIn(f)
  BY <1>5, <1>6 DEF UniqueIn
<1>8. ASSUME NEW x \in Name
      PROVE  AsMap(f)[x] = IF x = n THEN v ELSE AsMap(e)[x]
  <2>1. CASE \E j \in DOMAIN e : e[j].name = x
    <3>1. PICK j \in DOMAIN e : e[j].name = x
      BY <2>1
    <3>2. AsMap(f)[x] = f[j].value /\ AsMap(e)[x] = e[j].value
      BY <1>5, <1>6, <1>7, <3>1, AsMapValue
    <3>3. x = n <=> j = k
      BY <1>1, <3>1 DEF UniqueIn
    <3> QED BY <1>6, <3>2, <3>3
  <2>2. CASE \A j \in DOMAIN e : e[j].name # x
    <3>1. AsMap(f)[x] = Unset /\ AsMap(e)[x] = Unset
      BY <1>5, <1>6, <1>7, <2>2, AsMapValue
    <3> QED BY <1>1, <2>2, <3>1
  <2> QED BY <2>1, <2>2
<1>9. AsMap(f) = [x \in Name |-> AsMap(f)[x]]
  BY DEF AsMap
<1> QED BY <1>5, <1>7, <1>8, <1>9 DEF Becomes, f

\* A name that is not in the list gets an item in front.
LEMMA AddList ==
    ASSUME NEW e \in Seq(Item), UniqueIn(e), NEW n \in Name, NEW v \in MaybeValue,
           ~ IsHeld(e, n)
    PROVE  Becomes(e, map_add_item(e, n, v), n, v)
<1> DEFINE r == [name |-> n, value |-> v]
           f == map_add_item(e, n, v)
<1>1. r \in Item /\ <<r>> \in Seq(Item) /\ Len(<<r>>) = 1 /\ <<r>>[1] = r
  BY DEF Item, MaybeValue
<1>2. Len(e) \in Nat /\ DOMAIN e = 1 .. Len(e)
  BY LenProperties
<1>3. /\ f \in Seq(Item) /\ Len(f) = 1 + Len(e)
      /\ \A j \in 1 .. 1 + Len(e) : f[j] = IF j <= 1 THEN <<r>>[j] ELSE e[j - 1]
  BY <1>1, ConcatProperties DEF map_add_item
<1>4. DOMAIN f = 1 .. Len(e) + 1
  BY <1>2, <1>3, LenProperties
<1>5. f[1] = r /\ \A j \in DOMAIN e : j + 1 \in DOMAIN f /\ f[j + 1] = e[j]
  BY <1>1, <1>2, <1>3, <1>4
<1>6. \A j \in DOMAIN f : j = 1 \/ (j - 1 \in DOMAIN e /\ f[j] = e[j - 1])
  BY <1>2, <1>3, <1>4
<1>7. \A j \in DOMAIN e : e[j].name # n
  BY DEF IsHeld, Holding
<1>8. 1 \in DOMAIN f /\ DOMAIN f \subseteq Int
  BY <1>2, <1>4
<1> HIDE DEF f
<1>9. UniqueIn(f)
  <2> SUFFICES ASSUME NEW k \in DOMAIN f, NEW l \in DOMAIN f, f[k].name = f[l].name
               PROVE  k = l
    BY DEF UniqueIn
  <2>1. CASE k # 1 /\ l # 1
    <3>1. k - 1 = l - 1
      BY <1>6, <2>1 DEF UniqueIn
    <3> QED BY <1>8, <3>1
  <2>2. CASE k = 1 \/ l = 1
    BY <1>5, <1>6, <1>7, <2>2
  <2> QED BY <2>1, <2>2
<1>10. ASSUME NEW x \in Name
       PROVE  AsMap(f)[x] = IF x = n THEN v ELSE AsMap(e)[x]
  <2>1. CASE x = n
    <3>1. f[1].name = x /\ f[1].value = v
      BY <1>5, <2>1
    <3> QED BY <1>3, <1>8, <1>9, <2>1, <3>1, AsMapValue
  <2>2. CASE x # n /\ \E j \in DOMAIN e : e[j].name = x
    <3>1. PICK j \in DOMAIN e : e[j].name = x
      BY <2>2
    <3>2. AsMap(f)[x] = f[j + 1].value /\ AsMap(e)[x] = e[j].value
      BY <1>3, <1>5, <1>9, <3>1, AsMapValue
    <3> QED BY <1>5, <2>2, <3>2
  <2>3. CASE x # n /\ \A j \in DOMAIN e : e[j].name # x
    <3>1. \A j \in DOMAIN f : f[j].name # x
      BY <1>5, <1>6, <2>3
    <3>2. AsMap(f)[x] = Unset
      BY <1>3, <1>9, <3>1, AsMapValue
    <3>3. AsMap(e)[x] = Unset
      BY <2>3, AsMapValue
    <3> QED BY <2>3, <3>2, <3>3
  <2> QED BY <2>1, <2>2, <2>3
<1>11. AsMap(f) = [x \in Name |-> AsMap(f)[x]]
  BY DEF AsMap
<1> QED BY <1>3, <1>9, <1>10, <1>11 DEF Becomes, f

\* map_set carries out a request, and none that is not about a name.
LEMMA SetList ==
    ASSUME NEW e \in Seq(Item), UniqueIn(e),
           NEW n \in Name \cup {NotName}, NEW v \in MaybeValue
    PROVE  Becomes(e, map_set(e, n, v), n, v)
<1>1. CASE n \notin Name
  <2>1. map_set(e, n, v) = e
    BY <1>1 DEF map_set
  <2>2. AsMap(e) = [x \in Name |-> IF x = n THEN v ELSE AsMap(e)[x]]
    BY <1>1 DEF AsMap
  <2> QED BY <2>1, <2>2 DEF Becomes
<1>2. CASE n \in Name /\ IsHeld(e, n)
  BY <1>2, UpdateList DEF map_set
<1>3. CASE n \in Name /\ ~ IsHeld(e, n)
  BY <1>3, AddList DEF map_set
<1> QED BY <1>1, <1>2, <1>3

\* map_unset removes a name, and nothing else.
LEMMA UnsetList ==
    ASSUME NEW e \in Seq(Item), UniqueIn(e), NEW n \in Name \cup {NotName}
    PROVE  Becomes(e, map_unset(e, n), n, Unset)
<1>1. CASE ~ IsHeld(e, n)
  <2>1. map_unset(e, n) = e
    BY <1>1 DEF map_unset
  <2>2. AsMap(e) = [x \in Name |-> IF x = n THEN Unset ELSE AsMap(e)[x]]
    BY <1>1 DEF AsMap
  <2> QED BY <2>1, <2>2 DEF Becomes
<1>2. CASE IsHeld(e, n)
  <2> DEFINE f == map_unset(e, n)
  <2>1. PICK k \in DOMAIN e : e[k].name = n
    BY <1>2, Held
  <2>2. Len(e) \in Nat /\ DOMAIN e = 1 .. Len(e) /\ k \in 1 .. Len(e)
    BY LenProperties
  <2> DEFINE a == SubSeq(e, 1, k - 1)
             b == SubSeq(e, k + 1, Len(e))
  <2>3. f = a \o b
    BY <1>2, <2>1, Found DEF map_unset, RemoveAt
  <2>4. \A j \in 1 .. Len(e) : e[j] \in Item
    BY ElementOfSeq
  <2>5. /\ a \in Seq(Item) /\ Len(a) = k - 1
        /\ \A j \in 1 .. k - 1 : a[j] = e[j]
    <3>1. \A j \in 1 .. k - 1 : e[j] \in Item
      BY <2>2, <2>4
    <3> QED BY <2>2, <3>1, SubSeqProperties
  <2>6. /\ b \in Seq(Item) /\ Len(b) = Len(e) - k
        /\ \A j \in 1 .. Len(e) - k : b[j] = e[k + j]
    <3>1. \A j \in k + 1 .. Len(e) : e[j] \in Item
      BY <2>2, <2>4
    <3>2. k + 1 \in Int /\ Len(e) \in Int
      BY <2>2
    <3>3. /\ b \in Seq(Item) /\ Len(b) = IF k + 1 <= Len(e) THEN Len(e) - (k + 1) + 1 ELSE 0
          /\ \A j \in 1 .. Len(e) - (k + 1) + 1 : b[j] = e[(k + 1) + j - 1]
      BY <3>1, <3>2, SubSeqProperties
    <3> QED BY <2>2, <3>3
  <2> HIDE DEF a, b
  <2>7. /\ f \in Seq(Item) /\ Len(f) = Len(e) - 1
        /\ \A j \in 1 .. Len(e) - 1 : f[j] = IF j <= k - 1 THEN a[j] ELSE b[j - (k - 1)]
    <3>1. Len(a) + Len(b) = Len(e) - 1
      BY <2>2, <2>5, <2>6
    <3>2. /\ a \o b \in Seq(Item)
          /\ Len(a \o b) = Len(a) + Len(b)
          /\ \A j \in 1 .. Len(a) + Len(b) :
               (a \o b)[j] = IF j <= Len(a) THEN a[j] ELSE b[j - Len(a)]
      BY <2>5, <2>6, ConcatProperties
    <3> QED BY <2>3, <2>5, <3>1, <3>2
  <2>8. \A j \in 1 .. Len(e) - 1 : f[j] = IF j < k THEN e[j] ELSE e[j + 1]
    <3> TAKE j \in 1 .. Len(e) - 1
    <3>1. CASE j < k
      BY <2>2, <2>5, <2>7, <3>1
    <3>2. CASE ~ j < k
      <4>1. j - (k - 1) \in 1 .. Len(e) - k /\ k + (j - (k - 1)) = j + 1
        BY <2>2, <3>2
      <4>2. b[j - (k - 1)] = e[j + 1]
        BY <2>6, <4>1
      <4>3. ~ j <= k - 1
        BY <2>2, <3>2
      <4>4. f[j] = b[j - (k - 1)]
        BY <2>7, <4>3
      <4> QED BY <3>2, <4>2, <4>4
    <3> QED BY <3>1, <3>2
  <2>9. DOMAIN f = 1 .. Len(e) - 1
    BY <2>7, LenProperties
  <2> HIDE DEF f
  <2>10. UniqueIn(f)
    <3> SUFFICES ASSUME NEW j \in DOMAIN f, NEW l \in DOMAIN f, f[j].name = f[l].name
                 PROVE  j = l
      BY DEF UniqueIn
    <3> DEFINE s(y) == IF y < k THEN y ELSE y + 1
    <3>1. s(j) \in DOMAIN e /\ s(l) \in DOMAIN e
      BY <2>2, <2>9
    <3>2. e[s(j)].name = e[s(l)].name
      BY <2>8, <2>9
    <3>3. s(j) = s(l)
      BY <3>1, <3>2 DEF UniqueIn
    <3> QED BY <2>2, <2>9, <3>3
  <2>11. ASSUME NEW x \in Name
         PROVE  AsMap(f)[x] = IF x = n THEN Unset ELSE AsMap(e)[x]
    <3>1. CASE x = n
      <4>1. \A j \in DOMAIN f : f[j].name # n
        <5> SUFFICES ASSUME NEW j \in DOMAIN f, f[j].name = n PROVE FALSE
          OBVIOUS
        <5> DEFINE y == IF j < k THEN j ELSE j + 1
        <5>1. y \in DOMAIN e /\ e[y].name = n /\ y # k
          BY <2>2, <2>8, <2>9
        <5> QED BY <2>1, <5>1 DEF UniqueIn
      <4> QED BY <2>7, <2>10, <3>1, <4>1, AsMapValue
    <3>2. CASE x # n /\ \E j \in DOMAIN e : e[j].name = x
      <4>1. PICK j \in DOMAIN e : e[j].name = x
        BY <3>2
      <4>2. j # k
        BY <2>1, <3>2, <4>1
      <4> DEFINE y == IF j < k THEN j ELSE j - 1
      <4>3. y \in DOMAIN f /\ f[y] = e[j]
        BY <2>2, <2>8, <2>9, <4>2
      <4>4. AsMap(f)[x] = f[y].value /\ AsMap(e)[x] = e[j].value
        BY <2>7, <2>10, <4>1, <4>3, AsMapValue
      <4> QED BY <3>2, <4>3, <4>4
    <3>3. CASE x # n /\ \A j \in DOMAIN e : e[j].name # x
      <4>1. \A j \in DOMAIN f : f[j].name # x
        <5> SUFFICES ASSUME NEW j \in DOMAIN f PROVE f[j].name # x
          OBVIOUS
        <5> DEFINE y == IF j < k THEN j ELSE j + 1
        <5>1. y \in DOMAIN e /\ f[j] = e[y]
          BY <2>2, <2>8, <2>9
        <5> QED BY <3>3, <5>1
      <4>2. AsMap(f)[x] = Unset
        BY <2>7, <2>10, <4>1, AsMapValue
      <4>3. AsMap(e)[x] = Unset
        BY <3>3, AsMapValue
      <4> QED BY <3>3, <4>2, <4>3
    <3> QED BY <3>1, <3>2, <3>3
  <2>12. AsMap(f) = [x \in Name |-> AsMap(f)[x]]
    BY DEF AsMap
  <2> QED BY <2>7, <2>10, <2>11, <2>12 DEF Becomes, f
<1> QED BY <1>1, <1>2

(***************************************************************************)
(* Directories.                                                            *)
(***************************************************************************)
\* A path without its last element is a path.
LEMMA DeleteLast ==
    ASSUME NEW p \in Value
    PROVE  /\ delete_last_elem(p) \in Value
           /\ p \in Dir => delete_last_elem(p) \in Dir
<1>1. CASE p = << >>
  BY <1>1 DEF delete_last_elem
<1>2. CASE p # << >>
  <2>1. Len(p) \in Nat /\ \A j \in 1 .. Len(p) : p[j] \in Elem
    BY LenProperties, ElementOfSeq DEF Value
  <2>2. \A j \in 1 .. Len(p) - 1 : p[j] \in Elem
    BY <2>1
  <2>3. SubSeq(p, 1, Len(p) - 1) \in Seq(Elem)
    BY <2>1, <2>2, SubSeqProperties
  <2>4. delete_last_elem(p) = Front(p) /\ Front(p) \in Value
    BY <1>2, <2>3 DEF delete_last_elem, Front, Value
  <2> QED BY <1>2, <2>4, FilesAssumption
<1> QED BY <1>1, <1>2

\* An element of the path of cd.
PathElem == Elem \cup {".", ".."}

\* resolve_pwd makes paths.
LEMMA ResolveType ==
    ASSUME NEW p \in Value, NEW elem \in PathElem
    PROVE  resolve_elem(p, elem) \in Value
<1>1. CASE elem = "."
  BY <1>1 DEF resolve_elem
<1>2. CASE elem = ".."
  BY <1>2, DeleteLast DEF resolve_elem
<1>3. CASE elem \notin {".", ".."}
  <2>1. elem \in Elem
    BY <1>3 DEF PathElem
  <2>2. Append(p, elem) \in Value
    BY <2>1, AppendProperties DEF Value
  <2> QED BY <1>3, <2>2 DEF resolve_elem
<1> QED BY <1>1, <1>2, <1>3

\* The kernel stays within the directories there are.
LEMMA EnterType ==
    ASSUME NEW d \in Dir \cup {NULL}, NEW elem \in PathElem
    PROVE  Enter(d, elem) \in Dir \cup {NULL}
<1> DEFINE p == Append(d, elem)
<1>1. CASE d = NULL \/ elem = "."
  BY <1>1 DEF Enter
<1>2. CASE d # NULL /\ elem = ".."
  <2>1. d \in Value
    BY <1>2, FilesAssumption
  <2>2. Enter(d, elem) = delete_last_elem(d)
    BY <1>2 DEF Enter
  <2> QED BY <1>2, <2>1, <2>2, DeleteLast
<1>3. CASE d # NULL /\ elem \notin {".", ".."} /\ p \in DOMAIN Link
  <2>1. Enter(d, elem) = Link[p]
    BY <1>3 DEF Enter
  <2> QED BY <1>3, <2>1, FilesAssumption
<1>4. CASE d # NULL /\ elem \notin {".", ".."} /\ p \in Dir \ DOMAIN Link
  <2>1. Enter(d, elem) = p
    BY <1>4 DEF Enter
  <2> QED BY <1>4, <2>1
<1>5. CASE d # NULL /\ elem \notin {".", ".."} /\ p \notin Dir \cup DOMAIN Link
  <2>1. Enter(d, elem) = NULL
    BY <1>5 DEF Enter
  <2> QED BY <2>1
<1> QED BY <1>1, <1>2, <1>3, <1>4, <1>5

(***************************************************************************)
(* The invariant.                                                          *)
(***************************************************************************)
\* While cd runs, what resolve_pwd builds on is the PWD of the list.
KnownBefore == pc = "cd" /\ walk.resolved # NULL => map_get(env, PWD) # NULL

Inv == TypeOK /\ UniqueNames /\ KnownBefore

\* The next argument is an argument.
LEMMA ArgumentType ==
    ASSUME TypeOK, i <= Len(argv)
    PROVE  argv[i] \in Argument
<1>1. i \in 1 .. Len(argv)
  BY LenProperties DEF TypeOK
<1> QED BY <1>1, ElementOfSeq DEF TypeOK

\* A builtin that goes on has an argument to go on with.
LEMMA NextArgumentType ==
    ASSUME TypeOK, NextArgument, pc \in {"export", "unset"}
    PROVE  /\ pc' \in {"prompt", pc}
           /\ argv' \in Seq(Argument) /\ i' \in Nat \ {0}
           /\ pc' \in {"export", "unset"} => i' <= Len(argv')
<1>1. Len(argv) \in Nat /\ i \in Nat \ {0} /\ argv \in Seq(Argument)
  BY LenProperties DEF TypeOK
<1>2. CASE i < Len(argv)
  BY <1>1, <1>2 DEF NextArgument
<1>3. CASE ~ i < Len(argv)
  BY <1>1, <1>3, EmptySeq DEF NextArgument
<1> QED BY <1>2, <1>3

\* A new argument list.
LEMMA NewArgumentsType ==
    ASSUME argv' \in Argvs, argv' # << >>
    PROVE  argv' \in Seq(Argument) /\ 1 <= Len(argv')
<1>1. argv' \in Seq(Argument)
  BY InputAssumption
<1> QED BY <1>1, EmptySeq

\* The list of a typed state.
LEMMA ListType == Inv => env \in Seq(Item) /\ UniqueIn(env)
BY DEF Inv, TypeOK, UniqueNames, UniqueIn

\* A new list is typed, and a name is in it once.
LEMMA BecomesType ==
    ASSUME NEW n, NEW v, Becomes(env, env', n, v)
    PROVE  env' \in Seq(Item) /\ UniqueNames'
BY DEF Becomes, UniqueNames, UniqueIn

\* The invariant holds at the start,
LEMMA InitInv == Init => Inv
<1> SUFFICES ASSUME Init PROVE Inv
  OBVIOUS
<1>1. << >> \in Seq(Item) /\ DOMAIN << >> = {}
  BY EmptySeq, LenProperties
<1>2. argv \in Seq(Argument)
  BY InputAssumption DEF Init
<1>3. NoWalk \in [path : Path, k : Nat \ {0}, at : Dir \cup {NULL},
                  resolved : {NULL} \cup Value]
  BY EmptySeq DEF NoWalk, NoPath, Path
<1>4. 0 \in 0 .. MaxCommands
  BY InputAssumption
<1>5. TypeOK
  BY <1>1, <1>2, <1>3, <1>4 DEF Init, TypeOK
<1>6. UniqueNames
  BY <1>1 DEF Init, UniqueNames
<1> QED BY <1>5, <1>6 DEF Init, Inv, KnownBefore

\* envmap_init is up to two requests.
LEMMA DefaultsList ==
    ASSUME NEW e \in Seq(Item), UniqueIn(e), NEW n \in Name, NEW v \in Value
    PROVE  /\ SetDefault(e, n, v) \in Seq(Item)
           /\ UniqueIn(SetDefault(e, n, v))
           /\ AsMap(SetDefault(e, n, v)) =
                [x \in Name |-> IF x = n /\ AsMap(e)[n] \notin Value THEN v ELSE AsMap(e)[x]]
<1> DEFINE f == SetDefault(e, n, v)
<1>1. map_get(e, n) = NULL <=> AsMap(e)[n] \notin Value
  BY GetIs, NamesAssumption
<1>2. CASE map_get(e, n) = NULL
  <2>1. f = map_set(e, n, v)
    BY <1>2 DEF SetDefault
  <2>2. Becomes(e, f, n, v)
    BY <2>1, SetList DEF MaybeValue
  <2> QED BY <1>1, <1>2, <2>2 DEF Becomes
<1>3. CASE map_get(e, n) # NULL
  <2>1. f = e
    BY <1>3 DEF SetDefault
  <2>2. AsMap(e) = [x \in Name |-> AsMap(e)[x]]
    BY DEF AsMap
  <2> QED BY <1>1, <1>3, <2>1, <2>2
<1> QED BY <1>2, <1>3

(***************************************************************************)
(* The invariant, action by action.                                        *)
(***************************************************************************)
\* One string of envp.
LEMMA PutInv == ASSUME Inv, map_put PROVE Inv'
<1>1. env \in Seq(Item) /\ UniqueIn(env) /\ argv[i] \in Argument
  BY ListType, ArgumentType DEF Inv, map_put
<1>2. argv[i].name \in Name \cup {NotName} /\ argv[i].value \in MaybeValue
  BY <1>1 DEF Argument, MaybeValue
<1>3. env' \in Seq(Item) /\ UniqueNames'
  <2>1. CASE argv[i].value = NULL
    BY <1>1, <2>1 DEF map_put, UniqueNames, UniqueIn
  <2>2. CASE argv[i].value # NULL
    <3>1. Becomes(env, env', argv[i].name, argv[i].value)
      BY <1>1, <1>2, <2>2, SetList DEF map_put
    <3> QED BY <3>1, BecomesType
  <2> QED BY <2>1, <2>2
<1> QED BY <1>3 DEF Inv, TypeOK, KnownBefore, map_put

\* The defaults.
LEMMA DefaultsInv == ASSUME Inv, envmap_init PROVE Inv'
<1> DEFINE e == SetDefault(env, SHLVL, One)
<1>1. env \in Seq(Item) /\ UniqueIn(env)
  BY ListType
<1>2. One \in Value /\ cwd \in Value /\ {SHLVL, PWD} \subseteq Name
  BY FilesAssumption, NamesAssumption DEF Inv, TypeOK
<1>3. e \in Seq(Item) /\ UniqueIn(e)
  BY <1>1, <1>2, DefaultsList
<1> HIDE DEF e
<1>4. SetDefault(e, PWD, cwd) \in Seq(Item) /\ UniqueIn(SetDefault(e, PWD, cwd))
  BY <1>2, <1>3, DefaultsList
<1>5. env' = SetDefault(e, PWD, cwd)
  BY DEF envmap_init, e
<1>6. UniqueNames' /\ env' \in Seq(Item)
  BY <1>4, <1>5 DEF UniqueNames, UniqueIn
<1>7. argv' \in Seq(Argument)
  BY EmptySeq DEF envmap_init
<1> QED BY <1>6, <1>7 DEF Inv, TypeOK, KnownBefore, envmap_init

\* One argument of export.
LEMMA ExportInv == ASSUME Inv, update_key_value PROVE Inv'
<1>1. env \in Seq(Item) /\ UniqueIn(env) /\ argv[i] \in Argument
  BY ListType, ArgumentType DEF Inv, TypeOK, update_key_value
<1>2. argv[i].name \in Name \cup {NotName} /\ argv[i].value \in MaybeValue
  BY <1>1 DEF Argument, MaybeValue
<1>3. Becomes(env, env', argv[i].name, argv[i].value)
  BY <1>1, <1>2, SetList DEF update_key_value
<1>4. env' \in Seq(Item) /\ UniqueNames'
  BY <1>3, BecomesType
<1>5. /\ pc' \in {"prompt", pc} /\ argv' \in Seq(Argument) /\ i' \in Nat \ {0}
      /\ pc' \in {"export", "unset"} => i' <= Len(argv')
  BY NextArgumentType DEF Inv, update_key_value
<1>6. last_status' \in {0, 1}
  BY DEF Inv, TypeOK, update_key_value, ExportStatus
<1> QED BY <1>4, <1>5, <1>6 DEF Inv, TypeOK, KnownBefore, update_key_value

\* One argument of unset.
LEMMA UnsetInv == ASSUME Inv, unset_name PROVE Inv'
<1>1. env \in Seq(Item) /\ UniqueIn(env) /\ argv[i] \in Argument
  BY ListType, ArgumentType DEF Inv, TypeOK, unset_name
<1>2. argv[i].name \in Name \cup {NotName}
  BY <1>1 DEF Argument
<1>3. Becomes(env, env', argv[i].name, Unset)
  BY <1>1, <1>2, UnsetList DEF unset_name
<1>4. env' \in Seq(Item) /\ UniqueNames'
  BY <1>3, BecomesType
<1>5. /\ pc' \in {"prompt", pc} /\ argv' \in Seq(Argument) /\ i' \in Nat \ {0}
      /\ pc' \in {"export", "unset"} => i' <= Len(argv')
  BY NextArgumentType DEF Inv, unset_name
<1>6. last_status' \in {0, 1}
  BY DEF Inv, TypeOK, unset_name
<1> QED BY <1>4, <1>5, <1>6 DEF Inv, TypeOK, KnownBefore, unset_name

\* A command is given: one more than before, and within the bound.
LEMMA GivenType == ASSUME Inv, Given PROVE commands' \in 0 .. MaxCommands
BY InputAssumption DEF Inv, TypeOK, Given

\* export and unset begin.
LEMMA BeginInv ==
    ASSUME Inv, builtin_export \/ builtin_unset
    PROVE  Inv'
<1>1. commands' \in 0 .. MaxCommands
  BY GivenType DEF builtin_export, builtin_unset
<1>2. argv' \in Seq(Argument) /\ (argv' # << >> => 1 <= Len(argv'))
  BY NewArgumentsType, EmptySeq DEF builtin_export, builtin_unset
<1>3. UniqueNames'
  BY DEF Inv, UniqueNames, builtin_export, builtin_unset
<1>4. TypeOK'
  BY <1>1, <1>2 DEF Inv, TypeOK, builtin_export, builtin_unset
<1> QED BY <1>3, <1>4 DEF Inv, KnownBefore, builtin_export, builtin_unset

\* cd begins.  OLDPWD is not PWD, which is still what resolve_pwd starts from.
LEMMA CdInv ==
    ASSUME Inv, NEW arg \in CdArgs, builtin_cd(arg)
    PROVE  Inv'
<1> DEFINE pwd == map_get(env, PWD)
           home == map_get(env, HOME)
           path == IF arg.kind = "home" THEN Absolute(home) ELSE arg.path
           fails == arg.kind = "rejected" \/ (arg.kind = "home" /\ home = NULL)
<1>1. env \in Seq(Item) /\ UniqueIn(env)
  BY ListType
<1>2. pwd \in MaybeValue /\ home \in MaybeValue
  BY <1>1, GetIs, NamesAssumption
<1>3. arg \in CdArgument
  BY InputAssumption
<1>4. ~ fails => path \in Path
  <2>1. arg.path \in Path
    BY <1>3 DEF CdArgument
  <2>2. ASSUME home # NULL PROVE Absolute(home) \in Path
    <3>1. home \in Seq(Elem)
      BY <1>2, <2>2 DEF MaybeValue, Value
    <3>2. home \in Seq(Elem \cup {".", ".."})
      BY <3>1, SeqMonotonic
    <3> QED BY <3>2 DEF Absolute, Path
  <2> QED BY <2>1, <2>2
<1>5. /\ env' \in Seq(Item) /\ UniqueNames' /\ map_get(env', PWD) = pwd
  <2>1. CASE arg.kind = "rejected"
    BY <1>1, <2>1 DEF builtin_cd, UniqueNames, UniqueIn
  <2>2. CASE arg.kind # "rejected"
    <3>1. Becomes(env, env', OLDPWD, pwd)
      BY <1>1, <1>2, <2>2, SetList, NamesAssumption DEF builtin_cd
    <3>2. AsMap(env')[PWD] = AsMap(env)[PWD] /\ UniqueIn(env') /\ env' \in Seq(Item)
      BY <3>1, NamesAssumption DEF Becomes
    <3>3. map_get(env', PWD) = pwd
      BY <1>1, <3>2, GetIs, NamesAssumption
    <3> QED BY <3>1, <3>3, BecomesType
  <2> QED BY <2>1, <2>2
<1>6. commands' \in 0 .. MaxCommands
  BY GivenType DEF builtin_cd
<1>7. << >> \in Dir /\ << >> \in Value /\ cwd \in Dir
  BY FilesAssumption DEF Inv, TypeOK
<1> HIDE DEF pwd, home, path, fails
<1>8. /\ pc' = IF fails THEN "prompt" ELSE "cd"
      /\ last_status' = IF fails THEN 1 ELSE last_status
      /\ walk' = IF fails THEN NoWalk
                 ELSE [path |-> path, k |-> 1,
                       at |-> CASE path.absolute -> << >>
                                [] path = NoPath -> NULL
                                [] OTHER -> cwd,
                       resolved |-> IF path.absolute /\ pwd # NULL THEN << >> ELSE pwd]
      /\ UNCHANGED <<cwd, argv, i>>
  BY DEF builtin_cd, pwd, home, path, fails
<1>9. CASE fails
  <2>1. NoWalk \in [path : Path, k : Nat \ {0}, at : Dir \cup {NULL},
                    resolved : {NULL} \cup Value]
    BY EmptySeq DEF NoWalk, NoPath, Path
  <2> QED BY <1>5, <1>6, <1>8, <1>9, <2>1 DEF Inv, TypeOK, KnownBefore
<1>10. CASE ~ fails
  <2>1. walk' \in [path : Path, k : Nat \ {0}, at : Dir \cup {NULL},
                   resolved : {NULL} \cup Value]
    BY <1>2, <1>4, <1>7, <1>8, <1>10 DEF MaybeValue, Path, NoPath
  <2>2. walk'.resolved # NULL => pwd # NULL
    BY <1>8, <1>10
  <2> QED BY <1>5, <1>6, <1>8, <1>10, <2>1, <2>2 DEF Inv, TypeOK, KnownBefore
<1> QED BY <1>9, <1>10

\* An element of the path of cd.
LEMMA CdElemInv == ASSUME Inv, cd_elem PROVE Inv'
<1> DEFINE elem == walk.path.elems[walk.k]
           at == Enter(walk.at, elem)
           resolved == IF walk.resolved = NULL THEN NULL
                       ELSE resolve_elem(walk.resolved, elem)
<1>1. walk \in [path : Path, k : Nat \ {0}, at : Dir \cup {NULL},
                resolved : {NULL} \cup Value]
  BY DEF Inv, TypeOK
<1>2. walk.path.elems \in Seq(PathElem) /\ walk.k \in Nat \ {0}
  BY <1>1 DEF Path, PathElem
<1>3. walk.k \in 1 .. Len(walk.path.elems)
  BY <1>2, LenProperties DEF cd_elem
<1>4. elem \in PathElem
  BY <1>2, <1>3, ElementOfSeq
<1>5. at \in Dir \cup {NULL}
  BY <1>1, <1>4, EnterType
<1>6. resolved \in {NULL} \cup Value /\ (walk.resolved = NULL => resolved = NULL)
  BY <1>1, <1>4, ResolveType
<1>7. walk' = [walk EXCEPT !.k = walk.k + 1, !.at = at, !.resolved = resolved]
  BY DEF cd_elem
<1> HIDE DEF elem, at, resolved
<1>8. /\ walk' \in [path : Path, k : Nat \ {0}, at : Dir \cup {NULL},
                    resolved : {NULL} \cup Value]
      /\ walk'.resolved = resolved
  <2>1. walk' = [path |-> walk.path, k |-> walk.k + 1, at |-> at, resolved |-> resolved]
    BY <1>1, <1>7
  <2>2. walk.path \in Path /\ walk.k + 1 \in Nat \ {0}
    BY <1>1, <1>2
  <2> QED BY <1>5, <1>6, <2>1, <2>2
<1>9. UniqueNames'
  BY DEF Inv, UniqueNames, cd_elem
<1>10. KnownBefore'
  BY <1>6, <1>8 DEF Inv, KnownBefore, cd_elem
<1> QED BY <1>8, <1>9, <1>10 DEF Inv, TypeOK, cd_elem

\* The end of cd.
LEMMA CdEndInv == ASSUME Inv, cd_end PROVE Inv'
<1>1. env \in Seq(Item) /\ UniqueIn(env)
  BY ListType
<1>2. walk.at \in Dir \cup {NULL} /\ walk.resolved \in MaybeValue
  BY DEF Inv, TypeOK, MaybeValue
<1>3. env' \in Seq(Item) /\ UniqueNames'
  <2>1. CASE env' = env
    BY <1>1, <2>1 DEF UniqueNames, UniqueIn
  <2>2. CASE env' # env
    <3>1. env' = map_set(env, PWD, walk.resolved)
      BY <2>2 DEF cd_end
    <3>2. Becomes(env, env', PWD, walk.resolved)
      BY <1>1, <1>2, <3>1, SetList, NamesAssumption
    <3> QED BY <3>2, BecomesType
  <2> QED BY <2>1, <2>2
<1>4. NoWalk \in [path : Path, k : Nat \ {0}, at : Dir \cup {NULL},
                  resolved : {NULL} \cup Value]
  BY EmptySeq DEF NoWalk, NoPath, Path
<1>5. cwd' \in Dir /\ last_status' \in {0, 1}
  BY <1>2 DEF Inv, TypeOK, cd_end
<1> QED BY <1>3, <1>4, <1>5 DEF Inv, TypeOK, KnownBefore, cd_end

\* every step keeps it,
LEMMA StepInv == Inv /\ [Next]_vars => Inv'
<1> SUFFICES ASSUME Inv, [Next]_vars PROVE Inv'
  OBVIOUS
<1>1. CASE map_put
  BY <1>1, PutInv
<1>2. CASE envmap_init
  BY <1>2, DefaultsInv
<1>3. CASE builtin_export \/ builtin_unset
  BY <1>3, BeginInv
<1>4. CASE update_key_value
  BY <1>4, ExportInv
<1>5. CASE unset_name
  BY <1>5, UnsetInv
<1>6. ASSUME NEW arg \in CdArgs, builtin_cd(arg) PROVE Inv'
  BY <1>6, CdInv
<1>7. CASE cd_elem
  BY <1>7, CdElemInv
<1>8. CASE cd_end
  BY <1>8, CdEndInv
<1>9. CASE other_command
  <2>1. commands' \in 0 .. MaxCommands
    BY <1>9, GivenType DEF other_command
  <2> QED BY <1>9, <2>1 DEF Inv, TypeOK, UniqueNames, KnownBefore, other_command
<1>10. CASE UNCHANGED vars
  BY <1>10 DEF Inv, TypeOK, UniqueNames, KnownBefore, vars
<1> QED BY <1>1, <1>2, <1>3, <1>4, <1>5, <1>6, <1>7, <1>8, <1>9, <1>10 DEF Next

\* and so it always holds.
LEMMA Invariant == Spec => []Inv
BY InitInv, StepInv, PTL DEF Spec

\* Every state is typed: in particular cd leads only into directories, and the
\* status of export and unset is 0 or 1.
THEOREM EnvironmentTyped == Spec => []TypeOK
<1>1. Inv => TypeOK
  BY DEF Inv
<1> QED BY <1>1, Invariant, PTL

\* No name is ever in the list twice.
THEOREM NamesOnce == Spec => []UniqueNames
<1>1. Inv => UniqueNames
  BY DEF Inv
<1> QED BY <1>1, Invariant, PTL

(***************************************************************************)
(* What a builtin that reports success has done.                           *)
(***************************************************************************)
\* The first n arguments of export are names, and each name has the value of
\* the last of them about it; the first n arguments of unset are gone.
ExportedUpTo(e, n) ==
    \A k \in 1 .. n :
        /\ argv[k].name \in Name
        /\ (\A l \in k + 1 .. n : argv[l].name # argv[k].name) =>
             AsMap(e)[argv[k].name] = argv[k].value
GoneUpTo(e, n) ==
    \A k \in 1 .. n : argv[k].name \in Name => AsMap(e)[argv[k].name] = Unset

\* A status of 0 says that no argument so far was refused.
DoneSoFar == /\ pc = "export" /\ last_status = 0 => ExportedUpTo(env, i - 1)
             /\ pc = "unset" => GoneUpTo(env, i - 1)

\* An argument of export does what it asks, and undoes none before it but one
\* about the same name.
LEMMA ExportTurn ==
    ASSUME Inv, DoneSoFar, update_key_value, last_status' = 0
    PROVE  ExportedUpTo(env', i)
<1>1. argv[i] \in Argument /\ env \in Seq(Item) /\ UniqueIn(env) /\ i \in Nat \ {0}
  BY ListType, ArgumentType DEF Inv, TypeOK, update_key_value
<1>2. argv[i].name \in Name /\ argv[i].value \in MaybeValue /\ last_status = 0
  BY <1>1 DEF update_key_value, ExportStatus, Argument, MaybeValue
<1>3. AsMap(env') = [x \in Name |-> IF x = argv[i].name THEN argv[i].value ELSE AsMap(env)[x]]
  <2>1. Becomes(env, env', argv[i].name, argv[i].value)
    BY <1>1, <1>2, SetList DEF update_key_value
  <2> QED BY <2>1 DEF Becomes
<1>4. ExportedUpTo(env, i - 1)
  BY <1>2 DEF DoneSoFar, update_key_value
<1>5. SUFFICES ASSUME NEW k \in 1 .. i
               PROVE  /\ argv[k].name \in Name
                      /\ (\A l \in k + 1 .. i : argv[l].name # argv[k].name) =>
                            AsMap(env')[argv[k].name] = argv[k].value
  BY DEF ExportedUpTo
<1>6. CASE k = i
  BY <1>2, <1>3, <1>6
<1>7. CASE k # i
  <2>1. k \in 1 .. i - 1 /\ i \in k + 1 .. i /\ k + 1 .. i - 1 \subseteq k + 1 .. i
    BY <1>1, <1>7
  <2> QED BY <1>3, <1>4, <2>1 DEF ExportedUpTo
<1> QED BY <1>6, <1>7

\* An argument of unset goes, and nothing that has gone comes back.
LEMMA UnsetTurn ==
    ASSUME Inv, DoneSoFar, unset_name PROVE GoneUpTo(env', i)
<1>1. argv[i] \in Argument /\ env \in Seq(Item) /\ UniqueIn(env) /\ i \in Nat \ {0}
  BY ListType, ArgumentType DEF Inv, TypeOK, unset_name
<1>2. argv[i].name \in Name \cup {NotName}
  BY <1>1 DEF Argument
<1>3. AsMap(env') = [x \in Name |-> IF x = argv[i].name THEN Unset ELSE AsMap(env)[x]]
  <2>1. Becomes(env, env', argv[i].name, Unset)
    BY <1>1, <1>2, UnsetList DEF unset_name
  <2> QED BY <2>1 DEF Becomes
<1>4. GoneUpTo(env, i - 1)
  BY DEF DoneSoFar, unset_name
<1>5. \A k \in 1 .. i : k = i \/ k \in 1 .. i - 1
  BY <1>1
<1> QED BY <1>3, <1>4, <1>5 DEF GoneUpTo

\* Every step keeps what has been done of what was asked.
LEMMA StepDone ==
    ASSUME Inv, DoneSoFar, [Next]_vars PROVE DoneSoFar'
<1>1. i \in Nat \ {0}
  BY DEF Inv, TypeOK
<1>2. CASE update_key_value
  <2>1. SUFFICES ASSUME pc' = "export", last_status' = 0 PROVE ExportedUpTo(env, i - 1)'
    BY <1>2 DEF DoneSoFar, update_key_value, NextArgument
  <2>2. argv' = argv /\ i' = i + 1
    BY <1>2, <2>1 DEF update_key_value, NextArgument
  <2>3. ExportedUpTo(env', i)
    BY <1>2, <2>1, ExportTurn
  <2>4. i' - 1 = i
    BY <1>1, <2>2
  <2> QED BY <2>2, <2>3, <2>4 DEF ExportedUpTo
<1>3. CASE unset_name
  <2>1. SUFFICES ASSUME pc' = "unset" PROVE GoneUpTo(env, i - 1)'
    BY <1>3 DEF DoneSoFar, unset_name, NextArgument
  <2>2. argv' = argv /\ i' = i + 1
    BY <1>3, <2>1 DEF unset_name, NextArgument
  <2>3. GoneUpTo(env', i)
    BY <1>3, UnsetTurn
  <2>4. i' - 1 = i
    BY <1>1, <2>2
  <2> QED BY <2>2, <2>3, <2>4 DEF GoneUpTo
<1>4. CASE builtin_export \/ builtin_unset
  <2>1. i' = 1
    BY <1>4 DEF builtin_export, builtin_unset
  <2>2. 1 .. i' - 1 = {}
    BY <2>1
  <2> QED BY <2>2 DEF DoneSoFar, ExportedUpTo, GoneUpTo
<1>5. CASE \/ map_put \/ envmap_init \/ cd_elem \/ cd_end
           \/ other_command \/ \E arg \in CdArgs : builtin_cd(arg)
  <2>1. pc' \notin {"export", "unset"}
    BY <1>5 DEF map_put, envmap_init, cd_elem, cd_end, other_command, builtin_cd, Given
  <2> QED BY <2>1 DEF DoneSoFar
<1>6. CASE UNCHANGED vars
  BY <1>6 DEF vars, DoneSoFar, ExportedUpTo, GoneUpTo
<1> QED BY <1>2, <1>3, <1>4, <1>5, <1>6 DEF Next

\* The argument that LastFor finds is the last about its name.
LEMMA LastForIs ==
    ASSUME TypeOK, NEW k \in DOMAIN argv
    PROVE  \E m \in DOMAIN argv : /\ argv[m].name = argv[k].name
                                  /\ LastFor(argv[k].name) = argv[m].value
                                  /\ \A l \in m + 1 .. Len(argv) : argv[l].name # argv[k].name
<1> DEFINE n == argv[k].name
           I == {l \in 1 .. Len(argv) : argv[l].name = n}
<1>1. Len(argv) \in Nat /\ DOMAIN argv = 1 .. Len(argv)
  BY LenProperties DEF TypeOK
<1>2. I \subseteq Nat /\ I # {} /\ \A l \in I : l <= Len(argv)
  BY <1>1
<1>3. \E m \in I : \A l \in I : l <= m
  <2> HIDE DEF I
  <2> QED BY <1>1, <1>2, NatMax
<1>4. \E m \in I : \A l \in I : m >= l
  BY <1>1, <1>3
<1>5. Max(I) \in I /\ \A l \in I : Max(I) >= l
  <2> HIDE DEF I
  <2> QED BY <1>4 DEF Max
<1>6. LastFor(n) = argv[Max(I)].value
  BY <1>2 DEF LastFor, SelectLastInSeq
<1>7. \A l \in Max(I) + 1 .. Len(argv) : argv[l].name # n
  <2>1. ASSUME NEW l \in Max(I) + 1 .. Len(argv), argv[l].name = n PROVE FALSE
    <3>1. l \in 1 .. Len(argv) /\ ~ (Max(I) >= l)
      BY <1>1, <1>5
    <3> QED BY <1>5, <2>1, <3>1
  <2> QED BY <2>1
<1> QED BY <1>1, <1>5, <1>6, <1>7

\* Whatever the arguments are, and however often a name is among them: when
\* export reports success each name has the value of its last argument, and
\* after unset none of its arguments is left.
THEOREM SuccessIsDone == Spec => ReportedDone
<1>1. Init => DoneSoFar
  BY DEF Init, DoneSoFar
<1>2. Spec => [](Inv /\ DoneSoFar)
  BY <1>1, InitInv, StepInv, StepDone, PTL DEF Spec
<1>3. ASSUME Inv, DoneSoFar, [Next]_vars, Inv', pc' = "prompt", last_status' = 0
      PROVE  /\ pc = "export" => \A k \in DOMAIN argv :
                  /\ IsHeld(env', argv[k].name)
                  /\ map_get(env', argv[k].name) = LastFor(argv[k].name)
             /\ pc = "unset" => \A k \in DOMAIN argv : ~ IsHeld(env', argv[k].name)
  <2>1. env' \in Seq(Item) /\ UniqueIn(env') /\ argv \in Seq(Argument)
    BY <1>3 DEF Inv, TypeOK, UniqueNames, UniqueIn
  <2>2. Len(argv) \in Nat /\ DOMAIN argv = 1 .. Len(argv)
    BY <2>1, LenProperties
  <2>0. update_key_value \/ unset_name => i = Len(argv)
    <3>1. i \in Nat /\ Len(argv) \in Nat /\ (pc \in {"export", "unset"} => i <= Len(argv))
      BY <1>3, <2>2 DEF Inv, TypeOK
    <3> QED BY <1>3, <3>1 DEF update_key_value, unset_name, NextArgument
  <2>3. ASSUME pc = "export", NEW k \in DOMAIN argv
        PROVE  /\ IsHeld(env', argv[k].name)
               /\ map_get(env', argv[k].name) = LastFor(argv[k].name)
    <3>1. update_key_value
      BY <1>3, <2>3 DEF Next, vars, map_put, envmap_init, builtin_export, builtin_unset,
         unset_name, builtin_cd, Given, cd_elem, cd_end, other_command
    <3>2. i = Len(argv)
      BY <2>0, <3>1
    <3>3. ExportedUpTo(env', Len(argv))
      BY <1>3, <3>1, <3>2, ExportTurn
    <3>4. PICK m \in DOMAIN argv :
                 /\ argv[m].name = argv[k].name
                 /\ LastFor(argv[k].name) = argv[m].value
                 /\ \A l \in m + 1 .. Len(argv) : argv[l].name # argv[k].name
      BY <1>3, <2>3, LastForIs DEF Inv
    <3>5. argv[k].name \in Name /\ AsMap(env')[argv[k].name] = LastFor(argv[k].name)
      BY <2>2, <3>3, <3>4 DEF ExportedUpTo
    <3>6. argv[m] \in Argument
      BY <2>1, <2>2, ElementOfSeq
    <3>7. LastFor(argv[k].name) # Unset
      BY <3>4, <3>6, NamesAssumption DEF Argument
    <3> QED BY <3>5, <3>7 DEF AsMap
  <2>4. ASSUME pc = "unset", NEW k \in DOMAIN argv PROVE ~ IsHeld(env', argv[k].name)
    <3>1. unset_name
      BY <1>3, <2>4 DEF Next, vars, map_put, envmap_init, builtin_export, builtin_unset,
         update_key_value, builtin_cd, Given, cd_elem, cd_end, other_command
    <3>2. i = Len(argv)
      BY <2>0, <3>1
    <3>3. GoneUpTo(env', Len(argv))
      BY <1>3, <3>1, <3>2, UnsetTurn
    <3>4. SUFFICES ASSUME IsHeld(env', argv[k].name) PROVE FALSE
      OBVIOUS
    <3>5. PICK j \in DOMAIN env' : env'[j].name = argv[k].name
      BY <2>1, <3>4, Held
    <3>6. env'[j] \in Item
      BY <2>1, <3>5, ElementOfSeq, LenProperties
    <3>7. argv[k].name \in Name /\ env'[j].value # Unset
      BY <3>5, <3>6, NamesAssumption DEF Item
    <3>8. AsMap(env')[argv[k].name] = env'[j].value
      BY <2>1, <3>5, <3>7, AsMapValue
    <3>9. AsMap(env')[argv[k].name] = Unset
      BY <2>2, <3>3, <3>7 DEF GoneUpTo
    <3> QED BY <3>7, <3>8, <3>9
  <2> QED BY <2>3, <2>4
<1>4. Inv /\ DoneSoFar /\ Inv' /\ [Next]_vars =>
        [pc' = "prompt" /\ last_status' = 0 =>
          /\ pc = "export" => \A k \in DOMAIN argv :
               IsHeld(env', argv[k].name) /\ map_get(env', argv[k].name) = LastFor(argv[k].name)
          /\ pc = "unset" => \A k \in DOMAIN argv : ~ IsHeld(env', argv[k].name)]_vars
  BY <1>3
<1> QED BY <1>2, <1>4, PTL DEF Spec, ReportedDone

(***************************************************************************)
(* What a program is started with.                                         *)
(***************************************************************************)
\* A list that is not empty is its front and its last item.
LEMMA FrontAndLast ==
    ASSUME NEW e \in Seq(Item), e # << >>
    PROVE  /\ Front(e) \in Seq(Item) /\ Len(e) \in Nat \ {0} /\ Len(Front(e)) = Len(e) - 1
           /\ Last(e) = e[Len(e)] /\ Last(e) \in Item
           /\ DOMAIN e = 1 .. Len(e) /\ DOMAIN Front(e) = 1 .. Len(e) - 1
           /\ \A k \in 1 .. Len(e) - 1 : Front(e)[k] = e[k]
<1>1. Len(e) \in Nat \ {0} /\ DOMAIN e = 1 .. Len(e)
  BY EmptySeq, LenProperties
<1>2. /\ Front(e) \in Seq(Item) /\ Len(Front(e)) = Len(e) - 1
      /\ \A k \in 1 .. Len(e) - 1 : Front(e)[k] = e[k]
  BY <1>1, SubSeqProperties DEF Front
<1>3. DOMAIN Front(e) = 1 .. Len(e) - 1
  BY <1>2, LenProperties
<1>4. Last(e) = e[Len(e)] /\ e[Len(e)] \in Item
  BY <1>1, ElementOfSeq DEF Last
<1> QED BY <1>1, <1>2, <1>3, <1>4

\* The loop of get_environ, one item at a time.
LEMMA EnvironLoop ==
    /\ \A e \in Seq(Item) : environ[e] \in Seq(Item)
    /\ environ[<< >>] = << >>
    /\ \A e \in Seq(Item) : e # << >> =>
         environ[e] = IF Last(e).value # NULL THEN Append(environ[Front(e)], Last(e))
                      ELSE environ[Front(e)]
<1> DEFINE S == Seq(Item)
           rank == [e \in S |-> Len(e)]
           next == [e \in S |-> IF e = << >> THEN e ELSE Front(e)]
           stop == [e \in S |-> e = << >>]
           base == [e \in S |-> << >>]
           step == [a \in S \X S |-> IF a[1] # << >> /\ Last(a[1]).value # NULL
                                     THEN Append(a[2], Last(a[1])) ELSE a[2]]
           Body(f, e) == CASE e = << >> -> << >>
                           [] e # << >> /\ Last(e).value # NULL -> Append(f[Front(e)], Last(e))
                           [] OTHER -> f[Front(e)]
<1>1. << >> \in S
  OBVIOUS
<1>2. /\ rank \in [S -> Nat] /\ next \in [S -> S] /\ stop \in [S -> BOOLEAN]
      /\ base \in [S -> S] /\ step \in [S \X S -> S]
  <2>1. \A e \in S : Len(e) \in Nat
    OBVIOUS
  <2>2. \A e \in S : e # << >> => Front(e) \in S /\ Last(e) \in Item
    BY FrontAndLast
  <2>3. \A r \in S, x \in Item : Append(r, x) \in S
    OBVIOUS
  <2>4. step \in [S \X S -> S]
    BY <2>2, <2>3
  <2> QED BY <1>1, <2>1, <2>2, <2>4
<1>3. Descends(S, rank, next, stop)
  <2>1. ASSUME NEW e \in S, e # << >> PROVE rank[next[e]] < rank[e]
    <3>1. Front(e) \in S /\ Len(e) \in Nat \ {0} /\ Len(Front(e)) = Len(e) - 1
      BY <2>1, FrontAndLast
    <3>2. next[e] = Front(e) /\ rank[e] = Len(e) /\ rank[Front(e)] = Len(e) - 1
      BY <2>1, <3>1
    <3> HIDE DEF rank, next
    <3> QED BY <3>1, <3>2
  <2>2. \A e \in S : ~ stop[e] => rank[next[e]] < rank[e]
    BY <2>1
  <2> HIDE DEF rank, next, stop
  <2> QED BY <1>2, <2>2 DEF Descends
<1> HIDE DEF rank, next, stop, base, step
<1>4. PICK f \in [S -> S] : Solves(f, S, next, stop, base, step)
  <2> HIDE DEF S
  <2> QED BY <1>2, <1>3, Recursion, Zenon
<1>5. \A e \in S : f[e] = Body(f, e)
  <2>1. SUFFICES ASSUME NEW e \in S PROVE f[e] = Body(f, e)
    OBVIOUS
  <2>2. CASE e = << >>
    BY <1>4, <2>2 DEF Solves, stop, base
  <2>3. CASE e # << >>
    <3>1. Front(e) \in S /\ f[Front(e)] \in S
      BY <2>3, FrontAndLast
    <3>2. f[e] = step[<<e, f[Front(e)]>>]
      BY <1>4, <2>3 DEF Solves, stop, next
    <3> QED BY <2>3, <3>1, <3>2 DEF step
  <2> QED BY <2>2, <2>3
<1>6. f = [e \in S |-> Body(f, e)]
  BY <1>4, <1>5
<1>7. environ = CHOOSE g : g = [e \in S |-> Body(g, e)]
  BY DEF environ
<1>8. environ = [e \in S |-> Body(environ, e)]
  <2> HIDE DEF Body
  <2> QED BY <1>6, <1>7
<1> DEFINE Missed == {n \in Nat : \E e \in S : Len(e) = n /\ environ[e] \notin S}
<1>9. Missed = {}
  <2>1. SUFFICES ASSUME Missed # {} PROVE FALSE
    OBVIOUS
  <2>2. PICK n \in Missed : \A m \in Missed : n <= m
    <3>1. Missed \subseteq Nat
      OBVIOUS
    <3> HIDE DEF Missed
    <3> QED BY <2>1, <3>1, NatMin
  <2>3. PICK e \in S : Len(e) = n /\ environ[e] \notin S
    OBVIOUS
  <2>4. environ[e] = Body(environ, e)
    BY <1>8
  <2>5. e # << >>
    BY <1>1, <2>3, <2>4
  <2>6. Front(e) \in S /\ Len(Front(e)) = n - 1 /\ n - 1 \in Nat /\ Last(e) \in Item
    BY <2>3, <2>5, FrontAndLast
  <2>7. environ[Front(e)] \in S
    BY <2>2, <2>6
  <2> QED BY <2>3, <2>4, <2>5, <2>6, <2>7
<1>10. \A e \in S : environ[e] \in S
  BY <1>9
<1>11. \A e \in S : environ[e] = Body(environ, e)
  BY <1>8
<1> QED BY <1>1, <1>10, <1>11

\* The items with a value, and what get_environ makes of a list: they are all
\* there, nothing else is, and the array has room for them.
Valued(e) == {k \in DOMAIN e : e[k].value # NULL}
Exports(e, out) ==
    /\ out \in Seq(Item)
    /\ IsFiniteSet(Valued(e)) /\ Len(out) = Cardinality(Valued(e))
    /\ \A k \in DOMAIN out : \E j \in Valued(e) : out[k] = e[j]
    /\ \A j \in Valued(e) : \E k \in DOMAIN out : out[k] = e[j]
    /\ UniqueIn(e) => UniqueIn(out)

\* One item more.
LEMMA EnvironTurn ==
    ASSUME NEW e \in Seq(Item), e # << >>, Exports(Front(e), environ[Front(e)])
    PROVE  Exports(e, environ[e])
<1> DEFINE n == Len(e)
           f == Front(e)
           x == Last(e)
           out == environ[f]
<1>1. /\ f \in Seq(Item) /\ n \in Nat \ {0} /\ Len(f) = n - 1
      /\ x = e[n] /\ x \in Item
      /\ DOMAIN e = 1 .. n /\ DOMAIN f = 1 .. n - 1
      /\ \A k \in 1 .. n - 1 : f[k] = e[k]
  BY FrontAndLast
<1>2. environ[e] = IF x.value # NULL THEN Append(out, x) ELSE out
  BY EnvironLoop
<1>3. /\ out \in Seq(Item)
      /\ IsFiniteSet(Valued(f)) /\ Len(out) = Cardinality(Valued(f))
      /\ \A k \in DOMAIN out : \E j \in Valued(f) : out[k] = f[j]
      /\ \A j \in Valued(f) : \E k \in DOMAIN out : out[k] = f[j]
      /\ UniqueIn(f) => UniqueIn(out)
  BY DEF Exports
<1> HIDE DEF f, x, out, n
<1>4. Valued(f) \subseteq 1 .. n - 1 /\ n \notin Valued(f) /\ n \in 1 .. n
  BY <1>1 DEF Valued
<1>5. \A j \in Valued(f) : j \in 1 .. n /\ f[j] = e[j]
  BY <1>1, <1>4
<1>6. Valued(e) = Valued(f) \cup (IF x.value # NULL THEN {n} ELSE {})
  <2>1. ASSUME NEW k \in 1 .. n
        PROVE  k \in Valued(e) <=> k \in Valued(f) \/ (k = n /\ x.value # NULL)
    <3>1. CASE k = n
      BY <1>1, <1>4, <3>1 DEF Valued
    <3>2. CASE k # n
      <4>1. k \in 1 .. n - 1
        BY <1>1, <3>2
      <4> QED BY <1>1, <3>2, <4>1 DEF Valued
    <3> QED BY <3>1, <3>2
  <2>2. Valued(e) \subseteq 1 .. n
    BY <1>1 DEF Valued
  <2> QED BY <1>4, <1>5, <2>1, <2>2
<1>7. UniqueIn(e) => UniqueIn(f)
  <2>1. 1 .. n - 1 \subseteq 1 .. n
    BY <1>1
  <2> QED BY <1>1, <2>1 DEF UniqueIn
<1>8. CASE x.value = NULL
  <2>1. environ[e] = out /\ Valued(e) = Valued(f)
    BY <1>2, <1>6, <1>8
  <2>2. ASSUME NEW k \in DOMAIN out PROVE \E j \in Valued(e) : out[k] = e[j]
    <3>1. PICK j \in Valued(f) : out[k] = f[j]
      BY <1>3
    <3> QED BY <1>5, <2>1, <3>1
  <2>3. ASSUME NEW j \in Valued(e) PROVE \E k \in DOMAIN out : out[k] = e[j]
    <3>1. PICK k \in DOMAIN out : out[k] = f[j]
      BY <1>3, <2>1
    <3> QED BY <1>5, <2>1, <3>1
  <2> HIDE DEF Valued
  <2> QED BY <1>3, <1>7, <2>1, <2>2, <2>3, Zenon DEF Exports
<1>9. CASE x.value # NULL
  <2> DEFINE more == Append(out, x)
  <2>1. environ[e] = more /\ Valued(e) = Valued(f) \cup {n}
    BY <1>2, <1>6, <1>9
  <2>2. Len(out) \in Nat /\ DOMAIN out = 1 .. Len(out)
    BY <1>3, LenProperties
  <2>3. /\ more \in Seq(Item) /\ Len(more) = Len(out) + 1
        /\ \A k \in 1 .. Len(out) : more[k] = out[k]
        /\ more[Len(out) + 1] = x
    BY <1>1, <1>3, AppendProperties
  <2> HIDE DEF more
  <2>4. DOMAIN more = 1 .. Len(out) + 1
    BY <2>2, <2>3, LenProperties
  <2>5. \A k \in DOMAIN more : k = Len(out) + 1 \/ k \in DOMAIN out
    BY <2>2, <2>4
  <2>6. DOMAIN out \subseteq DOMAIN more /\ Len(out) + 1 \in DOMAIN more
    BY <2>2, <2>4
  <2>7. IsFiniteSet(Valued(e)) /\ Len(more) = Cardinality(Valued(e))
    <3> DEFINE V == Valued(f)
    <3>1. IsFiniteSet(V) /\ n \notin V /\ Len(out) = Cardinality(V)
      BY <1>3, <1>4
    <3> HIDE DEF V
    <3>2. IsFiniteSet(V \cup {n}) /\ Cardinality(V \cup {n}) = Cardinality(V) + 1
      BY <3>1, FS_AddElement
    <3>3. Valued(e) = V \cup {n}
      BY <2>1 DEF V
    <3> QED BY <2>3, <3>1, <3>2, <3>3
  <2>8. \A k \in DOMAIN more : \E j \in Valued(e) : more[k] = e[j]
    <3>1. SUFFICES ASSUME NEW k \in DOMAIN more PROVE \E j \in Valued(e) : more[k] = e[j]
      OBVIOUS
    <3>2. CASE k = Len(out) + 1
      BY <1>1, <2>1, <2>3, <3>2
    <3>3. CASE k \in DOMAIN out
      <4>1. PICK j \in Valued(f) : out[k] = f[j]
        BY <1>3, <3>3
      <4> QED BY <1>5, <2>1, <2>2, <2>3, <3>3, <4>1
    <3> QED BY <2>5, <3>2, <3>3
  <2>9. \A j \in Valued(e) : \E k \in DOMAIN more : more[k] = e[j]
    <3>1. SUFFICES ASSUME NEW j \in Valued(e) PROVE \E k \in DOMAIN more : more[k] = e[j]
      OBVIOUS
    <3>2. CASE j = n
      BY <1>1, <2>3, <2>6, <3>2
    <3>3. CASE j \in Valued(f)
      <4>1. PICK k \in DOMAIN out : out[k] = f[j]
        BY <1>3, <3>3
      <4> QED BY <1>5, <2>2, <2>3, <2>6, <3>3, <4>1
    <3> QED BY <2>1, <3>2, <3>3
  <2>10. UniqueIn(e) => UniqueIn(more)
    <3>1. SUFFICES ASSUME UniqueIn(e), NEW k \in DOMAIN more, NEW l \in DOMAIN more,
                          more[k].name = more[l].name
                   PROVE  k = l
      BY DEF UniqueIn
    <3>2. ASSUME NEW m \in DOMAIN out PROVE out[m].name # x.name /\ more[m] = out[m]
      <4>1. PICK j \in Valued(f) : out[m] = f[j]
        BY <1>3
      <4>2. j \in 1 .. n /\ j # n /\ out[m] = e[j]
        BY <1>4, <1>5, <4>1
      <4> QED BY <1>1, <1>4, <2>2, <2>3, <3>1, <4>2 DEF UniqueIn
    <3>3. k \in DOMAIN out /\ l \in DOMAIN out => k = l
      BY <1>3, <1>7, <3>1, <3>2 DEF UniqueIn
    <3> QED BY <2>3, <2>5, <3>1, <3>2, <3>3
  <2> QED BY <2>1, <2>3, <2>7, <2>8, <2>9, <2>10 DEF Exports
<1> QED BY <1>8, <1>9

\* Every item, by induction on the length of the list.
LEMMA EnvironExports ==
    \A e \in Seq(Item) : Exports(e, environ[e])
<1> DEFINE Missed == {n \in Nat : \E e \in Seq(Item) : Len(e) = n /\ ~ Exports(e, environ[e])}
<1>1. SUFFICES ASSUME Missed # {} PROVE FALSE
  BY LenProperties
<1>2. PICK n \in Missed : \A m \in Missed : n <= m
  <2>1. Missed \subseteq Nat
    OBVIOUS
  <2> HIDE DEF Missed
  <2> QED BY <1>1, <2>1, NatMin
<1>3. PICK e \in Seq(Item) : Len(e) = n /\ ~ Exports(e, environ[e])
  OBVIOUS
<1>4. e # << >>
  <2>1. Valued(<< >>) = {} /\ DOMAIN << >> = {} /\ << >> \in Seq(Item) /\ Len(<< >>) = 0
    BY EmptySeq, LenProperties DEF Valued
  <2>2. Exports(<< >>, << >>)
    BY <2>1, FS_EmptySet DEF Exports, UniqueIn
  <2> QED BY <1>3, <2>2, EnvironLoop
<1>5. Front(e) \in Seq(Item) /\ Len(Front(e)) = n - 1 /\ n - 1 \in Nat
  BY <1>3, <1>4, FrontAndLast
<1>6. Exports(Front(e), environ[Front(e)])
  <2>1. n - 1 \notin Missed
    BY <1>2, <1>5
  <2> QED BY <1>5, <2>1
<1> QED BY <1>3, <1>4, <1>6, EnvironTurn

\* For every list that the shell can come to have: a program is started with
\* each variable that has a value, once and with that value, and with no other.
THEOREM EnvironIsComplete == Spec => []EnvironComplete
<1>1. ASSUME Inv PROVE EnvironComplete
  <2> DEFINE out == get_environ(env)
  <2>1. env \in Seq(Item) /\ UniqueIn(env)
    BY <1>1, ListType
  <2>2. Exports(env, out)
    BY <2>1, EnvironExports DEF get_environ
  <2> HIDE DEF out
  <2>3. UniqueIn(out) /\ out \in Seq(Item)
    BY <2>1, <2>2 DEF Exports
  <2>4. Len(out) + 1 <= EnvironSize(env)
    <3>1. EnvironSize(env) = Cardinality(Valued(env)) + 2
      BY DEF EnvironSize, map_size, Valued
    <3>2. Len(out) = Cardinality(Valued(env)) /\ Len(out) \in Nat
      BY <2>2, <2>3, LenProperties DEF Exports
    <3> QED BY <3>1, <3>2
  <2>5. ASSUME NEW n \in Name, NEW k \in DOMAIN out, out[k].name = n
        PROVE  map_get(env, n) # NULL /\ out[k].value = map_get(env, n)
    <3>1. PICK j \in Valued(env) : out[k] = env[j]
      BY <2>2 DEF Exports
    <3>2. map_get(env, n) = env[j].value /\ env[j].value # NULL
      BY <2>1, <2>5, <3>1, Found DEF Valued
    <3> QED BY <3>1, <3>2
  <2>6. ASSUME NEW n \in Name, map_get(env, n) # NULL
        PROVE  \E k \in DOMAIN out : out[k].name = n
    <3>1. PICK j \in DOMAIN env : env[j].name = n
      BY <2>1, <2>6, Held DEF map_get
    <3>2. map_get(env, n) = env[j].value
      BY <2>1, <3>1, Found
    <3>3. j \in Valued(env)
      BY <2>6, <3>1, <3>2 DEF Valued
    <3> QED BY <2>2, <3>1, <3>3 DEF Exports
  <2>7. ASSUME NEW n \in Name
        PROVE  LET given == {k \in DOMAIN out : out[k].name = n}
               IN  IF map_get(env, n) = NULL THEN given = {}
                   ELSE \E k \in given : given = {k} /\ out[k].value = map_get(env, n)
    <3>1. CASE map_get(env, n) = NULL
      BY <2>5, <3>1
    <3>2. CASE map_get(env, n) # NULL
      <4>1. PICK k \in DOMAIN out : out[k].name = n
        BY <2>6, <3>2
      <4>2. \A l \in DOMAIN out : out[l].name = n => l = k
        BY <2>3, <4>1 DEF UniqueIn
      <4> QED BY <2>5, <3>2, <4>1, <4>2
    <3> QED BY <3>1, <3>2
  <2> QED BY <2>4, <2>7 DEF EnvironComplete, out
<1> QED BY <1>1, Invariant, PTL

(***************************************************************************)
(* What export prints.                                                     *)
(***************************************************************************)
\* The loops of bubble_sort_map: the names up to k are in their places, and the
\* one at k is the least of those that l has passed.
Sorted(e) == \A h, j \in DOMAIN e : h < j => e[h].name < e[j].name
SortedUpTo(e, k, l) ==
    /\ 1 <= k /\ k < l
    /\ \A h, j \in DOMAIN e : h < k /\ h < j => e[h].name < e[j].name
    /\ \A j \in DOMAIN e : k < j /\ j < l => e[k].name < e[j].name
Shuffled(e, out) ==
    /\ out \in Seq(Item) /\ Len(out) = Len(e) /\ ToSet(out) = ToSet(e)

\* What one turn does to the list, and where it goes on.
Turned(e, k, l) ==
    IF e[k].name > e[l].name THEN swap_item(e, k, l) ELSE e
Onward(e, k, l) ==
    IF l > Len(e) THEN <<e, k + 1, k + 2>> ELSE <<Turned(e, k, l), k, l + 1>>

\* A swap keeps the items.
LEMMA SwapKeeps ==
    ASSUME NEW e \in Seq(Item), NEW k \in DOMAIN e, NEW l \in DOMAIN e
    PROVE  /\ swap_item(e, k, l) \in Seq(Item)
           /\ DOMAIN swap_item(e, k, l) = DOMAIN e
           /\ Len(swap_item(e, k, l)) = Len(e)
           /\ ToSet(swap_item(e, k, l)) = ToSet(e)
           /\ \A h \in DOMAIN e : swap_item(e, k, l)[h] =
                IF h = l THEN e[k] ELSE IF h = k THEN e[l] ELSE e[h]
<1> DEFINE f == swap_item(e, k, l)
<1>1. /\ DOMAIN f = DOMAIN e
      /\ \A h \in DOMAIN e : f[h] = IF h = l THEN e[k] ELSE IF h = k THEN e[l] ELSE e[h]
  BY DEF swap_item
<1>2. /\ f \in Seq(Item) /\ Len(f) = Len(e)
  <2>1. e[k] \in Item /\ e[l] \in Item
    BY ElementOfSeq, LenProperties
  <2>2. [e EXCEPT ![k] = e[l]] \in Seq(Item) /\ Len([e EXCEPT ![k] = e[l]]) = Len(e)
    BY <2>1, ExceptSeq
  <2>3. /\ DOMAIN [e EXCEPT ![k] = e[l]] = DOMAIN e
        /\ f = [[e EXCEPT ![k] = e[l]] EXCEPT ![l] = e[k]]
    BY DEF swap_item
  <2> QED BY <2>1, <2>2, <2>3, ExceptSeq
<1> HIDE DEF f
<1>3. ToSet(f) = ToSet(e)
  <2>1. ASSUME NEW h \in DOMAIN e PROVE f[h] \in {e[j] : j \in DOMAIN e}
    BY <1>1
  <2>2. ASSUME NEW j \in DOMAIN e PROVE e[j] \in {f[h] : h \in DOMAIN f}
    BY <1>1
  <2> QED BY <1>1, <2>1, <2>2 DEF ToSet
<1> QED BY <1>1, <1>2, <1>3 DEF f

\* One turn of the loop of bubble_sort_map compares and swaps neighbours.
LEMMA OneTurn ==
    ASSUME NEW e \in Seq(Item), UniqueIn(e), NEW k \in Nat, NEW l \in Nat,
           SortedUpTo(e, k, l), k <= Len(e), l <= Len(e)
    PROVE  /\ Shuffled(e, Turned(e, k, l))
           /\ UniqueIn(Turned(e, k, l))
           /\ SortedUpTo(Turned(e, k, l), k, l + 1)
<1>1. DOMAIN e = 1 .. Len(e) /\ k \in DOMAIN e /\ l \in DOMAIN e /\ k # l
      /\ Len(e) \in Nat
  BY LenProperties DEF SortedUpTo
<1>2. \A h \in DOMAIN e : e[h].name \in Nat
  <2>1. \A x \in Item : x.name \in Nat
    BY NamesAssumption DEF Item
  <2>2. \A h \in DOMAIN e : e[h] \in Item
    BY <1>1, ElementOfSeq
  <2> QED BY <2>1, <2>2
<1> DEFINE f == Turned(e, k, l)
<1>3. CASE e[k].name > e[l].name
  <2>1. f = swap_item(e, k, l)
    BY <1>3 DEF Turned
  <2>2. /\ f \in Seq(Item) /\ DOMAIN f = DOMAIN e /\ Len(f) = Len(e) /\ ToSet(f) = ToSet(e)
        /\ \A h \in DOMAIN e : f[h] = IF h = l THEN e[k] ELSE IF h = k THEN e[l] ELSE e[h]
    BY <1>1, <2>1, SwapKeeps
  <2> HIDE DEF f
  <2>3. UniqueIn(f)
    BY <1>1, <2>2 DEF UniqueIn
  <2>4. ASSUME NEW h \in DOMAIN e, NEW j \in DOMAIN e, h < k, h < j
        PROVE  f[h].name < f[j].name
    <3>1. f[h] = e[h]
      BY <1>1, <2>2, <2>4 DEF SortedUpTo
    <3>2. \A m \in DOMAIN e : h < m => e[h].name < e[m].name
      BY <2>4 DEF SortedUpTo
    <3>3. h < l
      BY <1>1, <2>4 DEF SortedUpTo
    <3> QED BY <1>1, <2>2, <2>4, <3>1, <3>2, <3>3
  <2>5. ASSUME NEW j \in DOMAIN e, k < j, j < l + 1 PROVE f[k].name < f[j].name
    <3>1. f[k] = e[l]
      BY <1>1, <2>2
    <3>2. CASE j = l
      BY <1>1, <1>3, <2>2, <3>1, <3>2
    <3>3. CASE j # l
      <4>1. f[j] = e[j] /\ j < l
        BY <1>1, <2>2, <2>5, <3>3
      <4>2. e[k].name < e[j].name
        BY <2>5, <4>1 DEF SortedUpTo
      <4> QED BY <1>1, <1>2, <1>3, <3>1, <4>1, <4>2
    <3> QED BY <3>2, <3>3
  <2>6. 1 <= k /\ k < l + 1
    BY DEF SortedUpTo
  <2> QED BY <2>2, <2>3, <2>4, <2>5, <2>6 DEF SortedUpTo, Shuffled, f
<1>4. CASE ~ (e[k].name > e[l].name)
  <2>1. f = e
    BY <1>4 DEF Turned
  <2>2. e[k].name < e[l].name
    <3>1. e[k].name # e[l].name
      BY <1>1 DEF UniqueIn
    <3> QED BY <1>1, <1>2, <1>4, <3>1
  <2>3. SortedUpTo(e, k, l + 1)
    BY <1>1, <2>2 DEF SortedUpTo
  <2> QED BY <2>1, <2>3 DEF Shuffled
<1> QED BY <1>3, <1>4

Loops == Seq(Item) \X (Nat \ {0}) \X (Nat \ {0})

\* The rank of the two loops: the turns that are left, with room to spare.
Left(e, k, l) ==
    IF k > Len(e) THEN 0
    ELSE 1 + (Len(e) - k) * (Len(e) + 2) + (IF l > Len(e) THEN 0 ELSE Len(e) + 1 - l)

\* The state of the loop stays typed.
LEMMA OnwardType ==
    ASSUME NEW e \in Seq(Item), NEW k \in Nat \ {0}, NEW l \in Nat \ {0}
    PROVE  /\ Left(e, k, l) \in Nat
           /\ k <= Len(e) =>
                /\ Onward(e, k, l) \in Loops
                /\ Left(Onward(e, k, l)[1], Onward(e, k, l)[2], Onward(e, k, l)[3])
                     < Left(e, k, l)
<1> DEFINE n == Len(e)
           a == n - k
           b == n + 2
<1>1. n \in Nat
  OBVIOUS
<1> HIDE DEF n
<1>2. k <= n => /\ a \in Nat /\ b \in Nat /\ a * b \in Nat
                /\ (a - 1) * b = a * b - b
  BY <1>1
<1>3. k < n => (a - 1) * b \in Nat
  BY <1>1
<1>4. a - 1 = n - (k + 1)
  BY <1>1
<1> HIDE DEF a, b
<1>5. Left(e, k, l) = IF k > n THEN 0 ELSE 1 + a * b + (IF l > n THEN 0 ELSE n + 1 - l)
  BY DEF Left, a, b, n
<1>6. Left(e, k, l) \in Nat
  BY <1>1, <1>2, <1>5
<1> USE DEF Loops
<1>7. ASSUME k <= n
      PROVE  /\ Onward(e, k, l) \in Loops
             /\ Left(Onward(e, k, l)[1], Onward(e, k, l)[2], Onward(e, k, l)[3]) < Left(e, k, l)
  <2>1. CASE l > n
    <3>1. Onward(e, k, l) = <<e, k + 1, k + 2>>
      BY <2>1 DEF Onward, n
    <3>2. Left(e, k + 1, k + 2) =
            IF k + 1 > n THEN 0
            ELSE 1 + (a - 1) * b + (IF k + 2 > n THEN 0 ELSE n + 1 - (k + 2))
      BY <1>4 DEF Left, b, n
    <3>3. Left(e, k + 1, k + 2) < Left(e, k, l)
      <4>1. CASE k = n
        BY <1>1, <1>2, <1>5, <1>7, <2>1, <3>2, <4>1
      <4>2. CASE k < n
        <5>1. b = n + 2
          BY DEF b
        <5>6. k <= n
          BY <1>1, <4>2
        <5> DEFINE c == a * b
        <5>2. c \in Nat /\ (a - 1) * b = c - b
          BY <1>2, <5>6, Zenon
        <5> HIDE DEF c
        <5>3. Left(e, k, l) = 1 + c
          BY <1>5, <1>7, <2>1, <1>1, <5>2 DEF c
        <5>4. Left(e, k + 1, k + 2) = 1 + (c - b) + (IF k + 2 > n THEN 0 ELSE n + 1 - (k + 2))
          BY <1>1, <3>2, <4>2, <5>2
        <5> QED BY <1>1, <5>1, <5>2, <5>3, <5>4
      <4> QED BY <1>1, <1>7, <4>1, <4>2
    <3> QED BY <3>1, <3>3
  <2>2. CASE l <= n
    <3> DEFINE f == Turned(e, k, l)
    <3>1. f \in Seq(Item) /\ Len(f) = n
      <4>1. k \in DOMAIN e /\ l \in DOMAIN e
        BY <1>7, <2>2 DEF n
      <4> QED BY <4>1, SwapKeeps DEF Turned, n
    <3> HIDE DEF f
    <3>2. Onward(e, k, l) = <<f, k, l + 1>>
      BY <1>1, <2>2 DEF Onward, f, n
    <3>3. Left(f, k, l + 1) = IF k > n THEN 0 ELSE 1 + a * b + (IF l + 1 > n THEN 0 ELSE n + 1 - (l + 1))
      BY <3>1 DEF Left, a, b
    <3> DEFINE c == a * b
    <3>4. c \in Nat
      BY <1>2, <1>7
    <3>5. Left(f, k, l + 1) = 1 + c + (IF l + 1 > n THEN 0 ELSE n + 1 - (l + 1))
      BY <1>1, <1>7, <3>3
    <3>6. Left(e, k, l) = 1 + c + (n + 1 - l)
      BY <1>1, <1>5, <1>7, <2>2
    <3> HIDE DEF c
    <3>7. Left(f, k, l + 1) < Left(e, k, l)
      BY <1>1, <2>2, <3>4, <3>5, <3>6
    <3> QED BY <3>1, <3>2, <3>7
  <2> QED BY <1>1, <2>1, <2>2
<1> QED BY <1>6, <1>7 DEF n

\* The loops of bubble_sort_map, one turn at a time.
LEMMA BubbleLoop ==
    \A at \in Loops :
        bubble_sort_map[at] =
          IF at[2] > Len(at[1]) THEN at[1] ELSE bubble_sort_map[Onward(at[1], at[2], at[3])]
<1> DEFINE S == Loops
           T == Seq(Item)
           rank == [at \in S |-> Left(at[1], at[2], at[3])]
           next == [at \in S |-> IF at[2] > Len(at[1]) THEN at
                                 ELSE Onward(at[1], at[2], at[3])]
           stop == [at \in S |-> at[2] > Len(at[1])]
           base == [at \in S |-> at[1]]
           step == [a \in S \X T |-> a[2]]
           Body(f, at) ==
             LET e == at[1]
                 k == at[2]
                 l == at[3]
             IN  CASE k > Len(e) -> e
                   [] k <= Len(e) /\ l > Len(e) -> f[<<e, k + 1, k + 2>>]
                   [] OTHER -> f[<<IF e[k].name > e[l].name THEN swap_item(e, k, l) ELSE e,
                                   k, l + 1>>]
<1>1. \A at \in S :
         /\ at[1] \in T /\ at[2] \in Nat \ {0} /\ at[3] \in Nat \ {0} /\ Len(at[1]) \in Nat
         /\ at = <<at[1], at[2], at[3]>>
  BY DEF Loops
<1>2. \A at \in S :
         /\ Left(at[1], at[2], at[3]) \in Nat
         /\ ~ (at[2] > Len(at[1])) =>
              LET to == Onward(at[1], at[2], at[3])
              IN  to \in S /\ Left(to[1], to[2], to[3]) < Left(at[1], at[2], at[3])
  <2>1. SUFFICES ASSUME NEW at \in S
                 PROVE  /\ Left(at[1], at[2], at[3]) \in Nat
                        /\ ~ (at[2] > Len(at[1])) =>
                             LET to == Onward(at[1], at[2], at[3])
                             IN  to \in S /\ Left(to[1], to[2], to[3]) < Left(at[1], at[2], at[3])
    OBVIOUS
  <2>2. ~ (at[2] > Len(at[1])) => at[2] <= Len(at[1])
    BY <1>1
  <2> HIDE DEF S
  <2> QED BY <1>1, <2>2, OnwardType DEF S
<1>3. Descends(S, rank, next, stop)
  <2>1. ASSUME NEW at \in S, ~ stop[at]
        PROVE  rank[next[at]] < rank[at]
    <3>1. next[at] = Onward(at[1], at[2], at[3]) /\ next[at] \in S
      BY <1>2, <2>1
    <3>2. rank[at] = Left(at[1], at[2], at[3])
      OBVIOUS
    <3>3. rank[next[at]] = Left(next[at][1], next[at][2], next[at][3])
      BY <3>1
    <3> HIDE DEF rank, next
    <3> QED BY <1>2, <2>1, <3>1, <3>2, <3>3
  <2>2. rank \in [S -> Nat] /\ next \in [S -> S] /\ stop \in [S -> BOOLEAN]
    <3> HIDE DEF S
    <3> QED BY <1>2
  <2> HIDE DEF S, rank, next, stop
  <2> QED BY <2>1, <2>2 DEF Descends
<1>4. base \in [S -> T] /\ step \in [S \X T -> T]
  <2> HIDE DEF S
  <2> QED BY <1>1
<1>5. PICK f \in [S -> T] : Solves(f, S, next, stop, base, step)
  <2> HIDE DEF S, T, rank, next, stop, base, step
  <2> QED BY <1>3, <1>4, Recursion, Zenon
<1>6. \A at \in S : f[at] = IF at[2] > Len(at[1]) THEN at[1] ELSE f[Onward(at[1], at[2], at[3])]
  <2>1. SUFFICES ASSUME NEW at \in S
                 PROVE  f[at] = IF at[2] > Len(at[1]) THEN at[1] ELSE f[Onward(at[1], at[2], at[3])]
    OBVIOUS
  <2>2. f[at] = IF stop[at] THEN base[at] ELSE step[<<at, f[next[at]]>>]
    <3> HIDE DEF S, T, next, stop, base, step
    <3> QED BY <1>5 DEF Solves
  <2>3. stop[at] = (at[2] > Len(at[1])) /\ base[at] = at[1]
    OBVIOUS
  <2>4. ~ stop[at] => next[at] = Onward(at[1], at[2], at[3])
    OBVIOUS
  <2>5. f[next[at]] \in T
    <3> HIDE DEF S, T
    <3> QED BY <1>2, <1>5
  <2>6. step[<<at, f[next[at]]>>] = f[next[at]]
    <3> HIDE DEF S, T, next
    <3> QED BY <2>5
  <2> HIDE DEF S, T, next, stop, base, step
  <2> QED BY <2>2, <2>3, <2>4, <2>6
<1>7. ASSUME NEW g, NEW at \in S
      PROVE  Body(g, at) = IF at[2] > Len(at[1]) THEN at[1] ELSE g[Onward(at[1], at[2], at[3])]
  <2>1. PICK e \in T, k \in Nat \ {0}, l \in Nat \ {0} : at = <<e, k, l>>
    BY <1>1
  <2>2. /\ k > Len(e) => Body(g, at) = e
        /\ k <= Len(e) /\ l > Len(e) => Body(g, at) = g[<<e, k + 1, k + 2>>]
        /\ k <= Len(e) /\ l <= Len(e) => Body(g, at) = g[<<Turned(e, k, l), k, l + 1>>]
    BY <2>1 DEF Turned
  <2>3. Onward(e, k, l) = IF l > Len(e) THEN <<e, k + 1, k + 2>> ELSE <<Turned(e, k, l), k, l + 1>>
    BY DEF Onward
  <2>4. Len(e) \in Nat
    OBVIOUS
  <2> HIDE DEF Body
  <2>5. CASE k > Len(e)
    BY <2>1, <2>2, <2>4, <2>5
  <2>6. CASE k <= Len(e) /\ l > Len(e)
    <3>1. Onward(e, k, l) = <<e, k + 1, k + 2>>
      BY <2>3, <2>6
    <3> QED BY <2>1, <2>2, <2>4, <2>6, <3>1
  <2>7. CASE k <= Len(e) /\ l <= Len(e)
    <3>1. Onward(e, k, l) = <<Turned(e, k, l), k, l + 1>>
      BY <2>3, <2>4, <2>7
    <3> QED BY <2>1, <2>2, <2>4, <2>7, <3>1
  <2> QED BY <2>4, <2>5, <2>6, <2>7
<1> HIDE DEF Body
<1>8. f = [at \in S |-> Body(f, at)]
  <2>1. \A at \in S : f[at] = Body(f, at)
    BY <1>6, <1>7
  <2> HIDE DEF S
  <2> QED BY <1>5, <2>1
<1>9. bubble_sort_map = CHOOSE g : g = [at \in S |-> Body(g, at)]
  BY DEF bubble_sort_map, Body, Loops
<1>10. bubble_sort_map = [at \in S |-> Body(bubble_sort_map, at)]
  <2> HIDE DEF S
  <2> QED BY <1>8, <1>9
<1>11. \A at \in S : bubble_sort_map[at] = Body(bubble_sort_map, at)
  <2> HIDE DEF S
  <2> QED BY <1>10
<1> QED BY <1>7, <1>11

\* The list that the loops leave is in the order of the names, and holds the
\* items that they were given: by induction on the turns that are left.
LEMMA BubbleSorts ==
    ASSUME NEW e \in Seq(Item), NEW k \in Nat \ {0}, NEW l \in Nat \ {0},
           UniqueIn(e), SortedUpTo(e, k, l)
    PROVE  Shuffled(e, bubble_sort_map[<<e, k, l>>]) /\ Sorted(bubble_sort_map[<<e, k, l>>])
<1> DEFINE Started(at) == UniqueIn(at[1]) /\ SortedUpTo(at[1], at[2], at[3])
           Ends(at) == /\ Shuffled(at[1], bubble_sort_map[at])
                       /\ Sorted(bubble_sort_map[at])
           Rank(at) == Left(at[1], at[2], at[3])
           Missed == {at \in Loops : Started(at) /\ ~ Ends(at)}
           Ranks == {Rank(at) : at \in Missed}
<1>1. SUFFICES ASSUME Missed # {} PROVE FALSE
  <2>1. <<e, k, l>> \in Loops /\ Started(<<e, k, l>>)
    BY DEF Loops
  <2> HIDE DEF Started
  <2>2. Missed = {} => Ends(<<e, k, l>>)
    BY <2>1
  <2> QED BY <2>2
<1>2. \A at \in Loops : Rank(at) \in Nat
  BY OnwardType DEF Loops
<1>3. PICK at \in Missed : \A to \in Missed : Rank(at) <= Rank(to)
  <2> HIDE DEF Started, Ends, Rank
  <2>1. Ranks \subseteq Nat /\ Ranks # {}
    BY <1>1, <1>2
  <2>2. PICK r \in Ranks : \A q \in Ranks : r <= q
    <3> HIDE DEF Ranks
    <3> QED BY <2>1, NatMin
  <2>3. PICK at \in Missed : r = Rank(at)
    OBVIOUS
  <2> QED BY <2>2, <2>3
<1>4. PICK a \in Seq(Item), m \in Nat \ {0}, n \in Nat \ {0} : at = <<a, m, n>>
  BY DEF Loops
<1>5. at \in Loops /\ Started(at) /\ ~ Ends(at)
  OBVIOUS
<1>6. UniqueIn(a) /\ SortedUpTo(a, m, n) /\ DOMAIN a = 1 .. Len(a) /\ Len(a) \in Nat
  BY <1>4, <1>5, LenProperties
<1>7. bubble_sort_map[at] = IF m > Len(a) THEN a ELSE bubble_sort_map[Onward(a, m, n)]
  BY <1>4, <1>5, BubbleLoop
<1>8. m <= Len(a)
  <2>1. SUFFICES ASSUME m > Len(a) PROVE Ends(at)
    BY <1>5, <1>6
  <2>2. Sorted(a)
    <3>1. SUFFICES ASSUME NEW h \in DOMAIN a, NEW j \in DOMAIN a, h < j
                   PROVE  a[h].name < a[j].name
      BY DEF Sorted
    <3>2. h < m
      BY <1>6, <2>1
    <3> QED BY <1>6, <3>1, <3>2 DEF SortedUpTo
  <2> QED BY <1>4, <1>7, <2>1, <2>2 DEF Shuffled
<1> DEFINE to == Onward(a, m, n)
<1>9. to \in Loops /\ Rank(to) < Rank(at) /\ Rank(to) \in Nat /\ Rank(at) \in Nat
  BY <1>2, <1>4, <1>5, <1>8, OnwardType
<1>10. Started(to) /\ Shuffled(a, to[1])
  <2>1. CASE n > Len(a)
    <3>1. to[1] = a /\ to[2] = m + 1 /\ to[3] = m + 2
      BY <2>1 DEF Onward
    <3>2. ASSUME NEW h \in DOMAIN a, NEW j \in DOMAIN a, h < m + 1, h < j
          PROVE  a[h].name < a[j].name
      <4>1. h < m \/ h = m
        BY <1>6, <3>2
      <4>2. j < n
        BY <1>6, <2>1
      <4> QED BY <1>6, <3>2, <4>1, <4>2 DEF SortedUpTo
    <3>3. ASSUME NEW j \in DOMAIN a PROVE ~ (m + 1 < j /\ j < m + 2)
      BY <1>6
    <3>4. 1 <= m + 1 /\ m + 1 < m + 2
      OBVIOUS
    <3>5. SortedUpTo(a, m + 1, m + 2)
      BY <3>2, <3>3, <3>4 DEF SortedUpTo
    <3> HIDE DEF to
    <3> QED BY <1>6, <3>1, <3>5 DEF Shuffled
  <2>2. CASE n <= Len(a)
    <3>1. to[1] = Turned(a, m, n) /\ to[2] = m /\ to[3] = n + 1
      BY <1>6, <2>2 DEF Onward
    <3> HIDE DEF to
    <3> QED BY <1>6, <1>8, <2>2, <3>1, OneTurn
  <2> QED BY <1>6, <2>1, <2>2
<1> HIDE DEF to, Started, Rank
<1>11. Ends(to)
  <2>1. to \notin Missed
    BY <1>3, <1>9
  <2> HIDE DEF Ends
  <2> QED BY <1>9, <1>10, <2>1
<1>12. bubble_sort_map[at] = bubble_sort_map[to]
  BY <1>6, <1>7, <1>8 DEF to
<1> QED BY <1>4, <1>5, <1>10, <1>11, <1>12 DEF Shuffled

\* A list and its reverse.
LEMMA ReverseKeeps ==
    ASSUME NEW e \in Seq(Item)
    PROVE  /\ Reverse(e) \in Seq(Item) /\ Len(Reverse(e)) = Len(e)
           /\ ToSet(Reverse(e)) = ToSet(e)
           /\ UniqueIn(e) => UniqueIn(Reverse(e))
<1> DEFINE n == Len(e)
           r == Reverse(e)
<1>1. n \in Nat /\ DOMAIN e = 1 .. n /\ \A h \in 1 .. n : e[h] \in Item
  BY LenProperties, ElementOfSeq
<1>2. r = [h \in 1 .. n |-> e[(n - h) + 1]]
  BY DEF Reverse
<1> HIDE DEF n, r
<1>3. \A h \in 1 .. n : (n - h) + 1 \in 1 .. n /\ (n - ((n - h) + 1)) + 1 = h
  BY <1>1
<1>4. DOMAIN r = 1 .. n /\ \A h \in 1 .. n : r[h] = e[(n - h) + 1] /\ r[(n - h) + 1] = e[h]
  BY <1>2, <1>3
<1>5. r \in Seq(Item) /\ Len(r) = n
  <2>1. r \in [1 .. n -> Item]
    BY <1>1, <1>2, <1>3
  <2> QED BY <1>1, <2>1, SeqDef, LenProperties
<1>6. ToSet(r) = ToSet(e)
  <2>1. ASSUME NEW h \in 1 .. n PROVE r[h] \in {e[j] : j \in 1 .. n} /\ e[h] \in {r[j] : j \in 1 .. n}
    BY <1>3, <1>4
  <2> QED BY <1>1, <1>4, <2>1 DEF ToSet
<1>7. UniqueIn(e) => UniqueIn(r)
  <2>1. SUFFICES ASSUME UniqueIn(e), NEW h \in 1 .. n, NEW j \in 1 .. n, r[h].name = r[j].name
                 PROVE  h = j
    BY <1>4 DEF UniqueIn
  <2>2. (n - h) + 1 = (n - j) + 1
    BY <1>1, <1>3, <1>4, <2>1 DEF UniqueIn
  <2> QED BY <1>1, <2>2
<1> QED BY <1>5, <1>6, <1>7 DEF n, r

\* For every list that the shell can come to have: export prints every item
\* of it, once, in the order of the names.
THEOREM ExportIsSorted == Spec => []ExportSorted
<1>1. ASSUME Inv PROVE ExportSorted
  <2> DEFINE r == Reverse(env)
             out == bubble_sort_map[<<r, 1, 2>>]
  <2>1. env \in Seq(Item) /\ UniqueIn(env)
    BY <1>1, ListType
  <2>2. /\ r \in Seq(Item) /\ Len(r) = Len(env) /\ ToSet(r) = ToSet(env) /\ UniqueIn(r)
    BY <2>1, ReverseKeeps
  <2> HIDE DEF r
  <2>3. SortedUpTo(r, 1, 2)
    <3>1. DOMAIN r = 1 .. Len(r)
      BY <2>2, LenProperties
    <3> QED BY <3>1 DEF SortedUpTo
  <2>4. Shuffled(r, out) /\ Sorted(out)
    BY <2>2, <2>3, BubbleSorts
  <2>5. print_sorted_env(env) = out
    BY DEF print_sorted_env, r
  <2> HIDE DEF out
  <2>6. \A k \in 1 .. Len(out) - 1 : out[k].name < out[k + 1].name
    <3>1. DOMAIN out = 1 .. Len(out) /\ Len(out) \in Nat
      BY <2>4, LenProperties DEF Shuffled
    <3>2. \A k \in 1 .. Len(out) - 1 : k \in 1 .. Len(out) /\ k + 1 \in 1 .. Len(out) /\ k < k + 1
      BY <3>1
    <3> QED BY <2>4, <3>1, <3>2 DEF Sorted
  <2> QED BY <2>2, <2>4, <2>5, <2>6 DEF ExportSorted, Shuffled
<1> QED BY <1>1, Invariant, PTL

(***************************************************************************)
(* The refinement.                                                         *)
(***************************************************************************)
\* The next request is one that EnvMap knows.
AskedOK == Asked \in Promised!Request \cup {NULL}

\* What is asked of the map is a request,
LEMMA AskedType == TypeOK => AskedOK
<1> SUFFICES ASSUME TypeOK PROVE Asked \in Promised!Request \cup {NULL}
  BY DEF AskedOK
<1>1. CASE pc \in {"prompt", "cd"} \/ i > Len(argv)
  <2>1. i \in Nat /\ Len(argv) \in Nat
    BY LenProperties DEF TypeOK
  <2> QED BY <1>1, <2>1 DEF Asked
<1>2. CASE pc \notin {"prompt", "cd"} /\ ~ i > Len(argv)
  <2>1. i <= Len(argv)
    BY <1>2, LenProperties DEF TypeOK
  <2>2. argv[i] \in Argument
    BY <2>1, ArgumentType
  <2>3. pc \in {"init_env", "export", "unset"}
    BY <1>2 DEF TypeOK
  <2>4. CASE pc = "init_env" /\ argv[i].value = NULL
    <3>1. Asked = [name |-> NotName, value |-> NULL]
      BY <1>2, <2>1, <2>4 DEF Asked
    <3> QED BY <3>1 DEF Promised!Request, Promised!Held
  <2>5. CASE pc = "unset"
    <3>1. Asked = [name |-> argv[i].name, value |-> Unset]
      BY <1>2, <2>1, <2>5 DEF Asked
    <3> QED BY <2>2, <3>1 DEF Argument, Promised!Request, Promised!Held
  <2>6. CASE ~ (pc = "init_env" /\ argv[i].value = NULL) /\ pc # "unset"
    <3>1. Asked = argv[i]
      BY <1>2, <2>6 DEF Asked
    <3> QED BY <2>2, <3>1 DEF Argument, Promised!Request, Promised!Held
  <2> QED BY <2>3, <2>4, <2>5, <2>6
<1> QED BY <1>1, <1>2

\* also after a step.
LEMMA AskedTypeNext == TypeOK' => AskedOK'
BY AskedType, PTL

\* A request is not NULL.
LEMMA RequestIsOne == NULL \notin Promised!Request
BY FilesAssumption DEF Promised!Request, Promised!Held

\* The turn of a loop that changes the list is the fulfilment of a request.
LEMMA TurnFulfils ==
    ASSUME Inv, Inv', Asked \in Promised!Request,
           Becomes(env, env', Asked.name, Asked.value)
    PROVE  Promised!Fulfil
<1>1. Asked # NULL
  BY RequestIsOne
<1>2. Asked' \in Promised!Request \cup {NULL}
  BY AskedTypeNext DEF Inv, AskedOK
<1> QED BY <1>1, <1>2 DEF Becomes, Promised!Fulfil

\* Nothing is asked at the prompt and in cd.
LEMMA NothingAsked == pc \in {"prompt", "cd"} => Asked = NULL
BY DEF Asked

\* Between commands, and when cd begins, nothing is asked.
LEMMA NothingAskedNext == pc' \in {"prompt", "cd"} => Asked' = NULL
BY DEF Asked

\* The list at the start is a map at the start.
LEMMA InitRefines == Init => Promised!Init
<1> SUFFICES ASSUME Init PROVE Promised!Init
  OBVIOUS
<1>1. Asked \in Promised!Request \cup {NULL}
  BY InitInv, AskedType DEF Inv, AskedOK
<1>2. \A x : ~ IsHeld(<< >>, x)
  BY DEF IsHeld, Holding
<1>3. AsMap(env) = [x \in Name |-> Unset]
  BY <1>2 DEF AsMap, Init
<1> QED BY <1>1, <1>3 DEF Promised!Init

\* A string of envp without = is a request that changes nothing.
LEMMA PutRefines == ASSUME Inv, Inv', map_put PROVE Promised!Fulfil
<1>1. env \in Seq(Item) /\ UniqueIn(env) /\ argv[i] \in Argument
  BY ListType, ArgumentType DEF Inv, map_put
<1>2. argv[i].name \in Name \cup {NotName} /\ argv[i].value \in MaybeValue
  BY <1>1 DEF Argument, MaybeValue
<1>3. ~ i > Len(argv) /\ pc = "init_env"
  BY LenProperties DEF Inv, TypeOK, map_put
<1>4. CASE argv[i].value = NULL
  <2>1. Asked = [name |-> NotName, value |-> NULL]
    BY <1>3, <1>4 DEF Asked, map_put
  <2>2. Asked \in Promised!Request
    BY <2>1 DEF Promised!Request, Promised!Held
  <2>3. AsMap(env) = [x \in Name |-> IF x = NotName THEN NULL ELSE AsMap(env)[x]]
    BY NamesAssumption DEF AsMap
  <2>4. env' = env
    BY <1>4 DEF map_put
  <2>5. Becomes(env, env', NotName, NULL)
    BY <1>1, <2>3, <2>4 DEF Becomes
  <2> QED BY <2>1, <2>2, <2>5, TurnFulfils
<1>5. CASE argv[i].value # NULL
  <2>1. Asked = argv[i]
    BY <1>3, <1>5 DEF Asked, map_put
  <2>2. Asked \in Promised!Request
    BY <1>1, <2>1 DEF Argument, Promised!Request, Promised!Held
  <2>3. Becomes(env, env', argv[i].name, argv[i].value)
    BY <1>1, <1>2, <1>5, SetList DEF map_put
  <2> QED BY <2>1, <2>2, <2>3, TurnFulfils
<1> QED BY <1>4, <1>5

\* The shell starts with a level and a directory.
LEMMA DefaultsRefine == ASSUME Inv, envmap_init PROVE Promised!Defaults
<1> DEFINE e == SetDefault(env, SHLVL, One)
<1>1. env \in Seq(Item) /\ UniqueIn(env)
  BY ListType
<1>2. One \in Value /\ cwd \in Value /\ SHLVL \in Name /\ PWD \in Name /\ SHLVL # PWD
  BY FilesAssumption, NamesAssumption DEF Inv, TypeOK
<1>3. /\ e \in Seq(Item) /\ UniqueIn(e)
      /\ AsMap(e) = [x \in Name |-> IF x = SHLVL /\ AsMap(env)[SHLVL] \notin Value
                                    THEN One ELSE AsMap(env)[x]]
  BY <1>1, <1>2, DefaultsList
<1>4. env' = SetDefault(e, PWD, cwd)
  BY DEF envmap_init
<1> HIDE DEF e
<1>5. AsMap(env') = [x \in Name |-> IF x = PWD /\ AsMap(e)[PWD] \notin Value
                                    THEN cwd ELSE AsMap(e)[x]]
  <2>1. AsMap(SetDefault(e, PWD, cwd)) =
          [x \in Name |-> IF x = PWD /\ AsMap(e)[PWD] \notin Value THEN cwd ELSE AsMap(e)[x]]
    BY <1>2, <1>3, DefaultsList
  <2> QED BY <1>4, <2>1
<1>6. AsMap(env) = [x \in Name |-> AsMap(env)[x]]
  BY DEF AsMap
<1>7. AsMap(env')[PWD] \in Value
  BY <1>2, <1>5
<1>8. AsMap(e)[PWD] = AsMap(env)[PWD]
  BY <1>2, <1>3
<1>9. AsMap(env') =
        [AsMap(env) EXCEPT ![SHLVL] = IF AsMap(env)[SHLVL] \in Value THEN @ ELSE One,
                           ![PWD] = IF AsMap(env)[PWD] \in Value THEN @ ELSE AsMap(env')[PWD]]
  BY <1>2, <1>3, <1>5, <1>6, <1>8
<1>10. Asked = NULL /\ Asked' = NULL
  <2>1. Asked = NULL
    <3>1. i \in Nat /\ Len(argv) \in Nat
      BY LenProperties DEF Inv, TypeOK
    <3> QED BY <3>1 DEF Asked, envmap_init
  <2>2. Asked' = NULL
    BY NothingAskedNext DEF envmap_init
  <2> QED BY <2>1, <2>2
<1> QED BY <1>7, <1>9, <1>10 DEF Promised!Defaults, Promised!HasValue

\* export and unset: the first argument is what is asked.
LEMMA BeginRefines ==
    ASSUME Inv, Inv', builtin_export \/ builtin_unset
    PROVE  Promised!Ask \/ UNCHANGED <<AsMap(env), Asked>>
<1>1. Asked = NULL /\ env' = env
  BY NothingAsked DEF builtin_export, builtin_unset, Given
<1>2. AsMap(env)' = AsMap(env)
  BY <1>1
<1>3. Asked' \in Promised!Request \cup {NULL}
  BY AskedTypeNext DEF Inv, AskedOK
<1> QED BY <1>1, <1>2, <1>3 DEF Promised!Ask

\* cd begins: OLDPWD becomes what PWD was.
LEMMA CdRefines ==
    ASSUME Inv, NEW arg \in CdArgs, builtin_cd(arg)
    PROVE  Promised!LeaveDirectory \/ UNCHANGED <<AsMap(env), Asked>>
<1> DEFINE pwd == map_get(env, PWD)
<1>1. env \in Seq(Item) /\ UniqueIn(env) /\ OLDPWD \in Name /\ PWD \in Name
  BY ListType, NamesAssumption
<1>2. Asked = NULL /\ Asked' = NULL
  BY NothingAsked, NothingAskedNext DEF builtin_cd, Given
<1>3. CASE arg.kind = "rejected"
  BY <1>2, <1>3 DEF builtin_cd
<1>4. CASE arg.kind # "rejected"
  <2>1. pwd \in MaybeValue
        /\ pwd = IF AsMap(env)[PWD] \in Value THEN AsMap(env)[PWD] ELSE NULL
    BY <1>1, GetIs
  <2>2. env' = map_set(env, OLDPWD, pwd)
    BY <1>4 DEF builtin_cd
  <2> HIDE DEF pwd
  <2>3. Becomes(env, env', OLDPWD, pwd)
    BY <1>1, <2>1, <2>2, SetList
  <2>4. AsMap(env) = [x \in Name |-> AsMap(env)[x]]
    BY DEF AsMap
  <2>5. AsMap(env') = [AsMap(env) EXCEPT ![OLDPWD] = pwd]
    BY <2>3, <2>4 DEF Becomes
  <2> QED BY <1>2, <2>1, <2>5 DEF Promised!LeaveDirectory, Promised!HasValue
<1> QED BY <1>3, <1>4

\* cd ends: PWD changes only if it was known.
LEMMA CdEndRefines ==
    ASSUME Inv, cd_end
    PROVE  Promised!EnterDirectory \/ UNCHANGED <<AsMap(env), Asked>>
<1>1. env \in Seq(Item) /\ UniqueIn(env) /\ PWD \in Name
  BY ListType, NamesAssumption
<1>2. Asked = NULL /\ Asked' = NULL
  BY NothingAsked, NothingAskedNext DEF cd_end
<1>3. CASE ~ (walk.at # NULL /\ walk.resolved # NULL)
  <2>1. env' = env
    BY <1>3 DEF cd_end
  <2> QED BY <1>2, <2>1
<1>4. CASE walk.at # NULL /\ walk.resolved # NULL
  <2>1. env' = map_set(env, PWD, walk.resolved)
    BY <1>4 DEF cd_end
  <2>2. walk.resolved \in Value
    BY <1>4 DEF Inv, TypeOK
  <2>3. Becomes(env, env', PWD, walk.resolved)
    BY <1>1, <2>1, <2>2, SetList DEF MaybeValue
  <2>4. AsMap(env) = [x \in Name |-> AsMap(env)[x]]
    BY DEF AsMap
  <2>5. AsMap(env')[PWD] = walk.resolved
        /\ AsMap(env') = [AsMap(env) EXCEPT ![PWD] = walk.resolved]
    BY <1>1, <2>3, <2>4 DEF Becomes
  <2>6. AsMap(env)[PWD] \in Value
    <3>1. map_get(env, PWD) # NULL
      BY <1>4 DEF Inv, KnownBefore, cd_end
    <3> QED BY <1>1, <3>1, GetIs
  <2> QED BY <1>2, <2>2, <2>5, <2>6 DEF Promised!EnterDirectory, Promised!HasValue
<1> QED BY <1>3, <1>4

\* An argument of export is a request to set, one of unset a request to remove.
LEMMA ArgumentRefines ==
    ASSUME Inv, Inv', update_key_value \/ unset_name
    PROVE  Promised!Fulfil
<1>1. i <= Len(argv) /\ ~ i > Len(argv) /\ argv[i] \in Argument
  <2>1. i <= Len(argv) /\ i \in Nat /\ Len(argv) \in Nat
    BY LenProperties DEF Inv, TypeOK, update_key_value, unset_name
  <2> QED BY <2>1, ArgumentType DEF Inv
<1>2. env \in Seq(Item) /\ UniqueIn(env)
  BY ListType
<1>3. argv[i].name \in Name \cup {NotName} /\ argv[i].value \in MaybeValue
  BY <1>1 DEF Argument, MaybeValue
<1>4. CASE update_key_value
  <2>1. Asked = argv[i]
    BY <1>1, <1>4 DEF Asked, update_key_value
  <2>2. Asked \in Promised!Request
    BY <1>1, <2>1 DEF Argument, Promised!Request, Promised!Held
  <2>3. Becomes(env, env', argv[i].name, argv[i].value)
    BY <1>2, <1>3, <1>4, SetList DEF update_key_value
  <2> QED BY <2>1, <2>2, <2>3, TurnFulfils
<1>5. CASE unset_name
  <2>1. Asked = [name |-> argv[i].name, value |-> Unset]
    BY <1>1, <1>5 DEF Asked, unset_name
  <2>2. Asked \in Promised!Request
    BY <1>3, <2>1 DEF Promised!Request, Promised!Held
  <2>3. Becomes(env, env', argv[i].name, Unset)
    BY <1>2, <1>3, <1>5, UnsetList DEF unset_name
  <2> QED BY <2>1, <2>2, <2>3, TurnFulfils
<1> QED BY <1>4, <1>5

\* Every step of the list is a step of the map, or none.
LEMMA StepRefines ==
    Inv /\ Inv' /\ [Next]_vars => [Promised!Next]_<<AsMap(env), Asked>>
<1> SUFFICES ASSUME Inv, Inv', [Next]_vars
             PROVE  Promised!Next \/ UNCHANGED <<AsMap(env), Asked>>
  OBVIOUS
<1> USE DEF Promised!Next
<1>1. CASE map_put
  BY <1>1, PutRefines
<1>2. CASE envmap_init
  BY <1>2, DefaultsRefine
<1>3. CASE builtin_export \/ builtin_unset
  BY <1>3, BeginRefines
<1>4. CASE update_key_value \/ unset_name
  BY <1>4, ArgumentRefines
<1>5. ASSUME NEW arg \in CdArgs, builtin_cd(arg)
      PROVE  Promised!Next \/ UNCHANGED <<AsMap(env), Asked>>
  BY <1>5, CdRefines
<1>6. CASE cd_elem
  BY <1>6, NothingAsked, NothingAskedNext DEF cd_elem
<1>7. CASE cd_end
  BY <1>7, CdEndRefines
<1>8. CASE other_command
  BY <1>8, NothingAsked, NothingAskedNext DEF other_command, Given
<1>9. CASE UNCHANGED vars
  BY <1>9 DEF vars, Asked
<1> QED BY <1>1, <1>2, <1>3, <1>4, <1>5, <1>6, <1>7, <1>8, <1>9 DEF Next

\* The list, with its updates in place, additions in front and removals, carries
\* out every request as a map does, and nothing but requests, the defaults and
\* cd changes it.
THEOREM ListIsMap == Spec => KeepsMap
<1>1. Init => Promised!Init
  BY InitRefines
<1>2. Inv /\ Inv' /\ [Next]_vars => [Promised!Next]_<<AsMap(env), Asked>>
  BY StepRefines
<1> QED BY <1>1, <1>2, Invariant, PTL DEF Spec, KeepsMap, Promised!Spec
=============================================================================
