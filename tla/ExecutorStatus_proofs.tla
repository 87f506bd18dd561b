----------------------- MODULE ExecutorStatus_proofs ------------------------
(* The status a line leaves in $?: the safety half of the refinement of       *)
(* CommandLine, for the lines whose outcome does not hang on what an earlier  *)
(* line left behind.  The invariant follows the recursion of exec_handler:    *)
(* wherever the shell is in the tree, what it has to return, or the child it  *)
(* will wait for last, is what Promise says of that place.                    *)
EXTENDS ExecutorShell_proofs

(***************************************************************************)
(* What is promised of a node.                                             *)
(***************************************************************************)
\* The promise of a node, where f has those of the nodes below it.
PromisedBy(f, n) ==
    LET node == Ast[n]
    IN  CASE node.kind = "ND_CMD" -> CommandOutcome(n)
          [] node.kind = "ND_REDIRECTS" ->
               [status |-> IF \A i \in DOMAIN node.redirects : node.redirects[i].file = "ok"
                           THEN 0 ELSE 1,
                exit |-> FALSE]
          [] node.kind = "ND_PIPE" -> f[node.right]
          [] node.kind = "ND_AND_OP" ->
               IF f[node.left].exit \/ f[node.left].status # 0
               THEN f[node.left] ELSE f[node.right]
          [] node.kind = "ND_OR_OP" ->
               IF f[node.left].exit \/ f[node.left].status = 0
               THEN f[node.left] ELSE f[node.right]
          [] node.kind = "ND_RND_BRACKET" -> f[node.left]

\* The outcome of a command is a status and whether the shell ends.
LEMMA OutcomeType ==
    ASSUME NEW n \in Node
    PROVE  CommandOutcome(n) \in Outcome
<1> DEFINE c == Ast[n].cmd
           s == IF c.status = Stale THEN 0 ELSE c.status
           e == c.exits /\ ~ InSubshell[n]
           opened == \A i \in DOMAIN RedirectsOf(n) : RedirectsOf(n)[i].file = "ok"
<1>1. s \in 0 .. 255
  BY NodeShape
<1>2. e \in BOOLEAN
  OBVIOUS
<1>3. CommandOutcome(n) = CASE c.word = "empty" -> [status |-> 127, exit |-> FALSE]
                            [] c.word # "empty" /\ ~ opened -> [status |-> 1, exit |-> FALSE]
                            [] OTHER -> [status |-> s, exit |-> e]
  BY DEF CommandOutcome
<1> HIDE DEF s, e, opened, c
<1>4. \/ CommandOutcome(n) = [status |-> 127, exit |-> FALSE]
      \/ CommandOutcome(n) = [status |-> 1, exit |-> FALSE]
      \/ CommandOutcome(n) = [status |-> s, exit |-> e]
  BY <1>3
<1>5. 127 \in 0 .. 255 /\ 1 \in 0 .. 255 /\ FALSE \in BOOLEAN
  OBVIOUS
<1>6. \A x \in 0 .. 255, b \in BOOLEAN : [status |-> x, exit |-> b] \in Outcome
  BY DEF Outcome
<1> QED BY <1>1, <1>2, <1>4, <1>5, <1>6

\* What PromisedBy looks at are the nodes below, and it makes an outcome of them.
LEMMA PromisedByType ==
    ASSUME NEW n \in Node, NEW f
    PROVE  /\ (\A m \in Node : m < n => f[m] \in Outcome) => PromisedBy(f, n) \in Outcome
           /\ \A g : (\A m \in Node : m < n => f[m] = g[m])
                    => PromisedBy(f, n) = PromisedBy(g, n)
<1> DEFINE node == Ast[n]
           k == node.kind
           l == node.left
           r == node.right
           opened == \A i \in DOMAIN node.redirects : node.redirects[i].file = "ok"
           own == [status |-> IF opened THEN 0 ELSE 1, exit |-> FALSE]
<1>1. CommandOutcome(n) \in Outcome /\ own \in Outcome
  BY OutcomeType DEF Outcome
<1>2. k \in Kind
  BY NodeKind
<1>3. /\ k \in {"ND_PIPE", "ND_AND_OP", "ND_OR_OP"} => r \in Node /\ r < n
      /\ k \in {"ND_AND_OP", "ND_OR_OP", "ND_RND_BRACKET"} => l \in Node /\ l < n
  <2>1. /\ k \in {"ND_PIPE", "ND_AND_OP", "ND_OR_OP"} => r \in Node
        /\ k \in {"ND_AND_OP", "ND_OR_OP", "ND_RND_BRACKET"} => l \in Node
    BY NodeShape
  <2>2. \A m \in Node : m = r \/ m = l => m < n
    BY ChildParent DEF IsChildOf
  <2> QED BY <2>1, <2>2
<1>4. \A g : PromisedBy(g, n) =
        CASE k = "ND_CMD" -> CommandOutcome(n)
          [] k = "ND_REDIRECTS" -> own
          [] k = "ND_PIPE" -> g[r]
          [] k = "ND_AND_OP" -> IF g[l].exit \/ g[l].status # 0 THEN g[l] ELSE g[r]
          [] k = "ND_OR_OP" -> IF g[l].exit \/ g[l].status = 0 THEN g[l] ELSE g[r]
          [] k = "ND_RND_BRACKET" -> g[l]
  BY DEF PromisedBy
<1> HIDE DEF node, k, l, r, own
<1>5. ASSUME \A m \in Node : m < n => f[m] \in Outcome
      PROVE  PromisedBy(f, n) \in Outcome
  BY <1>1, <1>2, <1>3, <1>4, <1>5 DEF Kind
<1>6. ASSUME NEW g, \A m \in Node : m < n => f[m] = g[m]
      PROVE  PromisedBy(f, n) = PromisedBy(g, n)
  BY <1>2, <1>3, <1>4, <1>6 DEF Kind
<1> QED BY <1>5, <1>6

\* Promise is what its definition says of every node.
LEMMA PromiseDef ==
    /\ Promise \in [Node -> Outcome]
    /\ \A n \in Node : Promise[n] = PromisedBy(Promise, n)
<1> DEFINE N == Len(Ast)
           step == [a \in (1 .. N) \X [1 .. N -> Outcome] |-> PromisedBy(a[2], a[1])]
           t == [status |-> 0, exit |-> FALSE]
           Body(f, n) == PromisedBy(f, n)
<1>1. N \in Nat /\ Node = 1 .. N /\ t \in Outcome
  BY Nodes DEF Outcome
<1>2. LooksBelow(N, Outcome, step)
  <2>1. \A n \in 1 .. N, v \in [1 .. N -> Outcome] :
          step[<<n, v>>] = PromisedBy(v, n) /\ PromisedBy(v, n) \in Outcome
    <3> HIDE DEF N
    <3> QED BY <1>1, PromisedByType
  <2>2. step \in [(1 .. N) \X [1 .. N -> Outcome] -> Outcome]
    <3>1. \A a \in (1 .. N) \X [1 .. N -> Outcome] : PromisedBy(a[2], a[1]) \in Outcome
      <4> HIDE DEF N
      <4> QED BY <1>1, PromisedByType
    <3> HIDE DEF N
    <3> QED BY <3>1
  <2> HIDE DEF step, N
  <2>3. ASSUME NEW n \in 1 .. N, NEW v \in [1 .. N -> Outcome], NEW w \in [1 .. N -> Outcome],
               \A m \in 1 .. N : m < n => v[m] = w[m]
        PROVE  step[<<n, v>>] = step[<<n, w>>]
    <3>1. PromisedBy(v, n) = PromisedBy(w, n)
      BY <1>1, <2>3, PromisedByType
    <3> QED BY <2>1, <3>1
  <2> QED BY <2>2, <2>3 DEF LooksBelow
<1>3. PICK f \in [1 .. N -> Outcome] : \A n \in 1 .. N : f[n] = step[<<n, f>>]
  <2> HIDE DEF step, t, N
  <2> QED BY <1>1, <1>2, Tabulation
<1>4. f = [n \in Node |-> Body(f, n)]
  <2> HIDE DEF N
  <2>1. \A n \in Node : f[n] = PromisedBy(f, n)
    BY <1>1, <1>3
  <2> QED BY <1>1, <1>3, <2>1
<1>5. f = [n \in Node |-> PromisedBy(f, n)]
  BY <1>4
<1> HIDE DEF N, step, t, Body
<1>6. Promise = [n \in Node |-> PromisedBy(Promise, n)]
  BY <1>5 DEF Promise, PromisedBy
<1>7. \A n \in Node : Promise[n] = PromisedBy(Promise, n)
  BY <1>6, Zenon
<1>8. \A n \in Node : Promise[n] \in Outcome
  <2> DEFINE Bad == {n \in Node : Promise[n] \notin Outcome}
  <2>1. SUFFICES ASSUME Bad # {} PROVE FALSE
    OBVIOUS
  <2>2. Bad \subseteq Nat
    BY <1>1
  <2> HIDE DEF N
  <2>3. PICK n \in Bad : \A m \in Bad : n <= m
    <3> HIDE DEF Bad
    <3> QED BY <2>1, <2>2, NatMin
  <2>4. \A m \in Node : m < n => Promise[m] \in Outcome
    BY <1>1, <2>3
  <2> QED BY <1>7, <2>3, <2>4, PromisedByType
<1>9. Promise = [n \in Node |-> Promise[n]]
  BY <1>6
<1> QED BY <1>7, <1>8, <1>9
\* The right side of && or || runs: the left side did not end the shell, and
\* succeeded for &&, failed for ||.
GoesRight(m) ==
    LET left == Promise[Ast[m].left]
    IN  ~ left.exit /\ (Ast[m].kind = "ND_AND_OP" <=> left.status = 0)

Opened(n, j) == \A i \in DOMAIN RedirectsOf(n) : i < j => RedirectsOf(n)[i].file = "ok"
AllOpened(n) == \A i \in DOMAIN RedirectsOf(n) : RedirectsOf(n)[i].file = "ok"

\* The promise, kind by kind.
LEMMA PromiseIs ==
    ASSUME NEW n \in Node
    PROVE  /\ Ast[n].kind = "ND_CMD" => Promise[n] = CommandOutcome(n)
           /\ Ast[n].kind = "ND_REDIRECTS" =>
                ~ Promise[n].exit /\ Promise[n].status = IF AllOpened(n) THEN 0 ELSE 1
           /\ Ast[n].kind = "ND_PIPE" => Promise[n] = Promise[Ast[n].right]
           /\ Ast[n].kind = "ND_RND_BRACKET" => Promise[n] = Promise[Ast[n].left]
           /\ Ast[n].kind \in {"ND_AND_OP", "ND_OR_OP"} =>
                Promise[n] = IF GoesRight(n) THEN Promise[Ast[n].right] ELSE Promise[Ast[n].left]
<1> DEFINE k == Ast[n].kind
           L == Promise[Ast[n].left]
           R == Promise[Ast[n].right]
           own == [status |-> IF AllOpened(n) THEN 0 ELSE 1, exit |-> FALSE]
<1>1. k = "ND_REDIRECTS" => RedirectsOf(n) = Ast[n].redirects
  BY DEF RedirectsOf
<1>2. Promise[n] = PromisedBy(Promise, n)
  BY PromiseDef
<1>3. CASE k = "ND_CMD"
  BY <1>2, <1>3 DEF PromisedBy
<1>4. CASE k = "ND_REDIRECTS"
  <2>1. Promise[n] = own
    BY <1>1, <1>2, <1>4 DEF PromisedBy, AllOpened
  <2>2. ~ own.exit /\ own.status = IF AllOpened(n) THEN 0 ELSE 1
    OBVIOUS
  <2> QED BY <1>4, <2>1, <2>2
<1>5. CASE k = "ND_PIPE"
  BY <1>2, <1>5 DEF PromisedBy
<1>6. CASE k = "ND_RND_BRACKET"
  BY <1>2, <1>6 DEF PromisedBy
<1>7. CASE k = "ND_AND_OP"
  <2>1. Promise[n] = IF L.exit \/ L.status # 0 THEN L ELSE R
    BY <1>2, <1>7 DEF PromisedBy
  <2>2. GoesRight(n) <=> ~ L.exit /\ L.status = 0
    BY <1>7 DEF GoesRight
  <2> QED BY <1>7, <2>1, <2>2
<1>8. CASE k = "ND_OR_OP"
  <2>1. Promise[n] = IF L.exit \/ L.status = 0 THEN L ELSE R
    BY <1>2, <1>8 DEF PromisedBy
  <2>2. GoesRight(n) <=> ~ L.exit /\ L.status # 0
    BY <1>8 DEF GoesRight
  <2> QED BY <1>8, <2>1, <2>2
<1>9. k \in Kind
  BY NodeKind
<1> QED BY <1>3, <1>4, <1>5, <1>6, <1>7, <1>8, <1>9 DEF Kind

\* What a command leaves behind.
LEMMA CommandIs ==
    ASSUME NEW n \in Node, Ast[n].kind = "ND_CMD"
    PROVE  LET c == Ast[n].cmd
           IN  /\ c.word = "empty" => Promise[n].status = 127
               /\ c.word # "empty" /\ ~ AllOpened(n) => Promise[n].status = 1
               /\ c.word # "empty" /\ AllOpened(n) =>
                    Promise[n].status = IF c.status = Stale THEN 0 ELSE c.status
               /\ Promise[n].exit <=>
                    c.word # "empty" /\ AllOpened(n) /\ c.exits /\ ~ InSubshell[n]
<1> DEFINE c == Ast[n].cmd
           s == IF c.status = Stale THEN 0 ELSE c.status
           e == c.exits /\ ~ InSubshell[n]
<1>1. Promise[n] = CommandOutcome(n)
  BY PromiseIs
<1>2. Promise[n] = CASE c.word = "empty" -> [status |-> 127, exit |-> FALSE]
                     [] c.word # "empty" /\ ~ AllOpened(n) -> [status |-> 1, exit |-> FALSE]
                     [] OTHER -> [status |-> s, exit |-> e]
  BY <1>1 DEF CommandOutcome, AllOpened
<1> HIDE DEF s, e
<1>3. CASE c.word = "empty"
  BY <1>2, <1>3
<1>4. CASE c.word # "empty" /\ ~ AllOpened(n)
  BY <1>2, <1>4
<1>5. CASE c.word # "empty" /\ AllOpened(n)
  <2>1. Promise[n] = [status |-> s, exit |-> e]
    BY <1>2, <1>5
  <2>2. Promise[n].status = s /\ Promise[n].exit = e
    BY <2>1
  <2> QED BY <1>5, <2>2 DEF s, e
<1> QED BY <1>3, <1>4, <1>5

\* Nothing inside brackets or a pipeline ends the shell.
LEMMA SubshellStays ==
    ASSUME NEW n \in Node, InSubshell[n]
    PROVE  ~ Promise[n].exit
<1> DEFINE Bad == {m \in Node : InSubshell[m] /\ Promise[m].exit}
<1>1. SUFFICES ASSUME Bad # {} PROVE FALSE
  OBVIOUS
<1>2. Bad \subseteq Nat
  BY Nodes
<1>3. PICK m \in Bad : \A j \in Bad : m <= j
  <2> HIDE DEF Bad
  <2> QED BY <1>1, <1>2, NatMin
<1>4. m \in Node /\ InSubshell[m] /\ Promise[m].exit
  OBVIOUS
<1>5. ASSUME NEW j \in Node, IsChildOf(j, m) PROVE ~ Promise[j].exit
  <2>1. Parent[j] = m /\ j < m
    BY <1>4, <1>5, ChildParent
  <2>2. InSubshell[j]
    BY <1>4, <2>1, ChildIsIn
  <2>3. j \in Nat /\ m \in Nat
    BY <1>4, Nodes
  <2> HIDE DEF Bad
  <2>4. j \notin Bad
    BY <1>3, <2>1, <2>3
  <2> QED BY <2>2, <2>4 DEF Bad
<1>6. Ast[m].kind # "ND_CMD"
  BY <1>4, CommandIs
<1>7. /\ Ast[m].left \in Node => ~ Promise[Ast[m].left].exit
      /\ Ast[m].right \in Node => ~ Promise[Ast[m].right].exit
  BY <1>5 DEF IsChildOf
<1>8. Ast[m].kind \in Kind
  BY <1>4, NodeKind
<1>9. /\ Ast[m].kind \in {"ND_PIPE", "ND_AND_OP", "ND_OR_OP"} =>
           Ast[m].left \in Node /\ Ast[m].right \in Node
      /\ Ast[m].kind = "ND_RND_BRACKET" => Ast[m].left \in Node
  BY <1>4, NodeShape
<1> HIDE DEF Bad
<1> QED BY <1>4, <1>6, <1>7, <1>8, <1>9, PromiseIs DEF Kind

(***************************************************************************)
(* What is reached of a line, and which lines are spoken of.               *)
(***************************************************************************)
\* The right side of a &&: what it begins with finds $? at 0.
AfterAnd(n) == Parent[n] # 0 /\ Ast[Parent[n]].kind = "ND_AND_OP" /\ Ast[Parent[n]].right = n

\* The lines whose outcome the line itself decides: an exit is a builtin by
\* its name, and unset, which leaves $? as it found it, follows a &&.
Definite ==
    \A n \in Node : Ast[n].kind = "ND_CMD" =>
        /\ Ast[n].cmd.exits => Ast[n].cmd.typed
        /\ Ast[n].cmd.status = Stale => AfterAnd(n)

\* n is a right side that its operator passes over.
Skipped(n) == /\ Parent[n] # 0
              /\ Ast[Parent[n]].kind \in {"ND_AND_OP", "ND_OR_OP"}
              /\ Ast[Parent[n]].right = n
              /\ ~ GoesRight(Parent[n])

\* The nodes that the line comes to, if it does what is promised.
Reached[n \in Node] == Parent[n] = 0 \/ (Reached[Parent[n]] /\ ~ Skipped(n))

\* Reached is what its definition says of every node.
LEMMA ReachedDef ==
    \A n \in Node : Reached[n] <=> Parent[n] = 0 \/ (Reached[Parent[n]] /\ ~ Skipped(n))
<1> DEFINE Body(f, n) == Parent[n] = 0 \/ (f[Parent[n]] /\ ~ Skipped(n))
           Bad(n) == Skipped(n)
           base == [n \in Node |-> TRUE]
           step == [a \in Node \X BOOLEAN |-> a[2] /\ ~ Bad(a[1])]
<1>1. base \in [Node -> BOOLEAN] /\ step \in [Node \X BOOLEAN -> BOOLEAN]
  <2> HIDE DEF Bad
  <2> QED OBVIOUS
<1>2. PICK f \in [Node -> BOOLEAN] : Climbs(f, base, step)
  <2> HIDE DEF base, step
  <2> QED BY <1>1, UpTheTree, Zenon
<1>3. ASSUME NEW n \in Node PROVE f[n] = Body(f, n)
  <2>1. CASE Parent[n] = 0
    BY <1>2, <2>1 DEF Climbs
  <2>2. CASE Parent[n] # 0
    <3>1. f[Parent[n]] \in BOOLEAN
      BY <1>2, <2>2, ParentChild
    <3>2. f[n] = step[<<n, f[Parent[n]]>>]
      BY <1>2, <2>2 DEF Climbs
    <3>3. step[<<n, f[Parent[n]]>>] = (f[Parent[n]] /\ ~ Bad(n))
      <4> HIDE DEF Bad
      <4> QED BY <3>1
    <3> QED BY <2>2, <3>2, <3>3
  <2> QED BY <2>1, <2>2
<1> HIDE DEF base, step, Bad
<1>4. f = [n \in Node |-> Body(f, n)]
  <2> HIDE DEF Body
  <2> QED BY <1>2, <1>3
<1>5. Reached = CHOOSE g : g = [n \in Node |-> Body(g, n)]
  BY DEF Reached
<1>6. Reached = [n \in Node |-> Body(Reached, n)]
  <2> HIDE DEF Body
  <2> QED BY <1>4, <1>5
<1> QED BY <1>6, Zenon

\* Who is reached: the sides that go on, and the caller of who is reached.
LEMMA ReachedStep ==
    ASSUME NEW m \in Node
    PROVE  /\ Reached[m] /\ Ast[m].left # 0 => Reached[Ast[m].left]
           /\ Reached[m] /\ Ast[m].kind = "ND_PIPE" => Reached[Ast[m].right]
           /\ Reached[m] /\ Ast[m].right # 0 /\ GoesRight(m) => Reached[Ast[m].right]
           /\ \A n \in Node : Reached[n] /\ Parent[n] = m => Reached[m]
           /\ /\ Ast[m].kind \in {"ND_AND_OP", "ND_OR_OP"} /\ Reached[Ast[m].right]
              => GoesRight(m)
<1>1. Ast[m].left # 0 => Ast[m].left \in Node /\ Parent[Ast[m].left] = m
  BY LeftChild
<1>2. Ast[m].right # 0 =>
        /\ Ast[m].right \in Node /\ Parent[Ast[m].right] = m /\ Ast[m].left # Ast[m].right
  BY RightIs
<1>3. Ast[m].kind \in {"ND_PIPE", "ND_AND_OP", "ND_OR_OP"} => Ast[m].right # 0
  <2>1. 0 \notin Node
    BY Nodes
  <2> QED BY <2>1, NodeShape
<1>4. m # 0
  BY Nodes
<1>5. Ast[m].left # 0 => ~ Skipped(Ast[m].left)
  <2>1. CASE Ast[m].right = 0
    BY <1>1, <2>1 DEF Skipped
  <2>2. CASE Ast[m].right # 0
    BY <1>1, <1>2, <2>2 DEF Skipped
  <2> QED BY <2>1, <2>2
<1>6. Ast[m].right # 0 /\ (Ast[m].kind = "ND_PIPE" \/ GoesRight(m)) => ~ Skipped(Ast[m].right)
  BY <1>2 DEF Skipped
<1>7. Ast[m].kind \in {"ND_AND_OP", "ND_OR_OP"} /\ ~ GoesRight(m) => Skipped(Ast[m].right)
  BY <1>2, <1>3, <1>4 DEF Skipped
<1> QED BY <1>1, <1>2, <1>3, <1>4, <1>5, <1>6, <1>7, ReachedDef

\* What is promised of a node is what is promised of its caller: of the left
\* side of a pair of brackets, of the right side of a pipe, of the right side
\* of && and || that is reached, and of the left side that decides.
LEMMA PromisePasses ==
    ASSUME NEW m \in Node
    PROVE  /\ Ast[m].kind = "ND_RND_BRACKET" => Promise[m] = Promise[Ast[m].left]
           /\ Ast[m].right # 0 /\ Reached[Ast[m].right] => Promise[m] = Promise[Ast[m].right]
           /\ Ast[m].kind \in {"ND_AND_OP", "ND_OR_OP"} /\ ~ GoesRight(m) =>
                Promise[m] = Promise[Ast[m].left]
<1>1. Ast[m].right # 0 => Ast[m].kind \in {"ND_PIPE", "ND_AND_OP", "ND_OR_OP"}
  BY RightIs
<1> QED BY <1>1, PromiseIs, ReachedStep

\* An exit that the line comes to ends the line with its status.
LEMMA ExitsLine ==
    ASSUME NEW n \in Node, Reached[n], Promise[n].exit
    PROVE  Promise[Root[n]] = Promise[n]
<1> DEFINE Done(m) == Reached[m] /\ Promise[m].exit /\ Promise[Root[m]] # Promise[m]
           Bad == {m \in Node : Done(m)}
<1>1. SUFFICES ASSUME Bad # {} PROVE FALSE
  OBVIOUS
<1>2. Bad \subseteq Nat /\ Len(Ast) \in Nat /\ \A m \in Bad : m <= Len(Ast)
  BY Nodes
<1>3. PICK m \in Bad : \A j \in Bad : j <= m
  <2> HIDE DEF Bad
  <2> QED BY <1>1, <1>2, NatMax
<1>4. m \in Node /\ Reached[m] /\ Promise[m].exit /\ Promise[Root[m]] # Promise[m]
  OBVIOUS
<1>5. Parent[m] # 0
  BY <1>4, RootDef
<1> DEFINE k == Parent[m]
<1>6. k \in Node /\ IsChildOf(m, k) /\ m < k
  BY <1>4, <1>5, ParentChild
<1>7. Reached[k] /\ Root[m] = Root[k]
  BY <1>4, <1>5, <1>6, ReachedStep, SameTree
<1>8. Ast[k].kind \notin {"ND_PIPE", "ND_RND_BRACKET"}
  BY <1>4, <1>6, ChildIsIn, SubshellStays
<1>9. ASSUME Ast[k].kind \in {"ND_AND_OP", "ND_OR_OP"} PROVE Promise[m] = Promise[k]
  <2>1. CASE Ast[k].right = m
    <3>1. m # 0
      BY <1>4, Nodes
    <3> QED BY <1>4, <1>6, <2>1, <3>1, PromisePasses
  <2>2. CASE Ast[k].left = m
    <3>1. ~ GoesRight(k)
      BY <1>4, <2>2 DEF GoesRight
    <3> QED BY <1>6, <1>9, <2>2, <3>1, PromisePasses
  <2> QED BY <1>6, <2>1, <2>2 DEF IsChildOf
<1>10. CASE Ast[k].kind \in {"ND_CMD", "ND_REDIRECTS"}
  <2>1. m # 0
    BY <1>4, Nodes
  <2>2. Ast[k].right # m
    BY <1>6, <1>10, <2>1, RightIs
  <2>3. Ast[k].left = m
    BY <1>6, <2>2 DEF IsChildOf
  <2>4. Ast[k].kind = "ND_CMD" => m \in RedirectNode
    BY <1>6, <2>1, <2>3, NodeShape
  <2>5. Ast[k].kind = "ND_REDIRECTS" => Ast[k].left = 0
    BY <1>6, AstAssumption DEF WellFormed
  <2>6. Ast[m].kind = "ND_REDIRECTS"
    BY <1>10, <2>1, <2>3, <2>4, <2>5 DEF RedirectNode
  <2> QED BY <1>4, <2>6, PromiseIs
<1>11. Promise[m] = Promise[k]
  BY <1>6, <1>8, <1>9, <1>10, NodeKind DEF Kind
<1>12. k \in Bad
  BY <1>4, <1>6, <1>7, <1>11
<1>13. k \in Nat /\ m \in Nat
  BY <1>4, <1>6, Nodes
<1> HIDE DEF Bad
<1> QED BY <1>3, <1>6, <1>12, <1>13

(***************************************************************************)
(* Where a step leaves the processes that do not take it.                  *)
(***************************************************************************)
\* Who acts touches nobody else, but for the child that waitpid reaps, the
\* child it forks, and the children of who exits.
LEMMA Unmoved ==
    ASSUME TypeOK, NEW p \in Proc, Advances(p), NEW r \in Proc \ {p}
    PROVE  /\ proc[r].pc # "free" /\ (proc[r].parent # p \/ ~ Gone(proc'[p])) =>
                \/ proc'[r] = proc[r]
                \/ WaitChild(p) /\ r \in Awaited(p)
           /\ proc[r].pc = "free" =>
                \/ proc'[r].pc = "free"
                \/ /\ exec_cmd_forked(p)
                   /\ Gone(proc'[p]) \/ (r = NewProcess /\ proc'[r] = ForkedChild(p))
<1> DEFINE R == proc[r]
           S == proc'[r]
           L == [R EXCEPT !.parent = 0]
<1>1. proc \in [Proc -> Good] /\ R \in Process
  BY ProcType, Here
<1>2. L.pc = R.pc /\ NoProcess.pc = "free"
  BY <1>1 DEF Process, NoProcess
<1>3. ASSUME NEW Q, Set(p, Q) PROVE S = R
  BY <1>1, <1>3 DEF Set
<1>4. ASSUME NEW s \in 0 .. 255, Exit(p, s)
      PROVE  Gone(proc'[p]) /\ (R.parent # p => S = R) /\ (R.pc = "free" => S.pc = "free")
  <2>1. Gone(proc'[p])
    BY <1>1, <1>4, ExitDoes DEF Exit
  <2>2. S = IF R.parent = p THEN (IF R.pc = "zombie" THEN NoProcess ELSE L) ELSE R
    BY <1>1, <1>4 DEF Exit, ExitIn
  <2> HIDE DEF L, R, S
  <2> QED BY <1>2, <2>1, <2>2
<1> HIDE DEF L
<1>5. CASE Plain(p)
  BY <1>3, <1>4, <1>5, PlainMoves DEF Moves
<1>6. CASE Clearing(p)
  BY <1>3, <1>4, <1>6, ClearingClears DEF Clears
<1>7. CASE ReturnAndWait(p)
  BY <1>3, <1>7, ReturnAndWaitShape
<1>8. CASE WaitNoChild(p)
  BY <1>3, <1>8 DEF WaitNoChild
<1>9. CASE WaitChild(p)
  <2>1. PICK q \in Awaited(p) :
          proc' = [proc EXCEPT ![q] = NoProcess,
                               ![p] = AfterWaitpid(proc[p], proc[q].c_status)]
    BY <1>9 DEF WaitChild
  <2>2. r # q => S = R
    BY <1>1, <2>1
  <2>3. r = q => S = NoProcess
    BY <1>1, <2>1
  <2> QED BY <1>2, <1>9, <2>1, <2>2, <2>3
<1>10. CASE exec_cmd_forked(p)
  <2>1. CASE Exit(p, EXIT_FAILURE)
    BY <1>4, <2>1 DEF EXIT_FAILURE
  <2>2. ASSUME FreeSlots # {}
        PROVE  /\ AfterFork(p) \in [Proc -> Good]
               /\ r = NewProcess => R.pc = "free" /\ AfterFork(p)[r] = ForkedChild(p)
               /\ r # NewProcess => AfterFork(p)[r] = R
    <3>1. AfterFork(p) \in [Proc -> Good] /\ proc[NewProcess].pc = "free" /\ NewProcess \in Proc
      BY <1>10, <2>2, ForkType
    <3>2. r # NewProcess => AfterFork(p)[r] = R
      BY <1>1 DEF AfterFork
    <3>3. r = NewProcess => AfterFork(p)[r] = ForkedChild(p)
      BY <1>1 DEF AfterFork
    <3> QED BY <3>1, <3>2, <3>3
  <2>3. CASE FreeSlots # {} /\ proc' = ExitIn(AfterFork(p), p, EXIT_FAILURE)
    <3>1. Gone(proc'[p])
      BY <2>2, <2>3, ExitDoes, Null
    <3>2. AfterFork(p)[r].parent # p => S = AfterFork(p)[r]
      BY <2>3 DEF ExitIn
    <3> QED BY <1>10, <2>2, <2>3, <3>1, <3>2
  <2>4. CASE FreeSlots # {} /\ proc' = [AfterFork(p) EXCEPT ![p] = ParentDone(p)]
    <3>1. S = AfterFork(p)[r]
      BY <2>2, <2>4
    <3> QED BY <1>10, <2>2, <2>4, <3>1
  <2> QED BY <1>10, <2>1, <2>3, <2>4, ForkCases
<1> QED BY <1>5, <1>6, <1>7, <1>8, <1>9, <1>10 DEF Advances, Step, Plain, Clearing

\* What earlier theorems say of the processes, in every state.
Standing == /\ TypeOK /\ PidsInBounds /\ Sound /\ Wired(proc[Shell]) /\ Tree
            /\ Outside(proc[Shell]) /\ Few(proc[Shell]) /\ Flags(proc[Shell])

\* What a child of the shell does of itself.
Works(r) == ChildSetup(r) \/ exec_cmd(r) \/ exec_cmd_with_heredoc(r)
            \/ apply_redirects(r) \/ run_builtin(r) \/ RunsOn(r)

\* Nothing of it touches the shell or another child.
LEMMA KidWorks ==
    ASSUME Standing, NEW r \in Others, Advances(r),
           proc[Shell].parent = 0, proc[Shell].pc # "free"
    PROVE  /\ Works(r) /\ ~ Gone(proc[r]) /\ proc'[Shell] = proc[Shell] /\ UNCHANGED typed
           /\ \A s \in Others \ {r} :
                /\ proc[s].pc = "free" => proc'[s].pc = "free"
                /\ proc[s].pc # "free" /\ ~ Gone(proc[Shell]) => proc'[s] = proc[s]
<1>1. TypeOK /\ Shell \in Proc /\ r \in Proc /\ r # Shell /\ r # 0
  BY BoundsAssumption DEF Standing, Shell, Proc, Others
<1>2. proc[r].pc \in {"free", "zombie", "child", "cmd", "redirect", "builtin", "program"}
  BY DEF Standing, Tree, Kid
<1>3. ~ (ReadLine(r) \/ EndOfInput(r) \/ Heredoc(r) \/ HeredocsRead(r))
  BY <1>2 DEF ReadLine, EndOfInput, Heredoc, HeredocsRead
<1>4. ~ (exec_pipe(r) \/ exec_logical(r) \/ exec_round_brackets(r) \/ exec_redirect(r)
         \/ exec_cmd_here(r) \/ exec_cmd_forked(r))
  BY <1>2 DEF AtNode, exec_pipe, exec_logical, exec_round_brackets, exec_redirect,
     exec_cmd_here, exec_cmd_forked
<1>5. ~ (ReturnFromRight(r) \/ ReturnFromPipeLeft(r) \/ ReturnAndWait(r)
         \/ WaitChild(r) \/ WaitNoChild(r))
  BY <1>2 DEF ReturnFromRight, ReturnFromPipeLeft, ReturnAndWait, WaitChild, WaitNoChild
<1>6. ~ (exec_and_node(r) \/ exec_or_node(r) \/ EndOfBrackets(r) \/ EndOfLine(r))
  BY <1>2 DEF Deciding, exec_and_node, exec_or_node, EndOfBrackets, EndOfLine
<1>7. Works(r)
  BY <1>3, <1>4, <1>5, <1>6 DEF Advances, Step, Works, RunsOn
<1>8. ~ Gone(proc[r])
  <2>1. ChildSetup(r) => proc[r].pc = "child"
    BY DEF ChildSetup
  <2>2. exec_cmd(r) \/ exec_cmd_with_heredoc(r) => proc[r].pc = "cmd"
    BY DEF exec_cmd, exec_cmd_with_heredoc
  <2>3. apply_redirects(r) => proc[r].pc = "redirect"
    BY DEF apply_redirects
  <2>4. run_builtin(r) => proc[r].pc = "builtin"
    BY DEF run_builtin
  <2>5. RunsOn(r) => proc[r].pc \in {"program", "builtin"}
    BY <1>1, RunsOnDoes
  <2> QED BY <1>7, <2>1, <2>2, <2>3, <2>4, <2>5 DEF Works, Gone
<1>9. UNCHANGED typed
  BY <1>7 DEF Works, RunsOn, ChildSetup, exec_cmd, exec_cmd_with_heredoc, apply_redirects,
     run_builtin, Write, Read, ReadEof, ProgramExit
<1>10. proc'[Shell] = proc[Shell]
  BY <1>1, <1>5, Unmoved
<1>11. ASSUME NEW s \in Others \ {r}
       PROVE  /\ proc[s].pc = "free" => proc'[s].pc = "free"
              /\ proc[s].pc # "free" /\ ~ Gone(proc[Shell]) => proc'[s] = proc[s]
  <2>1. s \in Proc \ {r}
    BY DEF Others
  <2>2. proc[s].pc # "free" /\ ~ Gone(proc[Shell]) => proc[s].parent # r
    BY <1>1 DEF Standing, Tree, Own
  <2> QED BY <1>1, <1>4, <1>5, <2>1, <2>2, Unmoved
<1> QED BY <1>7, <1>8, <1>9, <1>10, <1>11

(***************************************************************************)
(* The invariant.                                                          *)
(***************************************************************************)
\* Where a process is in its command or redirect list: the redirects so far
\* were opened, and $? is as the builtin that keeps it should find it.
Underway(P) ==
    LET c == Ast[P.node].cmd
    IN  /\ P.pc = "redirect" => /\ Opened(P.node, P.i)
                                /\ Ast[P.node].kind = "ND_CMD" => c.word # "empty"
        /\ P.pc \in {"builtin", "program"} => c.word # "empty" /\ AllOpened(P.node)
        /\ /\ P.pc \in {"exec", "child", "cmd", "redirect", "builtin"}
           /\ Ast[P.node].kind = "ND_CMD" /\ c.status = Stale
           => P.last_status = 0

\* A child has room for a descriptor, and writes to a pipe only left of one.
Equipped(R) == ~ Gone(R) => /\ R.pc # "child" => FreeFds(R) # {}
                            /\ R.node \notin PipeLeft => Out(R) \in {Tty, File}

\* R leaves, or has left, the status s, and no SIGPIPE ends it before.
Due(R, s) == /\ R.pc # "free"
             /\ R.pc = "zombie" => R.c_status = s
             /\ ~ Gone(R) => R.node \notin PipeLeft /\ Promise[R.node].status = s

\* What the shell has come back from when it waits and decides.
Side(P) == IF P.node = 0 THEN P.head_node ELSE Ast[P.node].left

\* The last child of P, among the processes f, is due to leave s.
LastDue(f, P, s) == P.pids # << >> /\ Due(f[P.pids[Len(P.pids)]], s)

\* The children that P is still to wait for are there, and no two the same.
Alive(f, P) ==
    P.pc \in {"exec", "cmd", "redirect", "builtin", "return", "wait"} =>
      /\ \A j \in DOMAIN P.pids : (P.pc = "wait" => P.i <= j) =>
            P.pids[j] \in Others /\ f[P.pids[j]].pc # "free"
      /\ \A j, k \in DOMAIN P.pids : j # k => P.pids[j] # P.pids[k]

\* The shell comes only to what is reached, and what it brings back, or waits
\* for, is what is promised of the node it comes from.
Returns(f, P) ==
    P.pc = "return" =>
      /\ ~ Promise[P.node].exit
      /\ IF P.pids = << >>
         THEN P.node \notin PipeLeft /\ P.ret = Promise[P.node].status /\ P.last_status = P.ret
         ELSE P.ret = 0 /\ (P.node \notin PipeLeft => LastDue(f, P, Promise[P.node].status))
Waits(f, P) ==
    P.pc = "wait" => /\ P.i \in DOMAIN P.pids /\ P.ret = 0
                     /\ LastDue(f, P, Promise[Side(P)].status)
Decides(P) ==
    P.pc = "decide" => P.last_status = Promise[Side(P)].status /\ P.ret \in {0, P.last_status}
ComesTo(P) ==
    /\ P.pc = "prompt" => P.head_node = 0
    /\ P.pc \notin {"prompt", "heredoc"} => P.head_node \in Node /\ Parent[P.head_node] = 0
    /\ P.pc \in {"exec", "cmd", "redirect", "builtin", "return"} => Reached[P.node]
    /\ P.pc = "exec" /\ P.pids # << >> => InSubshell[P.node]
    /\ P.pc \in {"cmd", "redirect", "builtin"} => P.pids = << >>
    /\ P.pc \in {"wait", "decide"} => Reached[Side(P)] /\ ~ Promise[Side(P)].exit
Answers(f, P) == /\ Underway(P) /\ Alive(f, P) /\ ComesTo(P)
                 /\ Returns(f, P) /\ Waits(f, P) /\ Decides(P)

\* All of it, as long as the shell is there.
KidsDue(f) == \A r \in Others : Underway(f[r]) /\ Equipped(f[r])
Faithful(f) == /\ f[Shell].parent = 0 /\ f[Shell].pc # "free"
               /\ ~ Gone(f[Shell]) => KidsDue(f) /\ Answers(f, f[Shell])

(***************************************************************************)
(* What the steps of a command do to the statuses.                         *)
(***************************************************************************)
\* exit(s) leaves s for who waits.
LEMMA ExitLeaves ==
    ASSUME TypeOK, NEW p \in Proc, NEW s \in 0 .. 255, Exit(p, s),
           p = Shell \/ proc[p].parent # 0
    PROVE  /\ proc'[p].pc = "zombie" /\ proc'[p].c_status = s /\ proc'[p].head_node = 0
           /\ proc'[p].parent = proc[p].parent
<1> DEFINE Z == [NoProcess EXCEPT !.pc = "zombie", !.c_status = s, !.parent = proc[p].parent]
<1>1. proc'[p] = Z
  BY DEF Exit, ExitIn
<1>2. Z.pc = "zombie" /\ Z.c_status = s /\ Z.head_node = 0 /\ Z.parent = proc[p].parent
  BY DEF NoProcess
<1> QED BY <1>1, <1>2

\* Set, seen from the process that is set.
LEMMA SetHere ==
    ASSUME TypeOK, NEW p \in Proc, NEW Q, Set(p, Q)
    PROVE  proc'[p] = Q /\ \A r \in Proc \ {p} : proc'[r] = proc[r]
BY ProcType DEF Set

\* The set-up of a child keeps $? and leaves it a descriptor to open files with.
LEMMA SetupLeaves ==
    ASSUME Ample, NEW P \in Process, P.pc = "child", Std(P), Inherited(P)
    PROVE  LET S == setup_child_process_fd_flg(P)
           IN  S.last_status = P.last_status /\ FreeFds(S) # {}
<1> DEFINE I == ConnectInput(P)
           C == Close(I, P.in_pipe_fd)
           O == ConnectOutput(C)
           S == setup_child_process_fd_flg(P)
<1>0. STDIN_FILENO \in FD /\ STDOUT_FILENO \in FD
  BY Standard DEF STDIN_FILENO, STDOUT_FILENO
<1>1. /\ I \in Process /\ OnlyFds(P, I)
      /\ FreeFds(P) \subseteq FreeFds(I)
  <2>1. CASE P.pre_in_pipe_fd = -1
    <3>1. I = P
      BY <2>1 DEF ConnectInput
    <3>2. OnlyFds(P, P)
      BY DEF OnlyFds, SameHeld, SameFlags
    <3> QED BY <3>1, <3>2
  <2>2. CASE P.pre_in_pipe_fd # -1
    <3>1. I = MoveTo(P, P.pre_in_pipe_fd, STDIN_FILENO)
      BY <2>2 DEF ConnectInput
    <3>2. /\ I \in Process /\ OnlyFds(P, I)
          /\ I.fds = [fd \in FD |->
               CASE fd = P.pre_in_pipe_fd -> Closed
                 [] fd # P.pre_in_pipe_fd /\ fd = STDIN_FILENO /\ IsOpen(P, P.pre_in_pipe_fd)
                      -> P.fds[P.pre_in_pipe_fd]
                 [] OTHER -> P.fds[fd]]
      BY <1>0, <3>1, MoveToDoes
    <3>3. P.fds[STDIN_FILENO] # Closed
      BY DEF Std, STDIN_FILENO
    <3>4. ASSUME NEW fd \in FreeFds(P) PROVE fd \in FreeFds(I)
      BY <3>2, <3>3 DEF FreeFds
    <3> QED BY <3>2, <3>4
  <2> QED BY <2>1, <2>2
<1> HIDE DEF I
<1>2. /\ C \in Process /\ OnlyFds(I, C) /\ C.fds = Refers(I, P.in_pipe_fd, Closed)
  BY <1>1, CloseDoes
<1> HIDE DEF C
<1>3. /\ C.out_pipe_fd = P.out_pipe_fd /\ C.last_status = P.last_status
      /\ I.in_pipe_fd = P.in_pipe_fd
  BY <1>1, <1>2 DEF OnlyFds, SameHeld
<1>4. C.fds \in [FD -> Desc] /\ I.fds \in [FD -> Desc]
  BY <1>1, <1>2 DEF Process
<1>5. S.fds = O.fds /\ S.last_status = O.last_status /\ O \in Process
      /\ O.last_status = P.last_status
  <2>1. S = [O EXCEPT !.is_exec_in_child_ps = TRUE]
    BY DEF setup_child_process_fd_flg, I, C
  <2>2. O = C \/ O = MoveTo(C, C.out_pipe_fd, STDOUT_FILENO)
    BY DEF ConnectOutput
  <2>3. O \in Process /\ O.last_status = P.last_status
    <3>1. MoveTo(C, C.out_pipe_fd, STDOUT_FILENO) \in Process
          /\ OnlyFds(C, MoveTo(C, C.out_pipe_fd, STDOUT_FILENO))
      BY <1>0, <1>2, MoveToDoes
    <3>2. MoveTo(C, C.out_pipe_fd, STDOUT_FILENO).last_status = C.last_status
      BY <3>1 DEF OnlyFds
    <3> HIDE DEF O
    <3> QED BY <1>2, <1>3, <2>2, <3>1, <3>2
  <2> HIDE DEF O
  <2> QED BY <2>1, <2>3 DEF Process
<1>6. CASE Unpiped(P)
  <2>1. O = C
    BY <1>3, <1>6 DEF ConnectOutput, Unpiped
  <2>2. C.fds = I.fds
    <3>1. -1 \notin FD
      BY DEF FD
    <3> QED BY <1>2, <1>4, <1>6, <3>1 DEF Unpiped, Refers
  <2>3. ~ (Cardinality(FreeFds(P)) < 2)
    BY <1>6, PipeHasRoom DEF Inherited
  <2>4. FreeFds(P) # {}
    BY <2>3, FS_EmptySet
  <2>5. FreeFds(S) = FreeFds(I)
    BY <1>5, <2>1, <2>2 DEF FreeFds
  <2> QED BY <1>1, <1>5, <2>4, <2>5
<1>7. CASE Piped(P)
  <2> DEFINE k == P.in_pipe_fd
  <2>1. k \in FD /\ k # STDOUT_FILENO
    <3>1. k \in Num /\ k # -1
      BY <1>7 DEF Std, Piped
    <3>2. k \in FD /\ k > 2
      BY <3>1, NumIs
    <3> QED BY <3>2, Standard DEF STDOUT_FILENO, FD
  <2>2. C.fds[k] = Closed
    BY <1>2, <1>4, <2>1 DEF Refers
  <2>3. O = MoveTo(C, C.out_pipe_fd, STDOUT_FILENO)
    BY <1>3, <1>7 DEF ConnectOutput, Piped
  <2> HIDE DEF O
  <2>4. O.fds[k] = Closed
    <3>1. O.fds = [fd \in FD |->
               CASE fd = C.out_pipe_fd -> Closed
                 [] fd # C.out_pipe_fd /\ fd = STDOUT_FILENO /\ IsOpen(C, C.out_pipe_fd)
                      -> C.fds[C.out_pipe_fd]
                 [] OTHER -> C.fds[fd]]
      BY <1>0, <1>2, <2>3, MoveToDoes
    <3> HIDE DEF k
    <3> QED BY <2>1, <2>2, <3>1
  <2>5. k \in FreeFds(S)
    BY <1>5, <2>1, <2>4 DEF FreeFds
  <2> QED BY <1>5, <2>5
<1> QED BY <1>6, <1>7 DEF Inherited

\* Without heredocs exec_cmd goes straight on from the expansion.
LEMMA CmdStep ==
    ASSUME TypeOK, NEW p \in Proc, exec_cmd(p) \/ exec_cmd_with_heredoc(p),
           proc[p].fd_num = NoHeredocs
    PROVE  /\ proc[p].pc = "cmd" /\ proc[p].node \in Node
           /\ Ast[proc[p].node].kind = "ND_CMD" /\ AfterExpansion(p, proc[p])
<1> DEFINE P == proc[p]
<1>1. P.pc = "cmd" /\ P.node \in Node /\ Ast[P.node].kind = "ND_CMD"
  BY exec_cmdDoes
<1>2. ~ HasHeredoc(P)
  <2>1. Ast[P.node].left # 0 => Ast[P.node].left \in RedirectNode
    BY <1>1, NodeShape
  <2> QED BY <2>1 DEF HasHeredoc, NoHeredocs
<1> QED BY <1>1, <1>2 DEF exec_cmd, exec_cmd_with_heredoc

\* run_builtin and execve begin with $? and the children as they are.
LEMMA LaunchKeeps ==
    ASSUME NEW P \in Process
    PROVE  LET L == Launch(P)
           IN  L.last_status = P.last_status /\ L.pids = P.pids /\ L.parent = P.parent
BY DEF Launch, Process
\* A redirect keeps the descriptors that are free, and what standard output
\* refers to, unless it makes it a file.
LEMMA RedirectLeaves ==
    ASSUME NEW P \in Process, Std(P), Operator(P).op # "<<"
    PROVE  LET A == Applied(P)
           IN  FreeFds(A) = FreeFds(P) /\ A.fds[STDOUT_FILENO] \in {P.fds[STDOUT_FILENO], File}
<1> DEFINE A == Applied(P)
           std == IF Operator(P).op = "<" THEN STDIN_FILENO ELSE STDOUT_FILENO
<1>1. A.fds = IF Opens(P) THEN Refers(P, std, File) ELSE P.fds
  BY AppliedDoes
<1>2. std \in FD /\ P.fds[std] # Closed
  BY Standard DEF Std, STDIN_FILENO, STDOUT_FILENO
<1>3. P.fds \in [FD -> Desc]
  BY DEF Process
<1>4. File # Closed
  BY DEF File, Closed
<1>5. STDOUT_FILENO \in FD
  BY Standard DEF STDOUT_FILENO
<1> HIDE DEF A, std
<1>6. ASSUME NEW fd \in FD PROVE A.fds[fd] = Closed <=> P.fds[fd] = Closed
  BY <1>1, <1>2, <1>3, <1>4 DEF Refers
<1> QED BY <1>1, <1>3, <1>5, <1>6 DEF FreeFds, Refers, A

\* One turn of apply_redirects: a file that does not open ends the command with
\* status 1, the last that opens starts it.
LEMMA RedirectStep ==
    ASSUME Tidy, TypeOK, NEW p \in Proc, apply_redirects(p), Listed(proc[p]), Std(proc[p]),
           FreeFds(proc[p]) # {}, Underway(proc[p]),
           proc[p].i \in DOMAIN Ast[ListOf(proc[p])].redirects
    PROVE  LET P == proc[p]
               n == P.node
               A == Applied(P)
               list == Ast[n].kind = "ND_REDIRECTS"
           IN  /\ P.pc = "redirect" /\ n \in Node /\ Ast[n].kind \in {"ND_CMD", "ND_REDIRECTS"}
               /\ A \in Process /\ SameStep(P, A) /\ SameFlags(P, A)
               /\ Operator(P).op # "<<"
               /\ \/ ~ AllOpened(n) /\ P.is_exec_in_child_ps /\ Exit(p, EXIT_FAILURE)
                  \/ /\ ~ AllOpened(n) /\ ~ P.is_exec_in_child_ps /\ A.last_status = EXIT_FAILURE
                     /\ Set(p, Return(IF list THEN restore_std_fds(A) ELSE A, EXIT_FAILURE))
                  \/ /\ A.last_status = 0 /\ Opened(n, P.i + 1)
                     /\ Set(p, [A EXCEPT !.i = P.i + 1])
                  \/ /\ A.last_status = 0 /\ AllOpened(n)
                     /\ Set(p, IF list THEN Return(restore_std_fds(A), 0) ELSE Launch(A))
<1> DEFINE P == proc[p]
           n == P.node
           A == Applied(P)
           l == ListOf(P)
           rs == Ast[l].redirects
           r == rs[P.i]
           list == Ast[n].kind = "ND_REDIRECTS"
<1>1. P \in Process /\ P.pc = "redirect"
  BY Here DEF apply_redirects
<1>2. /\ n \in Node /\ Ast[n].kind \in {"ND_CMD", "ND_REDIRECTS"}
      /\ Ast[n].kind = "ND_CMD" => Ast[n].left # 0
  BY <1>1 DEF Listed
<1>3. l \in RedirectNode
  BY <1>1, <1>2, ListIs
<1>4. RedirectsOf(n) = rs
  BY <1>2 DEF RedirectsOf, ListOf
<1>5. r.op # "<<" /\ Operator(P) = r
  BY <1>3 DEF Tidy, HeredocOps, Operator
<1>6. A \in Process /\ SameStep(P, A) /\ SameFlags(P, A)
  BY <1>1, AppliedDoes
<1>7. A.last_status = IF r.file = "ok" THEN 0 ELSE EXIT_FAILURE
  BY <1>1, <1>5, AppliedDoes DEF Opens
<1>8. /\ rs \in Seq(Redirect) /\ P.i \in 1 .. Len(rs) /\ Len(rs) \in Nat
  BY <1>3, NodeShape DEF RedirectNode
<1>9. r.file # "ok" => ~ AllOpened(n)
  BY <1>4 DEF AllOpened
<1>10. Opened(n, P.i)
  BY <1>1 DEF Underway
<1>11. ASSUME r.file = "ok"
       PROVE  Opened(n, P.i + 1) /\ (P.i = Len(rs) => AllOpened(n))
  <2>1. \A i \in DOMAIN rs : i < P.i + 1 => rs[i].file = "ok"
    <3>1. SUFFICES ASSUME NEW i \in DOMAIN rs, i < P.i + 1 PROVE rs[i].file = "ok"
      OBVIOUS
    <3>2. i < P.i \/ i = P.i
      BY <1>8, <3>1
    <3> QED BY <1>4, <1>10, <1>11, <3>1, <3>2 DEF Opened
  <2>2. P.i = Len(rs) => \A i \in DOMAIN rs : i < P.i + 1
    BY <1>8
  <2> QED BY <1>4, <2>1, <2>2 DEF Opened, AllOpened
<1>12. IF A.last_status # 0 /\ P.is_exec_in_child_ps
       THEN Exit(p, EXIT_FAILURE)
       ELSE Set(p, IF A.last_status # 0 \/ P.i = Len(rs)
                   THEN AfterRedirects(A) ELSE [A EXCEPT !.i = P.i + 1])
  <2>1. A = IF r.op = "<<" THEN redirect_here_doc(P, l) ELSE redirect_file(P, r)
    BY DEF Applied, Operator
  <2> QED BY <1>5, <2>1 DEF apply_redirects, ListOf
<1>13. A.node = n /\ A.is_exec_in_child_ps = P.is_exec_in_child_ps
  BY <1>6 DEF SameStep, SameFlags
<1> HIDE DEF A, l, rs, r
<1>14. AfterRedirects(A) =
         IF list THEN Return(restore_std_fds(A), A.last_status)
         ELSE IF A.last_status # 0
              THEN Return(A, IF P.is_exec_in_child_ps THEN 0 ELSE EXIT_FAILURE)
              ELSE Launch(A)
  BY <1>13 DEF AfterRedirects
<1>15. EXIT_FAILURE # 0
  BY DEF EXIT_FAILURE
<1> HIDE DEF n, P
<1>16. CASE r.file # "ok" /\ P.is_exec_in_child_ps
  BY <1>1, <1>2, <1>5, <1>6, <1>7, <1>9, <1>12, <1>15, <1>16 DEF P, n, A
<1>17. CASE r.file # "ok" /\ ~ P.is_exec_in_child_ps
  <2>1. AfterRedirects(A) = Return(IF list THEN restore_std_fds(A) ELSE A, EXIT_FAILURE)
    BY <1>7, <1>14, <1>15, <1>17
  <2>2. Set(p, Return(IF list THEN restore_std_fds(A) ELSE A, EXIT_FAILURE))
    BY <1>7, <1>12, <1>15, <1>17, <2>1
  <2> QED BY <1>1, <1>2, <1>5, <1>6, <1>7, <1>9, <1>17, <2>2 DEF P, n, A
<1>18. CASE r.file = "ok" /\ P.i # Len(rs)
  BY <1>1, <1>2, <1>5, <1>6, <1>7, <1>11, <1>12, <1>18 DEF P, n, A
<1>19. CASE r.file = "ok" /\ P.i = Len(rs)
  <2>1. Set(p, IF list THEN Return(restore_std_fds(A), 0) ELSE Launch(A))
    BY <1>7, <1>12, <1>14, <1>19
  <2> QED BY <1>1, <1>2, <1>5, <1>6, <1>7, <1>11, <1>19, <2>1 DEF P, n, A
<1> QED BY <1>16, <1>17, <1>18, <1>19

(***************************************************************************)
(* The children.                                                           *)
(***************************************************************************)
\* What a step of R makes of it: it ends with the status promised of its node,
\* unless a SIGPIPE may have ended it, or it is still underway.
Turns(R, S) ==
    \/ S.pc = "zombie" /\ (R.node \notin PipeLeft => S.c_status = Promise[R.node].status)
    \/ ~ Gone(S) /\ S.node = R.node /\ Underway(S) /\ Equipped(S)

\* A child sets itself up.
LEMMA SetupTurns ==
    ASSUME Ample, Standing, NEW r \in Others, ChildSetup(r), Underway(proc[r]), Equipped(proc[r])
    PROVE  Turns(proc[r], proc'[r])
<1> DEFINE P == proc[r]
           Q == proc'[r]
           S == setup_child_process_fd_flg(P)
<1>1. TypeOK /\ r \in Proc
  BY DEF Standing, Others
<1>2. /\ P.pc = "child" /\ P.node \in Node /\ Ast[P.node].kind = "ND_CMD"
      /\ At(Q, "cmd", P.node) /\ Q.fds = S.fds
  BY <1>1, ChildSetupDoes
<1>3. P \in Process /\ Std(P) /\ Inherited(P)
  BY <1>1, <1>2, Here DEF Standing, Sound, Steady, Gone, Tree, Tied
<1>4. S.last_status = P.last_status /\ FreeFds(S) # {}
  BY <1>2, <1>3, SetupLeaves
<1>5. S.fds[1] = Out(P)
  BY <1>2, <1>3, SetupTies
<1>6. Q.last_status = P.last_status
  <2>1. Q = [S EXCEPT !.pc = "cmd"]
    BY <1>1, SetHere DEF ChildSetup
  <2>2. S \in Process
    BY <1>3, SetupType
  <2> HIDE DEF S
  <2> QED BY <1>4, <2>1, <2>2 DEF Process
<1> HIDE DEF S
<1>7. ~ Gone(Q) /\ Q.node = P.node /\ Q.pc = "cmd"
  BY <1>2 DEF At, Gone
<1>8. Underway(Q)
  BY <1>2, <1>6, <1>7 DEF Underway
<1>9. FreeFds(Q) # {}
  BY <1>2, <1>4 DEF FreeFds
<1>10. Q.node \notin PipeLeft => Out(Q) \in {Tty, File}
  BY <1>2, <1>5, <1>7 DEF Equipped, Gone, Out, STDOUT_FILENO
<1> QED BY <1>7, <1>8, <1>9, <1>10 DEF Turns, Equipped

\* A child expands its words: nothing is left of them and it ends with 127, or
\* it goes on to its redirects or its program.
LEMMA CmdTurns ==
    ASSUME Standing, NEW r \in Others, exec_cmd(r) \/ exec_cmd_with_heredoc(r),
           proc[r].parent # 0, Underway(proc[r]), Equipped(proc[r])
    PROVE  Turns(proc[r], proc'[r])
<1> DEFINE P == proc[r]
           Q == proc'[r]
           n == P.node
           c == Ast[n].cmd
           M == [P EXCEPT !.pc = "redirect", !.i = 1]
<1>1. TypeOK /\ r \in Proc /\ P \in Process
  BY Here DEF Standing, Others
<1>2. P.pc = "cmd" /\ n \in Node /\ Ast[n].kind = "ND_CMD"
  BY <1>1, exec_cmdDoes
<1>3. Settled(P) /\ P.is_exec_in_child_ps
  BY <1>2 DEF Standing, Tree, Tied, Kid, Gone
<1>4. AfterExpansion(r, P)
  BY <1>1, <1>3, CmdStep DEF Settled
<1>5. FreeFds(P) # {} /\ (n \notin PipeLeft => P.fds[1] \in {Tty, File})
  BY <1>2 DEF Equipped, Gone, Out, STDOUT_FILENO
<1>6. ASSUME Q.node = n, Q.pc \in {"redirect", "builtin", "program"}, Q.fds = P.fds, Underway(Q)
      PROVE  Turns(P, Q)
  BY <1>5, <1>6 DEF Turns, Gone, Equipped, Out, FreeFds, STDOUT_FILENO
<1>7. CASE c.word = "empty"
  <2>1. Exit(r, 127) /\ 127 \in 0 .. 255
    BY <1>3, <1>4, <1>7 DEF AfterExpansion
  <2>2. Q.pc = "zombie" /\ Q.c_status = 127
    BY <1>1, <2>1, ExitLeaves
  <2>3. Promise[n].status = 127
    BY <1>2, <1>7, CommandIs
  <2> QED BY <2>2, <2>3 DEF Turns
<1>8. CASE c.word # "empty" /\ Ast[n].left # 0
  <2>1. Q = M
    <3>1. Set(r, M)
      BY <1>4, <1>8 DEF AfterExpansion
    <3> QED BY <1>1, <3>1, SetHere
  <2>2. M.pc = "redirect" /\ M.node = n /\ M.i = 1 /\ M.fds = P.fds
        /\ M.last_status = P.last_status
    BY <1>1 DEF Process
  <2> HIDE DEF M
  <2>3. Opened(n, 1)
    <3>1. \A i \in DOMAIN RedirectsOf(n) : ~ (i < 1)
      <4>1. RedirectsOf(n) \in Seq(Redirect)
        BY <1>2, <1>8, NodeShape DEF RedirectsOf, RedirectNode
      <4> QED BY <4>1
    <3> QED BY <3>1 DEF Opened
  <2>4. Underway(Q)
    BY <1>2, <1>8, <2>1, <2>2, <2>3 DEF Underway
  <2> QED BY <1>6, <2>1, <2>2, <2>4
<1>9. CASE c.word # "empty" /\ Ast[n].left = 0
  <2>1. Q = Launch(P)
    <3>1. Set(r, Launch(P))
      BY <1>4, <1>9 DEF AfterExpansion
    <3> QED BY <1>1, <3>1, SetHere
  <2>2. /\ Q.node = n /\ Q.pc \in {"builtin", "program"} /\ Q.fds = P.fds
        /\ Q.last_status = P.last_status
    BY <1>1, <2>1, LaunchDoes, LaunchKeeps DEF SameFiles
  <2>3. AllOpened(n)
    BY <1>2, <1>9 DEF AllOpened, RedirectsOf
  <2>4. Underway(Q)
    BY <1>2, <1>9, <2>2, <2>3 DEF Underway
  <2> QED BY <1>6, <2>2, <2>4
<1> QED BY <1>7, <1>8, <1>9
\* A child applies a redirect: one that does not open ends it with 1, the
\* last one starts the program.
LEMMA RedirectTurns ==
    ASSUME Tidy, Standing, NEW r \in Others, apply_redirects(r),
           proc[r].parent # 0, Underway(proc[r]), Equipped(proc[r])
    PROVE  Turns(proc[r], proc'[r])
<1> DEFINE P == proc[r]
           Q == proc'[r]
           n == P.node
           c == Ast[n].cmd
           A == Applied(P)
           M == [A EXCEPT !.i = P.i + 1]
<1>1. TypeOK /\ r \in Proc /\ P \in Process
  BY Here DEF Standing, Others
<1>2. P.pc = "redirect"
  BY DEF apply_redirects
<1>3. /\ Std(P) /\ Listed(P) /\ P.is_exec_in_child_ps /\ Ast[n].kind = "ND_CMD"
      /\ P.i \in DOMAIN Ast[ListOf(P)].redirects
  BY <1>1, <1>2 DEF Standing, Sound, Steady, Tree, Tied, Kid, Gone
<1>4. FreeFds(P) # {} /\ (n \notin PipeLeft => P.fds[STDOUT_FILENO] \in {Tty, File})
  BY <1>2 DEF Equipped, Gone, Out
<1>5. /\ n \in Node /\ A \in Process /\ A.node = n /\ A.pc = "redirect" /\ Operator(P).op # "<<"
      /\ \/ ~ AllOpened(n) /\ Exit(r, EXIT_FAILURE)
         \/ A.last_status = 0 /\ Opened(n, P.i + 1) /\ Set(r, M)
         \/ A.last_status = 0 /\ AllOpened(n) /\ Set(r, Launch(A))
  BY <1>1, <1>2, <1>3, <1>4, RedirectStep DEF SameStep
<1>6. FreeFds(A) = FreeFds(P) /\ A.fds[STDOUT_FILENO] \in {P.fds[STDOUT_FILENO], File}
  BY <1>1, <1>3, <1>5, RedirectLeaves
<1>7. c.word # "empty"
  BY <1>2, <1>3 DEF Underway
<1> HIDE DEF A
<1>8. ASSUME Q.node = n, Q.pc \in {"redirect", "builtin", "program"}, Q.fds = A.fds, Underway(Q)
      PROVE  Turns(P, Q)
  BY <1>4, <1>6, <1>8 DEF Turns, Gone, Equipped, Out, FreeFds
<1>9. CASE ~ AllOpened(n) /\ Exit(r, EXIT_FAILURE)
  <2>1. Q.pc = "zombie" /\ Q.c_status = EXIT_FAILURE
    BY <1>1, <1>9, ExitLeaves, Null
  <2>2. Promise[n].status = 1
    BY <1>3, <1>5, <1>7, <1>9, CommandIs
  <2> QED BY <2>1, <2>2 DEF Turns, EXIT_FAILURE
<1>10. CASE A.last_status = 0 /\ Opened(n, P.i + 1) /\ Set(r, M)
  <2>1. /\ Q = M /\ M.pc = "redirect" /\ M.node = n /\ M.i = P.i + 1 /\ M.fds = A.fds
        /\ M.last_status = 0
    <3>1. Q = M
      BY <1>1, <1>10, SetHere
    <3> QED BY <1>5, <1>10, <3>1 DEF Process
  <2> HIDE DEF M
  <2>2. Underway(Q)
    BY <1>7, <1>10, <2>1 DEF Underway
  <2> QED BY <1>8, <2>1, <2>2
<1>11. CASE A.last_status = 0 /\ AllOpened(n) /\ Set(r, Launch(A))
  <2>1. Q = Launch(A)
    BY <1>1, <1>11, SetHere
  <2>2. /\ Q.node = n /\ Q.pc \in {"builtin", "program"} /\ Q.fds = A.fds /\ Q.last_status = 0
    BY <1>5, <1>11, <2>1, LaunchDoes, LaunchKeeps DEF SameFiles
  <2>3. Underway(Q)
    BY <1>7, <1>11, <2>2 DEF Underway
  <2> QED BY <1>8, <2>2, <2>3
<1> QED BY <1>5, <1>9, <1>10, <1>11

\* What a builtin returns is what is promised of its node.
LEMMA BuiltinLeaves ==
    ASSUME NEW P \in Process, P.node \in Node, Ast[P.node].kind = "ND_CMD", P.pc = "builtin",
           Underway(P)
    PROVE  BuiltinStatus(P) = Promise[P.node].status /\ BuiltinStatus(P) \in 0 .. 255
<1>1. Ast[P.node].cmd.word # "empty" /\ AllOpened(P.node)
      /\ (Ast[P.node].cmd.status = Stale => P.last_status = 0)
  BY DEF Underway
<1>2. Promise[P.node].status =
        IF Ast[P.node].cmd.status = Stale THEN 0 ELSE Ast[P.node].cmd.status
  BY <1>1, CommandIs
<1>3. BuiltinStatus(P) = Promise[P.node].status
  BY <1>1, <1>2 DEF BuiltinStatus
<1>4. BuiltinStatus(P) \in 0 .. 255
  BY NodeShape DEF BuiltinStatus, Process
<1> QED BY <1>3, <1>4

\* A builtin ends a child with what it returns.
LEMMA BuiltinTurns ==
    ASSUME Standing, NEW r \in Others, run_builtin(r), proc[r].parent # 0, Underway(proc[r])
    PROVE  Turns(proc[r], proc'[r])
<1> DEFINE P == proc[r]
           s == BuiltinStatus(P)
<1>1. TypeOK /\ r \in Proc /\ P \in Process /\ AtItsNode(P)
  BY Here DEF Standing, Others
<1>2. P.pc = "builtin"
  BY DEF run_builtin
<1>3. P.is_exec_in_child_ps /\ P.node \in Node /\ Ast[P.node].kind = "ND_CMD"
  BY <1>1, <1>2 DEF Standing, Tree, Kid, AtItsNode
<1>4. s = Promise[P.node].status /\ s \in 0 .. 255
  BY <1>1, <1>2, <1>3, BuiltinLeaves
<1>5. Exit(r, s)
  BY <1>3 DEF run_builtin
<1> HIDE DEF s
<1> QED BY <1>1, <1>4, <1>5, ExitLeaves DEF Turns

\* A program reads and writes until it ends with its own status, or with the
\* SIGPIPE of a pipe that nobody reads.
LEMMA RunTurns ==
    ASSUME Standing, NEW r \in Others, RunsOn(r), proc[r].parent # 0,
           Underway(proc[r]), Equipped(proc[r])
    PROVE  Turns(proc[r], proc'[r])
<1> DEFINE P == proc[r]
           Q == proc'[r]
           n == P.node
<1>1. TypeOK /\ r \in Proc /\ P \in Process /\ AtItsNode(P)
  BY Here DEF Standing, Others
<1>2. P.pc \in {"program", "builtin"}
  BY <1>1, RunsOnDoes
<1>3. n \in Node /\ Ast[n].kind = "ND_CMD" /\ (P.pc = "program" => Ast[n].cmd.word # "builtin")
  BY <1>1, <1>2 DEF AtItsNode
<1>4. Ast[n].cmd.word # "empty" /\ AllOpened(n)
  BY <1>2 DEF Underway
<1>5. FreeFds(P) # {} /\ (n \notin PipeLeft => P.fds[STDOUT_FILENO] \in {Tty, File})
  BY <1>2 DEF Equipped, Gone, Out
<1>6. ASSUME NEW t, NEW e, Set(r, [P EXCEPT !.todo = t, !.eof = e]) PROVE Turns(P, Q)
  <2> DEFINE M == [P EXCEPT !.todo = t, !.eof = e]
  <2>1. /\ Q = M /\ M.pc = P.pc /\ M.node = n /\ M.fds = P.fds /\ M.last_status = P.last_status
    <3>1. Q = M
      BY <1>1, <1>6, SetHere
    <3> QED BY <1>1, <3>1 DEF Process
  <2> HIDE DEF M
  <2>2. Underway(Q)
    BY <1>2, <2>1 DEF Underway
  <2> QED BY <1>2, <1>5, <2>1, <2>2 DEF Turns, Gone, Equipped, Out, FreeFds
<1>7. ASSUME NEW t, Set(r, [P EXCEPT !.todo = t]) PROVE Turns(P, Q)
  <2>1. [P EXCEPT !.todo = t] = [P EXCEPT !.todo = t, !.eof = P.eof]
    BY <1>1 DEF Process
  <2> QED BY <1>6, <1>7, <2>1
<1>8. ASSUME NEW e, Set(r, [P EXCEPT !.eof = e]) PROVE Turns(P, Q)
  <2>1. [P EXCEPT !.eof = e] = [P EXCEPT !.todo = P.todo, !.eof = e]
    BY <1>1 DEF Process
  <2> QED BY <1>6, <1>8, <2>1
<1>9. CASE Write(r)
  <2> DEFINE out == P.fds[STDOUT_FILENO]
  <2>1. \/ Set(r, [P EXCEPT !.todo = P.todo - 1])
        \/ out[1] = "w" /\ Exit(r, 128 + SIGPIPE)
    BY <1>9 DEF Write
  <2>2. CASE Set(r, [P EXCEPT !.todo = P.todo - 1])
    BY <1>7, <2>2
  <2>3. CASE out[1] = "w" /\ Exit(r, 128 + SIGPIPE)
    <3>1. n \in PipeLeft
      BY <1>5, <2>3 DEF Tty, File
    <3>2. 128 + SIGPIPE \in 0 .. 255
      BY DEF SIGPIPE
    <3>3. Q.pc = "zombie"
      BY <1>1, <2>3, <3>2, ExitLeaves
    <3> QED BY <3>1, <3>3 DEF Turns
  <2> QED BY <2>1, <2>2, <2>3
<1>10. CASE Read(r)
  <2>1. Set(r, [P EXCEPT !.todo = IF Ast[n].cmd.copies THEN 1 ELSE 0])
    BY <1>10 DEF Read
  <2> QED BY <1>7, <2>1
<1>11. CASE ReadEof(r)
  <2>1. Set(r, [P EXCEPT !.eof = TRUE])
    BY <1>11 DEF ReadEof
  <2> QED BY <1>8, <2>1
<1>12. CASE ProgramExit(r)
  <2>1. P.pc = "program" /\ Exit(r, Ast[n].cmd.status)
    BY <1>12 DEF ProgramExit
  <2>2. Ast[n].cmd.status \in 0 .. 255 /\ Ast[n].cmd.status # Stale
    <3>1. Ast[n].cmd.word # "builtin"
      BY <1>3, <2>1
    <3> QED BY <1>3, <3>1, NodeShape, AstAssumption DEF WellFormed
  <2>3. Promise[n].status = Ast[n].cmd.status
    BY <1>3, <1>4, <2>2, CommandIs
  <2> QED BY <1>1, <2>1, <2>2, <2>3, ExitLeaves DEF Turns
<1> QED BY <1>9, <1>10, <1>11, <1>12 DEF RunsOn

\* Whatever a child does, it leaves what is promised of its node.
LEMMA KidTurns ==
    ASSUME Tidy, Ample, Standing, NEW r \in Others, Works(r), proc[r].parent # 0,
           Underway(proc[r]), Equipped(proc[r])
    PROVE  Turns(proc[r], proc'[r])
BY SetupTurns, CmdTurns, RedirectTurns, BuiltinTurns, RunTurns DEF Works

(***************************************************************************)
(* The shell: down the tree.                                               *)
(***************************************************************************)
\* The shell is there, and all of the above holds.
Serving == Standing /\ Faithful(proc) /\ ~ Gone(proc[Shell])

\* What that says of the shell.
LEMMA ServingShell ==
    ASSUME Serving
    PROVE  LET P == proc[Shell]
           IN  /\ TypeOK /\ Shell \in Proc /\ P \in Process /\ AtItsNode(P)
               /\ P.pids \in Seq(Proc \cup {0})
               /\ ShellRuns(P) /\ ShellAt(P) /\ Listed(P) /\ Std(P) /\ Wires(P)
               /\ Outside(P) /\ Few(P) /\ Flags(P)
               /\ Underway(P) /\ Alive(proc, P) /\ ComesTo(P)
               /\ Returns(proc, P) /\ Waits(proc, P) /\ Decides(P)
<1>1. TypeOK /\ Shell \in Proc
  BY BoundsAssumption DEF Serving, Standing, Shell, Proc
<1>2. proc[Shell] \in Process /\ AtItsNode(proc[Shell])
  BY <1>1, Here
<1>3. proc[Shell].pids \in Seq(Proc \cup {0})
  BY <1>2 DEF Process
<1>4. Std(proc[Shell]) /\ Wires(proc[Shell])
  BY <1>1 DEF Serving, Standing, Sound, Steady, Wired
<1>5. Listed(proc[Shell])
  BY <1>1 DEF Serving, Standing, Sound
<1> QED BY <1>1, <1>2, <1>3, <1>4, <1>5 DEF Serving, Standing, Sound, Faithful, Answers

\* The shell is in the tree of its line.
Headed(P) == P.head_node \in Node /\ Parent[P.head_node] = 0

\* Away from the prompt it always is.
LEMMA IsHeaded ==
    ASSUME Serving, proc[Shell].pc \notin {"prompt", "heredoc"}
    PROVE  Headed(proc[Shell])
BY ServingShell DEF ComesTo, Headed

\* Children that are let alone stay there to be waited for,
LEMMA AliveKept ==
    ASSUME NEW f, NEW g, NEW P, NEW Q, Alive(f, P), Q.pids = P.pids,
           P.pc \in {"exec", "cmd", "redirect", "builtin", "return"},
           \A r \in Others : g[r] = f[r]
    PROVE  Alive(g, Q)
BY DEF Alive

\* and no children are no concern.
LEMMA NoneAlive ==
    ASSUME NEW g, NEW Q, Q.pids = << >>
    PROVE  Alive(g, Q)
<1>1. DOMAIN Q.pids = {}
  OBVIOUS
<1> QED BY <1>1 DEF Alive

\* What is to be shown where the shell begins a node,
LEMMA BeginsNode ==
    ASSUME NEW g, NEW Q, Q.pc = "exec", Headed(Q), Alive(g, Q), Reached[Q.node],
           Q.pids # << >> => InSubshell[Q.node],
           Ast[Q.node].kind = "ND_CMD" /\ Ast[Q.node].cmd.status = Stale => Q.last_status = 0
    PROVE  Answers(g, Q)
BY DEF Answers, Underway, ComesTo, Headed, Returns, Waits, Decides

\* and where it comes back from one without children.
LEMMA BringsBack ==
    ASSUME NEW g, NEW Q, Q.pc = "return", Headed(Q), Reached[Q.node], Q.pids = << >>,
           Q.node \notin PipeLeft, ~ Promise[Q.node].exit,
           Q.ret = Promise[Q.node].status, Q.last_status = Q.ret
    PROVE  Answers(g, Q)
BY NoneAlive DEF Answers, Underway, ComesTo, Headed, Returns, Waits, Decides

\* unset is not the first command of a line, nor of a side but that of a &&.
LEMMA NotStale ==
    ASSUME Definite, NEW n \in Node, ~ AfterAnd(n)
    PROVE  ~ (Ast[n].kind = "ND_CMD" /\ Ast[n].cmd.status = Stale)
BY DEF Definite

\* The line begins at its root.
LEMMA RootAnswers ==
    ASSUME Definite, Serving, HeredocsRead(Shell)
    PROVE  Answers(proc', proc'[Shell])
<1> DEFINE P == proc[Shell]
           Q == proc'[Shell]
           Y == [P EXCEPT !.pc = "exec", !.head_node = P.node]
<1>1. P \in Process /\ AtItsNode(P) /\ ShellRuns(P) /\ Few(P) /\ TypeOK /\ Shell \in Proc
  BY ServingShell
<1>2. P.pc = "heredoc" /\ Q = Y
  BY <1>1, SetHere DEF HeredocsRead
<1>3. Y.pc = "exec" /\ Y.node = P.node /\ Y.head_node = P.node /\ Y.pids = P.pids
  BY <1>1 DEF Process
<1> HIDE DEF Y
<1>4. P.node \in Node /\ Parent[P.node] = 0 /\ P.pids = << >>
  BY <1>1, <1>2 DEF AtItsNode, ShellRuns, Few
<1>5. Reached[P.node]
  BY <1>4, ReachedDef
<1>6. ~ AfterAnd(P.node)
  BY <1>4 DEF AfterAnd
<1>7. ~ (Ast[P.node].kind = "ND_CMD" /\ Ast[P.node].cmd.status = Stale)
  BY <1>4, <1>6, NotStale
<1>8. Alive(proc', Q) /\ Headed(Q)
  BY <1>2, <1>3, <1>4, NoneAlive DEF Headed
<1> QED BY <1>2, <1>3, <1>4, <1>5, <1>7, <1>8, BeginsNode

\* The shell goes on to the left side of a node.
LEMMA LeftAnswers ==
    ASSUME Definite, Serving, ~ Gone(proc'[Shell]),
           exec_pipe(Shell) \/ exec_logical(Shell) \/ exec_round_brackets(Shell)
    PROVE  Answers(proc', proc'[Shell])
<1> DEFINE P == proc[Shell]
           Q == proc'[Shell]
           m == P.node
           l == Ast[m].left
<1>1. P \in Process /\ TypeOK /\ Shell \in Proc /\ Alive(proc, P) /\ ComesTo(P)
  BY ServingShell
<1>2. /\ P.pc = "exec" /\ m \in Node
      /\ Ast[m].kind \in {"ND_PIPE", "ND_AND_OP", "ND_OR_OP", "ND_RND_BRACKET"}
  BY <1>1, exec_pipeDoes, exec_logicalDoes, exec_round_bracketsDoes
<1>3. /\ Q.pc = "exec" /\ Q.node = l /\ Q.pids = P.pids /\ Q.head_node = P.head_node
      /\ \A s \in Others : proc'[s] = proc[s]
  <2>1. ASSUME NEW Y, Set(Shell, Y), Y.pc = "exec", Y.node = l, Y.pids = P.pids,
               Y.head_node = P.head_node
        PROVE  /\ Q.pc = "exec" /\ Q.node = l /\ Q.pids = P.pids /\ Q.head_node = P.head_node
               /\ \A s \in Others : proc'[s] = proc[s]
    BY <1>1, <2>1, SetHere DEF Others
  <2>2. CASE exec_pipe(Shell)
    <3> DEFINE r == NthFree(P, 1)
               w == NthFree(P, 2)
               h == [P.fds EXCEPT ![r] = ReadEnd(NewPipe), ![w] = WriteEnd(NewPipe)]
               Y == [P EXCEPT !.fds = h, !.is_exec_in_child_ps = TRUE,
                              !.in_pipe_fd = r, !.out_pipe_fd = w, !.node = Ast[m].left]
    <3>1. ~ (Cardinality(FreeFds(P)) < 2)
      <4>1. SUFFICES ASSUME Cardinality(FreeFds(P)) < 2 PROVE FALSE
        OBVIOUS
      <4>2. Exit(Shell, EXIT_FAILURE)
        BY <2>2, <4>1 DEF exec_pipe
      <4> QED BY <1>1, <4>2, ExitLeaves, Null DEF Gone
    <3>2. Set(Shell, Y)
      BY <2>2, <3>1 DEF exec_pipe
    <3> HIDE DEF r, w, h
    <3>3. Y.pc = "exec" /\ Y.node = l /\ Y.pids = P.pids /\ Y.head_node = P.head_node
      BY <1>1, <1>2 DEF Process
    <3> HIDE DEF Y
    <3> QED BY <2>1, <3>2, <3>3
  <2>3. CASE exec_logical(Shell)
    <3> DEFINE Y == [P EXCEPT !.node = Ast[m].left]
    <3>1. Set(Shell, Y)
      BY <2>3 DEF exec_logical
    <3>2. Y.pc = "exec" /\ Y.node = l /\ Y.pids = P.pids /\ Y.head_node = P.head_node
      BY <1>1, <1>2 DEF Process
    <3> HIDE DEF Y
    <3> QED BY <2>1, <3>1, <3>2
  <2>4. CASE exec_round_brackets(Shell)
    <3> DEFINE Y == [P EXCEPT !.is_exec_in_child_ps = TRUE, !.is_in_round_bracket = TRUE,
                              !.node = Ast[m].left]
    <3>1. Set(Shell, Y)
      BY <2>4 DEF exec_round_brackets
    <3>2. Y.pc = "exec" /\ Y.node = l /\ Y.pids = P.pids /\ Y.head_node = P.head_node
      BY <1>1, <1>2 DEF Process
    <3> HIDE DEF Y
    <3> QED BY <2>1, <3>1, <3>2
  <2> QED BY <2>2, <2>3, <2>4
<1>4. l \in Node /\ Parent[l] = m /\ l # 0
  <2>1. l \in Node /\ Parent[l] = m
    BY <1>2, LeftIs
  <2> QED BY <2>1, Nodes
<1>5. Reached[l]
  BY <1>1, <1>2, <1>4, ReachedStep DEF ComesTo
<1>6. InSubshell[m] => InSubshell[l]
  BY <1>2, <1>4, ChildIsIn
<1>7. ~ AfterAnd(l)
  <2>1. Ast[m].right # 0 => Ast[m].left # Ast[m].right
    BY <1>2, RightIs
  <2> QED BY <1>4, <2>1 DEF AfterAnd
<1>8. ~ (Ast[l].kind = "ND_CMD" /\ Ast[l].cmd.status = Stale)
  BY <1>4, <1>7, NotStale
<1>9. Alive(proc', Q)
  BY <1>1, <1>2, <1>3, AliveKept
<1>10. Headed(Q)
  BY <1>1, <1>2, <1>3 DEF ComesTo, Headed
<1>11. Q.pids # << >> => InSubshell[l]
  BY <1>1, <1>2, <1>3, <1>6 DEF ComesTo
<1> QED BY <1>3, <1>5, <1>8, <1>9, <1>10, <1>11, BeginsNode

(***************************************************************************)
(* The shell: in a command or a redirect list.                             *)
(***************************************************************************)
\* What is to be shown inside a command.
LEMMA GoesOnHere ==
    ASSUME NEW g, NEW Q, Q.pc \in {"cmd", "redirect", "builtin"}, Headed(Q), Reached[Q.node],
           Q.pids = << >>, Underway(Q)
    PROVE  Answers(g, Q)
BY NoneAlive DEF Answers, ComesTo, Headed, Returns, Waits, Decides

\* Outside pipes and brackets the shell has no children when it begins a node.
LEMMA NoneYet ==
    ASSUME Serving, proc[Shell].pc = "exec", ~ InSubshell[proc[Shell].node]
    PROVE  proc[Shell].pids = << >>
BY ServingShell DEF ComesTo

\* The shell is not left of a pipe while it carries out a command itself.
LEMMA NotLeftOfPipe ==
    ASSUME Tidy, Serving, proc[Shell].pc \in {"cmd", "redirect", "builtin"}
    PROVE  proc[Shell].node \in Node /\ proc[Shell].node \notin PipeLeft
<1> DEFINE P == proc[Shell]
           n == P.node
<1>1. Flags(P) /\ AtItsNode(P)
  BY ServingShell
<1>2. n \in Node /\ Ast[n].kind \in {"ND_CMD", "ND_REDIRECTS"}
  BY <1>1 DEF AtItsNode
<1>3. CASE ~ InSubshell[n]
  BY <1>2, <1>3, PipeLeftIs
<1>4. CASE InSubshell[n] /\ n \in PipeLeft
  <2>1. n \in RedirectNode
    BY <1>1, <1>2, <1>4 DEF Flags, RedirectNode
  <2>2. Parent[n] # 0 /\ Ast[Parent[n]].kind = "ND_PIPE"
    BY <1>4, PipeLeftParent
  <2> QED BY <1>4, <2>1, <2>2 DEF Tidy
<1> QED BY <1>2, <1>3, <1>4

\* exec_redirect and exec_cmd begin.
LEMMA HereAnswers ==
    ASSUME Tidy, Serving, exec_redirect(Shell) \/ exec_cmd_here(Shell)
    PROVE  Answers(proc', proc'[Shell])
<1> DEFINE P == proc[Shell]
           Q == proc'[Shell]
           n == P.node
           Y == [P EXCEPT !.pc = "redirect", !.i = 1]
           Z == [P EXCEPT !.pc = "cmd"]
<1>1. P \in Process /\ TypeOK /\ Shell \in Proc /\ ComesTo(P) /\ Flags(P) /\ Wires(P)
      /\ Underway(P)
  BY ServingShell
<1>2. CASE exec_redirect(Shell)
  <2>1. P.pc = "exec" /\ n \in Node /\ Ast[n].kind = "ND_REDIRECTS"
    BY <1>1, <1>2, exec_redirectDoes
  <2>2. Q = Y
    BY <1>1, <1>2, SetHere DEF exec_redirect
  <2>3. /\ Y.pc = "redirect" /\ Y.node = n /\ Y.i = 1 /\ Y.pids = P.pids
        /\ Y.head_node = P.head_node
    BY <1>1 DEF Process
  <2> HIDE DEF Y
  <2>4. ~ InSubshell[n]
    <3>1. n \in RedirectNode
      BY <2>1 DEF RedirectNode
    <3>2. Parent[n] # 0 => Ast[Parent[n]].kind # "ND_CMD"
      BY <1>1, <2>1 DEF Wires
    <3> QED BY <3>1, <3>2 DEF Tidy
  <2>5. Q.pids = << >>
    BY <2>1, <2>2, <2>3, <2>4, NoneYet
  <2>6. Opened(n, 1)
    <3>1. RedirectsOf(n) \in Seq(Redirect)
      BY <2>1, NodeShape DEF RedirectsOf
    <3>2. \A i \in DOMAIN RedirectsOf(n) : ~ (i < 1)
      BY <3>1
    <3> QED BY <3>2 DEF Opened
  <2>7. Underway(Q)
    BY <2>1, <2>2, <2>3, <2>6 DEF Underway
  <2>8. Headed(Q) /\ Reached[n]
    BY <1>1, <2>1, <2>2, <2>3 DEF ComesTo, Headed
  <2> QED BY <2>2, <2>3, <2>5, <2>7, <2>8, GoesOnHere
<1>3. CASE exec_cmd_here(Shell)
  <2>1. P.pc = "exec" /\ n \in Node /\ Ast[n].kind = "ND_CMD" /\ ~ P.is_exec_in_child_ps
    BY <1>1, <1>3, exec_cmd_hereDoes DEF RunsHere
  <2>2. Q = Z
    BY <1>1, <1>3, SetHere DEF exec_cmd_here
  <2>3. /\ Z.pc = "cmd" /\ Z.node = n /\ Z.pids = P.pids /\ Z.head_node = P.head_node
        /\ Z.last_status = P.last_status
    BY <1>1 DEF Process
  <2> HIDE DEF Z
  <2>4. Q.pids = << >>
    <3>1. ~ InSubshell[n]
      BY <1>1, <2>1 DEF Flags
    <3> QED BY <2>1, <2>2, <2>3, <3>1, NoneYet
  <2>5. Underway(Q)
    BY <1>1, <2>1, <2>2, <2>3 DEF Underway
  <2>6. Headed(Q) /\ Reached[n]
    BY <1>1, <2>1, <2>2, <2>3 DEF ComesTo, Headed
  <2> QED BY <2>2, <2>3, <2>4, <2>5, <2>6, GoesOnHere
<1> QED BY <1>2, <1>3

\* A builtin's words are expanded: there is one at least, its name.
LEMMA WordsAnswer ==
    ASSUME Tidy, Serving, exec_cmd(Shell) \/ exec_cmd_with_heredoc(Shell)
    PROVE  Answers(proc', proc'[Shell])
<1> DEFINE P == proc[Shell]
           Q == proc'[Shell]
           n == P.node
           c == Ast[n].cmd
           Y == [P EXCEPT !.pc = "redirect", !.i = 1]
<1>1. P \in Process /\ TypeOK /\ Shell \in Proc /\ ComesTo(P) /\ Wires(P) /\ Underway(P)
      /\ ShellRuns(P)
  BY ServingShell
<1>2. P.pc = "cmd" /\ n \in Node /\ Ast[n].kind = "ND_CMD" /\ AfterExpansion(Shell, P)
  BY <1>1, CmdStep DEF Wires, Files
<1>3. c.word = "builtin"
  BY <1>1, <1>2, TypedIsBuiltin DEF ShellRuns
<1>4. P.pids = << >> /\ Reached[n] /\ P.head_node \in Node /\ Parent[P.head_node] = 0
  BY <1>1, <1>2 DEF ComesTo
<1>5. CASE Ast[n].left # 0
  <2>1. Set(Shell, Y)
    BY <1>2, <1>3, <1>5 DEF AfterExpansion
  <2>2. Q = Y
    BY <1>1, <2>1, SetHere
  <2>3. /\ Y.pc = "redirect" /\ Y.node = n /\ Y.i = 1 /\ Y.pids = P.pids
        /\ Y.head_node = P.head_node /\ Y.last_status = P.last_status
    BY <1>1 DEF Process
  <2> HIDE DEF Y
  <2>4. Opened(n, 1)
    <3>1. RedirectsOf(n) \in Seq(Redirect)
      BY <1>2, <1>5, NodeShape DEF RedirectsOf, RedirectNode
    <3>2. \A i \in DOMAIN RedirectsOf(n) : ~ (i < 1)
      BY <3>1
    <3> QED BY <3>2 DEF Opened
  <2>5. Underway(Q)
    BY <1>1, <1>2, <1>3, <2>2, <2>3, <2>4 DEF Underway
  <2> QED BY <1>4, <2>2, <2>3, <2>5, GoesOnHere DEF Headed
<1>6. CASE Ast[n].left = 0
  <2>1. Set(Shell, Launch(P))
    BY <1>2, <1>3, <1>6 DEF AfterExpansion
  <2>2. Q = Launch(P)
    BY <1>1, <2>1, SetHere
  <2>3. /\ Q.pc = "builtin" /\ Q.node = n /\ Q.pids = P.pids
        /\ Q.head_node = P.head_node /\ Q.last_status = P.last_status
    BY <1>1, <1>3, <2>2, LaunchDoes, LaunchKeeps DEF SameFlags
  <2>4. AllOpened(n)
    BY <1>2, <1>6 DEF AllOpened, RedirectsOf
  <2>5. Underway(Q)
    BY <1>1, <1>2, <1>3, <2>3, <2>4 DEF Underway
  <2> QED BY <1>4, <2>3, <2>5, GoesOnHere DEF Headed
<1> QED BY <1>5, <1>6

\* What restore_std_fds leaves alone.
LEMMA RestoreKeeps ==
    ASSUME NEW P \in Process
    PROVE  LET R == restore_std_fds(P)
           IN  R.node = P.node /\ R.pids = P.pids /\ R.head_node = P.head_node
               /\ R.last_status = P.last_status /\ R.parent = P.parent
<1>1. OnlyFds(P, restore_std_fds(P))
  BY RestoreDoes
<1>2. SameStep(P, restore_std_fds(P))
  BY RestoreType
<1> QED BY <1>1, <1>2 DEF OnlyFds, SameFlags, SameStep, Carries

\* What Return changes.
LEMMA ReturnIs ==
    ASSUME NEW P \in Process, NEW v
    PROVE  LET R == Return(P, v)
           IN  R.pc = "return" /\ R.ret = v /\ R.node = P.node /\ R.pids = P.pids
               /\ R.head_node = P.head_node /\ R.last_status = P.last_status
               /\ R.parent = P.parent
BY DEF Return, Process

\* A redirect of the shell: one that does not open is what comes back.
LEMMA RedirectAnswers ==
    ASSUME Tidy, Ample, Serving, apply_redirects(Shell)
    PROVE  Answers(proc', proc'[Shell])
<1> DEFINE P == proc[Shell]
           Q == proc'[Shell]
           n == P.node
           c == Ast[n].cmd
           A == Applied(P)
           list == Ast[n].kind = "ND_REDIRECTS"
           M == [A EXCEPT !.i = P.i + 1]
           R == restore_std_fds(A)
<1>1. P \in Process /\ TypeOK /\ Shell \in Proc /\ ComesTo(P) /\ Wires(P) /\ Underway(P)
      /\ Listed(P) /\ Std(P) /\ Outside(P) /\ ShellRuns(P)
  BY ServingShell
<1>2. P.pc = "redirect"
  BY DEF apply_redirects
<1>3. FreeFds(P) # {}
  <2>1. Files(P) /\ Unpiped(P)
    BY <1>1, <1>2 DEF Wires, Begins
  <2>2. ~ (Cardinality(FreeFds(P)) < 2)
    BY <1>1, <2>1, PipeHasRoom
  <2> QED BY <2>2, FS_EmptySet
<1>4. ~ P.is_exec_in_child_ps /\ P.i \in DOMAIN Ast[ListOf(P)].redirects
  BY <1>1, <1>2 DEF Outside, Wires
<1>5. /\ n \in Node /\ Ast[n].kind \in {"ND_CMD", "ND_REDIRECTS"}
      /\ A \in Process /\ SameStep(P, A) /\ SameFlags(P, A)
      /\ \/ /\ ~ AllOpened(n) /\ A.last_status = EXIT_FAILURE
            /\ Set(Shell, Return(IF list THEN R ELSE A, EXIT_FAILURE))
         \/ A.last_status = 0 /\ Opened(n, P.i + 1) /\ Set(Shell, M)
         \/ /\ A.last_status = 0 /\ AllOpened(n)
            /\ Set(Shell, IF list THEN Return(R, 0) ELSE Launch(A))
  BY <1>1, <1>2, <1>3, <1>4, RedirectStep
<1>6. /\ A.node = n /\ A.pids = << >> /\ A.head_node = P.head_node /\ A.pc = "redirect"
      /\ Reached[n] /\ P.head_node \in Node /\ Parent[P.head_node] = 0
  BY <1>1, <1>2, <1>5 DEF ComesTo, SameStep, SameFlags, Carries
<1> HIDE DEF A
<1>7. /\ R \in Process /\ R.node = n /\ R.pids = << >> /\ R.head_node = P.head_node
      /\ R.last_status = A.last_status
  BY <1>5, <1>6, RestoreDoes, RestoreKeeps
<1> HIDE DEF R
<1>8. n \notin PipeLeft
  BY <1>2, NotLeftOfPipe
<1>9. Ast[n].kind = "ND_CMD" => c.word = "builtin"
  BY <1>1, <1>2, <1>5, TypedIsBuiltin DEF ShellRuns
<1>10. ASSUME NEW X \in {A, R}, NEW v, Set(Shell, Return(X, v)), X.last_status = v,
              Promise[n].status = v, ~ Promise[n].exit
       PROVE  Answers(proc', Q)
  <2>1. Q = Return(X, v) /\ X \in Process
    BY <1>1, <1>5, <1>7, <1>10, SetHere
  <2>2. /\ Q.pc = "return" /\ Q.ret = v /\ Q.node = n /\ Q.pids = << >>
        /\ Q.head_node = P.head_node /\ Q.last_status = v
    BY <1>6, <1>7, <1>10, <2>1, ReturnIs
  <2> HIDE DEF Q
  <2> QED BY <1>6, <1>8, <1>10, <2>2, BringsBack DEF Headed
<1>11. CASE ~ AllOpened(n) /\ A.last_status = EXIT_FAILURE
            /\ Set(Shell, Return(IF list THEN R ELSE A, EXIT_FAILURE))
  <2>1. Promise[n].status = EXIT_FAILURE /\ ~ Promise[n].exit
    <3>1. CASE list
      BY <1>5, <1>11, <3>1, PromiseIs DEF EXIT_FAILURE
    <3>2. CASE ~ list
      <4>1. Ast[n].kind = "ND_CMD" /\ c.word # "empty"
        BY <1>5, <1>9, <3>2
      <4> QED BY <1>5, <1>11, <4>1, CommandIs DEF EXIT_FAILURE
    <3> QED BY <3>1, <3>2
  <2>2. PICK X \in {A, R} : Set(Shell, Return(X, EXIT_FAILURE))
    BY <1>11
  <2> QED BY <1>7, <1>10, <1>11, <2>1, <2>2
<1>12. CASE A.last_status = 0 /\ Opened(n, P.i + 1) /\ Set(Shell, M)
  <2>1. Q = M
    BY <1>1, <1>12, SetHere
  <2>2. /\ M.pc = "redirect" /\ M.node = n /\ M.i = P.i + 1 /\ M.pids = << >>
        /\ M.head_node = P.head_node /\ M.last_status = 0
    BY <1>5, <1>6, <1>12 DEF Process
  <2> HIDE DEF M
  <2>3. Underway(Q)
    BY <1>9, <1>12, <2>1, <2>2 DEF Underway
  <2> QED BY <1>6, <2>1, <2>2, <2>3, GoesOnHere DEF Headed
<1>13. CASE A.last_status = 0 /\ AllOpened(n) /\ list /\ Set(Shell, Return(R, 0))
  <2>1. Promise[n].status = 0 /\ ~ Promise[n].exit
    BY <1>5, <1>13, PromiseIs
  <2> QED BY <1>7, <1>10, <1>13, <2>1
<1>14. CASE A.last_status = 0 /\ AllOpened(n) /\ ~ list /\ Set(Shell, Launch(A))
  <2>1. Q = Launch(A)
    BY <1>1, <1>14, SetHere
  <2>2. c.word = "builtin"
    BY <1>5, <1>9, <1>14
  <2>3. /\ Q.pc = "builtin" /\ Q.node = n /\ Q.pids = << >>
        /\ Q.head_node = P.head_node /\ Q.last_status = 0
    BY <1>5, <1>6, <1>14, <2>1, <2>2, LaunchDoes, LaunchKeeps DEF SameFlags
  <2>4. Underway(Q)
    BY <1>14, <2>2, <2>3 DEF Underway
  <2> QED BY <1>6, <2>3, <2>4, GoesOnHere DEF Headed
<1> QED BY <1>5, <1>11, <1>12, <1>13, <1>14

\* A builtin of the shell comes back with what it returns.
LEMMA BuiltinAnswers ==
    ASSUME Tidy, Definite, Serving, ~ Gone(proc'[Shell]), run_builtin(Shell)
    PROVE  Answers(proc', proc'[Shell])
<1> DEFINE P == proc[Shell]
           Q == proc'[Shell]
           n == P.node
           s == BuiltinStatus(P)
           B == [P EXCEPT !.last_status = s]
           R == restore_std_fds(B)
<1>1. P \in Process /\ TypeOK /\ Shell \in Proc /\ ComesTo(P) /\ Underway(P) /\ AtItsNode(P)
      /\ Outside(P)
  BY ServingShell
<1>2. P.pc = "builtin"
  BY DEF run_builtin
<1>3. n \in Node /\ Ast[n].kind = "ND_CMD" /\ n \notin PipeLeft
  BY <1>1, <1>2, NotLeftOfPipe DEF AtItsNode
<1>4. s = Promise[n].status /\ s \in 0 .. 255
  BY <1>1, <1>2, <1>3, BuiltinLeaves
<1>5. ~ Ast[n].cmd.exits /\ ~ P.is_exec_in_child_ps
  <2>1. SUFFICES ASSUME Ast[n].cmd.exits \/ P.is_exec_in_child_ps PROVE FALSE
    OBVIOUS
  <2>2. Exit(Shell, s)
    BY <2>1 DEF run_builtin
  <2> HIDE DEF s
  <2> QED BY <1>1, <1>4, <2>2, ExitLeaves DEF Gone
<1>6. Set(Shell, Return(IF s = 0 THEN R ELSE B, s))
  BY <1>5 DEF run_builtin
<1>7. ~ Promise[n].exit
  BY <1>3, <1>5, CommandIs
<1>8. /\ P.pids = << >> /\ Reached[n] /\ P.head_node \in Node /\ Parent[P.head_node] = 0
  BY <1>1, <1>2 DEF ComesTo
<1>9. B \in Process
  BY <1>1, <1>3, StatusIsKept
<1> HIDE DEF s
<1>10. /\ B.node = n /\ B.pids = << >> /\ B.head_node = P.head_node /\ B.last_status = s
  BY <1>1, <1>8 DEF Process
<1> HIDE DEF B
<1>11. /\ R \in Process /\ R.node = n /\ R.pids = << >> /\ R.head_node = P.head_node
       /\ R.last_status = s
  BY <1>9, <1>10, RestoreDoes, RestoreKeeps
<1> HIDE DEF R
<1>12. PICK X \in {B, R} : Set(Shell, Return(X, s))
  BY <1>6
<1>13. Q = Return(X, s) /\ X \in Process
  BY <1>1, <1>9, <1>11, <1>12, SetHere
<1>14. /\ Q.pc = "return" /\ Q.ret = s /\ Q.node = n /\ Q.pids = << >>
       /\ Q.head_node = P.head_node /\ Q.last_status = s
  BY <1>10, <1>11, <1>13, ReturnIs
<1> HIDE DEF Q
<1>15. Headed(Q)
  BY <1>8, <1>14 DEF Headed
<1>16. /\ Reached[Q.node] /\ Q.node \notin PipeLeft /\ ~ Promise[Q.node].exit
       /\ Q.ret = Promise[Q.node].status /\ Q.last_status = Q.ret
  BY <1>3, <1>4, <1>7, <1>8, <1>14
<1>17. Answers(proc', Q)
  BY <1>14, <1>15, <1>16, BringsBack
<1> QED BY <1>17 DEF Q

\* A builtin of the shell writes.
LEMMA WriteAnswers ==
    ASSUME Serving, ~ Gone(proc'[Shell]), RunsOn(Shell)
    PROVE  Answers(proc', proc'[Shell])
<1> DEFINE P == proc[Shell]
           Q == proc'[Shell]
           n == P.node
           M == [P EXCEPT !.todo = @ - 1]
<1>1. P \in Process /\ TypeOK /\ Shell \in Proc /\ ComesTo(P) /\ Underway(P) /\ ShellRuns(P)
  BY ServingShell
<1>2. P.pc # "program"
  BY <1>1 DEF ShellRuns
<1>3. Write(Shell) /\ P.pc = "builtin"
  BY <1>2 DEF RunsOn, Read, ReadEof, ProgramExit, Reading, Write
<1>4. ~ Exit(Shell, 128 + SIGPIPE)
  <2>1. 128 + SIGPIPE \in 0 .. 255
    BY DEF SIGPIPE
  <2> QED BY <1>1, <2>1, ExitLeaves DEF Gone
<1>5. Set(Shell, M)
  BY <1>3, <1>4 DEF Write
<1>6. Q = M
  BY <1>1, <1>5, SetHere
<1>7. /\ M.pc = "builtin" /\ M.node = n /\ M.pids = P.pids /\ M.head_node = P.head_node
      /\ M.last_status = P.last_status
  BY <1>1, <1>3 DEF Process
<1> HIDE DEF M
<1>8. Underway(Q)
  BY <1>1, <1>3, <1>6, <1>7 DEF Underway
<1>9. P.pids = << >> /\ Reached[n] /\ P.head_node \in Node /\ Parent[P.head_node] = 0
  BY <1>1, <1>3 DEF ComesTo
<1> QED BY <1>6, <1>7, <1>8, <1>9, GoesOnHere DEF Headed
\* A pid at the end of the list.
LEMMA Appended ==
    ASSUME NEW s \in Seq(Proc \cup {0}), NEW q \in Proc
    PROVE  /\ Append(s, q) # << >> /\ Append(s, q)[Len(Append(s, q))] = q
           /\ \A j \in DOMAIN Append(s, q) :
                \/ j \in DOMAIN s /\ Append(s, q)[j] = s[j]
                \/ j = Len(s) + 1 /\ Append(s, q)[j] = q
<1>1. /\ Append(s, q) \in Seq(Proc \cup {0}) /\ Len(Append(s, q)) = Len(s) + 1
      /\ Len(s) \in Nat
  OBVIOUS
<1>2. Append(s, q) # << >>
  BY <1>1
<1>3. Append(s, q)[Len(s) + 1] = q
  OBVIOUS
<1>4. ASSUME NEW j \in DOMAIN Append(s, q)
      PROVE  \/ j \in DOMAIN s /\ Append(s, q)[j] = s[j]
             \/ j = Len(s) + 1 /\ Append(s, q)[j] = q
  OBVIOUS
<1> QED BY <1>1, <1>2, <1>3, <1>4

\* A command that is forked: the child is the last the shell will wait for.
LEMMA ForkAnswers ==
    ASSUME Definite, Serving, ~ Gone(proc'[Shell]), exec_cmd_forked(Shell)
    PROVE  /\ Answers(proc', proc'[Shell])
           /\ Underway(proc'[NewProcess]) /\ Equipped(proc'[NewProcess])
           /\ NewProcess \in Others
           /\ \A r \in Others \ {NewProcess} : proc'[r] = proc[r]
<1> DEFINE P == proc[Shell]
           Q == proc'[Shell]
           n == P.node
           q == NewProcess
           C == ForkedChild(Shell)
           s == Promise[n].status
<1>1. /\ P \in Process /\ TypeOK /\ Shell \in Proc /\ ComesTo(P) /\ Underway(P) /\ Alive(proc, P)
      /\ Outside(P) /\ Wires(P) /\ Std(P) /\ P.pids \in Seq(Proc \cup {0}) /\ AtItsNode(P)
  BY ServingShell
<1>2. /\ P.pc = "exec" /\ n \in Node /\ Ast[n].kind = "ND_CMD" /\ ~ RunsHere(P)
      /\ At(Q, "return", n) /\ SameFlags(P, Q)
  BY <1>1, exec_cmd_forkedDoes
<1>3. FreeSlots # {} /\ proc' = [AfterFork(Shell) EXCEPT ![Shell] = ParentDone(Shell)]
  <2>1. ASSUME Exit(Shell, EXIT_FAILURE) PROVE FALSE
    BY <1>1, <2>1, ExitLeaves, Null DEF Gone
  <2>2. FreeSlots # {} => AfterFork(Shell) \in [Proc -> Good]
    BY <1>1, ForkType
  <2>3. FreeSlots # {} => proc' # ExitIn(AfterFork(Shell), Shell, EXIT_FAILURE)
    BY <1>1, <2>2, ExitDoes, Null
  <2> QED BY <1>1, <2>1, <2>3, ForkCases
<1>4. /\ q \in Proc \ {Shell} /\ proc[q].pc = "free" /\ C.pc = "child"
      /\ ForkedParent(Shell).pids = Append(P.pids, q)
      /\ AfterFork(Shell) \in [Proc -> Good] /\ Carries(ForkedParent(Shell), ParentDone(Shell))
  BY <1>1, <1>3, ForkType
<1>5. /\ Q = ParentDone(Shell) /\ proc'[q] = C
      /\ \A r \in Others \ {q} : proc'[r] = proc[r]
  <2>1. proc \in [Proc -> Good]
    BY <1>1, ProcType
  <2> QED BY <1>1, <1>3, <1>4, <2>1 DEF AfterFork, Others
<1>6. Q.pids = Append(P.pids, q) /\ Q.ret = 0
  <2>1. AfterFork(Shell)[Shell] = ForkedParent(Shell)
    <3>1. proc \in [Proc -> Good]
      BY <1>1, ProcType
    <3> QED BY <1>1, <1>4, <3>1 DEF AfterFork
  <2>2. ForkedParent(Shell) \in Process
    BY <1>1, <1>4, <2>1 DEF Good
  <2>3. CloseHeredoc(reset_parent_process_fd(ForkedParent(Shell))) \in Process
    BY <2>2, ResetDoes, CloseHeredocDoes
  <2>4. Q.ret = 0
    BY <1>5, <2>3, ReturnIs DEF ParentDone
  <2> QED BY <1>4, <1>5, <2>4 DEF Carries
<1>7. /\ C.node = n /\ C.pids # << >> /\ C.last_status = P.last_status
      /\ C.fds = P.fds /\ C.out_pipe_fd = P.out_pipe_fd
  <2>1. Append(P.pids, 0) # << >>
    BY <1>1
  <2> QED BY <1>1, <2>1 DEF ForkedChild, Process
<1>8. Underway(C)
  BY <1>1, <1>2, <1>4, <1>7 DEF Underway
<1>9. Equipped(C)
  <2>1. n \notin PipeLeft => Unpiped(P)
    BY <1>1 DEF Wires, Begins
  <2>2. P.fds[1] \in {Tty, File}
    BY <1>1 DEF Wires, Files
  <2>3. n \notin PipeLeft => Out(C) \in {Tty, File}
    BY <1>7, <2>1, <2>2 DEF Out, Unpiped, STDOUT_FILENO
  <2> QED BY <1>4, <1>7, <2>3 DEF Equipped
<1>10. ~ Promise[n].exit
  <2>1. SUFFICES ASSUME Ast[n].cmd.exits, ~ InSubshell[n] PROVE FALSE
    BY <1>2, CommandIs
  <2>2. Ast[n].cmd.typed
    BY <1>2, <2>1 DEF Definite
  <2>3. ~ P.is_exec_in_child_ps
    BY <1>1, <1>2, <2>1 DEF Outside
  <2> QED BY <1>2, <2>2, <2>3 DEF RunsHere
<1>11. Alive(proc', Q)
  <2>1. /\ \A j \in DOMAIN P.pids : P.pids[j] \in Others /\ proc[P.pids[j]].pc # "free"
        /\ \A j, k \in DOMAIN P.pids : j # k => P.pids[j] # P.pids[k]
    BY <1>1, <1>2 DEF Alive
  <2>2. ASSUME NEW j \in DOMAIN Q.pids
        PROVE  \/ j \in DOMAIN P.pids /\ Q.pids[j] = P.pids[j]
               \/ j = Len(P.pids) + 1 /\ Q.pids[j] = q
    BY <1>1, <1>4, <1>6, Appended
  <2>3. ASSUME NEW j \in DOMAIN P.pids
        PROVE  P.pids[j] \in Others /\ P.pids[j] # q /\ proc'[P.pids[j]].pc # "free"
    BY <1>4, <1>5, <2>1
  <2>4. proc'[q].pc # "free" /\ q \in Others
    BY <1>4, <1>5 DEF Others
  <2>5. ASSUME NEW j \in DOMAIN Q.pids PROVE Q.pids[j] \in Others /\ proc'[Q.pids[j]].pc # "free"
    BY <2>2, <2>3, <2>4
  <2>6. ASSUME NEW j \in DOMAIN Q.pids, NEW k \in DOMAIN Q.pids, j # k
        PROVE  Q.pids[j] # Q.pids[k]
    BY <2>1, <2>2, <2>3, <2>6
  <2> QED BY <2>5, <2>6 DEF Alive
<1>12. LastDue(proc', Q, s) \/ n \in PipeLeft
  <2>1. Q.pids # << >> /\ Q.pids[Len(Q.pids)] = q
    BY <1>1, <1>4, <1>6, Appended
  <2>2. n \notin PipeLeft => Due(C, s)
    BY <1>4, <1>7 DEF Due
  <2> QED BY <1>5, <2>1, <2>2 DEF LastDue
<1>13. Q.pids # << >>
  BY <1>1, <1>4, <1>6, Appended
<1>14. Answers(proc', Q)
  <2>1. ComesTo(Q)
    BY <1>1, <1>2 DEF ComesTo, At, SameFlags
  <2>2. Returns(proc', Q)
    BY <1>2, <1>6, <1>10, <1>12, <1>13 DEF Returns, At
  <2>3. Underway(Q) /\ Waits(proc', Q) /\ Decides(Q)
    BY <1>2 DEF Underway, Waits, Decides, At
  <2> QED BY <1>11, <2>1, <2>2, <2>3 DEF Answers
<1> QED BY <1>4, <1>5, <1>8, <1>9, <1>14 DEF Others

(***************************************************************************)
(* The shell: back up the tree.                                            *)
(***************************************************************************)
\* A child that is let alone is still due to leave its status.
LEMMA LastDueKept ==
    ASSUME NEW f, NEW g, NEW P, NEW Q, NEW s, Alive(f, P), P.pc = "return",
           P.pids \in Seq(Proc \cup {0}), Q.pids = P.pids, LastDue(f, P, s),
           \A r \in Others : g[r] = f[r]
    PROVE  LastDue(g, Q, s)
<1> DEFINE j == Len(P.pids)
<1>1. P.pids # << >> /\ Due(f[P.pids[j]], s)
  BY DEF LastDue
<1>2. j \in DOMAIN P.pids
  BY <1>1
<1>3. P.pids[j] \in Others
  BY <1>2 DEF Alive
<1>4. g[P.pids[j]] = f[P.pids[j]]
  BY <1>3
<1> QED BY <1>1, <1>4 DEF LastDue

\* What is to be shown where a caller comes back with what it was given.
LEMMA PassesBack ==
    ASSUME Serving, proc[Shell].pc = "return", \A r \in Others : proc'[r] = proc[r],
           NEW m \in Node, NEW Q, Q.pc = "return", Q.node = m,
           Q.pids = proc[Shell].pids, Q.ret = proc[Shell].ret,
           Q.last_status = proc[Shell].last_status, Q.head_node = proc[Shell].head_node,
           m \notin PipeLeft, proc[Shell].node \notin PipeLeft, Reached[m],
           Promise[m] = Promise[proc[Shell].node]
    PROVE  Answers(proc', Q)
<1> DEFINE P == proc[Shell]
<1>1. /\ Alive(proc, P) /\ Returns(proc, P) /\ ComesTo(P) /\ P.pids \in Seq(Proc \cup {0})
  BY ServingShell
<1>2. Alive(proc', Q)
  BY <1>1, AliveKept
<1>3. P.pids # << >> => LastDue(proc', Q, Promise[m].status)
  <2>1. P.pids # << >> => LastDue(proc, P, Promise[m].status)
    BY <1>1 DEF Returns
  <2> QED BY <1>1, <2>1, LastDueKept
<1>4. Returns(proc', Q)
  BY <1>1, <1>3 DEF Returns
<1>5. ComesTo(Q)
  BY <1>1 DEF ComesTo
<1>6. Underway(Q) /\ Waits(proc', Q) /\ Decides(Q)
  BY DEF Underway, Waits, Decides
<1> QED BY <1>2, <1>4, <1>5, <1>6 DEF Answers

\* The right side is what the operator comes back with.
LEMMA RightAnswers ==
    ASSUME Serving, ReturnFromRight(Shell)
    PROVE  Answers(proc', proc'[Shell])
<1> DEFINE P == proc[Shell]
           Q == proc'[Shell]
           n == P.node
           m == Parent[n]
           Y == [P EXCEPT !.node = m]
<1>1. P \in Process /\ TypeOK /\ Shell \in Proc /\ ComesTo(P)
  BY ServingShell
<1>2. P.pc = "return" /\ n \in Node /\ m # 0 /\ Ast[m].right = n
  BY <1>1, ReturnFromRightDoes
<1>3. m \in Node /\ n # 0
  BY <1>2, ParentChild, Nodes
<1>4. Q = Y /\ \A r \in Others : proc'[r] = proc[r]
  BY <1>1, SetHere DEF ReturnFromRight, Others
<1>5. /\ Y.pc = "return" /\ Y.node = m /\ Y.pids = P.pids /\ Y.ret = P.ret
      /\ Y.last_status = P.last_status /\ Y.head_node = P.head_node
  BY <1>1, <1>2 DEF Process
<1> HIDE DEF Y
<1>6. n \notin PipeLeft
  BY <1>2, <1>3, RightIs
<1>7. m \notin PipeLeft
  BY <1>2, <1>3, PipeLeftIs
<1>8. Reached[n]
  BY <1>1, <1>2 DEF ComesTo
<1>9. Reached[m]
  BY <1>2, <1>3, <1>8, ReachedStep
<1>10. Promise[m] = Promise[n]
  BY <1>2, <1>3, <1>8, PromisePasses
<1> QED BY <1>2, <1>3, <1>4, <1>5, <1>6, <1>7, <1>9, <1>10, PassesBack

\* exec_pipe goes on to its right side.
LEMMA PipeAnswers ==
    ASSUME Definite, Serving, ReturnFromPipeLeft(Shell)
    PROVE  Answers(proc', proc'[Shell])
<1> DEFINE P == proc[Shell]
           Q == proc'[Shell]
           n == P.node
           m == Parent[n]
           r == Ast[m].right
           Y == [P EXCEPT !.pc = "exec", !.node = r, !.out_pipe_fd = STDOUT_FILENO]
<1>1. P \in Process /\ TypeOK /\ Shell \in Proc /\ ComesTo(P) /\ Alive(proc, P)
  BY ServingShell
<1>2. P.pc = "return" /\ n \in Node /\ m # 0 /\ Ast[m].left = n /\ Ast[m].kind = "ND_PIPE"
  BY <1>1, ReturnFromPipeLeftDoes
<1>3. m \in Node
  BY <1>2, ParentChild
<1>4. Q = Y /\ \A q \in Others : proc'[q] = proc[q]
  BY <1>1, SetHere DEF ReturnFromPipeLeft, Others
<1>5. Y.pc = "exec" /\ Y.node = r /\ Y.pids = P.pids /\ Y.head_node = P.head_node
  BY <1>1, <1>2 DEF Process
<1> HIDE DEF Y
<1>6. r # 0
  <2>1. r \in Node
    BY <1>2, <1>3, NodeShape
  <2> HIDE DEF r
  <2> QED BY <2>1, Nodes
<1>7. r \in Node /\ Parent[r] = m
  BY <1>3, <1>6, RightIs
<1>8. Reached[m]
  <2>1. Reached[n]
    BY <1>1, <1>2 DEF ComesTo
  <2> QED BY <1>2, <1>3, <2>1, ReachedStep
<1>9. Reached[r] /\ InSubshell[r]
  BY <1>2, <1>3, <1>7, <1>8, ReachedStep, ChildIsIn
<1>10. ~ AfterAnd(r)
  BY <1>2, <1>7 DEF AfterAnd
<1>11. ~ (Ast[r].kind = "ND_CMD" /\ Ast[r].cmd.status = Stale)
  BY <1>7, <1>10, NotStale
<1>12. Alive(proc', Q)
  BY <1>1, <1>2, <1>4, <1>5, AliveKept
<1>13. Headed(Q)
  BY <1>1, <1>2, <1>4, <1>5 DEF ComesTo, Headed
<1> HIDE DEF r
<1> QED BY <1>4, <1>5, <1>9, <1>11, <1>12, <1>13, BeginsNode

\* The caller begins to wait for the children of its left side, or it has none
\* and decides.
LEMMA WaitBegins ==
    ASSUME Serving, ReturnAndWait(Shell)
    PROVE  Answers(proc', proc'[Shell])
<1> DEFINE P == proc[Shell]
           Q == proc'[Shell]
           n == P.node
           m == Parent[n]
           bracket == m # 0 /\ Ast[m].kind = "ND_RND_BRACKET"
           pc == IF P.pids = << >> THEN "decide" ELSE "wait"
           v == IF bracket THEN P.ret ELSE P.last_status
           Y == [P EXCEPT !.node = m, !.i = 1, !.c_status = 0, !.pc = pc, !.last_status = v]
<1>1. /\ P \in Process /\ TypeOK /\ Shell \in Proc /\ ComesTo(P) /\ Alive(proc, P)
      /\ Returns(proc, P) /\ P.pids \in Seq(Proc \cup {0}) /\ ShellAt(P)
  BY ServingShell
<1>2. P.pc = "return" /\ n \in Node /\ (m # 0 => Ast[m].left = n /\ Ast[m].kind # "ND_PIPE")
  BY <1>1, ReturnAndWaitDoes
<1>3. n \notin PipeLeft
  BY <1>2, PipeLeftParent
<1>4. Set(Shell, Y)
  BY DEF ReturnAndWait
<1>5. Q = Y /\ \A r \in Others : proc'[r] = proc[r]
  BY <1>1, <1>4, SetHere DEF Others
<1> HIDE DEF v, pc
<1>6. /\ Y.node = m /\ Y.i = 1 /\ Y.pc = pc /\ Y.last_status = v /\ Y.pids = P.pids
      /\ Y.ret = P.ret /\ Y.head_node = P.head_node
  BY <1>1 DEF Process
<1> HIDE DEF Y
<1>7. Side(Q) = n
  <2>1. m = 0 => P.head_node = n
    BY <1>1, <1>2, RootDef DEF ShellAt
  <2> QED BY <1>2, <1>5, <1>6, <2>1 DEF Side
<1>8. P.head_node \in Node /\ Parent[P.head_node] = 0 /\ Reached[n] /\ ~ Promise[n].exit
  BY <1>1, <1>2 DEF ComesTo, Returns
<1>9. CASE P.pids = << >>
  <2>1. P.ret = Promise[n].status /\ P.last_status = P.ret
    BY <1>1, <1>2, <1>9 DEF Returns
  <2>2. v = P.ret /\ pc = "decide"
    BY <1>9, <2>1 DEF v, pc
  <2>3. Alive(proc', Q) /\ Returns(proc', Q) /\ Waits(proc', Q) /\ Underway(Q)
    BY <1>5, <1>6, <2>2 DEF Alive, Returns, Waits, Underway
  <2>4. Decides(Q)
    BY <1>5, <1>6, <1>7, <2>1, <2>2 DEF Decides
  <2>5. ComesTo(Q)
    BY <1>5, <1>6, <1>7, <1>8, <2>2 DEF ComesTo
  <2> QED BY <2>3, <2>4, <2>5 DEF Answers
<1>10. CASE P.pids # << >>
  <2>1. P.ret = 0 /\ LastDue(proc, P, Promise[n].status)
    BY <1>1, <1>2, <1>3, <1>10 DEF Returns
  <2>2. pc = "wait"
    BY <1>10 DEF pc
  <2>3. LastDue(proc', Q, Promise[n].status)
    BY <1>1, <1>2, <1>5, <1>6, <2>1, LastDueKept
  <2>4. 1 \in DOMAIN P.pids
    BY <1>1, <1>10
  <2>5. Waits(proc', Q)
    BY <1>5, <1>6, <1>7, <2>1, <2>2, <2>3, <2>4 DEF Waits
  <2>6. Alive(proc', Q)
    <3>1. Q.pids = P.pids /\ Q.pc = "wait"
      BY <1>5, <1>6, <2>2
    <3>2. \A j \in DOMAIN P.pids : P.pids[j] \in Others /\ proc[P.pids[j]].pc # "free"
      BY <1>1, <1>2 DEF Alive
    <3>3. \A j, k \in DOMAIN P.pids : j # k => P.pids[j] # P.pids[k]
      BY <1>1, <1>2 DEF Alive
    <3>4. \A j \in DOMAIN P.pids : proc'[P.pids[j]].pc # "free"
      BY <1>5, <3>2
    <3> QED BY <3>1, <3>2, <3>3, <3>4 DEF Alive
  <2>7. Returns(proc', Q) /\ Decides(Q) /\ Underway(Q)
    BY <1>5, <1>6, <2>2 DEF Returns, Decides, Underway
  <2>8. ComesTo(Q)
    BY <1>5, <1>6, <1>7, <1>8, <2>2 DEF ComesTo
  <2> QED BY <2>5, <2>6, <2>7, <2>8 DEF Answers
<1> QED BY <1>9, <1>10
\* What the loop of wait_children_status changes.
LEMMA AfterWaitpidIs ==
    ASSUME NEW P \in Process, NEW s, P.pc = "wait"
    PROVE  LET A == AfterWaitpid(P, s)
           IN  /\ A.pids = P.pids /\ A.ret = P.ret /\ A.head_node = P.head_node
               /\ A.node = P.node /\ A.parent = P.parent
               /\ P.i < Len(P.pids) => A.pc = "wait" /\ A.i = P.i + 1
               /\ ~ (P.i < Len(P.pids)) => A.pc = "decide" /\ A.last_status = s
<1> DEFINE X == [P EXCEPT !.i = @ + 1, !.c_status = s]
           Y == [P EXCEPT !.pc = "decide", !.c_status = s, !.last_status = s]
<1>1. /\ X.pids = P.pids /\ X.ret = P.ret /\ X.head_node = P.head_node /\ X.node = P.node
      /\ X.parent = P.parent
      /\ X.pc = "wait" /\ X.i = P.i + 1
  BY DEF Process
<1>2. /\ Y.pids = P.pids /\ Y.ret = P.ret /\ Y.head_node = P.head_node /\ Y.node = P.node
      /\ Y.parent = P.parent
      /\ Y.pc = "decide" /\ Y.last_status = s
  BY DEF Process
<1>3. AfterWaitpid(P, s) = IF P.i < Len(P.pids) THEN X ELSE Y
  BY DEF AfterWaitpid
<1> HIDE DEF X, Y
<1> QED BY <1>1, <1>2, <1>3

\* What waitpid answers with is the child it is asked for.
LEMMA AwaitedIs ==
    ASSUME Serving, proc[Shell].pc = "wait"
    PROVE  LET P == proc[Shell]
               q == P.pids[P.i]
           IN  /\ P.i \in DOMAIN P.pids /\ q \in Others /\ proc[q].pc # "free"
               /\ Awaited(Shell) = {q}
<1> DEFINE P == proc[Shell]
           q == P.pids[P.i]
<1>1. /\ Alive(proc, P) /\ Waits(proc, P) /\ TypeOK /\ Shell \in Proc /\ P \in Process
  BY ServingShell
<1>2. P.i \in DOMAIN P.pids
  BY <1>1 DEF Waits
<1>3. P.i <= P.i
  BY <1>1 DEF Process
<1>4. q \in Others /\ proc[q].pc # "free"
  BY <1>1, <1>2, <1>3 DEF Alive
<1>5. Own(q)
  BY <1>4 DEF Serving, Standing, Tree
<1>6. proc[q].parent = Shell
  BY <1>4, <1>5 DEF Own, Serving
<1>7. q \in Proc /\ q # 0
  BY <1>4, BoundsAssumption DEF Others, Proc
<1>8. Awaited(Shell) = {q}
  BY <1>6, <1>7 DEF Awaited, ChildrenOf
<1> QED BY <1>2, <1>4, <1>8

\* A child is waited for: the last one answers for the line.
LEMMA WaitAnswers ==
    ASSUME Serving, WaitChild(Shell) \/ WaitNoChild(Shell)
    PROVE  Answers(proc', proc'[Shell])
<1> DEFINE P == proc[Shell]
           Q == proc'[Shell]
           q == P.pids[P.i]
           s == proc[q].c_status
           n == Side(P)
           last == P.pids[Len(P.pids)]
<1>1. /\ P \in Process /\ TypeOK /\ Shell \in Proc /\ ComesTo(P) /\ Alive(proc, P)
      /\ Waits(proc, P) /\ P.pids \in Seq(Proc \cup {0})
  BY ServingShell
<1>2. P.pc = "wait"
  BY <1>1, WaitDoes
<1>3. P.i \in DOMAIN P.pids /\ q \in Others /\ proc[q].pc # "free" /\ Awaited(Shell) = {q}
  BY <1>2, AwaitedIs
<1>4. /\ proc[q].pc = "zombie"
      /\ proc' = [proc EXCEPT ![q] = NoProcess, ![Shell] = AfterWaitpid(P, s)]
  <2>1. ~ WaitNoChild(Shell)
    BY <1>3 DEF WaitNoChild
  <2> QED BY <1>3, <2>1 DEF WaitChild
<1>5. Q = AfterWaitpid(P, s) /\ \A r \in Others \ {q} : proc'[r] = proc[r]
  <2>1. proc \in [Proc -> Good]
    BY <1>1, ProcType
  <2> QED BY <1>1, <1>3, <1>4, <2>1 DEF Others
<1>6. /\ Q.pids = P.pids /\ Q.ret = P.ret /\ Q.head_node = P.head_node /\ Q.node = P.node
      /\ P.i < Len(P.pids) => Q.pc = "wait" /\ Q.i = P.i + 1
      /\ ~ (P.i < Len(P.pids)) => Q.pc = "decide" /\ Q.last_status = s
  BY <1>1, <1>2, <1>5, AfterWaitpidIs
<1>7. Side(Q) = n
  BY <1>6 DEF Side
<1>8. /\ P.head_node \in Node /\ Parent[P.head_node] = 0 /\ Reached[n] /\ ~ Promise[n].exit
  BY <1>1, <1>2 DEF ComesTo
<1>9. P.ret = 0 /\ P.pids # << >> /\ Due(proc[last], Promise[n].status)
  BY <1>1, <1>2 DEF Waits, LastDue
<1>10. \A j, k \in DOMAIN P.pids : j # k => P.pids[j] # P.pids[k]
  BY <1>1, <1>2 DEF Alive
<1>11. Len(P.pids) \in DOMAIN P.pids /\ P.i \in Nat /\ Len(P.pids) \in Nat /\ P.i <= Len(P.pids)
  BY <1>1, <1>3, <1>9
<1> HIDE DEF n
<1>12. CASE P.i < Len(P.pids)
  <2>1. ASSUME NEW j \in DOMAIN P.pids, P.i + 1 <= j
        PROVE  P.pids[j] \in Others /\ proc'[P.pids[j]] = proc[P.pids[j]]
               /\ proc[P.pids[j]].pc # "free"
    <3>1. P.i <= j /\ j # P.i
      BY <1>11, <2>1
    <3>2. P.pids[j] \in Others /\ proc[P.pids[j]].pc # "free" /\ P.pids[j] # q
      BY <1>1, <1>2, <1>3, <1>10, <3>1 DEF Alive
    <3> QED BY <1>5, <3>2
  <2>2. Alive(proc', Q)
    BY <1>6, <1>10, <1>12, <2>1 DEF Alive
  <2>3. P.i + 1 \in DOMAIN P.pids
    BY <1>1, <1>11, <1>12
  <2>4. P.i + 1 <= Len(P.pids)
    BY <1>11, <1>12
  <2>5. proc'[last] = proc[last]
    BY <1>11, <2>1, <2>4
  <2>6. LastDue(proc', Q, Promise[n].status)
    BY <1>6, <1>9, <2>5 DEF LastDue
  <2>7. Waits(proc', Q)
    BY <1>6, <1>7, <1>9, <1>12, <2>3, <2>6 DEF Waits
  <2>8. Returns(proc', Q) /\ Decides(Q) /\ Underway(Q)
    BY <1>6, <1>12 DEF Returns, Decides, Underway
  <2>9. ComesTo(Q)
    BY <1>6, <1>7, <1>8, <1>12 DEF ComesTo
  <2> QED BY <2>2, <2>7, <2>8, <2>9 DEF Answers
<1>13. CASE ~ (P.i < Len(P.pids))
  <2>1. P.i = Len(P.pids)
    BY <1>11, <1>13
  <2>2. s = Promise[n].status
    BY <1>4, <1>9, <2>1 DEF Due
  <2>3. Decides(Q)
    BY <1>6, <1>7, <1>9, <1>13, <2>2 DEF Decides
  <2>4. Alive(proc', Q) /\ Returns(proc', Q) /\ Waits(proc', Q) /\ Underway(Q)
    BY <1>6, <1>13 DEF Alive, Returns, Waits, Underway
  <2>5. ComesTo(Q)
    BY <1>6, <1>7, <1>8, <1>13 DEF ComesTo
  <2> QED BY <2>3, <2>4, <2>5 DEF Answers
<1> QED BY <1>12, <1>13

\* What clear_pid_status leaves alone.
LEMMA ClearKeeps ==
    ASSUME NEW P \in Process
    PROVE  LET C == clear_pid_status(P)
           IN  /\ C \in Process /\ C.pids = << >> /\ C.node = P.node /\ C.pc = P.pc
               /\ C.head_node = P.head_node /\ C.last_status = P.last_status /\ C.ret = P.ret
               /\ C.is_in_round_bracket = P.is_in_round_bracket
               /\ C.is_exec_in_child_ps = P.is_exec_in_child_ps
<1>1. clear_pid_status(P) \in Process
  BY ClearType
<1>2. LET C == clear_pid_status(P)
      IN  /\ C.pids = << >> /\ C.node = P.node /\ C.pc = P.pc
          /\ C.head_node = P.head_node /\ C.last_status = P.last_status /\ C.ret = P.ret
          /\ C.is_in_round_bracket = P.is_in_round_bracket
          /\ C.is_exec_in_child_ps = P.is_exec_in_child_ps
  BY DEF clear_pid_status, Process
<1> QED BY <1>1, <1>2

\* && and || decide: on what the left side promised.
LEMMA DecideAnswers ==
    ASSUME Definite, Serving, exec_and_node(Shell) \/ exec_or_node(Shell)
    PROVE  Answers(proc', proc'[Shell])
<1> DEFINE P == proc[Shell]
           Q == proc'[Shell]
           m == P.node
           l == Ast[m].left
           r == Ast[m].right
           C == clear_pid_status(P)
           s == Promise[l].status
           R == [C EXCEPT !.pc = "exec", !.node = Ast[C.node].right,
                          !.is_exec_in_child_ps = @ /\ C.is_in_round_bracket]
           v == IF C.last_status # 0 THEN C.last_status ELSE EXIT_FAILURE
           and == Ast[m].kind = "ND_AND_OP"
<1>1. P \in Process /\ TypeOK /\ Shell \in Proc /\ ComesTo(P) /\ Decides(P)
  BY ServingShell
<1>2. P.pc = "decide" /\ m \in Node /\ Ast[m].kind \in {"ND_AND_OP", "ND_OR_OP"} /\ m # 0
  <2>1. P.pc = "decide" /\ m \in Node /\ Ast[m].kind \in {"ND_AND_OP", "ND_OR_OP"}
    BY <1>1, DecideDoes
  <2>2. m # 0
    BY <2>1, Nodes
  <2> QED BY <2>1, <2>2
<1>3. /\ C \in Process /\ C.pids = << >> /\ C.node = m /\ C.head_node = P.head_node
      /\ C.last_status = P.last_status /\ C.ret = P.ret
  BY <1>1, ClearKeeps
<1>4. exec_and_node(Shell) => and
  BY <1>2 DEF exec_and_node, Deciding
<1>5. exec_or_node(Shell) => Ast[m].kind = "ND_OR_OP"
  BY <1>2 DEF exec_or_node, Deciding
<1>6. Side(P) = l
  BY <1>2 DEF Side
<1>7. /\ P.last_status = s /\ P.ret \in {0, s} /\ Reached[l] /\ ~ Promise[l].exit
      /\ P.head_node \in Node /\ Parent[P.head_node] = 0
  BY <1>1, <1>2, <1>6 DEF Decides, ComesTo
<1>8. Succeeded(C) <=> s = 0
  BY <1>3, <1>7 DEF Succeeded
<1>9. GoesRight(m) <=> (and <=> s = 0)
  BY <1>7 DEF GoesRight
<1>10. \/ GoesRight(m) /\ Set(Shell, R)
       \/ ~ GoesRight(m) /\ s # 0 /\ Set(Shell, Return(C, v))
       \/ ~ GoesRight(m) /\ s = 0 /\ Set(Shell, Return(C, 0))
  <2>1. CASE exec_and_node(Shell)
    <3>1. Set(Shell, IF Succeeded(C) THEN R ELSE Return(C, v))
      BY <2>1 DEF exec_and_node
    <3> QED BY <1>4, <1>8, <1>9, <2>1, <3>1
  <2>2. CASE exec_or_node(Shell)
    <3>1. Set(Shell, IF Succeeded(C) THEN Return(C, 0) ELSE R)
      BY <2>2 DEF exec_or_node
    <3> QED BY <1>5, <1>8, <1>9, <2>2, <3>1
  <2> QED BY <2>1, <2>2
<1>11. m \notin PipeLeft
  BY <1>2, PipeLeftIs
<1>12. l \in Node /\ Parent[l] = m
  BY <1>2, LeftIs
<1>13. Reached[m]
  BY <1>2, <1>7, <1>12, ReachedStep
<1>14. CASE GoesRight(m) /\ Set(Shell, R)
  <2>1. Q = R
    BY <1>1, <1>14, SetHere
  <2> HIDE DEF C
  <2>2. /\ R.pc = "exec" /\ R.node = Ast[C.node].right /\ R.pids = C.pids
        /\ R.head_node = C.head_node /\ R.last_status = C.last_status
    BY <1>3 DEF Process
  <2> HIDE DEF R
  <2>3. /\ Q.pc = "exec" /\ Q.node = r /\ Q.pids = << >> /\ Q.head_node = P.head_node
        /\ Q.last_status = s
    BY <1>3, <1>7, <2>1, <2>2
  <2> HIDE DEF Q
  <2>4. r \in Node /\ r # 0
    <3>1. r \in Node
      BY <1>2, NodeShape
    <3> HIDE DEF r
    <3> QED BY <3>1, Nodes
  <2>5. Parent[r] = m
    BY <1>2, <2>4, RightIs
  <2>6. Reached[r]
    BY <1>2, <1>13, <1>14, <2>4, ReachedStep
  <2>7. Ast[r].kind = "ND_CMD" /\ Ast[r].cmd.status = Stale => s = 0
    <3>1. AfterAnd(r) => and
      BY <2>5 DEF AfterAnd
    <3>2. ~ AfterAnd(r) => ~ (Ast[r].kind = "ND_CMD" /\ Ast[r].cmd.status = Stale)
      BY <2>4, NotStale
    <3> QED BY <1>9, <1>14, <3>1, <3>2
  <2>8. Alive(proc', Q)
    BY <2>3, NoneAlive
  <2>9. Headed(Q)
    BY <1>7, <2>3 DEF Headed
  <2> HIDE DEF r
  <2>10. Answers(proc', Q)
    BY <2>3, <2>6, <2>7, <2>8, <2>9, BeginsNode
  <2> QED BY <2>10 DEF Q
<1>15. ASSUME ~ GoesRight(m), NEW w, Set(Shell, Return(C, w)), w = s
       PROVE  Answers(proc', Q)
  <2>1. Q = Return(C, w)
    BY <1>1, <1>15, SetHere
  <2> HIDE DEF C
  <2>2. /\ Q.pc = "return" /\ Q.ret = s /\ Q.node = m /\ Q.pids = << >>
        /\ Q.head_node = P.head_node /\ Q.last_status = s
    <3>1. /\ Q.pc = "return" /\ Q.ret = w /\ Q.node = C.node /\ Q.pids = C.pids
          /\ Q.head_node = C.head_node /\ Q.last_status = C.last_status
      BY <1>3, <2>1, ReturnIs
    <3> QED BY <1>3, <1>7, <1>15, <3>1
  <2> HIDE DEF Q
  <2>3. Promise[m] = Promise[l]
    BY <1>2, <1>15, PromisePasses
  <2>4. Headed(Q)
    BY <1>7, <2>2 DEF Headed
  <2>5. /\ Reached[Q.node] /\ Q.node \notin PipeLeft /\ ~ Promise[Q.node].exit
        /\ Q.ret = Promise[Q.node].status /\ Q.last_status = Q.ret
    BY <1>7, <1>11, <1>13, <2>2, <2>3
  <2>6. Answers(proc', Q)
    BY <2>2, <2>4, <2>5, BringsBack
  <2> QED BY <2>6 DEF Q
<1>16. s # 0 => v = s
  BY <1>3, <1>7
<1> QED BY <1>10, <1>14, <1>15, <1>16

\* The brackets come back with what was inside.
LEMMA BracketsAnswer ==
    ASSUME Tidy, Serving, EndOfBrackets(Shell)
    PROVE  Answers(proc', proc'[Shell])
<1> DEFINE P == proc[Shell]
           Q == proc'[Shell]
           m == P.node
           l == Ast[m].left
           C == clear_pid_status(P)
           B == [C EXCEPT !.is_in_round_bracket = FALSE, !.is_exec_in_child_ps = FALSE]
<1>1. P \in Process /\ TypeOK /\ Shell \in Proc /\ ComesTo(P) /\ Decides(P)
  BY ServingShell
<1>2. P.pc = "decide" /\ m \in Node /\ Ast[m].kind = "ND_RND_BRACKET" /\ m # 0
  <2>1. P.pc = "decide" /\ m \in Node /\ Ast[m].kind = "ND_RND_BRACKET"
    BY <1>1, EndOfBracketsDoes
  <2>2. m # 0
    BY <2>1, Nodes
  <2> QED BY <2>1, <2>2
<1>3. /\ C \in Process /\ C.pids = << >> /\ C.node = m /\ C.head_node = P.head_node
      /\ C.last_status = P.last_status
  BY <1>1, ClearKeeps
<1>4. Q = Return(B, C.last_status)
  BY <1>1, SetHere DEF EndOfBrackets
<1> HIDE DEF C
<1>5. B \in Process /\ B.pids = C.pids /\ B.node = C.node /\ B.head_node = C.head_node
      /\ B.last_status = C.last_status
  BY <1>3 DEF Process
<1> HIDE DEF B
<1>6. Side(P) = l
  BY <1>2 DEF Side
<1>7. /\ P.last_status = Promise[l].status /\ Reached[l] /\ ~ Promise[l].exit
      /\ P.head_node \in Node /\ Parent[P.head_node] = 0
  BY <1>1, <1>2, <1>6 DEF Decides, ComesTo
<1>8. l \in Node /\ Parent[l] = m
  BY <1>2, LeftIs
<1>9. Reached[m] /\ Promise[m] = Promise[l]
  BY <1>2, <1>7, <1>8, ReachedStep, PromisePasses
<1>10. m \notin PipeLeft
  BY <1>2 DEF Tidy, Bracket
<1>11. /\ Q.pc = "return" /\ Q.ret = P.last_status /\ Q.node = m /\ Q.pids = << >>
       /\ Q.head_node = P.head_node /\ Q.last_status = P.last_status
  BY <1>3, <1>4, <1>5, ReturnIs
<1> HIDE DEF Q
<1>12. Headed(Q)
  BY <1>7, <1>11 DEF Headed
<1>13. /\ Reached[Q.node] /\ Q.node \notin PipeLeft /\ ~ Promise[Q.node].exit
       /\ Q.ret = Promise[Q.node].status /\ Q.last_status = Q.ret
  BY <1>7, <1>9, <1>10, <1>11
<1>14. Answers(proc', Q)
  BY <1>11, <1>12, <1>13, BringsBack
<1> QED BY <1>14 DEF Q

(***************************************************************************)
(* The shell: from line to line.                                           *)
(***************************************************************************)
\* close_stored_fds only closes.
LEMMA CloseStoredKeeps ==
    ASSUME NEW P \in Process
    PROVE  LET C == close_stored_fds(P)
           IN  /\ C \in Process /\ C.pc = P.pc /\ C.pids = P.pids
               /\ C.last_status = P.last_status /\ C.head_node = P.head_node
<1> DEFINE D == Close(P, P.stored_stdin)
           E == Close(D, P.stored_stdout)
           C == [E EXCEPT !.stored_stdin = -1, !.stored_stdout = -1]
<1>1. close_stored_fds(P) = C
  BY DEF close_stored_fds
<1>2. D \in Process /\ OnlyFds(P, D)
  BY CloseDoes
<1> HIDE DEF D
<1>3. E \in Process /\ OnlyFds(D, E)
  BY <1>2, CloseDoes
<1> HIDE DEF E
<1>4. C.last_status = E.last_status /\ C.head_node = E.head_node
  BY <1>3 DEF Process
<1>5. E.last_status = P.last_status /\ E.head_node = P.head_node
  BY <1>2, <1>3 DEF OnlyFds, SameFlags
<1> HIDE DEF C
<1>6. LET S == close_stored_fds(P) IN S \in Process /\ S.pc = P.pc /\ S.pids = P.pids
  BY CloseStoredType DEF SameStep, Carries
<1> QED BY <1>1, <1>4, <1>5, <1>6

\* At the prompt clear_ctx finds two descriptors to keep the terminal in.
LEMMA PromptHasRoom ==
    ASSUME Ample, Serving, proc[Shell].pc = "prompt"
    PROVE  CanBackup(proc[Shell])
<1> DEFINE P == proc[Shell]
<1>1. P \in Process /\ Std(P) /\ Wires(P)
  BY ServingShell
<1>2. Files(P) /\ Unpiped(P)
  BY <1>1 DEF Wires, Begins
<1>3. ~ (Cardinality(FreeFds(P)) < 2)
  BY <1>1, <1>2, PipeHasRoom
<1>4. IsOpen(P, STDIN_FILENO) /\ IsOpen(P, STDOUT_FILENO)
  BY <1>1, Standard DEF Std, IsOpen, STDIN_FILENO, STDOUT_FILENO
<1>5. Cardinality(FreeFds(P)) \in Nat
  <2>1. IsFiniteSet(FreeFds(P))
    BY Standard, FS_Subset DEF FreeFds
  <2> QED BY <2>1, FS_CardinalityType
<1> QED BY <1>3, <1>4, <1>5 DEF CanBackup

\* What a typed line begins with: its heredocs, or 2 for what the parser refuses.
Typed(Q, root) ==
    IF root = 0
    THEN Q.pc = "prompt" /\ Q.last_status = SyntaxError /\ Q.head_node = 0
    ELSE Q.pc = "heredoc" /\ Q.node = root

\* A line is typed, and so it begins.
LEMMA LineTyped ==
    ASSUME Ample, Serving, ReadLine(Shell)
    PROVE  \E root \in Lines : Typed(proc'[Shell], root)
<1> DEFINE P == proc[Shell]
           Q == proc'[Shell]
           C == clear_ctx(P)
           D == close_stored_fds(C)
<1>1. P \in Process /\ TypeOK /\ Shell \in Proc
  BY ServingShell
<1>2. P.pc = "prompt"
  BY DEF ReadLine
<1>3. CanBackup(P)
  BY <1>2, PromptHasRoom
<1>4. C \in Process /\ C.head_node = 0
  BY <1>1, <1>3, StartsClear, ClearCtxDoes
<1>5. C.pc = "prompt"
  <2> DEFINE B == [P EXCEPT !.in_pipe_fd = -1, !.out_pipe_fd = -1, !.pre_in_pipe_fd = -1,
                            !.pids = << >>, !.is_exec_in_child_ps = FALSE,
                            !.is_in_round_bracket = FALSE, !.head_node = 0]
  <2>1. B \in Process /\ B.pc = "prompt" /\ B.fds = P.fds
    BY <1>1, <1>2, Null, ZenonT(60) DEF Process
  <2>2. Cardinality(FreeFds(B)) >= 2
    BY <1>3, <2>1 DEF CanBackup, FreeFds
  <2>3. C = backup_std_fds(B)
    BY DEF clear_ctx
  <2> HIDE DEF B
  <2> QED BY <2>1, <2>2, <2>3, BackupType DEF SameStep
<1> HIDE DEF C
<1>6. D \in Process /\ D.pc = "prompt" /\ D.head_node = 0
  BY <1>4, <1>5, CloseStoredKeeps
<1>7. PICK root \in Lines :
        Set(Shell, IF root = 0 THEN [D EXCEPT !.last_status = SyntaxError]
                   ELSE [C EXCEPT !.pc = "heredoc", !.node = root, !.i = 0])
  BY <1>3 DEF ReadLine, C
<1> HIDE DEF D
<1>8. CASE root = 0
  <2>1. Q = [D EXCEPT !.last_status = SyntaxError]
    BY <1>1, <1>7, <1>8, SetHere
  <2>2. Q.pc = "prompt" /\ Q.last_status = SyntaxError /\ Q.head_node = 0
    BY <1>6, <2>1 DEF Process
  <2> QED BY <1>8, <2>2 DEF Typed
<1>9. CASE root # 0
  <2>1. Q = [C EXCEPT !.pc = "heredoc", !.node = root, !.i = 0]
    BY <1>1, <1>7, <1>9, SetHere
  <2>2. Q.pc = "heredoc" /\ Q.node = root
    BY <1>4, <2>1 DEF Process
  <2> QED BY <1>9, <2>2 DEF Typed
<1> QED BY <1>8, <1>9

\* The line is over: the shell is back at the prompt with what the line promised.
LEMMA LineEnds ==
    ASSUME Serving, EndOfLine(Shell)
    PROVE  LET P == proc[Shell]
               Q == proc'[Shell]
           IN  /\ P.pc = "decide" /\ Q.pc = "prompt" /\ Q.head_node = 0
               /\ Q.last_status = Promise[P.head_node].status /\ ~ Promise[P.head_node].exit
<1> DEFINE P == proc[Shell]
           Q == proc'[Shell]
           C == close_stored_fds(P)
           Y == [C EXCEPT !.pc = "prompt", !.head_node = 0, !.fd_num = NoHeredocs,
                          !.ret = 0, !.c_status = 0, !.i = 0]
<1>1. P \in Process /\ TypeOK /\ Shell \in Proc /\ ComesTo(P) /\ Decides(P)
  BY ServingShell
<1>2. P.pc = "decide" /\ P.node = 0
  BY DEF EndOfLine
<1>3. Side(P) = P.head_node
  BY <1>2 DEF Side
<1>4. P.last_status = Promise[P.head_node].status /\ ~ Promise[P.head_node].exit
  BY <1>1, <1>2, <1>3 DEF Decides, ComesTo
<1>5. C \in Process /\ C.last_status = P.last_status
  BY <1>1, CloseStoredKeeps
<1>6. Set(Shell, Y)
  BY DEF EndOfLine
<1>7. Q = Y
  BY <1>1, <1>6, SetHere
<1> HIDE DEF C
<1>8. Y.pc = "prompt" /\ Y.head_node = 0 /\ Y.last_status = C.last_status
  BY <1>5 DEF Process
<1> HIDE DEF Y
<1> QED BY <1>2, <1>4, <1>5, <1>7, <1>8

\* Between lines there is nothing to answer for.
LEMMA PromptAnswers ==
    ASSUME NEW g, NEW Q, Q.pc \in {"prompt", "heredoc"}, Q.pc = "prompt" => Q.head_node = 0
    PROVE  Answers(g, Q)
BY DEF Answers, Underway, Alive, ComesTo, Returns, Waits, Decides

\* A step of the shell leaves it where it answers for what is promised, or ends it.
LEMMA ShellAnswers ==
    ASSUME Tidy, Ample, Definite, Serving, Advances(Shell), ~ Gone(proc'[Shell])
    PROVE  Answers(proc', proc'[Shell])
<1> DEFINE P == proc[Shell]
           Q == proc'[Shell]
<1>1. P \in Process /\ TypeOK /\ Shell \in Proc /\ ShellRuns(P)
  BY ServingShell
<1>2. ~ Heredoc(Shell)
  <2>1. \A m \in RedirectNode : HeredocOps(m) = {}
    BY DEF Tidy
  <2>2. HeredocNodes(P) = {}
    BY <2>1 DEF HeredocNodes
  <2> QED BY <2>2 DEF Heredoc
<1>3. ~ EndOfInput(Shell)
  BY <1>1, EndOfInputDoes
<1>4. ~ ChildSetup(Shell)
  BY <1>1 DEF ChildSetup, ShellRuns
<1>5. CASE ReadLine(Shell)
  BY <1>5, LineTyped, PromptAnswers DEF Typed
<1>6. CASE EndOfLine(Shell)
  BY <1>6, LineEnds, PromptAnswers
<1>7. CASE HeredocsRead(Shell)
  BY <1>7, RootAnswers
<1>8. CASE exec_pipe(Shell) \/ exec_logical(Shell) \/ exec_round_brackets(Shell)
  BY <1>8, LeftAnswers
<1>9. CASE exec_redirect(Shell) \/ exec_cmd_here(Shell)
  BY <1>9, HereAnswers
<1>10. CASE exec_cmd_forked(Shell)
  BY <1>10, ForkAnswers
<1>11. CASE exec_cmd(Shell) \/ exec_cmd_with_heredoc(Shell)
  BY <1>11, WordsAnswer
<1>12. CASE apply_redirects(Shell)
  BY <1>12, RedirectAnswers
<1>13. CASE run_builtin(Shell)
  BY <1>13, BuiltinAnswers
<1>14. CASE RunsOn(Shell)
  BY <1>14, WriteAnswers
<1>15. CASE ReturnFromRight(Shell)
  BY <1>15, RightAnswers
<1>16. CASE ReturnFromPipeLeft(Shell)
  BY <1>16, PipeAnswers
<1>17. CASE ReturnAndWait(Shell)
  BY <1>17, WaitBegins
<1>18. CASE WaitChild(Shell) \/ WaitNoChild(Shell)
  BY <1>18, WaitAnswers
<1>19. CASE exec_and_node(Shell) \/ exec_or_node(Shell)
  BY <1>19, DecideAnswers
<1>20. CASE EndOfBrackets(Shell)
  BY <1>20, BracketsAnswer
<1> QED BY <1>2, <1>3, <1>4, <1>5, <1>6, <1>7, <1>8, <1>9, <1>10, <1>11, <1>12, <1>13,
           <1>14, <1>15, <1>16, <1>17, <1>18, <1>19, <1>20 DEF Advances, Step, RunsOn

(***************************************************************************)
(* The invariant is kept.                                                  *)
(***************************************************************************)
\* Who is gone does nothing.
LEMMA GoneRests ==
    ASSUME NEW p \in Proc, Gone(proc[p])
    PROVE  ~ Advances(p)
BY DEF Advances, Step, Gone, ReadLine, EndOfInput, Heredoc, HeredocsRead, exec_pipe,
   exec_logical, exec_round_brackets, exec_redirect, exec_cmd_here, exec_cmd_forked, AtNode,
   ChildSetup, exec_cmd, exec_cmd_with_heredoc, apply_redirects, run_builtin, Write, Read,
   ReadEof, Reading, ProgramExit, ReturnFromRight, ReturnFromPipeLeft, ReturnAndWait, WaitChild,
   WaitNoChild, exec_and_node, exec_or_node, EndOfBrackets, EndOfLine, Deciding

\* The shell is nobody's child, and stays so.
LEMMA ShellParent ==
    ASSUME TypeOK, proc[Shell].parent = 0, Advances(Shell)
    PROVE  proc'[Shell].parent = 0 /\ proc'[Shell].pc # "free"
<1> DEFINE P == proc[Shell]
           Q == proc'[Shell]
<1>1. Shell \in Proc
  BY BoundsAssumption DEF Shell, Proc
<1>2. P \in Process /\ P.pc \notin {"free", "zombie"}
  BY <1>1, Here, GoneRests DEF Gone
<1>3. ASSUME NEW X, Set(Shell, X), X.parent = 0, X.pc # "free"
      PROVE  Q.parent = 0 /\ Q.pc # "free"
  BY <1>1, <1>3, SetHere
<1>4. ASSUME NEW s \in 0 .. 255, Exit(Shell, s)
      PROVE  Q.parent = 0 /\ Q.pc # "free"
  BY <1>1, <1>4, ExitLeaves
<1>5. CASE Plain(Shell)
  <2>1. \/ \E X : GoesOn(P, X) /\ Set(Shell, X)
        \/ \E s \in 0 .. 255 : Exit(Shell, s)
    BY <1>1, <1>5, PlainMoves DEF Moves
  <2>2. \A X : GoesOn(P, X) => X.parent = 0 /\ X.pc # "free"
    BY <1>2 DEF GoesOn, Carries, Busy
  <2> QED BY <1>3, <1>4, <2>1, <2>2
<1>6. CASE Clearing(Shell)
  <2>1. \/ \E X : Set(Shell, X) /\ X.parent = P.parent /\ X.pc # "free"
        \/ \E s \in 0 .. 255 : Exit(Shell, s)
    BY <1>1, <1>6, ClearingClears DEF Clears
  <2> QED BY <1>3, <1>4, <2>1
<1>7. CASE exec_cmd_forked(Shell)
  <2>1. FreeSlots # {} => /\ AfterFork(Shell) \in [Proc -> Good]
                          /\ AfterFork(Shell)[Shell].parent = 0
                          /\ ParentDone(Shell).parent = 0 /\ ParentDone(Shell).pc = "return"
    <3>1. SUFFICES ASSUME FreeSlots # {}
                   PROVE  /\ AfterFork(Shell) \in [Proc -> Good]
                          /\ AfterFork(Shell)[Shell].parent = 0
                          /\ ParentDone(Shell).parent = 0 /\ ParentDone(Shell).pc = "return"
      OBVIOUS
    <3>2. /\ AfterFork(Shell) \in [Proc -> Good] /\ ForkedParent(Shell).parent = P.parent
          /\ ParentDone(Shell).pc = "return" /\ Carries(ForkedParent(Shell), ParentDone(Shell))
      BY <1>1, <1>7, <3>1, ForkType
    <3>3. AfterFork(Shell)[Shell] = ForkedParent(Shell)
      <4>1. proc \in [Proc -> Good]
        BY ProcType
      <4> QED BY <1>1, <4>1 DEF AfterFork
    <3> QED BY <3>2, <3>3 DEF Carries
  <2>2. CASE Exit(Shell, EXIT_FAILURE)
    BY <1>4, <2>2, Null
  <2>3. CASE FreeSlots # {} /\ proc' = ExitIn(AfterFork(Shell), Shell, EXIT_FAILURE)
    <3> DEFINE Z == [NoProcess EXCEPT !.pc = "zombie", !.c_status = EXIT_FAILURE,
                                      !.parent = AfterFork(Shell)[Shell].parent]
    <3>1. Q = Z
      BY <1>1, <2>3 DEF ExitIn
    <3>2. Z.parent = AfterFork(Shell)[Shell].parent /\ Z.pc = "zombie"
      BY DEF NoProcess
    <3> HIDE DEF Z
    <3> QED BY <2>1, <2>3, <3>1, <3>2
  <2>4. CASE FreeSlots # {} /\ proc' = [AfterFork(Shell) EXCEPT ![Shell] = ParentDone(Shell)]
    <3>1. Q = ParentDone(Shell)
      BY <1>1, <2>1, <2>4
    <3> QED BY <2>1, <2>4, <3>1
  <2> QED BY <1>1, <1>7, <2>2, <2>3, <2>4, ForkCases
<1>8. CASE ReturnAndWait(Shell)
  <2>1. \E X : Set(Shell, X) /\ Carries(P, X) /\ X.pc \in {"decide", "wait"}
    BY <1>1, <1>8, ReturnAndWaitShape
  <2> QED BY <1>3, <2>1 DEF Carries
<1>9. CASE WaitChild(Shell) \/ WaitNoChild(Shell)
  <2>1. P.pc = "wait" /\ Q.pc \in {"wait", "decide"}
    BY <1>1, <1>9, WaitDoes
  <2>2. \E s : Q = AfterWaitpid(P, s)
    <3>1. proc \in [Proc -> Good]
      BY ProcType
    <3> QED BY <1>1, <1>9, <3>1 DEF WaitChild, WaitNoChild, Set
  <2> QED BY <1>2, <2>1, <2>2, AfterWaitpidIs
<1> QED BY <1>5, <1>6, <1>7, <1>8, <1>9 DEF Advances, Step, Plain, Clearing

\* The answer is kept by who only goes on to what it is due to leave.
LEMMA AnswersKept ==
    ASSUME NEW f, NEW g, NEW P \in Process, Answers(f, P),
           \A r \in Others : f[r].pc # "free" => g[r].pc # "free",
           \A r \in Others : \A s : Due(f[r], s) => Due(g[r], s)
    PROVE  Answers(g, P)
<1>1. Alive(f, P) /\ Returns(f, P) /\ Waits(f, P)
  BY DEF Answers
<1>2. Alive(g, P)
  BY <1>1 DEF Alive
<1>3. ASSUME P.pc \in {"return", "wait"}, NEW s, LastDue(f, P, s) PROVE LastDue(g, P, s)
  <2> DEFINE j == Len(P.pids)
  <2>1. P.pids \in Seq(Proc \cup {0}) /\ P.pids # << >> /\ Due(f[P.pids[j]], s)
    BY <1>3 DEF LastDue, Process
  <2>2. j \in DOMAIN P.pids
    BY <2>1
  <2>3. P.pc = "wait" => P.i <= j
    BY <1>1, <2>1 DEF Waits
  <2>4. P.pids[j] \in Others
    BY <1>1, <1>3, <2>2, <2>3 DEF Alive
  <2> QED BY <2>1, <2>4 DEF LastDue
<1>4. Returns(g, P)
  BY <1>1, <1>3 DEF Returns
<1>5. Waits(g, P)
  BY <1>1, <1>3 DEF Waits
<1> QED BY <1>2, <1>4, <1>5 DEF Answers

\* What is left of a child that the shell has waited for is a free slot.
LEMMA Reaped ==
    ASSUME TypeOK, WaitChild(Shell), NEW r \in Others
    PROVE  proc'[r] = proc[r] \/ proc'[r].pc = "free"
<1>1. PICK q \in Awaited(Shell) :
        proc' = [proc EXCEPT ![q] = NoProcess,
                             ![Shell] = AfterWaitpid(proc[Shell], proc[q].c_status)]
  BY DEF WaitChild
<1>2. proc \in [Proc -> Good] /\ r \in Proc /\ r # Shell
  BY ProcType DEF Others
<1>3. q \in Proc /\ NoProcess.pc = "free"
  BY DEF Awaited, ChildrenOf, NoProcess
<1> QED BY <1>1, <1>2, <1>3

\* A step of the shell leaves the children underway.
LEMMA KidsDueByShell ==
    ASSUME Tidy, Ample, Definite, Serving, Advances(Shell), ~ Gone(proc'[Shell])
    PROVE  KidsDue(proc')
<1>1. TypeOK /\ Shell \in Proc /\ \A r \in Others : Underway(proc[r]) /\ Equipped(proc[r])
  BY ServingShell DEF Serving, Faithful, KidsDue
<1>2. SUFFICES ASSUME NEW r \in Others
               PROVE  Underway(proc'[r]) /\ Equipped(proc'[r])
  BY DEF KidsDue
<1>3. r \in Proc \ {Shell}
  BY DEF Others
<1>4. CASE exec_cmd_forked(Shell)
  BY <1>1, <1>4, ForkAnswers
<1>5. CASE ~ exec_cmd_forked(Shell)
  <2>1. CASE proc'[r].pc = "free"
    BY <2>1 DEF Underway, Equipped, Gone
  <2>2. CASE proc'[r] = proc[r]
    BY <1>1, <2>2
  <2>3. \/ proc'[r].pc = "free"
        \/ proc'[r] = proc[r]
        \/ WaitChild(Shell)
    BY <1>1, <1>3, <1>5, Unmoved
  <2> QED BY <1>1, <2>1, <2>2, <2>3, Reaped
<1> QED BY <1>4, <1>5

\* A step of a child leaves it, and the others, due to leave what they were.
LEMMA KidsDueByKid ==
    ASSUME Tidy, Ample, Serving, NEW r \in Others, Advances(r)
    PROVE  /\ KidsDue(proc')
           /\ \A s \in Others : proc[s].pc # "free" => proc'[s].pc # "free"
           /\ \A s \in Others : \A x : Due(proc[s], x) => Due(proc'[s], x)
<1>1. Standing /\ KidsDue(proc) /\ proc[Shell].parent = 0 /\ proc[Shell].pc # "free"
      /\ ~ Gone(proc[Shell])
  BY DEF Serving, Faithful
<1>2. /\ Works(r) /\ ~ Gone(proc[r])
      /\ \A s \in Others \ {r} : /\ proc[s].pc = "free" => proc'[s].pc = "free"
                                 /\ proc[s].pc # "free" => proc'[s] = proc[s]
  BY <1>1, KidWorks
<1>3. Own(r)
  BY <1>1 DEF Standing, Tree
<1>4. proc[r].parent # 0
  BY <1>1, <1>2, <1>3 DEF Own, Gone, Shell
<1>5. Underway(proc[r]) /\ Equipped(proc[r])
  BY <1>1 DEF KidsDue
<1>6. Turns(proc[r], proc'[r])
  BY <1>1, <1>2, <1>4, <1>5, KidTurns
<1>7. Underway(proc'[r]) /\ Equipped(proc'[r]) /\ proc'[r].pc # "free"
  BY <1>6 DEF Turns, Underway, Equipped, Gone
<1>8. \A x : Due(proc[r], x) => Due(proc'[r], x)
  BY <1>2, <1>6, <1>7 DEF Turns, Due, Gone
<1>9. ASSUME NEW s \in Others \ {r}
      PROVE  /\ Underway(proc'[s]) /\ Equipped(proc'[s])
             /\ proc[s].pc # "free" => proc'[s].pc # "free"
             /\ \A x : Due(proc[s], x) => Due(proc'[s], x)
  <2>1. CASE proc[s].pc = "free"
    BY <1>2, <2>1 DEF Underway, Equipped, Gone, Due
  <2>2. CASE proc[s].pc # "free"
    BY <1>1, <1>2, <2>2 DEF KidsDue
  <2> QED BY <2>1, <2>2
<1>10. \A s \in Others : /\ Underway(proc'[s]) /\ Equipped(proc'[s])
                         /\ proc[s].pc # "free" => proc'[s].pc # "free"
                         /\ \A x : Due(proc[s], x) => Due(proc'[s], x)
  BY <1>7, <1>8, <1>9
<1> QED BY <1>10 DEF KidsDue

\* A session starts faithful.
LEMMA FaithfulFirst ==
    ASSUME Init
    PROVE  Faithful(proc)
<1>1. Shell \in Proc /\ proc[Shell] = init_ctx
  BY ShellStarts, BoundsAssumption DEF Shell, Proc
<1>2. init_ctx.pc = "prompt" /\ init_ctx.parent = 0 /\ init_ctx.head_node = 0
  BY DEF init_ctx, NoProcess
<1>3. \A r \in Others : proc[r].pc = "free"
  BY DEF Init, Others, NoProcess
<1>4. Answers(proc, proc[Shell])
  BY <1>1, <1>2, PromptAnswers
<1>5. KidsDue(proc)
  BY <1>3 DEF KidsDue, Underway, Equipped, Gone
<1> QED BY <1>1, <1>2, <1>4, <1>5 DEF Faithful

\* And it stays so.
LEMMA FaithfulKept ==
    ASSUME Tidy, Ample, Definite, Standing, [Next]_vars, Faithful(proc)
    PROVE  Faithful(proc')
<1>1. TypeOK /\ Shell \in Proc /\ proc[Shell].parent = 0 /\ proc[Shell].pc # "free"
      /\ proc[Shell] \in Process
  BY Here, BoundsAssumption DEF Standing, Faithful, Shell, Proc
<1>2. CASE UNCHANGED vars
  BY <1>2 DEF vars
<1>3. CASE Advances(Shell)
  <2>1. Serving
    BY <1>1, <1>3, GoneRests DEF Serving
  <2>2. proc'[Shell].parent = 0 /\ proc'[Shell].pc # "free"
    BY <1>1, <1>3, ShellParent
  <2>3. ~ Gone(proc'[Shell]) => KidsDue(proc') /\ Answers(proc', proc'[Shell])
    BY <1>3, <2>1, KidsDueByShell, ShellAnswers
  <2> QED BY <2>2, <2>3 DEF Faithful
<1>4. ASSUME NEW r \in Others, Advances(r) PROVE Faithful(proc')
  <2>1. proc'[Shell] = proc[Shell]
    BY <1>1, <1>4, KidWorks
  <2>2. ~ Gone(proc[Shell]) => KidsDue(proc') /\ Answers(proc', proc[Shell])
    <3>1. SUFFICES ASSUME ~ Gone(proc[Shell])
                   PROVE  KidsDue(proc') /\ Answers(proc', proc[Shell])
      OBVIOUS
    <3>2. Serving /\ Answers(proc, proc[Shell])
      BY <3>1 DEF Serving, Faithful
    <3>3. /\ KidsDue(proc')
          /\ \A s \in Others : proc[s].pc # "free" => proc'[s].pc # "free"
          /\ \A s \in Others : \A x : Due(proc[s], x) => Due(proc'[s], x)
      BY <1>4, <3>2, KidsDueByKid
    <3> QED BY <1>1, <3>2, <3>3, AnswersKept
  <2> QED BY <1>1, <2>1, <2>2 DEF Faithful
<1>5. UNCHANGED vars \/ \E p \in Proc : Advances(p)
  BY DEF Next, Ended, Advances
<1> QED BY <1>2, <1>3, <1>4, <1>5 DEF Others

(***************************************************************************)
(* The steps, seen from the prompt.                                        *)
(***************************************************************************)
\* The tree of the line that is carried out.
LineOf(P) == IF P.pc = "heredoc" THEN P.node ELSE P.head_node

\* What CommandLine sees of a step: nothing.
Unseen(P, Q) == /\ P.pc \notin {"prompt", "zombie"} /\ Q.pc \notin {"prompt", "zombie"}
                /\ LineOf(Q) = LineOf(P)

\* Such a step is a stutter of CommandLine.
LEMMA Stutters ==
    ASSUME Unseen(proc[Shell], proc'[Shell]), UNCHANGED typed
    PROVE  UNCHANGED Promised!vars
BY DEF Unseen, LineOf, Promised!vars

\* Both specifications make the same promise.
LEMMA SamePromise == Promised!Promise = Promise
BY DEF Promised!Promise, Promise, Promised!CommandOutcome, CommandOutcome, Promised!RedirectsOf,
   RedirectsOf, Promised!InSubshell, InSubshell, Promised!Parent, Parent, Promised!Node, Node,
   Promised!IsChildOf, IsChildOf, Promised!Stale, Stale

\* ReadLine takes a line,
LEMMA LineIsTyped ==
    ASSUME Ample, Serving, ReadLine(Shell)
    PROVE  Promised!Next
<1> DEFINE P == proc[Shell]
           Q == proc'[Shell]
<1>1. P.pc = "prompt" /\ P.head_node = 0
  BY ServingShell DEF ReadLine, ComesTo
<1>2. PICK root \in Lines : Typed(Q, root)
  BY LineTyped
<1>3. typed < MaxLines /\ typed' = typed + 1
  BY DEF ReadLine
<1>4. CASE root = 0
  <2>1. Q.pc = "prompt" /\ Q.last_status = 2 /\ Q.head_node = 0
    BY <1>2, <1>4 DEF Typed, SyntaxError
  <2> QED BY <1>1, <1>3, <1>4, <2>1 DEF Promised!Next, Promised!TypeLine, Promised!SyntaxError
<1>5. CASE root # 0
  <2>1. Q.pc = "heredoc" /\ Q.node = root
    BY <1>2, <1>5 DEF Typed
  <2> QED BY <1>1, <1>3, <1>5, <2>1 DEF Promised!Next, Promised!TypeLine
<1> QED BY <1>4, <1>5

\* EndOfInput ends the shell with $?,
LEMMA InputEnds ==
    ASSUME Serving, EndOfInput(Shell)
    PROVE  Promised!Next
<1> DEFINE P == proc[Shell]
           Q == proc'[Shell]
<1>1. P.pc = "prompt" /\ P.head_node = 0 /\ P \in Process /\ TypeOK /\ Shell \in Proc
  BY ServingShell DEF EndOfInput, ComesTo
<1>2. Exit(Shell, P.last_status) /\ UNCHANGED typed /\ P.last_status \in 0 .. 255
  BY <1>1 DEF EndOfInput, Process
<1>3. Q.pc = "zombie" /\ Q.c_status = P.last_status /\ Q.head_node = 0
  <2> DEFINE s == P.last_status
  <2>1. Exit(Shell, s) /\ s \in 0 .. 255
    BY <1>2
  <2> HIDE DEF s
  <2>2. Q.pc = "zombie" /\ Q.c_status = s /\ Q.head_node = 0
    BY <1>1, <2>1, ExitLeaves
  <2> QED BY <2>2 DEF s
<1> QED BY <1>1, <1>2, <1>3 DEF Promised!Next, Promised!EndOfInput

\* EndOfLine ends the line,
LEMMA LineFinishes ==
    ASSUME Serving, EndOfLine(Shell)
    PROVE  Promised!Next
<1> DEFINE P == proc[Shell]
           Q == proc'[Shell]
<1>1. /\ P.pc = "decide" /\ Q.pc = "prompt" /\ Q.head_node = 0
      /\ Q.last_status = Promise[P.head_node].status /\ ~ Promise[P.head_node].exit
  BY LineEnds
<1>2. UNCHANGED typed
  BY DEF EndOfLine
<1> QED BY <1>1, <1>2, SamePromise DEF Promised!Next, Promised!Finish

\* and so does the builtin exit, with the shell.
LEMMA ExitFinishes ==
    ASSUME Tidy, Serving, run_builtin(Shell), Gone(proc'[Shell])
    PROVE  Promised!Next
<1> DEFINE P == proc[Shell]
           Q == proc'[Shell]
           n == P.node
           s == BuiltinStatus(P)
<1>1. P \in Process /\ TypeOK /\ Shell \in Proc /\ ComesTo(P) /\ Underway(P) /\ AtItsNode(P)
      /\ Outside(P) /\ Flags(P) /\ ShellAt(P)
  BY ServingShell
<1>2. P.pc = "builtin" /\ UNCHANGED typed
  BY DEF run_builtin
<1>3. n \in Node /\ Ast[n].kind = "ND_CMD"
  BY <1>1, <1>2 DEF AtItsNode
<1>4. s = Promise[n].status /\ s \in 0 .. 255
  BY <1>1, <1>2, <1>3, BuiltinLeaves
<1>5. Ast[n].cmd.exits /\ ~ P.is_exec_in_child_ps
  <2>1. ~ P.is_exec_in_child_ps
    BY <1>1, <1>2 DEF Outside
  <2>2. ASSUME ~ Ast[n].cmd.exits PROVE FALSE
    <3> DEFINE B == [P EXCEPT !.last_status = s]
    <3>1. Set(Shell, Return(IF s = 0 THEN restore_std_fds(B) ELSE B, s))
      BY <2>1, <2>2 DEF run_builtin
    <3>2. B \in Process
      BY <1>1, <1>3, StatusIsKept
    <3> HIDE DEF B, s
    <3>3. restore_std_fds(B) \in Process
      BY <3>2, RestoreDoes
    <3>4. PICK X \in {B, restore_std_fds(B)} : Set(Shell, Return(X, s))
      BY <3>1
    <3>5. Q = Return(X, s) /\ X \in Process
      BY <1>1, <3>2, <3>3, <3>4, SetHere
    <3> QED BY <3>5, ReturnIs DEF Gone
  <2> QED BY <2>1, <2>2
<1>6. Exit(Shell, s)
  BY <1>5 DEF run_builtin
<1> HIDE DEF s
<1>7. Q.pc = "zombie" /\ Q.c_status = s /\ Q.head_node = 0
  BY <1>1, <1>4, <1>6, ExitLeaves
<1>8. ~ InSubshell[n] /\ Root[n] = P.head_node /\ Reached[n]
      /\ Ast[n].cmd.word # "empty" /\ AllOpened(n)
  BY <1>1, <1>2 DEF Flags, ShellAt, ComesTo, Underway
<1>9. Promise[n].exit
  BY <1>3, <1>5, <1>8, CommandIs
<1>10. Promise[P.head_node] = Promise[n]
  BY <1>3, <1>8, <1>9, ExitsLine
<1> QED BY <1>2, <1>4, <1>7, <1>9, <1>10, SamePromise DEF Promised!Next, Promised!Finish
\* The steps on the way, from the prompt to the prompt, stay inside the line.
OnTheWay(P, Q) == P.pc # "prompt" /\ Q.pc # "prompt" /\ LineOf(Q) = LineOf(P)

\* A step that goes on along the tree is on the way.
LEMMA PlainOnTheWay ==
    ASSUME Tidy, Serving, Plain(Shell), ~ EndOfInput(Shell), ~ Gone(proc'[Shell])
    PROVE  OnTheWay(proc[Shell], proc'[Shell]) /\ UNCHANGED typed
<1> DEFINE P == proc[Shell]
           Q == proc'[Shell]
<1>1. P \in Process /\ TypeOK /\ Shell \in Proc /\ ShellRuns(P)
  BY ServingShell
<1>2. UNCHANGED typed
  BY <1>1, PlainMoves DEF Moves
<1>3. ~ Heredoc(Shell)
  <2>1. \A m \in RedirectNode : HeredocOps(m) = {}
    BY DEF Tidy
  <2>2. HeredocNodes(P) = {}
    BY <2>1 DEF HeredocNodes
  <2> QED BY <2>2 DEF Heredoc
<1>4. ~ ChildSetup(Shell)
  BY <1>1 DEF ChildSetup, ShellRuns
<1>5. ASSUME P.pc \in Busy, Q.pc \in Busy, Q.head_node = P.head_node PROVE OnTheWay(P, Q)
  BY <1>5 DEF OnTheWay, LineOf, Busy
<1>6. CASE HeredocsRead(Shell)
  <2>1. P.pc = "heredoc" /\ Q.pc = "exec" /\ Q.head_node = P.node
    BY <1>1, <1>6, HeredocsReadDoes DEF At
  <2> QED BY <1>2, <2>1 DEF OnTheWay, LineOf
<1>7. CASE exec_pipe(Shell)
  BY <1>1, <1>2, <1>5, <1>7, exec_pipeDoes DEF At, Busy
<1>8. CASE exec_logical(Shell) \/ exec_round_brackets(Shell)
  BY <1>1, <1>2, <1>5, <1>8, exec_logicalDoes, exec_round_bracketsDoes DEF At, Busy, SameFlags
<1>9. CASE exec_redirect(Shell) \/ exec_cmd_here(Shell)
  BY <1>1, <1>2, <1>5, <1>9, exec_redirectDoes, exec_cmd_hereDoes DEF At, Busy, SameFlags
<1>10. CASE exec_cmd(Shell) \/ exec_cmd_with_heredoc(Shell)
  <2>1. P.pc = "cmd" /\ Expanded(P, Q) /\ SameFlags(P, Q)
    BY <1>1, <1>10, exec_cmdDoes
  <2> QED BY <1>2, <1>5, <2>1 DEF Expanded, Busy, SameFlags
<1>11. CASE apply_redirects(Shell)
  <2>1. P.pc = "redirect" /\ Redirected(P, Applied(P), Q) /\ SameFlags(P, Q)
    BY <1>1, <1>11, apply_redirectsDoes
  <2> QED BY <1>2, <1>5, <2>1 DEF Redirected, At, Busy, SameFlags
<1>12. CASE run_builtin(Shell)
  BY <1>1, <1>2, <1>5, <1>12, run_builtinDoes DEF At, Busy, SameFlags
<1>13. CASE RunsOn(Shell)
  BY <1>1, <1>2, <1>5, <1>13, RunsOnDoes DEF At, Busy, SameFlags
<1>14. CASE ReturnFromRight(Shell) \/ ReturnFromPipeLeft(Shell)
  BY <1>1, <1>2, <1>5, <1>14, ReturnFromRightDoes, ReturnFromPipeLeftDoes DEF At, Busy, SameFlags
<1> QED BY <1>3, <1>4, <1>6, <1>7, <1>8, <1>9, <1>10, <1>11, <1>12, <1>13, <1>14
        DEF Plain, RunsOn

\* A fork, the wait for the children and what is decided after it.
LEMMA OthersOnTheWay ==
    ASSUME Serving, ~ Gone(proc'[Shell]),
           \/ exec_cmd_forked(Shell) \/ ReturnAndWait(Shell)
           \/ WaitChild(Shell) \/ WaitNoChild(Shell)
           \/ exec_and_node(Shell) \/ exec_or_node(Shell) \/ EndOfBrackets(Shell)
    PROVE  OnTheWay(proc[Shell], proc'[Shell]) /\ UNCHANGED typed
<1> DEFINE P == proc[Shell]
           Q == proc'[Shell]
<1>1. P \in Process /\ TypeOK /\ Shell \in Proc
  BY ServingShell
<1>2. UNCHANGED typed
  BY DEF exec_cmd_forked, ReturnAndWait, WaitChild, WaitNoChild, exec_and_node, exec_or_node,
     EndOfBrackets
<1>3. ASSUME P.pc \notin {"prompt", "heredoc"}, Q.pc \notin {"prompt", "heredoc"},
             Q.head_node = P.head_node
      PROVE  OnTheWay(P, Q)
  BY <1>3 DEF OnTheWay, LineOf
<1>4. CASE exec_cmd_forked(Shell)
  BY <1>1, <1>2, <1>3, <1>4, exec_cmd_forkedDoes DEF At, SameFlags
<1>5. CASE ReturnAndWait(Shell)
  BY <1>1, <1>2, <1>3, <1>5, ReturnAndWaitDoes DEF SameFlags
<1>6. CASE WaitChild(Shell) \/ WaitNoChild(Shell)
  BY <1>1, <1>2, <1>3, <1>6, WaitDoes DEF SameFlags
<1>7. CASE exec_and_node(Shell) \/ exec_or_node(Shell)
  BY <1>1, <1>2, <1>3, <1>7, DecideDoes DEF At, SameFlags
<1>8. CASE EndOfBrackets(Shell)
  BY <1>1, <1>2, <1>3, <1>8, EndOfBracketsDoes DEF At
<1> QED BY <1>4, <1>5, <1>6, <1>7, <1>8

\* Only the end of the input and the builtin exit end the shell.
LEMMA GoesByExit ==
    ASSUME Tidy, Ample, Serving, [Next]_vars, Advances(Shell), Gone(proc'[Shell])
    PROVE  EndOfInput(Shell) \/ run_builtin(Shell) \/ ReadLine(Shell)
<1> DEFINE P == proc[Shell]
           Q == proc'[Shell]
<1>1. /\ P \in Process /\ TypeOK /\ Shell \in Proc /\ P.parent = 0 /\ P.pc \notin {"free", "zombie"}
      /\ ShellRuns(P) /\ Wires(P)
  BY ServingShell DEF Serving, Faithful, Gone
<1>2. Q.pc = "zombie"
  BY <1>1, ShellParent DEF Gone
<1>3. /\ PidsInBounds /\ Sound /\ Wired(P) /\ Outside(P) /\ Few(P) /\ \A r \in Others : Own(r)
  BY DEF Serving, Standing, Tree
<1>4. P.pc = "prompt" \/ P.pc = "builtin"
  BY <1>1, <1>2, <1>3, NoExit
<1>5. CASE P.pc = "prompt"
  BY <1>5 DEF Advances, Step, Heredoc, HeredocsRead, exec_pipe,
     exec_logical, exec_round_brackets, exec_redirect, exec_cmd_here, exec_cmd_forked, AtNode,
     ChildSetup, exec_cmd, exec_cmd_with_heredoc, apply_redirects, run_builtin, Write, Read,
     ReadEof, Reading, ProgramExit, ReturnFromRight, ReturnFromPipeLeft, ReturnAndWait, WaitChild,
     WaitNoChild, exec_and_node, exec_or_node, EndOfBrackets, EndOfLine, Deciding
<1>6. CASE P.pc = "builtin"
  <2>1. ASSUME Write(Shell) PROVE FALSE
    <3> DEFINE M == [P EXCEPT !.todo = @ - 1]
    <3>1. P.fds[STDOUT_FILENO][1] # "w"
      BY <1>1, <1>6 DEF Wires, Files, STDOUT_FILENO, Tty, File
    <3>2. Set(Shell, M)
      BY <2>1, <3>1 DEF Write
    <3>3. M.pc = "builtin"
      BY <1>1, <1>6 DEF Process
    <3>4. Q = M
      BY <1>1, <3>2, SetHere
    <3> QED BY <1>2, <3>3, <3>4
  <2> QED BY <1>6, <2>1 DEF Advances, Step, ReadLine, EndOfInput, Heredoc, HeredocsRead, exec_pipe,
     exec_logical, exec_round_brackets, exec_redirect, exec_cmd_here, exec_cmd_forked, AtNode,
     ChildSetup, exec_cmd, exec_cmd_with_heredoc, apply_redirects, Read,
     ReadEof, Reading, ProgramExit, ReturnFromRight, ReturnFromPipeLeft, ReturnAndWait, WaitChild,
     WaitNoChild, exec_and_node, exec_or_node, EndOfBrackets, EndOfLine, Deciding
<1> QED BY <1>4, <1>5, <1>6

\* A step of the shell is a step of CommandLine, or none.
LEMMA ShellKeepsPromise ==
    ASSUME Tidy, Ample, Serving, [Next]_vars, Advances(Shell)
    PROVE  [Promised!Next]_(Promised!vars)
<1> DEFINE P == proc[Shell]
           Q == proc'[Shell]
<1>1. CASE ReadLine(Shell)
  BY <1>1, LineIsTyped
<1>2. CASE EndOfInput(Shell)
  BY <1>2, InputEnds
<1>3. CASE EndOfLine(Shell)
  BY <1>3, LineFinishes
<1>4. CASE Gone(Q) /\ ~ ReadLine(Shell) /\ ~ EndOfInput(Shell)
  BY <1>4, GoesByExit, ExitFinishes
<1>5. CASE ~ Gone(Q) /\ ~ ReadLine(Shell) /\ ~ EndOfInput(Shell) /\ ~ EndOfLine(Shell)
  <2>1. OnTheWay(P, Q) /\ UNCHANGED typed
    BY <1>5, PlainOnTheWay, OthersOnTheWay DEF Advances, Step, Plain
  <2>2. Unseen(P, Q)
    BY <1>5, <2>1 DEF OnTheWay, Unseen, Serving, Gone
  <2> QED BY <2>1, <2>2, Stutters
<1> QED BY <1>1, <1>2, <1>3, <1>4, <1>5

\* Every step of the executor is one of CommandLine, or none.
LEMMA StepKeepsPromise ==
    ASSUME Tidy, Ample, Standing, Faithful(proc), [Next]_vars
    PROVE  [Promised!Next]_(Promised!vars)
<1>1. proc[Shell].parent = 0 /\ proc[Shell].pc # "free"
  BY DEF Faithful
<1>2. ASSUME proc'[Shell] = proc[Shell], UNCHANGED typed PROVE UNCHANGED Promised!vars
  BY <1>2 DEF Promised!vars
<1>3. CASE UNCHANGED vars
  BY <1>2, <1>3 DEF vars
<1>4. CASE Advances(Shell)
  <2>1. Serving
    BY <1>4, GoneRests, BoundsAssumption DEF Serving, Shell, Proc
  <2> QED BY <1>4, <2>1, ShellKeepsPromise
<1>5. ASSUME NEW r \in Others, Advances(r) PROVE UNCHANGED Promised!vars
  BY <1>1, <1>2, <1>5, KidWorks
<1>6. UNCHANGED vars \/ \E p \in Proc : Advances(p)
  BY DEF Next, Ended, Advances
<1> QED BY <1>3, <1>4, <1>5, <1>6 DEF Others

\* And it starts where CommandLine does.
LEMMA StartsAtPrompt ==
    ASSUME Init
    PROVE  Promised!Init
<1>1. proc[Shell] = init_ctx /\ typed = 0
  BY BoundsAssumption DEF Init, Shell, Proc
<1>2. init_ctx.pc = "prompt" /\ init_ctx.head_node = 0 /\ init_ctx.last_status = 0
  BY DEF init_ctx, NoProcess
<1> QED BY <1>1, <1>2 DEF Promised!Init
\* AnswersAsPromised: on tidy lines whose brackets stand alone and whose
\* outcome the line itself decides, in a system with room for them, the executor
\* takes lines, ends them with the promised $?, and ends itself, as CommandLine
\* does.  (What is left to TLC of KeepsPromise is that a line comes to its end.)
THEOREM StatusAsPromised ==
    ASSUME Tidy, Alone, Definite, Ample
    PROVE  Spec => AnswersAsPromised
<1> DEFINE Inv == /\ Sound /\ Wired(proc[Shell]) /\ Tree
                  /\ Outside(proc[Shell]) /\ Few(proc[Shell]) /\ Flags(proc[Shell])
                  /\ Faithful(proc)
<1>1. Init => Inv
  <2>1. SUFFICES ASSUME Init PROVE Inv
    OBVIOUS
  <2>2. \A r \in Others : Gone(proc[r]) /\ proc[r].pc = "free" /\ Kid(proc[r])
    <3>1. \A r \in Others : proc[r] = NoProcess
      BY <2>1 DEF Init, Others
    <3>2. NoProcess.pc = "free"
      BY DEF NoProcess
    <3> QED BY <2>1, <3>1, <3>2, KidsFirst DEF Gone, Others
  <2>3. Tree
    BY <2>2 DEF Tree, Tied, Own, Stands, Gives
  <2>4. Outside(proc[Shell]) /\ Few(proc[Shell]) /\ Flags(proc[Shell])
    <3>1. proc[Shell].pc = "prompt"
      BY <2>1, ShellStarts
    <3> QED BY <3>1 DEF Outside, Few, Flags
  <2> QED BY <2>1, <2>3, <2>4, SoundFirst, WiresFirst, FaithfulFirst
<1>2. TypeOK /\ NoLostChild /\ PidsInBounds /\ [Next]_vars /\ Inv => Inv'
  <2>1. SUFFICES ASSUME TypeOK, NoLostChild, PidsInBounds, [Next]_vars, Sound,
                        Wired(proc[Shell]), Tree, Outside(proc[Shell]), Few(proc[Shell]),
                        Flags(proc[Shell]), Faithful(proc)
                 PROVE  Inv'
    OBVIOUS
  <2>2. Sound' /\ Wired(proc'[Shell])
    BY <2>1, SoundKept, WiresKept
  <2>3. \A r \in Others : Kid(proc'[r])
    BY <2>1, TidyGives, KidsKept DEF Tree, Others
  <2>4. ASSUME NEW r \in Others PROVE Tied(proc'[r])
    BY <2>1, KidPasses DEF Tree, Others
  <2>5. ASSUME NEW r \in Others, ~ Gone(proc'[Shell]), proc'[r].pc # "free"
        PROVE  proc'[r].parent = Shell
    BY <2>1, <2>5, OwnKept DEF Tree, Others
  <2>6. ASSUME NEW r \in Others PROVE Stands(proc'[Shell], proc'[r])
    BY <2>1, StandsKept
  <2>7. Tree'
    BY <2>3, <2>4, <2>5, <2>6 DEF Tree, Own
  <2>8. Outside(proc'[Shell]) /\ Few(proc'[Shell]) /\ Flags(proc'[Shell])
    BY <2>1, OutsideKept, FewKept, FlagsKept DEF Sound
  <2>9. Faithful(proc')
    BY <2>1, FaithfulKept DEF Standing
  <2> QED BY <2>2, <2>7, <2>8, <2>9
<1>3. TypeOK /\ PidsInBounds /\ Inv /\ [Next]_vars => [Promised!Next]_(Promised!vars)
  BY StepKeepsPromise DEF Standing
<1>4. Init => Promised!Init
  BY StartsAtPrompt
<1> QED BY <1>1, <1>2, <1>3, <1>4, TypeCorrect, ChildrenKept, ChildrenBounded, PTL
        DEF Spec, AnswersAsPromised
=============================================================================
