------------------------------ MODULE Grammar ------------------------------
(* What a command line is and what it means, without reference to how the     *)
(* parser goes about it.  A line t is a sequence of token kinds, a word being *)
(* ND_CMD and a redirect operator ND_REDIRECTS; i .. j is the piece of it     *)
(* from the i-th to the j-th token.                                           *)
EXTENDS Integers, Sequences, FiniteSets

TokenKind == {"ND_CMD", "ND_REDIRECTS", "ND_PIPE", "ND_AND_OP", "ND_OR_OP",
              "ND_L_PARE", "ND_R_PARE"}
Logical == {"ND_AND_OP", "ND_OR_OP"}
Operator == Logical \cup {"ND_PIPE"}

\* How many brackets are open after the first k tokens of i .. j.
Count(t, i, j, kind) == Cardinality({k \in i .. j : t[k] = kind})
Depth(t, i, j) == Count(t, i, j, "ND_L_PARE") - Count(t, i, j, "ND_R_PARE")

\* The tokens of i .. j of the kinds given that are in no bracket of i .. j.
Outer(t, i, j, kinds) == {k \in i .. j : t[k] \in kinds /\ Depth(t, i, k) = 0}

LastOf(S)  == CHOOSE k \in S : \A l \in S : l <= k
FirstOf(S) == CHOOSE k \in S : \A l \in S : k <= l

IsFileName(t, i, k) == k > i /\ t[k] = "ND_CMD" /\ t[k - 1] = "ND_REDIRECTS"
Words(t, i, j) == {k \in i .. j : t[k] = "ND_CMD" /\ ~ IsFileName(t, i, k)}
Redirections(t, i, j) == {k \in i .. j : t[k] = "ND_REDIRECTS"}

(***************************************************************************)
(* The lines of the shell, after the grammar in the comment of parser.c: a *)
(* list of pipelines joined by && and ||, whose elements are simple        *)
(* commands, or a list in brackets and redirections of the whole.          *)
(*                                                                         *)
(* That comment has the redirections of a simple command before and after  *)
(* its words; here they may stand between them too, as in every shell.     *)
(***************************************************************************)
Simple(t, i, j) ==
    /\ i <= j
    /\ \A k \in i .. j :
         /\ t[k] \in {"ND_CMD", "ND_REDIRECTS"}
         /\ t[k] = "ND_REDIRECTS" => k < j /\ t[k + 1] = "ND_CMD"

InBrackets(t, i, j) == i + 1 < j /\ t[i] = "ND_L_PARE" /\ t[j] = "ND_R_PARE"

\* command_tail: redirections alone, or nothing.
OnlyRedirections(t, i, j) ==
    j < i \/ (Simple(t, i, j) /\ Words(t, i, j) = {})

RECURSIVE IsList(_, _, _)
IsElement(t, i, j) ==
    \/ Simple(t, i, j)
    \/ \E k \in i .. j :
         InBrackets(t, i, k) /\ IsList(t, i + 1, k - 1) /\ OnlyRedirections(t, k + 1, j)

RECURSIVE IsPipeline(_, _, _)
IsPipeline(t, i, j) ==
    \/ IsElement(t, i, j)
    \/ \E k \in Outer(t, i, j, {"ND_PIPE"}) :
         IsElement(t, i, k - 1) /\ IsPipeline(t, k + 1, j)

IsList(t, i, j) ==
    \/ IsPipeline(t, i, j)
    \/ \E k \in Outer(t, i, j, Logical) :
         IsList(t, i, k - 1) /\ IsPipeline(t, k + 1, j)

IsLine(t) == IsList(t, 1, Len(t))

\* A line that redirects what is in brackets, such as ( a ) > f .
RedirectsBrackets(t) ==
    \E k \in 1 .. Len(t) - 1 : t[k] = "ND_R_PARE" /\ t[k + 1] = "ND_REDIRECTS"

(***************************************************************************)
(* What a line means: the commands that run, each known by its words and   *)
(* redirections, and whether the line succeeds, when ok[k] says whether    *)
(* the command that starts at token k does.  && and || look at what is to  *)
(* their left, all of it; a pipeline succeeds when its last element does.  *)
(* (For lines that do not redirect brackets.)                              *)
(***************************************************************************)
RECURSIVE Meaning(_, _, _, _)
Meaning(t, i, j, ok) ==
    LET logical == Outer(t, i, j, Logical)
        pipes == Outer(t, i, j, {"ND_PIPE"})
    IN  CASE logical # {} ->
               LET k == LastOf(logical)
                   l == Meaning(t, i, k - 1, ok)
                   r == Meaning(t, k + 1, j, ok)
               IN  IF l.ok = (t[k] = "ND_AND_OP")
                   THEN [ran |-> l.ran \cup r.ran, ok |-> r.ok] ELSE l
          [] logical = {} /\ pipes # {} ->
               LET k == FirstOf(pipes)
                   l == Meaning(t, i, k - 1, ok)
                   r == Meaning(t, k + 1, j, ok)
               IN  [ran |-> l.ran \cup r.ran, ok |-> r.ok]
          [] logical = {} /\ pipes = {} /\ InBrackets(t, i, j) ->
               Meaning(t, i + 1, j - 1, ok)
          [] OTHER ->
               [ran |-> {<<Words(t, i, j), Redirections(t, i, j)>>}, ok |-> ok[i]]
=============================================================================
