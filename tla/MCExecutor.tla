----------------------------- MODULE MCExecutor -----------------------------
(* Instances of Executor for TLC: an arena with the trees of a few command    *)
(* lines, each line chosen for what it makes the processes do.                *)
EXTENDS Executor

Builtin(emits, status) ==
    [typed |-> TRUE, word |-> "builtin", exits |-> FALSE, reads |-> FALSE,
     copies |-> FALSE, emits |-> emits, status |-> status]
External(reads, emits, status) ==
    [typed |-> FALSE, word |-> "external", exits |-> FALSE, reads |-> reads,
     copies |-> reads, emits |-> emits, status |-> status]

echo  == Builtin(1, 0)
cdBad == Builtin(0, 1)
unset == Builtin(0, Stale)
exit3 == [Builtin(0, 3) EXCEPT !.exits = TRUE]
true  == External(FALSE, 0, 0)
false == External(FALSE, 0, 1)
ls    == External(FALSE, 1, 0)
yes   == External(FALSE, 2, 0)     \* writes more than a pipe of one chunk holds
cat   == External(TRUE, 0, 0)
empty == [true EXCEPT !.word = "empty", !.status = 127]

\* Constructors of nodes.
Make(kind, l, r) == [kind |-> kind, left |-> l, right |-> r,
                     redirects |-> << >>, cmd |-> true]
Cmd(c)     == [Make("ND_CMD", 0, 0) EXCEPT !.cmd = c]
With(c, l) == [Make("ND_CMD", l, 0) EXCEPT !.cmd = c]
Pip(l, r)  == Make("ND_PIPE", l, r)
And(l, r)  == Make("ND_AND_OP", l, r)
Or(l, r)   == Make("ND_OR_OP", l, r)
Bra(l)     == Make("ND_RND_BRACKET", l, 0)
Rds(rds)   == [Make("ND_REDIRECTS", 0, 0) EXCEPT !.redirects = rds]
Rd(op, file)  == [op |-> op, file |-> file, body |-> 0]
HereDoc(body) == [op |-> "<<", file |-> "ok", body |-> body]

\* One arena per run; a line is named by the number of its root.
PipeAst == <<
  Cmd(yes), Cmd(cat), Pip(1, 2),                               \* 3: yes | cat
  Cmd(yes), Cmd(true), Pip(4, 5),                              \* 6: yes | true
  Cmd(echo), Cmd(cat), Cmd(false), Pip(8, 9), Pip(7, 10),      \* 11: echo | cat | false
  Cmd(false), Cmd(echo), And(12, 13), Cmd(cdBad), Or(14, 15),  \* 16: false && echo || cd bad
  Cmd(true), Cmd(echo), Cmd(cat), Pip(18, 19), And(17, 20),    \* 21: true && echo | cat
  Cmd(exit3), Cmd(cat), Pip(22, 23),                           \* 24: exit 3 | cat
  Cmd(ls), Cmd(cat), Pip(25, 26), Cmd(exit3), And(27, 28),     \* 29: ls | cat && exit 3
  Cmd(empty),                                                  \* 30: ''
  Cmd(true), Cmd(unset), And(31, 32),                          \* 33: true && unset X
  Cmd(true), Cmd(cdBad), And(34, 35), Bra(36), Cmd(echo), Or(37, 38),
                                                     \* 39: (true && cd bad) || echo
  Cmd(echo), Cmd(cat), Pip(40, 41), Bra(42), Cmd(ls), And(43, 44),
                                                      \* 45: (echo | cat) && ls
  Cmd(exit3), Bra(46),                                \* 47: (exit 3)
  Cmd(ls), Bra(48), Cmd(cat), Pip(49, 50),            \* 51: (ls) | cat
  Cmd(yes), Cmd(cat), Bra(53), Pip(52, 54)            \* 55: yes | (cat)
>>
PipeLines == {0, 3, 6, 11, 16, 21, 24, 29, 30, 33, 39, 45, 47, 51, 55}

RedirectAst == <<
  Rds(<<Rd("<", "ok")>>), With(cat, 1),                        \* 2: cat < f
  Rds(<<Rd("<", "bad")>>), With(cat, 3), Cmd(ls), Or(4, 5),    \* 6: cat < nofile || ls
  Rds(<<Rd(">", "ok")>>), With(echo, 7), Cmd(cat), And(8, 9),  \* 10: echo > out && cat
  Rds(<<HereDoc(1)>>), With(cat, 11),                          \* 12: cat << eof
  Rds(<<HereDoc(0), HereDoc(1)>>), With(cat, 13),
    Rds(<<HereDoc(1)>>), With(cat, 15), Pip(14, 16),           \* 17: cat << a << b | cat << c
  Rds(<<Rd("<", "ok"), HereDoc(1), Rd(">>", "ok")>>), With(cat, 18),
                                                               \* 19: cat < f << eof >> out
  Cmd(true), Rds(<<HereDoc(1), Rd("<", "ok"), Rd(">", "ok")>>), And(20, 21),
                                                               \* 22: true && << eof < f > out
  Rds(<<Rd(">", "bad"), Rd("<", "ok")>>), With(echo, 23),      \* 24: echo > nodir/out < f
  Rds(<<Rd(">", "ok")>>), With(ls, 25), Cmd(cat), Pip(26, 27)  \* 28: ls > out | cat
>>
RedirectLines == {2, 6, 10, 12, 17, 19, 22, 24, 28}

LimitAst == <<
  Cmd(yes), Cmd(cat), Pip(1, 2),                               \* 3: yes | cat
  Cmd(echo), Cmd(cat), Cmd(false), Pip(5, 6), Pip(4, 7),       \* 8: echo | cat | false
  Rds(<<HereDoc(0), HereDoc(0), HereDoc(1)>>), With(cat, 9),   \* 10: cat << a << b << c
  Rds(<<HereDoc(1)>>), With(cat, 11),
    Rds(<<HereDoc(1)>>), With(cat, 13), Pip(12, 14),           \* 15: cat << a | cat << b
  Cmd(false), Rds(<<HereDoc(1), Rd("<", "ok")>>), With(cat, 17), Or(16, 18)
                                                               \* 19: false || cat << eof < f
>>
LimitLines == {3, 8, 10, 15, 19}

\* < e << asdf | cat
HeredocThenCatAst ==
  <<Rds(<<Rd("<", "bad"), HereDoc(1)>>), Cmd(cat), Pip(1, 2)>>
\* false | > a
SimpleToFileAst == <<Cmd(false), Rds(<<Rd(">", "ok")>>), Pip(1, 2)>>
\* false, and then cat << eof < f
SupersededAst ==
  <<Cmd(false), Rds(<<HereDoc(1), Rd("<", "ok")>>), With(cat, 2)>>
HeredocThenCatLines == {3}
SimpleToFileLines   == {3}
SupersededLines     == {1, 3}
=============================================================================
