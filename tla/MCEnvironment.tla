---------------------------- MODULE MCEnvironment ----------------------------
(* Instances of Environment for TLC: five names, a directory tree of three    *)
(* directories and a link, and short sessions of export, unset and cd.        *)
EXTENDS Environment

CONSTANTS Null, NoItem     \* model values

\* The names in the order of ft_strcmp; the last is any other variable.
home   == 1
oldpwd == 2
pwd    == 3
shlvl  == 4
x      == 5
Names  == 1 .. 5
bad    == 0

Elems == {"a", "b", "l", "1"}
one == <<"1">>
Dirs == {<< >>, <<"a">>, <<"a", "b">>}
Links == [p \in {<<"l">>} |-> <<"a", "b">>]

Set(n, v) == [name |-> n, value |-> v]
Sole(n) == Set(n, Null)

Starts == {
  << >>,
  <<Set(pwd, <<"a">>), Set(home, <<"a", "b">>), Set(x, one), Set(bad, one)>>,
  <<Set(x, << >>), Sole(home), Set(shlvl, one), Set(x, one)>>
}

Arguments == {
  << >>,
  <<Set(x, <<"a">>)>>, <<Sole(x)>>, <<Sole(pwd)>>,
  <<Set(home, <<"l">>), Sole(bad)>>,
  <<Set(x, one), Set(x, << >>)>>,
  <<Sole(bad), Set(shlvl, << >>), Sole(oldpwd)>>
}

AnyPath == [absolute |-> TRUE, elems |-> << >>]
To(absolute, elems) ==
    [kind |-> "path", path |-> [absolute |-> absolute, elems |-> elems]]

CdTargets == {
  [kind |-> "home", path |-> AnyPath], [kind |-> "rejected", path |-> AnyPath],
  To(TRUE, << >>), To(FALSE, << >>), To(FALSE, <<".">>), To(FALSE, <<"..">>),
  To(FALSE, <<"a">>), To(FALSE, <<"b", "..", "..">>), To(TRUE, <<"l">>),
  To(FALSE, <<"..", "a", ".", "b">>), To(TRUE, <<"a", "1">>),
  To(FALSE, <<"l", "..">>)
}
=============================================================================
