------------------------------ MODULE MCWords ------------------------------
(* Instances of Words for TLC: every line of a few characters, in families    *)
(* that each use the characters of one part of the way.                       *)
EXTENDS Words

Strings(chars, n) == BoundedSeq(chars, n)

Unset == [n \in {} |-> << >>]
Var(value) == [n \in {<<"a">>} |-> value]

File(name) == [name |-> name, value |-> "FILE"]
Dir(name)  == [name |-> name, value |-> "DIR"]
Gone(name) == [name |-> name, value |-> "dangling"]

\* "." and ".." are in every directory; one file is named * .
FewFiles == << Dir(<<".">>), File(<<"a">>), Dir(<<".", ".">>), File(<<"*">>),
               File(<<"b", "a">>), Gone(<<"c">>) >>

\* All names of up to four letters out of two, and a few others.
NameOf[n \in Nat] ==
    IF n = 1 THEN << >> ELSE Append(NameOf[n \div 2], IF n % 2 = 0 THEN "a" ELSE "b")
ManyFiles ==
    [n \in 1 .. 30 |-> File(NameOf[n + 1])]
        \o << Dir(<<".">>), Dir(<<".", ".">>), File(<<".", "a">>), Dir(<<".", "b", "a">>),
              Dir(<<"d">>), Dir(<<"d", "a">>), Dir(<<"a", "d", "a">>), Gone(<<"a", "c">>) >>

Family(lines, envs, listing, bodies) ==
    [lines |-> lines, envs |-> envs, listing |-> listing, bodies |-> bodies]

\* Blanks, quotes and operators.
LexerLines == Strings({"a", "'", "\"", "|", "&", "<", " "}, 5)
                \cup Strings({"a", "\"", ">", "(", ")", ";", "&"}, 4)

\* Quotes, variables and patterns, in the only word and after a builtin.
ExpansionLines ==
    {prefix \o w : prefix \in {<< >>, <<"e", " ">>},
                  w \in Strings({"a", "'", "\"", "$", "*"}, 5)
                        \cup Strings({"a", "1", "?", "$", "\""}, 4)
                        \cup Strings({"a", "*", "$", " "}, 5)}
Values == {Unset, Var(<< >>), Var(<<"*">>), Var(<<"b", " ", "$", "a">>)}

\* Pieces between asterisks, hidden files and directories.
PatternLines == Strings({"a", "b", "*"}, 6) \cup Strings({"a", "d", "*", "/", "."}, 4)

\* Redirects, with a command and without.
RedirectLines ==
    {prefix \o w : prefix \in {<<"<">>, <<">">>, <<"e", "<">>, <<"e", ">">>},
                  w \in Strings({"<", ">", "a", "*", "$", " "}, 4)}

\* The shell ends every line of a heredoc that it reads.
BodyLines == {<< >>} \cup {b \o <<"\n">> : b \in Strings({"a", "1", "$", "'", "?", "\n"}, 4)}

AllFamilies == <<
    Family(LexerLines, {Unset}, << >>, {<< >>}),
    Family(ExpansionLines, Values, FewFiles, {<< >>}),
    Family(PatternLines, {Unset}, ManyFiles, {<< >>}),
    Family(RedirectLines, {Var(<<"*">>)}, FewFiles, {<<"$", "a", "\n">>}),
    Family({<<"a", "<", "<", "a">>}, {Var(<<"b">>)}, << >>, BodyLines) >>

\* A value and a file name with a quote in them.
QuoteFamilies == <<
    Family({<<"e", " ", "$", "a">>}, {Var(<<"b", "'", "a">>)}, << >>, {<< >>}),
    Family({<<"e", " ", "*">>}, {Unset}, << File(<<"b", "'", "a">>) >>, {<< >>}) >>

BuiltinNames == {<<"e">>}
=============================================================================
