----------------------------- MODULE MCCommands -----------------------------
(* Instances of Commands for TLC: searches for a program in two directories,  *)
(* the second of which is the working directory, and the arguments of exit.   *)
EXTENDS Commands

Here(ws)       == [words |-> ws, child |-> FALSE]
InBrackets(ws) == [words |-> ws, child |-> TRUE]

c == <<"c">>
p == <<"p">>
q == <<"q">>

MCFiles == {p \o <<"/", "c">>, q \o <<"/", "c">>}
\* What "./" comes to, when the slash is gone, in p; and the root.
MCDirectories == {p \o <<"/", ".">>, <<"/">>}

Names == {c, <<"c", "/">>, <<".">>, <<".", "/">>, <<"p", "/", "c">>,
              <<"p", "/", "c", "/", "/">>, <<"/", "/">>}
PathValues == {<< >>, << << >> >>} \cup
              {<<v>> : v \in {<<":">>, p, p \o <<":">> \o q, q \o <<":">> \o p,
                              <<":">> \o p \o <<":", ":">> \o q \o <<":">>}}

Family(scripts, PATHs, cwds, kinds) ==
    [scripts |-> scripts, PATHs |-> PATHs, cwds |-> cwds, kinds |-> kinds]

Searches == {<< Here(<<cmd>>) >> : cmd \in Names}
\* With a program and without, what is reported and what exit $? leaves with.
Reports == {<< Here(<<c>>), InBrackets(<<Exit, StatusWord>>), Here(<<Exit, StatusWord>>) >>}

\* Around the least and the greatest long, and multiples of 256.
Numbers == BoundedSeq({"0", "1", "2", "4"}, 4)
           \cup {<<"1", "0", "2", "3">>, <<"2", "5", "5">>, <<"2", "5", "6">>, <<"7", "6", "8">>}
InFront == {<< >>, <<"-">>, <<"+">>, <<" ">>, <<" ", "-">>, <<"-", "+">>, <<"-", " ">>}
Arguments == {prefix \o k : prefix \in InFront, k \in Numbers} \cup
             {<<"a">>, <<"1", "a">>, <<"-", "a">>, <<"1", " ">>, <<"-", "0", "1", "0", "2", "4">>}
Few == {<< >>, <<"1">>, <<"-", "1">>, <<"a">>, <<"1", "0", "2", "3">>, <<"1", "0", "2", "4">>}

ExitLines == {<<Exit, a>> : a \in Arguments} \cup {<<Exit>>}
             \cup {<<Exit, a, b>> : a \in Few, b \in Few}
             \cup {<<Exit, StatusWord, <<"1">> >>, <<Exit, StatusWord>>}
Exits == {<< InBrackets(l) >> : l \in ExitLines} \cup {<< Here(l) >> : l \in ExitLines}
Twice == {<< l, Here(<<Exit>>) >> : l \in {InBrackets(<<Exit, a>>) : a \in Few}
                                          \cup {Here(<<Exit, a, a>>) : a \in Few}}

AllKinds == Kinds
MCFamilies == <<
    Family(Searches, PathValues, {<< >>, <<q>>}, AllKinds),
    Family(Reports, {<<p>>}, {<<q>>}, {"absent", "plain", "program"}),
    Family(Exits \cup Twice, {<< >>}, {<< >>}, {"absent"}) >>

MCNewKinds == {"absent", "plain", "program"}
MCStatuses == {0, 1, 9, 10, 99, 100, 126, 255}
=============================================================================
