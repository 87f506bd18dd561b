------------------------------ MODULE Commands ------------------------------
(* From the words of a command to its status: the search for a program along  *)
(* PATH or at the path it is called by, system call by system call, while the *)
(* files may change; and exit, whose argument is text.  One command runs at a *)
(* time, in a child unless it is exit on its own.                             *)
EXTENDS CharSeqs

CONSTANTS
    Families,      \* a sequence of [scripts, PATHs, cwds, kinds]: see Init
    Files,         \* the paths at which something may be or appear
    Directories,   \* other paths, always directories; nothing is anywhere else
    NewKinds,      \* what a file may turn into while a program is looked for
    MaxChanges,    \* how often, at most, in all
    Statuses,      \* with which a program exits
    LONG_MAX, INT_MAX

ASSUME LimitsAssumption == LONG_MAX \in Nat /\ INT_MAX \in Nat

VARIABLES
    script,        \* the commands, [words, child]; a word is text or $?
    PATH, cwd,     \* its value, and what getcwd returns: <<value>>, or << >> for NULL
    fs,            \* what is at each path
    changes,
    seen,          \* history: what was at each path since the command began
    n,             \* commands begun
    last_status,
    words,         \* of the command
    candidates,    \* the paths that are tried, in order
    i,             \* those given up
    found_non_exec,
    status,        \* with which the child, or the shell, exits
    pc

vars == <<script, PATH, cwd, fs, changes, seen, n, last_status, words, candidates,
          i, found_non_exec, status, pc>>

line == <<script, PATH, cwd, n, words>>

Kinds == {"absent", "denied", "notdir",      \* the path cannot be followed
          "plain", "directory", "program",
          "no interpreter", "no format"}     \* may be executed, but execve fails

ASSUME FamiliesAssumption ==
    /\ NewKinds \subseteq Kinds
    /\ \A k \in DOMAIN Families :
         /\ Families[k].kinds \subseteq Kinds
         /\ Families[k].PATHs \cup Families[k].cwds \subseteq Seq(Seq(STRING))
         /\ \A value \in Families[k].PATHs \cup Families[k].cwds : Len(value) <= 1

Looking == {"F_OK", "X_OK", "direct", "stat", "direct X_OK", "execve"}
PC == Looking \cup {"prompt", "run_external", "exit", "failed", "running", "exited", "left"}

Init ==
    /\ \E k \in DOMAIN Families :
         LET f == Families[k]
         IN  \E s \in f.scripts, v \in f.PATHs, d \in f.cwds, files \in [Files -> f.kinds] :
               script = s /\ PATH = v /\ cwd = d /\ fs = files
    /\ changes = 0 /\ n = 0
    /\ seen = [p \in Files |-> {fs[p]}]
    /\ last_status = 0 /\ status = 0
    /\ words = << >> /\ candidates = << >> /\ i = 0 /\ found_non_exec = FALSE
    /\ pc = "prompt"

-----------------------------------------------------------------------------
(* Numbers as text.                                                          *)

Digits == <<"0", "1", "2", "3", "4", "5", "6", "7", "8", "9">>
IsDigit(c) == \E d \in DOMAIN Digits : Digits[d] = c
DigitOf(c) == (CHOOSE d \in DOMAIN Digits : Digits[d] = c) - 1

x_abs_int(k) == IF k < 0 THEN -k ELSE k

x_get_digit_size(k) == CHOOSE size \in 1 .. x_abs_int(k) + 1 :
                         /\ x_abs_int(k) < 10 ^ size
                         /\ size > 1 => 10 ^ (size - 1) <= x_abs_int(k)

x_itoa(k) ==
    LET size == x_get_digit_size(k)
    IN  (IF k < 0 THEN <<"-">> ELSE << >>)
          \o [d \in 1 .. size |->
                Digits[((x_abs_int(k) \div 10 ^ (size - d)) % 10) + 1]]

\* Without blanks in front.
Trimmed(s) ==
    LET start == FirstIn({k \in 0 .. Len(s) - 1 : At(s, k) # " "}, Len(s))
    IN  Sub(s, start, Len(s) - start)
Unsigned(s) == IF At(s, 0) \in {"+", "-"} THEN Tail(s) ELSE s

\* The number that the first k digits make.
Result(s) ==
    LET R[k \in 0 .. Len(s)] == IF k = 0 THEN 0 ELSE R[k - 1] * 10 + DigitOf(s[k])
    IN  R

\* Mutant: the digit that is to come is not taken off the limit.
LetsPass(result, digit) == result <= LONG_MAX \div 10

\* One digit more does not overflow a long.
Fits(result, digit) == result <= (LONG_MAX - digit) \div 10

is_digit_str(str) ==
    LET s == Trimmed(str)
        digits == Unsigned(s)
    IN  \/ s = x_itoa(-(LONG_MAX + 1))
        \/ /\ digits # << >> /\ \A k \in DOMAIN digits : IsDigit(digits[k])
           /\ \A k \in DOMAIN digits :
                Fits(Result(digits)[k - 1], DigitOf(digits[k]))

\* The value as an int.
ft_atoi(str) ==
    LET s == Trimmed(str)
        size == Len(Unsigned(s))
        value == IF At(s, 0) = "-" THEN -Result(Unsigned(s))[size]
                 ELSE Result(Unsigned(s))[size]
    IN  ((value + INT_MAX + 1) % (2 * (INT_MAX + 1))) - (INT_MAX + 1)

-----------------------------------------------------------------------------
(* Files.  A system call returns OK or an errno.                             *)

FileAt(p) == IF p \in Files THEN fs[p] ELSE IF p \in Directories THEN "directory" ELSE "absent"

access_F_OK(p) ==
    CASE FileAt(p) = "absent" -> "ENOENT"
      [] FileAt(p) = "denied" -> "EACCES"
      [] FileAt(p) = "notdir" -> "ENOTDIR"
      [] OTHER -> "OK"
access_X_OK(p) == IF FileAt(p) = "plain" THEN "EACCES" ELSE access_F_OK(p)

\* Mutant: only after a colon.
AfterColon(s) == {k \in DOMAIN s : k > 1 /\ s[k] # ":" /\ s[k - 1] = ":"}

\* Where a directory begins.
DirBegins(s) == {k \in DOMAIN s : s[k] # ":" /\ (k = 1 \/ s[k - 1] = ":")}

\* The directories between the colons; one that is empty is dropped.
x_split(s) ==
    LET begins == Ordered(DirBegins(s))
        End(k) == FirstIn({j \in k .. Len(s) - 1 : At(s, j) = ":"}, Len(s))
    IN  [k \in DOMAIN begins |-> SubSeq(s, begins[k], End(begins[k]))]

build_candidate_path(dir, cmd) == dir \o <<"/">> \o cmd

\* An empty PATH is the working directory; NULL when there is none.
get_resolved_path_env == IF PATH = << << >> >> THEN cwd ELSE PATH

\* A command's name without the slashes at its end.
WithoutSlashes(cmd) ==
    SubSeq(cmd, 1, FirstIn({k \in 1 .. Len(cmd) :
                              \A j \in k + 1 .. Len(cmd) : cmd[j] = "/"}, 0))

HasSlash(cmd) == Contains(cmd, "/")

-----------------------------------------------------------------------------
(* A command begins.                                                         *)

Exit == <<"exit">>
StatusWord == <<"$", "?">>

ReadLine ==
    /\ pc = "prompt" /\ n < Len(script)
    /\ LET typed == script[n + 1].words
       IN  /\ words' = [k \in DOMAIN typed |->
                          IF typed[k] = StatusWord THEN x_itoa(last_status) ELSE typed[k]]
           /\ pc' = IF typed[1] = Exit THEN "exit" ELSE "run_external"
    /\ n' = n + 1
    /\ seen' = [p \in Files |-> {fs[p]}]
    /\ candidates' = << >> /\ i' = 0 /\ found_non_exec' = FALSE /\ status' = 0
    /\ UNCHANGED <<script, PATH, cwd, fs, changes, last_status>>

\* The child exits.
Fail(code) == pc' = "failed" /\ status' = code
Go(to) == pc' = to /\ status' = status

resolve_executable_path ==
    /\ pc = "run_external"
    /\ LET cmd == WithoutSlashes(words[1])
           value == get_resolved_path_env
       IN  \/ /\ words[1] \in {<<".">>, <<".", ".">>}
              /\ Fail(127) /\ candidates' = candidates
           \/ /\ words[1] \notin {<<".">>, <<".", ".">>} /\ HasSlash(cmd)
              /\ candidates' = <<cmd>> /\ Go("direct")
           \/ /\ words[1] \notin {<<".">>, <<".", ".">>} /\ ~ HasSlash(cmd)
              /\ IF value = << >> THEN Fail(127) /\ candidates' = candidates
                 ELSE LET dirs == x_split(value[1])
                      IN  /\ candidates' = [k \in DOMAIN dirs |->
                                              build_candidate_path(dirs[k], cmd)]
                          /\ Go("F_OK")
    /\ UNCHANGED <<line, fs, changes, seen, last_status, i, found_non_exec>>

-----------------------------------------------------------------------------
(* Along PATH.                                                               *)

Candidate == candidates[i + 1]

\* Mutant: whatever the error is, the next directory is tried.
AnyError(errno) == TRUE

GoesOn(errno) == errno = "ENOENT"

check_executable_F_OK ==
    /\ pc = "F_OK" /\ i < Len(candidates)
    /\ LET errno == access_F_OK(Candidate)
       IN  \/ errno = "OK" /\ Go("X_OK") /\ i' = i
           \/ errno # "OK" /\ GoesOn(errno) /\ Go("F_OK") /\ i' = i + 1
           \/ errno # "OK" /\ ~ GoesOn(errno) /\ Fail(126) /\ i' = i
    /\ UNCHANGED <<line, fs, changes, seen, last_status, candidates, found_non_exec>>

check_executable_X_OK ==
    /\ pc = "X_OK"
    /\ IF access_X_OK(Candidate) = "OK"
       THEN Go("execve") /\ UNCHANGED <<i, found_non_exec>>
       ELSE Go("F_OK") /\ i' = i + 1 /\ found_non_exec' = TRUE
    /\ UNCHANGED <<line, fs, changes, seen, last_status, candidates>>

\* locate_executable_in_dirs has come to the end.
search_path_env_or_exit ==
    /\ pc = "F_OK" /\ i = Len(candidates)
    /\ Fail(IF found_non_exec THEN 126 ELSE 127)
    /\ UNCHANGED <<line, fs, changes, seen, last_status, candidates, i, found_non_exec>>

-----------------------------------------------------------------------------
(* At the path the command is called by.                                     *)

Denied(errno) == IF errno = "EACCES" THEN 126 ELSE 127

verify_direct_path_or_exit ==
    /\ \/ /\ pc = "direct"
          /\ LET errno == access_F_OK(Candidate)
             IN  IF errno = "OK" THEN Go("stat") ELSE Fail(Denied(errno))
       \/ /\ pc = "stat"
          /\ LET errno == access_F_OK(Candidate)
             IN  CASE errno # "OK" -> Fail(Denied(errno))
                   [] errno = "OK" /\ FileAt(Candidate) = "directory" -> Fail(126)
                   [] OTHER -> Go("direct X_OK")
       \/ /\ pc = "direct X_OK"
          /\ LET errno == access_X_OK(Candidate)
             IN  IF errno = "OK" THEN Go("execve") ELSE Fail(Denied(errno))
    /\ UNCHANGED <<line, fs, changes, seen, last_status, candidates, i, found_non_exec>>

\* execve; when it fails, execve_errors ends with 126 whatever the error is.
run_external ==
    /\ pc = "execve"
    /\ IF FileAt(Candidate) = "program" THEN Go("running") ELSE Fail(126)
    /\ UNCHANGED <<line, fs, changes, seen, last_status, candidates, i, found_non_exec>>

ProgramExits ==
    /\ pc = "running"
    /\ pc' = "exited" /\ status' \in Statuses
    /\ UNCHANGED <<line, fs, changes, seen, last_status, candidates, i, found_non_exec>>

\* Somebody creates, removes or replaces a file while a program is looked for.
FileChanges ==
    /\ pc \in Looking /\ changes < MaxChanges
    /\ changes' = changes + 1
    /\ \E p \in Files, kind \in NewKinds :
         /\ fs' = [fs EXCEPT ![p] = kind]
         /\ seen' = [seen EXCEPT ![p] = @ \cup {kind}]
    /\ UNCHANGED <<line, last_status, candidates, i, found_non_exec, status, pc>>

wait_children_status ==
    /\ pc \in {"failed", "exited"}
    /\ last_status' = status /\ pc' = "prompt"
    /\ UNCHANGED <<line, fs, changes, seen, candidates, i, found_non_exec, status>>

-----------------------------------------------------------------------------
(* exit.                                                                     *)

InChild == script[n].child

\* exit(code), in a child or in the shell: the parent sees eight bits.
Leave(code) ==
    /\ status' = code % 256 /\ last_status' = last_status
    /\ pc' = IF InChild THEN "exited" ELSE "left"

\* Mutant: as other builtins report it.
ReturnsError == -1

TooMany == 1

\* Only a number in front makes exit stay; exec_cmd leaves a child anyway.
handle_too_many_args ==
    /\ pc = "exit" /\ Len(words) > 2
    /\ CASE ~ is_digit_str(words[2]) -> Leave(2)
         [] is_digit_str(words[2]) /\ InChild -> Leave(TooMany)
         [] OTHER -> last_status' = TooMany /\ pc' = "prompt" /\ status' = status
    /\ UNCHANGED <<line, fs, changes, seen, candidates, i, found_non_exec>>

builtin_exit ==
    /\ pc = "exit" /\ Len(words) <= 2
    /\ CASE Len(words) = 1 -> Leave(last_status)
         [] Len(words) = 2 /\ ~ is_digit_str(words[2]) -> Leave(2)
         [] OTHER -> Leave(ft_atoi(words[2]))
    /\ UNCHANGED <<line, fs, changes, seen, candidates, i, found_non_exec>>

Next ==
    \/ ReadLine \/ resolve_executable_path
    \/ check_executable_F_OK \/ check_executable_X_OK \/ search_path_env_or_exit
    \/ verify_direct_path_or_exit \/ run_external \/ ProgramExits \/ FileChanges
    \/ wait_children_status \/ handle_too_many_args \/ builtin_exit

Spec == Init /\ [][Next]_vars

-----------------------------------------------------------------------------
(* Properties.                                                               *)

\* A status is that of a process, and the search stays among its candidates.
TypeOK ==
    /\ fs \in [Files -> Kinds] /\ seen \in [Files -> SUBSET Kinds]
    /\ changes \in 0 .. MaxChanges /\ n \in 0 .. Len(script)
    /\ last_status \in 0 .. 255 /\ status \in 0 .. 255
    /\ pc \in PC /\ i \in 0 .. Len(candidates) /\ found_non_exec \in BOOLEAN
    /\ pc \in Looking \ {"F_OK"} => i < Len(candidates)

\* What was at p since the command began.
Seen(p) == IF p \in Files THEN seen[p] ELSE {FileAt(p)}

Exists == Kinds \ {"absent", "denied", "notdir"}

\* A reason to leave a directory of PATH for the next one: no such file there,
\* or one that could not be executed, at least not when that was asked.
PassedOver(p) ==
    \/ Seen(p) \cap {"absent", "plain"} # {}
    \/ Seen(p) \cap Exists # {} /\ Seen(p) \cap {"denied", "notdir"} # {}

\* The leftmost program runs: what runs was a program, and everything to the
\* left of it in PATH was missing or not executable while it was looked for;
\* and a program that was there all the time, with nothing to the left of it
\* but missing and plain files, is not failed to be run.
LeftmostRuns ==
    /\ pc = "running" =>
         /\ "program" \in Seen(Candidate)
         /\ \A k \in 1 .. i : PassedOver(candidates[k])
    /\ pc = "failed" =>
         ~ \E k \in DOMAIN candidates :
             /\ Seen(candidates[k]) = {"program"}
             /\ \A j \in 1 .. k - 1 : Seen(candidates[j]) \subseteq {"absent", "plain"}

\* The directories of PATH, by the colons in front of them.
DirsOf(s) ==
    LET Colons(k) == Cardinality({j \in 1 .. k : s[j] = ":"})
        Dir(c) == LET at == Ordered({k \in DOMAIN s : s[k] # ":" /\ Colons(k) = c})
                  IN  [k \in DOMAIN at |-> s[at[k]]]
    IN  {Dir(c) : c \in 0 .. Len(s)} \ {<< >>}

\* Where a command has to be looked for.
Places ==
    LET cmd == WithoutSlashes(words[1])
        value == get_resolved_path_env
    IN  CASE words[1] \in {<<".">>, <<".", ".">>} -> {}
          [] words[1] \notin {<<".">>, <<".", ".">>} /\ HasSlash(cmd) -> {cmd}
          [] OTHER -> {build_candidate_path(dir, cmd) :
                         dir \in UNION {DirsOf(value[k]) : k \in DOMAIN value}}

\* A command that is not run ends with 127 only when it was missing from each
\* directory of PATH, or from its own path, and with 126 only when there was
\* something in one of these places that is not a program, or no longer is.
StatusTellsWhy ==
    pc = "failed" =>
        /\ status \in {126, 127}
        /\ status = 127 =>
             \A p \in Places :
               \/ "absent" \in Seen(p)
               \/ "notdir" \in Seen(p) /\ HasSlash(WithoutSlashes(words[1]))
        /\ status = 126 => \E p \in Places : Seen(p) \notin {{"absent"}, {"program"}}

\* The numbers that a text stands for: one, or none.  (The least long is
\* known only without zeros in front of it.)
NumbersOf(s) ==
    LET Number(neg, b) ==
            LET value == FoldFunctionOnSet(+, 0,
                             [k \in DOMAIN s |-> IF k < b THEN 0
                                                 ELSE DigitOf(s[k]) * 10 ^ (Len(s) - k)],
                             b .. Len(s))
            IN  IF neg THEN -value ELSE value
        Begins(b) == /\ \A k \in b .. Len(s) : IsDigit(s[k])
                     /\ \A k \in 1 .. b - 2 : s[k] = " "
                     /\ b > 1 => s[b - 1] \in {" ", "+", "-"}
        IsLong(v, b) == /\ v \in -(LONG_MAX + 1) .. LONG_MAX
                        /\ v = -(LONG_MAX + 1) => s[b] # "0"
    IN  {Number(b > 1 /\ At(s, b - 2) = "-", b) : b \in
            {c \in DOMAIN s : Begins(c) /\ IsLong(Number(c > 1 /\ At(s, c - 2) = "-", c), c)}}

\* The argument as it is typed: $? stands for the status itself.
ArgumentsOf(w) == IF w = StatusWord THEN {last_status} ELSE NumbersOf(w)

\* exit leaves with the number that its argument is, as the parent of a
\* process sees it, with the last status when it has none, and with 2 when it
\* is no number that a long can hold; with a number and more it fails, and
\* leaves a child only.  exit $? leaves with the status that is reported.
ExitTakesItsArgument ==
    [][pc = "exit" =>
         LET typed == script[n].words
             numbers == ArgumentsOf(typed[2])
             Leaves(code) == /\ pc' = IF InChild THEN "exited" ELSE "left"
                             /\ status' = code /\ last_status' = last_status
         IN  CASE Len(typed) = 1 -> Leaves(last_status)
               [] Len(typed) > 1 /\ numbers = {} -> Leaves(2)
               [] Len(typed) = 2 /\ numbers # {} -> \E k \in numbers : Leaves(k % 256)
               [] OTHER -> IF InChild THEN Leaves(1)
                           ELSE pc' = "prompt" /\ last_status' = 1]_vars
=============================================================================
