---------------------------- MODULE Environment ----------------------------
(* The environment of the shell (srcs/map, utils/init_env.c) and the builtins *)
(* that change it: export, unset and cd.                                      *)
(*                                                                            *)
(* The linked list is the sequence env of its items.  A name is a number, in  *)
(* the order of ft_strcmp.  A value is what it reads as: the elements of an   *)
(* absolute path, so the empty value and / are one; HOME= is left out, as cd  *)
(* tells these two apart in it.  The loops over argv take one argument a      *)
(* step; cd takes one element of its path a step, which the kernel's chdir    *)
(* and then resolve_pwd follow.                                               *)
EXTENDS Integers, SequencesExt

CONSTANTS
    Name,           \* strings that is_identifier accepts
    NotName,        \* a string that it does not accept
    Elem,           \* names of files
    NULL,           \* no value
    Unset,          \* no item
    HOME, OLDPWD, PWD, SHLVL,
    One,            \* the value of SHLVL in a first shell
    Dir,            \* the directories there are, as paths without links
    Link,           \* a function from paths to the directories they link to
    Envps,          \* environments a shell is started with
    Argvs,          \* arguments of export and unset
    CdArgs,         \* arguments of cd
    MaxCommands     \* bound: commands in a session

Value == Seq(Elem)
Item == [name : Name, value : {NULL} \cup Value]

\* name=value, or a name alone, as split_name_value takes it apart.
Argument == [name : Name \cup {NotName}, value : {NULL} \cup Value]

\* What cd is given: nothing, something it rejects, or a path.
Path == [absolute : BOOLEAN, elems : Seq(Elem \cup {".", ".."})]
CdArgument == [kind : {"home", "rejected", "path"}, path : Path]

ASSUME NamesAssumption ==
    /\ Name \subseteq Nat
    /\ {HOME, OLDPWD, PWD, SHLVL} \subseteq Name
    /\ OLDPWD \notin {HOME, PWD} /\ SHLVL # PWD
    /\ NotName \notin Name
    /\ NULL \notin Value \cup {Unset} /\ Unset \notin Value

ASSUME FilesAssumption ==
    /\ Elem \cap {".", ".."} = {}
    /\ One \in Value
    /\ Dir \subseteq Value
    /\ << >> \in Dir
    /\ \A d \in Dir : d # << >> => Front(d) \in Dir
    /\ DOMAIN Link \subseteq Value
    /\ \A l \in DOMAIN Link : Link[l] \in Dir
    /\ NULL \notin [name : Name \cup {NotName}, value : {NULL, Unset} \cup Value]

\* No argument makes HOME the empty value.
ASSUME HomeAssumption ==
    \A args \in Envps \cup Argvs : \A k \in DOMAIN args :
        args[k].name = HOME => args[k].value # << >>

ASSUME InputAssumption ==
    /\ Envps \subseteq Seq(Argument)
    /\ Argvs \subseteq Seq(Argument)
    /\ CdArgs \subseteq CdArgument
    /\ MaxCommands \in Nat

VARIABLES
    env,            \* the list, its first item first
    cwd,            \* the directory the kernel has for the shell
    pc,             \* "init_env", "prompt", or the builtin that runs
    argv, i,        \* the arguments of export and unset, and the next of them
    walk,           \* cd: its path, the next element k, how far the kernel and
                    \* resolve_pwd have got
    last_status,
    commands        \* how many commands were given

vars == <<env, cwd, pc, argv, i, walk, last_status, commands>>

(***************************************************************************)
(* The list.                                                               *)
(***************************************************************************)
Holding(e, n) == {k \in DOMAIN e : e[k].name = n}
IsHeld(e, n) == Holding(e, n) # {}
map_find_item(e, n) ==
    CHOOSE k \in Holding(e, n) : \A l \in Holding(e, n) : k <= l

map_get(e, n) == IF IsHeld(e, n) THEN e[map_find_item(e, n)].value ELSE NULL

map_update_item(e, n, v) == [e EXCEPT ![map_find_item(e, n)].value = v]

map_add_item(e, n, v) == <<[name |-> n, value |-> v]>> \o e

\* Mutant of map_set: a name that has no value is added once more.
AddsAgain(e, n, v) ==
    CASE n \notin Name -> e
      [] n \in Name /\ map_get(e, n) # NULL -> map_update_item(e, n, v)
      [] OTHER -> map_add_item(e, n, v)

map_set(e, n, v) ==
    CASE n \notin Name -> e
      [] n \in Name /\ IsHeld(e, n) -> map_update_item(e, n, v)
      [] OTHER -> map_add_item(e, n, v)

\* Mutant of map_unset: the item goes and takes the rest of the list with it.
CutsList(e, n) ==
    IF IsHeld(e, n) THEN SubSeq(e, 1, map_find_item(e, n) - 1) ELSE e

map_unset(e, n) == IF IsHeld(e, n) THEN RemoveAt(e, map_find_item(e, n)) ELSE e

(***************************************************************************)
(* What a program is started with, and what env prints.                    *)
(***************************************************************************)
map_size(e, count_null_value) ==
    Cardinality({k \in DOMAIN e : count_null_value \/ e[k].value # NULL})

\* The pointers that get_environ has room for, the NULL at the end included.
EnvironSize(e) == map_size(e, FALSE) + 2

\* Mutant of get_environ: a name without a value is exported too.
WithNames(e) == e

\* The array when the loop is past the items of e.
environ[e \in Seq(Item)] ==
    CASE e = << >> -> << >>
      [] e # << >> /\ Last(e).value # NULL -> Append(environ[Front(e)], Last(e))
      [] OTHER -> environ[Front(e)]

get_environ(e) == environ[e]

(***************************************************************************)
(* export without arguments.                                               *)
(***************************************************************************)
\* Mutant of swap_item: the names change places, the values stay.
SwapsNames(e, k, l) == [e EXCEPT ![k].name = e[l].name, ![l].name = e[k].name]

swap_item(e, k, l) == [e EXCEPT ![k] = e[l], ![l] = e[k]]

\* The two loops of bubble_sort_map from their indices k and l on.
bubble_sort_map[at \in Seq(Item) \X (Nat \ {0}) \X (Nat \ {0})] ==
    LET e == at[1]
        k == at[2]
        l == at[3]
    IN  CASE k > Len(e) -> e
          [] k <= Len(e) /\ l > Len(e) -> bubble_sort_map[<<e, k + 1, k + 2>>]
          [] OTHER -> bubble_sort_map[<<IF e[k].name > e[l].name
                                          THEN swap_item(e, k, l) ELSE e, k, l + 1>>]

print_sorted_env(e) == bubble_sort_map[<<Reverse(e), 1, 2>>]

(***************************************************************************)
(* Directories.                                                            *)
(***************************************************************************)
delete_last_elem(p) == IF p = << >> THEN p ELSE Front(p)

\* Mutant of resolve_elem: .. is taken for two times a single dot.
SkipsDots(p, elem) == IF elem \in {".", ".."} THEN p ELSE Append(p, elem)

resolve_elem(p, elem) ==
    CASE elem = "." -> p
      [] elem = ".." -> delete_last_elem(p)
      [] OTHER -> Append(p, elem)

\* The kernel: one element of a path from directory d on, NULL if there is none.
Enter(d, elem) ==
    LET p == Append(d, elem)
    IN  CASE d = NULL \/ elem = "." -> d
          [] d # NULL /\ elem = ".." -> delete_last_elem(d)
          [] d # NULL /\ elem \notin {".", ".."} /\ p \in DOMAIN Link -> Link[p]
          [] d # NULL /\ elem \notin {".", ".."} /\ p \in Dir \ DOMAIN Link -> p
          [] OTHER -> NULL

Absolute(v) == [absolute |-> TRUE, elems |-> v]
NoPath == [absolute |-> FALSE, elems |-> << >>]
NoWalk == [path |-> NoPath, k |-> 1, at |-> NULL, resolved |-> NULL]

(***************************************************************************)
(* Start of the shell.                                                     *)
(***************************************************************************)
Init == /\ env = << >>
        /\ cwd \in Dir
        /\ pc = "init_env"
        /\ argv \in Envps /\ i = 1
        /\ walk = NoWalk
        /\ last_status = 0
        /\ commands = 0

\* envmap_init: map_put with one string of envp; one without = is left out.
map_put ==
    /\ pc = "init_env"
    /\ i <= Len(argv)
    /\ env' = IF argv[i].value = NULL THEN env
              ELSE map_set(env, argv[i].name, argv[i].value)
    /\ i' = i + 1
    /\ UNCHANGED <<cwd, pc, argv, walk, last_status, commands>>

SetDefault(e, n, v) == IF map_get(e, n) = NULL THEN map_set(e, n, v) ELSE e

envmap_init ==
    /\ pc = "init_env"
    /\ i > Len(argv)
    /\ env' = SetDefault(SetDefault(env, SHLVL, One), PWD, cwd)
    /\ pc' = "prompt" /\ argv' = << >> /\ i' = 1
    /\ UNCHANGED <<cwd, walk, last_status, commands>>

(***************************************************************************)
(* Builtins.                                                               *)
(***************************************************************************)
Given == pc = "prompt" /\ commands < MaxCommands /\ commands' = commands + 1

\* Without arguments export prints the sorted list, and unset does nothing.
builtin_export ==
    /\ Given
    /\ argv' \in Argvs /\ i' = 1
    /\ pc' = IF argv' = << >> THEN "prompt" ELSE "export"
    /\ last_status' = IF argv' = << >> THEN 0 ELSE last_status
    /\ UNCHANGED <<env, cwd, walk>>

builtin_unset ==
    /\ Given
    /\ argv' \in Argvs /\ i' = 1
    /\ pc' = IF argv' = << >> THEN "prompt" ELSE "unset"
    /\ UNCHANGED <<env, cwd, walk, last_status>>

\* The loop goes on to the next argument, or the builtin returns.
NextArgument ==
    /\ pc' = IF i < Len(argv) THEN pc ELSE "prompt"
    /\ argv' = IF i < Len(argv) THEN argv ELSE << >>
    /\ i' = IF i < Len(argv) THEN i + 1 ELSE 1

\* Mutant of ExportStatus: the status is that of the last argument.
StatusOfLast(a) == IF a.name \in Name THEN 0 ELSE 1

\* Mutant of ExportStatus: the ERROR of update_key_value is the status.
ReturnsERROR(a) == IF a.name \in Name THEN last_status ELSE -1

ExportStatus(a) == IF a.name \in Name THEN last_status ELSE 1

update_key_value ==
    /\ pc = "export"
    /\ env' = map_set(env, argv[i].name, argv[i].value)
    /\ last_status' = ExportStatus(argv[i])
    /\ NextArgument
    /\ UNCHANGED <<cwd, walk, commands>>

unset_name ==
    /\ pc = "unset"
    /\ env' = map_unset(env, argv[i].name)
    /\ last_status' = IF argv[i].name \in Name THEN last_status ELSE 0
    /\ NextArgument
    /\ UNCHANGED <<cwd, walk, commands>>

\* builtin_cd up to chdir: what it rejects, no HOME, and the path to follow.
\* (HOME is looked up after OLDPWD is set; an empty path is not followed.)
builtin_cd(arg) ==
    LET pwd == map_get(env, PWD)
        path == IF arg.kind = "home" THEN Absolute(map_get(env, HOME)) ELSE arg.path
        rejected == arg.kind = "rejected"
        fails == rejected \/ (arg.kind = "home" /\ map_get(env, HOME) = NULL)
    IN  /\ Given
        /\ env' = IF rejected THEN env ELSE map_set(env, OLDPWD, pwd)
        /\ pc' = IF fails THEN "prompt" ELSE "cd"
        /\ last_status' = IF fails THEN 1 ELSE last_status
        /\ walk' = IF fails THEN NoWalk
                   ELSE [path |-> path, k |-> 1,
                         at |-> CASE path.absolute -> << >>
                                  [] path = NoPath -> NULL
                                  [] OTHER -> cwd,
                         resolved |-> IF path.absolute /\ pwd # NULL THEN << >> ELSE pwd]
        /\ UNCHANGED <<cwd, argv, i>>

\* An element of the path: without PWD there is nothing to resolve.
cd_elem ==
    /\ pc = "cd"
    /\ walk.k <= Len(walk.path.elems)
    /\ LET elem == walk.path.elems[walk.k]
       IN  walk' = [walk EXCEPT
                      !.k = @ + 1,
                      !.at = Enter(@, elem),
                      !.resolved = IF @ = NULL THEN NULL ELSE resolve_elem(@, elem)]
    /\ UNCHANGED <<env, cwd, pc, argv, i, last_status, commands>>

\* builtin_cd from chdir on: the kernel is there, and update_pwd follows.
cd_end ==
    /\ pc = "cd"
    /\ walk.k > Len(walk.path.elems)
    /\ LET moved == walk.at # NULL
       IN  /\ cwd' = IF moved THEN walk.at ELSE cwd
           /\ env' = IF moved /\ walk.resolved # NULL
                     THEN map_set(env, PWD, walk.resolved) ELSE env
           /\ last_status' = IF moved THEN 0 ELSE 1
    /\ pc' = "prompt" /\ walk' = NoWalk
    /\ UNCHANGED <<argv, i, commands>>

\* Any other command only leaves its status.
other_command ==
    /\ Given
    /\ last_status' \in {0, 1}
    /\ UNCHANGED <<env, cwd, pc, argv, i, walk>>

Next == \/ map_put \/ envmap_init
        \/ builtin_export \/ update_key_value
        \/ builtin_unset \/ unset_name
        \/ \E arg \in CdArgs : builtin_cd(arg)
        \/ cd_elem \/ cd_end
        \/ other_command

Spec == Init /\ [][Next]_vars

(***************************************************************************)
(* Properties.                                                             *)
(***************************************************************************)
\* The type invariant.
TypeOK ==
    /\ env \in Seq(Item)
    /\ cwd \in Dir
    /\ pc \in {"init_env", "prompt", "export", "unset", "cd"}
    /\ argv \in Seq(Argument) /\ i \in Nat \ {0}
    /\ pc \in {"export", "unset"} => i <= Len(argv)
    /\ walk \in [path : Path, k : Nat \ {0}, at : Dir \cup {NULL},
                 resolved : {NULL} \cup Value]
    /\ last_status \in {0, 1} /\ commands \in 0 .. MaxCommands

\* No name is in the list twice: map_add_item puts an item in front of the list
\* without looking, and a second item would come back when the first is unset.
UniqueNames == \A k, l \in DOMAIN env : env[k].name = env[l].name => k = l

\* What export prints is what the list holds, in the order of the names.
ExportSorted ==
    LET out == print_sorted_env(env)
    IN  /\ Len(out) = Len(env)
        /\ ToSet(out) = ToSet(env)
        /\ \A k \in 1 .. Len(out) - 1 : out[k].name < out[k + 1].name

\* A program gets every variable that has a value, once and with the value that
\* a look-up of its name finds, no other, and the array has room for them.
EnvironComplete ==
    LET out == get_environ(env)
    IN  /\ Len(out) + 1 <= EnvironSize(env)
        /\ \A n \in Name :
             LET given == {k \in DOMAIN out : out[k].name = n}
             IN  IF map_get(env, n) = NULL THEN given = {}
                 ELSE \E k \in given : given = {k} /\ out[k].value = map_get(env, n)

\* The directory that a value names.
Named(v) == FoldLeft(Enter, << >>, v)

\* PWD names the directory the kernel has for the shell.
PwdNamesCwd == map_get(env, PWD) # NULL /\ Named(map_get(env, PWD)) = cwd

\* Some .. in the path leaves a directory that was reached through a link.
UpFromLink(pwd, path) ==
    \E k \in DOMAIN path.elems :
        LET p == FoldLeft(resolve_elem, IF path.absolute THEN << >> ELSE pwd,
                          SubSeq(path.elems, 1, k - 1))
        IN  /\ path.elems[k] = ".." /\ p # << >> /\ Named(Front(p)) # NULL
            /\ Append(Named(Front(p)), Last(p)) \in DOMAIN Link

\* cd keeps PWD in step with the kernel, whether it succeeds, fails or leaves
\* the directories of PWD by several .. at once: the path is followed twice, by
\* the kernel and by resolve_pwd, which knows nothing of links.
PwdFollows ==
    [][/\ pc = "cd" /\ pc' = "prompt" /\ PwdNamesCwd
       /\ ~ UpFromLink(map_get(env, PWD), walk.path)
       => PwdNamesCwd']_vars

\* The last argument that names n, with what it gives n.
LastFor(n) == argv[SelectLastInSeq(argv, LAMBDA a : a.name = n)].value

\* A builtin that reports success has done all it was asked: each name has the
\* value of its last argument, and no name that was unset is left.
ReportedDone ==
    [][pc' = "prompt" /\ last_status' = 0 =>
         /\ pc = "export" => \A k \in DOMAIN argv :
              IsHeld(env', argv[k].name) /\ map_get(env', argv[k].name) = LastFor(argv[k].name)
         /\ pc = "unset" => \A k \in DOMAIN argv : ~ IsHeld(env', argv[k].name)]_vars

AsMap(e) == [n \in Name |-> IF IsHeld(e, n) THEN map_get(e, n) ELSE Unset]

\* The request that the next turn of a loop carries out.
Asked ==
    CASE pc \in {"prompt", "cd"} \/ i > Len(argv) -> NULL
      [] pc = "init_env" /\ i <= Len(argv) /\ argv[i].value = NULL ->
           [name |-> NotName, value |-> NULL]
      [] pc = "unset" /\ i <= Len(argv) -> [name |-> argv[i].name, value |-> Unset]
      [] OTHER -> argv[i]

\* The list with its updates in place, additions in front and removals carries
\* out every request as the map does.
Promised == INSTANCE EnvMap WITH m <- AsMap(env), asked <- Asked

KeepsMap == Promised!Spec
=============================================================================
