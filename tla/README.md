# minishell in TLA+

A model of the shell in this repository (`srcs/`, `includes/`): how a line is cut
into words and parsed, how its words are expanded, how it is carried out by
processes, pipes and file descriptors, how a program is looked for, what the
builtins do to the environment, and what Ctrl-C does to each step. The modules are
model-checked with TLC on small instances. Proved with TLAPS, for all values of the
constants: of the executor type correctness, that no child is lost, that the array of
pids never overflows, and, each for the class of lines it holds of, that descriptors and
pipes are where they belong, that a program starts with the file or the heredoc it was
given, and that `$?` is what the line promises, whatever the processes do at once; of
the environment that its list implements a map, that no name is in it twice, and that
`export`, `unset` and the programs get what they should; of the search for a program
that the leftmost one runs and that its failures are told apart, also when files change
during it; and of Ctrl-C that it is reported once, cancels what it should, and ends
the shell in one case only.

## 1. The system

One process, the *shell*, reads a line, turns it into a syntax tree, reads the
heredocs in it, and walks the tree. Each command that is not a builtin, and each
command in a pipeline or in brackets, runs in a forked child. The state is the
`t_context` (which a fork copies), the descriptor table of each process, the
contents of the pipes, and the process table.

| Component | Source | State | Operations | Modelled by |
|---|---|---|---|---|
| main loop, line set-up | `main.c`, `init/` | `last_status`, saved descriptors | read a line, start, clean up, end of input | `Executor`, `Signals` |
| executor | `execution/execute*.c` | `pids`, `cnt`, pipe descriptors, the two flags | one function per kind of node; fork, wait, builtins | `Executor` |
| redirects | `redirect/` | descriptors 0 and 1, `last_status` | `<`, `>`, `>>`, `<<` in the order typed | `Executor` |
| heredocs | `heredoc/` | `fd_num` of a redirect node, a pipe per body | read bodies in tree order, keep the last | `Executor`; Ctrl-C in `Signals` |
| syntax tree | `parser.h`, `parser_node_operator.c` | `t_node` | - | `ShellAst`, `Parser` |
| what a line promises | `start_pipeline` as its caller sees it | `$?`, running or not | type a line, finish | `CommandLine` |
| parser | `parser/` | cursor in the token list, syntax error, tree | recursive descent, one function per rule | `Parser`, `Grammar` |
| lexer | `lexer/` | the rest of the line, the token list | characters to tokens | `Words`; `Parser` takes the tokens |
| expansion | `expand/` | the two arrays of words of a command | variables, then `*`, then quotes, in place | `Words`; the executor sees its outcome |
| pathname patterns | `expand/*asterisk*.c`, `expand_read_dir.c` | - | pieces of a pattern, match with a name | `Patterns` |
| heredoc bodies | `expand_redirect.c`, `get_next_line/` | the static buffer of `get_next_line` | read a body back line by line, expand it | `Words` |
| signals | `signal/` | `g_sig`, dispositions | Ctrl-C and Ctrl-\ while idle, running, in a heredoc | `Signals` |
| environment | `map/`, `utils/init_env.c` | a linked list of names and values | find, set, add in front, remove, sort a copy | `Environment`, `EnvMap` |
| builtins | `builtin/` | `last_status`, working directory | `export unset cd`; `exit`; `echo env pwd` | `Environment`; `Commands`; the others by output and status |
| program lookup | `execute_external.c`, `execute_search_path_env.c` | the files, the errors so far | search along `PATH` or at a path, system call by system call | `Commands`; the executor sees its outcome |
| utilities | `utils/` | - | substrings, splitting, numbers as text, errors | by what they return, in `CharSeqs`, `Commands` and `Words` |
| `libft`, tests | | - | | not modelled |

They interact by calls on one context: `start_pipeline` calls the lexer, the
parser, the heredocs and `exec_handler` in this order; the executor calls the
expansion, the redirects and the builtins; a child works on its copy. Between
processes there are only pipes, exit statuses and the terminal.

What is hard here is what several processes do at once: a descriptor left open
in one process keeps another from its end of file or its SIGPIPE; the order of
forks, closes and waits; a flag of the context that is right for the shell and
wrong for a child; `last_status` read by code that expects a fresh one; and
failures in the middle of a pipeline. The list, with lines, is in
`PROJECT.json` under `hazards`.

## 2. The modules

* `ShellAst` - syntax trees. All trees of an instance live in one sequence,
  `Ast`; a node is an index and 0 is `NULL`. Nodes are numbered in post-order, so
  ascending order is the order of `heredoc_handler`. A command is what its
  program does: whether it reads, copies, writes, its status. `Promise` is the
  status a line should leave.
* `CommandLine` - the abstract specification: a line is taken at the prompt and
  the prompt comes back, some time later, with the promised status; the shell
  ends at the end of input or by an `exit` outside brackets and pipelines.
* `Executor` - the shell and its children, composing main loop, heredocs,
  executor, redirects and programs over one process table. It implements
  `CommandLine` (`KeepsPromise`).
* `MCExecutor` - the command lines of each run.
* `Grammar` - which token sequences are lines, after the grammar in the comment of
  `parser.c`, and what a line means: the commands that run and whether it succeeds,
  given which commands succeed. It does not know how the parser works. It departs from
  that comment in one thing: redirections may stand between the words of a command.
* `Parser` - the recursive descent, checked against `Grammar`.
* `EnvMap` - the abstract specification of the environment: a map in which one
  request at a time takes effect, once.
* `Environment` - the list and the builtins `export`, `unset` and `cd`, with the
  kernel's working directory; it implements `EnvMap` (`KeepsMap`).
  `MCEnvironment` is its instance.
* `CharSeqs` - strings as sequences of characters, indexed as in C. `Patterns` - the
  match of a file name with a pattern, and a definition of `*` to compare it with.
* `Words` - from the characters of a line to the words a command runs with: lexer,
  simple command, the passes of the expansion, the body of a heredoc. `MCWords` is
  its instances.
* `Commands` - from those words to a status: the search for a program among files
  that may change, its failures, and `exit`. `MCCommands` is its instance.
* `Signals` - the main loop, heredocs, fork and wait once more, seen from the
  terminal's signals; a line is its heredocs and its children. `MCSignals` is its
  instance.
* `NatSetTheorems`, `Executor_proofs`, `ExecutorShell_proofs`,
  `ExecutorInput_proofs`, `ExecutorStatus_proofs`, `Environment_proofs`,
  `Commands_proofs`, `Signals_proofs` - proofs, section 5.

`Executor` takes trees of the shapes `ShellAst!WellFormed` allows; that the parser
builds no others is `Parser`'s `TreeShape`. `Parser` takes token sequences; that the
lexer cuts a line into the right ones is `Words`' `LexedAsWritten`. To `Executor` a
word is whether it is empty, a builtin or a program, which is what `Words` ends
with; a program is found or not, which is `Commands`; and a builtin is its output
and status; what it does to the environment is `Environment`.

### How `Executor` corresponds to the code

`proc[p]` is process `p`: its context fields under their C names, its descriptor
table `fds`, the `fd_num` of its copy of the tree, and where its code stands.
`exec_handler` recurses along the tree, so the call stack is the path from the
current `node` to the root; `pc` says where in the function of that node the
process is:

| `pc` | place in the code |
|---|---|
| `prompt` | `main_loop`, before `readline` |
| `heredoc` | `heredoc_handler`, `i` is the last node visited |
| `exec` | entry of `exec_handler` for `node` |
| `child` | `exec_cmd_handler` after `fork` returned 0 |
| `cmd`, `redirect`, `builtin` | in `exec_cmd` (or `exec_redirect`), in the loop of `apply_redirects`, in `exec_builtin` |
| `program` | after `execve` |
| `return` | `exec_handler(node)` has returned `ret` |
| `wait`, `decide` | in and after `wait_children_status`; `node` is then the caller |
| `free`, `zombie` | no process; exited and not waited for |

Functions that only touch their own process are operators on the record
(`setup_child_process_fd_flg`, `reset_parent_process_fd`, `redirect_here_doc`,
...) and are executed within the action that calls them: nothing another process
can see lies between. Actions end where one does: at a fork, a pipe operation, a
wait, an exit. `pids` and `cnt` are one sequence. Pids are slot numbers, so
`pids[i] = 0`, which a child has for itself, means "any child" to `waitpid`
as it does in C. A zombie whose parent is gone is reaped at once.

System calls and programs are outside the repository and modelled from their use
(`external` in the map): the lowest free descriptor is taken, `close` of a closed
descriptor fails, `write` blocks on a full pipe and kills without readers, `read`
ends when there are no writers. A pipe holds `PipeCap` chunks.

Abstractions: words, file names and contents are left out; the terminal accepts
every write; lines come from a terminal (`ReadLine`). `pipe` inside
`expand_heredoc_var` is assumed to succeed, because its failure leaves
`pipe_fds` uninitialised. A failed `execve` or an unsuccessful lookup is a
program that exits with 126 or 127.

### How `Parser` corresponds to the code

A token is its kind; a word is its place in the line. Each C function is an
operator of the same name that takes the position of the cursor and returns a
record: the node, the new position, and `is_error` of the `t_syntax_error`.
Freed nodes are `NULL`. A run of words and redirects is taken as a whole
(`simple_cmd`), as `cnt_cmd_rd` scans it before anything is built. The system
builds a line token by token (`lexer`), parses it, frees the tree, and starts
again; blank lines do not reach the parser (`read_command`).

### How `Environment` corresponds to the code

The list is the sequence `env`. A name is a number in the order of `ft_strcmp`; a
value is the path it reads as, so an empty value and `/` are one; `HOME=`, where `cd`
tells them apart, is left out (`HomeAssumption`). One turn of a
loop over `envp` or `argv` is one action (`map_put`, `update_key_value`,
`unset_name`); `builtin_cd` runs up to `chdir`, then `cd_elem` takes an element of
the path in the kernel and in `resolve_pwd` side by side (neither sees the other),
and `cd_end` is what follows `chdir`. The kernel (`Enter`, external) knows a set
of directories and links to them. `other_command` stands for every other command:
it leaves its status, which `export` and `unset` then inherit.

`get_environ` is the sequence of items that are handed to a program.

### How `Words` corresponds to the code

The variables are the cursors and arrays of the C code: `rest` is `line` in
`lexer`, `words` are `node->cmds` and `node->left->redirects`, `list` and `i` the
array and the index that `expand_variable_handler`, `expand_asterisk_handler` and
`remove_quote_handler` go through, `gnl` the static buffer of `get_next_line`. A
step is one token or one run of blanks in the lexer; one word in each pass, with
everything the pass does to it, such as the names that replace a pattern and move
the rest of the array; one call of `read` or one line in the body of a heredoc.
`pc` names the pass. A line that is not a simple command ends at `parser`.

A character is itself where the code looks at it and otherwise one of a few
letters. `$?` is `1` here; `Commands` has it with the real status. The directory is
the sequence of entries that `readdir` returns, a file, a directory or a dangling
link each; `expand_asterisk` keeps its reverse order, as the code does.

The properties compare with the line as it was written (`MeaningsAt`): its words
cut by definition, each expanded alone, from the line and not from the array. That
a pass left the others' results alone is then what could fail.

### How `Commands` corresponds to the code

A session is a short script of commands, each in the shell or in a child. One
system call is one step: `access(F_OK)`, `access(X_OK)`, `stat`, `execve`; between
any two `FileChanges` may replace what is at a path, up to `MaxChanges` times. A
path is one of `Kinds`: it cannot be reached, or is a plain file, a directory, a
program, or a file that `execve` refuses. `candidates`, `i` and `found_non_exec` are
the directories, the loop and the flag of `locate_executable_in_dirs`. `seen` is
history: what has been at each path since the command began. A property of a search
in files that change can only speak of that.

`exit` is arithmetic: `is_digit_str` with its overflow test digit by digit, then
`ft_atoi` into an `int`, then the eight bits of a status. `LONG_MAX` and `INT_MAX`
are constants; the run has a `long` of eleven bits and an `int` of nine, so the
numbers around each limit have few digits.

### How `Signals` corresponds to the code

A variable has the name it has in C: `g_sig`, `rl_done`, `heredoc_interrupted`,
`last_status`; `handlers` is the disposition of each signal in the shell, and each
child has its own, which it inherits at `fork` and resets in `child_setup`. `pc` is
where the shell is: before `main_loop`, at its start (`loop`), inside and after
`readline`, in `heredoc_handler`, starting children (`exec`), in
`wait_children_status`. `Key` is a signal from the terminal: it goes to the shell
and its children in one step, runs the handler each has, and may come between any
two steps of any of them. `waitpid` is a step that needs a child that is done.
`pressed`, `hit` and `spent` are history: whether Ctrl-C came since a line was taken,
whether one found every child ready to be ended, and how many came since `main_loop`
or a fork last set the handlers.

`signal()` is not the same function everywhere. `signals.h` defines
`_POSIX_C_SOURCE` and nothing else before it includes `<signal.h>`; with glibc that
selects the `signal()` of System V, whose handlers are gone after one signal and do
not restart `waitpid`. With macOS, the Makefile's other platform, handlers stay and
`waitpid` is restarted. `system_v` says which it is; it is chosen in `Init`. Under
System V an interrupted `waitpid` leaves `c_status` alone and the loop goes on
(`eintr`), so a child may be left behind; what it does then is not modelled.

The shell reads from a terminal: what `isatty` guards is taken as true.

## 3. Properties

| Property | Says | Runs |
|---|---|---|
| `TypeOK` | contexts are typed, each process is at a node of the kind its code expects, pipes are within capacity | Pipelines |
| `NoLostChild` | each child is in `pids` and still ahead of the waiting loop; none at the prompt and where `&&`, `\|\|` decide | Pipelines |
| `PidsInBounds` | `pids` is never filled to its size, and nobody has more children than pids | Limits |
| `CleanPrompt` | at the prompt the shell has the terminal on 0-2 and nothing else open | Redirects |
| `PipelineWired` | neighbours share their pipe; a command has no other end of a live pipe | Pipelines |
| `NoPipeHeldInWait` | who waits holds no end of a pipe in use | Pipelines |
| `SubshellIsolation` | no builtin of brackets or a pipeline runs in the shell | Pipelines |
| `OneShell` | no forked child comes back to the prompt | Redirects |
| `InputDelivered` | a program starts with the input its last input redirect names, complete | Redirects |
| `OnlyExitEnds` | the shell ends only at the end of input or in `exit` | Pipelines |
| `KeepsPromise` | the refinement of `CommandLine`, with its liveness: the prompt comes back, with the promised status | Pipelines, Redirects |
| `AcceptsLines` | the parser accepts exactly the lines of the grammar that redirect no brackets, to the last token | Parsing |
| `ErrorReported` | a line has a tree or a message, never both or neither | Parsing |
| `TreeShape` | trees lean the way `exec_handler` relies on | Parsing |
| `MeansTheLine` | the tree runs the commands the line says, whichever of them succeed | Parsing |
| `UniqueNames` | no name is in the list twice | Variables |
| `ExportSorted` | `export` prints every item once, in order | Variables |
| `EnvironComplete` | a program gets each variable with a value once, and its array holds them | Variables |
| `PwdFollows` | `cd` keeps `PWD` in step with the kernel | Variables |
| `ReportedDone` | `export`, `unset` that report success did all they were asked | Variables |
| `KeepsMap` | the refinement of `EnvMap` | Variables |
| `InterruptReported` | `$?` of a line is 130 exactly when there was a Ctrl-C since the last one | Signals |
| `CutByItsOwn` | no heredoc is cut by a Ctrl-C from before its line | Signals |
| `CancelledNotRun` | a line cancelled in a heredoc does not run | Signals |
| `ShellSurvives` | no key ends the shell; under System V a Ctrl-C may that is the second since the prompt or the last fork | Signals |
| `WaitsForAll` | the prompt comes back after all children, with the status of the last; under System V Ctrl-C may cut this short | Signals |
| `CtrlCEndsLine` | liveness: Ctrl-C brings the prompt back | Signals |
| `LexedAsWritten` | the lexer cuts a line at its blanks and operators outside quotes, and refuses exactly what has an open quote or an operator the shell lacks | Words |
| `MeansAsWritten` | a command runs with the words, files and heredoc that the line means, each expanded once, save heredocs with a `$` that begins no variable | Words |
| `BuiltinHere` | what was sent to the shell itself as a builtin is one after expansion | Words |
| `NoUnexpectedError` | no line reaches an error the code calls unexpected | Words |
| `LeftmostRuns` | what runs is the leftmost program in `PATH`, whatever changes meanwhile | Commands |
| `StatusTellsWhy` | 127 means that it was nowhere, 126 that something else was there | Commands |
| `ExitTakesItsArgument` | `exit` leaves with its number, the last status, or 2; with one argument too many only a child ends | Commands |

(`Environment`, `Signals`, `Words` and `Commands` have a `TypeOK` of their own.) `CancelledNotRun` leaves
out a line whose last heredoc is superseded by a file: `fd_num` does not tell of the
Ctrl-C and the line runs. `CtrlCEndsLine` is about a Ctrl-C that finds the children
with their own dispositions set and not catching it: one that comes between `fork`
and `set_child_sig_handlers` is lost. `MeansTheLine` leaves out lines with a
pipeline to the right of `&&` or `||` and the other operator later (`Regrouped`):
`a || b | c && d` is grouped as `a || (b | c && d)`. Of up to nine tokens these are
exactly the lines whose meaning differs; no document of the repository speaks of
them. `PwdFollows` leaves out the step in which `..` leaves a directory reached
through a link: `resolve_pwd` works on the text of the path. `ShellSurvives` allows one way to
end the shell, under System V: `main_loop` and each fork set the handler of Ctrl-C,
the first Ctrl-C after that uses it up, and the next one finds `SIG_DFL`. Keys of
earlier lines and Ctrl-\ excuse nothing. `AcceptsLines` and `MeansAsWritten` have an
exception each, which the tests of the repository speak of; see below.

`KeepsPromise` covers deadlock and lost wake-ups within a line; deadlock is also
checked by TLC in every run (in `Executor`, `Ended` is the only way to stop; the
parser never stops). These set `CHECK_DEADLOCK FALSE`: the sessions of `Variables`
and `Commands` end after their last command, `Words` and `QuoteInValue` deal with one
line, and in `Signals` the shell may wait for ever for a program that only a key would
end. `Parser`, `Words`, `Commands` and `Environment` are sequential code that always
returns; they have no liveness property and no fairness.

Fairness in `Executor`: `WF(Step(p))` for each process, that is, the kernel runs every process
that can run. Reading a line is not fair: nobody has to type. A program that reads
the terminal is assumed to get its end of file in the end (`ReadEof` is part of
`Step`); without it `cat` alone would rightly never end. `WF(Finish)` in
`CommandLine` is what this has to imply. Fairness in `Signals`: the shell (`Shell`)
and each child (`Kid`) go on when they can; typing a line, a heredoc or a key is not
fair, and a program of kind `stays` never ends by itself.

## 4. The runs

Each run of the executor is a set of command lines in `MCExecutor`, each chosen for what it makes
the processes do, and every session of `MaxLines` of them: two in the passing
runs, since what a line can do to a later one goes through the context, the
descriptors and the process table, and these are compared with their initial
values at the prompt (`CleanPrompt`) or by the behaviour of the second line.

| Run | Lines | Bounds and why |
|---|---|---|
| `Pipelines` | `yes \| cat`, `yes \| true`, `echo \| cat \| false`, `&&` and `\|\|` chains, `true && echo \| cat`, `exit 3 \| cat`, `ls \| cat && exit 3`, `''`, `true && unset X`, a syntax error; in brackets `(true && cd bad) \|\| echo`, `(echo \| cat) && ls`, `(exit 3)`, `(ls) \| cat`, `yes \| (cat)` | three children at once, a pipe of one chunk and a writer of two, so writers block and SIGPIPE happens; what is inside brackets left of a pipe fits the pipe |
| `Redirects` | files that open or not, one and several heredocs, a heredoc superseded by a file, a redirect against a pipe, redirects alone | ten descriptors, four pipes |
| `Limits` | pipelines of two and three, three heredocs on a command, two on a pipeline, `false \|\| cat << eof < f` whose child becomes a second shell with nothing to wait for | `MaxProcessCount` 3 and descriptors 0 to 7: both limits are reached in the middle of a line |
| `Parsing` | every sequence of one to seven tokens | `MaxTokens` 7: all pairs of operators around brackets, and three commands with two different operators, the least at which grouping shows |
| `Variables` | three commands out of 20 from three environments and three directories: `export` and `unset` with up to three arguments, names refused in the first and last place, the variables of `cd`; `cd` home, to a file that is not there, up twice, through a link | five names, directories `/`, `/a`, `/a/b`, a link `/l` to `/a/b`; three commands are enough to unset `PWD`, set it and use it |
| `Signals` | two lines out of seven: a builtin, children that end, fail, stay or catch Ctrl-C, one and two nodes with heredocs, the last of them superseded or not | three signals at any step, both kinds of `signal()`; two lines, because a Ctrl-C reaches the next line through `g_sig`; the third signal meets a shell that has already lost its handler |
| `Words` | every line of up to five characters out of blanks, quotes and operators; up to five out of quotes, `$`, `*` and a name, with four values of a variable; patterns of up to six characters; redirects; heredoc bodies of up to four characters | enough for two quotes of both kinds with something in and around them, for two variables next to each other, for a pattern of three pieces that overlap (`ManyFiles` has every name of up to four letters out of two), and, with `BUFFER_SIZE` 2, for lines that end in, at and beyond the buffer |
| `Commands` | two directories in both orders, `PATH` unset, empty, or with colons everywhere; names with and without slashes; every kind of file at each place and two changes; `exit` with every number of up to four digits out of four, signs and blanks, several arguments | two directories are the least at which left and right differ, two changes can both create and remove; the numbers go beyond `LONG_MAX` 1023 on both sides |
| `HeredocThenCat`, `SimpleToFile`, `Superseded`, `QuoteInValue` | one disagreement each | see below |

The sets of the passing runs leave out lines whose behaviour is already known to
be wrong (below) or known to break a property no document promises: brackets left
of a pipe that overflow it, nested brackets, redirects alone inside a pipeline, a
failing builtin with an open redirect, a builtin with a heredoc, a heredoc
that `&&` skips, and a file between two heredocs: in `cat << a < f << b` the first `<<`
already installs the body of the last one, `< f` replaces it, the second `<<` does
nothing, and `cat` reads `f`. Each is in `hazards` with its line.

### Disagreements with the repository's own documents

* `HeredocThenCat`: `< e << asdf | cat` with no file `e` ends the shell;
  `check_shell_behavior.sh` expects `cat` to end normally and the line to go on.
* `SimpleToFile`: `false | > a` leaves 1 in `$?`; the same script expects 0.
* `Superseded`: after a failed line, `cat << eof < f` returns in the child, which
  becomes a second shell at the prompt.
* `QuoteInValue`: `echo $A` with `b'a` in `A`, or `echo *` next to a file of that
  name, ends the shell with the error that `utils/error.c` calls logically
  unexpected: quotes are removed after variables and patterns are expanded, so those
  of a value are taken for quotes that were typed. The comment in
  `expand_handler.c` speaks of quotations to remove, and none was typed here. The
  values and names of run `Words` have no quotes.

Two more have no run of their own; the property that would meet them names them as its
exception, so that everything else is still checked:

* `( a ) > f`: the grammar in `parser.c:20-25` lets redirections follow brackets, and
  `check_shell_behavior.sh:47` has `(unset PATH && cat Makefile) 2>b || echo hello`
  run. `parse_cmd_type` (`parser.c:87-89`) refuses every such line. `Grammar!IsLine` has
  them, and `AcceptsLines` says that of its lines exactly these
  (`RedirectsBrackets`) are refused.
* In a heredoc, `retrieve_var_name_len` (`expand_variable_helper.c:87-88`) takes any one
  character after a `$` for a name, so `$'` vanishes and so does a `$` with the end of
  its line. `heredoc_test.sh:64-72` has `$'` and `$+` under "below cases are failed and
  need to be fixed". `Words!BodyText` keeps the `$` and the character, and
  `MeansAsWritten` leaves out bodies with such a `$` (`HasBareDollar`). Outside
  heredocs the function does the same; no word of run `Words` has such a `$`.

## 5. What is proved

The assumptions on the constants are what the code, or the numbering of the trees,
gives. `AstAssumption`: trees have the shapes the parser builds. `TreeAssumption`: a
node is in one tree, and the numbers are in post-order, so that a left side comes just
before its right side. `BoundsAssumption`: there is a shell, a pipe holds something,
there are three standard descriptors, and a line is the root of a tree.
`NamesAssumption`, `FilesAssumption`, `InputAssumption`: names are ordered,
directories are closed under `..`, links lead to directories. `FamiliesAssumption`:
words and paths are texts, files are of the kinds listed, and there is one `PATH` at a
time, or none. `LinesAssumption`: a line of `Signals` has statuses `$?` can have. TLC
evaluates each of them in the runs.

### The executor: types and children

* `TypeCorrect`: `Spec => []TypeOK` (`Executor_proofs`).
* `ChildrenKept`: `Spec => []NoLostChild` (`Executor_proofs`).
* `ChildrenBounded`: `Spec => []PidsInBounds` (`Executor_proofs`).

`TypeOK` is inductive because it includes `AtItsNode`: without it, `Launch` could
be reached on a node that is not a command and its status be out of range. The
proof first shows of each action that it is of one of few shapes: `Moves` (one
process goes on, keeping its parent and its children, or exits), `Clears` (one
that has no children forgets those it had), a fork, the beginning of a wait, the
reaping of a child. The theorems then treat the shapes only.

`NoLostChild` is not inductive alone. `Kept` adds that a process that is gone has
no children and that no process is its own child: otherwise the exit of a process
could hand a child to a slot that a fork reuses. The steps that matter are the
fork, where the child inherits `pids` that name its siblings and has no child
itself; the wait, where `pids[i]` is 0 or the child reaped; and the exit of a
parent, whose children get no new parent.

`PidsInBounds` follows from `Kept` and `Bounded`, the length of `pids`: a fork needs
room for one more, in the child's copy too, and everything else keeps `pids` or
empties it. Each child being named by `pids`, there are no more children than names.

`NatSetTheorems` has the facts about least and n-th elements of sets of naturals
that the `CHOOSE`s of descriptors, slots and pipes rest on, and `Recursion`: a
function that calls itself on smaller arguments only, by some measure, exists and is
what its definition says; `Tabulation` is the same for one that calls itself more than
once. `Executor_proofs` begins with what each operator returns.

### The executor: flags, descriptors and pipes

These do not hold of all lines: sections 4 and 6 and `hazards` name lines for which
the code does something else. Each theorem is about a class of lines, a condition on
`Ast` alone, and about all lines in it, of any length and in any order, with any files
that open or not, any programs and all interleavings (`ExecutorShell_proofs`, and
`ExecutorInput_proofs` for `InputsAreDelivered`).

| Theorem | Lines | Left out, and what happens there |
|---|---|---|
| `SubshellsAreIsolated`: `SubshellIsolation` | `Alone`: brackets are not in brackets and no pipe leads away from them | `EndOfBrackets` clears both flags, so `((true) && cd x)` and `(ls) \| cd x` change the shell's directory |
| `OnlyOneShell`: `OneShell` | `NoneSuperseded`: a heredoc that comes first in a command is its last input | run `Superseded` |
| `PromptIsClean`: `CleanPrompt` | `Tidy` | see below |
| `WaitHoldsNoPipe`: `NoPipeHeldInWait` | `Tidy` | |
| `PipelinesAreWired`: `PipelineWired` | `Tidy` | |
| `InputsAreDelivered`: `InputDelivered` | `NoneSuperseded` and `FilesFirst`: in a list whose last input is a heredoc, the files come before the heredocs | `cat << a < f << b` starts with `f` |
| `ShellStaysUp`: `OnlyExitEnds` | `Tidy`, and a system that is `Ample` | below |
| `StatusAsPromised`: `AnswersAsPromised` | `Tidy`, `Alone` and `Definite`, `Ample` | run `SimpleToFile`, and below |

`Tidy` is: no heredocs; a builtin with redirects succeeds, and only the first of them
may fail to open; redirects without a command are outside brackets and pipelines; no
pipe leads away from brackets. `InputsAreDelivered` is the one theorem here that is about
heredocs. Out of `Tidy` are `exec_builtin`, which restores the
standard descriptors after a success only; a second redirect of a builtin that fails
after the first has been opened; heredocs that `&&` skips; redirects in a pipeline,
which `reset_parent_process_fd` does not see; and brackets whose output pipe stays
with the shell.

`Ample` is: the descriptors 0 to 7, and more slots for processes, and for pids, than any one
line has commands. In a smaller system a `pipe`, `dup` or `fork` that fails takes the
shell down with it (run `Limits`); a table of processes of the line's own size is not
enough, because the shell itself is in it.

`Definite` is: an `exit` is a builtin by its name as typed, and `unset`, which leaves
`$?` as it found it, comes right of a `&&`. Elsewhere what the line leaves is that of the
line before it, or, for an `exit` that an expansion makes, of a child that ends alone.
The lines of the run `Pipelines` are all `Tidy` and `Definite`, and all but `(ls) | cat`
are `Alone`; those of the run `Redirects` are all in the two classes of
`InputsAreDelivered`.

`FilesFirst` is needed because `fd_num` has one descriptor for all heredocs of a list: the
last body is the one that is kept, and the first `<<` that `redirect_here_doc` comes to
takes it, so that a file between two heredocs replaces the body and nothing puts it back.

The proofs go in layers. First, for each action, what it does to the descriptors,
flags and place of the process (the lemmas `...Does`), from which follows that anybody
else only loses its parent, is reaped, or is forked (`Bystander`). Then invariants of
one process:

* `ShellRuns`: outside a child the shell runs builtins only, and `Flags`: inside
  brackets or a pipeline the flag `is_exec_in_child_ps` is set, and after `&&` and `||`
  it comes back. These give `SubshellIsolation`.
* `Steady` and `Listed`: 0, 1 and 2 stay open, and each descriptor a context remembers
  is -1 or another one, so that nothing the code closes or moves is one of the three.
* `ShellAt` and `Kid`: heredocs are read in order of their numbers, so when a command
  starts, the one it needs is there; a child is at its command and never returns
  unless its redirects end without a status of their own.
* `Wires`: which descriptors of the shell are open at each place of the code (the
  stored copies of 0 and 1 while a line runs, a file between a redirect and its
  builtin, both ends of a new pipe until the left side is forked, the one to read from
  until the right side is, no pipe in the wait), and what each refers to. `CleanPrompt` and `NoPipeHeldInWait` are what it says of the prompt
  and the wait.

`PipelineWired` relates three processes. `Own`: while the shell is there, everybody
else is its child, and so has been forked by it and not by a sibling. `Tied`: between
`fork` and its first command a child has the ends it was given, in the fields or in
the descriptors, whichever step it has reached. `Stands`: a child whose right neighbour
is not forked yet left the read end with the shell; all others are behind the shell
(`Past`), which holds nothing of theirs. `Linked`: of two children that are neighbours,
one writes to the pipe that the other reads from. That a command has no other end of a
pipe is the second half of `Tied`.

`OnlyExitEnds` is an action property: of each step that could end the shell it is shown
that it does not. `Outside` says that both flags are down wherever the shell is outside
brackets and pipelines, so that a failing redirect or a builtin is never taken for a
child's. `Wires` gives the descriptors: enough are free for one more pipe, the ends that
`reset_parent_process_fd` closes are open, and 1 is not a pipe when a builtin writes.
`Few` counts the pids: no more than the line has commands behind the node that the shell
is at, in the order of their numbers, so that a fork finds a slot.

### The executor: the input of a program

`InputDelivered` is an action property: a program starts with the file its last input
redirect names, or with a pipe that holds the whole body and that nobody writes to. A
heredoc gets there by six steps of two processes: the shell writes it to a pipe before
the line runs, keeps the descriptor in `fd_num` while the commands before it run, a child
inherits it, the shell closes its own, the child copies the body to another pipe
(`exec_cmd_with_heredoc`) and moves that one to its standard input. The invariant,
`Delivers`, says at each of these who is owed what:

* `Claims`: the shell is owed the heredocs of the line it has read and has not passed; a
  child that of its command, from `fork` until its program starts.
* `Filled`: the descriptor in `fd_num`, or the standard input once `fd_num` is -1, is the
  read end of a pipe whose contents are the body (`BodyOf`, the last heredoc's).
* `Clear`: nobody has a write end of that pipe, nobody else is owed it or has it as standard
  input, and none of the pipeline's fields (`Held`) refers to it where it may still be
  used. So no program reads the body before its command, and no child takes it
  for its end of a pipeline.

A step of one process is shown to be a turn (`Turns`): who takes it takes over only what
nobody is owed (`Deals`, one lemma for each kind of action), everybody else has no more
than before (`Within`), and a child that is born takes what the shell gives up
(`Births`). `DeliversKept` says once and for all that such turns keep `Delivers`; the
contents stay because every write goes to a pipe nobody is owed, or to a new one.

`Given` is the inductive invariant. It adds `Sound` (`ShellRuns`, `Steady`, `ShellAt` and `Listed`),
`Kid` and `Own`, `Emptied` (who is gone has nothing open, so that a pipe that is not
in use has no end anywhere), `Numbered` (a heredoc that a later input replaces never has a
descriptor), `Ready` (what the shell has open while it reads heredocs), and
`Progress`, how far a child is with its redirects: its `fd_num` is -1 exactly if a
heredoc is among those it has applied, and where the last input is a file that it has
applied, the file is its standard input. From `Given` follows that whoever comes to its
program by `apply_redirects` (`StartsFed`), the only way with a redirect, has its input.

### The executor: what a line leaves

`StatusAsPromised` (`ExecutorStatus_proofs`) is the refinement of `CommandLine` without
its liveness: a line that ends leaves the status that `Promise` computes from its tree
alone, and an `exit` ends the shell exactly where the line reaches it outside brackets
and pipelines. (`Executor!AnswersAsPromised` states this; `KeepsPromise`, which the runs
check, implies it.) `Promise` is a recursive function over the tree; `PromiseDef` says, from
`Tabulation`, that it is what its definition says.

The invariant, `Faithful`, has the recursion of `exec_handler` in it, with the processes
between. For the shell (`Answers`), at each place of the code:

* `ComesTo`: it is at a node that the promise reaches (`Reached`: no `&&` or `||` above
  passes it over), without children that it does not expect there.
* `Returns`: what it comes back with from a node is the promise of the node, in `ret` and
  in `last_status`; or `ret` is 0, and the last child in `pids` is due to leave it.
* `Waits`: in the loop of `wait_children_status` the last child is due to leave the promise
  of what the shell came back from, however the children before it ended; each child
  still to be waited for is there, and there once (`Alive`), so that a `waitpid` for
  one is not answered by another, and `Decides`: after the loop, so is `last_status`.
* `Underway`: in the middle of a command, the redirects so far have opened and the status
  is 0, so that what follows decides.

And for each child (`KidsDue`): it is `Underway`, has a descriptor to open files with, and
writes to a pipe only if it is left of one, so that no SIGPIPE ends the last command of a
pipeline. `Due` is what a child owes: a zombie its status, another one the promise of
its node. Steps of a child keep what it is due (`KidsDueByKid`); a step of the shell
takes it from `Answers` to `Answers`, with one lemma for each kind of action
(`LeftAnswers`, `ForkAnswers`, `WaitAnswers`, `DecideAnswers` and the others); and where
the promise of a node is that of its caller is `PromisePasses`. At the root this is
the promise of the line. An `exit` in the middle of a line ends it with the promise of
the root by `ExitsLine`: everything above passes it up.

The theorem needs the others: that no child is lost, that a child is the shell's own
(`Own`), that the flags tell a child from the shell (`Flags`), that a builtin of
the shell does not write to a pipe (`Wires`), and that nothing else ends the shell.

### The environment

For every set of names, files and links, every starting environment and all arguments
(`Environment_proofs`):

* `EnvironmentTyped`: `Spec => []TypeOK`.
* `NamesOnce`: `Spec => []UniqueNames`.
* `ListIsMap`: `Spec => KeepsMap`, the refinement of `EnvMap`.
* `SuccessIsDone`: `Spec => []ReportedDone`.
* `EnvironIsComplete`: `Spec => []EnvironComplete`.
* `ExportIsSorted`: `Spec => []ExportSorted`.

The invariant is `TypeOK`, `UniqueNames` and `KnownBefore`: while `cd` runs, a path
that `resolve_pwd` builds on means that the list still has a `PWD`, which holds
because `OLDPWD` is another name. `UniqueNames` is what makes removal of the first
item with a name the removal of the name. The lemmas `UpdateList`, `AddList` and
`UnsetList` say what each operation does to the list and to the map it stands for;
each action is then one request, or one of the changes of `cd` and the start.

`ReportedDone` needs `DoneSoFar`: while the status is still 0, each argument before
the current one has taken effect, which a later one for the same name may replace but
not undo. `environ` and `bubble_sort_map` are recursive functions; `Recursion` says
that they are what their definitions say, by the length of the list and by the number
of comparisons left. From there `EnvironIsComplete` goes by induction over the list,
and `ExportIsSorted` by the two loops: after `k` passes the first `k` items are the
least ones in order, and a swap keeps the items.

### The search for a program

For every `PATH`, all files and any number of changes to them (`Commands_proofs`):

* `LeftmostProgramRuns`: `Spec => []LeftmostRuns`.
* `FailureIsTold`: `Spec => []StatusTellsWhy`.

The invariant says what the search knows at each system call. `SearchAt` is where it
is, `GivenUp` that each candidate to the left has given a reason, `Told` what the
calls so far have told of the candidate in hand: after `access(F_OK)` it was there
at that moment, after `access(X_OK)` it could be executed. Since a file may change
after the call, each is a fact about `seen` and not about `fs`, and `seen` only
grows during a search. The second half of the first property, that a program which was
there all the time is not failed, is `NoneOverlooked`: whenever the search gives up,
the error it gives up for has been seen.

`StatusTellsWhy` is about the directories that `PATH` names, and the search about the
pieces that `ft_split` makes of it. `SplitsAtColons` says that these are the same, for
every text: the pieces are what is between the colons, in order, the empty ones left
out. `Tells` then says that each candidate before the current one was missing, unless
`found_non_exec` tells of one that was not.

### Ctrl-C

For every set of lines, both kinds of `signal()` and any number of keys at any moment
(`Signals_proofs`):

* `SignalsTyped`: `Spec => []TypeOK`.
* `CancelledLineStops`: `Spec => []CancelledNotRun`.
* `CtrlCReported`: `Spec => InterruptReported`.
* `HeredocCutByItsOwn`: `Spec => CutByItsOwn`.
* `ShellOutlivesKeys`: `Spec => ShellSurvives`.
* `AllWaitedFor`: `Spec => WaitsForAll`.

`Strong` adds to `TypeOK` that Ctrl-\ has no handler in the shell, that the statuses
of children are among those `$?` may take, and that the shell waits for a child it
has. `Cut` is why a cancelled line stops: past its heredocs, a line that was
interrupted in them has a last input that is not one, so that it is the case
`CancelledNotRun` leaves out, or it has gone back to the prompt. `Told` is for the four
action properties: `g_sig` is what was pressed since it was last looked at; Ctrl-\ is
ignored from the first prompt on, and the handler of Ctrl-C is missing only where
`signal()` is that of System V and a Ctrl-C came since it was last set (`spent`); and
during the wait every child before the current one is done.

### Only model-checked

* Liveness, which needs `ENABLED`: that the prompt comes back, which `KeepsPromise` adds
  to what `StatusAsPromised` proves, and `CtrlCEndsLine`.
* `Parser` and `Words`: their operators are recursive, as is what they are compared
  with (`AcceptsLines`, `MeansAsWritten` and the others), over sequences.
* `ExitTakesItsArgument` and `Commands!TypeOK`: the text of a number and back, which is
  division and powers without end. `PwdFollows`: two folds over a path side by side.
* The properties of the executor on lines outside the classes above, as far as the
  runs have them.

## 6. Not modelled

What the code does that no module has, and why:

* `echo`, `env`, `pwd`: what they write. Straight-line output of their arguments or
  of the list.
* `libft`: a submodule that is not in the repository. Memory that runs out.
* Blank lines, input that is not a terminal, history.
* Heredoc bodies that do not fit a pipe: the shell would wait for itself, for ever.
  The size is the system's.
* The descriptors of heredocs already read when a later one is cancelled.
* `read` in `get_next_line` interrupted by a signal: the pipe is full and closed by
  then.
* `check_core_dump`: prints `Quit` and changes nothing.

And what the modules have as the code has it, where a reader may expect otherwise:
a value is not split into words, so `$X` is one word; a word with a quote in it is
never a pattern; `$1`, `$$` and `$*` are variables without a value; the names that match are in the reverse order of the directory, not
sorted; a pattern that ends in `/` matches directories only; the search along `PATH`
stops with 126 at a directory of that name, or where a path goes through a file or
may not be searched, although a program may follow further right; and the least
`long` is taken by `exit` only without zeros in front.

## 7. Plan

1. `StatusAsPromised` and `PipelineWired` for lines with heredocs, from `Delivers`.
2. Composition: `Executor` over the trees of `Parser`, `Parser` over the tokens of
   `Words`; the descriptors of a cancelled line.
