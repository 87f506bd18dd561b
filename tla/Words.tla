-------------------------------- MODULE Words --------------------------------
(* From the characters of a line to the words a command runs with: the lexer, *)
(* the split of a simple command into words and redirects, and the three      *)
(* passes of expand_handler over each of the two arrays.  A pass rewrites the *)
(* array in place, word by word, and the next pass reads what it left.        *)
EXTENDS Patterns

CONSTANTS
    Families,     \* a sequence of [lines, envs, listing, bodies]: lines, values of the
                  \* variables, the files of the directory, lines of a heredoc's body
    Builtins,     \* the names that lookup_builtin finds
    BUFFER_SIZE   \* of get_next_line

ASSUME BufferAssumption == BUFFER_SIZE \in Nat \ {0}

VARIABLES
    input,        \* [line, env, listing, body], of one of the families
    rest,         \* lexer: how much of the line is done
    tokens,       \* the token list, [word, kind]
    syntx_err,    \* "none", or why the lexer refuses the line
    words,        \* node->cmds and node->left->redirects
    list,         \* the array that is being expanded
    i,            \* the word of it
    here,         \* decided before the expansion: the command runs in the shell
    body,         \* the heredoc as the command reads it
    gnl,          \* get_next_line: [unread, buffer, current, tmp]
    pc

vars == <<input, rest, tokens, syntx_err, words, list, i, here, body, gnl, pc>>

List == {"cmds", "redirects"}
Ends == {"syntax error", "parser", "unexpected error", "not found", "ambiguous", "run"}
PC == Ends \cup {"lexer", "parse_cmd", "variable", "heredoc", "asterisk", "quotes",
                 "exec_cmd"}

Init ==
    /\ \E n \in DOMAIN Families :
         LET f == Families[n]
         IN  \E l \in f.lines, env \in f.envs, text \in f.bodies :
               input = [line |-> l, env |-> env, listing |-> f.listing, body |-> text]
    /\ rest = 0 /\ tokens = << >> /\ syntx_err = "none"
    /\ words = [l \in List |-> << >>] /\ list = "cmds" /\ i = 0
    /\ here = FALSE
    /\ body = input.body
    /\ gnl = [unread |-> body, buffer |-> << >>, current |-> 0, tmp |-> << >>]
    /\ pc = "lexer"

-----------------------------------------------------------------------------
(* The lexer: one token, or one run of blanks, a step.                       *)

line == input.line

is_metachar(c) == c \in {"&", "|", "(", ")", "<", ">", ";", " "}

\* In this order: the first that fits is taken.
ope_map == <<
    [op_str |-> <<"|", "|">>, kind |-> "ND_OR_OP"],
    [op_str |-> <<"&", "&">>, kind |-> "ND_AND_OP"],
    [op_str |-> <<"|">>,      kind |-> "ND_PIPE"],
    [op_str |-> <<"<", "<">>, kind |-> "ND_REDIRECTS"],
    [op_str |-> <<">", ">">>, kind |-> "ND_REDIRECTS"],
    [op_str |-> <<"<">>,      kind |-> "ND_REDIRECTS"],
    [op_str |-> <<">">>,      kind |-> "ND_REDIRECTS"],
    [op_str |-> <<"(">>,      kind |-> "ND_L_PARE"],
    [op_str |-> <<")">>,      kind |-> "ND_R_PARE"] >>

Operators(s) == {k \in DOMAIN ope_map : IsPrefix(ope_map[k].op_str, s)}

is_quote(c) == c \in {"'", "\""}

\* Mutant: of either kind.
NextOfAny(s, j) == FirstIn({k \in j + 1 .. Len(s) - 1 : is_quote(At(s, k))}, Len(s))

\* The next quote of the kind that is at j, or the end of the string.
NextQuote(s, j) ==
    FirstIn({k \in j + 1 .. Len(s) - 1 : At(s, k) = At(s, j)}, Len(s))

\* Where the word that begins at j ends.
RECURSIVE WordEnd(_, _)
WordEnd(s, j) ==
    CASE is_quote(At(s, j)) ->
           IF NextQuote(s, j) = Len(s) THEN Len(s) ELSE WordEnd(s, NextQuote(s, j) + 1)
      [] At(s, j) = NUL \/ is_metachar(At(s, j)) -> j
      [] OTHER -> WordEnd(s, j + 1)

\* move_to_next_quotation finds no end for a quote of the word.
RECURSIVE HasOpenQuote(_, _)
HasOpenQuote(s, j) ==
    CASE is_quote(At(s, j)) ->
           NextQuote(s, j) = Len(s) \/ HasOpenQuote(s, NextQuote(s, j) + 1)
      [] At(s, j) = NUL -> FALSE
      [] OTHER -> HasOpenQuote(s, j + 1)

skip_blank ==
    /\ pc = "lexer" /\ At(line, rest) = " "
    /\ rest' = FirstIn({k \in rest .. Len(line) - 1 : At(line, k) # " "}, Len(line))
    /\ UNCHANGED <<input, tokens, syntx_err, words, list, i, here, body, gnl, pc>>

fetch_fst_ope_token ==
    LET found == Operators(SubSeq(line, rest + 1, Len(line)))
        ope == ope_map[FirstIn(found, 0)]
    IN  /\ pc = "lexer" /\ rest < Len(line) /\ found # {}
        /\ tokens' = Append(tokens, [word |-> ope.op_str, kind |-> ope.kind])
        /\ rest' = rest + Len(ope.op_str)
        /\ UNCHANGED <<input, syntx_err, words, list, i, here, body, gnl, pc>>

fetch_fst_word_token ==
    /\ pc = "lexer" /\ rest < Len(line) /\ ~ is_metachar(At(line, rest))
    /\ LET end == WordEnd(line, rest)
           word == Sub(line, rest, end - rest)
       IN  /\ tokens' = Append(tokens, [word |-> word, kind |-> "ND_CMD"])
           /\ rest' = end
           /\ syntx_err' = IF HasOpenQuote(word, 0) THEN "quote" ELSE syntx_err
    /\ UNCHANGED <<input, words, list, i, here, body, gnl, pc>>

\* A single & or a ; that no operator of the map covers.
is_unsupported ==
    /\ pc = "lexer" /\ rest < Len(line) /\ syntx_err = "none"
    /\ At(line, rest) \in {"&", ";"}
    /\ Operators(SubSeq(line, rest + 1, Len(line))) = {}
    /\ syntx_err' = "unsupported"
    /\ UNCHANGED <<input, rest, tokens, words, list, i, here, body, gnl, pc>>

\* The end of the line, or of what is read of it.
lexer_handler ==
    /\ pc = "lexer" /\ (rest = Len(line) \/ syntx_err = "unsupported")
    /\ pc' = IF syntx_err = "none" THEN "parse_cmd" ELSE "syntax error"
    /\ UNCHANGED <<input, rest, tokens, syntx_err, words, list, i, here, body, gnl>>

-----------------------------------------------------------------------------
(* The line is one simple command: words and redirects in any order.  (Other *)
(* lines are left to the module Parser.)                                     *)

Kind(k) == IF k \in DOMAIN tokens THEN tokens[k].kind ELSE "ND_EOF"

IsSimple ==
    /\ tokens # << >>
    /\ \A k \in DOMAIN tokens :
         /\ Kind(k) \in {"ND_CMD", "ND_REDIRECTS"}
         /\ Kind(k) = "ND_REDIRECTS" => Kind(k + 1) = "ND_CMD"

\* A redirect operator takes the word after it along.
OfRedirects(k) ==
    \/ Kind(k) = "ND_REDIRECTS"
    \/ Kind(k) = "ND_CMD" /\ Kind(k - 1) = "ND_REDIRECTS"
WordsAt(S) == LET at == Ordered(S) IN [k \in DOMAIN at |-> tokens[at[k]].word]

is_builtin(cmd) == cmd \in Builtins

\* exec_cmd_handler asks is_builtin as soon as the line is parsed.
parse_cmd_rd_node ==
    /\ pc = "parse_cmd"
    /\ IF ~ IsSimple
       THEN pc' = "parser" /\ UNCHANGED <<words, list, here>>
       ELSE LET rd == {k \in DOMAIN tokens : OfRedirects(k)}
                cmds == WordsAt(DOMAIN tokens \ rd)
            IN  /\ words' = [cmds |-> cmds, redirects |-> WordsAt(rd)]
                /\ list' = IF cmds = << >> THEN "redirects" ELSE "cmds"
                /\ here' = (cmds # << >> /\ is_builtin(cmds[1]))
                /\ pc' = "variable"
    /\ UNCHANGED <<input, rest, tokens, syntx_err, i, body, gnl>>

-----------------------------------------------------------------------------
(* Variables.  Each retrieve_... takes what begins at j and returns its text *)
(* and the index of its last character.                                      *)

IsAlpha(c) == c \in {"a", "b", "e", "_"}
IsAlnum(c) == IsAlpha(c) \/ c = "1"

\* map_get, or x_itoa of the last status for $? .
Value(name) ==
    CASE name = <<"?">> -> <<"1">>
      [] name # <<"?">> /\ name \in DOMAIN input.env -> input.env[name]
      [] OTHER -> << >>

retrieve_var_name_len(s, j, is_heredoc) ==
    CASE ~ is_heredoc /\ is_quote(At(s, j)) -> 0
      [] ~ IsAlpha(At(s, j)) /\ (is_heredoc \/ ~ is_quote(At(s, j))) -> 1
      [] OTHER -> FirstIn({k \in j .. Len(s) - 1 : ~ IsAlnum(At(s, k))}, Len(s)) - j

retrieve_var(s, j, is_heredoc) ==
    LET len == retrieve_var_name_len(s, j + 1, is_heredoc)
    IN  IF At(s, j + 1) = NUL \/ len = 0
        THEN [text |-> <<"$">>, last |-> j]
        ELSE [text |-> Value(Sub(s, j + 1, len)), last |-> j + len]

retrieve_val_in_sq(s, j) ==
    [text |-> Sub(s, j, NextQuote(s, j) + 1 - j), last |-> NextQuote(s, j)]

\* The characters between $ and ", from j on.
RECURSIVE InDoubleQuotes(_, _)
InDoubleQuotes(s, j) ==
    CASE At(s, j) = "\"" -> [text |-> <<"\"">>, last |-> j]
      [] At(s, j) = "$" ->
           LET var == retrieve_var(s, j, FALSE)
               more == InDoubleQuotes(s, var.last + 1)
           IN  [more EXCEPT !.text = var.text \o @]
      [] OTHER -> LET more == InDoubleQuotes(s, j + 1)
                  IN  [more EXCEPT !.text = <<At(s, j)>> \o @]

\* Mutant: the length of what is left is one short.
DropsLast(s, j) ==
    LET inside == InDoubleQuotes(s, j + 1)
    IN  [inside EXCEPT !.text = Front(<<"\"">> \o @)]

retrieve_val_in_dq(s, j) ==
    LET inside == InDoubleQuotes(s, j + 1) IN [inside EXCEPT !.text = <<"\"">> \o @]

retrieve_normal_val(s, j, is_heredoc) ==
    LET stops == {"$"} \cup IF is_heredoc THEN {} ELSE {"'", "\""}
        end == FirstIn({k \in j .. Len(s) - 1 : At(s, k) \in stops}, Len(s))
    IN  [text |-> Sub(s, j, end - j), last |-> end - 1]

RECURSIVE ExpandFrom(_, _, _)
ExpandFrom(s, j, is_heredoc) ==
    LET part ==
            CASE At(s, j) = "$" -> retrieve_var(s, j, is_heredoc)
              [] At(s, j) = "'" /\ ~ is_heredoc -> retrieve_val_in_sq(s, j)
              [] At(s, j) = "\"" /\ ~ is_heredoc -> retrieve_val_in_dq(s, j)
              [] OTHER -> retrieve_normal_val(s, j, is_heredoc)
    IN  IF j >= Len(s) THEN << >>
        ELSE part.text \o ExpandFrom(s, part.last + 1, is_heredoc)

expand_variable(s) == ExpandFrom(s, 0, FALSE)
expand_var_in_heredoc(s) == ExpandFrom(s, 0, TRUE)

-----------------------------------------------------------------------------
(* The passes.                                                               *)

AtWord(pass) == pc = pass /\ i < Len(words[list])
Word == words[list][i + 1]
SetWord(w) == words' = [words EXCEPT ![list][i + 1] = w]

Unchanged == UNCHANGED <<input, rest, tokens, syntx_err, here>>

\* The last redirect of the input is a heredoc: fd_num is not -1.
ReadsHeredoc ==
    LET in == {k \in DOMAIN words.redirects :
                 k % 2 = 1 /\ words.redirects[k] \in {<<"<">>, <<"<", "<">>}}
    IN  in # {} /\ words.redirects[CHOOSE k \in in : \A l \in in : l <= k] = <<"<", "<">>

expand_variable_handler ==
    /\ AtWord("variable")
    /\ SetWord(IF Contains(Word, "$") THEN expand_variable(Word) ELSE Word)
    /\ i' = i + 1
    /\ Unchanged /\ UNCHANGED <<list, body, gnl, pc>>

expand_variable_end ==
    /\ pc = "variable" /\ i = Len(words[list])
    /\ i' = 0
    /\ IF list = "cmds" /\ ReadsHeredoc
       THEN pc' = "heredoc" /\ body' = << >>
       ELSE pc' = "asterisk" /\ body' = body
    /\ Unchanged /\ UNCHANGED <<words, list, gnl>>

\* A line, or its beginning, out of the buffer: a whole line is expanded and
\* written to the pipe that the command will read.
output_line ==
    /\ pc = "heredoc" /\ gnl.current < Len(gnl.buffer)
    /\ LET ends == {k \in gnl.current + 1 .. Len(gnl.buffer) : gnl.buffer[k] = "\n"}
           end == FirstIn(ends, Len(gnl.buffer))
           text == gnl.tmp \o SubSeq(gnl.buffer, gnl.current + 1, end)
       IN  /\ gnl' = [gnl EXCEPT !.current = end, !.tmp = IF ends = {} THEN text ELSE << >>]
           /\ body' = IF ends = {} THEN body ELSE body \o expand_var_in_heredoc(text)
    /\ Unchanged /\ UNCHANGED <<words, list, i, pc>>

read_file ==
    /\ pc = "heredoc" /\ gnl.current = Len(gnl.buffer)
    /\ LET read_ret == IF Len(gnl.unread) < BUFFER_SIZE THEN Len(gnl.unread) ELSE BUFFER_SIZE
       IN  /\ gnl' = [unread  |-> Sub(gnl.unread, read_ret, Len(gnl.unread) - read_ret),
                      buffer  |-> Sub(gnl.unread, 0, read_ret),
                      current |-> 0,
                      tmp     |-> IF read_ret = 0 THEN << >> ELSE gnl.tmp]
           /\ body' = IF read_ret = 0 THEN body \o expand_var_in_heredoc(gnl.tmp) ELSE body
           /\ pc' = IF read_ret = 0 THEN "asterisk" ELSE pc
    /\ Unchanged /\ UNCHANGED <<words, list, i>>

\* Mutant: the word in front of it goes too.
PacksOver(old, names, k) == SubSeq(old, 1, k - 1) \o names \o SubSeq(old, k + 2, Len(old))

\* The array with word k replaced by the names.
pack_new_cmds(old, names, k) ==
    SubSeq(old, 1, k) \o names \o SubSeq(old, k + 2, Len(old))

\* The delimiter of a heredoc is no pattern.
IsPattern ==
    /\ Contains(Word, "*")
    /\ list = "redirects" => i > 0 /\ words[list][i] # <<"<", "<">>

\* Mutant: one too many.
AdvancePast(names) == Len(names) + 1

\* The names are not looked at again.
Advance(names) == IF names = << >> THEN 1 ELSE Len(names)

expand_asterisk_handler ==
    /\ AtWord("asterisk")
    /\ LET names == IF IsPattern THEN expand_asterisk(Word, input.listing) ELSE << >>
       IN  /\ words' = IF names = << >> THEN words
                       ELSE [words EXCEPT ![list] = pack_new_cmds(@, names, i)]
           /\ i' = i + Advance(names)
    /\ Unchanged /\ UNCHANGED <<list, body, gnl, pc>>

expand_asterisk_end ==
    /\ pc = "asterisk" /\ i >= Len(words[list])
    /\ i' = 0 /\ pc' = "quotes"
    /\ Unchanged /\ UNCHANGED <<words, list, body, gnl>>

RECURSIVE Unquoted(_, _)
Unquoted(s, j) ==
    CASE At(s, j) = NUL -> << >>
      [] is_quote(At(s, j)) ->
           Sub(s, j + 1, NextQuote(s, j) - j - 1) \o Unquoted(s, NextQuote(s, j) + 1)
      [] OTHER -> <<At(s, j)>> \o Unquoted(s, j + 1)
remove_quotes(s) == Unquoted(s, 0)

\* A quote that is not closed is an error that the shell does not expect.
remove_quote_handler ==
    /\ AtWord("quotes")
    /\ IF HasOpenQuote(Word, 0)
       THEN pc' = "unexpected error" /\ UNCHANGED <<words, i>>
       ELSE SetWord(remove_quotes(Word)) /\ i' = i + 1 /\ UNCHANGED pc
    /\ Unchanged /\ UNCHANGED <<list, body, gnl>>

\* expand_handler goes on with the redirects when there are any.
expand_redirect_handler ==
    /\ pc = "quotes" /\ i = Len(words[list])
    /\ i' = 0
    /\ IF list = "cmds" /\ words.redirects # << >>
       THEN list' = "redirects" /\ pc' = "variable"
       ELSE list' = list /\ pc' = "exec_cmd"
    /\ Unchanged /\ UNCHANGED <<words, body, gnl>>

\* The word two places on is an operator again, or there is none.
is_multi_file(rds, k) ==
    k + 2 \in DOMAIN rds =>
        rds[k + 2] \in {<<">">>, <<">", ">">>, <<"<">>, <<"<", "<">>}

\* The loop over the redirects; that each of them opens is the executor's.
Ambiguous(rds) == \E k \in DOMAIN rds : k % 2 = 1 /\ ~ is_multi_file(rds, k)

exec_cmd ==
    /\ pc = "exec_cmd"
    /\ pc' = CASE words.cmds # << >> /\ words.cmds[1] = << >> -> "not found"
               [] (words.cmds = << >> \/ words.cmds[1] # << >>)
                  /\ Ambiguous(words.redirects) -> "ambiguous"
               [] OTHER -> "run"
    /\ Unchanged /\ UNCHANGED <<words, list, i, body, gnl>>

Next ==
    \/ skip_blank \/ fetch_fst_ope_token \/ fetch_fst_word_token \/ is_unsupported
    \/ lexer_handler \/ parse_cmd_rd_node
    \/ expand_variable_handler \/ expand_variable_end \/ output_line \/ read_file
    \/ expand_asterisk_handler \/ expand_asterisk_end
    \/ remove_quote_handler \/ expand_redirect_handler \/ exec_cmd

Spec == Init /\ [][Next]_vars

-----------------------------------------------------------------------------
(* What a line says, without the lexer's cursor and without passes.          *)

\* The quote that is open after k characters.
QuoteAfter(s) ==
    LET Q[k \in 0 .. Len(s)] ==
            CASE k = 0 -> "none"
              [] k > 0 /\ Q[k - 1] = "none" -> IF is_quote(s[k]) THEN s[k] ELSE "none"
              [] OTHER -> IF s[k] = Q[k - 1] THEN "none" ELSE Q[k - 1]
    IN  Q
Free(s, k) == QuoteAfter(s)[k - 1] = "none" /\ ~ is_quote(s[k])

IsOpe(s, k) == Free(s, k) /\ is_metachar(s[k]) /\ s[k] # " "
InWord(s, k) == ~ (Free(s, k) /\ is_metachar(s[k]))

\* Equal operator characters in a row go together two by two from the left.
SameBefore(s, k) ==
    Cardinality({j \in 1 .. k - 1 : \A l \in j .. k - 1 : IsOpe(s, l) /\ s[l] = s[k]})
Pairs(s, k) == IsOpe(s, k) /\ s[k] \in {"|", "&", "<", ">"}
BeginsOpe(s, k) == IsOpe(s, k) /\ (Pairs(s, k) => SameBefore(s, k) % 2 = 0)
IsDouble(s, k) ==
    Pairs(s, k) /\ k < Len(s) /\ IsOpe(s, k + 1) /\ s[k + 1] = s[k]
BeginsWord(s, k) == InWord(s, k) /\ (k = 1 \/ ~ InWord(s, k - 1))

EndOfToken(s, k) ==
    IF IsOpe(s, k) THEN IF IsDouble(s, k) THEN k + 1 ELSE k
    ELSE CHOOSE j \in k .. Len(s) :
           /\ \A l \in k .. j : InWord(s, l)
           /\ j < Len(s) => ~ InWord(s, j + 1)

TokensOf(s) ==
    LET begins == Ordered({k \in DOMAIN s : BeginsOpe(s, k) \/ BeginsWord(s, k)})
    IN  [n \in DOMAIN begins |->
            [word    |-> SubSeq(s, begins[n], EndOfToken(s, begins[n])),
             is_word |-> BeginsWord(s, begins[n])]]

IsRefused(s) ==
    \/ QuoteAfter(s)[Len(s)] # "none"
    \/ \E k \in DOMAIN s :
         BeginsOpe(s, k) /\ (s[k] = ";" \/ (s[k] = "&" /\ ~ IsDouble(s, k)))

\* After $: a name, or a parameter of one character.  Of these the shell has
\* $? and takes the others for variables without a value.
BeginsVariable(c) == IsAlpha(c) \/ c \in {"?", "1", "*", "$"}

\* The characters of a word, or of a line of a heredoc, after quotes and
\* variables have been seen to, each with whether it stands outside quotes.  A $
\* that begins no variable is a character like any other.
RECURSIVE CharactersFrom(_, _, _, _)
CharactersFrom(s, k, quote, is_heredoc) ==
    LET quotes == ~ is_heredoc
        name_end ==
            IF ~ IsAlpha(s[k + 1]) THEN k + 1
            ELSE CHOOSE j \in k + 1 .. Len(s) :
                   /\ \A l \in k + 1 .. j : IsAlnum(s[l])
                   /\ j < Len(s) => ~ IsAlnum(s[j + 1])
        value == Value(SubSeq(s, k + 1, name_end))
    IN  CASE k > Len(s) -> << >>
          [] k <= Len(s) /\ quotes /\ quote = "none" /\ is_quote(s[k]) ->
               CharactersFrom(s, k + 1, s[k], is_heredoc)
          [] k <= Len(s) /\ quotes /\ s[k] = quote ->
               CharactersFrom(s, k + 1, "none", is_heredoc)
          [] k < Len(s) /\ s[k] = "$" /\ quote # "'" /\ BeginsVariable(s[k + 1]) ->
               [n \in DOMAIN value |-> [c |-> value[n], free |-> quote = "none"]]
                 \o CharactersFrom(s, name_end + 1, quote, is_heredoc)
          [] OTHER -> << [c |-> s[k], free |-> quote = "none"] >>
                        \o CharactersFrom(s, k + 1, quote, is_heredoc)

TextOf(characters) == [n \in DOMAIN characters |-> characters[n].c]
BodyText(s) == TextOf(CharactersFrom(s, 1, "none", TRUE))

\* A $ of a heredoc with a character after it that begins no variable.
HasBareDollar(s) ==
    \E k \in 1 .. Len(s) - 1 : s[k] = "$" /\ ~ BeginsVariable(s[k + 1])

\* A word stands for itself, or for the files that it matches when it has a *
\* outside quotes and no quotes at all.  (A word with quotes is never a
\* pattern.)
MeaningOf(s, may_match) ==
    LET characters == CharactersFrom(s, 1, "none", FALSE)
        text == TextOf(characters)
        names == SelectSeq(Reverse(input.listing), LAMBDA f : IsMatch(text, f))
    IN  IF /\ may_match
           /\ \A k \in DOMAIN s : ~ is_quote(s[k])
           /\ \E n \in DOMAIN characters : characters[n] = [c |-> "*", free |-> TRUE]
           /\ names # << >>
        THEN [n \in DOMAIN names |-> names[n].name]
        ELSE << text >>

Meanings(k) ==
    CASE Kind(k) = "ND_REDIRECTS" -> << tokens[k].word >>
      [] OTHER -> MeaningOf(tokens[k].word,
                            k = 1 \/ tokens[k - 1].word # <<"<", "<">>)
MeaningsAt(S) ==
    LET at == Ordered(S) IN FlattenSeq([n \in DOMAIN at |-> Meanings(at[n])])

-----------------------------------------------------------------------------
(* Properties.                                                               *)

Char == {"a", "b", "c", "d", "e", "_", "1", "?", "'", "\"", "$", "*", "/", ".",
         "|", "&", "<", ">", "(", ")", ";", " ", "\n"}
String == Seq(Char)

\* The cursors stay inside the line and inside the array that is rewritten.
TypeOK ==
    /\ rest \in 0 .. Len(line)
    /\ \A k \in DOMAIN tokens : tokens[k].word \in String
    /\ syntx_err \in {"none", "quote", "unsupported"}
    /\ words \in [List -> Seq(String)] /\ list \in List
    /\ i \in 0 .. Len(words[list])
    /\ here \in BOOLEAN /\ body \in String /\ pc \in PC
    /\ Len(gnl.buffer) <= BUFFER_SIZE /\ gnl.current \in 0 .. Len(gnl.buffer)
    /\ gnl.tmp \in String /\ gnl.unread \in String

\* The lexer cuts a line where its blanks and operators outside quotes are,
\* losing nothing and taking the longest operator, and refuses it exactly when
\* a quote is open or an operator is one that the shell does not have.
LexedAsWritten ==
    /\ pc = "parse_cmd" =>
         /\ ~ IsRefused(line)
         /\ [n \in DOMAIN tokens |-> [word    |-> tokens[n].word,
                                      is_word |-> tokens[n].kind = "ND_CMD"]]
              = TokensOf(line)
    /\ pc = "syntax error" => IsRefused(line)

\* The command runs with the words that the line says, each expanded once:
\* what a variable or a directory puts into the array is neither expanded
\* again nor taken for quotes, every name is there once and in its place, and
\* a redirect is ambiguous exactly when its word matches several files.  (A $ that
\* begins no variable is excepted in heredocs: retrieve_var_name_len drops it and
\* the character after it, be that the end of the line.  heredoc_test.sh:64 has
\* the bodies $' and $+ among the cases that "are failed and need to be fixed".)
MeansAsWritten ==
    pc \in {"run", "ambiguous", "not found"} =>
        LET rd == {k \in DOMAIN tokens : OfRedirects(k)}
            cmds == MeaningsAt(DOMAIN tokens \ rd)
        IN  /\ words = [cmds |-> cmds, redirects |-> MeaningsAt(rd)]
            /\ pc # "not found" =>
                 (pc = "ambiguous" <=> \E k \in rd : Len(Meanings(k)) > 1)
            /\ cmds = << >> \/ ~ ReadsHeredoc => body = input.body
            /\ cmds # << >> /\ ReadsHeredoc /\ ~ HasBareDollar(input.body) =>
                 body = BodyText(input.body)

\* What runs in the shell itself is a builtin still after its words have been
\* expanded; a program there would replace the shell.
BuiltinHere == here /\ pc = "run" => is_builtin(words.cmds[1])

\* No line makes the shell stop at an error that it calls unexpected.
NoUnexpectedError == pc # "unexpected error"
=============================================================================
