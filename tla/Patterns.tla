------------------------------ MODULE Patterns ------------------------------
(* Pathname patterns (expand/expand_asterisk.c and the files around it): how  *)
(* a word with * is cut into pieces, and how a file name is matched with      *)
(* them, piece after piece from the left.                                      *)
EXTENDS CharSeqs

-----------------------------------------------------------------------------
(* The pieces between the asterisks of a line that has one.                  *)

is_aster_only(line) == \A k \in DOMAIN line : line[k] = "*"

find_next_aster(line, i) ==
    FirstIn({j \in i .. Len(line) - 1 : At(line, j) = "*"}, Len(line))

\* The characters with which a piece begins: they follow * or nothing.
PieceStarts(line) ==
    {k \in DOMAIN line : line[k] # "*" /\ (k = 1 \/ line[k - 1] = "*")}

Piece(line, k) ==
    LET end == find_next_aster(line, k)
    IN  [str  |-> SubSeq(line, k, end),
         type |-> CASE k = 1 -> "PREFIX"
                    [] k # 1 /\ end = Len(line) -> "SUFFIX"
                    [] OTHER -> "CONTAIN"]

create_cmp_str_arry(line) ==
    IF is_aster_only(line) THEN << [str |-> line, type |-> "ALL"] >>
    ELSE LET starts == Ordered(PieceStarts(line))
         IN  [k \in DOMAIN starts |-> Piece(line, starts[k])]

-----------------------------------------------------------------------------
(* A file is [name, value], value being "DIR" or "FILE".  Each match_...     *)
(* returns the index up to which the name is used up, or Failed.             *)

Failed == -1

Hidden(f) == f.name[1] = "."

match_prefix(f, prefix) ==
    IF IsPrefix(prefix, f.name) THEN Len(prefix) ELSE Failed

\* Mutant: from the beginning of the name.
Anywhere(f, i, contain) ==
    {j \in 0 .. Len(f.name) - Len(contain) : Sub(f.name, j, Len(contain)) = contain}

\* Where the piece is found after what is used up of the name; the first such
\* place is taken.
Places(f, i, contain) ==
    {j \in i .. Len(f.name) - Len(contain) : Sub(f.name, j, Len(contain)) = contain}

match_contain(f, i, contain, is_dot) ==
    IF Places(f, i, contain) = {} \/ (Hidden(f) /\ ~ is_dot) THEN Failed
    ELSE FirstIn(Places(f, i, contain), 0) + Len(contain)

\* A suffix that ends in / asks for a directory.  The length is compared with
\* the / counted.
match_suffix_directory(f, i, suffix) ==
    IF /\ f.value = "DIR"
       /\ \/ Len(suffix) = 1
          \/ /\ i < Len(f.name)
             /\ Len(f.name) >= Len(suffix) + i
             /\ IsSuffix(Front(suffix), f.name)
    THEN i ELSE Failed

match_suffix(f, i, suffix, is_dot) ==
    CASE Hidden(f) /\ ~ is_dot -> Failed
      [] (~ Hidden(f) \/ is_dot) /\ Last(suffix) = "/" ->
           match_suffix_directory(f, i, suffix)
      [] OTHER ->
           IF /\ i < Len(f.name)
              /\ Len(f.name) >= Len(suffix) + i
              /\ IsSuffix(suffix, f.name)
           THEN i ELSE Failed

\* What piece k of the array leaves of the name.
MatchPiece(f, piece, i, is_dot) ==
    CASE piece.type = "PREFIX"  -> match_prefix(f, piece.str)
      [] piece.type = "SUFFIX"  -> match_suffix(f, i, piece.str, is_dot)
      [] piece.type = "CONTAIN" -> match_contain(f, i, piece.str, is_dot)
      [] piece.type = "ALL"     -> IF Hidden(f) THEN Failed ELSE i

match_aster_regex(f, cmp_arry, is_dot) ==
    LET Used[k \in 0 .. Len(cmp_arry)] ==
            CASE k = 0 -> 0
              [] k > 0 /\ Used[k - 1] = Failed -> Failed
              [] OTHER -> MatchPiece(f, cmp_arry[k], Used[k - 1], is_dot)
    IN  Used[Len(cmp_arry)] # Failed

-----------------------------------------------------------------------------
(* The files of the directory, as readdir returns them; those that stat does *)
(* not find are left out, and each is put in front of those before.          *)
get_all_files_in_dir(listing) ==
    Reverse(SelectSeq(listing, LAMBDA f : f.value # "dangling"))

filter_map(file_map, cmp_arry, is_dot) ==
    SelectSeq(file_map, LAMBDA f : match_aster_regex(f, cmp_arry, is_dot))

\* The names that match, or none (NULL).
expand_asterisk(line, listing) ==
    LET files == filter_map(get_all_files_in_dir(listing),
                            create_cmp_str_arry(line), At(line, 0) = ".")
    IN  [k \in DOMAIN files |-> files[k].name]

-----------------------------------------------------------------------------
(* What a pattern means, without pieces: each * stands for any characters   *)
(* (and ANY for one).  A hidden file has to be asked for, and / at the end    *)
(* asks for a directory.  In that case the last * stands for one character at *)
(* least, unless the / follows it: match_suffix_directory compares the length *)
(* as if the name had the / too, and so d is not among the names of *d/ .     *)
RECURSIVE Glob(_, _)
Glob(p, s) ==
    CASE p = << >> -> s = << >>
      [] p # << >> /\ p[1] = "*" ->
           Glob(Tail(p), s) \/ (s # << >> /\ Glob(p, Tail(s)))
      [] OTHER -> s # << >> /\ p[1] \in {s[1], "ANY"} /\ Glob(Tail(p), Tail(s))

OfDirectory(p) ==
    IF Last(p) = "*" THEN p
    ELSE InsertAt(p, SelectLastInSeq(p, LAMBDA c : c = "*") + 1, "ANY")

IsMatch(p, f) ==
    /\ f.value # "dangling"
    /\ Hidden(f) => p[1] = "."
    /\ IF Last(p) = "/" THEN f.value = "DIR" /\ Glob(OfDirectory(Front(p)), f.name)
       ELSE Glob(p, f.name)
=============================================================================
