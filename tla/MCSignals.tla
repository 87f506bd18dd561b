------------------------------ MODULE MCSignals ------------------------------
(* Instance of Signals for TLC.                                               *)
EXTENDS Signals

Plain(kids) == [heredocs |-> << >>, children |-> kids, status |-> 1]
Here(n, last) == [bodies |-> n, is_heredoc_end |-> last]

TypedLines == {
  Plain(<< >>),                                           \* cd nodir
  Plain(<<"stays", "ends">>),                             \* yes | true
  Plain(<<"catches">>),
  Plain(<<"fails", "stays", "stays">>),
  [Plain(<< >>) EXCEPT !.heredocs = <<Here(2, TRUE)>>],   \* cd nodir << a << b
  \* cat << a < f | cat << b
  [Plain(<<"ends", "ends">>) EXCEPT !.heredocs = <<Here(1, FALSE), Here(1, TRUE)>>],
  \* cat << a | cat << b < f
  [Plain(<<"ends", "ends">>) EXCEPT !.heredocs = <<Here(1, TRUE), Here(1, FALSE)>>]
}
=============================================================================
