------------------------------ MODULE BytePipe ------------------------------
(***************************************************************************)
(* What a session promises for one direction: the bytes a writer put in    *)
(* come out unchanged, in order and once, and the end of the stream is     *)
(* passed on after the last byte of a closed stream.  Only a pipe that was *)
(* cut (a reset, a stop) may end early.                                    *)
(***************************************************************************)
EXTENDS Integers, Sequences

VARIABLES written,   \* bytes 1..written have been put in
          closed,    \* the writer has closed the stream
          delivered, \* the bytes handed to the reader, in order
          ended,     \* the reader has been told that the stream is over
          cut        \* the promise of completeness is off

pipe == <<written, closed, delivered, ended, cut>>

PipeInit == /\ written = 0 /\ closed = FALSE
            /\ delivered = <<>> /\ ended = FALSE /\ cut = FALSE

Write == /\ ~closed
         /\ written' = written + 1
         /\ UNCHANGED <<closed, delivered, ended, cut>>

Close == /\ ~closed /\ closed' = TRUE
         /\ UNCHANGED <<written, delivered, ended, cut>>

Deliver ==
  /\ ~ended
  /\ \E n \in 1..(written - Len(delivered)) :
       delivered' = delivered \o [i \in 1..n |-> Len(delivered) + i]
  /\ UNCHANGED <<written, closed, ended, cut>>

End == /\ ~ended /\ ended' = TRUE
       /\ cut \/ (closed /\ Len(delivered) = written)
       /\ UNCHANGED <<written, closed, delivered, cut>>

Cut == /\ cut' = TRUE
       /\ UNCHANGED <<written, closed, delivered, ended>>

PipeNext == Write \/ Close \/ Deliver \/ End \/ Cut

PipeSpec == PipeInit /\ [][PipeNext]_pipe
=============================================================================
