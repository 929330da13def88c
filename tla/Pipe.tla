-------------------------------- MODULE Pipe --------------------------------
(* A pipe opened with O_NONBLOCK, as a sequence of units.  A write of no     *)
(* more than PIPE_BUF bytes is taken whole or, without room, fails and       *)
(* leaves the pipe as it is; a read takes what there is, up to what was      *)
(* asked for.  Every write of the program is that short and none looks at    *)
(* the result.                                                               *)
EXTENDS Naturals, Sequences

Fits(pipe, msg, cap) == Len(pipe) + Len(msg) <= cap

Written(pipe, msg, cap) == IF Fits(pipe, msg, cap) THEN pipe \o msg ELSE pipe

ReadOf(pipe, n) == SubSeq(pipe, 1, IF n <= Len(pipe) THEN n ELSE Len(pipe))

RestOf(pipe, n) == SubSeq(pipe, Len(ReadOf(pipe, n)) + 1, Len(pipe))
=============================================================================
