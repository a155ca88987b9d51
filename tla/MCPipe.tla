------------------------------- MODULE MCPipe -------------------------------
(* Small instances of Pipe for model checking. *)
EXTENDS Pipe, TLC

Symmetry == Permutations(Proc) \cup Permutations(Byte)

\* States are told apart by the bytes in the pipe, not by those left in the other slots or
\* by the byte delivered last, which no step reads.
View ==
  <<[k \in 1..Count |-> data[(nread + k - 1) % PIPESIZE]], nread, nwrite, readopen, writeopen,
    lock, fd, killed, pc, todo, left>>
=============================================================================
