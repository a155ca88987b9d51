---------------------------- MODULE BoundedFifo -----------------------------
(* What a pipe promises: bytes come out in the order they went in, each at most once, at *)
(* most Size of them are inside, and none goes in when the write end is closed.  A byte *)
(* that its reader has no room for is lost. *)
EXTENDS Naturals, Sequences

CONSTANTS Byte, Size

VARIABLES queue, out, ropen, wopen   \* out: the byte delivered last

vars == <<queue, out, ropen, wopen>>

Init == queue = <<>> /\ out \in Byte /\ ropen = TRUE /\ wopen = TRUE

Put(v) ==
  /\ wopen /\ Len(queue) < Size
  /\ queue' = Append(queue, v)
  /\ UNCHANGED <<out, ropen, wopen>>

Get ==
  /\ ropen /\ queue # <<>>
  /\ queue' = Tail(queue) /\ out' = Head(queue)
  /\ UNCHANGED <<ropen, wopen>>

Lose ==
  /\ ropen /\ queue # <<>>
  /\ queue' = Tail(queue)
  /\ UNCHANGED <<out, ropen, wopen>>

CloseRead == ropen /\ ropen' = FALSE /\ UNCHANGED <<queue, out, wopen>>

CloseWrite == wopen /\ wopen' = FALSE /\ UNCHANGED <<queue, out, ropen>>

Next == (\E v \in Byte : Put(v)) \/ Get \/ Lose \/ CloseRead \/ CloseWrite

Spec == Init /\ [][Next]_vars
=============================================================================
