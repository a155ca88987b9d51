--------------------------- MODULE MCBufferedLog ---------------------------
(* Small instances of BufferedLog for model checking. *)
EXTENDS BufferedLog

CONSTANTS b1, b2, b3, l1, l2, h

MCLogBlock == <<l1, l2>>
MCCleanLog == <<>>
MCDirtyLog == <<b1>>
\* Blocks are interchangeable only when the boot log names none of them.
Symmetry == Permutations(Proc) \cup Permutations(Val) \cup Permutations(FsBlock)

\* States are told apart by what can still be read: not by the data of an invalid buffer,
\* which bread() overwrites, and not by that of a log block that is no part of a commit,
\* which write_log() overwrites.
View ==
  LET live == FsBlock \cup (IF committing THEN {LogBlock[i] : i \in DOMAIN lh} ELSE {})
      Shown(i) == IF buf[i].valid /\ buf[i].blockno \in live THEN <<buf[i].data>> ELSE <<>>
      Rest(i) == <<buf[i].blockno, buf[i].valid, buf[i].refcnt, buf[i].lock>>
  IN  <<[b \in live |-> disk[b]], [i \in Bufs |-> <<Rest(i), Shown(i)>>], lru, todo, held,
        logVars, truth>>
=============================================================================
