---------------------------- MODULE BlockChannel ----------------------------
(***************************************************************************)
(* What a shared-memory queue of sserver promises its two ends: a channel  *)
(* with one writer (mq_push) and one reader (mq_get, the handler, mq_pop). *)
(* Blocks are numbered in the order their pushes were called.  A push      *)
(* either puts its block at the end of the channel or leaves no trace; the *)
(* reader takes blocks from the front, each one exactly once.              *)
(*                                                                         *)
(* This is what the callers of mq_push, mq_get and mq_pop rely on.         *)
(* MemQueue implements it.                                                 *)
(***************************************************************************)
EXTENDS Integers, Sequences

CONSTANT Ids        \* the numbers of the pushes

VARIABLES queued,    \* ids of the blocks in the channel, oldest first
          delivered  \* ids of the blocks the reader has taken, in order

chvars == <<queued, delivered>>

TypeOK ==
  /\ queued \in Seq(Ids)
  /\ delivered \in Seq(Ids)

Init ==
  /\ queued = <<>>
  /\ delivered = <<>>

\* No block of the channel, past or present, is as young as m.
Newest(m) ==
  /\ \A i \in 1..Len(queued) : queued[i] < m
  /\ \A i \in 1..Len(delivered) : delivered[i] < m

Put(m) ==
  /\ Newest(m)
  /\ queued' = Append(queued, m)
  /\ UNCHANGED delivered

Take ==
  /\ queued # <<>>
  /\ delivered' = Append(delivered, Head(queued))
  /\ queued' = Tail(queued)

Next == Take \/ \E m \in Ids : Put(m)

Spec == Init /\ [][Next]_chvars

\* The reader keeps polling, so a channel that holds a block is read.
Fair == WF_chvars(Take)

-----------------------------------------------------------------------------
Increasing(s) == \A i, j \in 1..Len(s) : i < j => s[i] < s[j]

\* Blocks come out in the order they went in, none twice, and everything
\* still in the channel is younger than everything already delivered.
InOrder ==
  /\ Increasing(queued)
  /\ Increasing(delivered)
  /\ \A i \in 1..Len(delivered), j \in 1..Len(queued) : delivered[i] < queued[j]
=============================================================================
