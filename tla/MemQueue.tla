------------------------------ MODULE MemQueue ------------------------------
(***************************************************************************)
(* mem_queue.c: the lock-free ring in shared memory between the master and *)
(* one work process.  One process only pushes and one only gets and pops   *)
(* (rq: master to work, sq: work to master), with no lock: the two indices *)
(* head and tail are volatile ints, and every read of the other process's  *)
(* index is a step of its own here, because the other process may move it  *)
(* between two reads of one function.                                      *)
(*                                                                         *)
(* Offsets are bytes from the start of the mapping, which begins with the  *)
(* mem_head_t.  A byte of memory holds the block header it was last        *)
(* written under, so overlapping writes and torn reads show up.            *)
(* blk_cnt, an estimate by its own comment that only the trace prints, and *)
(* the notification pipe, which only shortens the poll, are left out.      *)
(***************************************************************************)
EXTENDS Integers, Sequences

CONSTANTS
  QLen,     \* q->len, the size of the mapping
  MHead,    \* mem_head_len
  BHead,    \* blk_head_len
  Lens,     \* the values of b->len that are pushed, header included
  MaxPush   \* bound: calls of mq_push in a behaviour

ASSUME QueueAssumption ==
  /\ MHead \in Nat
  /\ BHead \in Nat \ {0}
  /\ QLen \in Nat /\ MHead < QLen
  /\ Lens \subseteq {n \in Nat : n >= BHead}
  /\ MaxPush \in Nat

VARIABLES
  head, tail,  \* mem_head_t: the writer's index and the reader's
  mem,         \* what each byte after the mem_head_t was last written under
  ppc, blk,    \* the writer: where it is in mq_push, and its argument b
  cpc,         \* the reader: where it is in mq_get, its handler and mq_pop
  calls,       \* mq_push calls so far; numbers the blocks
  \* history, read by no action:
  chan,        \* the published blocks not yet popped, oldest first
  wrapAt,      \* where head stood when the writer last moved it to the front
  accepted,    \* the blocks whose push returned 0
  delivered    \* the blocks the reader's handler was given, in order

shared == <<head, tail, mem>>
history == <<chan, wrapAt, accepted, delivered>>
vars == <<shared, ppc, blk, cpc, calls, history>>

Offsets == MHead..(QLen - 1)
Ids == 1..MaxPush

\* A block header.  The fd and work index it carries play no part here.
Data(id, len) == [id |-> id, type |-> "BLK_DATA", len |-> len]
Align(len) == [id |-> 0, type |-> "BLK_ALIGN", len |-> len]

Bytes(from, len) == from..(from + len - 1)
Fill(bytes, hdr) == [o \in Offsets |-> IF o \in bytes THEN hdr ELSE mem[o]]

\* A block of chan: its header and where it lies.
Hdr(b) == Data(b.id, b.len)
End(b) == b.off + b.len

\* An anonymous mapping starts zeroed, and type 0 is BLK_DATA (mq_init).
Init ==
  /\ head = MHead /\ tail = MHead
  /\ mem = [o \in Offsets |-> Data(0, 0)]
  /\ ppc = "idle" /\ blk = Data(0, 0)
  /\ cpc = "get"
  /\ calls = 0
  /\ chan = <<>> /\ wrapAt = MHead
  /\ accepted = {} /\ delivered = <<>>

-----------------------------------------------------------------------------
\* The writer: mq_push.

ReturnFull == ppc' = "idle" /\ UNCHANGED accepted
ReturnOk == ppc' = "idle" /\ accepted' = accepted \cup {blk.id}

PushCall(n) ==
  /\ ppc = "idle" /\ calls < MaxPush
  /\ calls' = calls + 1
  /\ blk' = Data(calls + 1, n)
  /\ ppc' = "ahead"
  /\ UNCHANGED <<shared, cpc, history>>

\* Mutation: > for >=, a block may end where the mapping ends.
Bug_AheadOffByOne ==
  /\ ppc = "ahead"
  /\ \/ head >= tail /\ head + blk.len > QLen /\ ppc' = "align"
     \/ head >= tail /\ head + blk.len <= QLen /\ ppc' = "header"
     \/ head < tail /\ ppc' = "behind"
  /\ UNCHANGED <<shared, blk, cpc, calls, history>>

\* if (head >= tail), and whether the block fits before the end.
PushAhead ==
  /\ ppc = "ahead"
  /\ \/ head >= tail /\ head + blk.len >= QLen /\ ppc' = "align"
     \/ head >= tail /\ head + blk.len < QLen /\ ppc' = "header"
     \/ head < tail /\ ppc' = "behind"
  /\ UNCHANGED <<shared, blk, cpc, calls, history>>

\* Mutation: the filler is written only when more than its header fits.
Bug_AlignStrict ==
  /\ ppc = "align"
  /\ mem' = IF head + BHead < QLen
              THEN Fill(Bytes(head, BHead), Align(QLen - head)) ELSE mem
  /\ ppc' = "front"
  /\ UNCHANGED <<head, tail, blk, cpc, calls, history>>

\* Mark the rest of the mapping as filler if a block header fits there.
PushAlign ==
  /\ ppc = "align"
  /\ mem' = IF head + BHead <= QLen
              THEN Fill(Bytes(head, BHead), Align(QLen - head)) ELSE mem
  /\ ppc' = "front"
  /\ UNCHANGED <<head, tail, blk, cpc, calls, history>>

\* Mutation: wrap without asking whether the front has been popped.
Bug_FrontUnread ==
  /\ ppc = "front"
  /\ ppc' = "wrap"
  /\ UNCHANGED <<shared, blk, cpc, calls, history>>

\* if (mem_head_len == tail): the front is still unread, the queue is full.
PushFront ==
  /\ ppc = "front"
  /\ \/ tail = MHead /\ ReturnFull
     \/ tail # MHead /\ ppc' = "wrap" /\ UNCHANGED accepted
  /\ UNCHANGED <<shared, blk, cpc, calls, chan, wrapAt, delivered>>

\* Mutation: goto push_again without moving head.
Bug_WrapStays ==
  /\ ppc = "wrap"
  /\ ppc' = "ahead"
  /\ UNCHANGED <<shared, blk, cpc, calls, history>>

PushWrap ==
  /\ ppc = "wrap"
  /\ head' = MHead /\ wrapAt' = head
  /\ ppc' = "ahead"
  /\ UNCHANGED <<tail, mem, blk, cpc, calls, chan, accepted, delivered>>

\* else if (head < tail): tail is read again.  If the reader has returned to
\* the front since, neither branch is taken and the function returns 0.
PushBehind ==
  /\ ppc = "behind"
  /\ \/ head < tail /\ ppc' = "room" /\ UNCHANGED accepted
     \/ head >= tail /\ ReturnOk
  /\ UNCHANGED <<shared, blk, cpc, calls, chan, wrapAt, delivered>>

PushRoom ==
  /\ ppc = "room"
  /\ \/ head + blk.len >= tail /\ ReturnFull
     \/ head + blk.len < tail /\ ppc' = "header" /\ UNCHANGED accepted
  /\ UNCHANGED <<shared, blk, cpc, calls, chan, wrapAt, delivered>>

PushHeader ==
  /\ ppc = "header"
  /\ mem' = Fill(Bytes(head, BHead), blk)
  /\ ppc' = "data"
  /\ UNCHANGED <<head, tail, blk, cpc, calls, history>>

PushData ==
  /\ ppc = "data"
  /\ mem' = Fill(Bytes(head + BHead, blk.len - BHead), blk)
  /\ ppc' = "publish"
  /\ UNCHANGED <<head, tail, blk, cpc, calls, history>>

PushPublish ==
  /\ ppc = "publish"
  /\ head' = head + blk.len
  /\ chan' = Append(chan, [id |-> blk.id, len |-> blk.len, off |-> head])
  /\ ReturnOk
  /\ UNCHANGED <<tail, mem, blk, cpc, calls, wrapAt, delivered>>

PushStep ==
  \/ PushAhead \/ PushAlign \/ PushFront \/ PushWrap \/ PushBehind \/ PushRoom
  \/ PushHeader \/ PushData \/ PushPublish

-----------------------------------------------------------------------------
\* The reader: while ((blk = mq_get(q)) != NULL) { handle(blk); mq_pop(q); },
\* called again and again; returning NULL leads to the next call.

Reader(label) == cpc' = label

\* if (head > tail)
GetAhead ==
  /\ cpc = "get"
  /\ \/ head > tail /\ Reader("fits")
     \/ head <= tail /\ Reader("behind")
  /\ UNCHANGED <<shared, ppc, blk, calls, history>>

\* head is read again; the else branch is the one marked "will not occur".
GetFits ==
  /\ cpc = "fits"
  /\ \/ head >= tail + BHead /\ Reader("use")
     \/ head < tail + BHead /\ Reader("get")
  /\ UNCHANGED <<shared, ppc, blk, calls, history>>

\* Mutation: no room for a header at tail is taken for an empty queue.
Bug_NoRoomIsEmpty ==
  /\ cpc = "behind"
  /\ \/ head < tail /\ QLen >= tail + BHead /\ Reader("kind")
     \/ (head >= tail \/ QLen < tail + BHead) /\ Reader("get")
  /\ UNCHANGED <<shared, ppc, blk, calls, history>>

\* else if (head < tail), and whether a block header fits at tail.
GetBehind ==
  /\ cpc = "behind"
  /\ \/ head < tail /\ QLen < tail + BHead /\ Reader("rewind")
     \/ head < tail /\ QLen >= tail + BHead /\ Reader("kind")
     \/ head >= tail /\ Reader("get")
  /\ UNCHANGED <<shared, ppc, blk, calls, history>>

\* Mutation: a filler block is handed out like any other.
Bug_FillerServed ==
  /\ cpc = "kind"
  /\ Reader("use")
  /\ UNCHANGED <<shared, ppc, blk, calls, history>>

GetKind ==
  /\ cpc = "kind"
  /\ \/ mem[tail].type = "BLK_ALIGN" /\ Reader("rewind")
     \/ mem[tail].type # "BLK_ALIGN" /\ Reader("use")
  /\ UNCHANGED <<shared, ppc, blk, calls, history>>

GetRewind ==
  /\ cpc = "rewind"
  /\ tail' = MHead
  /\ Reader("get")
  /\ UNCHANGED <<head, mem, ppc, blk, calls, history>>

\* The handler reads the block in place until mq_pop frees it.
Pop ==
  /\ cpc = "use"
  /\ delivered' = Append(delivered, mem[tail].id)
  /\ tail' = tail + mem[tail].len
  /\ chan' = IF chan = <<>> THEN chan ELSE Tail(chan)
  /\ Reader("get")
  /\ UNCHANGED <<head, mem, ppc, blk, calls, wrapAt, accepted>>

ReadStep == GetAhead \/ GetFits \/ GetBehind \/ GetKind \/ GetRewind \/ Pop

Next ==
  \/ \E n \in Lens : PushCall(n)
  \/ PushStep
  \/ ReadStep

Spec == Init /\ [][Next]_vars

\* A started push runs to its return, and the reader polls for ever: both
\* loops call handle_mq_recv or handle_mq_send after an epoll_wait of 50 ms.
Fairness == WF_vars(PushStep) /\ WF_vars(ReadStep)
FairSpec == Spec /\ Fairness
=============================================================================
