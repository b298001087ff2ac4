---------------------------- MODULE MemQueueInv ----------------------------
(***************************************************************************)
(* The properties of the shared-memory queue, the inductive invariant they *)
(* follow from, and the mapping to BlockChannel.                           *)
(***************************************************************************)
EXTENDS MemQueue

\* Every variable has its type; the indices stay inside the mapping, so no
\* block header is ever looked up past q->len (mem_queue.c:153, 158).
TypeOK ==
  /\ head \in Offsets /\ tail \in Offsets
  /\ mem \in [Offsets -> [id : 0..MaxPush, type : {"BLK_DATA", "BLK_ALIGN"}, len : Nat]]
  /\ ppc \in {"idle", "ahead", "align", "front", "wrap", "behind", "room",
              "header", "data", "publish"}
  /\ blk \in [id : 0..MaxPush, type : {"BLK_DATA"}, len : {0} \cup Lens]
  /\ cpc \in {"get", "fits", "behind", "rewind", "kind", "use"}
  /\ calls \in 0..MaxPush
  /\ chan \in Seq([id : Ids, len : Lens, off : Offsets])
  /\ wrapAt \in Offsets
  /\ accepted \subseteq Ids
  /\ delivered \in Seq(Ids)

-----------------------------------------------------------------------------
\* Where the unread blocks lie.  Wrapped: the writer has gone back to the
\* front and the reader has not followed yet.

Wrapped == head < tail

\* [tail, head), or [tail, wrapAt) and [MHead, head) when wrapped.
InHigh(b) == Wrapped /\ tail <= b.off /\ End(b) <= wrapAt
InLow(b) == (Wrapped => MHead <= b.off) /\ (~Wrapped => tail <= b.off) /\ End(b) <= head

Placed == \A i \in 1..Len(chan) : InHigh(chan[i]) \/ InLow(chan[i])

\* b ends where c starts, directly or across the end of the mapping.
Follows(b, c) == c = b \/ (Wrapped /\ b = wrapAt /\ c = MHead)

Linked ==
  /\ chan = <<>> => Follows(tail, head)
  /\ chan # <<>> => /\ Follows(tail, chan[1].off)
                    /\ Follows(End(chan[Len(chan)]), head)
  /\ \A i \in 1..(Len(chan) - 1) : Follows(End(chan[i]), chan[i + 1].off)

Ordered ==
  \A i, j \in 1..Len(chan) :
    i < j => End(chan[i]) <= chan[j].off \/ (InHigh(chan[i]) /\ InLow(chan[j]))

\* The filler block that sends the reader back to the front is in place.
Marked ==
  Wrapped => /\ tail <= wrapAt
             /\ wrapAt + BHead <= QLen => mem[wrapAt].type = "BLK_ALIGN"

\* No byte of an unread block is written between mq_push's return and
\* mq_pop, whatever the other process does meanwhile (mq_push, mq_get).
UnreadIntact ==
  \A i \in 1..Len(chan) :
    \A o \in Bytes(chan[i].off, chan[i].len) : mem[o] = Hdr(chan[i])

\* The layout of the ring, whatever the two processes are at.
Ring == Placed /\ Linked /\ Ordered /\ Marked /\ UnreadIntact

\* What mq_push has established at each of its steps.
WriterInv ==
  /\ ppc # "idle" => blk.len \in Lens /\ blk.id = calls /\ calls > 0
  /\ ppc \in {"align", "front", "wrap"} => ~Wrapped /\ head + blk.len >= QLen
  /\ ppc \in {"front", "wrap"} =>
       (head + BHead <= QLen => mem[head].type = "BLK_ALIGN")
  /\ ppc = "wrap" => tail # MHead
  /\ ppc \in {"header", "data", "publish"} =>
       head + blk.len < QLen /\ (Wrapped => head + blk.len < tail)
  /\ ppc \in {"data", "publish"} =>
       \A o \in Bytes(head, BHead) : mem[o] = blk
  /\ ppc = "publish" => \A o \in Bytes(head, blk.len) : mem[o] = blk

\* What mq_get has established at each of its steps.
ReaderInv ==
  /\ cpc = "rewind" => Wrapped /\ tail = wrapAt
  /\ cpc = "kind" => Wrapped /\ tail + BHead <= QLen
  /\ cpc = "use" => chan # <<>> /\ chan[1].off = tail

\* Blocks are numbered by their calls; the one being pushed is the youngest.
Newer(id) == IF ppc = "idle" THEN id <= calls ELSE id < calls

Numbered ==
  /\ \A i \in 1..Len(chan) : Newer(chan[i].id)
  /\ \A i \in 1..Len(delivered) : Newer(delivered[i])

\* The conjunction that every step of the two processes preserves.
IInv ==
  /\ TypeOK
  /\ Ring
  /\ WriterInv /\ ReaderInv /\ Numbered

-----------------------------------------------------------------------------
\* While mq_push writes a block, none of the bytes it will cover belongs to
\* a block the reader has yet to pop, and all lie inside the mapping, though
\* the test that found the room read tail many steps ago.
WritesFreeBytes ==
  ppc \in {"header", "data", "publish"} =>
    /\ Bytes(head, blk.len) \subseteq Offsets
    /\ \A i \in 1..Len(chan) :
         Bytes(head, blk.len) \cap Bytes(chan[i].off, chan[i].len) = {}

\* The channel the two processes see: a block counts as queued from the
\* store to head until mq_pop.
Channel == INSTANCE BlockChannel
             WITH queued <- [i \in 1..Len(chan) |-> chan[i].id]

\* The ring implements the channel: blocks are handed to the handler whole,
\* in the order of their pushes, each once; and a push that returns -1 leaves
\* no trace (mem_queue.c).
ImplementsChannel == Channel!Spec

\* Every published block reaches the handler: no run of fillers, wraps and
\* refused pushes keeps the polling reader from it (mq_get).
QueueIsRead == Channel!Fair

\* mq_push returns: `goto push_again` cannot go round for ever against a
\* reader that keeps moving (mem_queue.c:113).
PushReturns == (ppc # "idle") ~> (ppc = "idle")

\* mem_queue.h:53 says mq_push puts b at the tail of q, and its callers take
\* 0 for done: a block whose push returned 0 is queued or was delivered.
AcceptedIsQueued ==
  \A id \in accepted :
    \/ \E i \in 1..Len(chan) : chan[i].id = id
    \/ \E i \in 1..Len(delivered) : delivered[i] = id
=============================================================================
