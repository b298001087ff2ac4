--------------------------- MODULE MemQueueProofs ---------------------------
(***************************************************************************)
(* Proofs about the shared-memory queue, for every size of the mapping,    *)
(* every header length, every set of block lengths and every number of     *)
(* pushes.                                                                 *)
(***************************************************************************)
EXTENDS MemQueueInv, SequenceTheorems, TLAPS

\* The two indices and wrapAt are offsets of the mapping.
LEMMA IndexFacts ==
  ASSUME TypeOK
  PROVE  /\ head \in Nat /\ MHead <= head /\ head < QLen
         /\ tail \in Nat /\ MHead <= tail /\ tail < QLen
         /\ wrapAt \in Nat /\ MHead <= wrapAt /\ wrapAt < QLen
         /\ MHead \in Nat /\ QLen \in Nat /\ BHead \in Nat /\ BHead > 0
  BY QueueAssumption DEF TypeOK, Offsets

\* A block of the channel lies in the mapping and is not empty.
LEMMA BlockFacts ==
  ASSUME TypeOK
  PROVE  /\ Len(chan) \in Nat
         /\ \A i \in 1..Len(chan) :
              /\ chan[i] \in [id : Ids, len : Lens, off : Offsets]
              /\ chan[i].id \in Nat /\ chan[i].len \in Nat /\ chan[i].off \in Nat
              /\ chan[i].len >= BHead /\ chan[i].off >= MHead
              /\ End(chan[i]) = chan[i].off + chan[i].len
              /\ End(chan[i]) \in Nat /\ End(chan[i]) >= chan[i].off + BHead
  <1>1. chan \in Seq([id : Ids, len : Lens, off : Offsets])
    BY DEF TypeOK
  <1>2. Len(chan) \in Nat
    BY <1>1, LenProperties
  <1>3. ASSUME NEW i \in 1..Len(chan)
        PROVE  /\ chan[i] \in [id : Ids, len : Lens, off : Offsets]
               /\ chan[i].id \in Nat /\ chan[i].len \in Nat /\ chan[i].off \in Nat
               /\ chan[i].len >= BHead /\ chan[i].off >= MHead
               /\ End(chan[i]) = chan[i].off + chan[i].len
               /\ End(chan[i]) \in Nat /\ End(chan[i]) >= chan[i].off + BHead
    <2>1. chan[i] \in [id : Ids, len : Lens, off : Offsets]
      BY <1>1, ElementOfSeq
    <2>2. chan[i].id \in Ids /\ chan[i].len \in Lens /\ chan[i].off \in Offsets
      BY <2>1
    <2>3. chan[i].id \in Nat
      BY <2>2 DEF Ids
    <2>4. chan[i].off \in Nat /\ chan[i].off >= MHead
      BY <2>2, QueueAssumption DEF Offsets
    <2>5. chan[i].len \in Nat /\ chan[i].len >= BHead /\ BHead \in Nat
      BY <2>2, QueueAssumption
    <2> QED BY <2>1, <2>3, <2>4, <2>5 DEF End
  <1> QED BY <1>2, <1>3

LEMMA NumberFacts ==
  ASSUME TypeOK
  PROVE  /\ calls \in Nat
         /\ \A i \in 1..Len(chan) : chan[i].id \in Nat
         /\ \A i \in 1..Len(delivered) : delivered[i] \in Ids /\ delivered[i] \in Nat
  <1>1. calls \in Nat
    BY QueueAssumption DEF TypeOK
  <1>2. \A i \in 1..Len(delivered) : delivered[i] \in Ids
    BY ElementOfSeq DEF TypeOK
  <1> QED BY <1>1, <1>2, BlockFacts DEF Ids

\* Where an unread block starts, the memory holds its header.
LEMMA HeaderInPlace ==
  ASSUME TypeOK, UnreadIntact, NEW i \in 1..Len(chan)
  PROVE  mem[chan[i].off] = Hdr(chan[i])
  <1>1. chan[i].off \in Bytes(chan[i].off, chan[i].len)
    BY BlockFacts, IndexFacts DEF Bytes
  <1> QED BY <1>1 DEF UnreadIntact

\* The layout depends on the ring alone, not on where the processes are.
LEMMA RingFrame ==
  ASSUME Ring, UNCHANGED <<head, tail, mem, chan, wrapAt>>
  PROVE  Ring'
  BY DEF Ring, Placed, Linked, Ordered, Marked, UnreadIntact, InHigh, InLow,
         Follows, Wrapped, End, Hdr, Bytes, Data

-----------------------------------------------------------------------------
\* The steps of mq_push that move neither index.

LEMMA PushCallKeeps ==
  ASSUME IInv, NEW n \in Lens, PushCall(n)
  PROVE  IInv'
  <1> USE QueueAssumption
  <1>1. TypeOK'
    BY DEF IInv, TypeOK, PushCall, shared, history, Data, Ids
  <1>2. Ring'
    BY RingFrame DEF IInv, PushCall, shared, history
  <1>3. WriterInv' /\ ReaderInv'
    BY DEF IInv, TypeOK, WriterInv, ReaderInv, PushCall, shared, history, Data, Wrapped
  <1>4. Numbered'
    BY NumberFacts DEF IInv, Numbered, Newer, PushCall, shared, history
  <1> QED BY <1>1, <1>2, <1>3, <1>4 DEF IInv

LEMMA PushAheadKeeps ==
  ASSUME IInv, PushAhead
  PROVE  IInv'
  <1> USE QueueAssumption
  <1>1. TypeOK'
    BY DEF IInv, TypeOK, PushAhead, shared, history
  <1>2. Ring'
    BY RingFrame DEF IInv, PushAhead, shared, history
  <1>3. WriterInv' /\ ReaderInv'
    BY IndexFacts DEF IInv, WriterInv, ReaderInv, PushAhead, shared, history, Wrapped
  <1>4. Numbered'
    BY DEF IInv, Numbered, Newer, PushAhead, shared, history
  <1> QED BY <1>1, <1>2, <1>3, <1>4 DEF IInv

LEMMA PushFrontKeeps ==
  ASSUME IInv, PushFront
  PROVE  IInv'
  <1>1. TypeOK'
    BY DEF IInv, TypeOK, PushFront, ReturnFull, shared
  <1>2. Ring'
    BY RingFrame DEF IInv, PushFront, shared
  <1>3. WriterInv' /\ ReaderInv'
    BY DEF IInv, WriterInv, ReaderInv, PushFront, ReturnFull, shared, Wrapped
  <1>4. Numbered'
    BY NumberFacts DEF IInv, Numbered, Newer, PushFront, ReturnFull, shared
  <1> QED BY <1>1, <1>2, <1>3, <1>4 DEF IInv

LEMMA PushBehindKeeps ==
  ASSUME IInv, PushBehind
  PROVE  IInv'
  <1>1. TypeOK'
    <2>1. blk.id \in Ids
      BY QueueAssumption DEF IInv, TypeOK, WriterInv, PushBehind, Ids
    <2> QED BY <2>1 DEF IInv, TypeOK, PushBehind, ReturnOk, shared
  <1>2. Ring'
    BY RingFrame DEF IInv, PushBehind, shared
  <1>3. WriterInv' /\ ReaderInv'
    BY DEF IInv, WriterInv, ReaderInv, PushBehind, ReturnOk, shared, Wrapped
  <1>4. Numbered'
    BY NumberFacts DEF IInv, Numbered, Newer, PushBehind, ReturnOk, shared
  <1> QED BY <1>1, <1>2, <1>3, <1>4 DEF IInv

LEMMA PushRoomKeeps ==
  ASSUME IInv, PushRoom
  PROVE  IInv'
  <1>1. TypeOK'
    BY DEF IInv, TypeOK, PushRoom, ReturnFull, shared
  <1>2. Ring'
    BY RingFrame DEF IInv, PushRoom, shared
  <1>3. WriterInv' /\ ReaderInv'
    <2>1. tail < QLen /\ tail \in Nat /\ QLen \in Nat /\ head \in Nat
      BY IndexFacts DEF IInv
    <2>2. ppc # "idle" /\ blk.len \in Nat
      BY QueueAssumption DEF IInv, WriterInv, PushRoom
    <2> QED BY <2>1, <2>2 DEF IInv, WriterInv, ReaderInv, PushRoom, ReturnFull, shared, Wrapped
  <1>4. Numbered'
    BY NumberFacts DEF IInv, Numbered, Newer, PushRoom, ReturnFull, shared
  <1> QED BY <1>1, <1>2, <1>3, <1>4 DEF IInv

-----------------------------------------------------------------------------
\* The steps of mq_push that write memory: they leave every unread block alone.

\* The bytes from head on that a step of mq_push may write are free.
LEMMA FreeAhead ==
  ASSUME IInv, NEW n \in Nat, Wrapped => head + n <= tail
  PROVE  \A i \in 1..Len(chan) :
           Bytes(head, n) \cap Bytes(chan[i].off, chan[i].len) = {}
  <1> SUFFICES ASSUME NEW i \in 1..Len(chan),
                      NEW o \in Bytes(head, n),
                      o \in Bytes(chan[i].off, chan[i].len)
               PROVE  FALSE
    OBVIOUS
  <1>1. TypeOK /\ (InHigh(chan[i]) \/ InLow(chan[i]))
    BY DEF IInv, Ring, Placed
  <1>2. /\ chan[i].off \in Nat /\ chan[i].len \in Nat
        /\ End(chan[i]) = chan[i].off + chan[i].len
        /\ head \in Nat /\ tail \in Nat
    BY <1>1, IndexFacts, BlockFacts
  <1>3. /\ o \in Int /\ head <= o /\ o < head + n
        /\ chan[i].off <= o /\ o < End(chan[i])
    BY <1>2 DEF Bytes
  <1>4. CASE InHigh(chan[i])
    BY <1>2, <1>3, <1>4 DEF InHigh
  <1>5. CASE InLow(chan[i])
    BY <1>2, <1>3, <1>5 DEF InLow
  <1> QED BY <1>1, <1>4, <1>5

\* An unread block lies inside the mapping.
LEMMA BlocksInside ==
  ASSUME IInv, NEW i \in 1..Len(chan)
  PROVE  Bytes(chan[i].off, chan[i].len) \subseteq Offsets
  <1>1. TypeOK /\ (InHigh(chan[i]) \/ InLow(chan[i]))
    BY DEF IInv, Ring, Placed
  <1>2. End(chan[i]) < QLen
    BY <1>1, IndexFacts, BlockFacts DEF InHigh, InLow
  <1>3. MHead <= chan[i].off /\ chan[i].off + chan[i].len < QLen
    BY <1>1, <1>2, BlockFacts DEF End, Offsets
  <1>4. chan[i].off \in Nat /\ chan[i].len \in Nat
    BY <1>1, BlockFacts
  <1>5. ASSUME NEW o \in Bytes(chan[i].off, chan[i].len)
        PROVE  o \in Offsets
    <2>1. o \in Int /\ chan[i].off <= o /\ o < chan[i].off + chan[i].len
      BY <1>4 DEF Bytes
    <2> QED BY <2>1, <1>3, <1>4, IndexFacts, <1>1 DEF Offsets
  <1> QED BY <1>5

\* Writing a header to free bytes leaves the memory typed and every unread
\* block whole.
LEMMA FillKeeps ==
  ASSUME IInv, NEW n \in Nat, Wrapped => head + n <= tail,
         NEW bytes \in SUBSET Bytes(head, n),
         NEW h \in [id : 0..MaxPush, type : {"BLK_DATA", "BLK_ALIGN"}, len : Nat],
         mem' = Fill(bytes, h)
  PROVE  /\ mem' \in [Offsets -> [id : 0..MaxPush,
                                  type : {"BLK_DATA", "BLK_ALIGN"}, len : Nat]]
         /\ \A i \in 1..Len(chan) : \A o \in Bytes(chan[i].off, chan[i].len) :
              mem'[o] = Hdr(chan[i])
         /\ \A o \in bytes \cap Offsets : mem'[o] = h
         /\ \A o \in Offsets \ bytes : mem'[o] = mem[o]
  <1>1. \A i \in 1..Len(chan) : bytes \cap Bytes(chan[i].off, chan[i].len) = {}
    BY FreeAhead
  <1>2. mem \in [Offsets -> [id : 0..MaxPush,
                             type : {"BLK_DATA", "BLK_ALIGN"}, len : Nat]]
    BY DEF IInv, TypeOK
  <1>3. mem' \in [Offsets -> [id : 0..MaxPush,
                              type : {"BLK_DATA", "BLK_ALIGN"}, len : Nat]]
    BY <1>2 DEF Fill
  <1>4. /\ \A o \in bytes \cap Offsets : mem'[o] = h
        /\ \A o \in Offsets \ bytes : mem'[o] = mem[o]
    BY DEF Fill
  <1>5. ASSUME NEW i \in 1..Len(chan),
               NEW o \in Bytes(chan[i].off, chan[i].len)
        PROVE  mem'[o] = Hdr(chan[i])
    <2>1. mem[o] = Hdr(chan[i])
      BY DEF IInv, Ring, UnreadIntact
    <2>2. o \notin bytes /\ o \in Offsets
      BY <1>1, BlocksInside
    <2> QED BY <1>4, <2>1, <2>2
  <1> QED BY <1>3, <1>4, <1>5

LEMMA PushAlignKeeps ==
  ASSUME IInv, PushAlign
  PROVE  IInv'
  <1>0. TypeOK /\ ~Wrapped /\ head + blk.len >= QLen
    BY DEF IInv, WriterInv, PushAlign
  <1>1. CASE ~(head + BHead <= QLen)
    <2>1. mem' = mem
      BY <1>1 DEF PushAlign
    <2>2. TypeOK' /\ Numbered'
      BY <2>1, NumberFacts DEF IInv, TypeOK, PushAlign, history, Numbered, Newer
    <2>3. Ring'
      BY <2>1, RingFrame DEF IInv, PushAlign, history
    <2>4. WriterInv' /\ ReaderInv'
      BY <1>0, <1>1, <2>1 DEF IInv, WriterInv, ReaderInv, PushAlign, history, Wrapped
    <2> QED BY <2>2, <2>3, <2>4 DEF IInv
  <1>2. CASE head + BHead <= QLen
    <2> DEFINE h == Align(QLen - head)
    <2>1. h \in [id : 0..MaxPush, type : {"BLK_DATA", "BLK_ALIGN"}, len : Nat]
          /\ h.type = "BLK_ALIGN"
      BY <1>0, IndexFacts, QueueAssumption DEF Align
    <2>2. mem' = Fill(Bytes(head, BHead), h)
      BY <1>2 DEF PushAlign
    <2> HIDE DEF h
    <2>3. /\ mem' \in [Offsets -> [id : 0..MaxPush,
                                   type : {"BLK_DATA", "BLK_ALIGN"}, len : Nat]]
          /\ \A i \in 1..Len(chan) : \A o \in Bytes(chan[i].off, chan[i].len) :
               mem'[o] = Hdr(chan[i])
          /\ \A o \in Bytes(head, BHead) \cap Offsets : mem'[o] = h
      BY <1>0, <2>1, <2>2, FillKeeps, IndexFacts
    <2>4. TypeOK' /\ Numbered'
      BY <2>3, NumberFacts DEF IInv, TypeOK, PushAlign, history, Numbered, Newer
    <2>5. UnreadIntact'
      BY <2>3 DEF UnreadIntact, PushAlign, history, Hdr, Bytes, Data
    <2>6. Placed' /\ Linked' /\ Ordered' /\ Marked'
      BY <1>0 DEF IInv, Ring, Placed, Linked, Ordered, Marked, InHigh, InLow,
         Follows, Wrapped, End, PushAlign, history
    <2>7. mem'[head] = h
      <3>1. head \in Bytes(head, BHead) \cap Offsets
        BY <1>0, IndexFacts DEF Bytes, Offsets
      <3> QED BY <2>3, <3>1
    <2>8. WriterInv' /\ ReaderInv'
      BY <1>0, <2>1, <2>7 DEF IInv, WriterInv, ReaderInv, PushAlign, history, Wrapped
    <2> QED BY <2>4, <2>5, <2>6, <2>8 DEF IInv, Ring
  <1> QED BY <1>1, <1>2

\* Neither does writing the block itself disturb the layout.
LEMMA BlockWriteKeepsRing ==
  ASSUME IInv, NEW n \in Nat, Wrapped => head + n < tail,
         NEW bytes \in SUBSET Bytes(head, n),
         mem' = Fill(bytes, blk),
         UNCHANGED <<head, tail, chan, wrapAt>>
  PROVE  /\ Ring'
         /\ mem' \in [Offsets -> [id : 0..MaxPush,
                                 type : {"BLK_DATA", "BLK_ALIGN"}, len : Nat]]
         /\ \A o \in bytes \cap Offsets : mem'[o] = blk
         /\ \A o \in Offsets \ bytes : mem'[o] = mem[o]
  <1>1. blk \in [id : 0..MaxPush, type : {"BLK_DATA", "BLK_ALIGN"}, len : Nat]
    <2>1. {0} \cup Lens \subseteq Nat
      BY QueueAssumption
    <2>2. blk \in [id : 0..MaxPush, type : {"BLK_DATA"}, len : {0} \cup Lens]
      BY DEF IInv, TypeOK
    <2> QED BY <2>1, <2>2
  <1>2. TypeOK
    BY DEF IInv
  <1>3. /\ mem' \in [Offsets -> [id : 0..MaxPush,
                                 type : {"BLK_DATA", "BLK_ALIGN"}, len : Nat]]
        /\ \A i \in 1..Len(chan) : \A o \in Bytes(chan[i].off, chan[i].len) :
             mem'[o] = Hdr(chan[i])
        /\ \A o \in bytes \cap Offsets : mem'[o] = blk
        /\ \A o \in Offsets \ bytes : mem'[o] = mem[o]
    <2>1. Wrapped => head + n <= tail
      BY <1>2, IndexFacts
    <2> QED BY <1>1, <2>1, FillKeeps
  <1>4. UnreadIntact'
    BY <1>3 DEF UnreadIntact, Hdr, Bytes, Data
  <1>5. Placed' /\ Linked' /\ Ordered'
    BY DEF IInv, Ring, Placed, Linked, Ordered, InHigh, InLow, Follows, Wrapped, End
  <1>6. ASSUME Wrapped, wrapAt + BHead <= QLen
        PROVE  mem'[wrapAt] = mem[wrapAt]
    <2>1. wrapAt \in Offsets \ bytes
      BY <1>2, <1>6, IndexFacts DEF IInv, Ring, Marked, Bytes, Offsets
    <2> QED BY <1>3, <2>1
  <1>7. Marked'
    BY <1>6 DEF IInv, Ring, Marked, Wrapped
  <1> QED BY <1>3, <1>4, <1>5, <1>7 DEF Ring

LEMMA PushHeaderKeeps ==
  ASSUME IInv, PushHeader
  PROVE  IInv'
  <1>1. /\ TypeOK
        /\ head + blk.len < QLen /\ (Wrapped => head + blk.len < tail)
        /\ blk.len \in Nat /\ blk.len >= BHead
    BY QueueAssumption DEF IInv, WriterInv, PushHeader
  <1>2. Bytes(head, BHead) \in SUBSET Bytes(head, blk.len)
    BY <1>1, IndexFacts DEF Bytes
  <1>3. /\ Ring'
        /\ mem' \in [Offsets -> [id : 0..MaxPush,
                                type : {"BLK_DATA", "BLK_ALIGN"}, len : Nat]]
        /\ \A o \in Bytes(head, BHead) \cap Offsets : mem'[o] = blk
    BY <1>1, <1>2, BlockWriteKeepsRing DEF PushHeader, history
  <1>4. TypeOK'
    BY <1>3 DEF IInv, TypeOK, PushHeader, history
  <1>5. \A o \in Bytes(head, BHead) : mem'[o] = blk
    BY <1>1, <1>3, IndexFacts DEF Bytes, Offsets
  <1>6. WriterInv' /\ ReaderInv'
    BY <1>5 DEF IInv, WriterInv, ReaderInv, PushHeader, history, Wrapped, Bytes
  <1>7. Numbered'
    BY NumberFacts DEF IInv, Numbered, Newer, PushHeader, history
  <1> QED BY <1>3, <1>4, <1>6, <1>7 DEF IInv

LEMMA PushDataKeeps ==
  ASSUME IInv, PushData
  PROVE  IInv'
  <1> DEFINE body == Bytes(head + BHead, blk.len - BHead)
  <1>1. /\ TypeOK
        /\ head + blk.len < QLen /\ (Wrapped => head + blk.len < tail)
        /\ blk.len \in Nat /\ blk.len >= BHead
        /\ \A o \in Bytes(head, BHead) : mem[o] = blk
    BY QueueAssumption DEF IInv, WriterInv, PushData
  <1>2. body \in SUBSET Bytes(head, blk.len)
    BY <1>1, IndexFacts DEF Bytes
  <1>3. /\ Ring'
        /\ mem' \in [Offsets -> [id : 0..MaxPush,
                                type : {"BLK_DATA", "BLK_ALIGN"}, len : Nat]]
        /\ \A o \in body \cap Offsets : mem'[o] = blk
        /\ \A o \in Offsets \ body : mem'[o] = mem[o]
    BY <1>1, <1>2, BlockWriteKeepsRing DEF PushData, history
  <1>4. TypeOK'
    BY <1>3 DEF IInv, TypeOK, PushData, history
  <1>5. \A o \in Bytes(head, blk.len) : mem'[o] = blk
    <2> TAKE o \in Bytes(head, blk.len)
    <2>1. o \in Offsets /\ (o \in Bytes(head, BHead) \/ o \in body)
      BY <1>1, IndexFacts DEF Bytes, Offsets
    <2> QED BY <1>1, <1>3, <2>1
  <1>6. WriterInv' /\ ReaderInv'
    <2>1. \A o \in Bytes(head, BHead) : mem'[o] = blk
      BY <1>1, <1>5, IndexFacts DEF Bytes
    <2> QED
      BY <1>5, <2>1 DEF IInv, WriterInv, ReaderInv, PushData, history, Wrapped, Bytes
  <1>7. Numbered'
    BY NumberFacts DEF IInv, Numbered, Newer, PushData, history
  <1> QED BY <1>3, <1>4, <1>6, <1>7 DEF IInv

-----------------------------------------------------------------------------
\* The steps of mq_push that move head.

LEMMA PushWrapKeeps ==
  ASSUME IInv, PushWrap
  PROVE  IInv'
  <1>1. /\ TypeOK /\ Ring /\ ~Wrapped /\ tail # MHead
        /\ head + BHead <= QLen => mem[head].type = "BLK_ALIGN"
        /\ head' = MHead /\ wrapAt' = head
        /\ UNCHANGED <<tail, mem, blk, cpc, calls, chan, accepted, delivered>>
        /\ ppc = "wrap" /\ ppc' = "ahead"
    BY DEF IInv, WriterInv, PushWrap
  <1>2. Wrapped'
    BY <1>1, IndexFacts DEF Wrapped
  <1>3. \A i \in 1..Len(chan) : InLow(chan[i]) /\ InHigh(chan[i])'
    BY <1>1, <1>2 DEF Ring, Placed, InHigh, InLow, Wrapped, End
  <1>4. TypeOK'
    BY <1>1, QueueAssumption DEF TypeOK, Offsets
  <1>5. Placed' /\ UnreadIntact'
    BY <1>1, <1>3 DEF Ring, Placed, UnreadIntact, Hdr, Bytes, Data
  <1>6. Linked'
    BY <1>1, <1>2 DEF Ring, Linked, Follows, End
  <1>7. Ordered'
    BY <1>1 DEF Ring, Ordered, InHigh, Wrapped, End
  <1>8. Marked'
    BY <1>1, <1>2, IndexFacts DEF Marked, Wrapped
  <1>9. WriterInv' /\ ReaderInv' /\ Numbered'
    BY <1>1, <1>2 DEF IInv, WriterInv, ReaderInv, Numbered, Newer
  <1> QED BY <1>4, <1>5, <1>6, <1>7, <1>8, <1>9 DEF IInv, Ring

LEMMA PushPublishKeeps ==
  ASSUME IInv, PushPublish
  PROVE  IInv'
  <1>1. /\ TypeOK /\ Ring
        /\ head + blk.len < QLen /\ (Wrapped => head + blk.len < tail)
        /\ blk.len \in Lens /\ blk.len \in Nat /\ blk.len >= BHead
        /\ blk.id = calls /\ calls > 0
        /\ blk = Data(blk.id, blk.len)
        /\ \A o \in Bytes(head, blk.len) : mem[o] = blk
    BY QueueAssumption DEF IInv, TypeOK, WriterInv, PushPublish, Data
  <1> PICK new : new = [id |-> blk.id, len |-> blk.len, off |-> head]
    OBVIOUS
  <1> PICK n : n = Len(chan)
    OBVIOUS
  <1>2. /\ head' = head + blk.len
        /\ UNCHANGED <<tail, mem, blk, cpc, calls, wrapAt, delivered>>
        /\ ppc = "publish" /\ ppc' = "idle" /\ accepted' = accepted \cup {blk.id}
        /\ chan' = Append(chan, new)
    BY DEF PushPublish, ReturnOk
  <1>3. Wrapped' <=> Wrapped
    BY <1>1, <1>2, IndexFacts DEF Wrapped
  <1>4. blk.id \in Ids /\ head \in Offsets /\ head' \in Offsets
    <2>1. calls \in 0..MaxPush /\ head \in Offsets
      BY <1>1 DEF TypeOK
    <2>2. blk.id \in Ids
      BY <2>1, <1>1, QueueAssumption DEF Ids
    <2>3. head + blk.len \in Offsets
      BY <2>1, <1>1, QueueAssumption DEF Offsets
    <2> QED BY <2>1, <2>2, <2>3, <1>2
  <1>5. /\ new \in [id : Ids, len : Lens, off : Offsets]
        /\ new.id = blk.id /\ new.len = blk.len /\ new.off = head /\ End(new) = head'
    BY <1>1, <1>2, <1>4 DEF End
  <1>6. /\ chan' \in Seq([id : Ids, len : Lens, off : Offsets])
        /\ n \in Nat /\ Len(chan') = n + 1
        /\ \A i \in 1..n : chan'[i] = chan[i]
        /\ chan'[n + 1] = new
    BY <1>1, <1>2, <1>5, AppendProperties, LenProperties DEF TypeOK
  <1>7. \A i \in 1..(n + 1) : i \in 1..n \/ i = n + 1
    BY <1>6
  <1>8. TypeOK'
    BY <1>1, <1>2, <1>4, <1>6 DEF TypeOK
  <1> DEFINE Low(b) == /\ Wrapped => MHead <= b.off
                       /\ ~Wrapped => tail <= b.off
                       /\ End(b) <= head'
  <1>9. Low(new) /\ \A i \in 1..n : InLow(chan[i]) => Low(chan[i])
    <2>1. Low(new)
      BY <1>1, <1>2, <1>5, IndexFacts DEF Wrapped
    <2>2. \A i \in 1..n : InLow(chan[i]) => Low(chan[i])
      BY <1>1, <1>2, IndexFacts, BlockFacts DEF InLow
    <2> QED BY <2>1, <2>2
  <1>10. Placed'
    <2>1. ASSUME NEW i \in 1..(n + 1)
          PROVE  InHigh(chan'[i]) \/ Low(chan'[i])
      <3>1. CASE i = n + 1
        BY <3>1, <1>6, <1>9
      <3>2. CASE i \in 1..n
        BY <3>2, <1>1, <1>6, <1>9 DEF Ring, Placed
      <3> QED BY <1>7, <3>1, <3>2
    <2> QED BY <2>1, <1>2, <1>3, <1>6 DEF Placed, InHigh, InLow, End
  <1>11. Linked'
    <2>1. \/ tail = chan'[1].off
          \/ Wrapped /\ tail = wrapAt /\ chan'[1].off = MHead
      BY <1>1, <1>5, <1>6 DEF Ring, Linked, Follows
    <2>2. End(chan'[n + 1]) = head'
      BY <1>5, <1>6
    <2>3. ASSUME NEW i \in 1..n
          PROVE  \/ End(chan'[i]) = chan'[i + 1].off
                 \/ Wrapped /\ End(chan'[i]) = wrapAt /\ chan'[i + 1].off = MHead
      <3>1. CASE i = n
        BY <3>1, <1>1, <1>5, <1>6 DEF Ring, Linked, Follows
      <3>2. CASE i \in 1..(n - 1)
        <4>1. i \in 1..n /\ i + 1 \in 1..n
          BY <3>2, <1>6
        <4> QED BY <3>2, <4>1, <1>1, <1>6 DEF Ring, Linked, Follows
      <3> QED BY <1>6, <3>1, <3>2
    <2>4. chan' # <<>> /\ Len(chan') - 1 = n
      BY <1>6
    <2> QED BY <1>2, <1>3, <1>6, <2>1, <2>2, <2>3, <2>4 DEF Linked, Follows, End
  <1>12. Ordered'
    <2>1. ASSUME NEW i \in 1..(n + 1), NEW j \in 1..(n + 1), i < j
          PROVE  \/ End(chan'[i]) <= chan'[j].off
                 \/ InHigh(chan'[i]) /\ Low(chan'[j])
      <3>1. i \in 1..n
        BY <2>1, <1>6
      <3>2. CASE j = n + 1
        <4>1. InHigh(chan[i]) \/ InLow(chan[i])
          BY <3>1, <1>1 DEF Ring, Placed
        <4> QED BY <3>1, <3>2, <4>1, <1>5, <1>6, <1>9 DEF InLow
      <3>3. CASE j \in 1..n
        BY <2>1, <3>1, <3>3, <1>1, <1>6, <1>9 DEF Ring, Ordered
      <3> QED BY <1>7, <3>2, <3>3
    <2> QED BY <2>1, <1>2, <1>3, <1>6 DEF Ordered, InHigh, InLow, End
  <1>13. Marked' /\ UnreadIntact'
    BY <1>1, <1>2, <1>3, <1>5, <1>6, <1>7 DEF Ring, Marked, UnreadIntact, Hdr, Data, Bytes
  <1>14. WriterInv' /\ ReaderInv'
    <2>1. chan' # <<>> /\ (chan # <<>> => n >= 1)
      BY <1>6
    <2> QED BY <1>1, <1>2, <1>3, <1>6, <2>1 DEF IInv, WriterInv, ReaderInv
  <1>15. Numbered'
    <2>1. calls \in Nat /\ calls' = calls /\ ppc # "idle" /\ ppc' = "idle"
      BY <1>1, <1>2, NumberFacts
    <2>2. ASSUME NEW i \in 1..(n + 1)
          PROVE  chan'[i].id <= calls
      <3>1. CASE i = n + 1
        BY <3>1, <2>1, <1>1, <1>5, <1>6
      <3>2. CASE i \in 1..n
        <4>1. chan[i].id < calls /\ chan[i].id \in Nat
          BY <3>2, <2>1, <1>6, NumberFacts, <1>1 DEF IInv, Numbered, Newer
        <4> QED BY <4>1, <3>2, <2>1, <1>6
      <3> QED BY <3>1, <3>2, <1>6
    <2>3. \A i \in 1..Len(delivered) : delivered[i] < calls /\ delivered[i] \in Nat
      BY <2>1, <1>1, NumberFacts DEF IInv, Numbered, Newer
    <2>4. \A i \in 1..Len(delivered') : delivered'[i] <= calls
      BY <2>1, <2>3, <1>2
    <2> QED BY <2>1, <2>2, <2>4, <1>6 DEF Numbered, Newer
  <1> QED BY <1>8, <1>10, <1>11, <1>12, <1>13, <1>14, <1>15 DEF IInv, Ring

-----------------------------------------------------------------------------
\* The steps of mq_get and mq_pop.

\* Not wrapped, tail is where the oldest block starts, if there is one.
LEMMA TailAtOldest ==
  ASSUME IInv, tail < head
  PROVE  chan # <<>> /\ chan[1].off = tail
  <1>1. TypeOK /\ Linked
    BY DEF IInv, Ring
  <1> QED BY <1>1, IndexFacts DEF Linked, Follows, Wrapped

\* Wrapped, tail is there or at the filler.
LEMMA TailAtOldestOrFiller ==
  ASSUME IInv, Wrapped
  PROVE  /\ tail <= wrapAt
         /\ tail = wrapAt \/ (chan # <<>> /\ chan[1].off = tail)
         /\ chan # <<>> /\ chan[1].off = tail =>
              /\ InHigh(chan[1]) /\ tail + BHead <= wrapAt /\ tail + BHead <= QLen
              /\ mem[tail].type = "BLK_DATA"
         /\ tail + BHead <= QLen /\ tail = wrapAt => mem[tail].type = "BLK_ALIGN"
  <1>1. TypeOK /\ Linked /\ Marked /\ Placed /\ UnreadIntact
    BY DEF IInv, Ring
  <1>2. tail = wrapAt \/ (chan # <<>> /\ chan[1].off = tail)
    BY <1>1, IndexFacts DEF Linked, Follows, Wrapped
  <1>3. ASSUME chan # <<>>, chan[1].off = tail
        PROVE  /\ InHigh(chan[1]) /\ tail + BHead <= wrapAt /\ tail + BHead <= QLen
               /\ mem[tail].type = "BLK_DATA"
    <2>1. 1 \in 1..Len(chan)
      BY <1>1, <1>3, EmptySeq, BlockFacts DEF TypeOK
    <2>2. InHigh(chan[1])
      BY <1>1, <1>3, <2>1, IndexFacts, BlockFacts DEF Placed, InLow, Wrapped
    <2>3. mem[tail] = Hdr(chan[1])
      BY <1>1, <1>3, <2>1, HeaderInPlace
    <2> QED BY <1>1, <1>3, <2>1, <2>2, <2>3, IndexFacts, BlockFacts DEF InHigh, Hdr, Data
  <1> QED BY <1>1, <1>2, <1>3 DEF Marked

LEMMA GetAheadKeeps ==
  ASSUME IInv, GetAhead
  PROVE  IInv'
  <1>1. TypeOK' /\ Numbered'
    BY NumberFacts DEF IInv, TypeOK, GetAhead, Reader, shared, history, Numbered, Newer
  <1>2. Ring'
    BY RingFrame DEF IInv, GetAhead, shared, history
  <1>3. WriterInv' /\ ReaderInv'
    BY DEF IInv, WriterInv, ReaderInv, GetAhead, Reader, shared, history, Wrapped
  <1> QED BY <1>1, <1>2, <1>3 DEF IInv

LEMMA GetFitsKeeps ==
  ASSUME IInv, GetFits
  PROVE  IInv'
  <1>1. TypeOK' /\ Numbered'
    BY NumberFacts DEF IInv, TypeOK, GetFits, Reader, shared, history, Numbered, Newer
  <1>2. Ring'
    BY RingFrame DEF IInv, GetFits, shared, history
  <1>3. WriterInv'
    BY DEF IInv, WriterInv, GetFits, shared, history, Wrapped
  <1>4. ReaderInv'
    <2>1. CASE head >= tail + BHead /\ cpc' = "use"
      <3>1. chan # <<>> /\ chan[1].off = tail
        BY <2>1, IndexFacts, TailAtOldest DEF IInv
      <3> QED BY <2>1, <3>1 DEF ReaderInv, GetFits, shared, history
    <2>2. CASE cpc' = "get"
      BY <2>2 DEF ReaderInv
    <2> QED BY <2>1, <2>2 DEF GetFits, Reader
  <1> QED BY <1>1, <1>2, <1>3, <1>4 DEF IInv

LEMMA GetBehindKeeps ==
  ASSUME IInv, GetBehind
  PROVE  IInv'
  <1>1. TypeOK' /\ Numbered'
    BY NumberFacts DEF IInv, TypeOK, GetBehind, Reader, shared, history, Numbered, Newer
  <1>2. Ring'
    BY RingFrame DEF IInv, GetBehind, shared, history
  <1>3. WriterInv'
    BY DEF IInv, WriterInv, GetBehind, shared, history, Wrapped
  <1>4. ReaderInv'
    <2>1. CASE head < tail /\ QLen < tail + BHead /\ cpc' = "rewind"
      <3>1. tail = wrapAt
        BY <2>1, TailAtOldestOrFiller, IndexFacts DEF Wrapped, IInv
      <3> QED BY <2>1, <3>1 DEF ReaderInv, GetBehind, shared, history, Wrapped
    <2>2. CASE head < tail /\ QLen >= tail + BHead /\ cpc' = "kind"
      BY <2>2, IndexFacts DEF ReaderInv, GetBehind, shared, history, Wrapped, IInv
    <2>3. CASE cpc' = "get"
      BY <2>3 DEF ReaderInv
    <2> QED BY <2>1, <2>2, <2>3 DEF GetBehind, Reader
  <1> QED BY <1>1, <1>2, <1>3, <1>4 DEF IInv

LEMMA GetKindKeeps ==
  ASSUME IInv, GetKind
  PROVE  IInv'
  <1>1. TypeOK' /\ Numbered'
    BY NumberFacts DEF IInv, TypeOK, GetKind, Reader, shared, history, Numbered, Newer
  <1>2. Ring'
    BY RingFrame DEF IInv, GetKind, shared, history
  <1>3. WriterInv'
    BY DEF IInv, WriterInv, GetKind, shared, history, Wrapped
  <1>4. ReaderInv'
    <2>1. Wrapped /\ tail + BHead <= QLen
      BY DEF IInv, ReaderInv, GetKind
    <2>2. CASE mem[tail].type = "BLK_ALIGN" /\ cpc' = "rewind"
      <3>1. tail = wrapAt
        BY <2>1, <2>2, TailAtOldestOrFiller
      <3> QED BY <2>1, <2>2, <3>1 DEF ReaderInv, GetKind, shared, history, Wrapped
    <2>3. CASE mem[tail].type # "BLK_ALIGN" /\ cpc' = "use"
      <3>1. chan # <<>> /\ chan[1].off = tail
        BY <2>1, <2>3, TailAtOldestOrFiller
      <3> QED BY <2>3, <3>1 DEF ReaderInv, GetKind, shared, history
    <2> QED BY <2>2, <2>3 DEF GetKind, Reader
  <1> QED BY <1>1, <1>2, <1>3, <1>4 DEF IInv

LEMMA GetRewindKeeps ==
  ASSUME IInv, GetRewind
  PROVE  IInv'
  <1>1. /\ TypeOK /\ Ring /\ Wrapped /\ tail = wrapAt
        /\ tail' = MHead /\ cpc' = "get"
        /\ UNCHANGED <<head, mem, ppc, blk, calls, chan, wrapAt, accepted, delivered>>
    BY DEF IInv, ReaderInv, GetRewind, Reader, history
  <1>2. ~Wrapped'
    BY <1>1, IndexFacts DEF Wrapped
  <1>3. TypeOK'
    BY <1>1, QueueAssumption DEF TypeOK, Offsets
  <1>4. ASSUME NEW i \in 1..Len(chan)
        PROVE  ~InHigh(chan[i]) /\ InLow(chan[i])
    <2>1. ~InHigh(chan[i])
      BY <1>1, IndexFacts, BlockFacts DEF InHigh
    <2> QED BY <2>1, <1>1 DEF Ring, Placed
  <1>5. \A i \in 1..Len(chan) :
          /\ End(chan[i]) # wrapAt /\ End(chan[i]) # MHead
          /\ chan[i].off # tail /\ chan[i].off >= MHead
    BY <1>1, <1>4, IndexFacts, BlockFacts DEF InLow, Wrapped
  <1>6. Placed' /\ Marked' /\ UnreadIntact'
    <2>1. Placed'
      BY <1>1, <1>2, <1>4, <1>5 DEF Placed, InLow, End
    <2> QED BY <2>1, <1>1, <1>2 DEF Ring, Marked, UnreadIntact, Hdr, Data, Bytes
  <1>7. Linked'
    <2>1. chan = <<>> => MHead = head
      BY <1>1, IndexFacts DEF Ring, Linked, Follows, Wrapped
    <2>2. chan # <<>> => MHead = chan[1].off /\ End(chan[Len(chan)]) = head
      <3>1. chan # <<>> => 1 \in 1..Len(chan) /\ Len(chan) \in 1..Len(chan)
        BY <1>1, EmptySeq DEF TypeOK
      <3>2. chan # <<>> =>
              Follows(tail, chan[1].off) /\ Follows(End(chan[Len(chan)]), head)
        BY <1>1 DEF Ring, Linked
      <3> QED BY <3>1, <3>2, <1>1, <1>5 DEF Follows
    <2>3. \A i \in 1..(Len(chan) - 1) : End(chan[i]) = chan[i + 1].off
      <3> TAKE i \in 1..(Len(chan) - 1)
      <3>1. i \in 1..Len(chan)
        BY <1>1, BlockFacts
      <3> QED BY <3>1, <1>1, <1>5 DEF Ring, Linked, Follows
    <2> QED BY <1>1, <2>1, <2>2, <2>3 DEF Linked, Follows, End
  <1>8. Ordered'
    BY <1>1, <1>4 DEF Ring, Ordered, End
  <1>9. WriterInv'
    BY <1>1, <1>2, IndexFacts DEF IInv, WriterInv
  <1>10. ReaderInv' /\ Numbered'
    BY <1>1 DEF IInv, ReaderInv, Numbered, Newer
  <1> QED BY <1>3, <1>6, <1>7, <1>8, <1>9, <1>10 DEF IInv, Ring

LEMMA PopKeeps ==
  ASSUME IInv, Pop
  PROVE  IInv'
  <1> PICK n : n = Len(chan)
    OBVIOUS
  <1>1. /\ TypeOK /\ Ring
        /\ chan # <<>> /\ chan[1].off = tail
        /\ cpc' = "get" /\ chan' = Tail(chan)
        /\ delivered' = Append(delivered, mem[tail].id)
        /\ tail' = tail + mem[tail].len
        /\ UNCHANGED <<head, mem, ppc, blk, calls, wrapAt, accepted>>
    BY DEF IInv, ReaderInv, Pop, Reader
  <1>2. n \in Nat /\ n >= 1 /\ 1 \in 1..n
    BY <1>1, EmptySeq, BlockFacts DEF TypeOK
  <1>3. mem[tail] = Hdr(chan[1]) /\ mem[tail].id = chan[1].id /\ tail' = End(chan[1])
    BY <1>1, <1>2, HeaderInPlace DEF Ring, Hdr, Data, End
  <1>4. /\ chan' \in Seq([id : Ids, len : Lens, off : Offsets])
        /\ Len(chan') = n - 1
        /\ \A i \in 1..(n - 1) : chan'[i] = chan[i + 1] /\ i + 1 \in 1..n
    BY <1>1, <1>2, HeadTailProperties DEF TypeOK
  <1>5. /\ InHigh(chan[1]) => tail' <= wrapAt
        /\ InLow(chan[1]) => ~Wrapped /\ tail' <= head
        /\ InHigh(chan[1]) \/ InLow(chan[1])
    BY <1>1, <1>2, <1>3, IndexFacts, BlockFacts DEF Ring, Placed, InHigh, InLow, Wrapped
  <1>6. tail' > tail /\ (Wrapped' <=> Wrapped) /\ tail' \in Offsets
    <2>1. tail' \in Nat /\ tail' > tail
      BY <1>1, <1>2, <1>3, IndexFacts, BlockFacts
    <2>2. CASE InHigh(chan[1])
      BY <1>1, <1>5, <2>1, <2>2, IndexFacts DEF InHigh, Wrapped, Offsets
    <2>3. CASE InLow(chan[1])
      BY <1>1, <1>5, <2>1, <2>3, IndexFacts DEF Wrapped, Offsets
    <2> QED BY <1>5, <2>2, <2>3, <2>1
  <1>7. TypeOK'
    <2>1. chan[1].id \in Ids
      BY <1>1, <1>2, BlockFacts
    <2>2. delivered' \in Seq(Ids)
      BY <1>1, <1>3, <2>1, AppendProperties DEF TypeOK
    <2> QED BY <1>1, <1>4, <1>6, <2>2 DEF TypeOK
  \* The blocks that remain lie beyond the one popped.
  <1>8. ASSUME NEW i \in 1..(n - 1)
        PROVE  \/ InHigh(chan'[i]) /\ tail' <= chan'[i].off
               \/ InLow(chan'[i]) /\ (~Wrapped => tail' <= chan'[i].off)
    <2>1. chan'[i] = chan[i + 1] /\ i + 1 \in 1..n /\ 1 < i + 1
      BY <1>2, <1>4
    <2>2. \/ tail' <= chan[i + 1].off
          \/ InHigh(chan[1]) /\ InLow(chan[i + 1])
      BY <1>1, <1>2, <1>3, <2>1 DEF Ring, Ordered
    <2>3. InHigh(chan[i + 1]) \/ InLow(chan[i + 1])
      BY <1>1, <2>1 DEF Ring, Placed
    <2>4. CASE tail' <= chan[i + 1].off
      BY <2>1, <2>3, <2>4
    <2>5. CASE InHigh(chan[1]) /\ InLow(chan[i + 1])
      BY <2>1, <2>5 DEF InHigh
    <2> QED BY <2>2, <2>4, <2>5
  <1>9. Placed'
    BY <1>1, <1>4, <1>6, <1>8 DEF Placed, InHigh, InLow, End
  <1>10. Linked'
    <2>1. chan' = <<>> => n = 1
      <3>1. Len(<<>>) = 0
        BY EmptySeq
      <3>2. ASSUME chan' = <<>> PROVE n - 1 = 0
        <4>1. Len(chan') = 0
          BY <3>1, <3>2
        <4> QED BY <1>4, <4>1
      <3>3. \A k \in Nat : k - 1 = 0 => k = 1
        OBVIOUS
      <3> QED BY <1>2, <3>2, <3>3
    <2>2. chan' # <<>> => n - 1 >= 1
      BY <1>2, <1>4, EmptySeq
    <2>3. Follows(End(chan[n]), head)
      BY <1>1 DEF Ring, Linked
    <2>4. \A i \in 1..(n - 1) : Follows(End(chan[i]), chan[i + 1].off)
      BY <1>1 DEF Ring, Linked
    <2>5. chan' = <<>> => Follows(tail', head)
      BY <1>3, <2>1, <2>3
    <2>6. chan' # <<>> => Follows(tail', chan'[1].off) /\ Follows(End(chan'[n - 1]), head)
      <3> HAVE chan' # <<>>
      <3>1. 1 \in 1..(n - 1) /\ n - 1 \in 1..(n - 1) /\ (n - 1) + 1 = n /\ 1 + 1 = 2
        BY <1>2, <2>2
      <3>2. chan'[1] = chan[2] /\ chan'[n - 1] = chan[n]
        BY <1>4, <3>1
      <3>3. Follows(End(chan[1]), chan[2].off)
        BY <2>4, <3>1
      <3> QED BY <1>3, <2>3, <3>2, <3>3
    <2>7. \A i \in 1..((n - 1) - 1) : Follows(End(chan'[i]), chan'[i + 1].off)
      <3> TAKE i \in 1..((n - 1) - 1)
      <3>1. i \in 1..(n - 1) /\ i + 1 \in 1..(n - 1)
        BY <1>2
      <3> QED BY <1>4, <2>4, <3>1
    <2> QED BY <1>1, <1>4, <1>6, <2>5, <2>6, <2>7 DEF Linked, Follows, End
  <1>11. Ordered'
    <2>1. ASSUME NEW i \in 1..(n - 1), NEW j \in 1..(n - 1), i < j
          PROVE  \/ End(chan'[i]) <= chan'[j].off
                 \/ InHigh(chan'[i]) /\ tail' <= chan'[i].off /\ InLow(chan'[j])
      <3>1. /\ chan'[i] = chan[i + 1] /\ i + 1 \in 1..n
            /\ chan'[j] = chan[j + 1] /\ j + 1 \in 1..n
            /\ i + 1 < j + 1
        BY <2>1, <1>2, <1>4
      <3>2. \/ End(chan'[i]) <= chan'[j].off
            \/ InHigh(chan'[i]) /\ InLow(chan'[j])
        BY <1>1, <3>1 DEF Ring, Ordered
      <3>3. InHigh(chan'[i]) => tail' <= chan'[i].off
        <4>1. /\ End(chan[i + 1]) \in Nat /\ chan[i + 1].off \in Nat
              /\ End(chan[i + 1]) >= chan[i + 1].off + BHead
          BY <3>1, <1>1, BlockFacts
        <4>2. InHigh(chan[i + 1]) => ~InLow(chan[i + 1])
          BY <4>1, <1>1, IndexFacts DEF InHigh, InLow, Wrapped
        <4> QED BY <1>8, <3>1, <4>2
      <3> QED BY <3>2, <3>3
    <2> QED BY <2>1, <1>1, <1>4, <1>6 DEF Ordered, InHigh, InLow, End
  <1>12. Marked' /\ UnreadIntact'
    <2>1. Marked'
      BY <1>1, <1>5, <1>6 DEF Ring, Marked
    <2>2. ASSUME NEW i \in 1..(n - 1), NEW o \in Bytes(chan'[i].off, chan'[i].len)
          PROVE  mem[o] = Hdr(chan'[i])
      BY <1>1, <1>4 DEF Ring, UnreadIntact
    <2> QED BY <2>1, <2>2, <1>1, <1>4 DEF UnreadIntact, Hdr, Data, Bytes
  <1>13. WriterInv'
    <2>1. ppc # "idle" => blk.len \in Nat
      BY QueueAssumption DEF IInv, WriterInv
    <2>2. ppc = "wrap" => tail' # MHead
      BY <1>1, <1>6, IndexFacts DEF Offsets
    <2>3. Wrapped /\ ppc # "idle" /\ head + blk.len < tail => head + blk.len < tail'
      BY <1>1, <1>6, <2>1, IndexFacts DEF Offsets
    <2> QED BY <1>1, <1>6, <2>2, <2>3 DEF IInv, WriterInv, Bytes
  <1>14. ReaderInv'
    BY <1>1 DEF ReaderInv
  <1>15. Numbered'
    <2>1. \A i \in 1..Len(delivered') :
            \/ i \in 1..Len(delivered) /\ delivered'[i] = delivered[i]
            \/ delivered'[i] = chan[1].id
      <3>1. delivered \in Seq(Ids) /\ chan[1].id \in Ids
        BY <1>1, <1>2, BlockFacts DEF TypeOK
      <3>2. delivered' = Append(delivered, chan[1].id)
        BY <1>1, <1>3
      <3> QED BY <3>1, <3>2, AppendProperties, LenProperties
    <2> QED BY <2>1, <1>1, <1>2, <1>4 DEF IInv, Numbered, Newer
  <1> QED BY <1>7, <1>9, <1>10, <1>11, <1>12, <1>13, <1>14, <1>15 DEF IInv, Ring

-----------------------------------------------------------------------------
LEMMA InitInv == Init => IInv
  <1> SUFFICES ASSUME Init PROVE IInv
    OBVIOUS
  <1> USE QueueAssumption
  <1>1. MHead \in Offsets /\ ~Wrapped /\ chan = <<>> /\ Len(chan) = 0 /\ Len(delivered) = 0
    BY EmptySeq DEF Init, Offsets, Wrapped
  <1>2. TypeOK
    <2>1. /\ Data(0, 0) \in [id : 0..MaxPush, type : {"BLK_DATA"}, len : {0} \cup Lens]
          /\ Data(0, 0) \in [id : 0..MaxPush, type : {"BLK_DATA", "BLK_ALIGN"}, len : Nat]
      BY DEF Data
    <2>2. mem \in [Offsets -> [id : 0..MaxPush, type : {"BLK_DATA", "BLK_ALIGN"}, len : Nat]]
      BY <2>1 DEF Init
    <2> QED BY <1>1, <2>1, <2>2, EmptySeq DEF Init, TypeOK
  <1>3. Ring
    BY <1>1 DEF Init, Ring, Placed, Linked, Ordered, Marked, UnreadIntact, Follows
  <1>4. WriterInv /\ ReaderInv /\ Numbered
    BY <1>1 DEF Init, WriterInv, ReaderInv, Numbered
  <1> QED BY <1>2, <1>3, <1>4 DEF IInv

LEMMA StepInv == IInv /\ [Next]_vars => IInv'
  <1> SUFFICES ASSUME IInv, [Next]_vars PROVE IInv'
    OBVIOUS
  <1>1. CASE UNCHANGED vars
    <2>1. Ring'
      BY <1>1, RingFrame DEF IInv, vars, shared, history
    <2> QED BY <1>1, <2>1 DEF IInv, vars, shared, history, TypeOK, WriterInv, ReaderInv,
           Numbered, Newer, Wrapped, Bytes
  <1>2. CASE \E n \in Lens : PushCall(n)
    BY <1>2, PushCallKeeps
  <1>3. CASE PushStep
    BY <1>3, PushAheadKeeps, PushAlignKeeps, PushFrontKeeps, PushWrapKeeps, PushBehindKeeps,
       PushRoomKeeps, PushHeaderKeeps, PushDataKeeps, PushPublishKeeps DEF PushStep
  <1>4. CASE ReadStep
    BY <1>4, GetAheadKeeps, GetFitsKeeps, GetBehindKeeps, GetKindKeeps, GetRewindKeeps,
       PopKeeps DEF ReadStep
  <1> QED BY <1>1, <1>2, <1>3, <1>4 DEF Next

\* Every step of either process, whatever the other is in the middle of, keeps
\* the layout of the ring: unread blocks are whole, disjoint, in order, and
\* chained from tail to head (mq_push, mq_get, mq_pop).
THEOREM QueueInvariant == Spec => []IInv
  <1>1. Init => IInv
    BY InitInv
  <1>2. IInv /\ [Next]_vars => IInv'
    BY StepInv
  <1> QED BY <1>1, <1>2, PTL DEF Spec

\* The indices never leave the mapping (mq_push, mq_get, mq_pop).
THEOREM QueueTyped == Spec => []TypeOK
  <1>1. IInv => TypeOK
    BY DEF IInv
  <1> QED BY <1>1, QueueInvariant, PTL

\* mq_push never writes over a block that is still to be popped.
THEOREM QueueWritesFreeBytes == Spec => []WritesFreeBytes
  <1>1. IInv => WritesFreeBytes
    <2> SUFFICES ASSUME IInv, ppc \in {"header", "data", "publish"}
                 PROVE  /\ Bytes(head, blk.len) \subseteq Offsets
                        /\ \A i \in 1..Len(chan) :
                             Bytes(head, blk.len) \cap Bytes(chan[i].off, chan[i].len) = {}
      BY DEF WritesFreeBytes
    <2>1. /\ TypeOK /\ blk.len \in Nat
          /\ head + blk.len < QLen /\ (Wrapped => head + blk.len < tail)
      BY QueueAssumption DEF IInv, WriterInv
    <2>2. Bytes(head, blk.len) \subseteq Offsets
      BY <2>1, IndexFacts DEF Bytes, Offsets
    <2>3. Wrapped => head + blk.len <= tail
      BY <2>1, IndexFacts
    <2> QED BY <2>1, <2>2, <2>3, FreeAhead
  <1> QED BY <1>1, QueueInvariant, PTL

-----------------------------------------------------------------------------
\* The ring implements the channel.

IdsOf(s) == [i \in 1..Len(s) |-> s[i].id]
Blocks == [id : Ids, len : Lens, off : Offsets]

LEMMA IdsOfSeq ==
  ASSUME NEW s \in Seq(Blocks)
  PROVE  /\ IdsOf(s) \in Seq(Ids)
         /\ Len(IdsOf(s)) = Len(s)
         /\ \A i \in 1..Len(s) : IdsOf(s)[i] = s[i].id
  <1>1. Len(s) \in Nat
    BY LenProperties
  <1>2. \A i \in 1..Len(s) : s[i].id \in Ids
    <2> TAKE i \in 1..Len(s)
    <2>1. s[i] \in Blocks
      BY ElementOfSeq
    <2> QED BY <2>1 DEF Blocks
  <1>3. IdsOf(s) \in [1..Len(s) -> Ids]
    BY <1>2 DEF IdsOf
  <1>4. IdsOf(s) \in Seq(Ids)
    BY <1>1, <1>3, SeqDef
  <1>5. Len(IdsOf(s)) = Len(s)
    <2>1. DOMAIN IdsOf(s) = 1..Len(s) /\ DOMAIN IdsOf(s) = 1..Len(IdsOf(s))
      BY <1>3, <1>4, LenProperties
    <2>2. Len(IdsOf(s)) \in Nat
      BY <1>4, LenProperties
    <2> QED BY <1>1, <2>1, <2>2
  <1> QED BY <1>4, <1>5 DEF IdsOf

\* Publishing a block puts its id at the end of the channel.
LEMMA AppendIds ==
  ASSUME NEW s \in Seq(Blocks), NEW b \in Blocks
  PROVE  IdsOf(Append(s, b)) = Append(IdsOf(s), b.id)
  <1> DEFINE t == Append(s, b)
             u == Append(IdsOf(s), b.id)
  <1>1. /\ t \in Seq(Blocks) /\ Len(t) = Len(s) + 1 /\ Len(s) \in Nat
        /\ \A i \in 1..Len(s) : t[i] = s[i]
        /\ t[Len(s) + 1] = b
    BY AppendProperties, LenProperties
  <1>2. b.id \in Ids
    BY DEF Blocks
  <1>3. /\ u \in Seq(Ids) /\ Len(u) = Len(s) + 1
        /\ \A i \in 1..Len(s) : u[i] = s[i].id
        /\ u[Len(s) + 1] = b.id
    BY <1>2, IdsOfSeq, AppendProperties
  <1>4. /\ IdsOf(t) \in Seq(Ids) /\ Len(IdsOf(t)) = Len(s) + 1
        /\ \A i \in 1..(Len(s) + 1) : IdsOf(t)[i] = t[i].id
    BY <1>1, IdsOfSeq
  <1> HIDE DEF t, u
  <1>5. ASSUME NEW i \in 1..(Len(s) + 1)
        PROVE  IdsOf(t)[i] = u[i]
    <2>1. i \in 1..Len(s) \/ i = Len(s) + 1
      BY <1>1
    <2> QED BY <2>1, <1>1, <1>3, <1>4
  <1>6. IdsOf(t) = u
    BY <1>3, <1>4, <1>5, SeqEqual
  <1> QED BY <1>6 DEF t, u

\* Popping takes the first id off the channel.
LEMMA TailIds ==
  ASSUME NEW s \in Seq(Blocks), s # <<>>
  PROVE  /\ IdsOf(s) # <<>>
         /\ Head(IdsOf(s)) = s[1].id
         /\ IdsOf(Tail(s)) = Tail(IdsOf(s))
  <1>1. Len(s) \in Nat /\ Len(s) >= 1 /\ 1 \in 1..Len(s)
    BY EmptySeq, LenProperties
  <1>2. Len(<<>>) = 0
    BY EmptySeq
  <1>3. IdsOf(s) # <<>>
    BY <1>1, <1>2, IdsOfSeq
  <1>4. Head(IdsOf(s)) = s[1].id
    BY <1>1, <1>3, IdsOfSeq
  <1>5. /\ Tail(s) \in Seq(Blocks) /\ Len(Tail(s)) = Len(s) - 1
        /\ \A i \in 1..(Len(s) - 1) : Tail(s)[i] = s[i + 1]
    BY HeadTailProperties
  <1>6. /\ Tail(IdsOf(s)) \in Seq(Ids) /\ Len(Tail(IdsOf(s))) = Len(s) - 1
        /\ \A i \in 1..(Len(s) - 1) : Tail(IdsOf(s))[i] = IdsOf(s)[i + 1]
    BY <1>3, IdsOfSeq, HeadTailProperties
  <1>7. /\ IdsOf(Tail(s)) \in Seq(Ids) /\ Len(IdsOf(Tail(s))) = Len(s) - 1
        /\ \A i \in 1..(Len(s) - 1) : IdsOf(Tail(s))[i] = Tail(s)[i].id
    BY <1>5, IdsOfSeq
  <1>8. ASSUME NEW i \in 1..(Len(s) - 1)
        PROVE  IdsOf(Tail(s))[i] = Tail(IdsOf(s))[i]
    <2>1. i + 1 \in 1..Len(s)
      BY <1>1
    <2> QED BY <2>1, <1>5, <1>6, <1>7, IdsOfSeq
  <1>9. IdsOf(Tail(s)) = Tail(IdsOf(s))
    BY <1>6, <1>7, <1>8, SeqEqual
  <1> QED BY <1>3, <1>4, <1>9

LEMMA PublishPuts ==
  ASSUME IInv, PushPublish
  PROVE  Channel!Put(blk.id)
  <1>1. /\ TypeOK /\ Numbered
        /\ blk.id = calls /\ blk.id \in Ids /\ blk.len \in Lens /\ head \in Offsets
        /\ ppc # "idle"
    BY QueueAssumption DEF IInv, TypeOK, WriterInv, PushPublish, Ids
  <1> PICK new : new = [id |-> blk.id, len |-> blk.len, off |-> head]
    OBVIOUS
  <1>2. new \in Blocks /\ new.id = blk.id /\ chan \in Seq(Blocks) /\ chan' = Append(chan, new)
    BY <1>1 DEF Blocks, PushPublish, TypeOK
  <1>3. IdsOf(chan') = Append(IdsOf(chan), blk.id)
    BY <1>2, AppendIds
  <1>4. \A i \in 1..Len(IdsOf(chan)) : IdsOf(chan)[i] < blk.id
    BY <1>1, <1>2, IdsOfSeq DEF Numbered, Newer
  <1>5. \A i \in 1..Len(delivered) : delivered[i] < blk.id
    BY <1>1 DEF Numbered, Newer
  <1>6. delivered' = delivered
    BY DEF PushPublish
  <1> QED BY <1>3, <1>4, <1>5, <1>6 DEF Channel!Put, Channel!Newest, IdsOf

LEMMA PopTakes ==
  ASSUME IInv, Pop
  PROVE  Channel!Take
  <1>1. /\ TypeOK /\ UnreadIntact /\ chan # <<>> /\ chan[1].off = tail
        /\ chan' = Tail(chan) /\ delivered' = Append(delivered, mem[tail].id)
    BY DEF IInv, Ring, ReaderInv, Pop
  <1>2. chan \in Seq(Blocks)
    BY <1>1 DEF TypeOK, Blocks
  <1>3. mem[tail].id = chan[1].id
    <2>1. 1 \in 1..Len(chan)
      BY <1>1, <1>2, EmptySeq
    <2>2. mem[chan[1].off] = Hdr(chan[1])
      BY <1>1, <2>1, HeaderInPlace
    <2> QED BY <1>1, <2>2 DEF Hdr, Data
  <1> QED BY <1>1, <1>2, <1>3, TailIds DEF Channel!Take, IdsOf

\* The shared memory between master and work behaves as a channel: what
\* mq_get hands out is what mq_push was given, in order, each block once.
THEOREM QueueImplementsChannel == Spec => ImplementsChannel
  <1>1. Init => Channel!Init
    <2> SUFFICES ASSUME Init PROVE Channel!Init
      OBVIOUS
    <2>1. <<>> \in Seq(Blocks) /\ chan = <<>> /\ Len(<<>>) = 0
      BY EmptySeq DEF Init
    <2>2. IdsOf(chan) \in Seq(Ids) /\ Len(IdsOf(chan)) = 0
      BY <2>1, IdsOfSeq
    <2>3. IdsOf(chan) = <<>>
      BY <2>2, EmptySeq
    <2> QED BY <2>3 DEF Channel!Init, IdsOf, Init
  <1>2. IInv /\ [Next]_vars => [Channel!Next]_(Channel!chvars)
    <2> SUFFICES ASSUME IInv, [Next]_vars
                 PROVE  Channel!Next \/ UNCHANGED Channel!chvars
      OBVIOUS
    <2>1. CASE PushPublish
      <3>1. blk.id \in Ids
        BY <2>1, QueueAssumption DEF IInv, TypeOK, WriterInv, PushPublish, Ids
      <3>2. Channel!Put(blk.id)
        BY <2>1, PublishPuts
      <3> QED BY <3>1, <3>2 DEF Channel!Next, Channel!Put, Channel!Newest
    <2>2. CASE Pop
      BY <2>2, PopTakes DEF Channel!Next
    <2>3. CASE UNCHANGED <<chan, delivered>>
      BY <2>3 DEF Channel!chvars
    <2>4. CASE \E n \in Lens : PushCall(n)
      BY <2>3, <2>4 DEF PushCall, history
    <2>5. CASE PushStep
      BY <2>1, <2>3, <2>5 DEF PushStep, PushAhead, PushAlign, PushFront, PushWrap, PushBehind,
         PushRoom, PushHeader, PushData, history
    <2>6. CASE ReadStep
      BY <2>2, <2>3, <2>6 DEF ReadStep, GetAhead, GetFits, GetBehind, GetKind, GetRewind, history
    <2>7. CASE UNCHANGED vars
      BY <2>3, <2>7 DEF vars, history
    <2> QED BY <2>4, <2>5, <2>6, <2>7 DEF Next
  <1> QED BY <1>1, <1>2, QueueInvariant, PTL DEF Spec, ImplementsChannel, Channel!Spec
=============================================================================
