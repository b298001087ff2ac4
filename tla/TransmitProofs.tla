-------------------------- MODULE TransmitProofs --------------------------
(***************************************************************************)
(* Proofs about what one connection sends, for every size of the buffer    *)
(* and the socket, every set of message lengths and every number of them.  *)
(***************************************************************************)
EXTENDS TransmitInv, SequenceTheorems, TLAPS

-----------------------------------------------------------------------------
\* The operators on what is sent.

LEMMA BytesFacts ==
  ASSUME TypeOK, NEW n \in Nat
  PROVE  /\ Bytes(n) \in Seq(Nat) /\ Len(Bytes(n)) = n
         /\ \A i \in 1..n : Bytes(n)[i] = asked + i - 1
  <1>1. asked \in Nat
    BY DEF TypeOK
  <1>2. Bytes(n) \in [1..n -> Nat]
    BY <1>1 DEF Bytes
  <1>3. Bytes(n) \in Seq(Nat)
    BY <1>2, SeqDef
  <1>4. Len(Bytes(n)) = n
    BY <1>2, <1>3, LenProperties
  <1> QED BY <1>3, <1>4 DEF Bytes

\* A sequence is what goes out followed by what is left.
LEMMA SplitFacts ==
  ASSUME NEW s \in Seq(Nat), NEW n \in Nat
  PROVE  /\ First(s, n) \in Seq(Nat) /\ Behind(s, n) \in Seq(Nat)
         /\ Len(First(s, n)) = (IF n < Len(s) THEN n ELSE Len(s))
         /\ Len(Behind(s, n)) = (IF n < Len(s) THEN Len(s) - n ELSE 0)
         /\ First(s, n) \o Behind(s, n) = s
         /\ \A i \in 1..Len(First(s, n)) : First(s, n)[i] = s[i]
  <1>1. Len(s) \in Nat /\ \A i \in 1..Len(s) : s[i] \in Nat
    BY LenProperties, ElementOfSeq
  <1>2. CASE n < Len(s)
    <2>1. /\ First(s, n) = SubSeq(s, 1, n)
          /\ \A i \in 1..n : s[i] \in Nat
      BY <1>1, <1>2 DEF First
    <2>2. /\ First(s, n) \in Seq(Nat) /\ Len(First(s, n)) = n
          /\ \A i \in 1..n : First(s, n)[i] = s[i]
      <3>1. 1 \in Int /\ n \in Int
        OBVIOUS
      <3>2. /\ SubSeq(s, 1, n) \in Seq(Nat)
            /\ Len(SubSeq(s, 1, n)) = IF 1 <= n THEN n - 1 + 1 ELSE 0
            /\ \A i \in 1..(n - 1 + 1) : SubSeq(s, 1, n)[i] = s[1 + i - 1]
        BY <2>1, <3>1, SubSeqProperties
      <3> QED BY <2>1, <3>2
    <2>3. /\ Behind(s, n) \in Seq(Nat) /\ Len(Behind(s, n)) = Len(s) - n
      <3>1. n + 1 \in Int /\ Len(s) \in Int /\ \A i \in (n + 1)..Len(s) : s[i] \in Nat
        BY <1>1
      <3>2. /\ SubSeq(s, n + 1, Len(s)) \in Seq(Nat)
            /\ Len(SubSeq(s, n + 1, Len(s))) =
                 IF n + 1 <= Len(s) THEN Len(s) - (n + 1) + 1 ELSE 0
        BY <3>1, SubSeqProperties
      <3> QED BY <3>2, <1>1, <1>2 DEF Behind
    <2>4. First(s, n) \o Behind(s, n) = s
      <3>1. 1 \in 1..(Len(s) + 1) /\ n \in (1 - 1)..Len(s) /\ Len(s) \in n..Len(s)
        BY <1>1, <1>2
      <3>2. SubSeq(s, 1, n) \o SubSeq(s, n + 1, Len(s)) = SubSeq(s, 1, Len(s))
        BY <3>1, ConcatAdjacentSubSeq
      <3> QED BY <3>2, <2>1, SubSeqFull DEF Behind
    <2> QED BY <1>2, <2>2, <2>3, <2>4
  <1>3. CASE ~(n < Len(s))
    <2>1. First(s, n) = s
      BY <1>3 DEF First
    <2>2. Behind(s, n) = <<>>
      BY <1>1, <1>3, SubSeqEmpty DEF Behind
    <2> QED BY <1>1, <1>3, <2>1, <2>2, EmptySeq, ConcatEmptySeq
  <1> QED BY <1>2, <1>3

LEMMA Associative ==
  \A s, t, u \in Seq(Nat) : (s \o t) \o u = s \o (t \o u)
  BY ConcatAssociative

\* More behind a sequence takes nothing from it.
LEMMA HoldsConcat ==
  ASSUME NEW s \in Seq(Nat), NEW t \in Seq(Nat), NEW b
  PROVE  Holds(s \o t, b) <=> Holds(s, b) \/ Holds(t, b)
  <1>1. Len(s) \in Nat /\ Len(t) \in Nat
    BY LenProperties
  <1>2. /\ Len(s \o t) = Len(s) + Len(t)
        /\ \A i \in 1..(Len(s) + Len(t)) :
             (s \o t)[i] = IF i <= Len(s) THEN s[i] ELSE t[i - Len(s)]
    BY ConcatProperties
  <1>3. Holds(s, b) => Holds(s \o t, b)
    BY <1>1, <1>2 DEF Holds
  <1>4. ASSUME NEW i \in 1..Len(t), t[i] = b
        PROVE  Holds(s \o t, b)
    <2>1. Len(s) + i \in 1..(Len(s) + Len(t)) /\ ~(Len(s) + i <= Len(s))
          /\ Len(s) + i - Len(s) = i
      BY <1>1
    <2>2. (s \o t)[Len(s) + i] = b
      BY <1>2, <1>4, <2>1
    <2> QED BY <2>1, <2>2, <1>2 DEF Holds
  <1>5. ASSUME NEW i \in 1..Len(s \o t), (s \o t)[i] = b
        PROVE  Holds(s, b) \/ Holds(t, b)
    <2>1. CASE i <= Len(s)
      BY <1>1, <1>2, <1>5, <2>1 DEF Holds
    <2>2. CASE ~(i <= Len(s))
      <3>1. i - Len(s) \in 1..Len(t) /\ t[i - Len(s)] = b
        BY <1>1, <1>2, <1>5, <2>2
      <3> QED BY <3>1 DEF Holds
    <2> QED BY <2>1, <2>2
  <1> QED BY <1>3, <1>4, <1>5 DEF Holds

\* What precedes in an increasing sequence is increasing.
LEMMA IncreasingPrefix ==
  ASSUME NEW s \in Seq(Nat), NEW t \in Seq(Nat), Increasing(s \o t)
  PROVE  Increasing(s)
  <1>1. Len(s) \in Nat /\ Len(t) \in Nat
    BY LenProperties
  <1>2. /\ Len(s \o t) = Len(s) + Len(t)
        /\ \A i \in 1..(Len(s) + Len(t)) :
             (s \o t)[i] = IF i <= Len(s) THEN s[i] ELSE t[i - Len(s)]
    BY ConcatProperties
  <1> SUFFICES ASSUME NEW i \in 1..(Len(s) - 1) PROVE s[i] < s[i + 1]
    BY DEF Increasing
  <1>3. i \in 1..(Len(s \o t) - 1) /\ (s \o t)[i] = s[i] /\ (s \o t)[i + 1] = s[i + 1]
    BY <1>1, <1>2
  <1> QED BY <1>3 DEF Increasing

\* The bytes of a new message are those asked for, they come after all before
\* them, and in order.
LEMMA NewBytes ==
  ASSUME TypeOK, NEW s \in Seq(Nat), NEW n \in Nat
  PROVE  /\ s \o Bytes(n) \in Seq(Nat)
         /\ \A b \in asked..(asked + n - 1) : Holds(s \o Bytes(n), b)
         /\ (\A i \in 1..Len(s) : s[i] < asked) =>
              /\ \A i \in 1..Len(s \o Bytes(n)) : (s \o Bytes(n))[i] < asked + n
              /\ Increasing(s) => Increasing(s \o Bytes(n))
  <1> DEFINE u == s \o Bytes(n)
  <1>1. Len(s) \in Nat /\ asked \in Nat /\ \A i \in 1..Len(s) : s[i] \in Nat
    BY LenProperties, ElementOfSeq DEF TypeOK
  <1>2. /\ u \in Seq(Nat) /\ Len(u) = Len(s) + n
        /\ \A i \in 1..(Len(s) + n) :
             u[i] = IF i <= Len(s) THEN s[i] ELSE Bytes(n)[i - Len(s)]
    <2>1. Bytes(n) \in Seq(Nat) /\ Len(Bytes(n)) = n
      BY BytesFacts
    <2>2. /\ u \in Seq(Nat) /\ Len(u) = Len(s) + Len(Bytes(n))
          /\ \A i \in 1..(Len(s) + Len(Bytes(n))) :
               u[i] = IF i <= Len(s) THEN s[i] ELSE Bytes(n)[i - Len(s)]
      BY <2>1, ConcatProperties
    <2> QED BY <2>1, <2>2
  <1>3. \A i \in 1..(Len(s) + n) :
          u[i] = IF i <= Len(s) THEN s[i] ELSE asked + (i - Len(s)) - 1
    <2> SUFFICES ASSUME NEW i \in 1..(Len(s) + n), ~(i <= Len(s))
                 PROVE  Bytes(n)[i - Len(s)] = asked + (i - Len(s)) - 1
      BY <1>2
    <2>1. i - Len(s) \in 1..n
      BY <1>1
    <2> QED BY <2>1, BytesFacts
  <1>4. ASSUME NEW b \in asked..(asked + n - 1)
        PROVE  Holds(u, b)
    <2>1. b - asked + 1 \in 1..n /\ Bytes(n)[b - asked + 1] = b
      <3>1. b - asked + 1 \in 1..n /\ asked + (b - asked + 1) - 1 = b
        BY <1>1
      <3>2. \A i \in 1..n : Bytes(n)[i] = asked + i - 1
        BY BytesFacts
      <3> QED BY <3>1, <3>2
    <2>2. Holds(Bytes(n), b)
      BY <2>1, BytesFacts DEF Holds
    <2> QED BY <2>2, BytesFacts, HoldsConcat
  <1>5. ASSUME \A i \in 1..Len(s) : s[i] < asked
        PROVE  /\ \A i \in 1..Len(u) : u[i] < asked + n
               /\ Increasing(s) => Increasing(u)
    <2> HIDE DEF u
    <2>1. ASSUME NEW i \in 1..Len(u)
          PROVE  u[i] < asked + n
      <3>1. i \in 1..(Len(s) + n)
        BY <1>2
      <3>2. CASE i <= Len(s)
        BY <1>1, <1>3, <1>5, <3>1, <3>2
      <3>3. CASE ~(i <= Len(s))
        <4>1. u[i] = asked + (i - Len(s)) - 1
          BY <1>3, <3>1, <3>3
        <4> QED BY <1>1, <3>1, <4>1
      <3> QED BY <3>2, <3>3
    <2>2. ASSUME Increasing(s), NEW i \in 1..(Len(u) - 1)
          PROVE  u[i] < u[i + 1]
      <3>1. i \in 1..(Len(s) + n) /\ i + 1 \in 1..(Len(s) + n)
        BY <1>1, <1>2
      <3>2. CASE i < Len(s)
        BY <1>1, <1>3, <2>2, <3>1, <3>2 DEF Increasing
      <3>3. CASE i = Len(s)
        BY <1>1, <1>3, <1>5, <3>1, <3>3
      <3>4. CASE i > Len(s)
        <4>1. ~(i <= Len(s)) /\ ~(i + 1 <= Len(s))
          BY <1>1, <3>1, <3>4
        <4>2. u[i] = asked + (i - Len(s)) - 1 /\ u[i + 1] = asked + (i + 1 - Len(s)) - 1
          BY <1>3, <3>1, <4>1
        <4> QED BY <1>1, <3>1, <4>2
      <3> QED BY <1>1, <3>1, <3>2, <3>3, <3>4
    <2> QED BY <2>1, <2>2 DEF Increasing
  <1> QED BY <1>2, <1>4, <1>5 DEF u

-----------------------------------------------------------------------------
\* The buffer.

\* What is stored fits into what is allocated.
LEMMA StoreFacts ==
  ASSUME TypeOK, NEW kept \in Seq(Nat), NEW left \in Seq(Nat), Store(kept, left)
  PROVE  /\ sbf' = kept \o left /\ sbf' \in Seq(Nat)
         /\ alloc' \in Nat /\ size' \in Nat
         /\ Len(sbf') <= alloc' /\ size' <= alloc'
         /\ alloc > 0 => alloc' > 0
  <1> DEFINE n == Len(kept) + Len(left)
  <1>1. Len(kept) \in Nat /\ Len(left) \in Nat /\ alloc \in Nat /\ size \in Nat /\ size <= alloc
    BY LenProperties DEF TypeOK
  <1>2. sbf' = kept \o left /\ kept \o left \in Seq(Nat) /\ Len(kept \o left) = n
    BY ConcatProperties DEF Store
  <1>3. CASE size < n
    <2>1. alloc' = n /\ size' = n
      BY <1>3 DEF Store, MustGrow
    <2> QED BY <1>1, <1>2, <1>3, <2>1
  <1>4. CASE ~(size < n)
    <2>1. alloc' = alloc /\ size' = size
      BY <1>4 DEF Store, MustGrow
    <2> QED BY <1>1, <1>2, <1>4, <2>1
  <1> QED BY <1>3, <1>4

\* What do_fd_write leaves of the buffer and puts on the wire: nothing is lost,
\* and nothing is sent twice unless the buffer was written to its last byte.
LEMMA WriteFacts ==
  ASSUME TypeOK, OnlyAsked
  PROVE  LET kept == AfterWrite(sbf)
             out  == wire \o First(sbf, room)
         IN  /\ kept \in Seq(Nat) /\ Len(kept) <= Len(sbf)
             /\ out \in Seq(Nat) /\ out \o kept \in Seq(Nat)
             /\ \A i \in 1..Len(out \o kept) : (out \o kept)[i] < asked
             /\ \A b : Holds(Stream, b) => Holds(out \o kept, b)
             /\ ~(Len(sbf) <= room) => out \o kept = Stream
  <1> DEFINE kept == AfterWrite(sbf)
             out  == wire \o First(sbf, room)
             rest == Behind(sbf, room)
  <1>1. /\ wire \in Seq(Nat) /\ sbf \in Seq(Nat) /\ room \in Nat
        /\ Len(sbf) \in Nat /\ asked \in Nat
    BY LenProperties DEF TypeOK
  <1>2. /\ First(sbf, room) \in Seq(Nat) /\ rest \in Seq(Nat) /\ Len(rest) <= Len(sbf)
        /\ First(sbf, room) \o rest = sbf
    BY <1>1, SplitFacts
  <1>3. out \in Seq(Nat)
    BY <1>1, <1>2, ConcatProperties
  <1>4. CASE ~(Len(sbf) <= room)
    <2>1. kept = rest
      BY <1>4 DEF AfterWrite
    <2>2. out \o kept = Stream
      <3>1. (wire \o First(sbf, room)) \o rest = wire \o (First(sbf, room) \o rest)
        BY <1>1, <1>2, Associative
      <3> QED BY <1>2, <2>1, <3>1 DEF Stream
    <2> QED BY <1>1, <1>2, <1>3, <1>4, <2>1, <2>2, ConcatProperties DEF OnlyAsked
  <1>5. CASE Len(sbf) <= room
    <2>1. kept = sbf /\ First(sbf, room) = sbf /\ out = Stream
      BY <1>1, <1>5 DEF AfterWrite, First, Stream
    <2>2. Stream \in Seq(Nat) /\ Stream \o sbf \in Seq(Nat)
      BY <1>1, ConcatProperties DEF Stream
    <2>3. \A b : Holds(Stream, b) => Holds(Stream \o sbf, b)
      BY <1>1, <2>2, HoldsConcat
    <2>4. ASSUME NEW i \in 1..Len(Stream \o sbf)
          PROVE  (Stream \o sbf)[i] < asked
      <3>1. Holds(Stream \o sbf, (Stream \o sbf)[i])
        BY DEF Holds
      <3>2. Holds(Stream, (Stream \o sbf)[i])
        BY <1>1, <2>2, <3>1, HoldsConcat DEF Stream
      <3> QED BY <3>2 DEF Holds, OnlyAsked
    <2> QED BY <1>1, <1>3, <1>5, <2>1, <2>2, <2>3, <2>4
  <1> QED BY <1>4, <1>5

\* What precedes in a stream of which it holds.
LEMMA OnlyAskedPrefix ==
  ASSUME NEW s \in Seq(Nat), NEW t \in Seq(Nat), NEW n,
         \A i \in 1..Len(s \o t) : (s \o t)[i] < n
  PROVE  \A i \in 1..Len(s) : s[i] < n
  <1> SUFFICES ASSUME NEW i \in 1..Len(s) PROVE s[i] < n
    OBVIOUS
  <1>1. Holds(s \o t, s[i])
    BY HoldsConcat DEF Holds
  <1> QED BY <1>1 DEF Holds

\* A step that brings n bytes: the stream goes on as s does, which has what the
\* stream had, but for t, which is dropped or goes with the connection.
LEMMA StreamStep ==
  ASSUME IInv, NEW s \in Seq(Nat), NEW t \in Seq(Nat), NEW n \in Nat,
         Stream' \in Seq(Nat), Stream' \o t = s \o Bytes(n), asked' = asked + n,
         \A i \in 1..Len(s) : s[i] < asked,
         \A b : Holds(Stream, b) => Holds(s, b),
         ~whole' => Increasing(s),
         open' => open /\ \A b : Holds(t, b) => b \in lost',
         lost \subseteq lost'
  PROVE  StreamIsWhole' /\ OnlyAsked'
  <1> DEFINE u == s \o Bytes(n)
  <1>1. asked \in Nat /\ TypeOK
    BY DEF IInv, TypeOK
  <1>2. /\ u \in Seq(Nat)
        /\ \A b \in asked..(asked + n - 1) : Holds(u, b)
        /\ \A i \in 1..Len(u) : u[i] < asked + n
        /\ Increasing(s) => Increasing(u)
    BY <1>1, NewBytes
  <1>3. OnlyAsked'
    <2>1. \A i \in 1..Len(Stream') : Stream'[i] < asked + n
      BY <1>2, OnlyAskedPrefix
    <2> QED BY <2>1 DEF OnlyAsked
  <1>4. ASSUME ~whole'
        PROVE  Increasing(Stream)'
    <2>1. Increasing(Stream' \o t)
      BY <1>2, <1>4
    <2>2. \A i \in 1..(Len(Stream') - 1) : Stream'[i] < Stream'[i + 1]
      BY <2>1, IncreasingPrefix DEF Increasing
    <2> QED BY <2>2 DEF Increasing
  <1>5. ASSUME open', NEW b \in 0..(asked' - 1)
        PROVE  b \in lost' \/ Holds(Stream, b)'
    <2>1. b \in lost \/ Holds(u, b)
      <3>1. CASE b < asked
        <4>1. b \in 0..(asked - 1)
          BY <1>1, <3>1
        <4>2. b \in lost \/ Holds(s, b)
          BY <1>5, <4>1 DEF IInv, StreamIsWhole
        <4> QED BY <1>1, <4>2, BytesFacts, HoldsConcat
      <3>2. CASE ~(b < asked)
        BY <1>1, <1>2, <3>2
      <3> QED BY <3>1, <3>2
    <2>2. ASSUME Holds(Stream' \o t, b), b \notin lost'
          PROVE  \E i \in 1..Len(Stream') : Stream'[i] = b
      <3>1. ~Holds(t, b)
        BY <1>5, <2>2
      <3>2. Holds(Stream', b)
        BY <2>2, <3>1, HoldsConcat
      <3> QED BY <3>2 DEF Holds
    <2> QED BY <2>1, <2>2 DEF Holds
  <1> QED BY <1>3, <1>4, <1>5 DEF StreamIsWhole

\* A step that leaves the stream alone.
LEMMA StreamFrame ==
  ASSUME IInv, UNCHANGED <<asked, wire, sbf, open, lost, whole, alloc>>
  PROVE  BufferIsBounded' /\ StreamIsWhole' /\ KeepsBuffer' /\ OnlyAsked'
  BY DEF IInv, BufferIsBounded, StreamIsWhole, KeepsBuffer, OnlyAsked, Stream, Holds, Increasing

LEMMA StreamFacts ==
  ASSUME IInv
  PROVE  /\ Stream \in Seq(Nat) /\ wire \in Seq(Nat) /\ sbf \in Seq(Nat)
         /\ asked \in Nat /\ room \in Nat /\ alloc \in Nat /\ size \in Nat
         /\ \A i \in 1..Len(Stream) : Stream[i] < asked
         /\ ~whole => Increasing(Stream)
         /\ sbf = <<>> => Stream = wire
         /\ alloc = 0 => sbf = <<>> /\ size = 0
         /\ Bytes(0) = <<>>
  <1>1. /\ wire \in Seq(Nat) /\ sbf \in Seq(Nat) /\ asked \in Nat /\ room \in Nat
        /\ alloc \in Nat /\ size \in Nat /\ Len(sbf) <= alloc /\ size <= alloc /\ TypeOK
    BY DEF IInv, TypeOK
  <1>2. Stream \in Seq(Nat)
    BY <1>1, ConcatProperties DEF Stream
  <1>3. sbf = <<>> => Stream = wire
    BY <1>1, ConcatEmptySeq DEF Stream
  <1>4. alloc = 0 => sbf = <<>>
    <2>1. sbf # <<>> => Len(sbf) \in Nat \ {0}
      BY <1>1, EmptySeq
    <2> QED BY <1>1, <2>1
  <1>5. Bytes(0) = <<>>
    BY <1>1, BytesFacts, EmptySeq
  <1> QED
    BY <1>1, <1>2, <1>3, <1>4, <1>5 DEF IInv, StreamIsWhole, OnlyAsked

-----------------------------------------------------------------------------
\* do_fd_send

LEMMA CallFacts ==
  ASSUME IInv, NEW n \in Lens, Call(n)
  PROVE  /\ n \in Nat /\ n > 0 /\ open
         /\ sends' \in 0..MaxSends /\ asked' = asked + n /\ asked' \in Nat
         /\ UNCHANGED <<unread, inputs, reset>>
  BY TransmitAssumption DEF IInv, TypeOK, Call, peer

\* The connection is gone, and with it the buffer and t.
LEMMA CloseKeeps ==
  ASSUME IInv, Close, NEW s \in Seq(Nat), NEW t \in Seq(Nat), NEW n \in Nat,
         wire' \in Seq(Nat), wire' \o t = s \o Bytes(n), asked' = asked + n,
         \A i \in 1..Len(s) : s[i] < asked,
         \A b : Holds(Stream, b) => Holds(s, b),
         ~whole' => Increasing(s),
         lost \subseteq lost'
  PROVE  /\ BufferIsBounded' /\ StreamIsWhole' /\ KeepsBuffer' /\ OnlyAsked'
         /\ sbf' \in Seq(Nat) /\ Len(sbf') <= alloc' /\ size' <= alloc'
         /\ alloc' \in Nat /\ size' \in Nat
         /\ interest' \in {"in", "inout"} /\ open' \in BOOLEAN /\ woken' \in BOOLEAN
  <1>1. /\ sbf' = <<>> /\ alloc' = 0 /\ size' = 0 /\ interest' = "in" /\ open' = FALSE
        /\ woken' = FALSE
    BY DEF Close
  <1>2. sbf' \in Seq(Nat) /\ Len(sbf') = 0
    BY <1>1, EmptySeq
  <1>3. BufferIsBounded'
    BY <1>2, TransmitAssumption DEF BufferIsBounded
  <1>4. KeepsBuffer'
    BY <1>1 DEF KeepsBuffer
  <1>5. Stream' = wire'
    BY <1>1, ConcatEmptySeq DEF Stream
  <1>6. StreamIsWhole' /\ OnlyAsked'
    <2>1. Stream' \in Seq(Nat) /\ Stream' \o t = s \o Bytes(n) /\ ~open'
      BY <1>1, <1>5
    <2> QED BY <2>1, StreamStep
  <1>7. interest' \in {"in", "inout"} /\ open' \in BOOLEAN /\ woken' \in BOOLEAN
    BY <1>1
  <1>8. Len(sbf') <= alloc' /\ size' <= alloc' /\ alloc' \in Nat /\ size' \in Nat
    <2>1. Len(sbf') = 0 /\ alloc' = 0 /\ size' = 0
      BY <1>1, <1>2
    <2> QED BY <2>1
  <1> QED BY <1>2, <1>3, <1>4, <1>6, <1>7, <1>8

LEMMA SendFailsKeeps ==
  ASSUME IInv, NEW n \in Lens, SendFails(n)
  PROVE  IInv'
  <1>1. Call(n) /\ Close /\ UNCHANGED <<wire, room, starved, lost, whole, missed>>
    BY DEF SendFails, history
  <1>2. n \in Nat /\ Bytes(n) \in Seq(Nat) /\ TypeOK
    BY <1>1, CallFacts, BytesFacts DEF IInv
  <1>3. sbf \o Bytes(n) \in Seq(Nat) /\ wire' \o (sbf \o Bytes(n)) = Stream \o Bytes(n)
    BY <1>1, <1>2, StreamFacts, Associative, ConcatProperties DEF Stream
  <1>4. /\ BufferIsBounded' /\ StreamIsWhole' /\ KeepsBuffer' /\ OnlyAsked'
        /\ sbf' \in Seq(Nat) /\ Len(sbf') <= alloc' /\ size' <= alloc'
        /\ alloc' \in Nat /\ size' \in Nat
        /\ interest' \in {"in", "inout"} /\ open' \in BOOLEAN /\ woken' \in BOOLEAN
    <2> DEFINE t == sbf \o Bytes(n)
    <2>1. /\ Stream \in Seq(Nat) /\ wire' \in Seq(Nat) /\ asked' = asked + n
          /\ \A i \in 1..Len(Stream) : Stream[i] < asked
          /\ ~whole' => Increasing(Stream)
          /\ lost \subseteq lost'
      BY <1>1, CallFacts, StreamFacts
    <2>2. t \in Seq(Nat) /\ wire' \o t = Stream \o Bytes(n)
      BY <1>3
    <2> HIDE DEF t
    <2> QED BY <1>1, <1>2, <2>1, <2>2, CloseKeeps
  <1>5. TypeOK'
    BY <1>1, <1>4, CallFacts DEF IInv, TypeOK
  <1> QED BY <1>4, <1>5 DEF IInv

LEMMA SendAllKeeps ==
  ASSUME IInv, NEW n \in Lens, SendAll(n)
  PROVE  IInv'
  <1>1. /\ Call(n) /\ sbf = <<>> /\ n <= room
        /\ wire' = wire \o Bytes(n) /\ room' = room - n
        /\ interest' = "in" /\ woken' = (woken \/ Ready("in", room'))
        /\ UNCHANGED <<sbf, alloc, size, open, starved, lost, whole, missed>>
    BY DEF SendAll, SetInterest, history
  <1>2. n \in Nat /\ Bytes(n) \in Seq(Nat) /\ TypeOK /\ open
    BY <1>1, CallFacts, BytesFacts DEF IInv
  <1>3. /\ wire' \in Seq(Nat) /\ <<>> \in Seq(Nat) /\ Stream' = wire'
        /\ Stream' \o <<>> = Stream \o Bytes(n)
    <2>1. wire \in Seq(Nat) /\ Stream = wire
      BY <1>1, StreamFacts
    <2>2. wire' \in Seq(Nat) /\ <<>> \in Seq(Nat)
      BY <1>1, <1>2, <2>1, ConcatProperties, EmptySeq
    <2> QED BY <1>1, <2>1, <2>2, ConcatEmptySeq DEF Stream
  <1>4. StreamIsWhole' /\ OnlyAsked'
    <2>1. \A b : ~Holds(<<>>, b)
      BY EmptySeq DEF Holds
    <2> QED BY <1>1, <1>2, <1>3, <2>1, CallFacts, StreamFacts, StreamStep
  <1>5. TypeOK'
    <2>1. room' \in 0..SockBuf
      BY <1>1, <1>2, TransmitAssumption DEF TypeOK
    <2>2. woken' \in BOOLEAN
      BY <1>1, <1>2 DEF TypeOK, Ready
    <2> QED BY <1>1, <1>2, <1>3, <2>1, <2>2, CallFacts DEF TypeOK
  <1> QED BY <1>1, <1>4, <1>5 DEF IInv, BufferIsBounded, KeepsBuffer

\* What the socket takes of a message, and what it leaves.
LEMMA PartFacts ==
  ASSUME IInv, NEW n \in Lens, Call(n), sbf = <<>>, n > room,
         wire' = wire \o First(Bytes(n), room)
  PROVE  LET rest == Behind(Bytes(n), room)
         IN  /\ wire' \in Seq(Nat) /\ rest \in Seq(Nat) /\ Len(rest) = n - room
             /\ wire' \o rest = Stream \o Bytes(n)
             /\ \A b : Holds(rest, b) => b \in {asked + i : i \in room..(n - 1)}
  <1> DEFINE m == Bytes(n)  rest == Behind(m, room)
  <1>1. /\ n \in Nat /\ m \in Seq(Nat) /\ Len(m) = n /\ room \in Nat /\ asked \in Nat
        /\ wire \in Seq(Nat) /\ Stream = wire
        /\ \A i \in 1..n : m[i] = asked + i - 1
    <2>1. n \in Nat /\ TypeOK
      BY CallFacts DEF IInv
    <2> QED BY <2>1, BytesFacts, StreamFacts
  <1> HIDE DEF m
  <1>2. /\ First(m, room) \in Seq(Nat) /\ rest \in Seq(Nat) /\ Len(rest) = n - room
        /\ First(m, room) \o rest = m
    BY <1>1, SplitFacts
  <1>3. wire' \in Seq(Nat) /\ wire' \o rest = Stream \o m
    <2>1. wire' = wire \o First(m, room)
      BY DEF m
    <2>2. wire' \in Seq(Nat)
      BY <1>1, <1>2, <2>1, ConcatProperties
    <2>3. (wire \o First(m, room)) \o rest = wire \o (First(m, room) \o rest)
      BY <1>1, <1>2, Associative
    <2> QED BY <1>1, <1>2, <2>1, <2>2, <2>3
  <1>4. ASSUME NEW b, Holds(rest, b)
        PROVE  b \in {asked + i : i \in room..(n - 1)}
    <2>1. PICK i \in 1..(n - room) : rest[i] = b
      BY <1>2, <1>4 DEF Holds
    <2>2. rest[i] = m[room + i]
      <3>1. room + 1 \in Int /\ n \in Int /\ \A j \in (room + 1)..n : m[j] \in Nat
        BY <1>1, ElementOfSeq
      <3>2. \A j \in 1..(n - (room + 1) + 1) : SubSeq(m, room + 1, n)[j] = m[(room + 1) + j - 1]
        BY <3>1, SubSeqProperties
      <3>3. /\ i \in 1..(n - (room + 1) + 1) /\ (room + 1) + i - 1 = room + i
            /\ rest = SubSeq(m, room + 1, n)
        BY <1>1 DEF Behind
      <3> QED BY <3>2, <3>3
    <2>3. room + i \in 1..n /\ room + i - 1 \in room..(n - 1)
      BY <1>1
    <2>4. b = asked + (room + i - 1)
      BY <1>1, <2>1, <2>2, <2>3
    <2> QED BY <2>3, <2>4
  <1> QED BY <1>2, <1>3, <1>4 DEF m

LEMMA SendCutsShortKeeps ==
  ASSUME IInv, NEW n \in Lens, SendCutsShort(n)
  PROVE  IInv'
  <1> DEFINE rest == Behind(Bytes(n), room)
             cut  == {asked + i : i \in room..(n - 1)}
  <1>1. /\ Call(n) /\ sbf = <<>> /\ n > room /\ alloc = 0
        /\ wire' = wire \o First(Bytes(n), room) /\ room' = 0 /\ starved' = TRUE
        /\ alloc' = n - room /\ lost' = lost \cup cut
        /\ UNCHANGED <<sbf, size, interest, open, woken, whole, missed>>
    BY DEF SendCutsShort
  <1>2. /\ n \in Nat /\ room \in Nat /\ asked \in Nat /\ size = 0 /\ TypeOK /\ open
        /\ asked' = asked + n
    BY <1>1, CallFacts, StreamFacts DEF IInv
  <1>3. /\ wire' \in Seq(Nat) /\ rest \in Seq(Nat) /\ wire' \o rest = Stream \o Bytes(n)
        /\ \A b : Holds(rest, b) => b \in cut
    BY <1>1, PartFacts
  <1>4. Stream' = wire'
    BY <1>1, <1>3, ConcatEmptySeq DEF Stream
  <1>5. StreamIsWhole' /\ OnlyAsked'
    <2>1. /\ Stream \in Seq(Nat) /\ \A i \in 1..Len(Stream) : Stream[i] < asked
          /\ ~whole' => Increasing(Stream)
          /\ lost \subseteq lost' /\ cut \subseteq lost'
      BY <1>1, StreamFacts
    <2> HIDE DEF rest, cut
    <2>2. \A b : Holds(rest, b) => b \in lost'
      BY <1>3, <2>1
    <2> QED BY <1>2, <1>3, <1>4, <2>1, <2>2, StreamStep
  <1>6. TypeOK'
    <2>1. cut \subseteq Nat
      BY <1>2
    <2>2. alloc' \in Nat /\ 0 <= alloc' /\ Len(sbf') <= alloc' /\ size' <= alloc' /\ Len(sbf) = 0
      BY <1>1, <1>2, EmptySeq
    <2>3. room' \in 0..SockBuf
      BY <1>1, TransmitAssumption
    <2> QED BY <1>1, <1>2, <1>3, <2>1, <2>2, <2>3, CallFacts DEF TypeOK
  <1>7. BufferIsBounded' /\ KeepsBuffer'
    BY <1>1, <1>2 DEF IInv, BufferIsBounded, KeepsBuffer
  <1> QED BY <1>5, <1>6, <1>7 DEF IInv

LEMMA SendRestKeeps ==
  ASSUME IInv, NEW n \in Lens, SendRest(n)
  PROVE  IInv'
  <1> DEFINE rest == Behind(Bytes(n), room)
  <1>1. /\ Call(n) /\ sbf = <<>> /\ n > room /\ alloc > 0
        /\ wire' = wire \o First(Bytes(n), room) /\ room' = 0 /\ starved' = TRUE
        /\ UNCHANGED <<lost, whole, missed>>
    BY DEF SendRest, history
  <1>2. /\ n \in Nat /\ TypeOK /\ open /\ asked' = asked + n
    BY <1>1, CallFacts DEF IInv
  <1>3. /\ wire' \in Seq(Nat) /\ rest \in Seq(Nat) /\ wire' \o rest = Stream \o Bytes(n)
    BY <1>1, PartFacts
  <1>4. /\ Stream \in Seq(Nat) /\ \A i \in 1..Len(Stream) : Stream[i] < asked
        /\ ~whole' => Increasing(Stream)
        /\ lost \subseteq lost'
    BY <1>1, StreamFacts
  <1>5. room' \in 0..SockBuf
    BY <1>1, TransmitAssumption
  <1>6. CASE Fits(rest)
    <2>1. Store(<<>>, rest) /\ interest' = "inout" /\ woken' = (woken \/ Ready("inout", 0)) /\ open' = open
      BY <1>6 DEF SendRest, SetInterest
    <2>2. /\ sbf' = <<>> \o rest /\ sbf' \in Seq(Nat)
          /\ alloc' \in Nat /\ size' \in Nat
          /\ Len(sbf') <= alloc' /\ size' <= alloc'
          /\ alloc' > 0
      BY <1>1, <1>2, <1>3, <2>1, EmptySeq, StoreFacts
    <2>3. sbf' = rest
      BY <1>3, <2>2, ConcatEmptySeq
    <2>4. BufferIsBounded' /\ KeepsBuffer'
      BY <1>6, <2>2, <2>3 DEF Fits, BufferIsBounded, KeepsBuffer
    <2>5. StreamIsWhole' /\ OnlyAsked'
      <3>1. Stream' = Stream \o Bytes(n)
        BY <1>3, <2>3 DEF Stream
      <3>2. Stream' \in Seq(Nat) /\ <<>> \in Seq(Nat) /\ Stream' \o <<>> = Stream \o Bytes(n)
        BY <1>2, <1>4, <3>1, BytesFacts, ConcatProperties, EmptySeq, ConcatEmptySeq
      <3>3. \A b : ~Holds(<<>>, b)
        BY EmptySeq DEF Holds
      <3> QED BY <1>2, <1>4, <3>2, <3>3, StreamStep
    <2>6. woken' \in BOOLEAN
      BY <1>2, <2>1 DEF TypeOK, Ready
    <2>7. TypeOK'
      BY <1>1, <1>2, <1>3, <1>5, <2>1, <2>2, <2>6, CallFacts DEF TypeOK
    <2> QED BY <2>4, <2>5, <2>7 DEF IInv
  <1>7. CASE ~Fits(rest)
    <2>1. Close
      BY <1>7 DEF SendRest
    <2> HIDE DEF rest
    <2>2. /\ BufferIsBounded' /\ StreamIsWhole' /\ KeepsBuffer' /\ OnlyAsked'
          /\ sbf' \in Seq(Nat) /\ Len(sbf') <= alloc' /\ size' <= alloc'
          /\ alloc' \in Nat /\ size' \in Nat
          /\ interest' \in {"in", "inout"} /\ open' \in BOOLEAN /\ woken' \in BOOLEAN
      BY <1>2, <1>3, <1>4, <2>1, CloseKeeps
    <2>3. TypeOK'
      BY <1>1, <1>2, <1>3, <1>5, <2>2, CallFacts DEF TypeOK
    <2> QED BY <2>2, <2>3 DEF IInv
  <1> QED BY <1>6, <1>7

LEMMA RoomAfterFacts ==
  ASSUME TypeOK
  PROVE  RoomAfter(Len(sbf)) \in 0..SockBuf
  BY TransmitAssumption, LenProperties DEF TypeOK, RoomAfter

LEMMA SendBehindKeeps ==
  ASSUME IInv, NEW n \in Lens, SendBehind(n)
  PROVE  IInv'
  <1> DEFINE kept == AfterWrite(sbf)
             out  == wire \o First(sbf, room)
             m    == Bytes(n)
             all  == out \o kept
             held == kept \o m
  <1>1. /\ Call(n) /\ sbf # <<>>
        /\ wire' = out /\ whole' = (whole \/ Len(sbf) <= room)
        /\ room' = RoomAfter(Len(sbf)) /\ starved' = (starved \/ Len(sbf) > room)
        /\ missed' = (missed \/ (Len(sbf) <= room /\ ~woken))
        /\ lost' = lost
    BY DEF SendBehind, Written, Starves
  <1>2. /\ n \in Nat /\ TypeOK /\ OnlyAsked /\ open /\ asked' = asked + n
        /\ m \in Seq(Nat)
    BY <1>1, CallFacts, BytesFacts DEF IInv
  <1>3. /\ kept \in Seq(Nat) /\ Len(kept) <= Len(sbf)
        /\ out \in Seq(Nat) /\ all \in Seq(Nat)
        /\ \A i \in 1..Len(all) : all[i] < asked
        /\ \A b : Holds(Stream, b) => Holds(all, b)
        /\ ~(Len(sbf) <= room) => all = Stream
    BY <1>2, WriteFacts
  <1>4. /\ ~whole' => Increasing(all)
        /\ room' \in 0..SockBuf
        /\ lost \subseteq lost'
    BY <1>1, <1>2, <1>3, StreamFacts, RoomAfterFacts
  <1>5. /\ held \in Seq(Nat) /\ out \o held = all \o m
    BY <1>2, <1>3, Associative, ConcatProperties
  <1>6. alloc > 0
    <2>1. Len(sbf) \in Nat \ {0} /\ alloc \in Nat /\ Len(sbf) <= alloc
      BY <1>1, <1>2, EmptySeq DEF TypeOK
    <2> QED BY <2>1
  <1>7. whole' \in BOOLEAN /\ starved' \in BOOLEAN /\ missed' \in BOOLEAN
    BY <1>1, <1>2 DEF TypeOK
  <1>8. CASE Fits(held)
    <2>1. Store(kept, m) /\ UNCHANGED <<interest, woken, open>>
      BY <1>8 DEF SendBehind
    <2>2. /\ sbf' = held /\ sbf' \in Seq(Nat)
          /\ alloc' \in Nat /\ size' \in Nat
          /\ Len(sbf') <= alloc' /\ size' <= alloc'
          /\ alloc' > 0
      BY <1>2, <1>3, <1>6, <2>1, StoreFacts
    <2>3. BufferIsBounded' /\ KeepsBuffer'
      BY <1>8, <2>2 DEF Fits, BufferIsBounded, KeepsBuffer
    <2>4. StreamIsWhole' /\ OnlyAsked'
      <3>1. Stream' = all \o m
        BY <1>1, <1>5, <2>2 DEF Stream
      <3> HIDE DEF all
      <3>2. Stream' \in Seq(Nat) /\ <<>> \in Seq(Nat) /\ Stream' \o <<>> = all \o Bytes(n)
        BY <1>2, <1>3, <3>1, ConcatProperties, EmptySeq, ConcatEmptySeq
      <3>3. \A b : ~Holds(<<>>, b)
        BY EmptySeq DEF Holds
      <3> QED BY <1>2, <1>3, <1>4, <2>1, <3>2, <3>3, StreamStep
    <2>5. TypeOK'
      BY <1>1, <1>2, <1>3, <1>4, <1>7, <2>1, <2>2, CallFacts DEF TypeOK
    <2> QED BY <2>3, <2>4, <2>5 DEF IInv
  <1>9. CASE ~Fits(held)
    <2>1. Close
      BY <1>9 DEF SendBehind
    <2>2. wire' \in Seq(Nat) /\ wire' \o held = all \o Bytes(n)
      BY <1>1, <1>3, <1>5
    <2> HIDE DEF held, all
    <2>3. /\ BufferIsBounded' /\ StreamIsWhole' /\ KeepsBuffer' /\ OnlyAsked'
          /\ sbf' \in Seq(Nat) /\ Len(sbf') <= alloc' /\ size' <= alloc'
          /\ alloc' \in Nat /\ size' \in Nat
          /\ interest' \in {"in", "inout"} /\ open' \in BOOLEAN /\ woken' \in BOOLEAN
      BY <1>2, <1>3, <1>4, <1>5, <2>1, <2>2, CloseKeeps
    <2>4. TypeOK'
      BY <1>1, <1>2, <1>4, <1>7, <2>2, <2>3, CallFacts DEF TypeOK
    <2> QED BY <2>3, <2>4 DEF IInv
  <1> QED BY <1>8, <1>9

-----------------------------------------------------------------------------
\* The dispatch loop.

LEMMA EventInKeeps ==
  ASSUME IInv, EventIn
  PROVE  IInv'
  <1>1. BufferIsBounded' /\ StreamIsWhole' /\ KeepsBuffer' /\ OnlyAsked'
    BY StreamFrame DEF EventIn, buffer
  <1>2. missed' \in BOOLEAN /\ starved' \in BOOLEAN
    BY DEF EventIn, IInv, TypeOK
  <1>3. TypeOK'
    BY <1>2 DEF EventIn, IInv, TypeOK, buffer
  <1> QED BY <1>1, <1>3 DEF IInv

LEMMA EventResetKeeps ==
  ASSUME IInv, EventReset
  PROVE  IInv'
  <1>1. Close /\ UNCHANGED <<sends, asked, wire, room, starved, peer, history>>
    BY DEF EventReset
  <1>2. /\ BufferIsBounded' /\ StreamIsWhole' /\ KeepsBuffer' /\ OnlyAsked'
        /\ sbf' \in Seq(Nat) /\ Len(sbf') <= alloc' /\ size' <= alloc'
        /\ alloc' \in Nat /\ size' \in Nat
        /\ interest' \in {"in", "inout"} /\ open' \in BOOLEAN /\ woken' \in BOOLEAN
    <2>1. /\ Stream \in Seq(Nat) /\ wire' \in Seq(Nat) /\ sbf \in Seq(Nat)
          /\ 0 \in Nat /\ asked' = asked + 0
          /\ \A i \in 1..Len(Stream) : Stream[i] < asked
          /\ ~whole' => Increasing(Stream)
          /\ lost \subseteq lost'
      BY <1>1, StreamFacts DEF history
    <2>2. wire' \o sbf = Stream \o Bytes(0)
      BY <1>1, StreamFacts, ConcatEmptySeq DEF Stream
    <2> QED BY <1>1, <2>1, <2>2, CloseKeeps
  <1>3. TypeOK'
    BY <1>1, <1>2 DEF IInv, TypeOK, peer, history
  <1> QED BY <1>2, <1>3 DEF IInv

LEMMA EventOutKeeps ==
  ASSUME IInv, EventOut
  PROVE  IInv'
  <1>1. CASE sbf = <<>>
    <2>1. /\ interest' = "in" /\ woken' = (woken \/ Ready("in", room))
          /\ UNCHANGED <<sbf, wire, room, starved, whole, sends, asked, alloc, size, open,
                         unread, inputs, reset, lost, missed>>
      BY <1>1 DEF EventOut, SetInterest, peer
    <2>2. BufferIsBounded' /\ StreamIsWhole' /\ KeepsBuffer' /\ OnlyAsked'
      BY <2>1, StreamFrame
    <2>3. woken' \in BOOLEAN
      BY <2>1 DEF IInv, TypeOK, Ready
    <2>4. TypeOK'
      BY <2>1, <2>3 DEF IInv, TypeOK
    <2> QED BY <2>2, <2>4 DEF IInv
  <1>2. CASE sbf # <<>>
    <2> DEFINE kept == AfterWrite(sbf)
               out  == wire \o First(sbf, room)
               all  == out \o kept
    <2>1. /\ wire' = out /\ whole' = (whole \/ Len(sbf) <= room) /\ sbf' = kept
          /\ room' = RoomAfter(Len(sbf)) /\ starved' = (starved \/ Len(sbf) > room)
          /\ woken' = FALSE
          /\ UNCHANGED <<interest, sends, asked, alloc, size, open, unread, inputs, reset,
                         lost, missed>>
      BY <1>2 DEF EventOut, Written, Starves, peer
    <2>2. TypeOK /\ OnlyAsked
      BY DEF IInv
    <2>3. /\ kept \in Seq(Nat) /\ Len(kept) <= Len(sbf)
          /\ out \in Seq(Nat) /\ all \in Seq(Nat)
          /\ \A i \in 1..Len(all) : all[i] < asked
          /\ \A b : Holds(Stream, b) => Holds(all, b)
          /\ ~(Len(sbf) <= room) => all = Stream
      BY <2>2, WriteFacts
    <2>4. StreamIsWhole' /\ OnlyAsked'
      <3>1. Stream' = all
        BY <2>1 DEF Stream
      <3>2. /\ 0 \in Nat /\ asked' = asked + 0 /\ lost \subseteq lost'
            /\ ~whole' => Increasing(all)
        <4>1. 0 \in Nat /\ asked' = asked + 0 /\ lost \subseteq lost'
          BY <2>1, StreamFacts
        <4>2. ~whole' => all = Stream /\ Increasing(Stream)
          BY <2>1, <2>3, StreamFacts
        <4> QED BY <4>1, <4>2
      <3> HIDE DEF all
      <3>3. Stream' \in Seq(Nat) /\ <<>> \in Seq(Nat) /\ Stream' \o <<>> = all \o Bytes(0)
        BY <2>3, <3>1, StreamFacts, EmptySeq, ConcatEmptySeq
      <3>4. \A b : ~Holds(<<>>, b)
        BY EmptySeq DEF Holds
      <3> QED BY <2>1, <2>3, <3>2, <3>3, <3>4, StreamStep
    <2>5. BufferIsBounded' /\ KeepsBuffer' /\ Len(sbf') <= alloc'
      <3>1. /\ Len(kept) \in Nat /\ Len(sbf) \in Nat /\ alloc \in Nat /\ Len(sbf) <= alloc
            /\ Len(sbf) <= MaxBuf /\ MaxBuf \in Nat /\ sbf' = kept /\ Len(kept) <= Len(sbf)
        BY <2>1, <2>3, TransmitAssumption, LenProperties DEF IInv, TypeOK, BufferIsBounded
      <3> HIDE DEF kept
      <3>2. BufferIsBounded' /\ Len(sbf') <= alloc'
        BY <2>1, <3>1 DEF BufferIsBounded
      <3>3. KeepsBuffer'
        BY <2>1 DEF IInv, KeepsBuffer
      <3> QED BY <3>2, <3>3
    <2>6. whole' \in BOOLEAN /\ starved' \in BOOLEAN /\ woken' \in BOOLEAN
      BY <2>1, <2>2 DEF TypeOK
    <2>7. TypeOK'
      BY <2>1, <2>2, <2>3, <2>5, <2>6, RoomAfterFacts DEF TypeOK
    <2> QED BY <2>4, <2>5, <2>7 DEF IInv
  <1> QED BY <1>1, <1>2

LEMMA EventNoneKeeps ==
  ASSUME IInv, EventNone
  PROVE  IInv'
  <1>1. BufferIsBounded' /\ StreamIsWhole' /\ KeepsBuffer' /\ OnlyAsked'
    BY StreamFrame DEF EventNone, buffer, history
  <1>2. starved' \in BOOLEAN
    BY DEF EventNone, IInv, TypeOK
  <1>3. TypeOK'
    BY <1>2 DEF EventNone, IInv, TypeOK, buffer, peer, history
  <1> QED BY <1>1, <1>3 DEF IInv

-----------------------------------------------------------------------------
\* The peer and the network.

LEMMA PeerReadsKeeps ==
  ASSUME IInv, NEW n \in 1..SockBuf, PeerReads(n)
  PROVE  IInv'
  <1>1. BufferIsBounded' /\ StreamIsWhole' /\ KeepsBuffer' /\ OnlyAsked'
    BY StreamFrame DEF PeerReads, buffer, history
  <1>2. room' \in 0..SockBuf
    BY TransmitAssumption DEF PeerReads, IInv, TypeOK
  <1>3. woken' \in BOOLEAN
    BY DEF PeerReads, IInv, TypeOK
  <1>4. TypeOK'
    BY <1>2, <1>3 DEF PeerReads, IInv, TypeOK, buffer, peer, history
  <1> QED BY <1>1, <1>4 DEF IInv

LEMMA PeerSendsKeeps ==
  ASSUME IInv, PeerSends
  PROVE  IInv'
  <1>1. BufferIsBounded' /\ StreamIsWhole' /\ KeepsBuffer' /\ OnlyAsked'
    BY StreamFrame DEF PeerSends, buffer, history
  <1>2. inputs' \in 0..MaxInput
    BY TransmitAssumption DEF PeerSends, IInv, TypeOK
  <1>3. TypeOK'
    BY <1>2 DEF PeerSends, IInv, TypeOK, buffer, history
  <1> QED BY <1>1, <1>3 DEF IInv

LEMMA PeerResetsKeeps ==
  ASSUME IInv, PeerResets
  PROVE  IInv'
  <1>1. BufferIsBounded' /\ StreamIsWhole' /\ KeepsBuffer' /\ OnlyAsked'
    BY StreamFrame DEF PeerResets, buffer, history
  <1>2. TypeOK'
    BY DEF PeerResets, IInv, TypeOK, buffer, history
  <1> QED BY <1>1, <1>2 DEF IInv

-----------------------------------------------------------------------------

\* Nothing has been sent, and no buffer allocated.
LEMMA InitIInv == Init => IInv
  <1> SUFFICES ASSUME Init PROVE IInv
    OBVIOUS
  <1>1. Stream = <<>> /\ Len(Stream) = 0 /\ Len(sbf) = 0
    BY EmptySeq, ConcatEmptySeq DEF Init, Stream
  <1>2. TypeOK
    <2>1. Len(sbf) <= alloc /\ size <= alloc /\ alloc \in Nat /\ size \in Nat
      BY <1>1 DEF Init
    <2>2. sbf \in Seq(Nat) /\ wire \in Seq(Nat)
      BY EmptySeq DEF Init
    <2>3. /\ sends \in 0..MaxSends /\ room \in 0..SockBuf /\ inputs \in 0..MaxInput
          /\ asked \in Nat
      BY TransmitAssumption DEF Init
    <2> QED BY <2>1, <2>2, <2>3 DEF Init, TypeOK
  <1>3. StreamIsWhole
    <2>1. Increasing(Stream)
      BY <1>1 DEF Increasing
    <2> QED BY <2>1 DEF Init, StreamIsWhole
  <1> QED
    BY <1>1, <1>2, <1>3, TransmitAssumption
    DEF Init, IInv, BufferIsBounded, KeepsBuffer, OnlyAsked

\* Every step keeps the inductive invariant.
LEMMA NextIInv == IInv /\ [Next]_vars => IInv'
  <1> SUFFICES ASSUME IInv, [Next]_vars PROVE IInv'
    OBVIOUS
  <1>1. ASSUME NEW n \in Lens, Send(n)
        PROVE  IInv'
    BY <1>1, SendFailsKeeps, SendAllKeeps, SendCutsShortKeeps, SendRestKeeps, SendBehindKeeps
       DEF Send
  <1>2. CASE Event
    BY <1>2, EventInKeeps, EventResetKeeps, EventOutKeeps, EventNoneKeeps DEF Event
  <1>3. ASSUME NEW n \in 1..SockBuf, PeerReads(n)
        PROVE  IInv'
    BY <1>3, PeerReadsKeeps
  <1>4. CASE PeerSends
    BY <1>4, PeerSendsKeeps
  <1>5. CASE PeerResets
    BY <1>5, PeerResetsKeeps
  <1>6. CASE UNCHANGED vars
    <2>1. UNCHANGED <<asked, wire, sbf, open, lost, whole, alloc>>
      BY <1>6 DEF vars, buffer, history
    <2>2. BufferIsBounded' /\ StreamIsWhole' /\ KeepsBuffer' /\ OnlyAsked'
      BY <2>1, StreamFrame
    <2>3. TypeOK'
      BY <1>6 DEF vars, buffer, history, kernel, peer, IInv, TypeOK
    <2> QED BY <2>2, <2>3 DEF IInv
  <1> QED BY <1>1, <1>2, <1>3, <1>4, <1>5, <1>6 DEF Next

LEMMA Invariance == Spec => []IInv
  BY InitIInv, NextIInv, PTL DEF Spec

\* The variables hold values of their kinds, and do_fd_send never copies more
\* into the send buffer than was allocated for it (net_util.c:375-401).
THEOREM TypeCorrect == Spec => []TypeOK
  <1>1. IInv => TypeOK
    BY DEF IInv
  <1> QED BY Invariance, <1>1, PTL

\* A connection holds no more than max_buf_len bytes for a slow peer
\* (do_fd_send).
THEOREM BufferBounded == Spec => []BufferIsBounded
  <1>1. IInv => BufferIsBounded
    BY DEF IInv
  <1> QED BY Invariance, <1>1, PTL

\* What was sent and what waits are the bytes asked for, in order, but for the
\* rest of a message cut short; none twice before a buffer was written to its
\* end (do_fd_send, do_fd_write).
THEOREM StreamWhole == Spec => []StreamIsWhole
  <1>1. IInv => StreamIsWhole
    BY DEF IInv
  <1> QED BY Invariance, <1>1, PTL

\* One connection cuts no second message short (net_util.c:376).
THEOREM OneCut == Spec => CutShortOnce
  <1> DEFINE Once == lost' # lost => lost = {}
  <1>1. ASSUME IInv, [Next]_vars
        PROVE  Once
    <2>1. ASSUME NEW n \in Lens, SendCutsShort(n)
          PROVE  lost = {}
      <3>1. open /\ alloc = 0
        BY <2>1 DEF SendCutsShort, Call
      <3> QED BY <1>1, <3>1 DEF IInv, KeepsBuffer
    <2>2. ASSUME NEW n \in Lens, SendFails(n) \/ SendAll(n) \/ SendRest(n) \/ SendBehind(n)
          PROVE  UNCHANGED lost
      BY <2>2 DEF SendFails, SendAll, SendRest, SendBehind, history
    <2>3. ASSUME \/ Event \/ \E n \in 1..SockBuf : PeerReads(n)
                 \/ PeerSends \/ PeerResets \/ UNCHANGED vars
          PROVE  UNCHANGED lost
      BY <2>3 DEF Event, EventIn, EventReset, EventOut, EventNone, PeerReads, PeerSends,
                  PeerResets, vars, history
    <2> QED BY <1>1, <2>1, <2>2, <2>3 DEF Next, Send
  <1>2. IInv /\ [Next]_vars => [Once]_vars
    BY <1>1
  <1> QED BY Invariance, <1>2, PTL DEF Spec, CutShortOnce
=============================================================================
