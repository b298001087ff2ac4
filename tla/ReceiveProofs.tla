--------------------------- MODULE ReceiveProofs ---------------------------
(***************************************************************************)
(* Proofs about what one connection receives, in the master and in a work  *)
(* process, for every size of the buffer and of a header, every set of     *)
(* message lengths and every number of messages.                           *)
(***************************************************************************)
EXTENDS ReceiveInv, SequenceTheorems, TLAPS

-----------------------------------------------------------------------------
\* The messages in the stream.

LEMMA MsgFacts ==
  ASSUME TypeOK
  PROVE  /\ Len(msgs) \in Nat
         /\ \A k \in 1..Len(msgs) :
              /\ msgs[k].from \in Nat /\ msgs[k].len \in Lens /\ msgs[k].len \in HdrLen..MaxBuf
              /\ End(msgs[k]) \in Nat /\ msgs[k].from < End(msgs[k])
         /\ \A n \in 0..Len(msgs) : From(n) \in Nat
         /\ Total = From(Len(msgs))
         /\ Total > 0 => MaxBuf > 0
  <1>1. /\ Len(msgs) \in Nat
        /\ \A k \in 1..Len(msgs) : msgs[k] \in [from : Nat, len : Lens]
    BY LenProperties, ElementOfSeq DEF TypeOK
  <1>2. ASSUME NEW k \in 1..Len(msgs)
        PROVE  /\ msgs[k].from \in Nat /\ msgs[k].len \in Lens /\ msgs[k].len \in HdrLen..MaxBuf
               /\ End(msgs[k]) \in Nat /\ msgs[k].from < End(msgs[k])
    <2>1. msgs[k].from \in Nat /\ msgs[k].len \in Lens
      BY <1>1
    <2>2. msgs[k].len \in HdrLen..MaxBuf
      BY <2>1, ReceiveAssumption
    <2> QED BY <2>1, <2>2, ReceiveAssumption DEF End
  <1>3. \A n \in 0..Len(msgs) : From(n) \in Nat
    BY <1>1, <1>2 DEF From
  <1>4. Total = From(Len(msgs))
    <2>1. (msgs = <<>>) <=> (Len(msgs) = 0)
      BY EmptySeq DEF TypeOK
    <2> QED BY <2>1 DEF Total, From
  <1>5. Total > 0 => MaxBuf > 0
    <2>1. SUFFICES ASSUME Total > 0 PROVE MaxBuf > 0
      OBVIOUS
    <2>2. Len(msgs) # 0
      BY <1>4, <2>1 DEF From
    <2>3. Len(msgs) \in 1..Len(msgs)
      BY <1>1, <2>2
    <2> QED BY <1>2, <2>3, ReceiveAssumption
  <1> QED BY <1>1, <1>2, <1>3, <1>4, <1>5

\* Only one message starts at a given place.
LEMMA StartIsUnique ==
  ASSUME TypeOK, Laid, NEW n \in 0..Len(msgs), NEW k \in 1..Len(msgs),
         msgs[k].from = From(n)
  PROVE  k = n + 1
  <1>1. /\ Len(msgs) \in Nat
        /\ \A j \in 1..Len(msgs) :
             /\ msgs[j].from \in Nat /\ End(msgs[j]) \in Nat
             /\ msgs[j].from < End(msgs[j])
    BY MsgFacts
  <1>2. \A i, j \in 1..Len(msgs) : i < j => End(msgs[i]) <= msgs[j].from
    BY <1>1 DEF Laid
  <1>3. CASE n = 0
    <2>1. k # 1 => 1 \in 1..Len(msgs) /\ 1 < k
      BY <1>1
    <2> QED BY <1>1, <1>2, <1>3, <2>1 DEF From
  <1>4. CASE n # 0
    <2>1. n \in 1..Len(msgs) /\ msgs[k].from = End(msgs[n])
      BY <1>1, <1>4 DEF From
    <2>2. n < k
      <3>1. k # n
        BY <1>1, <2>1
      <3>2. ~(k < n)
        <4>1. SUFFICES ASSUME k < n PROVE FALSE
          OBVIOUS
        <4>2. End(msgs[k]) <= msgs[n].from
          BY <1>2, <2>1, <4>1
        <4> QED BY <1>1, <2>1, <4>2
      <3> QED BY <1>1, <2>1, <3>1, <3>2
    <2>3. ~(n + 1 < k)
      <3>1. SUFFICES ASSUME n + 1 < k PROVE FALSE
        OBVIOUS
      <3>2. n + 1 \in 1..Len(msgs)
        BY <1>1, <2>1, <3>1
      <3>3. End(msgs[n]) <= msgs[n + 1].from /\ End(msgs[n + 1]) <= msgs[k].from
        BY <1>1, <1>2, <2>1, <3>1, <3>2
      <3> QED BY <1>1, <2>1, <3>2, <3>3
    <2> QED BY <1>1, <2>1, <2>2, <2>3
  <1> QED BY <1>3, <1>4

-----------------------------------------------------------------------------
\* The peer.

\* Nothing but the messages sent has a say in these.
LEMMA MessagesStay ==
  ASSUME IInv, msgs' = msgs
  PROVE  Laid'
  BY DEF IInv, Laid, From, End

LEMMA PassedStay ==
  ASSUME IInv, UNCHANGED <<msgs, passed>>, guessed' = FALSE => guessed = FALSE
  PROVE  MessagesWhole'
  BY DEF IInv, MessagesWhole, Whole, TypeOK

LEMMA BufferStays ==
  ASSUME IInv, UNCHANGED <<got, rbf, rlen, ptr>>
  PROVE  BufferIsStream'
  BY DEF IInv, BufferIsStream

LEMMA SendKeeps ==
  ASSUME IInv, NEW n \in Lens, Send(n)
  PROVE  IInv'
  <1> DEFINE new == [from |-> Total, len |-> n]
  <1>1. /\ TypeOK /\ msgs' = Append(msgs, new) /\ closed = "no" /\ Len(msgs) < MaxMsgs
        /\ UNCHANGED <<arrived, fin, edge, got, buffer, listed, at, back, passed, history>>
    BY DEF IInv, Send
  <1>2. /\ Len(msgs) \in Nat /\ Total \in Nat /\ Total = From(Len(msgs))
        /\ n \in Nat /\ new \in [from : Nat, len : Lens]
    <2>1. Len(msgs) \in Nat /\ Total = From(Len(msgs)) /\ From(Len(msgs)) \in Nat
      BY <1>1, MsgFacts
    <2> QED BY <2>1, ReceiveAssumption
  <1>3. /\ msgs' \in Seq([from : Nat, len : Lens]) /\ Len(msgs') = Len(msgs) + 1
        /\ \A k \in 1..Len(msgs) : msgs'[k] = msgs[k]
        /\ msgs'[Len(msgs) + 1] = new
    BY <1>1, <1>2, AppendProperties DEF TypeOK
  <1>4. Total' = Total + n
    <2>1. msgs' # <<>>
      BY <1>2, <1>3, EmptySeq
    <2>2. Total' = End(msgs'[Len(msgs')])
      BY <2>1 DEF Total, End
    <2>3. Total' = End(new)
      BY <1>3, <2>2
    <2> QED BY <2>3 DEF End
  <1>5. TypeOK'
    <2>1. Len(msgs') <= MaxMsgs /\ arrived' <= Total'
      BY <1>1, <1>2, <1>3, <1>4, ReceiveAssumption DEF TypeOK
    <2> QED BY <1>1, <1>3, <2>1 DEF TypeOK, buffer, history
  <1>6. \A k \in 0..Len(msgs) : From(k)' = From(k)
    BY <1>2, <1>3 DEF From
  <1>7. Laid'
    <2>1. SUFFICES ASSUME NEW k \in 1..Len(msgs')
                   PROVE  /\ msgs'[k].from = From(k - 1)'
                          /\ \A j \in 1..(k - 1) : End(msgs'[j]) <= msgs'[k].from
      BY DEF Laid, End
    <2>2. CASE k \in 1..Len(msgs)
      <3>1. /\ msgs[k].from = From(k - 1)
            /\ \A j \in 1..(k - 1) : End(msgs[j]) <= msgs[k].from
        BY <2>2 DEF IInv, Laid
      <3>2. k - 1 \in 0..Len(msgs) /\ \A j \in 1..(k - 1) : j \in 1..Len(msgs)
        BY <1>2, <2>2
      <3> QED BY <1>3, <1>6, <2>2, <3>1, <3>2
    <2>3. CASE k = Len(msgs) + 1
      <3>1. msgs'[k].from = Total /\ From(k - 1)' = Total
        BY <1>2, <1>3, <1>6, <2>3
      <3>2. ASSUME NEW j \in 1..(k - 1) PROVE End(msgs'[j]) <= Total
        <4>1. j \in 1..Len(msgs) /\ Len(msgs) \in 1..Len(msgs)
          BY <1>2, <2>3
        <4>2. Total = End(msgs[Len(msgs)])
          BY <1>2, <4>1 DEF From
        <4>3. j < Len(msgs) => End(msgs[j]) <= msgs[Len(msgs)].from
          BY <4>1 DEF IInv, Laid
        <4>4. /\ msgs[Len(msgs)].from < End(msgs[Len(msgs)]) /\ msgs[Len(msgs)].from \in Nat
              /\ End(msgs[j]) \in Nat /\ End(msgs[Len(msgs)]) \in Nat
          BY <1>1, <4>1, MsgFacts
        <4>5. End(msgs[j]) <= Total
          BY <4>1, <4>2, <4>3, <4>4
        <4> QED BY <1>3, <4>1, <4>5
      <3> QED BY <3>1, <3>2
    <2> QED BY <1>2, <1>3, <2>1, <2>2, <2>3
  <1>8. MessagesWhole'
    <2>1. SUFFICES ASSUME ~guessed
                   PROVE  /\ Len(passed) <= Len(msgs')
                          /\ \A k \in 1..Len(passed) : passed[k] = Whole(msgs'[k])
      BY <1>1 DEF MessagesWhole, history, Whole
    <2>2. Len(passed) \in Nat
      BY <1>1, LenProperties DEF TypeOK
    <2>3. /\ Len(passed) <= Len(msgs)
          /\ \A k \in 1..Len(passed) : passed[k] = Whole(msgs[k])
      BY <2>1 DEF IInv, MessagesWhole
    <2> QED BY <1>2, <1>3, <2>2, <2>3
  <1>9. Cutting'
    <2>1. SUFFICES ASSUME ~guessed
                   PROVE  /\ got - rlen = From(Len(passed))'
                          /\ msglen # 0 => /\ Len(passed) < Len(msgs')
                                           /\ msglen = msgs'[Len(passed) + 1].len
                          /\ at = "pass" => msglen # 0
      BY <1>1 DEF Cutting, history, buffer
    <2>2. Len(passed) \in 0..Len(msgs) /\ passed' = passed
      <3>1. Len(passed) \in Nat
        BY <1>1, LenProperties DEF TypeOK
      <3>2. Len(passed) <= Len(msgs)
        BY <2>1 DEF IInv, MessagesWhole
      <3> QED BY <1>1, <1>2, <3>1, <3>2
    <2>3. From(Len(passed))' = From(Len(passed))
      BY <1>2, <1>3, <2>2 DEF From
    <2>4. /\ got - rlen = From(Len(passed))
          /\ msglen # 0 => /\ Len(passed) < Len(msgs)
                           /\ msglen = msgs[Len(passed) + 1].len
          /\ at = "pass" => msglen # 0
      BY <2>1 DEF IInv, Cutting
    <2>5. ASSUME msglen # 0
          PROVE  Len(passed) < Len(msgs') /\ msglen = msgs'[Len(passed) + 1].len
      <3>1. Len(passed) + 1 \in 1..Len(msgs)
        BY <1>2, <2>2, <2>4, <2>5
      <3> QED BY <1>2, <1>3, <2>2, <2>4, <2>5, <3>1
    <2> QED BY <2>3, <2>4, <2>5
  <1>10. BufferIsStream'
    BY <1>1, BufferStays DEF buffer
  <1>11. AtRest' /\ Remembered'
    BY <1>1 DEF IInv, AtRest, Remembered, buffer, history
  <1> QED BY <1>5, <1>7, <1>8, <1>9, <1>10, <1>11 DEF IInv

LEMMA CuttingStays ==
  ASSUME IInv, UNCHANGED <<msgs, got, rlen, msglen, passed, guessed>>,
         at' = "pass" => at = "pass" \/ msglen # 0
  PROVE  Cutting'
  BY DEF IInv, Cutting, From, End

LEMMA ArriveKeeps ==
  ASSUME IInv, NEW n \in Nat, Arrive(n)
  PROVE  IInv'
  <1>1. /\ TypeOK /\ arrived' = arrived + n /\ edge' = TRUE /\ arrived + n <= Total
        /\ UNCHANGED <<msgs, fin, got, rbf, rlen, ptr, msglen, listed, at, back, passed,
                       closed, guessed, full>>
    BY DEF IInv, Arrive, buffer, history
  <1>2. Total' = Total
    BY <1>1 DEF Total, End
  <1>3. TypeOK'
    <2>1. arrived' \in Nat /\ got' <= arrived' /\ arrived' <= Total'
      BY <1>1, <1>2 DEF TypeOK
    <2> QED BY <1>1, <2>1 DEF TypeOK
  <1>4. AtRest' /\ Remembered'
    BY <1>1 DEF IInv, AtRest, Remembered
  <1> QED BY <1>1, <1>3, <1>4, MessagesStay, PassedStay, BufferStays, CuttingStays DEF IInv

LEMMA ArriveEndKeeps ==
  ASSUME IInv, ArriveEnd
  PROVE  IInv'
  <1>1. /\ TypeOK /\ fin' = TRUE /\ edge' = TRUE
        /\ UNCHANGED <<msgs, arrived, got, rbf, rlen, ptr, msglen, listed, at, back, passed,
                       closed, guessed, full>>
    BY DEF IInv, ArriveEnd, buffer, history
  <1>2. Total' = Total
    BY <1>1 DEF Total, End
  <1>3. TypeOK'
    BY <1>1, <1>2 DEF TypeOK
  <1>4. AtRest' /\ Remembered'
    BY <1>1 DEF IInv, AtRest, Remembered
  <1> QED BY <1>1, <1>3, <1>4, MessagesStay, PassedStay, BufferStays, CuttingStays DEF IInv

-----------------------------------------------------------------------------
\* handle_read.

\* What recv adds goes on where the buffer ended.
LEMMA TakeFacts ==
  ASSUME TypeOK, BufferIsStream, ptr = 0, ptr' = 0,
         NEW n \in Nat, rlen + n <= MaxBuf, Take(n)
  PROVE  /\ rbf' \in Seq(Nat) /\ Len(rbf') = rlen + n /\ rlen' = rlen + n /\ got' = got + n
         /\ BufferIsStream'
  <1> DEFINE old == SubSeq(rbf, 1, rlen)
             new == [i \in 1..n |-> got + i - 1]
  <1>1. /\ rbf \in Seq(Nat) /\ rlen \in Nat /\ got \in Nat /\ rlen <= Len(rbf)
        /\ Len(rbf) \in Nat
    BY LenProperties DEF TypeOK
  <1>2. rbf' = old \o new /\ rlen' = rlen + n /\ got' = got + n
    BY DEF Take
  <1>3. /\ old \in Seq(Nat) /\ Len(old) = rlen
        /\ \A i \in 1..rlen : old[i] = rbf[i]
    <2>1. \A i \in 1..rlen : rbf[i] \in Nat
      BY <1>1, ElementOfSeq
    <2>2. /\ SubSeq(rbf, 1, rlen) \in Seq(Nat)
          /\ Len(SubSeq(rbf, 1, rlen)) = IF 1 <= rlen THEN rlen - 1 + 1 ELSE 0
          /\ \A i \in 1..(rlen - 1 + 1) : SubSeq(rbf, 1, rlen)[i] = rbf[1 + i - 1]
      BY <1>1, <2>1, SubSeqProperties
    <2> QED BY <1>1, <2>2
  <1>4. new \in Seq(Nat) /\ Len(new) = n /\ \A i \in 1..n : new[i] = got + i - 1
    <2>1. new \in [1..n -> Nat]
      BY <1>1
    <2>2. new \in Seq(Nat)
      BY <2>1, SeqDef
    <2>3. Len(new) = n
      BY <2>1, <2>2, LenProperties
    <2> QED BY <2>2, <2>3
  <1> HIDE DEF old, new
  <1>5. /\ old \o new \in Seq(Nat) /\ Len(old \o new) = rlen + n
        /\ \A i \in 1..(rlen + n) :
             (old \o new)[i] = IF i <= rlen THEN old[i] ELSE new[i - rlen]
    BY <1>3, <1>4, ConcatProperties
  <1>6. BufferIsStream'
    <2> SUFFICES ASSUME NEW i \in 1..rlen' PROVE rbf'[ptr' + i] = got' - rlen' + i - 1
      BY DEF BufferIsStream
    <2>1. i \in 1..(rlen + n) /\ ptr' + i = i /\ got' - rlen' = got - rlen
      BY <1>1, <1>2
    <2>2. CASE i <= rlen
      <3>1. i \in 1..rlen /\ i \in Int
        BY <1>1, <2>1, <2>2
      <3>2. rbf[ptr + i] = got - rlen + i - 1 /\ ptr + i = i
        BY <3>1 DEF BufferIsStream
      <3>3. rbf'[i] = rbf[i]
        BY <1>2, <1>3, <1>5, <2>1, <2>2, <3>1
      <3> QED BY <2>1, <3>1, <3>2, <3>3
    <2>3. CASE ~(i <= rlen)
      <3>1. i - rlen \in 1..n
        BY <1>1, <2>1, <2>3
      <3>2. rbf'[i] = got + (i - rlen) - 1
        BY <1>2, <1>4, <1>5, <2>1, <2>3, <3>1
      <3> QED BY <1>1, <2>1, <3>1, <3>2
    <2> QED BY <2>2, <2>3
  <1> QED BY <1>2, <1>5, <1>6

\* A read that gets n bytes, and one that closes the connection.
LEMMA TakeKeeps ==
  ASSUME IInv, closed = "no", at \in {"top", "wait"},
         NEW where \in {"top", "wait"}, NEW n \in Nat, n <= arrived - got, rlen + n <= MaxBuf,
         Take(n), Cut(where), edge' \in BOOLEAN,
         listed' \in BOOLEAN, full' = listed',
         listed' \/ (n = arrived - got /\ rlen + n < MaxBuf),
         UNCHANGED <<msgs, arrived, fin, msglen, closed, passed, guessed>>
  PROVE  IInv'
  <1>1. TypeOK /\ BufferIsStream /\ ptr = 0
    BY DEF IInv, AtRest
  <1>2. ptr' = 0 /\ at' = "cut" /\ back' = where
    BY DEF Cut
  <1>3. /\ rbf' \in Seq(Nat) /\ Len(rbf') = rlen + n /\ rlen' = rlen + n /\ got' = got + n
        /\ BufferIsStream'
    BY <1>1, <1>2, TakeFacts
  <1>4. Total' = Total
    BY DEF Total, End
  <1>5. /\ rlen' \in Nat /\ got' \in Nat /\ got' <= arrived' /\ arrived' <= Total'
        /\ ptr' + rlen' <= Len(rbf') /\ Len(rbf') <= MaxBuf /\ got' - rlen' = got - rlen
    BY <1>1, <1>2, <1>3, <1>4, ReceiveAssumption DEF TypeOK
  <1>6. TypeOK'
    BY <1>1, <1>2, <1>3, <1>5 DEF TypeOK
  <1>7. Cutting'
    BY <1>2, <1>5 DEF IInv, Cutting, From, End
  <1>8. AtRest'
    BY <1>2 DEF AtRest
  <1>9. Remembered'
    <2>1. /\ got \in Nat /\ arrived \in Nat /\ rlen \in Nat
      BY <1>1 DEF TypeOK
    <2>2. ~listed' => ~(arrived' > got') /\ rlen' # MaxBuf
      BY <1>3, <2>1, ReceiveAssumption
    <2> QED BY <2>2 DEF Remembered
  <1> QED BY <1>3, <1>6, <1>7, <1>8, <1>9, MessagesStay, PassedStay DEF IInv

LEMMA CloseKeeps ==
  ASSUME IInv, NEW reason \in {"end", "empty", "refused", "negative"}, NEW where \in {"top", "wait"},
         Close(reason, where), edge' \in BOOLEAN,
         UNCHANGED <<msgs, arrived, fin, passed, guessed>>
  PROVE  IInv'
  <1>1. /\ TypeOK /\ closed' = reason /\ listed' = FALSE /\ at' = where
        /\ UNCHANGED <<got, rbf, rlen, ptr, msglen, back, full>>
    BY DEF IInv, Close, buffer
  <1>2. Total' = Total
    BY DEF Total, End
  <1>3. TypeOK'
    BY <1>1, <1>2 DEF TypeOK
  <1>4. AtRest' /\ Remembered'
    BY <1>1 DEF AtRest, Remembered
  <1> QED BY <1>1, <1>3, <1>4, MessagesStay, PassedStay, BufferStays, CuttingStays DEF IInv

LEMMA ReadKeeps ==
  ASSUME IInv, closed = "no", at \in {"top", "wait"}, NEW where \in {"top", "wait"},
         HandleRead(where), edge' \in BOOLEAN, UNCHANGED <<msgs, arrived, fin>>
  PROVE  IInv'
  <1>1. /\ TypeOK /\ rlen \in Nat /\ arrived \in Nat /\ got \in Nat /\ got <= arrived
        /\ rlen <= MaxBuf /\ MaxBuf \in Nat /\ ptr = 0 /\ UNCHANGED <<passed, guessed>>
    <2>1. TypeOK /\ ptr = 0 /\ UNCHANGED <<passed, guessed>> /\ Len(rbf) \in Nat
      BY LenProperties DEF IInv, AtRest, HandleRead, TypeOK
    <2> QED BY <2>1, ReceiveAssumption DEF TypeOK
  <1>2. CASE ReadFull(where)
    <2> DEFINE space == MaxBuf - rlen
    <2>1. /\ space \in Nat /\ space <= arrived - got /\ rlen + space <= MaxBuf
          /\ Take(space) /\ Cut(where) /\ listed' = TRUE /\ full' = TRUE
          /\ UNCHANGED <<msglen, closed>>
      BY <1>1, <1>2 DEF ReadFull
    <2> HIDE DEF space
    <2> QED BY <1>1, <2>1, TakeKeeps
  <1>3. CASE ReadAll(where)
    <2> DEFINE n == arrived - got
    <2>1. /\ n \in Nat /\ n = arrived - got /\ n <= arrived - got /\ rlen + n < MaxBuf
          /\ rlen + n <= MaxBuf
          /\ Take(n) /\ Cut(where) /\ listed' = FALSE /\ full' = FALSE
          /\ UNCHANGED <<msglen, closed>>
      BY <1>1, <1>3 DEF ReadAll
    <2> HIDE DEF n
    <2> QED BY <1>1, <2>1, TakeKeeps
  <1>4. CASE ReadEnd(where)
    BY <1>1, <1>4, CloseKeeps DEF ReadEnd
  <1>5. CASE ReadNothing(where)
    BY <1>1, <1>5, CloseKeeps DEF ReadNothing
  <1>6. CASE ReadNoSpace(where)
    <2>1. /\ at' = "cut" /\ ptr' = 0 /\ back' = where /\ rlen = MaxBuf
          /\ UNCHANGED <<got, rbf, rlen, ptr, msglen, listed, closed, full>>
      BY <1>1, <1>6 DEF ReadNoSpace, Cut
    <2>2. Total' = Total
      BY DEF Total, End
    <2>3. TypeOK'
      BY <1>1, <2>1, <2>2 DEF TypeOK
    <2>4. AtRest'
      BY <2>1 DEF AtRest
    <2>5. Remembered'
      <3>1. arrived > got => MaxBuf > 0
        <4>1. Total \in Nat /\ (Total > 0 => MaxBuf > 0) /\ arrived <= Total
          <5>1. Len(msgs) \in 0..Len(msgs)
            BY <1>1, MsgFacts
          <5> QED BY <1>1, <5>1, MsgFacts DEF TypeOK
        <4> QED BY <1>1, <4>1
      <3>2. MaxBuf > 0 => listed
        BY <2>1 DEF IInv, Remembered
      <3>3. listed => full
        BY DEF IInv, Remembered
      <3> QED BY <2>1, <3>1, <3>2, <3>3 DEF Remembered
    <2> QED BY <1>1, <2>1, <2>3, <2>4, <2>5, MessagesStay, PassedStay, BufferStays, CuttingStays
            DEF IInv
  <1> QED BY <1>2, <1>3, <1>4, <1>5, <1>6 DEF HandleRead

-----------------------------------------------------------------------------
\* The dispatch loop.

LEMMA ListedKeeps ==
  ASSUME IInv, Listed
  PROVE  IInv'
  <1>1. /\ listed /\ at = "top" /\ HandleRead("wait") /\ edge' \in BOOLEAN
        /\ UNCHANGED <<msgs, arrived, fin>>
    BY DEF IInv, TypeOK, Listed, peer
  <1>2. closed = "no"
    BY <1>1 DEF IInv, AtRest
  <1> QED BY <1>1, <1>2, ReadKeeps

LEMMA EventKeeps ==
  ASSUME IInv, Event
  PROVE  IInv'
  <1>1. /\ closed = "no" /\ at = "wait" /\ HandleRead(Round) /\ edge' \in BOOLEAN
        /\ UNCHANGED <<msgs, arrived, fin>>
    BY DEF Event
  <1>2. Round \in {"top", "wait"}
    BY DEF Round
  <1> QED BY <1>1, <1>2, ReadKeeps

\* The loop goes from one place to the next and nothing else happens.
LEMMA MoveKeeps ==
  ASSUME IInv, at' \in {"top", "wait", "cut", "pass", "keep"},
         edge' \in BOOLEAN, closed = "no" /\ arrived > got => edge' = edge,
         closed # "no" => at' \in {"top", "wait"},
         at' \in {"top", "wait"} => at \in {"top", "wait"},
         at' = "pass" => msglen # 0,
         UNCHANGED <<msgs, arrived, fin, got, buffer, listed, back, passed, history>>
  PROVE  IInv'
  <1>1. TypeOK /\ UNCHANGED <<rbf, rlen, ptr, msglen, closed, guessed, full>>
    BY DEF IInv, buffer, history
  <1>2. Total' = Total
    BY DEF Total, End
  <1>3. TypeOK'
    BY <1>1, <1>2 DEF TypeOK
  <1>4. AtRest' /\ Remembered'
    BY <1>1 DEF IInv, AtRest, Remembered
  <1> QED BY <1>1, <1>3, <1>4, MessagesStay, PassedStay, BufferStays, CuttingStays DEF IInv

LEMMA NotListedKeeps ==
  ASSUME IInv, NotListed
  PROVE  IInv'
  BY MoveKeeps DEF NotListed, peer, IInv, TypeOK

LEMMA NoEventKeeps ==
  ASSUME IInv, NoEvent
  PROVE  IInv'
  <1>1. closed = "no" /\ arrived > got => edge' = edge
    BY DEF NoEvent, Readable, IInv, TypeOK
  <1>2. /\ at' \in {"top", "wait"} /\ at = "wait" /\ edge' \in BOOLEAN
        /\ UNCHANGED <<msgs, arrived, fin, got, buffer, listed, back, passed, history>>
    BY DEF NoEvent, Round
  <1> QED BY <1>1, <1>2, MoveKeeps

LEMMA KnowLenKeeps ==
  ASSUME IInv, KnowLen
  PROVE  IInv'
  <1>1. /\ at = "cut" /\ at' = "pass" /\ msglen # 0
        /\ UNCHANGED <<msgs, arrived, fin, edge, got, buffer, listed, back, passed, history>>
    BY DEF KnowLen, peer
  <1>2. closed = "no" /\ edge' \in BOOLEAN
    BY <1>1 DEF IInv, AtRest, TypeOK
  <1> QED BY <1>1, <1>2, MoveKeeps

LEMMA TooShortKeeps ==
  ASSUME IInv, TooShort
  PROVE  IInv'
  <1>1. /\ at = "pass" /\ at' = "keep"
        /\ UNCHANGED <<msgs, arrived, fin, edge, got, buffer, listed, back, passed, history>>
    BY DEF TooShort, peer
  <1>2. closed = "no" /\ edge' \in BOOLEAN
    BY <1>1 DEF IInv, AtRest, TypeOK
  <1> QED BY <1>1, <1>2, MoveKeeps

LEMMA PassRefusedKeeps ==
  ASSUME IInv, PassRefused
  PROVE  IInv'
  <1>1. /\ back \in {"top", "wait"} /\ Close("refused", back) /\ edge' \in BOOLEAN
        /\ UNCHANGED <<msgs, arrived, fin, passed, guessed>>
    BY DEF PassRefused, peer, IInv, TypeOK
  <1> QED BY <1>1, CloseKeeps

LEMMA PassNegativeKeeps ==
  ASSUME IInv, PassNegative
  PROVE  IInv'
  <1>1. /\ back \in {"top", "wait"} /\ Close("negative", back) /\ edge' \in BOOLEAN
        /\ UNCHANGED <<msgs, arrived, fin, passed, guessed>>
    BY DEF PassNegative, peer, IInv, TypeOK
  <1> QED BY <1>1, CloseKeeps

LEMMA PassedFacts ==
  ASSUME IInv
  PROVE  /\ passed \in Seq(Seq(Nat)) /\ Len(passed) \in Nat
         /\ ~guessed => Len(passed) \in 0..Len(msgs)
  <1>1. passed \in Seq(Seq(Nat)) /\ Len(passed) \in Nat /\ Len(msgs) \in Nat
    BY LenProperties DEF IInv, TypeOK
  <1> QED BY <1>1 DEF IInv, MessagesWhole

LEMMA GetLenKeeps ==
  ASSUME IInv, GetLen
  PROVE  IInv'
  <1>1. /\ TypeOK /\ at = "cut" /\ at' = "pass" /\ closed = "no"
        /\ UNCHANGED <<msgs, arrived, fin, edge, got, rbf, rlen, ptr, listed, back, passed,
                       closed, full>>
        /\ \/ \E k \in 1..Len(msgs) :
                Begins(msgs[k]) /\ msglen' = msgs[k].len /\ UNCHANGED guessed
           \/ msglen' \in Guesses /\ guessed' = TRUE
    BY DEF IInv, AtRest, GetLen, peer
  <1>2. Total' = Total
    BY <1>1 DEF Total, End
  <1>3. msglen' \in Guesses /\ guessed' \in BOOLEAN /\ (guessed' = FALSE => guessed = FALSE)
    <2>1. \A k \in 1..Len(msgs) : msgs[k].len \in Lens
      BY <1>1, MsgFacts
    <2> QED BY <1>1, <2>1 DEF Guesses, TypeOK
  <1>4. TypeOK'
    BY <1>1, <1>2, <1>3 DEF TypeOK
  <1>5. Cutting'
    <2> SUFFICES ASSUME ~guessed'
                 PROVE  /\ got' - rlen' = From(Len(passed))'
                        /\ msglen' # 0 => /\ Len(passed') < Len(msgs')
                                          /\ msglen' = msgs'[Len(passed') + 1].len
                        /\ at' = "pass" => msglen' # 0
      BY DEF Cutting
    <2>1. ~guessed /\ Len(passed) \in 0..Len(msgs) /\ got - rlen = From(Len(passed))
      BY <1>1, <1>3, PassedFacts DEF IInv, Cutting, TypeOK
    <2>2. PICK k \in 1..Len(msgs) : Begins(msgs[k]) /\ msglen' = msgs[k].len
      BY <1>1
    <2>3. msgs[k].from = got - rlen
      <3>1. rlen >= HdrLen /\ rlen \in Nat /\ got \in Nat /\ ptr \in Nat
        BY <1>1, <2>2 DEF Begins, TypeOK
      <3>2. 1 \in 1..rlen /\ 1 \in 1..HdrLen
        BY <3>1, ReceiveAssumption
      <3>3. rbf[ptr + 1] = msgs[k].from + 1 - 1
        BY <2>2, <3>2 DEF Begins
      <3>4. rbf[ptr + 1] = got - rlen + 1 - 1
        BY <3>2 DEF IInv, BufferIsStream
      <3>5. msgs[k].from \in Nat
        BY <1>1, MsgFacts
      <3> QED BY <3>1, <3>3, <3>4, <3>5
    <2>4. k = Len(passed) + 1
      BY <1>1, <2>1, <2>3, StartIsUnique DEF IInv
    <2>5. msgs[k].len \in Nat /\ msgs[k].len # 0
      <3>1. msgs[k].len \in HdrLen..MaxBuf
        BY <1>1, MsgFacts
      <3> QED BY <3>1, ReceiveAssumption
    <2>6. Len(passed) < Len(msgs)
      BY <2>1, <2>4
    <2>7. From(Len(passed))' = From(Len(passed))
      BY <1>1 DEF From, End
    <2> QED BY <1>1, <2>1, <2>2, <2>4, <2>5, <2>6, <2>7
  <1>6. AtRest' /\ Remembered'
    BY <1>1 DEF IInv, AtRest, Remembered
  <1> QED BY <1>1, <1>3, <1>4, <1>5, <1>6, MessagesStay, PassedStay, BufferStays DEF IInv

\* The first n bytes still to be passed on are the next n of the stream.
LEMMA PieceFacts ==
  ASSUME TypeOK, BufferIsStream, NEW n \in 0..rlen
  PROVE  LET piece == SubSeq(rbf, ptr + 1, ptr + n)
         IN  /\ piece \in Seq(Nat) /\ Len(piece) = n
             /\ \A i \in 1..n : piece[i] = got - rlen + i - 1
  <1>1. /\ rbf \in Seq(Nat) /\ Len(rbf) \in Nat /\ rlen \in Nat /\ ptr \in Nat /\ n \in Nat
        /\ ptr + n <= Len(rbf) /\ n <= rlen
    <2>1. rbf \in Seq(Nat) /\ Len(rbf) \in Nat
      BY LenProperties DEF TypeOK
    <2> QED BY <2>1 DEF TypeOK
  <1>2. \A i \in (ptr + 1)..(ptr + n) : rbf[i] \in Nat
    <2>1. \A i \in (ptr + 1)..(ptr + n) : i \in 1..Len(rbf)
      BY <1>1
    <2> QED BY <1>1, <2>1, ElementOfSeq
  <1>3. /\ SubSeq(rbf, ptr + 1, ptr + n) \in Seq(Nat)
        /\ Len(SubSeq(rbf, ptr + 1, ptr + n))
             = IF ptr + 1 <= ptr + n THEN (ptr + n) - (ptr + 1) + 1 ELSE 0
        /\ \A i \in 1..((ptr + n) - (ptr + 1) + 1) :
             SubSeq(rbf, ptr + 1, ptr + n)[i] = rbf[(ptr + 1) + i - 1]
    <2>1. ptr + 1 \in Int /\ ptr + n \in Int
      BY <1>1
    <2> QED BY <1>2, <2>1, SubSeqProperties
  <1>4. /\ Len(SubSeq(rbf, ptr + 1, ptr + n)) = n
        /\ \A i \in 1..n : SubSeq(rbf, ptr + 1, ptr + n)[i] = rbf[ptr + i]
    <2> DEFINE piece == SubSeq(rbf, ptr + 1, ptr + n)
    <2>1. /\ Len(piece) = IF ptr + 1 <= ptr + n THEN (ptr + n) - (ptr + 1) + 1 ELSE 0
          /\ \A i \in 1..((ptr + n) - (ptr + 1) + 1) : piece[i] = rbf[(ptr + 1) + i - 1]
      BY <1>3
    <2> HIDE DEF piece
    <2>2. (ptr + n) - (ptr + 1) + 1 = n /\ \A i \in 1..n : (ptr + 1) + i - 1 = ptr + i
      BY <1>1
    <2>3. Len(piece) = n
      BY <1>1, <2>1, <2>2
    <2>4. \A i \in 1..n : piece[i] = rbf[ptr + i]
      BY <1>1, <2>1, <2>2
    <2> QED BY <2>3, <2>4 DEF piece
  <1>5. \A i \in 1..n : rbf[ptr + i] = got - rlen + i - 1
    <2>1. \A i \in 1..n : i \in 1..rlen
      BY <1>1
    <2> QED BY <2>1 DEF BufferIsStream
  <1> QED BY <1>3, <1>4, <1>5

LEMMA PassOnKeeps ==
  ASSUME IInv, PassOn
  PROVE  IInv'
  <1> DEFINE piece == SubSeq(rbf, ptr + 1, ptr + msglen)
  <1>1. /\ TypeOK /\ BufferIsStream /\ at = "pass" /\ closed = "no" /\ msglen \in 0..rlen
        /\ passed' = Append(passed, piece)
        /\ ptr' = ptr + msglen /\ rlen' = rlen - msglen /\ msglen' = 0
        /\ at' \in {"cut", "keep"}
        /\ UNCHANGED <<msgs, arrived, fin, edge, got, rbf, listed, back, closed, guessed, full>>
    BY DEF IInv, AtRest, PassOn, peer, history
  <1>2. /\ rlen \in Nat /\ ptr \in Nat /\ got \in Nat /\ msglen \in 0..rlen
        /\ rlen <= MaxBuf
    <2>1. Len(rbf) \in Nat
      BY <1>1, LenProperties DEF TypeOK
    <2> QED BY <1>1, <2>1, ReceiveAssumption DEF TypeOK
  <1>3. /\ piece \in Seq(Nat) /\ Len(piece) = msglen
        /\ \A i \in 1..msglen : piece[i] = got - rlen + i - 1
    BY <1>1, <1>2, PieceFacts
  <1> HIDE DEF piece
  <1>4. /\ passed' \in Seq(Seq(Nat)) /\ Len(passed') = Len(passed) + 1
        /\ \A k \in 1..Len(passed) : passed'[k] = passed[k]
        /\ passed'[Len(passed) + 1] = piece
        /\ Len(passed) \in Nat
    BY <1>1, <1>3, PassedFacts, AppendProperties
  <1>5. TypeOK'
    <2>1. Total' = Total
      BY <1>1 DEF Total, End
    <2>2. ptr' \in Nat /\ rlen' \in Nat /\ ptr' + rlen' = ptr + rlen /\ msglen' \in Guesses
      BY <1>1, <1>2 DEF Guesses
    <2> QED BY <1>1, <1>4, <2>1, <2>2 DEF TypeOK, Guesses
  <1>6. BufferIsStream'
    <2> SUFFICES ASSUME NEW i \in 1..rlen' PROVE rbf'[ptr' + i] = got' - rlen' + i - 1
      BY DEF BufferIsStream
    <2>1. msglen + i \in 1..rlen /\ ptr' + i = ptr + (msglen + i)
          /\ got' - rlen' + i - 1 = got - rlen + (msglen + i) - 1
      BY <1>1, <1>2
    <2>2. rbf[ptr + (msglen + i)] = got - rlen + (msglen + i) - 1
      BY <1>1, <2>1 DEF BufferIsStream
    <2> QED BY <1>1, <2>1, <2>2
  <1>7. ASSUME ~guessed
        PROVE  /\ Len(passed) + 1 \in 1..Len(msgs)
               /\ piece = Whole(msgs[Len(passed) + 1])
               /\ got - rlen' = End(msgs[Len(passed) + 1])
    <2> DEFINE m == msgs[Len(passed) + 1]
    <2>1. /\ msglen # 0 /\ Len(passed) < Len(msgs) /\ msglen = m.len
          /\ got - rlen = From(Len(passed)) /\ Len(passed) \in 0..Len(msgs)
      BY <1>1, <1>7, PassedFacts DEF IInv, Cutting
    <2>2. Len(passed) + 1 \in 1..Len(msgs) /\ (Len(passed) + 1) - 1 = Len(passed)
      BY <2>1
    <2>3. m.from = got - rlen /\ m.from \in Nat /\ m.len \in Nat
      <3>1. m.from = From((Len(passed) + 1) - 1)
        BY <2>2 DEF IInv, Laid
      <3>2. m.from \in Nat
        BY <1>1, <2>2, MsgFacts
      <3> QED BY <1>2, <2>1, <2>2, <3>1, <3>2
    <2>4. Whole(m) \in Seq(Nat) /\ Len(Whole(m)) = m.len
          /\ \A i \in 1..m.len : Whole(m)[i] = m.from + i - 1
      <3>1. Whole(m) \in [1..m.len -> Nat]
        BY <2>3 DEF Whole
      <3>2. Whole(m) \in Seq(Nat)
        BY <2>3, <3>1, SeqDef
      <3>3. Len(Whole(m)) = m.len
        BY <2>3, <3>1, <3>2, LenProperties
      <3> QED BY <3>2, <3>3 DEF Whole
    <2>5. got - rlen' = End(m)
      <3>1. got - rlen' = m.from + m.len
        BY <1>1, <1>2, <2>1, <2>3
      <3> QED BY <3>1 DEF End
    <2> HIDE DEF m
    <2>6. piece = Whole(m)
      <3>1. Len(piece) = Len(Whole(m))
        BY <1>3, <2>1, <2>4
      <3>2. ASSUME NEW i \in 1..Len(piece)
            PROVE  piece[i] = Whole(m)[i]
        <4>1. i \in 1..msglen /\ i \in 1..m.len
          BY <1>3, <2>1, <3>2
        <4> QED BY <1>3, <2>3, <2>4, <4>1
      <3> QED BY <1>3, <2>4, <3>1, <3>2, SeqEqual
    <2> QED BY <2>2, <2>5, <2>6 DEF m
  <1>8. MessagesWhole'
    <2> SUFFICES ASSUME ~guessed
                 PROVE  /\ Len(passed') <= Len(msgs)
                        /\ \A k \in 1..Len(passed') : passed'[k] = Whole(msgs[k])
      BY <1>1 DEF MessagesWhole, Whole
    <2>1. \A k \in 1..Len(passed) : passed[k] = Whole(msgs[k])
      BY DEF IInv, MessagesWhole
    <2>2. \A k \in 1..Len(passed') : k \in 1..Len(passed) \/ k = Len(passed) + 1
      BY <1>4
    <2>3. Len(passed') <= Len(msgs)
      BY <1>4, <1>7
    <2>4. ASSUME NEW k \in 1..Len(passed')
          PROVE  passed'[k] = Whole(msgs[k])
      <3>1. CASE k \in 1..Len(passed)
        BY <1>4, <2>1, <3>1
      <3>2. CASE k = Len(passed) + 1
        BY <1>4, <1>7, <3>2
      <3> QED BY <2>2, <3>1, <3>2
    <2> QED BY <2>3, <2>4
  <1>9. Cutting'
    <2> SUFFICES ASSUME ~guessed PROVE got' - rlen' = From(Len(passed))'
      BY <1>1 DEF Cutting
    <2>1. From(Len(passed))' = End(msgs[Len(passed) + 1])
      <3>1. Len(passed') # 0
        BY <1>4
      <3>2. From(Len(passed))' = End(msgs'[Len(passed')])
        BY <3>1 DEF From, End
      <3> QED BY <1>1, <1>4, <3>2
    <2> QED BY <1>1, <1>7, <2>1
  <1>10. AtRest'
    BY <1>1 DEF AtRest
  <1>11. Remembered'
    <2>1. rlen' = MaxBuf => rlen = MaxBuf
      BY <1>1, <1>2, ReceiveAssumption
    <2> QED BY <1>1, <2>1 DEF IInv, Remembered
  <1> QED BY <1>1, <1>5, <1>6, <1>8, <1>9, <1>10, <1>11, MessagesStay DEF IInv

LEMMA KeepKeeps ==
  ASSUME IInv, Keep
  PROVE  IInv'
  <1>1. /\ TypeOK /\ BufferIsStream /\ at = "keep" /\ closed = "no"
        /\ rbf' = SubSeq(rbf, ptr + 1, ptr + rlen) /\ ptr' = 0 /\ at' = back
        /\ UNCHANGED <<msgs, arrived, fin, edge, got, rlen, msglen, listed, back, passed,
                       closed, guessed, full>>
    BY DEF IInv, AtRest, Keep, peer, history
  <1>2. /\ rlen \in Nat /\ rlen \in 0..rlen /\ rlen <= MaxBuf /\ back \in {"top", "wait"}
    <2>1. Len(rbf) \in Nat
      BY <1>1, LenProperties DEF TypeOK
    <2> QED BY <1>1, <2>1, ReceiveAssumption DEF TypeOK
  <1>3. /\ rbf' \in Seq(Nat) /\ Len(rbf') = rlen
        /\ \A i \in 1..rlen : rbf'[i] = got - rlen + i - 1
    BY <1>1, <1>2, PieceFacts
  <1>4. TypeOK'
    <2>1. Total' = Total
      BY <1>1 DEF Total, End
    <2>2. ptr' \in Nat /\ rlen' \in Nat /\ ptr' + rlen' <= Len(rbf') /\ Len(rbf') <= MaxBuf
      BY <1>1, <1>2, <1>3
    <2> QED BY <1>1, <1>2, <1>3, <2>1, <2>2 DEF TypeOK
  <1>5. BufferIsStream'
    <2>1. \A i \in 1..rlen : ptr' + i = i
      BY <1>1, <1>2
    <2> QED BY <1>1, <1>3, <2>1 DEF BufferIsStream
  <1>6. AtRest' /\ Remembered'
    BY <1>1, <1>2 DEF IInv, AtRest, Remembered
  <1>7. at' # "pass"
    BY <1>1, <1>2
  <1> QED BY <1>1, <1>4, <1>5, <1>6, <1>7, MessagesStay, PassedStay, CuttingStays DEF IInv

-----------------------------------------------------------------------------
\* The inductive invariant.

LEMMA InitIInv == Init => IInv
  <1> SUFFICES ASSUME Init PROVE IInv
    OBVIOUS
  <1>1. /\ msgs = <<>> /\ rbf = <<>> /\ passed = <<>> /\ Len(msgs) = 0 /\ Len(rbf) = 0
        /\ Len(passed) = 0 /\ Total = 0
    BY EmptySeq DEF Init, Total
  <1>2. /\ msgs \in Seq([from : Nat, len : Lens]) /\ rbf \in Seq(Nat)
        /\ passed \in Seq(Seq(Nat))
    BY <1>1, EmptySeq
  <1>3. TypeOK
    <2>1. Len(msgs) <= MaxMsgs /\ Len(rbf) <= MaxBuf /\ ptr + rlen <= Len(rbf)
          /\ arrived <= Total /\ got <= arrived
      BY <1>1, ReceiveAssumption DEF Init
    <2>2. /\ arrived \in Nat /\ got \in Nat /\ rlen \in Nat /\ ptr \in Nat /\ msglen \in Guesses
          /\ fin \in BOOLEAN /\ edge \in BOOLEAN /\ listed \in BOOLEAN /\ guessed \in BOOLEAN
          /\ full \in BOOLEAN /\ at = "top" /\ back = "wait" /\ closed = "no"
      BY DEF Init, Guesses
    <2> QED BY <1>2, <2>1, <2>2 DEF TypeOK
  <1>4. BufferIsStream /\ MessagesWhole /\ Laid
    BY <1>1 DEF Init, BufferIsStream, MessagesWhole, Laid
  <1>5. AtRest /\ Remembered /\ Cutting
    BY <1>1 DEF Init, AtRest, Remembered, Cutting, From
  <1> QED BY <1>3, <1>4, <1>5 DEF IInv

LEMMA NextIInv == IInv /\ [Next]_vars => IInv'
  <1> SUFFICES ASSUME IInv, [Next]_vars PROVE IInv'
    OBVIOUS
  <1>1. CASE \E n \in Lens : Send(n)
    BY <1>1, SendKeeps
  <1>2. CASE \E n \in 1..(MaxMsgs * MaxBuf) : Arrive(n)
    <2>1. PICK n \in 1..(MaxMsgs * MaxBuf) : Arrive(n)
      BY <1>2
    <2>2. n \in Nat
      BY <2>1
    <2> QED BY <2>1, <2>2, ArriveKeeps
  <1>3. CASE ArriveEnd
    BY <1>3, ArriveEndKeeps
  <1>4. CASE Listed
    BY <1>4, ListedKeeps
  <1>5. CASE NotListed
    BY <1>5, NotListedKeeps
  <1>6. CASE Event
    BY <1>6, EventKeeps
  <1>7. CASE NoEvent
    BY <1>7, NoEventKeeps
  <1>8. CASE GetLen
    BY <1>8, GetLenKeeps
  <1>9. CASE KnowLen
    BY <1>9, KnowLenKeeps
  <1>10. CASE PassOn
    BY <1>10, PassOnKeeps
  <1>11. CASE PassRefused
    BY <1>11, PassRefusedKeeps
  <1>12. CASE TooShort
    BY <1>12, TooShortKeeps
  <1>13. CASE Keep
    BY <1>13, KeepKeeps
  <1>14. CASE PassNegative
    BY <1>14, PassNegativeKeeps
  <1>15. CASE UNCHANGED vars
    <2>1. /\ at \in {"top", "wait", "cut", "pass", "keep"} /\ edge \in BOOLEAN
          /\ UNCHANGED <<msgs, arrived, fin, edge, got, buffer, listed, at, back, passed,
                         history>>
      BY <1>15 DEF vars, peer, IInv, TypeOK
    <2>2. UNCHANGED <<rbf, rlen, ptr, msglen, closed, guessed, full>>
      BY <2>1 DEF buffer, history
    <2>3. TypeOK' /\ AtRest' /\ Remembered'
      <3>1. Total' = Total
        BY <2>1 DEF Total, End
      <3> QED BY <2>1, <2>2, <3>1 DEF IInv, TypeOK, AtRest, Remembered
    <2> QED BY <2>1, <2>2, <2>3, MessagesStay, PassedStay, BufferStays, CuttingStays DEF IInv
  <1> QED BY <1>1, <1>2, <1>3, <1>4, <1>5, <1>6, <1>7, <1>8, <1>9, <1>10, <1>11, <1>12, <1>13,
             <1>14, <1>15 DEF Next, Network, Loop

LEMMA Invariance == Spec => []IInv
  BY InitIInv, NextIInv, PTL DEF Spec

\* Every variable keeps its kind, and what recv writes stays inside rbf.
THEOREM TypeCorrect == Spec => []TypeOK
  <1>1. IInv => TypeOK
    BY DEF IInv
  <1> QED BY <1>1, Invariance, PTL

\* The buffer always holds the part of the stream that ends with the last byte
\* received (safe_tcp_recv_n, memmove in handle_cli).
THEOREM BufferStream == Spec => []BufferIsStream
  <1>1. IInv => BufferIsStream
    BY DEF IInv
  <1> QED BY <1>1, Invariance, PTL

\* Until get_msg_len is asked with part of a header, the messages passed on are
\* the messages sent, whole and in order, however the stream was cut up.
THEOREM PassedWhole == Spec => []MessagesWhole
  <1>1. IInv => MessagesWhole
    BY DEF IInv
  <1> QED BY <1>1, Invariance, PTL

\* Bytes left in the socket are always announced by epoll or by the read list.
THEOREM BytesRemembered == Spec => []NothingForgotten
  <1>1. IInv => NothingForgotten
    BY DEF IInv, Remembered, NothingForgotten
  <1> QED BY <1>1, Invariance, PTL

\* An empty socket is taken for a closed one only from the read list, and only
\* after a read that filled the buffer to its last byte.
THEOREM EmptyAfterFull == Spec => EmptyOnlyWhenFull
  <1>1. IInv /\ [Next]_vars
          => [closed' = "empty" => closed = "empty" \/ (at = "top" /\ full)]_vars
    <2> SUFFICES ASSUME IInv, Next, closed' = "empty", closed # "empty"
                 PROVE  at = "top" /\ full
      OBVIOUS
    <2>1. /\ ~(\E n \in Lens : Send(n)) /\ ~(\E n \in 1..(MaxMsgs * MaxBuf) : Arrive(n))
          /\ ~ArriveEnd /\ ~NotListed /\ ~NoEvent /\ ~GetLen /\ ~KnowLen /\ ~PassOn
          /\ ~PassRefused /\ ~PassNegative /\ ~TooShort /\ ~Keep
      BY DEF Send, Arrive, ArriveEnd, NotListed, NoEvent, GetLen, KnowLen, PassOn, PassRefused,
             PassNegative, TooShort, Keep, Close, history
    <2>2. \A where : HandleRead(where) => ReadNothing(where)
      BY DEF HandleRead, ReadFull, ReadAll, ReadEnd, ReadNoSpace, Close
    <2>3. CASE Listed
      <3>1. closed = "no" /\ listed /\ at = "top"
        BY <2>3 DEF Listed, IInv, AtRest
      <3> QED BY <3>1 DEF IInv, Remembered
    <2>4. ~Event
      <3> SUFFICES ASSUME Event PROVE FALSE
        OBVIOUS
      <3>1. Readable /\ ReadNothing(Round)
        BY <2>2 DEF Event
      <3>2. ~fin /\ arrived = got /\ got \in Nat
        BY <3>1 DEF ReadNothing, IInv, TypeOK
      <3> QED BY <3>1, <3>2 DEF Readable
    <2> QED BY <2>1, <2>3, <2>4 DEF Next, Network, Loop
  <1> QED BY <1>1, Invariance, PTL DEF Spec, EmptyOnlyWhenFull

=============================================================================
