---------------------------- MODULE TransmitInv ----------------------------
(***************************************************************************)
(* What Transmit.tla is to satisfy.  The last part states what the         *)
(* comments of the code expect and the code does not keep.                 *)
(***************************************************************************)
EXTENDS Transmit

\* Every variable holds a value of its kind, and what do_fd_send copies into
\* the buffer lies inside the memory that malloc or realloc gave it, although
\* sbf_size is not set with the first malloc (net_util.c:375-388).
TypeOK ==
  /\ sends \in 0..MaxSends /\ asked \in Nat
  /\ sbf \in Seq(Nat) /\ alloc \in Nat /\ size \in Nat
  /\ Len(sbf) <= alloc /\ size <= alloc
  /\ interest \in {"in", "inout"} /\ open \in BOOLEAN
  /\ wire \in Seq(Nat) /\ room \in 0..SockBuf
  /\ starved \in BOOLEAN /\ woken \in BOOLEAN /\ unread \in BOOLEAN
  /\ inputs \in 0..MaxInput /\ reset \in BOOLEAN
  /\ lost \subseteq Nat /\ whole \in BOOLEAN /\ missed \in BOOLEAN

\* A connection that stays open never holds more than max_buf_len bytes for a
\* peer that does not read (do_fd_send).
BufferIsBounded == Len(sbf) <= MaxBuf

Stream == wire \o sbf
Holds(s, b) == \E i \in 1..Len(s) : s[i] = b
Increasing(s) == \A i \in 1..(Len(s) - 1) : s[i] < s[i + 1]

\* What has been sent and what waits are the bytes do_fd_send was given, in
\* order and without a gap, but for the rest of the one message cut short; and
\* until do_fd_write has written a buffer to its end, none of them twice.
\* Messages that find the socket full, or find others waiting, do not overtake
\* (do_fd_send, do_fd_write).
StreamIsWhole ==
  /\ open => \A b \in 0..(asked - 1) : b \in lost \/ Holds(Stream, b)
  /\ ~whole => Increasing(Stream)

\* What makes them inductive: a connection that has cut a message short keeps
\* its buffer, and no byte is sent before it is asked for.
KeepsBuffer == open /\ lost # {} => alloc > 0
OnlyAsked == \A i \in 1..Len(Stream) : Stream[i] < asked

IInv == TypeOK /\ BufferIsBounded /\ StreamIsWhole /\ KeepsBuffer /\ OnlyAsked

\* At most one message of a connection is cut short: the check that is the
\* wrong way round (net_util.c:376) leaves the buffer allocated.
CutShortOnce == [][lost' # lost => lost = {}]_vars

\* A buffered byte is sent as long as the peer reads, unless the connection
\* ends or one of two wake-ups is missed: a writable event that came together
\* with input and was passed over (master.c:159-173), or the one that never
\* comes for a message put behind a buffer the socket has taken whole
\* (net_util.c:401).  Then it waits for the next do_fd_send.
BufferedIsSent ==
  \A b \in 0..(MaxSends * MaxBuf) :
    Holds(sbf, b) ~> Holds(wire, b) \/ ~open \/ missed

-----------------------------------------------------------------------------
\* What the comments expect.

\* master.c:180, net_util.c:403: once everything is written the buffer is
\* empty and only input is waited for; no byte is written twice.
NoByteTwice == \A i, j \in 1..Len(wire) : wire[i] = wire[j] => i = j
=============================================================================
