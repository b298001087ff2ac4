---------------------------- MODULE ReceiveInv ----------------------------
(***************************************************************************)
(* What Receive.tla is to satisfy.  The last part states what the comments *)
(* of the code expect and the code does not keep.                          *)
(***************************************************************************)
EXTENDS Receive

\* Every variable holds a value of its kind; the filled part of the buffer
\* lies inside it (net_util.h:67-74).
TypeOK ==
  /\ msgs \in Seq([from : Nat, len : Lens]) /\ Len(msgs) <= MaxMsgs
  /\ arrived \in Nat /\ got \in Nat /\ got <= arrived /\ arrived <= Total
  /\ fin \in BOOLEAN /\ edge \in BOOLEAN
  /\ rbf \in Seq(Nat) /\ Len(rbf) <= MaxBuf
  /\ rlen \in Nat /\ ptr \in Nat /\ ptr + rlen <= Len(rbf)
  /\ msglen \in Guesses /\ listed \in BOOLEAN
  /\ at \in {"top", "wait", "cut", "pass", "keep"} /\ back \in {"top", "wait"}
  /\ passed \in Seq(Seq(Nat))
  /\ closed \in {"no", "end", "empty", "refused", "negative"}
  /\ guessed \in BOOLEAN /\ full \in BOOLEAN

\* Nothing is lost, doubled or moved between the socket and the messages: what
\* is in the buffer is the part of the stream up to the last byte received,
\* however often the rest of a message has been moved to the front
\* (handle_read, memmove in handle_cli).
BufferIsStream == \A i \in 1..rlen : rbf[ptr + i] = got - rlen + i - 1

\* Bytes m.from.. of message m, as they lie in a message passed on.
Whole(m) == [i \in 1..m.len |-> m.from + i - 1]

\* The messages passed on are the messages sent, whole and in order, as long
\* as get_msg_len was never asked with part of a header (handle_cli).
MessagesWhole ==
  ~guessed => /\ Len(passed) <= Len(msgs)
              /\ \A k \in 1..Len(passed) : passed[k] = Whole(msgs[k])

\* Bytes left in the socket are never forgotten: epoll has an event to report
\* or the descriptor is on the read list (do_add_to_readlist, the event being
\* edge-triggered).
NothingForgotten ==
  at \in {"top", "wait"} /\ closed = "no" /\ arrived > got => edge \/ listed

\* An open connection is taken for a closed one only when handle_readlist
\* reads it again after the last read filled its buffer to the last byte,
\* never on an event and never after a read that emptied the socket
\* (safe_tcp_recv_n returns 0 for an empty socket as for a closed one).
EmptyOnlyWhenFull ==
  [][closed' = "empty" => closed = "empty" \/ (at = "top" /\ full)]_vars

\* What makes these inductive.  The messages lie in the stream one behind the
\* other, and message n + 1 starts at From(n).
From(n) == IF n = 0 THEN 0 ELSE End(msgs[n])
Laid ==
  \A k \in 1..Len(msgs) :
    /\ msgs[k].from = From(k - 1)
    /\ \A j \in 1..(k - 1) : End(msgs[j]) <= msgs[k].from

\* The buffer is at its front whenever the loop may read, and nothing is read
\* once the connection is closed.
AtRest ==
  /\ closed = "no" /\ at \in {"top", "wait"} => ptr = 0
  /\ closed # "no" => at \in {"top", "wait"} /\ ~listed

\* The read list holds what filled its buffer, and only that.
Remembered ==
  closed = "no" =>
    /\ arrived > got => edge \/ listed
    /\ rlen = MaxBuf /\ MaxBuf > 0 => listed
    /\ listed => full

\* Until a length was made up the buffer starts with the message after those
\* passed on, and a length that is known is that one's.
Cutting ==
  ~guessed =>
    /\ got - rlen = From(Len(passed))
    /\ msglen # 0 => Len(passed) < Len(msgs) /\ msglen = msgs[Len(passed) + 1].len
    /\ at = "pass" => msglen # 0

IInv ==
  /\ TypeOK /\ BufferIsStream /\ MessagesWhole
  /\ Laid /\ AtRest /\ Remembered /\ Cutting

\* A message that has arrived is passed on, whatever else the buffer holds,
\* unless the connection ends (handle_readlist, handle_cli).
Arrived(k) == Len(msgs) >= k /\ arrived >= End(msgs[k])
MessagesArePassed ==
  \A k \in 1..MaxMsgs : Arrived(k) ~> Len(passed) >= k \/ closed # "no" \/ guessed

\* The end of the stream is noticed, also behind more data than the buffer
\* holds, unless a made-up length filled the buffer for ever (handle_read).
EndIsNoticed == fin ~> closed # "no" \/ guessed

-----------------------------------------------------------------------------
\* What the comments expect.

\* net_util.h:241, work.c:155: the read list is handled; in a work process a
\* message of a server that stopped in the socket is still passed on.
ListedIsRead == MessagesArePassed
=============================================================================
