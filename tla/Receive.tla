------------------------------ MODULE Receive ------------------------------
(***************************************************************************)
(* What one connection receives: the socket, the receive buffer rbf of its *)
(* fd_buff_t, the read list, and the messages cut out of the buffer.  The  *)
(* master does this for a client (handle_cli), a work process for a server *)
(* it is connected to (do_proc_svr); Master tells which one this is.       *)
(*                                                                         *)
(* Events are edge-triggered: epoll_wait reports a descriptor once when    *)
(* something arrives, so whoever stops reading before the socket is empty  *)
(* has to remember it, which is what the read list is for.                 *)
(*                                                                         *)
(* A byte is its place in what the peer has sent, counted from 0.  The     *)
(* first HdrLen bytes of a message hold its length, and get_msg_len reads  *)
(* them without asking how many have arrived (test_serv.cpp:126).  The     *)
(* bytes behind the filled part of the buffer, which it may see then, are  *)
(* not kept: any length may come of them, a negative one too.              *)
(***************************************************************************)
EXTENDS Integers, Sequences

CONSTANTS
  Master,   \* the dispatch loop: the master's or a work process's
  MaxBuf,   \* setting.max_buf_len
  HdrLen,   \* bytes in which a message states its length
  Lens,     \* lengths of the messages the peer sends
  MaxMsgs,  \* bound: messages the peer sends
  MaxOut    \* bound: blocks that can be passed on

ASSUME ReceiveAssumption ==
  /\ Master \in BOOLEAN
  /\ MaxBuf \in Nat /\ HdrLen \in Nat \ {0}
  /\ Lens \subseteq HdrLen..MaxBuf
  /\ MaxMsgs \in Nat /\ MaxOut \in Nat

VARIABLES
  msgs,      \* the messages sent so far: where in the stream, how long
  arrived,   \* bytes that have reached the socket
  fin,       \* the peer's end of stream has reached the socket
  edge,      \* epoll has an arrival to report
  got,       \* bytes taken from the socket
  rbf, rlen, \* the bytes in the buffer, and how many are still to be passed on
  ptr,       \* tmp_ptr - rbf
  msglen,    \* length of the message at ptr, 0 when not known
  listed,    \* on epinfo.readlist
  at, back,  \* what the loop is doing, and where it goes on after a message
  passed,    \* the messages passed on, each the sequence of its bytes
  \* history, read by no action but to end the connection:
  closed,    \* "no", or what made the handler return -1 or crash
  guessed,   \* get_msg_len has been asked with part of a header
  full       \* the last read filled the buffer to its last byte

peer == <<msgs, arrived, fin, edge>>
buffer == <<rbf, rlen, ptr, msglen>>
history == <<closed, guessed, full>>
vars == <<peer, got, buffer, listed, at, back, passed, history>>

End(m) == m.from + m.len
Total == IF msgs = <<>> THEN 0 ELSE End(msgs[Len(msgs)])

Readable == arrived > got \/ fin

Init ==
  /\ msgs = <<>> /\ arrived = 0 /\ fin = FALSE /\ edge = FALSE
  /\ got = 0
  /\ rbf = <<>> /\ rlen = 0 /\ ptr = 0 /\ msglen = 0
  /\ listed = FALSE
  /\ at = "top" /\ back = "wait"
  /\ passed = <<>>
  /\ closed = "no" /\ guessed = FALSE /\ full = FALSE

-----------------------------------------------------------------------------
\* The peer and the network, as long as there is a connection.

Send(n) ==
  /\ closed = "no" /\ ~fin /\ Len(msgs) < MaxMsgs
  /\ msgs' = Append(msgs, [from |-> Total, len |-> n])
  /\ UNCHANGED <<arrived, fin, edge, got, buffer, listed, at, back, passed, history>>

\* Any part of what is under way; TCP keeps no message boundaries.
Arrive(n) ==
  /\ closed = "no" /\ ~fin /\ arrived + n <= Total
  /\ arrived' = arrived + n /\ edge' = TRUE
  /\ UNCHANGED <<msgs, fin, got, buffer, listed, at, back, passed, history>>

ArriveEnd ==
  /\ closed = "no" /\ ~fin /\ arrived = Total
  /\ fin' = TRUE /\ edge' = TRUE
  /\ UNCHANGED <<msgs, arrived, got, buffer, listed, at, back, passed, history>>

-----------------------------------------------------------------------------
\* handle_read, and what its caller does with -1: the loop goes on at where.

Close(reason, where) ==
  /\ closed' = reason /\ listed' = FALSE
  /\ at' = where
  /\ UNCHANGED <<got, buffer, back, full>>

\* recv writes n bytes at rbf + rlen.
Take(n) ==
  /\ rbf' = SubSeq(rbf, 1, rlen) \o [i \in 1..n |-> got + i - 1]
  /\ rlen' = rlen + n /\ got' = got + n

Cut(where) == at' = "cut" /\ ptr' = 0 /\ back' = where

\* Mistake: one byte more than there is room for.
Bug_FullByOne(where) ==
  LET space == MaxBuf - rlen + 1 IN
  /\ arrived - got >= space
  /\ Take(space)
  /\ listed' = TRUE /\ full' = TRUE
  /\ Cut(where)
  /\ UNCHANGED <<msglen, closed>>

\* Mistake: what fills the buffer is not put on the read list.
Bug_NotListed(where) ==
  LET space == MaxBuf - rlen IN
  /\ space > 0 /\ arrived - got >= space
  /\ Take(space)
  /\ full' = TRUE
  /\ Cut(where)
  /\ UNCHANGED <<msglen, closed, listed>>

\* safe_tcp_recv_n fills the space there is and stops.
ReadFull(where) ==
  LET space == MaxBuf - rlen IN
  /\ space > 0 /\ arrived - got >= space
  /\ Take(space)
  /\ listed' = TRUE /\ full' = TRUE
  /\ Cut(where)
  /\ UNCHANGED <<msglen, closed>>

\* Mistake: the descriptor stays on the read list when the socket is empty.
Bug_StaysListed(where) ==
  LET n == arrived - got IN
  /\ n > 0 /\ n < MaxBuf - rlen /\ ~fin
  /\ Take(n)
  /\ full' = FALSE
  /\ Cut(where)
  /\ UNCHANGED <<msglen, closed, listed>>

\* Or it empties the socket.
ReadAll(where) ==
  LET n == arrived - got IN
  /\ n > 0 /\ n < MaxBuf - rlen /\ ~fin
  /\ Take(n)
  /\ listed' = FALSE /\ full' = FALSE
  /\ Cut(where)
  /\ UNCHANGED <<msglen, closed>>

\* Mistake: what came before the end of the stream is returned, the end not
\* remembered.
Bug_EndForgotten(where) ==
  LET n == arrived - got IN
  /\ rlen < MaxBuf /\ fin /\ n < MaxBuf - rlen
  /\ \/ n = 0 /\ Close("end", where)
     \/ /\ n > 0
        /\ Take(n)
        /\ listed' = FALSE /\ full' = FALSE
        /\ Cut(where)
        /\ UNCHANGED <<msglen, closed>>

\* recv answers 0, and what it read before in this call is forgotten.
ReadEnd(where) ==
  /\ rlen < MaxBuf /\ fin /\ arrived - got < MaxBuf - rlen
  /\ Close("end", where)

\* The socket is empty: EAGAIN at once, the function returns the 0 bytes it
\* has read, and 0 is taken for the end of the stream.
ReadNothing(where) ==
  /\ rlen < MaxBuf /\ ~fin /\ arrived = got
  /\ Close("empty", where)

\* The buffer is full of an unfinished message.
ReadNoSpace(where) ==
  /\ rlen = MaxBuf
  /\ Cut(where)
  /\ UNCHANGED <<got, rbf, rlen, msglen, listed, closed, full>>

HandleRead(where) ==
  /\ \/ ReadFull(where) \/ ReadAll(where) \/ ReadEnd(where)
     \/ ReadNothing(where) \/ ReadNoSpace(where)
  /\ UNCHANGED <<passed, guessed>>

-----------------------------------------------------------------------------
\* The dispatch loop, as far as this descriptor goes.

\* handle_readlist
Listed ==
  /\ at = "top" /\ listed
  /\ HandleRead("wait")
  /\ UNCHANGED peer

NotListed ==
  /\ at = "top" /\ ~listed
  /\ at' = "wait"
  /\ UNCHANGED <<peer, got, buffer, listed, back, passed, history>>

\* The master comes by its read list in every round, a work process only
\* before its first.
Round == IF Master THEN "top" ELSE "wait"

\* epoll_wait reports an arrival once, and not when it has been read since.
Event ==
  /\ at = "wait" /\ closed = "no" /\ edge /\ Readable
  /\ edge' = FALSE
  /\ HandleRead(Round)
  /\ UNCHANGED <<msgs, arrived, fin>>

NoEvent ==
  /\ at = "wait" /\ ~(closed = "no" /\ edge /\ Readable)
  /\ at' = Round /\ edge' = FALSE
  /\ UNCHANGED <<msgs, arrived, fin, got, buffer, listed, back, passed, history>>

-----------------------------------------------------------------------------
\* The loop of handle_cli and do_proc_svr that cuts the buffer into messages.

\* get_msg_len: the length of the message that starts at ptr, if its header is
\* there.  Otherwise the plugin makes one up from the bytes that are, an int
\* which can be negative; all that matters of a negative one is its sign.
Guesses == Lens \cup {-1, 0, MaxBuf + 1}
Begins(m) ==
  /\ rlen >= HdrLen
  /\ \A i \in 1..HdrLen : rbf[ptr + i] = m.from + i - 1

GetLen ==
  /\ at = "cut" /\ msglen = 0 /\ rlen > 0
  /\ \/ \E k \in 1..Len(msgs) :
          Begins(msgs[k]) /\ msglen' = msgs[k].len /\ UNCHANGED guessed
     \/ /\ \A k \in 1..Len(msgs) : ~Begins(msgs[k])
        /\ msglen' \in Guesses /\ guessed' = TRUE
  /\ at' = "pass"
  /\ UNCHANGED <<peer, got, rbf, rlen, ptr, listed, back, passed, closed, full>>

KnowLen ==
  /\ at = "cut" /\ msglen # 0
  /\ at' = "pass"
  /\ UNCHANGED <<peer, got, buffer, listed, back, passed, history>>

\* Mistake: the length of the last message is kept for the next.
Bug_LenKept ==
  /\ at = "pass" /\ msglen \in 0..rlen /\ Len(passed) < MaxOut
  /\ passed' = Append(passed, SubSeq(rbf, ptr + 1, ptr + msglen))
  /\ ptr' = ptr + msglen /\ rlen' = rlen - msglen
  /\ at' = IF rlen > msglen THEN "cut" ELSE "keep"
  /\ UNCHANGED <<peer, got, rbf, msglen, listed, back, history>>

\* Mistake: one message for each time the socket is read.
Bug_OneMessage ==
  /\ at = "pass" /\ msglen \in 0..rlen /\ Len(passed) < MaxOut
  /\ passed' = Append(passed, SubSeq(rbf, ptr + 1, ptr + msglen))
  /\ ptr' = ptr + msglen /\ rlen' = rlen - msglen /\ msglen' = 0
  /\ at' = "keep"
  /\ UNCHANGED <<peer, got, rbf, listed, back, history>>

\* mq_push in the master, proc_serv_msg in a work process.
PassOn ==
  /\ at = "pass" /\ msglen \in 0..rlen /\ Len(passed) < MaxOut
  /\ passed' = Append(passed, SubSeq(rbf, ptr + 1, ptr + msglen))
  /\ ptr' = ptr + msglen /\ rlen' = rlen - msglen /\ msglen' = 0
  /\ at' = IF rlen > msglen THEN "cut" ELSE "keep"
  /\ UNCHANGED <<peer, got, rbf, listed, back, history>>

\* mq_push returns -1: the client is closed.
PassRefused ==
  /\ Master /\ at = "pass" /\ rlen >= msglen
  /\ Close("refused", back)
  /\ UNCHANGED <<peer, passed, guessed>>

\* A negative length is less than rlen.  mq_push copies that many bytes less
\* than none and the master crashes; a work process hands the length to the
\* plugin and goes on in front of the buffer.  Either is followed no further.
PassNegative ==
  /\ at = "pass" /\ msglen < 0
  /\ Close("negative", back)
  /\ UNCHANGED <<peer, passed, guessed>>

TooShort ==
  /\ at = "pass" /\ rlen < msglen
  /\ at' = "keep"
  /\ UNCHANGED <<peer, got, buffer, listed, back, passed, history>>

\* Mistake: what is left stays where it is.
Bug_NotMoved ==
  /\ at = "keep"
  /\ ptr' = 0
  /\ at' = back
  /\ UNCHANGED <<peer, got, rbf, rlen, msglen, listed, back, passed, history>>

\* memmove what is left to the front.
Keep ==
  /\ at = "keep"
  /\ rbf' = SubSeq(rbf, ptr + 1, ptr + rlen)
  /\ ptr' = 0
  /\ at' = back
  /\ UNCHANGED <<peer, got, rlen, msglen, listed, back, passed, history>>

Loop ==
  \/ Listed \/ NotListed \/ Event \/ NoEvent
  \/ GetLen \/ KnowLen \/ PassOn \/ PassRefused \/ PassNegative \/ TooShort \/ Keep

Network ==
  \/ \E n \in Lens : Send(n)
  \/ \E n \in 1..(MaxMsgs * MaxBuf) : Arrive(n)
  \/ ArriveEnd

Next == Network \/ Loop

Spec == Init /\ [][Next]_vars

\* The loop goes round for ever; the peer need not send, nor end.
FairSpec == Spec /\ WF_vars(Loop)
=============================================================================
