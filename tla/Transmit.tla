----------------------------- MODULE Transmit -----------------------------
(***************************************************************************)
(* What one connection sends: do_fd_send, the send buffer sbf of its       *)
(* fd_buff_t, do_fd_write, and the writable events that are to empty the   *)
(* buffer.  The master sends replies to a client this way, a work process  *)
(* its requests to a server (send_to_serv); both dispatch loops treat      *)
(* EPOLLOUT alike.                                                         *)
(*                                                                         *)
(* A byte is its place in what do_fd_send has been asked to send, counted  *)
(* from 0.  Events are edge-triggered: the kernel puts the descriptor on   *)
(* its ready list when bytes arrive, when room is made in a socket that    *)
(* was found full, and when EPOLL_CTL_MOD finds it ready.  Memory does not *)
(* run out.                                                                *)
(***************************************************************************)
EXTENDS Integers, Sequences, FiniteSets

CONSTANTS
  MaxBuf,   \* setting.max_buf_len
  SockBuf,  \* bytes the socket takes before the peer reads
  Lens,     \* lengths of the messages sent
  MaxSends, \* bound: messages sent
  MaxInput  \* bound: arrivals from the peer

ASSUME TransmitAssumption ==
  /\ MaxBuf \in Nat \ {0} /\ SockBuf \in Nat \ {0}
  /\ Lens \subseteq Nat \ {0}
  /\ MaxSends \in Nat /\ MaxInput \in Nat

VARIABLES
  sends, asked,  \* messages and bytes do_fd_send was given
  sbf,           \* the first slen bytes of the send buffer
  alloc, size,   \* bytes allocated for it, and sbf_size
  interest,      \* the descriptor's events: "in" or "inout"
  open,          \* the connection has not been closed here
  \* the kernel and the peer:
  wire,          \* bytes the socket has taken, in order
  room,          \* bytes it can still take
  starved,       \* it was found full since (SOCK_NOSPACE)
  woken,         \* it is on epoll's ready list
  unread,        \* it holds input that has not been read
  inputs,        \* arrivals so far
  reset,         \* the peer has reset the connection
  \* history, read by no action:
  lost,          \* bytes do_fd_send dropped
  whole,         \* do_fd_write has written a buffer to its last byte
  missed         \* no writable event will come for what waits

buffer == <<sbf, alloc, size, interest>>
kernel == <<room, starved, woken>>
peer == <<unread, inputs, reset>>
history == <<lost, whole, missed>>
vars == <<sends, asked, buffer, open, wire, kernel, peer, history>>

Init ==
  /\ sends = 0 /\ asked = 0
  /\ sbf = <<>> /\ alloc = 0 /\ size = 0 /\ interest = "in"
  /\ open = TRUE
  /\ wire = <<>> /\ room = SockBuf /\ starved = FALSE /\ woken = FALSE
  /\ unread = FALSE /\ inputs = 0 /\ reset = FALSE
  /\ lost = {} /\ whole = FALSE /\ missed = FALSE

First(s, n) == IF n < Len(s) THEN SubSeq(s, 1, n) ELSE s
Behind(s, n) == SubSeq(s, n + 1, Len(s))
Bytes(n) == [i \in 1..n |-> asked + i - 1]

\* Is there something to report to whoever asked for these events?
Ready(events, space) == unread \/ reset \/ (events = "inout" /\ space > 0)

\* EPOLL_CTL_MOD looks at the socket at once.
SetInterest(events, space) ==
  /\ interest' = events
  /\ woken' = (woken \/ Ready(events, space))

-----------------------------------------------------------------------------
\* do_fd_write: what is in the buffer goes out as far as the socket takes it.

\* The rest is moved to the front, but a buffer that was written to its last
\* byte keeps its length.
AfterWrite(data) == IF Len(data) <= room THEN data ELSE Behind(data, room)

Written(data) ==
  /\ wire' = wire \o First(data, room)
  /\ whole' = (whole \/ Len(data) <= room)

\* What is left of the room, and whether send answered EAGAIN.
RoomAfter(n) == IF n <= room THEN room - n ELSE 0
Starves(n) == starved' = (starved \/ n > room)

-----------------------------------------------------------------------------
\* do_fd_send

Close ==
  /\ open' = FALSE
  /\ sbf' = <<>> /\ alloc' = 0 /\ size' = 0 /\ interest' = "in"
  /\ woken' = FALSE

Call(n) ==
  /\ open /\ sends < MaxSends
  /\ sends' = sends + 1 /\ asked' = asked + n
  /\ UNCHANGED peer

\* send answers an error, for the buffer or for the message.
SendFails(n) ==
  /\ Call(n) /\ reset
  /\ Close
  /\ UNCHANGED <<wire, room, starved, history>>

\* Nothing waits and the socket takes it all.
SendAll(n) ==
  /\ Call(n) /\ ~reset /\ sbf = <<>> /\ n <= room
  /\ wire' = wire \o Bytes(n) /\ room' = room - n
  /\ SetInterest("in", room')
  /\ UNCHANGED <<sbf, alloc, size, open, starved, history>>

\* Mistake: the memory is given back, and the next message is cut too.
Bug_FreesBuffer(n) ==
  /\ Call(n) /\ ~reset /\ sbf = <<>> /\ n > room /\ alloc = 0
  /\ wire' = wire \o First(Bytes(n), room) /\ room' = 0 /\ starved' = TRUE
  /\ lost' = lost \cup {asked + i : i \in room..(n - 1)}
  /\ UNCHANGED <<sbf, alloc, size, interest, open, woken, whole, missed>>

\* The first time something is left over the check of malloc is the wrong way
\* round: the buffer is there from now on, but this message loses its rest.
SendCutsShort(n) ==
  /\ Call(n) /\ ~reset /\ sbf = <<>> /\ n > room /\ alloc = 0
  /\ wire' = wire \o First(Bytes(n), room) /\ room' = 0 /\ starved' = TRUE
  /\ alloc' = n - room
  /\ lost' = lost \cup {asked + i : i \in room..(n - 1)}
  /\ UNCHANGED <<sbf, size, interest, open, woken, whole, missed>>

\* Mistake: the limit is checked before the rest is added.
Bug_LimitBefore(rest) == Len(sbf) <= MaxBuf

\* max_buf_len < slen
Fits(rest) == Len(rest) <= MaxBuf

\* Mistake: sbf_size is compared with what is added alone.
Bug_GrowForRest(len, left) == size < left

\* Is the buffer too small for slen + left_len?
MustGrow(len, left) == size < len + left

\* left goes behind what is kept of the buffer.
Store(kept, left) ==
  LET n == Len(kept) + Len(left) IN
  /\ sbf' = kept \o left
  /\ IF MustGrow(Len(kept), Len(left))
     THEN alloc' = n /\ size' = n
     ELSE UNCHANGED <<alloc, size>>

\* Mistake: the event mask stays as it was.
Bug_NoInterest(n) ==
  LET rest == Behind(Bytes(n), room) IN
  /\ Call(n) /\ ~reset /\ sbf = <<>> /\ n > room /\ alloc > 0
  /\ wire' = wire \o First(Bytes(n), room) /\ room' = 0 /\ starved' = TRUE
  /\ IF Fits(rest)
     THEN Store(<<>>, rest) /\ UNCHANGED <<interest, woken, open>>
     ELSE Close
  /\ UNCHANGED history

\* Later the rest is buffered and a writable event asked for.
SendRest(n) ==
  LET rest == Behind(Bytes(n), room) IN
  /\ Call(n) /\ ~reset /\ sbf = <<>> /\ n > room /\ alloc > 0
  /\ wire' = wire \o First(Bytes(n), room) /\ room' = 0 /\ starved' = TRUE
  /\ IF Fits(rest)
     THEN Store(<<>>, rest) /\ SetInterest("inout", 0) /\ UNCHANGED open
     ELSE Close
  /\ UNCHANGED history

\* Mistake: a message is sent past the buffer when the socket has room left.
Bug_Overtakes(n) ==
  /\ Call(n) /\ ~reset /\ sbf # <<>>
  /\ wire' = wire \o First(Bytes(n), room)
  /\ room' = RoomAfter(n) /\ Starves(n)
  /\ IF Fits(sbf \o Behind(Bytes(n), room))
     THEN Store(sbf, Behind(Bytes(n), room)) /\ UNCHANGED <<interest, woken, open>>
     ELSE Close
  /\ UNCHANGED history

\* The buffer is written first; since it never becomes empty the message goes
\* behind what it holds, and the events are left alone.  If the socket took
\* the buffer whole it is not full, and there may be no event to come.
SendBehind(n) ==
  LET kept == AfterWrite(sbf) IN
  /\ Call(n) /\ ~reset /\ sbf # <<>>
  /\ Written(sbf)
  /\ room' = RoomAfter(Len(sbf)) /\ Starves(Len(sbf))
  /\ IF Fits(kept \o Bytes(n))
     THEN Store(kept, Bytes(n)) /\ UNCHANGED <<interest, woken, open>>
     ELSE Close
  /\ missed' = (missed \/ (Len(sbf) <= room /\ ~woken))
  /\ UNCHANGED lost

Send(n) ==
  \/ SendFails(n) \/ SendAll(n) \/ SendCutsShort(n) \/ SendRest(n) \/ SendBehind(n)

-----------------------------------------------------------------------------
\* The dispatch loop, as far as this descriptor goes.  Reporting an event
\* takes it off the ready list; looking at a full socket leaves a mark on it.

Unwritten == \E i \in 1..Len(sbf) : \A j \in 1..Len(wire) : wire[j] # sbf[i]

\* The input is read (handle_cli, do_proc_svr); a writable event that came
\* with it goes the way of `else if'.
EventIn ==
  /\ open /\ woken /\ unread /\ ~reset
  /\ unread' = FALSE /\ woken' = FALSE
  /\ starved' = (starved \/ room = 0)
  /\ missed' = (missed \/ (interest = "inout" /\ room > 0 /\ Unwritten))
  /\ UNCHANGED <<sends, asked, buffer, open, wire, room, inputs, reset, lost, whole>>

\* The read answers an error.
EventReset ==
  /\ open /\ woken /\ reset
  /\ Close
  /\ UNCHANGED <<sends, asked, wire, room, starved, peer, history>>

EventOut ==
  /\ open /\ woken /\ ~unread /\ ~reset /\ interest = "inout" /\ room > 0
  /\ IF sbf = <<>>
     THEN /\ SetInterest("in", room)
          /\ UNCHANGED <<sbf, wire, room, starved, whole>>
     ELSE /\ Written(sbf) /\ sbf' = AfterWrite(sbf)
          /\ room' = RoomAfter(Len(sbf)) /\ Starves(Len(sbf))
          /\ woken' = FALSE
          /\ UNCHANGED interest
  /\ UNCHANGED <<sends, asked, alloc, size, open, peer, lost, missed>>

\* Nothing to report after all.
EventNone ==
  /\ open /\ woken /\ ~Ready(interest, room)
  /\ woken' = FALSE /\ starved' = (starved \/ room = 0)
  /\ UNCHANGED <<sends, asked, buffer, open, wire, room, peer, history>>

Event == EventIn \/ EventReset \/ EventOut \/ EventNone

-----------------------------------------------------------------------------
\* The peer and the network.

PeerReads(n) ==
  /\ open /\ ~reset /\ room + n <= SockBuf
  /\ room' = room + n
  /\ starved' = FALSE
  /\ woken' = (woken \/ (starved /\ interest = "inout"))
  /\ UNCHANGED <<sends, asked, buffer, open, wire, peer, history>>

PeerSends ==
  /\ open /\ ~reset /\ inputs < MaxInput
  /\ unread' = TRUE /\ inputs' = inputs + 1 /\ woken' = TRUE
  /\ UNCHANGED <<sends, asked, buffer, open, wire, room, starved, reset, history>>

PeerResets ==
  /\ open /\ ~reset
  /\ reset' = TRUE /\ woken' = TRUE
  /\ UNCHANGED <<sends, asked, buffer, open, wire, room, starved, unread, inputs, history>>

Next ==
  \/ \E n \in Lens : Send(n)
  \/ Event
  \/ \E n \in 1..SockBuf : PeerReads(n)
  \/ PeerSends \/ PeerResets

Spec == Init /\ [][Next]_vars

\* The loop goes round for ever, and a peer that does not reset the connection
\* reads what it is sent.
FairSpec == Spec /\ WF_vars(Event) /\ WF_vars(PeerReads(SockBuf - room))
=============================================================================
