---------------------------- MODULE SessionInv ----------------------------
(***************************************************************************)
(* What Session.tla is to satisfy: how the table of the master, the        *)
(* kernel, the queues and the sessions of the work processes agree, what   *)
(* it takes to break that, and what follows when a client hangs up or a    *)
(* work process closes it.  The last part states what the comments of the  *)
(* code expect and the code does not keep.                                 *)
(***************************************************************************)
EXTENDS Session

Entries == [type : {"listen", "cli", "null"}, idx : Works, conn : Conns \cup {NoConn}]
Blks == [type : {"OPEN", "DATA", "CLOSE"}, fd : Fds, conn : Conns \cup {NoConn}]

\* Every variable holds a value of the kind the code keeps there
\* (net_util.h:32-92, mem_queue.h:41-47, fds.h).
TypeOK ==
  /\ fdt \in [Fds -> Entries] /\ open \subseteq Fds /\ maxfd \in Fds \cup {-1}
  /\ at \in {"send", "wait", "events", "accept", "push"} /\ on \in Fds
  /\ ready \subseteq Fds /\ left \in 0..MaxMsgs
  /\ backlog \in [Works -> Seq(Conns)]
  /\ cli \in [Conns -> {"new", "up", "shut", "gone"}]
  /\ unread \in [Conns -> 0..MaxMsgs] /\ sent \in [Conns -> 0..MaxMsgs]
  /\ rq \in [Works -> Seq(Blks)] /\ sq \in [Works -> Seq(Blks)]
  /\ \A w \in Works : Len(rq[w]) <= QCap /\ Len(sq[w]) <= QCap
  /\ sess \in [Works -> [Fds -> Conns \cup {NoConn}]] /\ torn \in [Works -> BOOLEAN]
  /\ drops \in 0..MaxDrops
  /\ misclosed \in BOOLEAN /\ misrouted \in BOOLEAN /\ crossed \in BOOLEAN

Waits(c) == \E w \in Works : \E i \in 1..Len(backlog[w]) : backlog[w][i] = c
Holds(fd, c) == IsCli(fd) /\ fdt[fd].conn = c

\* The table of the master never disagrees with the kernel (do_fd_open and
\* do_fd_close change both): every descriptor in use is open, every open one
\* is in use, a connection is accepted at most once, and one that has neither
\* ended nor is waiting to be accepted can be reached through the table.  It
\* holds however many pushes go wrong.
TableMatchesKernel ==
  /\ open = {fd \in Fds : IsCli(fd) \/ (fd \in Works /\ fdt[fd].type = "listen")}
  /\ \A c \in Conns :
       /\ cli[c] \in {"up", "shut"} <=> Waits(c) \/ \E fd \in Fds : Holds(fd, c)
       /\ \A fd \in Fds : Holds(fd, c) =>
            ~Waits(c) /\ \A other \in Fds \ {fd} : ~Holds(other, c)

Held(w, fd) == IF IsCli(fd) /\ fdt[fd].idx = w THEN fdt[fd].conn ELSE NoConn

\* The session of fd once a work process that has s for it has worked through
\* the first n blocks of q.
Result(b) == IF b.type = "OPEN" THEN b.conn ELSE NoConn
After(q, n, fd, s) ==
  LET about == {i \in 1..n : q[i].fd = fd /\ q[i].type # "DATA"} IN
  IF about = {} THEN s
  ELSE Result(q[CHOOSE i \in about : \A j \in about : j <= i])

\* The session of fd once work process w has worked through its queue.
Coming(w, fd) == After(rq[w], Len(rq[w]), fd, sess[w][fd])

AskedToClose(w, fd, c) == \E i \in 1..Len(sq[w]) : sq[w][i] = Blk("CLOSE", fd, c)

\* As long as every push has queued its block, the two sides agree up to what
\* is still in the queues: what a work process will hold for a descriptor once
\* it has emptied rq is what the master holds now, except that it may have
\* closed that connection itself, and then its request is in sq (do_fd_open,
\* do_fd_close, close_cli, handle_mq_recv).
SessionsFollowMaster ==
  drops = 0 =>
    \A w \in Works, fd \in Fds :
      \/ Coming(w, fd) = Held(w, fd)
      \/ Coming(w, fd) = NoConn /\ AskedToClose(w, fd, Held(w, fd))

\* One push that goes wrong is enough to make do_blk_open refuse a connection,
\* but none is refused without one: handle_mq_recv rewrites a block in place
\* (work.c:263-264) only after a BLK_CLOSE was lost.
RefusalNeedsLostClose == (\E w \in Works : torn[w]) => drops > 0

\* One push that goes wrong never makes a work process serve the request of
\* one client in the session of another (do_blk_msg looks the session up by
\* descriptor alone): that takes the BLK_CLOSE of the first client and the
\* BLK_OPEN of the second.
CrossingNeedsTwoLosses == crossed => drops >= 2

\* A listening descriptor stays open as long as no push goes wrong, as the
\* comment at master.c:161 wants it always: only the failure branch of
\* do_fd_open (master.c:333) closes it, instead of the new descriptor.
ListenersStayUntilFailure ==
  drops = 0 => \A w \in Works : w \in open /\ fdt[w].type = "listen"

\* A reply or a close that waits in sq reaches another connection than the one
\* it was meant for only when that one is already over: nothing crosses as
\* long as both are there (do_blk_send, which goes by the descriptor alone).
CrossesOnlyWhenOver ==
  [][<<misrouted, misclosed>>' # <<misrouted, misclosed>> =>
       cli[Head(sq[on]).conn] = "gone"]_vars

\* What makes these inductive.  A connection waits in one place only, and what
\* has arrived of it was sent.
WaitsOnce ==
  \A v, w \in Works : \A i \in 1..Len(backlog[v]), j \in 1..Len(backlog[w]) :
    backlog[v][i] = backlog[w][j] => v = w /\ i = j
ArrivedWasSent == \A c \in Conns : unread[c] <= sent[c]

\* The master has in hand what it holds: a listener to accept from, a client to
\* read or to push for; and what epoll_wait reported is still there.
InHand ==
  /\ \A fd \in Fds : IsCli(fd) => fdt[fd].conn \in Conns
  /\ at \in {"send", "wait", "events"} => on \in Works
  /\ at = "accept" => on \in Works /\ fdt[on].type = "listen" /\ on \in open \ ready
  /\ at = "push" => IsCli(on) /\ on \notin ready /\ left > 0
  /\ at \in {"send", "wait"} => ready = {}
  /\ ready \subseteq open
  /\ \A fd \in ready : IsCli(fd) => unread[fdt[fd].conn] > 0 \/ cli[fdt[fd].conn] = "shut"

Base == TypeOK /\ TableMatchesKernel /\ WaitsOnce /\ ArrivedWasSent /\ InHand

\* A block or a session that names a connection names its descriptor, or that
\* connection is over.
Names(fd, c) == Holds(fd, c) \/ cli[c] = "gone"
Meant ==
  \A w \in Works :
    /\ \A fd \in Fds : sess[w][fd] # NoConn => Names(fd, sess[w][fd])
    /\ \A i \in 1..Len(rq[w]) :
         /\ rq[w][i].type # "CLOSE" => rq[w][i].conn # NoConn
         /\ rq[w][i].conn # NoConn => Names(rq[w][i].fd, rq[w][i].conn)
    /\ \A i \in 1..Len(sq[w]) : sq[w][i].conn # NoConn /\ Names(sq[w][i].fd, sq[w][i].conn)

\* Without a loss each BLK_OPEN will find no session.  With at most one each
\* BLK_DATA will find none or its own, and what is coming for a descriptor in
\* use is nothing or its own; unless the work process has left its queue in
\* the middle of a block.
OpensFindNone ==
  drops = 0 =>
    \A w \in Works : \A i \in 1..Len(rq[w]) :
      LET b == rq[w][i] IN
      b.type = "OPEN" => After(rq[w], i - 1, b.fd, sess[w][b.fd]) = NoConn
OneLoss(w) == MaxDrops > 1 /\ drops <= 1 /\ ~torn[w]
RequestsFindOwn ==
  \A w \in Works : OneLoss(w) =>
    \A i \in 1..Len(rq[w]) :
      LET b == rq[w][i] IN
      b.type = "DATA" => After(rq[w], i - 1, b.fd, sess[w][b.fd]) \in {NoConn, b.conn}
ComingIsOwn ==
  \A w \in Works : OneLoss(w) =>
    \A fd \in Fds : Held(w, fd) # NoConn => Coming(w, fd) \in {NoConn, Held(w, fd)}
NoCrossing == MaxDrops > 1 => CrossingNeedsTwoLosses

Agreed ==
  /\ SessionsFollowMaster /\ RefusalNeedsLostClose /\ OpensFindNone
  /\ RequestsFindOwn /\ ComingIsOwn /\ NoCrossing

IInv == Base /\ ListenersStayUntilFailure /\ Meant /\ Agreed

\* A client that hangs up loses its descriptor in the master, whatever the
\* queues do: safe_tcp_recv_n returns 0 and handle_read fails, or its listener
\* is closed first.
HangupIsNoticed == \A c \in Conns : cli[c] = "shut" ~> cli[c] = "gone"

InSession(c) == \E w \in Works, fd \in Fds : sess[w][fd] = c

\* The sessions of a connection that is over are removed (do_fd_close tells
\* the work process and do_blk_close calls on_cli_closed), unless some push
\* has gone wrong.
SessionsEnd == \A c \in Conns : cli[c] = "gone" ~> ~InSession(c) \/ drops > 0

AskedFor(c) == \E w \in Works, fd \in Fds : AskedToClose(w, fd, c)

\* A close that a work process has queued (close_cli, handle_mq_recv) ends
\* that connection, even when its descriptor has changed hands meanwhile.
AskedIsClosed == \A c \in Conns : AskedFor(c) ~> cli[c] = "gone"

-----------------------------------------------------------------------------
\* What the comments expect.

\* master.c:307 has a check of the block's validity before do_fd_send; and
\* send_to_cli (net_util.h:191) sends to the client of the session: a reply is
\* written to no other connection.
ReplyReachesItsSender == ~misrouted
=============================================================================
