------------------------------ MODULE Session ------------------------------
(***************************************************************************)
(* Client connections across the two sides of sserver.  The master owns    *)
(* the sockets and the table epinfo.fds (master.c, net_util.c); each work  *)
(* process keeps a session per descriptor number (work.c, fds.c).  The two *)
(* only talk through the queues rq (master to work) and sq (work to        *)
(* master), so each side acts on what the other did some time ago, while   *)
(* the kernel hands out the lowest free descriptor number again and again. *)
(*                                                                         *)
(* A queue is the channel of BlockChannel.tla.  What mq_push can answer is *)
(* what MemQueue.tla shows of it: the block is queued; or -1, when there   *)
(* is no room where it would go, which can be long before the queue holds  *)
(* as many blocks as it might; or 0 although nothing was queued.           *)
(*                                                                         *)
(* A block names a descriptor.  Its field conn, which no action reads to   *)
(* decide anything, names the connection the sender meant by it.           *)
(***************************************************************************)
EXTENDS Integers, Sequences, FiniteSets

CONSTANTS
  Conns,     \* connections that clients make
  NoConn,    \* no connection
  NWork,     \* workmgr.nr_used
  NFd,       \* bound: descriptor numbers
  QCap,      \* bound: blocks in a queue
  MaxMsgs,   \* bound: messages a client sends
  MaxDrops   \* bound: pushes that go wrong before the queue is full

ASSUME SessionAssumption ==
  /\ NoConn \notin Conns
  /\ NWork \in Nat \ {0} /\ NFd \in Nat /\ NWork <= NFd
  /\ QCap \in Nat \ {0} /\ MaxMsgs \in Nat /\ MaxDrops \in Nat \ {0}

Works == 1..NWork
Fds == 1..NFd          \* work w listens on descriptor w

VARIABLES
  fdt,        \* epinfo.fds: type, idx, and the connection it was made for
  open,       \* descriptors open in the master, as the kernel sees them
  maxfd,      \* epinfo.maxfd
  at, on,     \* what master_dispatch is doing, and on which work or descriptor
              \* (1 when on neither)
  ready,      \* events of the last epoll_wait still to be handled
  left,       \* messages handle_cli has read and still has to push
  backlog,    \* per work: connections waiting to be accepted
  cli,        \* per client: "new", "up", "shut" (it hung up), "gone"
  unread,     \* per client: messages in the master's socket buffer
  sent,       \* per client: messages sent so far
  rq, sq,     \* per work: the queues
  sess,       \* per work: the hash table fds, and whose session it is
  torn,       \* per work: mq_pop has left rq in the middle of a block
  \* history, read by no action:
  drops,      \* pushes that queued nothing, counted up to MaxDrops
  misclosed,  \* a BLK_CLOSE of sq has closed another connection
  misrouted,  \* a BLK_DATA of sq has been written to another connection
  crossed     \* a request has been processed in another client's session

loopVars == <<at, on, ready, left>>
tableVars == <<fdt, open, maxfd, backlog>>
clientVars == <<cli, unread, sent>>
workVars == <<sess, torn>>
flags == <<misclosed, misrouted, crossed>>
vars == <<loopVars, tableVars, clientVars, rq, sq, workVars, drops, flags>>

Blk(type, fd, c) == [type |-> type, fd |-> fd, conn |-> c]
Entry(type, w, c) == [type |-> type, idx |-> w, conn |-> c]

\* The table comes from calloc, and type 0 is fd_type_listen.
Init ==
  /\ fdt = [fd \in Fds |-> Entry("listen", IF fd \in Works THEN fd ELSE 1, NoConn)]
  /\ open = Works /\ maxfd = NWork
  /\ at = "send" /\ on = 1 /\ ready = {} /\ left = 0
  /\ backlog = [w \in Works |-> <<>>]
  /\ cli = [c \in Conns |-> "new"]
  /\ unread = [c \in Conns |-> 0] /\ sent = [c \in Conns |-> 0]
  /\ rq = [w \in Works |-> <<>>] /\ sq = [w \in Works |-> <<>>]
  /\ sess = [w \in Works |-> [fd \in Fds |-> NoConn]]
  /\ torn = [w \in Works |-> FALSE]
  /\ drops = 0
  /\ misclosed = FALSE /\ misrouted = FALSE /\ crossed = FALSE

-----------------------------------------------------------------------------
\* Mutant of Pushed: a full queue takes one block more.
Bug_RoomForOneMore(q, b, d) ==
  IF Len(q) <= QCap THEN {[q |-> Append(q, b), ret |-> 0, drops |-> d]}
  ELSE {[q |-> q, ret |-> -1, drops |-> d]}

\* mq_push of b on q after d drops: what becomes of the queue and of drops,
\* and what the caller is told.
Pushed(q, b, d) ==
  LET more == IF d < MaxDrops THEN d + 1 ELSE d IN
  (IF Len(q) < QCap THEN {[q |-> Append(q, b), ret |-> 0, drops |-> d]} ELSE {})
  \cup (IF Len(q) = QCap \/ d < MaxDrops THEN {[q |-> q, ret |-> -1, drops |-> more]} ELSE {})
  \cup (IF d < MaxDrops THEN {[q |-> q, ret |-> 0, drops |-> more]} ELSE {})

IsCli(fd) == fdt[fd].type = "cli"

\* do_fd_close, `replacing the largest fd`: the scan from fd - 1 down stops at
\* the first slot that is closed; slots below Fds and never used ones are not.
MaxAfter(t, m, fd) ==
  IF m # fd THEN m
  ELSE LET null == {i \in 1..(fd - 1) : t[i].type = "null"} IN
       IF null = {} THEN -1 ELSE CHOOSE i \in null : \A j \in null : j <= i

\* Mutant of Dropped: close(fd) is forgotten.
Bug_NotClosed(fd) ==
  /\ fdt' = [fdt EXCEPT ![fd].type = "null"]
  /\ maxfd' = MaxAfter(fdt, maxfd, fd)
  /\ cli' = [cli EXCEPT ![fdt[fd].conn] = "gone"]
  /\ unread' = [unread EXCEPT ![fdt[fd].conn] = 0]
  /\ UNCHANGED <<open, backlog, sent>>

\* The rest of do_fd_close: the entry, the descriptor and with them the
\* connection.
Dropped(fd) ==
  /\ fdt' = [fdt EXCEPT ![fd].type = "null"]
  /\ open' = open \ {fd}
  /\ maxfd' = MaxAfter(fdt, maxfd, fd)
  /\ cli' = [cli EXCEPT ![fdt[fd].conn] = "gone"]
  /\ unread' = [unread EXCEPT ![fdt[fd].conn] = 0]
  /\ UNCHANGED <<backlog, sent>>

\* Mutant of CloseAndTell: the work process is never told.
Bug_TellNobody(fd, d) == rq' = rq /\ drops' = d /\ Dropped(fd)

\* do_fd_close(fd, ismaster), where ismaster is 1 or 2: the work process is
\* told either way.  A push that fails is logged, no more; d is drops before.
CloseAndTell(fd, d) ==
  LET w == fdt[fd].idx IN
  /\ \E r \in Pushed(rq[w], Blk("CLOSE", fd, fdt[fd].conn), d) :
       rq' = [rq EXCEPT ![w] = r.q] /\ drops' = r.drops
  /\ Dropped(fd)

-----------------------------------------------------------------------------
\* The clients.

Connect(c, w) ==
  /\ cli[c] = "new" /\ w \in open /\ fdt[w].type = "listen"
  /\ cli' = [cli EXCEPT ![c] = "up"]
  /\ backlog' = [backlog EXCEPT ![w] = Append(@, c)]
  /\ UNCHANGED <<loopVars, fdt, open, maxfd, unread, sent, rq, sq, workVars, drops, flags>>

SendMsg(c) ==
  /\ cli[c] = "up" /\ sent[c] < MaxMsgs
  /\ sent' = [sent EXCEPT ![c] = @ + 1]
  /\ unread' = [unread EXCEPT ![c] = @ + 1]
  /\ UNCHANGED <<loopVars, tableVars, cli, rq, sq, workVars, drops, flags>>

HangUp(c) ==
  /\ cli[c] = "up"
  /\ cli' = [cli EXCEPT ![c] = "shut"]
  /\ UNCHANGED <<loopVars, tableVars, unread, sent, rq, sq, workVars, drops, flags>>

-----------------------------------------------------------------------------
\* The master, top of the loop: handle_mq_send empties each sq in turn.
\* mq_get can answer NULL although blocks are queued, when the writer wraps
\* between its two reads of head, so the walk can move on at any time.

NextQueue ==
  /\ at = "send"
  /\ IF on < NWork THEN on' = on + 1 /\ UNCHANGED at ELSE at' = "wait" /\ on' = 1
  /\ UNCHANGED <<ready, left, tableVars, clientVars, rq, sq, workVars, drops, flags>>

Handling(type) == at = "send" /\ sq[on] # <<>> /\ Head(sq[on]).type = type
PopSq == sq' = [sq EXCEPT ![on] = Tail(@)]

\* do_fd_send: whoever owns the descriptor now is written to.
Reply ==
  /\ Handling("DATA")
  /\ LET b == Head(sq[on]) IN
     \/ /\ IsCli(b.fd)
        /\ misrouted' = (misrouted \/ fdt[b.fd].conn # b.conn)
        /\ UNCHANGED <<tableVars, clientVars, rq, drops>>
     \/ /\ IsCli(b.fd)      \* the write fails, or the output outgrows max_buf_len
        /\ CloseAndTell(b.fd, drops)
        /\ UNCHANGED misrouted
     \/ /\ ~IsCli(b.fd)      \* EBADF, and do_fd_close finds fd_type_null
        /\ UNCHANGED <<misrouted, tableVars, clientVars, rq, drops>>
  /\ PopSq
  /\ UNCHANGED <<loopVars, workVars, misclosed, crossed>>

\* Mutants of CloseAsked: the work process is not told, as it asked for it;
\* and nothing is closed.
Bug_AskerNotTold ==
  /\ Handling("CLOSE")
  /\ LET b == Head(sq[on]) IN
     \/ /\ IsCli(b.fd)
        /\ Dropped(b.fd)
        /\ misclosed' = (misclosed \/ fdt[b.fd].conn # b.conn)
     \/ ~IsCli(b.fd) /\ UNCHANGED <<tableVars, clientVars, misclosed>>
  /\ PopSq
  /\ UNCHANGED <<loopVars, rq, workVars, drops, misrouted, crossed>>

Bug_CloseIgnored ==
  /\ Handling("CLOSE") /\ PopSq
  /\ UNCHANGED <<loopVars, tableVars, clientVars, rq, workVars, drops, flags>>

\* do_fd_close(fd, 2): the work process is told of what it asked for.
CloseAsked ==
  /\ Handling("CLOSE")
  /\ LET b == Head(sq[on]) IN
     \/ /\ IsCli(b.fd)
        /\ CloseAndTell(b.fd, drops)
        /\ misclosed' = (misclosed \/ fdt[b.fd].conn # b.conn)
     \/ /\ ~IsCli(b.fd)
        /\ UNCHANGED <<tableVars, clientVars, misclosed, rq, drops>>
  /\ PopSq
  /\ UNCHANGED <<loopVars, workVars, misrouted, crossed>>

\* epoll_wait; all ready descriptors are reported, and none on a timeout.
EpollWait ==
  /\ at = "wait"
  /\ ready' = {w \in Works : fdt[w].type = "listen" /\ backlog[w] # <<>>}
              \cup {fd \in open : IsCli(fd) /\ (unread[fdt[fd].conn] > 0
                                               \/ cli[fdt[fd].conn] = "shut")}
  /\ at' = "events"
  /\ UNCHANGED <<on, left, tableVars, clientVars, rq, sq, workVars, drops, flags>>

LoopTop ==
  /\ at = "events" /\ ready = {}
  /\ at' = "send"
  /\ UNCHANGED <<on, ready, left, tableVars, clientVars, rq, sq, workVars, drops, flags>>

Event(fd) == at = "events" /\ fd \in ready /\ ready' = ready \ {fd}

\* while (do_fd_open(fd) != -1)
StartAccept(fd) ==
  /\ Event(fd) /\ fdt[fd].type = "listen"
  /\ at' = "accept" /\ on' = fd
  /\ UNCHANGED <<left, tableVars, clientVars, rq, sq, workVars, drops, flags>>

Lowest(s) == CHOOSE fd \in s : \A other \in s : fd <= other

\* One do_fd_open that gets a connection.  When the BLK_OPEN cannot be queued
\* do_fd_close is called for fd, the listening descriptor, not for newfd: the
\* kernel resets what waits to be accepted, and the next accept fails.
Accept ==
  /\ at = "accept" /\ backlog[on] # <<>> /\ Fds \ open # {}
  /\ LET c == Head(backlog[on])
         fd == Lowest(Fds \ open)
         w == fdt[on].idx
         table == [fdt EXCEPT ![fd] = Entry("cli", w, c)]
         top == IF maxfd < fd THEN fd ELSE maxfd
     IN \E r \in Pushed(rq[w], Blk("OPEN", fd, c), drops) :
          \/ /\ r.ret = 0
             /\ rq' = [rq EXCEPT ![w] = r.q] /\ drops' = r.drops
             /\ fdt' = table /\ open' = open \cup {fd} /\ maxfd' = top
             /\ backlog' = [backlog EXCEPT ![on] = Tail(@)]
             /\ UNCHANGED <<at, on, clientVars>>
          \/ /\ r.ret = -1
             /\ \E told \in Pushed(r.q, Blk("CLOSE", on, NoConn), r.drops) :
                  rq' = [rq EXCEPT ![w] = told.q] /\ drops' = told.drops
             /\ fdt' = [table EXCEPT ![on].type = "null"]
             /\ open' = (open \cup {fd}) \ {on}
             /\ maxfd' = MaxAfter(table, top, on)
             /\ backlog' = [backlog EXCEPT ![on] = <<>>]
             /\ LET reset == {backlog[on][i] : i \in 2..Len(backlog[on])} IN
                /\ cli' = [x \in Conns |-> IF x \in reset THEN "gone" ELSE cli[x]]
                /\ unread' = [x \in Conns |-> IF x \in reset THEN 0 ELSE unread[x]]
             /\ at' = "events" /\ on' = 1
             /\ UNCHANGED sent
  /\ UNCHANGED <<ready, left, sq, workVars, flags>>

\* Mutant of AcceptNone: the listener is closed when accept finds nothing.
Bug_NoMoreToAccept ==
  /\ at = "accept" /\ backlog[on] = <<>>
  /\ fdt' = [fdt EXCEPT ![on].type = "null"] /\ open' = open \ {on}
  /\ at' = "events" /\ on' = 1
  /\ UNCHANGED <<ready, left, maxfd, backlog, clientVars, rq, sq, workVars, drops, flags>>

AcceptNone ==
  /\ at = "accept" /\ backlog[on] = <<>>
  /\ at' = "events" /\ on' = 1
  /\ UNCHANGED <<ready, left, tableVars, clientVars, rq, sq, workVars, drops, flags>>

\* Mutant of ReadHangup: handle_cli fails and nobody closes the descriptor.
Bug_HangupLeft(fd) ==
  /\ Event(fd) /\ IsCli(fd) /\ cli[fdt[fd].conn] = "shut"
  /\ UNCHANGED <<at, on, left, tableVars, clientVars, rq, sq, workVars, drops, flags>>

\* handle_read: a hangup seen by recv makes safe_tcp_recv_n return 0, and
\* what was read before it is dropped with the connection.
ReadHangup(fd) ==
  /\ Event(fd) /\ IsCli(fd) /\ cli[fdt[fd].conn] = "shut"
  /\ CloseAndTell(fd, drops)
  /\ UNCHANGED <<at, on, left, sq, workVars, flags>>

ReadMsgs(fd) ==
  /\ Event(fd) /\ IsCli(fd) /\ cli[fdt[fd].conn] = "up"
  /\ left' = unread[fdt[fd].conn]
  /\ unread' = [unread EXCEPT ![fdt[fd].conn] = 0]
  /\ at' = "push" /\ on' = fd
  /\ UNCHANGED <<tableVars, cli, sent, rq, sq, workVars, drops, flags>>

\* handle_cli, push_again: one message; a refused one closes the client.
PushMsg ==
  /\ at = "push"
  /\ LET w == fdt[on].idx IN
     \E r \in Pushed(rq[w], Blk("DATA", on, fdt[on].conn), drops) :
       \/ /\ r.ret = 0
          /\ rq' = [rq EXCEPT ![w] = r.q] /\ drops' = r.drops
          /\ left' = left - 1
          /\ IF left = 1 THEN at' = "events" /\ on' = 1 ELSE UNCHANGED <<at, on>>
          /\ UNCHANGED <<tableVars, clientVars>>
       \/ /\ r.ret = -1
          /\ CloseAndTell(on, r.drops)
          /\ left' = 0 /\ at' = "events" /\ on' = 1
  /\ UNCHANGED <<ready, sq, workVars, flags>>

MasterStep ==
  \/ NextQueue \/ Reply \/ CloseAsked \/ EpollWait \/ LoopTop
  \/ \E fd \in Fds : StartAccept(fd) \/ ReadHangup(fd) \/ ReadMsgs(fd)
  \/ Accept \/ AcceptNone \/ PushMsg

-----------------------------------------------------------------------------
\* A work process: handle_mq_recv takes one block off rq and handles it.

Taking(w, type) == ~torn[w] /\ rq[w] # <<>> /\ Head(rq[w]).type = type
PopRq(w) == rq' = [rq EXCEPT ![w] = Tail(@)]

\* do_blk_open finds no session for the descriptor.
OpenSession(w) ==
  /\ Taking(w, "OPEN")
  /\ LET b == Head(rq[w]) IN
     /\ sess[w][b.fd] = NoConn
     /\ sess' = [sess EXCEPT ![w][b.fd] = b.conn]
  /\ PopRq(w)
  /\ UNCHANGED <<loopVars, tableVars, clientVars, sq, torn, drops, flags>>

\* Mutant of RefuseOpen: the block is copied first, so that rq stays whole.
Bug_RefuseAndGoOn(w) ==
  /\ Taking(w, "OPEN")
  /\ LET b == Head(rq[w]) IN
     /\ sess[w][b.fd] # NoConn
     /\ \E r \in Pushed(sq[w], Blk("CLOSE", b.fd, b.conn), drops) :
          sq' = [sq EXCEPT ![w] = r.q] /\ drops' = r.drops
  /\ PopRq(w)
  /\ UNCHANGED <<loopVars, tableVars, clientVars, sess, torn, flags>>

\* do_blk_open refuses: the block is turned into a BLK_CLOSE where it lies in
\* rq, so that mq_pop moves tail by the length of a BLK_CLOSE and not by that
\* of the BLK_OPEN.  What w reads from then on is not modelled.
RefuseOpen(w) ==
  /\ Taking(w, "OPEN")
  /\ LET b == Head(rq[w]) IN
     /\ sess[w][b.fd] # NoConn
     /\ \E r \in Pushed(sq[w], Blk("CLOSE", b.fd, b.conn), drops) :
          sq' = [sq EXCEPT ![w] = r.q] /\ drops' = r.drops
  /\ torn' = [torn EXCEPT ![w] = TRUE]
  /\ PopRq(w)
  /\ UNCHANGED <<loopVars, tableVars, clientVars, sess, flags>>

\* Mutant of Process: the reply goes to the descriptor of any session.
Bug_AnySession(w) ==
  /\ Taking(w, "DATA")
  /\ LET s == sess[w][Head(rq[w]).fd] IN
     /\ s # NoConn
     /\ \E fd \in Fds : \E r \in Pushed(sq[w], Blk("DATA", fd, s), drops) :
          /\ sess[w][fd] # NoConn
          /\ sq' = [sq EXCEPT ![w] = r.q] /\ drops' = r.drops
  /\ PopRq(w)
  /\ UNCHANGED <<loopVars, tableVars, clientVars, sess, torn, flags>>

\* do_blk_msg: proc_cli_msg may reply (send_to_cli), and may ask for the
\* connection to be closed (close_cli, whose push is not checked).
Process(w) ==
  /\ Taking(w, "DATA")
  /\ LET b == Head(rq[w])
         s == sess[w][b.fd]
         same == [q |-> sq[w], ret |-> 0, drops |-> drops]
     IN \/ s = NoConn /\ UNCHANGED <<sq, sess, drops, crossed>>
        \/ \E reply, close \in BOOLEAN :
           \E r \in IF reply THEN Pushed(sq[w], Blk("DATA", b.fd, s), drops) ELSE {same} :
           \E t \in IF close THEN Pushed(r.q, Blk("CLOSE", b.fd, s), r.drops) ELSE {r} :
             /\ s # NoConn
             /\ sq' = [sq EXCEPT ![w] = t.q] /\ drops' = t.drops
             /\ sess' = IF close THEN [sess EXCEPT ![w][b.fd] = NoConn] ELSE sess
             /\ crossed' = (crossed \/ s # b.conn)
  /\ PopRq(w)
  /\ UNCHANGED <<loopVars, tableVars, clientVars, torn, misclosed, misrouted>>

\* Mutant of CloseSession: remove_fd is forgotten.
Bug_SessionKept(w) ==
  /\ Taking(w, "CLOSE") /\ PopRq(w)
  /\ UNCHANGED <<loopVars, tableVars, clientVars, sq, sess, torn, drops, flags>>

\* do_blk_close
CloseSession(w) ==
  /\ Taking(w, "CLOSE")
  /\ sess' = [sess EXCEPT ![w][Head(rq[w]).fd] = NoConn]
  /\ PopRq(w)
  /\ UNCHANGED <<loopVars, tableVars, clientVars, sq, torn, drops, flags>>

WorkStep(w) == OpenSession(w) \/ RefuseOpen(w) \/ Process(w) \/ CloseSession(w)

-----------------------------------------------------------------------------
ClientStep(c) == (\E w \in Works : Connect(c, w)) \/ SendMsg(c) \/ HangUp(c)

Next ==
  \/ \E c \in Conns : ClientStep(c)
  \/ MasterStep
  \/ \E w \in Works : WorkStep(w)

Spec == Init /\ [][Next]_vars

\* Both dispatch loops run for ever, an epoll_wait lasting 50 ms at most, and
\* a loop that comes back to a queue again and again gets its next block:
\* mq_get misses one only while the writer is wrapping.  Nothing is asked of
\* the clients.
Fairness ==
  /\ WF_vars(MasterStep)
  /\ \A w \in Works : WF_vars(WorkStep(w)) /\ SF_vars(on = w /\ (Reply \/ CloseAsked))
FairSpec == Spec /\ Fairness
=============================================================================
