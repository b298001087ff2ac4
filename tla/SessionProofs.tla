--------------------------- MODULE SessionProofs ---------------------------
(***************************************************************************)
(* Proofs about the two sides of a connection, for every number of work    *)
(* processes, descriptors, connections and messages and every length of    *)
(* the queues.  First what the master's table and the kernel agree on,     *)
(* then what descriptors in queues and sessions stand for, then how far    *)
(* the sessions follow the master.                                         *)
(***************************************************************************)
EXTENDS SessionInv, SequenceTheorems, WellFoundedInduction, TLAPS

-----------------------------------------------------------------------------
\* The smallest and the largest of some numbers.

LEMMA SmallestNumber ==
  ASSUME NEW T \in SUBSET Nat, T # {}
  PROVE  \E x \in T : \A y \in T : x <= y
  <1> DEFINE R == OpToRel(<, Nat)
  <1>1. IsWellFoundedOn(R, Nat)
    BY NatLessThanWellFounded
  <1>2. \A x, y \in Nat : x < y => <<x, y>> \in R
    BY DEF OpToRel
  <1> HIDE DEF R
  <1>3. PICK x \in T : \A y \in T : ~(<<y, x>> \in R)
    BY <1>1, WFMin
  <1>4. \A y \in T : ~(y < x)
    BY <1>2, <1>3
  <1>5. \A y \in T : x <= y
    BY <1>4
  <1> QED BY <1>5

LEMMA LargestNumber ==
  ASSUME NEW n \in Int, NEW T \in SUBSET (1..n), T # {}
  PROVE  \E x \in T : \A y \in T : y <= x
  <1> DEFINE U == {u \in Nat : n - u \in T}
  <1>1. U \in SUBSET Nat
    OBVIOUS
  <1>2. \A x \in T : n - x \in U /\ n - (n - x) = x
    OBVIOUS
  <1>3. PICK u \in U : \A v \in U : u <= v
    <2>1. U # {}
      BY <1>2
    <2> HIDE DEF U
    <2> QED BY <1>1, <2>1, SmallestNumber
  <1>4. n - u \in T /\ u \in Nat
    BY <1>3
  <1>5. \A y \in T : u <= n - y
    BY <1>2, <1>3
  <1>6. \A y \in T : y <= n - u
    BY <1>4, <1>5
  <1> QED BY <1>4, <1>6

\* The kernel hands out a descriptor that is free.
LEMMA LowestFacts ==
  ASSUME NEW s \in SUBSET Fds, s # {}
  PROVE  Lowest(s) \in s
  <1>1. s \in SUBSET Nat
    BY DEF Fds
  <1>2. \E fd \in s : \A other \in s : fd <= other
    BY <1>1, SmallestNumber
  <1> QED BY <1>2 DEF Lowest

LEMMA MaxAfterFacts ==
  ASSUME NEW t, NEW m \in Fds \cup {-1}, NEW fd \in Fds
  PROVE  MaxAfter(t, m, fd) \in Fds \cup {-1}
  <1> DEFINE null == {i \in 1..(fd - 1) : t[i].type = "null"}
  <1>1. CASE m # fd
    BY <1>1 DEF MaxAfter
  <1>2. CASE m = fd /\ null = {}
    BY <1>2 DEF MaxAfter
  <1>3. CASE m = fd /\ null # {}
    <2>1. MaxAfter(t, m, fd) = CHOOSE i \in null : \A j \in null : j <= i
      BY <1>3 DEF MaxAfter
    <2>2. null \in SUBSET (1..(fd - 1)) /\ fd - 1 \in Int /\ null \in SUBSET Fds
      BY SessionAssumption DEF Fds
    <2> HIDE DEF null
    <2>3. \E i \in null : \A j \in null : j <= i
      BY <1>3, <2>2, LargestNumber
    <2>4. MaxAfter(t, m, fd) \in null
      BY <2>1, <2>3
    <2> QED BY <2>2, <2>4
  <1> QED BY <1>1, <1>2, <1>3

-----------------------------------------------------------------------------
\* What a queue makes of a session.

Relevant(b, fd) == b.fd = fd /\ b.type # "DATA"

\* The session is that of the last relevant block.
LEMMA AfterLast ==
  ASSUME NEW q, NEW n \in Nat, NEW fd, NEW s
  PROVE  /\ (\A i \in 1..n : ~Relevant(q[i], fd)) => After(q, n, fd, s) = s
         /\ \A m \in 1..n :
              /\ Relevant(q[m], fd)
              /\ \A i \in 1..n : Relevant(q[i], fd) => i <= m
              => After(q, n, fd, s) = Result(q[m])
         /\ (\E i \in 1..n : Relevant(q[i], fd)) =>
              \E m \in 1..n : /\ Relevant(q[m], fd)
                              /\ \A i \in 1..n : Relevant(q[i], fd) => i <= m
  <1> DEFINE about == {i \in 1..n : q[i].fd = fd /\ q[i].type # "DATA"}
  <1>1. \A i : i \in about <=> i \in 1..n /\ Relevant(q[i], fd)
    BY DEF Relevant
  <1>2. After(q, n, fd, s)
          = IF about = {} THEN s ELSE Result(q[CHOOSE i \in about : \A j \in about : j <= i])
    BY DEF After
  <1>3. about \in SUBSET (1..n) /\ n \in Int
    OBVIOUS
  <1> HIDE DEF about
  <1>4. ASSUME NEW m \in 1..n, Relevant(q[m], fd),
               \A i \in 1..n : Relevant(q[i], fd) => i <= m
        PROVE  After(q, n, fd, s) = Result(q[m])
    <2>1. m \in about /\ \A j \in about : j <= m
      BY <1>1, <1>4
    <2>2. \A x \in about : (\A j \in about : j <= x) => x = m
      BY <1>3, <2>1
    <2>3. (CHOOSE i \in about : \A j \in about : j <= i) = m
      BY <2>1, <2>2
    <2> QED BY <1>2, <2>1, <2>3
  <1>5. ASSUME \E i \in 1..n : Relevant(q[i], fd)
        PROVE  \E m \in 1..n : /\ Relevant(q[m], fd)
                               /\ \A i \in 1..n : Relevant(q[i], fd) => i <= m
    <2>1. \E m \in about : \A j \in about : j <= m
      BY <1>1, <1>3, <1>5, LargestNumber
    <2> QED BY <1>1, <2>1
  <1>6. ASSUME \A i \in 1..n : ~Relevant(q[i], fd)
        PROVE  After(q, n, fd, s) = s
    BY <1>1, <1>2, <1>6
  <1> QED BY <1>4, <1>5, <1>6

LEMMA AfterNothing ==
  ASSUME NEW q, NEW fd, NEW s
  PROVE  After(q, 0, fd, s) = s
  BY AfterLast

\* One block more.
LEMMA AfterOneMore ==
  ASSUME NEW q, NEW n \in Nat, NEW fd, NEW s
  PROVE  After(q, n + 1, fd, s)
           = IF Relevant(q[n + 1], fd) THEN Result(q[n + 1]) ELSE After(q, n, fd, s)
  <1>1. n + 1 \in Nat /\ n + 1 \in 1..(n + 1) /\ \A i \in 1..(n + 1) : i \in 1..n \/ i = n + 1
    OBVIOUS
  <1>2. \A i \in 1..n : i \in 1..(n + 1) /\ i <= n + 1
    OBVIOUS
  <1>3. CASE Relevant(q[n + 1], fd)
    <2>1. \A i \in 1..(n + 1) : Relevant(q[i], fd) => i <= n + 1
      BY <1>1
    <2> QED BY <1>1, <1>3, <2>1, AfterLast
  <1>4. CASE ~Relevant(q[n + 1], fd) /\ \A i \in 1..n : ~Relevant(q[i], fd)
    <2>1. \A i \in 1..(n + 1) : ~Relevant(q[i], fd)
      BY <1>1, <1>4
    <2>2. After(q, n + 1, fd, s) = s
      BY <1>1, <2>1, AfterLast
    <2>3. After(q, n, fd, s) = s
      BY <1>4, AfterLast
    <2> QED BY <1>4, <2>2, <2>3
  <1>5. CASE ~Relevant(q[n + 1], fd) /\ \E i \in 1..n : Relevant(q[i], fd)
    <2>1. PICK m \in 1..n : /\ Relevant(q[m], fd)
                            /\ \A i \in 1..n : Relevant(q[i], fd) => i <= m
      BY <1>5, AfterLast
    <2>2. After(q, n, fd, s) = Result(q[m])
      BY <2>1, AfterLast
    <2>3. m \in 1..(n + 1) /\ \A i \in 1..(n + 1) : Relevant(q[i], fd) => i <= m
      BY <1>1, <1>2, <1>5, <2>1
    <2>4. After(q, n + 1, fd, s) = Result(q[m])
      BY <1>1, <2>1, <2>3, AfterLast
    <2> QED BY <1>5, <2>2, <2>4
  <1> QED BY <1>3, <1>4, <1>5

\* Only the blocks counted matter.
LEMMA AfterSame ==
  ASSUME NEW q, NEW r, NEW n \in Nat, NEW fd, NEW s, \A i \in 1..n : q[i] = r[i]
  PROVE  After(q, n, fd, s) = After(r, n, fd, s)
  <1>1. CASE \A i \in 1..n : ~Relevant(q[i], fd)
    <2>1. After(q, n, fd, s) = s
      BY <1>1, AfterLast
    <2>2. \A i \in 1..n : ~Relevant(r[i], fd)
      BY <1>1
    <2>3. After(r, n, fd, s) = s
      BY <2>2, AfterLast
    <2> QED BY <2>1, <2>3
  <1>2. CASE \E i \in 1..n : Relevant(q[i], fd)
    <2>1. PICK m \in 1..n : /\ Relevant(q[m], fd)
                            /\ \A i \in 1..n : Relevant(q[i], fd) => i <= m
      BY <1>2, AfterLast
    <2>2. Relevant(r[m], fd) /\ \A i \in 1..n : Relevant(r[i], fd) => i <= m
      BY <2>1
    <2>3. After(q, n, fd, s) = Result(q[m])
      BY <2>1, AfterLast
    <2>4. After(r, n, fd, s) = Result(r[m])
      BY <2>2, AfterLast
    <2> QED BY <2>3, <2>4
  <1> QED BY <1>1, <1>2

\* Taking the first block off the queue and doing what it asks for.
LEMMA AfterFirst ==
  ASSUME NEW q, NEW r, NEW n \in Nat, NEW fd, NEW s, \A i \in 1..n : r[i] = q[i + 1]
  PROVE  After(q, n + 1, fd, s)
           = After(r, n, fd, IF Relevant(q[1], fd) THEN Result(q[1]) ELSE s)
  <1> DEFINE t == IF Relevant(q[1], fd) THEN Result(q[1]) ELSE s
  <1> HIDE DEF t
  <1>1. n + 1 \in Nat /\ 1 \in 1..(n + 1)
        /\ \A i \in 1..(n + 1) : i = 1 \/ (i - 1 \in 1..n /\ (i - 1) + 1 = i)
    OBVIOUS
  <1>2. \A i \in 1..n : i + 1 \in 1..(n + 1)
    OBVIOUS
  <1>3. CASE \A i \in 1..n : ~Relevant(r[i], fd)
    <2>1. After(r, n, fd, t) = t
      BY <1>3, AfterLast
    <2>2. \A i \in 1..(n + 1) : Relevant(q[i], fd) => i = 1
      BY <1>1, <1>3
    <2>3. CASE Relevant(q[1], fd)
      <3>1. \A i \in 1..(n + 1) : Relevant(q[i], fd) => i <= 1
        BY <2>2
      <3>2. After(q, n + 1, fd, s) = Result(q[1])
        BY <1>1, <2>3, <3>1, AfterLast
      <3> QED BY <2>1, <2>3, <3>2 DEF t
    <2>4. CASE ~Relevant(q[1], fd)
      <3>1. \A i \in 1..(n + 1) : ~Relevant(q[i], fd)
        BY <2>2, <2>4
      <3>2. After(q, n + 1, fd, s) = s
        BY <1>1, <3>1, AfterLast
      <3> QED BY <2>1, <2>4, <3>2 DEF t
    <2> QED BY <2>3, <2>4
  <1>4. CASE \E i \in 1..n : Relevant(r[i], fd)
    <2>1. PICK m \in 1..n : /\ Relevant(r[m], fd)
                            /\ \A i \in 1..n : Relevant(r[i], fd) => i <= m
      BY <1>4, AfterLast
    <2>2. After(r, n, fd, t) = Result(r[m])
      BY <2>1, AfterLast
    <2>3. m + 1 \in 1..(n + 1) /\ Relevant(q[m + 1], fd)
      BY <2>1
    <2>4. \A i \in 1..(n + 1) : Relevant(q[i], fd) => i <= m + 1
      <3> SUFFICES ASSUME NEW i \in 1..(n + 1), Relevant(q[i], fd) PROVE i <= m + 1
        OBVIOUS
      <3>1. CASE i = 1
        BY <3>1
      <3>2. CASE i - 1 \in 1..n /\ (i - 1) + 1 = i
        <4>1. Relevant(r[i - 1], fd)
          BY <3>2
        <4>2. i - 1 <= m
          BY <2>1, <3>2, <4>1
        <4> QED BY <4>2
      <3> QED BY <1>1, <3>1, <3>2
    <2>5. After(q, n + 1, fd, s) = Result(q[m + 1])
      BY <1>1, <2>3, <2>4, AfterLast
    <2> QED BY <2>1, <2>2, <2>5 DEF t
  <1> QED BY <1>3, <1>4 DEF t

\* With the session closed before it, a queue leaves what it would have left,
\* or nothing where it would have left the session.
LEMMA AfterClosed ==
  ASSUME NEW q, NEW n \in Nat, NEW fd, NEW s
  PROVE  \/ After(q, n, fd, NoConn) = After(q, n, fd, s)
         \/ After(q, n, fd, NoConn) = NoConn /\ After(q, n, fd, s) = s
  <1>1. CASE \A i \in 1..n : ~Relevant(q[i], fd)
    BY <1>1, AfterLast
  <1>2. CASE \E i \in 1..n : Relevant(q[i], fd)
    <2>1. PICK m \in 1..n : /\ Relevant(q[m], fd)
                            /\ \A i \in 1..n : Relevant(q[i], fd) => i <= m
      BY <1>2, AfterLast
    <2>2. After(q, n, fd, NoConn) = Result(q[m])
      BY <2>1, AfterLast
    <2>3. After(q, n, fd, s) = Result(q[m])
      BY <2>1, AfterLast
    <2> QED BY <2>2, <2>3
  <1> QED BY <1>1, <1>2

-----------------------------------------------------------------------------
\* mq_push.

LEMMA PushedFacts ==
  ASSUME NEW q \in Seq(Blks), Len(q) <= QCap, NEW b \in Blks, NEW d \in 0..MaxDrops,
         NEW r \in Pushed(q, b, d)
  PROVE  /\ r.q \in Seq(Blks) /\ Len(r.q) <= QCap /\ r.drops \in 0..MaxDrops /\ d <= r.drops
         /\ r.ret \in {0, -1}
         /\ \/ r.q = Append(q, b) /\ r.drops = d /\ r.ret = 0
            \/ r.q = q /\ r.drops > 0 /\ (d > 0 /\ MaxDrops > 1 => r.drops > 1)
  <1>1. MaxDrops \in Nat \ {0} /\ QCap \in Nat /\ Len(q) \in Nat
    BY SessionAssumption, LenProperties
  <1>2. \/ /\ Len(q) < QCap
           /\ r = [q |-> Append(q, b), ret |-> 0, drops |-> d]
        \/ /\ r = [q |-> q, ret |-> -1, drops |-> IF d < MaxDrops THEN d + 1 ELSE d]
        \/ /\ r = [q |-> q, ret |-> 0, drops |-> IF d < MaxDrops THEN d + 1 ELSE d]
    BY DEF Pushed
  <1>3. CASE Len(q) < QCap /\ r = [q |-> Append(q, b), ret |-> 0, drops |-> d]
    <2>1. Append(q, b) \in Seq(Blks) /\ Len(Append(q, b)) = Len(q) + 1
      BY AppendProperties
    <2>2. r.q = Append(q, b) /\ r.drops = d /\ r.ret = 0
      BY <1>3
    <2> QED BY <1>1, <1>3, <2>1, <2>2
  <1>4. CASE r.q = q /\ r.ret \in {0, -1} /\ r.drops = IF d < MaxDrops THEN d + 1 ELSE d
    BY <1>1, <1>4
  <1>5. \A x \in {0, -1} :
          r = [q |-> q, ret |-> x, drops |-> IF d < MaxDrops THEN d + 1 ELSE d]
          => r.q = q /\ r.ret \in {0, -1} /\ r.drops = IF d < MaxDrops THEN d + 1 ELSE d
    OBVIOUS
  <1> QED BY <1>2, <1>3, <1>4, <1>5

-----------------------------------------------------------------------------
\* The parts of Base: the table and the connections, the loop, the rest.

Tables ==
  /\ fdt \in [Fds -> Entries] /\ open \subseteq Fds /\ maxfd \in Fds \cup {-1}
  /\ backlog \in [Works -> Seq(Conns)]
  /\ cli \in [Conns -> {"new", "up", "shut", "gone"}]
  /\ unread \in [Conns -> 0..MaxMsgs] /\ sent \in [Conns -> 0..MaxMsgs]
  /\ TableMatchesKernel /\ WaitsOnce /\ ArrivedWasSent
  /\ \A fd \in Fds : IsCli(fd) => fdt[fd].conn \in Conns

Loop ==
  /\ at \in {"send", "wait", "events", "accept", "push"} /\ on \in Fds
  /\ ready \subseteq Fds /\ left \in 0..MaxMsgs
  /\ at \in {"send", "wait", "events"} => on \in Works
  /\ at = "accept" => on \in Works /\ fdt[on].type = "listen" /\ on \in open \ ready
  /\ at = "push" => IsCli(on) /\ on \notin ready /\ left > 0
  /\ at \in {"send", "wait"} => ready = {}
  /\ ready \subseteq open
  /\ \A fd \in ready : IsCli(fd) => unread[fdt[fd].conn] > 0 \/ cli[fdt[fd].conn] = "shut"

Queue(q) == q \in [Works -> Seq(Blks)] /\ \A w \in Works : Len(q[w]) <= QCap

Rest ==
  /\ Queue(rq) /\ Queue(sq)
  /\ sess \in [Works -> [Fds -> Conns \cup {NoConn}]] /\ torn \in [Works -> BOOLEAN]
  /\ drops \in 0..MaxDrops
  /\ misclosed \in BOOLEAN /\ misrouted \in BOOLEAN /\ crossed \in BOOLEAN

LEMMA BaseParts == Base <=> Tables /\ Loop /\ Rest
  BY DEF Base, TypeOK, InHand, Tables, Loop, Rest, Queue

LEMMA BaseNext == Tables' /\ Loop' /\ Rest' => Base'
  BY DEF Base, TypeOK, InHand, Tables, Loop, Rest, Queue

LEMMA Numbers ==
  /\ Works \subseteq Fds /\ 1 \in Works /\ 1 \in Fds /\ 0 \in 0..MaxMsgs /\ 0 \in 0..MaxDrops
  /\ NWork \in Nat /\ NFd \in Nat /\ MaxMsgs \in Nat /\ MaxDrops \in Nat
  BY SessionAssumption DEF Works, Fds

LEMMA BlkFacts ==
  ASSUME NEW type \in {"OPEN", "DATA", "CLOSE"}, NEW fd \in Fds, NEW c \in Conns \cup {NoConn}
  PROVE  Blk(type, fd, c) \in Blks
  BY DEF Blk, Blks

LEMMA QueuePut ==
  ASSUME NEW r, Queue(r), NEW w \in Works, NEW q \in Seq(Blks), Len(q) <= QCap
  PROVE  Queue([r EXCEPT ![w] = q])
  BY DEF Queue

LEMMA QueueTail ==
  ASSUME NEW r, Queue(r), NEW w \in Works, r[w] # <<>>
  PROVE  /\ Head(r[w]) \in Blks /\ Queue([r EXCEPT ![w] = Tail(@)])
         /\ Len(r[w]) \in Nat \ {0} /\ Len(Tail(r[w])) = Len(r[w]) - 1
         /\ Head(r[w]) = r[w][1]
         /\ \A i \in 1..(Len(r[w]) - 1) : Tail(r[w])[i] = r[w][i + 1]
  <1>1. r[w] \in Seq(Blks) /\ Len(r[w]) \in Nat /\ QCap \in Nat
    BY LenProperties, SessionAssumption DEF Queue
  <1>2. /\ Tail(r[w]) \in Seq(Blks) /\ Len(Tail(r[w])) = Len(r[w]) - 1
        /\ \A i \in 1..Len(Tail(r[w])) : Tail(r[w])[i] = r[w][i + 1]
    BY <1>1, HeadTailProperties
  <1>3. Head(r[w]) \in Blks /\ Head(r[w]) = r[w][1] /\ Len(r[w]) # 0
    BY <1>1, HeadTailProperties, EmptySeq
  <1>4. Len(Tail(r[w])) <= QCap
    BY <1>1, <1>2 DEF Queue
  <1> QED BY <1>1, <1>2, <1>3, <1>4, QueuePut

LEMMA TablesStay ==
  ASSUME Tables, UNCHANGED <<tableVars, clientVars>>
  PROVE  Tables'
  <1>1. UNCHANGED <<fdt, open, maxfd, backlog, cli, unread, sent>>
    BY DEF tableVars, clientVars
  <1>2. TableMatchesKernel'
    BY <1>1 DEF Tables, TableMatchesKernel, IsCli, Holds, Waits
  <1>3. WaitsOnce' /\ ArrivedWasSent'
    BY <1>1 DEF Tables, WaitsOnce, ArrivedWasSent
  <1> QED BY <1>1, <1>2, <1>3 DEF Tables, IsCli

\* A connection has one place.
LEMMA PlaceFacts ==
  ASSUME Tables, NEW c \in Conns
  PROVE  /\ cli[c] \in {"up", "shut"} <=> Waits(c) \/ \E fd \in Fds : Holds(fd, c)
         /\ \A fd \in Fds : Holds(fd, c) => ~Waits(c) /\ \A f \in Fds \ {fd} : ~Holds(f, c)
  BY DEF Tables, TableMatchesKernel

LEMMA OpenFacts ==
  ASSUME Tables, NEW fd \in Fds
  PROVE  fd \in open <=> IsCli(fd) \/ (fd \in Works /\ fdt[fd].type = "listen")
  BY DEF Tables, TableMatchesKernel

\* do_fd_close of a client.
LEMMA DroppedKeeps ==
  ASSUME Tables, NEW fd \in Fds, IsCli(fd), Dropped(fd)
  PROVE  /\ Tables' /\ open' = open \ {fd}
         /\ \A f \in Fds \ {fd} :
              /\ fdt'[f] = fdt[f]
              /\ IsCli(f) => /\ cli'[fdt[f].conn] = cli[fdt[f].conn]
                             /\ unread'[fdt[f].conn] = unread[fdt[f].conn]
  <1> DEFINE c == fdt[fd].conn
  <1>1. /\ fdt \in [Fds -> Entries] /\ c \in Conns /\ Holds(fd, c)
        /\ cli \in [Conns -> {"new", "up", "shut", "gone"}]
        /\ unread \in [Conns -> 0..MaxMsgs]
    BY DEF Tables, Holds
  <1>2. ~Waits(c) /\ \A f \in Fds \ {fd} : ~Holds(f, c)
    BY <1>1, PlaceFacts
  <1>3. /\ fdt' = [fdt EXCEPT ![fd].type = "null"] /\ open' = open \ {fd}
        /\ maxfd' = MaxAfter(fdt, maxfd, fd)
        /\ cli' = [cli EXCEPT ![c] = "gone"] /\ unread' = [unread EXCEPT ![c] = 0]
        /\ backlog' = backlog /\ sent' = sent
    BY DEF Dropped
  <1> HIDE DEF c
  <1>4. /\ fdt' \in [Fds -> Entries] /\ fdt'[fd].type = "null"
        /\ \A f \in Fds \ {fd} : fdt'[f] = fdt[f]
    BY <1>1, <1>3 DEF Entries
  <1>5. /\ cli' \in [Conns -> {"new", "up", "shut", "gone"}] /\ cli'[c] = "gone"
        /\ \A x \in Conns \ {c} : cli'[x] = cli[x] /\ unread'[x] = unread[x]
        /\ unread' \in [Conns -> 0..MaxMsgs] /\ unread'[c] = 0
    BY <1>1, <1>3, Numbers
  <1>6. \A x : Waits(x)' <=> Waits(x)
    BY <1>3 DEF Waits
  <1>7. \A f \in Fds, x \in Conns : Holds(f, x)' <=> f # fd /\ Holds(f, x)
    BY <1>4 DEF Holds, IsCli
  <1>8. TableMatchesKernel'
    <2>1. open' = {f \in Fds : IsCli(f)' \/ (f \in Works /\ fdt'[f].type = "listen")}
      BY <1>3, <1>4 DEF Tables, TableMatchesKernel, IsCli
    <2>2. ASSUME NEW x \in Conns
          PROVE  /\ cli'[x] \in {"up", "shut"} <=> Waits(x)' \/ \E f \in Fds : Holds(f, x)'
                 /\ \A f \in Fds : Holds(f, x)' =>
                      ~Waits(x)' /\ \A other \in Fds \ {f} : ~Holds(other, x)'
      <3>1. CASE x = c
        BY <1>2, <1>5, <1>6, <1>7, <3>1
      <3>2. CASE x # c
        <4>1. \A f \in Fds : Holds(f, x)' <=> Holds(f, x)
          BY <1>7, <3>2 DEF Holds, c
        <4> QED BY <1>5, <1>6, <3>2, <4>1, PlaceFacts
      <3> QED BY <3>1, <3>2
    <2> QED BY <2>1, <2>2 DEF TableMatchesKernel, Holds, IsCli, Waits
  <1>9. WaitsOnce' /\ ArrivedWasSent'
    <2>1. ArrivedWasSent'
      <3> SUFFICES ASSUME NEW x \in Conns PROVE unread'[x] <= sent'[x]
        BY DEF ArrivedWasSent
      <3>1. unread[x] <= sent[x] /\ sent[x] \in 0..MaxMsgs
        BY DEF Tables, ArrivedWasSent
      <3> QED BY <1>3, <1>5, <3>1, Numbers
    <2> QED BY <1>3, <2>1 DEF Tables, WaitsOnce
  <1>10. maxfd' \in Fds \cup {-1}
    BY <1>3, MaxAfterFacts DEF Tables
  <1>11. Tables'
    <2>1. \A f \in Fds : IsCli(f)' => fdt'[f].conn \in Conns
      BY <1>4 DEF Tables, IsCli
    <2>2. open' \subseteq Fds /\ backlog' \in [Works -> Seq(Conns)]
          /\ sent' \in [Conns -> 0..MaxMsgs]
      BY <1>3 DEF Tables
    <2> QED BY <1>4, <1>5, <1>8, <1>9, <1>10, <2>1, <2>2 DEF Tables
  <1>12. ASSUME NEW f \in Fds \ {fd}, IsCli(f)
         PROVE  fdt[f].conn \in Conns \ {c}
    <2>1. fdt[f].conn \in Conns
      BY <1>12 DEF Tables
    <2>2. fdt[f].conn # c
      BY <1>2, <1>12 DEF Holds
    <2> QED BY <2>1, <2>2
  <1> QED BY <1>3, <1>4, <1>5, <1>11, <1>12

\* do_fd_close of a client tells its work process, or the block is lost.
LEMMA TellFacts ==
  ASSUME Tables, Queue(rq), NEW fd \in Fds, IsCli(fd), NEW d \in 0..MaxDrops,
         CloseAndTell(fd, d)
  PROVE  /\ Dropped(fd) /\ Queue(rq') /\ drops' \in 0..MaxDrops /\ d <= drops'
         /\ fdt[fd].idx \in Works /\ fdt[fd].conn \in Conns
         /\ \/ /\ drops' = d
               /\ rq' = [rq EXCEPT ![fdt[fd].idx]
                           = Append(rq[fdt[fd].idx], Blk("CLOSE", fd, fdt[fd].conn))]
            \/ rq' = rq /\ drops' > 0 /\ (d > 0 /\ MaxDrops > 1 => drops' > 1)
  <1> DEFINE w == fdt[fd].idx
             b == Blk("CLOSE", fd, fdt[fd].conn)
  <1>1. w \in Works /\ fdt[fd].conn \in Conns /\ b \in Blks
    BY BlkFacts DEF Tables, Entries
  <1>2. Dropped(fd) /\ \E r \in Pushed(rq[w], b, d) :
                         rq' = [rq EXCEPT ![w] = r.q] /\ drops' = r.drops
    BY DEF CloseAndTell
  <1> HIDE DEF w, b
  <1>3. PICK r \in Pushed(rq[w], b, d) : rq' = [rq EXCEPT ![w] = r.q] /\ drops' = r.drops
    BY <1>2
  <1>4. rq[w] \in Seq(Blks) /\ Len(rq[w]) <= QCap
    BY <1>1 DEF Queue
  <1>5. /\ r.q \in Seq(Blks) /\ Len(r.q) <= QCap /\ r.drops \in 0..MaxDrops /\ d <= r.drops
        /\ \/ r.q = Append(rq[w], b) /\ r.drops = d
           \/ r.q = rq[w] /\ r.drops > 0 /\ (d > 0 /\ MaxDrops > 1 => r.drops > 1)
    BY <1>1, <1>4, PushedFacts
  <1>6. Queue(rq')
    BY <1>1, <1>3, <1>5, QueuePut
  <1>7. r.q = rq[w] => rq' = rq
    BY <1>1, <1>3 DEF Queue
  <1> QED BY <1>1, <1>2, <1>3, <1>5, <1>6, <1>7 DEF w, b

\* The master closes a client it has, or had not, in hand.
LEMMA CloseKeeps ==
  ASSUME Tables, Queue(rq), NEW fd \in Fds, IsCli(fd), NEW d \in 0..MaxDrops,
         CloseAndTell(fd, d),
         at' \in {"send", "events"}, on' \in Works, left' \in 0..MaxMsgs,
         at' = "send" => ready' = {},
         ready' \subseteq open \ {fd},
         \A f \in ready' : IsCli(f) => unread[fdt[f].conn] > 0 \/ cli[fdt[f].conn] = "shut"
  PROVE  Tables' /\ Loop'
  <1>1. Dropped(fd)
    BY TellFacts
  <1>2. /\ Tables' /\ open' = open \ {fd}
        /\ \A f \in Fds \ {fd} :
              /\ fdt'[f] = fdt[f]
              /\ IsCli(f) => /\ cli'[fdt[f].conn] = cli[fdt[f].conn]
                             /\ unread'[fdt[f].conn] = unread[fdt[f].conn]
    BY <1>1, DroppedKeeps
  <1>3. open \subseteq Fds
    BY DEF Tables
  <1>4. ASSUME NEW f \in ready', IsCli(f)'
        PROVE  unread'[fdt'[f].conn] > 0 \/ cli'[fdt'[f].conn] = "shut"
    <2>1. f \in Fds \ {fd}
      BY <1>3
    <2>2. fdt'[f] = fdt[f] /\ IsCli(f)
      BY <1>2, <1>4, <2>1 DEF IsCli
    <2> QED BY <1>2, <2>1, <2>2
  <1>5. Loop'
    BY <1>2, <1>3, <1>4, Numbers DEF Loop, IsCli
  <1> QED BY <1>2, <1>5

-----------------------------------------------------------------------------
\* The clients keep Base.

LEMMA RestStays ==
  ASSUME Rest, UNCHANGED <<rq, sq, workVars, drops, flags>>
  PROVE  Rest'
  BY DEF Rest, Queue, workVars, flags

LEMMA LoopStays ==
  ASSUME Loop, UNCHANGED loopVars, open \subseteq open',
         \A fd \in Fds : fd \in open => fdt'[fd] = fdt[fd],
         \A fd \in ready : IsCli(fd) =>
           unread'[fdt[fd].conn] > 0 \/ cli'[fdt[fd].conn] = "shut",
         at = "push" => on \in open
  PROVE  Loop'
  <1>1. UNCHANGED <<at, on, ready, left>>
    BY DEF loopVars
  <1>2. \A fd \in ready : fd \in Fds /\ fdt'[fd] = fdt[fd]
    BY DEF Loop
  <1>3. at \in {"accept", "push"} => fdt'[on] = fdt[on]
    BY DEF Loop
  <1> QED BY <1>1, <1>2, <1>3 DEF Loop, IsCli

LEMMA PushOpen ==
  ASSUME Tables, Loop, at = "push"
  PROVE  on \in open
  BY OpenFacts DEF Loop

LEMMA ConnectBase ==
  ASSUME Base, NEW c \in Conns, NEW w \in Works, Connect(c, w)
  PROVE  Base'
  <1>1. /\ Tables /\ Loop /\ Rest /\ cli[c] = "new"
        /\ cli' = [cli EXCEPT ![c] = "up"]
        /\ backlog' = [backlog EXCEPT ![w] = Append(@, c)]
        /\ UNCHANGED <<loopVars, fdt, open, maxfd, unread, sent, rq, sq, workVars, drops, flags>>
    BY BaseParts DEF Connect
  <1>2. /\ cli \in [Conns -> {"new", "up", "shut", "gone"}]
        /\ backlog \in [Works -> Seq(Conns)] /\ Len(backlog[w]) \in Nat
    BY <1>1, LenProperties DEF Tables
  <1>3. /\ Append(backlog[w], c) \in Seq(Conns)
        /\ Len(Append(backlog[w], c)) = Len(backlog[w]) + 1
        /\ \A i \in 1..Len(backlog[w]) : Append(backlog[w], c)[i] = backlog[w][i]
        /\ Append(backlog[w], c)[Len(backlog[w]) + 1] = c
    BY <1>2, AppendProperties
  <1>4. /\ backlog' \in [Works -> Seq(Conns)] /\ Len(backlog'[w]) = Len(backlog[w]) + 1
        /\ \A i \in 1..Len(backlog[w]) : backlog'[w][i] = backlog[w][i]
        /\ backlog'[w][Len(backlog[w]) + 1] = c
        /\ \A v \in Works \ {w} : backlog'[v] = backlog[v]
    BY <1>1, <1>2, <1>3
  <1>5. ~Waits(c) /\ \A fd \in Fds : ~Holds(fd, c)
    BY <1>1, PlaceFacts
  <1>6. \A x \in Conns : Waits(x)' <=> Waits(x) \/ x = c
    <2>1. ASSUME NEW x \in Conns, Waits(x) PROVE Waits(x)'
      <3>1. PICK v \in Works : \E i \in 1..Len(backlog[v]) : backlog[v][i] = x
        BY <2>1 DEF Waits
      <3>2. \E i \in 1..Len(backlog'[v]) : backlog'[v][i] = x
        BY <1>2, <1>4, <3>1
      <3> QED BY <3>2 DEF Waits
    <2>2. Waits(c)'
      <3>1. Len(backlog[w]) + 1 \in 1..Len(backlog'[w])
        BY <1>2, <1>4
      <3> QED BY <1>4, <3>1 DEF Waits
    <2>3. ASSUME NEW x \in Conns, Waits(x)', x # c PROVE Waits(x)
      <3>1. PICK v \in Works : \E i \in 1..Len(backlog'[v]) : backlog'[v][i] = x
        BY <2>3 DEF Waits
      <3>2. PICK i \in 1..Len(backlog'[v]) : backlog'[v][i] = x
        BY <3>1
      <3>3. CASE v # w
        BY <1>4, <3>2, <3>3 DEF Waits
      <3>4. CASE v = w
        <4>1. i \in 1..Len(backlog[w])
          BY <1>2, <1>4, <2>3, <3>2, <3>4
        <4> QED BY <1>4, <3>2, <3>4, <4>1 DEF Waits
      <3> QED BY <3>3, <3>4
    <2> QED BY <2>1, <2>2, <2>3
  <1>7. \A fd, x : Holds(fd, x)' <=> Holds(fd, x)
    BY <1>1 DEF Holds, IsCli
  <1>8. TableMatchesKernel'
    <2>1. open' = {f \in Fds : IsCli(f)' \/ (f \in Works /\ fdt'[f].type = "listen")}
      BY <1>1 DEF Tables, TableMatchesKernel, IsCli
    <2>2. ASSUME NEW x \in Conns
          PROVE  /\ cli'[x] \in {"up", "shut"} <=> Waits(x)' \/ \E f \in Fds : Holds(f, x)'
                 /\ \A f \in Fds : Holds(f, x)' =>
                      ~Waits(x)' /\ \A other \in Fds \ {f} : ~Holds(other, x)'
      <3>1. CASE x = c
        <4>1. cli'[x] = "up"
          BY <1>1, <1>2, <3>1
        <4>2. Waits(x)'
          BY <1>6, <3>1
        <4>3. \A f \in Fds : ~Holds(f, x)
          BY <1>5, <3>1
        <4>4. \A f \in Fds : ~Holds(f, x)'
          BY <1>7, <4>3
        <4> QED BY <4>1, <4>2, <4>4
      <3>2. CASE x # c
        <4>1. cli'[x] = cli[x]
          BY <1>1, <1>2, <3>2
        <4> QED BY <1>1, <1>6, <1>7, <3>2, <4>1, PlaceFacts
      <3> QED BY <3>1, <3>2
    <2> QED BY <2>1, <2>2 DEF TableMatchesKernel, Holds, IsCli, Waits
  <1>9. WaitsOnce'
    <2> SUFFICES ASSUME NEW u \in Works, NEW v \in Works,
                        NEW i \in 1..Len(backlog'[u]), NEW j \in 1..Len(backlog'[v]),
                        backlog'[u][i] = backlog'[v][j]
                 PROVE  u = v /\ i = j
      BY DEF WaitsOnce
    <2>1. \A x \in Works : \A k \in 1..Len(backlog'[x]) :
            \/ k \in 1..Len(backlog[x]) /\ backlog'[x][k] = backlog[x][k] /\ backlog'[x][k] # c
            \/ x = w /\ k = Len(backlog[w]) + 1 /\ backlog'[x][k] = c
      <3> SUFFICES ASSUME NEW x \in Works, NEW k \in 1..Len(backlog'[x])
                   PROVE  \/ /\ k \in 1..Len(backlog[x]) /\ backlog'[x][k] = backlog[x][k]
                             /\ backlog'[x][k] # c
                          \/ x = w /\ k = Len(backlog[w]) + 1 /\ backlog'[x][k] = c
        OBVIOUS
      <3>1. CASE k \in 1..Len(backlog[x])
        <4>1. backlog'[x][k] = backlog[x][k]
          BY <1>4, <3>1
        <4>2. backlog[x][k] # c
          BY <1>5, <3>1 DEF Waits
        <4> QED BY <3>1, <4>1, <4>2
      <3>2. CASE ~(k \in 1..Len(backlog[x]))
        <4>1. x = w
          BY <1>4, <3>2
        <4>2. k = Len(backlog[w]) + 1
          BY <1>2, <1>4, <3>2, <4>1
        <4> QED BY <1>4, <4>1, <4>2
      <3> QED BY <3>1, <3>2
    <2>2. CASE backlog'[u][i] = c
      BY <2>1, <2>2
    <2>3. CASE backlog'[u][i] # c
      <3>1. /\ i \in 1..Len(backlog[u]) /\ backlog'[u][i] = backlog[u][i]
            /\ j \in 1..Len(backlog[v]) /\ backlog'[v][j] = backlog[v][j]
        BY <2>1, <2>3
      <3> QED BY <1>1, <3>1 DEF Tables, WaitsOnce
    <2> QED BY <2>2, <2>3
  <1>10. ArrivedWasSent'
    BY <1>1 DEF Tables, ArrivedWasSent
  <1>11. Tables'
    BY <1>1, <1>2, <1>4, <1>8, <1>9, <1>10 DEF Tables, IsCli
  <1>12. Loop'
    <2>1. ASSUME NEW fd \in ready, IsCli(fd)
          PROVE  unread'[fdt[fd].conn] > 0 \/ cli'[fdt[fd].conn] = "shut"
      <3>1. fd \in Fds /\ Holds(fd, fdt[fd].conn)
        BY <1>1, <2>1 DEF Loop, Holds
      <3>2. fdt[fd].conn # c
        BY <1>5, <3>1
      <3>3. cli'[fdt[fd].conn] = cli[fdt[fd].conn] /\ unread' = unread
        <4>1. fdt[fd].conn \in Conns
          BY <1>1, <2>1, <3>1 DEF Tables
        <4> QED BY <1>1, <1>2, <3>2, <4>1
      <3> QED BY <1>1, <2>1, <3>3 DEF Loop
    <2>2. Loop /\ UNCHANGED loopVars
      BY <1>1
    <2>3. open \subseteq open' /\ \A fd \in Fds : fd \in open => fdt'[fd] = fdt[fd]
      BY <1>1
    <2>4. at = "push" => on \in open
      BY <1>1, PushOpen
    <2>5. \A fd \in ready : IsCli(fd) =>
            unread'[fdt[fd].conn] > 0 \/ cli'[fdt[fd].conn] = "shut"
      BY <2>1
    <2> QED BY <2>2, <2>3, <2>4, <2>5, LoopStays
  <1>13. Rest'
    BY <1>1, RestStays
  <1> QED BY <1>11, <1>12, <1>13, BaseNext

\* What has arrived, and that a client hung up, has no say in where it is.
LEMMA PlacesStay ==
  ASSUME Tables, UNCHANGED <<fdt, open, maxfd, backlog>>,
         cli' \in [Conns -> {"new", "up", "shut", "gone"}],
         \A x \in Conns : cli'[x] \in {"up", "shut"} <=> cli[x] \in {"up", "shut"},
         unread' \in [Conns -> 0..MaxMsgs], sent' \in [Conns -> 0..MaxMsgs],
         \A x \in Conns : unread'[x] <= sent'[x]
  PROVE  Tables'
  <1>1. \A x : Waits(x)' <=> Waits(x)
    BY DEF Waits
  <1>2. \A fd, x : Holds(fd, x)' <=> Holds(fd, x)
    BY DEF Holds, IsCli
  <1>3. TableMatchesKernel'
    <2>1. open' = {f \in Fds : IsCli(f)' \/ (f \in Works /\ fdt'[f].type = "listen")}
      BY DEF Tables, TableMatchesKernel, IsCli
    <2>2. ASSUME NEW x \in Conns
          PROVE  /\ cli'[x] \in {"up", "shut"} <=> Waits(x)' \/ \E f \in Fds : Holds(f, x)'
                 /\ \A f \in Fds : Holds(f, x)' =>
                      ~Waits(x)' /\ \A other \in Fds \ {f} : ~Holds(other, x)'
      BY <1>1, <1>2, PlaceFacts
    <2> QED BY <2>1, <2>2 DEF TableMatchesKernel, Holds, IsCli, Waits
  <1>4. WaitsOnce' /\ ArrivedWasSent'
    BY DEF Tables, WaitsOnce, ArrivedWasSent
  <1> QED BY <1>3, <1>4 DEF Tables, IsCli

LEMMA SendMsgBase ==
  ASSUME Base, NEW c \in Conns, SendMsg(c)
  PROVE  Base'
  <1>1. /\ Tables /\ Loop /\ Rest /\ sent[c] < MaxMsgs
        /\ sent' = [sent EXCEPT ![c] = @ + 1] /\ unread' = [unread EXCEPT ![c] = @ + 1]
        /\ UNCHANGED <<loopVars, tableVars, cli, rq, sq, workVars, drops, flags>>
    BY BaseParts DEF SendMsg
  <1>2. UNCHANGED <<fdt, open, maxfd, backlog>>
    BY <1>1 DEF tableVars
  <1>3. /\ unread \in [Conns -> 0..MaxMsgs] /\ sent \in [Conns -> 0..MaxMsgs] /\ MaxMsgs \in Nat
        /\ \A x \in Conns : unread[x] <= sent[x]
        /\ cli \in [Conns -> {"new", "up", "shut", "gone"}]
    BY <1>1, Numbers DEF Tables, ArrivedWasSent
  <1>4. /\ unread[c] + 1 \in 0..MaxMsgs /\ sent[c] + 1 \in 0..MaxMsgs
    BY <1>1, <1>3
  <1>5. /\ unread' \in [Conns -> 0..MaxMsgs] /\ sent' \in [Conns -> 0..MaxMsgs]
        /\ \A x \in Conns : unread'[x] = (IF x = c THEN unread[x] + 1 ELSE unread[x])
                            /\ sent'[x] = (IF x = c THEN sent[x] + 1 ELSE sent[x])
    BY <1>1, <1>3, <1>4
  <1>6. \A x \in Conns : unread'[x] <= sent'[x] /\ unread[x] <= unread'[x]
    BY <1>3, <1>5
  <1>7. Tables'
    BY <1>1, <1>2, <1>3, <1>5, <1>6, PlacesStay
  <1>8. ASSUME NEW fd \in ready, IsCli(fd)
        PROVE  unread'[fdt[fd].conn] > 0 \/ cli'[fdt[fd].conn] = "shut"
    <2>1. fdt[fd].conn \in Conns /\ (unread[fdt[fd].conn] > 0 \/ cli[fdt[fd].conn] = "shut")
      BY <1>1, <1>8 DEF Loop, Tables
    <2> QED BY <1>1, <1>3, <1>5, <1>6, <2>1
  <1>9. /\ UNCHANGED loopVars /\ open \subseteq open'
        /\ \A fd \in Fds : fd \in open => fdt'[fd] = fdt[fd]
        /\ at = "push" => on \in open
    BY <1>1, <1>2, PushOpen
  <1>10. Loop'
    BY <1>1, <1>8, <1>9, LoopStays
  <1>11. Rest'
    BY <1>1, RestStays
  <1> QED BY <1>7, <1>10, <1>11, BaseNext

LEMMA HangUpBase ==
  ASSUME Base, NEW c \in Conns, HangUp(c)
  PROVE  Base'
  <1>1. /\ Tables /\ Loop /\ Rest /\ cli[c] = "up" /\ cli' = [cli EXCEPT ![c] = "shut"]
        /\ UNCHANGED <<loopVars, tableVars, unread, sent, rq, sq, workVars, drops, flags>>
    BY BaseParts DEF HangUp
  <1>2. UNCHANGED <<fdt, open, maxfd, backlog>>
    BY <1>1 DEF tableVars
  <1>3. /\ unread' \in [Conns -> 0..MaxMsgs] /\ sent' \in [Conns -> 0..MaxMsgs]
        /\ \A x \in Conns : unread'[x] <= sent'[x]
        /\ cli \in [Conns -> {"new", "up", "shut", "gone"}]
    BY <1>1 DEF Tables, ArrivedWasSent
  <1>4. /\ cli' \in [Conns -> {"new", "up", "shut", "gone"}]
        /\ \A x \in Conns : cli'[x] = (IF x = c THEN "shut" ELSE cli[x])
    BY <1>1, <1>3
  <1>5. \A x \in Conns : cli'[x] \in {"up", "shut"} <=> cli[x] \in {"up", "shut"}
    BY <1>1, <1>4
  <1>6. Tables'
    BY <1>1, <1>2, <1>3, <1>4, <1>5, PlacesStay
  <1>7. ASSUME NEW fd \in ready, IsCli(fd)
        PROVE  unread'[fdt[fd].conn] > 0 \/ cli'[fdt[fd].conn] = "shut"
    <2>1. fdt[fd].conn \in Conns /\ (unread[fdt[fd].conn] > 0 \/ cli[fdt[fd].conn] = "shut")
      BY <1>1, <1>7 DEF Loop, Tables
    <2> QED BY <1>1, <1>4, <2>1
  <1>8. /\ UNCHANGED loopVars /\ open \subseteq open'
        /\ \A fd \in Fds : fd \in open => fdt'[fd] = fdt[fd]
        /\ at = "push" => on \in open
    BY <1>1, <1>2, PushOpen
  <1>9. Loop'
    BY <1>1, <1>7, <1>8, LoopStays
  <1>10. Rest'
    BY <1>1, RestStays
  <1> QED BY <1>6, <1>9, <1>10, BaseNext

-----------------------------------------------------------------------------
\* The master keeps Base.

LEMMA QuietBase ==
  ASSUME Base, UNCHANGED <<tableVars, clientVars, rq, sq, workVars, drops, flags>>, Loop'
  PROVE  Base'
  <1>1. Tables /\ Rest /\ UNCHANGED <<tableVars, clientVars>>
        /\ UNCHANGED <<rq, sq, workVars, drops, flags>>
    BY BaseParts
  <1> QED BY <1>1, TablesStay, RestStays, BaseNext

LEMMA NextQueueBase ==
  ASSUME Base, NextQueue
  PROVE  Base'
  <1>1. /\ Loop /\ at = "send" /\ UNCHANGED <<ready, left, fdt, open, unread, cli>>
        /\ \/ on < NWork /\ on' = on + 1 /\ at' = "send"
           \/ at' = "wait" /\ on' = 1
    BY BaseParts DEF NextQueue, tableVars, clientVars
  <1>2. on' \in Works /\ on' \in Fds
    BY <1>1, Numbers DEF Loop, Works
  <1>3. Loop'
    BY <1>1, <1>2 DEF Loop, IsCli
  <1> QED BY <1>3, QuietBase DEF NextQueue

LEMMA EpollWaitBase ==
  ASSUME Base, EpollWait
  PROVE  Base'
  <1>1. /\ Tables /\ Loop /\ at = "wait" /\ at' = "events"
        /\ UNCHANGED <<on, left, fdt, open, unread, cli>>
        /\ ready' = {w \in Works : fdt[w].type = "listen" /\ backlog[w] # <<>>}
                    \cup {fd \in open : IsCli(fd) /\ (unread[fdt[fd].conn] > 0
                                                     \/ cli[fdt[fd].conn] = "shut")}
    BY BaseParts DEF EpollWait, tableVars, clientVars
  <1>2. ready' \subseteq open /\ ready' \subseteq Fds
    BY <1>1, OpenFacts, Numbers DEF Tables
  <1>3. \A fd \in ready' : IsCli(fd) => unread[fdt[fd].conn] > 0 \/ cli[fdt[fd].conn] = "shut"
    BY <1>1 DEF IsCli
  <1>4. Loop'
    BY <1>1, <1>2, <1>3 DEF Loop, IsCli
  <1> QED BY <1>4, QuietBase DEF EpollWait

LEMMA LoopTopBase ==
  ASSUME Base, LoopTop
  PROVE  Base'
  <1>1. /\ Loop /\ ready = {} /\ at = "events" /\ at' = "send"
        /\ UNCHANGED <<on, ready, left, fdt, open, unread, cli>>
    BY BaseParts DEF LoopTop, tableVars, clientVars
  <1>2. on \in Works
    BY <1>1 DEF Loop
  <1>3. Loop'
    BY <1>1, <1>2 DEF Loop, IsCli
  <1> QED BY <1>3, QuietBase DEF LoopTop

LEMMA StartAcceptBase ==
  ASSUME Base, NEW fd \in Fds, StartAccept(fd)
  PROVE  Base'
  <1>1. /\ Tables /\ Loop /\ fd \in ready /\ ready' = ready \ {fd} /\ fdt[fd].type = "listen"
        /\ at' = "accept" /\ on' = fd
        /\ UNCHANGED <<left, fdt, open, unread, cli>>
    BY BaseParts DEF StartAccept, Event, tableVars, clientVars
  <1>2. fd \in open /\ fd \in Works
    <2>1. fd \in open
      BY <1>1 DEF Loop
    <2>2. ~IsCli(fd)
      BY <1>1 DEF IsCli
    <2> QED BY <1>1, <2>1, <2>2, OpenFacts
  <1>3. Loop'
    BY <1>1, <1>2 DEF Loop, IsCli
  <1> QED BY <1>3, QuietBase DEF StartAccept

LEMMA AcceptNoneBase ==
  ASSUME Base, AcceptNone
  PROVE  Base'
  <1>1. /\ Loop /\ at' = "events" /\ on' = 1
        /\ UNCHANGED <<ready, left, fdt, open, unread, cli>>
    BY BaseParts DEF AcceptNone, tableVars, clientVars
  <1>2. Loop'
    BY <1>1, Numbers DEF Loop, IsCli
  <1> QED BY <1>2, QuietBase DEF AcceptNone

LEMMA ReadMsgsBase ==
  ASSUME Base, NEW fd \in Fds, ReadMsgs(fd)
  PROVE  Base'
  <1> DEFINE c == fdt[fd].conn
  <1>1. /\ Tables /\ Loop /\ Rest /\ fd \in ready /\ ready' = ready \ {fd} /\ IsCli(fd)
        /\ cli[c] = "up" /\ left' = unread[c] /\ unread' = [unread EXCEPT ![c] = 0]
        /\ at' = "push" /\ on' = fd
        /\ UNCHANGED <<tableVars, cli, sent, rq, sq, workVars, drops, flags>>
    BY BaseParts DEF ReadMsgs, Event
  <1>2. UNCHANGED <<fdt, open, maxfd, backlog>>
    BY <1>1 DEF tableVars
  <1>3. /\ c \in Conns /\ unread \in [Conns -> 0..MaxMsgs] /\ sent \in [Conns -> 0..MaxMsgs]
        /\ MaxMsgs \in Nat /\ \A x \in Conns : unread[x] <= sent[x]
        /\ cli \in [Conns -> {"new", "up", "shut", "gone"}] /\ unread[c] > 0
    BY <1>1, Numbers DEF Tables, ArrivedWasSent, Loop
  <1>4. Holds(fd, c) /\ \A f \in Fds \ {fd} : ~Holds(f, c)
    BY <1>1, <1>3, PlaceFacts DEF Holds
  <1> HIDE DEF c
  <1>5. /\ unread' \in [Conns -> 0..MaxMsgs]
        /\ \A x \in Conns : unread'[x] = (IF x = c THEN 0 ELSE unread[x])
    BY <1>1, <1>3
  <1>6. \A x \in Conns : unread'[x] <= sent'[x]
    BY <1>1, <1>3, <1>5
  <1>7. Tables'
    BY <1>1, <1>2, <1>3, <1>5, <1>6, PlacesStay
  <1>8. ASSUME NEW f \in ready', IsCli(f)
        PROVE  unread'[fdt[f].conn] > 0 \/ cli'[fdt[f].conn] = "shut"
    <2>1. f \in ready /\ f \in Fds \ {fd}
      BY <1>1, <1>8 DEF Loop
    <2>2. fdt[f].conn \in Conns /\ fdt[f].conn # c
      BY <1>1, <1>4, <1>8, <2>1 DEF Tables, Holds
    <2>3. unread[fdt[f].conn] > 0 \/ cli[fdt[f].conn] = "shut"
      BY <1>1, <1>8, <2>1 DEF Loop
    <2> QED BY <1>1, <1>5, <2>2, <2>3
  <1>9. Loop'
    <2>1. left' \in 0..MaxMsgs /\ left' > 0 /\ ready' \subseteq open' /\ ready' \subseteq Fds
          /\ on' \notin ready' /\ on' \in Fds /\ at' = "push" /\ IsCli(on)'
      BY <1>1, <1>2, <1>3 DEF Loop, IsCli
    <2>2. \A f \in ready' : IsCli(f)' => unread'[fdt'[f].conn] > 0 \/ cli'[fdt'[f].conn] = "shut"
      BY <1>2, <1>8 DEF IsCli
    <2> QED BY <2>1, <2>2 DEF Loop
  <1>10. Rest'
    BY <1>1, RestStays
  <1> QED BY <1>7, <1>9, <1>10, BaseNext

LEMMA ReplyBase ==
  ASSUME Base, Reply
  PROVE  Base'
  <1> DEFINE b == Head(sq[on])
  <1>1. /\ Tables /\ Loop /\ Rest /\ at = "send" /\ on \in Works /\ sq[on] # <<>>
        /\ ready = {}
        /\ sq' = [sq EXCEPT ![on] = Tail(@)]
        /\ UNCHANGED <<at, on, ready, left, sess, torn, misclosed, crossed>>
    BY BaseParts DEF Reply, Handling, PopSq, Loop, loopVars, workVars
  <1>2. \/ misrouted' \in BOOLEAN /\ UNCHANGED <<tableVars, clientVars, rq, drops>>
        \/ IsCli(b.fd) /\ CloseAndTell(b.fd, drops) /\ UNCHANGED misrouted
    BY <1>1 DEF Reply, Rest
  <1>3. b \in Blks /\ b.fd \in Fds /\ Queue(sq')
    BY <1>1, QueueTail DEF Rest, Blks
  <1> HIDE DEF b
  <1>4. CASE misrouted' \in BOOLEAN /\ UNCHANGED <<tableVars, clientVars, rq, drops>>
    <2>1. Tables' /\ Loop'
      <3>1. UNCHANGED <<tableVars, clientVars, fdt, open, unread, cli>>
        BY <1>4 DEF tableVars, clientVars
      <3>2. Loop'
        BY <1>1, <3>1 DEF Loop, IsCli
      <3> QED BY <1>1, <3>1, <3>2, TablesStay
    <2>2. Rest'
      BY <1>1, <1>3, <1>4 DEF Rest, Queue
    <2> QED BY <2>1, <2>2, BaseNext
  <1>5. CASE IsCli(b.fd) /\ CloseAndTell(b.fd, drops) /\ UNCHANGED misrouted
    <2>1. drops \in 0..MaxDrops /\ Queue(rq)
      BY <1>1 DEF Rest
    <2>2. Queue(rq') /\ drops' \in 0..MaxDrops
      BY <1>1, <1>3, <1>5, <2>1, TellFacts
    <2>3. /\ at' \in {"send", "events"} /\ on' \in Works /\ left' \in 0..MaxMsgs
          /\ ready' = {}
      BY <1>1 DEF Loop
    <2>4. Tables' /\ Loop'
      BY <1>1, <1>3, <1>5, <2>1, <2>3, CloseKeeps
    <2>5. Rest'
      BY <1>1, <1>3, <1>5, <2>2 DEF Rest, Queue
    <2> QED BY <2>4, <2>5, BaseNext
  <1> QED BY <1>2, <1>4, <1>5

LEMMA CloseAskedBase ==
  ASSUME Base, CloseAsked
  PROVE  Base'
  <1> DEFINE b == Head(sq[on])
  <1>1. /\ Tables /\ Loop /\ Rest /\ at = "send" /\ on \in Works /\ sq[on] # <<>>
        /\ ready = {}
        /\ sq' = [sq EXCEPT ![on] = Tail(@)]
        /\ UNCHANGED <<at, on, ready, left, sess, torn, misrouted, crossed>>
    BY BaseParts DEF CloseAsked, Handling, PopSq, Loop, loopVars, workVars
  <1>2. \/ misclosed' \in BOOLEAN /\ UNCHANGED <<tableVars, clientVars, rq, drops>>
        \/ IsCli(b.fd) /\ CloseAndTell(b.fd, drops) /\ misclosed' \in BOOLEAN
    BY <1>1 DEF CloseAsked, Rest
  <1>3. b \in Blks /\ b.fd \in Fds /\ Queue(sq')
    BY <1>1, QueueTail DEF Rest, Blks
  <1> HIDE DEF b
  <1>4. CASE misclosed' \in BOOLEAN /\ UNCHANGED <<tableVars, clientVars, rq, drops>>
    <2>1. Tables' /\ Loop'
      <3>1. UNCHANGED <<tableVars, clientVars, fdt, open, unread, cli>>
        BY <1>4 DEF tableVars, clientVars
      <3>2. Loop'
        BY <1>1, <3>1 DEF Loop, IsCli
      <3> QED BY <1>1, <3>1, <3>2, TablesStay
    <2>2. Rest'
      BY <1>1, <1>3, <1>4 DEF Rest, Queue
    <2> QED BY <2>1, <2>2, BaseNext
  <1>5. CASE IsCli(b.fd) /\ CloseAndTell(b.fd, drops) /\ misclosed' \in BOOLEAN
    <2>1. drops \in 0..MaxDrops /\ Queue(rq)
      BY <1>1 DEF Rest
    <2>2. Queue(rq') /\ drops' \in 0..MaxDrops
      BY <1>1, <1>3, <1>5, <2>1, TellFacts
    <2>3. /\ at' \in {"send", "events"} /\ on' \in Works /\ left' \in 0..MaxMsgs
          /\ ready' = {}
      BY <1>1 DEF Loop
    <2>4. Tables' /\ Loop'
      BY <1>1, <1>3, <1>5, <2>1, <2>3, CloseKeeps
    <2>5. Rest'
      BY <1>1, <1>3, <1>5, <2>2 DEF Rest, Queue
    <2> QED BY <2>4, <2>5, BaseNext
  <1> QED BY <1>2, <1>4, <1>5

LEMMA ReadHangupBase ==
  ASSUME Base, NEW fd \in Fds, ReadHangup(fd)
  PROVE  Base'
  <1>1. /\ Tables /\ Loop /\ Rest /\ at = "events" /\ IsCli(fd)
        /\ ready' = ready \ {fd} /\ CloseAndTell(fd, drops)
        /\ UNCHANGED <<at, on, left, sq, sess, torn, misclosed, misrouted, crossed>>
    BY BaseParts DEF ReadHangup, Event, workVars, flags
  <1>2. drops \in 0..MaxDrops /\ Queue(rq)
    BY <1>1 DEF Rest
  <1>3. Queue(rq') /\ drops' \in 0..MaxDrops
    BY <1>1, <1>2, TellFacts
  <1>4. /\ at' \in {"send", "events"} /\ on' \in Works /\ left' \in 0..MaxMsgs
        /\ at' # "send" /\ ready' \subseteq open \ {fd}
        /\ \A f \in ready' : IsCli(f) => unread[fdt[f].conn] > 0 \/ cli[fdt[f].conn] = "shut"
    BY <1>1 DEF Loop
  <1>5. Tables' /\ Loop'
    BY <1>1, <1>2, <1>4, CloseKeeps
  <1>6. Rest'
    BY <1>1, <1>3 DEF Rest, Queue
  <1> QED BY <1>5, <1>6, BaseNext

\* What PushMsg does to the queue.
LEMMA PushMsgFacts ==
  ASSUME Base, PushMsg
  PROVE  /\ on \in Fds /\ IsCli(on) /\ fdt[on].idx \in Works /\ fdt[on].conn \in Conns
         /\ drops \in 0..MaxDrops /\ Queue(rq) /\ on \notin ready
         /\ UNCHANGED <<ready, sq, sess, torn, misclosed, misrouted, crossed>>
         /\ \E r \in Pushed(rq[fdt[on].idx], Blk("DATA", on, fdt[on].conn), drops) :
              /\ r.q \in Seq(Blks) /\ Len(r.q) <= QCap /\ r.drops \in 0..MaxDrops
              /\ drops <= r.drops
              /\ \/ /\ r.ret = 0 /\ rq' = [rq EXCEPT ![fdt[on].idx] = r.q] /\ drops' = r.drops
                    /\ left' = left - 1
                    /\ \/ at' = "events" /\ on' = 1
                       \/ left # 1 /\ UNCHANGED <<at, on>>
                    /\ UNCHANGED <<tableVars, clientVars>>
                 \/ /\ CloseAndTell(on, r.drops) /\ r.drops > 0
                    /\ (drops > 0 /\ MaxDrops > 1 => r.drops > 1)
                    /\ left' = 0 /\ at' = "events" /\ on' = 1
  <1> DEFINE w == fdt[on].idx
             b == Blk("DATA", on, fdt[on].conn)
  <1>1. /\ Tables /\ Loop /\ Rest /\ at = "push"
        /\ UNCHANGED <<ready, sq, sess, torn, misclosed, misrouted, crossed>>
    BY BaseParts DEF PushMsg, workVars, flags
  <1>2. on \in Fds /\ IsCli(on) /\ on \notin ready /\ drops \in 0..MaxDrops /\ Queue(rq)
    BY <1>1 DEF Loop, Rest
  <1>3. w \in Works /\ fdt[on].conn \in Conns
    BY <1>1, <1>2 DEF Tables, Entries
  <1>4. b \in Blks
    BY <1>2, <1>3, BlkFacts
  <1>5. PICK r \in Pushed(rq[w], b, drops) :
          \/ /\ r.ret = 0 /\ rq' = [rq EXCEPT ![w] = r.q] /\ drops' = r.drops
             /\ left' = left - 1
             /\ \/ at' = "events" /\ on' = 1
                \/ left # 1 /\ UNCHANGED <<at, on>>
             /\ UNCHANGED <<tableVars, clientVars>>
          \/ /\ r.ret = -1 /\ CloseAndTell(on, r.drops)
             /\ left' = 0 /\ at' = "events" /\ on' = 1
    BY DEF PushMsg
  <1> HIDE DEF b, w
  <1>6. rq[w] \in Seq(Blks) /\ Len(rq[w]) <= QCap
    BY <1>2, <1>3 DEF Queue
  <1>7. /\ r.q \in Seq(Blks) /\ Len(r.q) <= QCap /\ r.drops \in 0..MaxDrops /\ drops <= r.drops
        /\ r.ret = -1 => r.drops > 0 /\ (drops > 0 /\ MaxDrops > 1 => r.drops > 1)
    BY <1>2, <1>4, <1>6, PushedFacts
  <1> QED BY <1>1, <1>2, <1>3, <1>5, <1>7 DEF b, w

LEMMA PushMsgBase ==
  ASSUME Base, PushMsg
  PROVE  Base'
  <1> DEFINE w == fdt[on].idx
             b == Blk("DATA", on, fdt[on].conn)
  <1>1. /\ Tables /\ Loop /\ Rest /\ at = "push" /\ left > 0
    BY BaseParts DEF PushMsg, Loop
  <1>2. /\ on \in Fds /\ IsCli(on) /\ w \in Works
        /\ Queue(rq) /\ on \notin ready
        /\ UNCHANGED <<ready, sq, sess, torn, misclosed, misrouted, crossed>>
    BY PushMsgFacts
  <1>3. PICK r \in Pushed(rq[w], b, drops) :
              /\ r.q \in Seq(Blks) /\ Len(r.q) <= QCap /\ r.drops \in 0..MaxDrops
              /\ \/ /\ rq' = [rq EXCEPT ![w] = r.q] /\ drops' = r.drops
                    /\ left' = left - 1
                    /\ \/ at' = "events" /\ on' = 1
                       \/ left # 1 /\ UNCHANGED <<at, on>>
                    /\ UNCHANGED <<tableVars, clientVars>>
                 \/ CloseAndTell(on, r.drops) /\ left' = 0 /\ at' = "events" /\ on' = 1
    BY PushMsgFacts
  <1> HIDE DEF b, w
  <1>4. CASE /\ rq' = [rq EXCEPT ![w] = r.q] /\ drops' = r.drops
             /\ left' = left - 1
             /\ \/ at' = "events" /\ on' = 1
                \/ left # 1 /\ UNCHANGED <<at, on>>
             /\ UNCHANGED <<tableVars, clientVars>>
    <2>1. Queue(rq')
      BY <1>2, <1>3, <1>4, QueuePut
    <2>2. Rest'
      BY <1>1, <1>2, <1>3, <1>4, <2>1 DEF Rest, Queue
    <2>3. Loop'
      <3>1. UNCHANGED <<fdt, open, unread, cli>>
        BY <1>4 DEF tableVars, clientVars
      <3>2. left \in 0..MaxMsgs /\ left' \in 0..MaxMsgs /\ (left # 1 => left' > 0)
        BY <1>1, <1>4, Numbers DEF Loop
      <3>3. CASE at' = "events" /\ on' = 1
        BY <1>1, <1>2, <3>1, <3>2, <3>3, Numbers DEF Loop, IsCli
      <3>4. CASE left # 1 /\ UNCHANGED <<at, on>>
        BY <1>1, <1>2, <3>1, <3>2, <3>4 DEF Loop, IsCli
      <3> QED BY <1>4, <3>3, <3>4
    <2> QED BY <1>1, <1>4, <2>2, <2>3, TablesStay, BaseNext
  <1>5. CASE CloseAndTell(on, r.drops) /\ left' = 0 /\ at' = "events" /\ on' = 1
    <2>1. Queue(rq') /\ drops' \in 0..MaxDrops
      BY <1>1, <1>2, <1>3, <1>5, TellFacts
    <2>2. /\ at' \in {"send", "events"} /\ on' \in Works /\ left' \in 0..MaxMsgs
          /\ at' # "send" /\ ready' \subseteq open \ {on}
          /\ \A f \in ready' : IsCli(f) => unread[fdt[f].conn] > 0 \/ cli[fdt[f].conn] = "shut"
      BY <1>1, <1>2, <1>5, Numbers DEF Loop
    <2>3. Tables' /\ Loop'
      BY <1>1, <1>2, <1>3, <1>5, <2>2, CloseKeeps
    <2>4. Rest'
      BY <1>1, <1>2, <2>1 DEF Rest, Queue
    <2> QED BY <2>3, <2>4, BaseNext
  <1> QED BY <1>3, <1>4, <1>5

\* What Accept does: the connection c gets the descriptor new, and its work
\* process w is told; or c gets it and w is not told, and the listener closes.
Accepted(c, new, w) ==
  \E r \in Pushed(rq[w], Blk("OPEN", new, c), drops) :
    /\ r.q \in Seq(Blks) /\ Len(r.q) <= QCap /\ r.drops \in 0..MaxDrops
    /\ rq' = [rq EXCEPT ![w] = r.q] /\ drops' = r.drops
    /\ fdt' = [fdt EXCEPT ![new] = Entry("cli", w, c)] /\ open' = open \cup {new}
    /\ maxfd' \in Fds \cup {-1}
    /\ backlog' = [backlog EXCEPT ![on] = Tail(@)]
    /\ UNCHANGED <<at, on, cli, unread, sent>>

Reset == {backlog[on][i] : i \in 2..Len(backlog[on])}

Lost(c, new, w) ==
  /\ \E q \in {rq[w], Append(rq[w], Blk("CLOSE", on, NoConn))} :
       q \in Seq(Blks) /\ Len(q) <= QCap /\ rq' = [rq EXCEPT ![w] = q]
  /\ drops' \in 0..MaxDrops /\ drops' > 0 /\ (drops > 0 /\ MaxDrops > 1 => drops' > 1)
  /\ drops <= drops'
  /\ fdt' = [[fdt EXCEPT ![new] = Entry("cli", w, c)] EXCEPT ![on].type = "null"]
  /\ open' = (open \cup {new}) \ {on} /\ maxfd' \in Fds \cup {-1}
  /\ backlog' = [backlog EXCEPT ![on] = <<>>]
  /\ cli' = [x \in Conns |-> IF x \in Reset THEN "gone" ELSE cli[x]]
  /\ unread' = [x \in Conns |-> IF x \in Reset THEN 0 ELSE unread[x]]
  /\ at' = "events" /\ on' = 1 /\ sent' = sent

LEMMA AcceptFacts ==
  ASSUME Base, Accept
  PROVE  /\ Queue(rq) /\ drops \in 0..MaxDrops /\ at = "accept"
         /\ on \in Works /\ fdt[on].type = "listen" /\ on \in open \ ready /\ backlog[on] # <<>>
         /\ UNCHANGED <<ready, left, sq, sess, torn, misclosed, misrouted, crossed>>
         /\ \E c \in Conns, new \in Fds \ open, w \in Works :
              c = backlog[on][1] /\ (Accepted(c, new, w) \/ Lost(c, new, w))
  <1> DEFINE c == Head(backlog[on])
             new == Lowest(Fds \ open)
             w == fdt[on].idx
             table == [fdt EXCEPT ![new] = Entry("cli", w, c)]
             top == IF maxfd < new THEN new ELSE maxfd
  <1>1. /\ Tables /\ Loop /\ Rest /\ at = "accept" /\ backlog[on] # <<>> /\ Fds \ open # {}
        /\ UNCHANGED <<ready, left, sq, sess, torn, misclosed, misrouted, crossed>>
    BY BaseParts DEF Accept, workVars, flags
  <1>2. /\ on \in Works /\ on \in Fds /\ fdt[on].type = "listen" /\ on \in open \ ready
        /\ Queue(rq) /\ drops \in 0..MaxDrops
    BY <1>1 DEF Loop, Rest
  <1>3. c \in Conns /\ c = backlog[on][1] /\ w \in Works
    <2>1. backlog[on] \in Seq(Conns)
      BY <1>1, <1>2 DEF Tables
    <2>2. w \in Works
      BY <1>1, <1>2 DEF Tables, Entries
    <2> QED BY <1>1, <2>1, <2>2, HeadTailProperties
  <1>4. new \in Fds \ open
    BY <1>1, LowestFacts
  <1>5. Blk("OPEN", new, c) \in Blks /\ Blk("CLOSE", on, NoConn) \in Blks
    BY <1>2, <1>3, <1>4, BlkFacts
  <1>6. PICK r \in Pushed(rq[w], Blk("OPEN", new, c), drops) :
          \/ /\ r.ret = 0
             /\ rq' = [rq EXCEPT ![w] = r.q] /\ drops' = r.drops
             /\ fdt' = table /\ open' = open \cup {new} /\ maxfd' = top
             /\ backlog' = [backlog EXCEPT ![on] = Tail(@)]
             /\ UNCHANGED <<at, on, clientVars>>
          \/ /\ r.ret = -1
             /\ \E told \in Pushed(r.q, Blk("CLOSE", on, NoConn), r.drops) :
                  rq' = [rq EXCEPT ![w] = told.q] /\ drops' = told.drops
             /\ fdt' = [table EXCEPT ![on].type = "null"]
             /\ open' = (open \cup {new}) \ {on}
             /\ maxfd' = MaxAfter(table, top, on)
             /\ backlog' = [backlog EXCEPT ![on] = <<>>]
             /\ cli' = [x \in Conns |-> IF x \in Reset THEN "gone" ELSE cli[x]]
             /\ unread' = [x \in Conns |-> IF x \in Reset THEN 0 ELSE unread[x]]
             /\ at' = "events" /\ on' = 1
             /\ UNCHANGED sent
    BY DEF Accept, Reset
  <1>7. top \in Fds \cup {-1}
    BY <1>1, <1>4 DEF Tables
  <1>8. MaxAfter(table, top, on) \in Fds \cup {-1}
    <2> HIDE DEF top, table
    <2> QED BY <1>2, <1>7, MaxAfterFacts
  <1> HIDE DEF c, new, w, top
  <1>9. rq[w] \in Seq(Blks) /\ Len(rq[w]) <= QCap
    BY <1>2, <1>3 DEF Queue
  <1>10. /\ r.q \in Seq(Blks) /\ Len(r.q) <= QCap /\ r.drops \in 0..MaxDrops /\ drops <= r.drops
         /\ r.ret = -1 => /\ r.q = rq[w] /\ r.drops > 0
                          /\ (drops > 0 /\ MaxDrops > 1 => r.drops > 1)
    BY <1>2, <1>5, <1>9, PushedFacts
  <1>11. CASE r.ret = 0
    <2>1. r.ret # -1
      BY <1>11
    <2>2. /\ rq' = [rq EXCEPT ![w] = r.q] /\ drops' = r.drops
          /\ fdt' = table /\ open' = open \cup {new} /\ maxfd' = top
          /\ backlog' = [backlog EXCEPT ![on] = Tail(@)]
          /\ UNCHANGED <<at, on, cli, unread, sent>>
      BY <1>6, <2>1 DEF clientVars
    <2>3. Accepted(c, new, w)
      BY <1>7, <1>10, <2>2 DEF Accepted
    <2> QED BY <1>1, <1>2, <1>3, <1>4, <2>3
  <1>12. CASE r.ret # 0
    <2>1. /\ r.ret = -1
          /\ fdt' = [table EXCEPT ![on].type = "null"]
          /\ open' = (open \cup {new}) \ {on}
          /\ maxfd' = MaxAfter(table, top, on)
          /\ backlog' = [backlog EXCEPT ![on] = <<>>]
          /\ cli' = [x \in Conns |-> IF x \in Reset THEN "gone" ELSE cli[x]]
          /\ unread' = [x \in Conns |-> IF x \in Reset THEN 0 ELSE unread[x]]
          /\ at' = "events" /\ on' = 1 /\ sent' = sent
      BY <1>6, <1>12
    <2>2. PICK told \in Pushed(r.q, Blk("CLOSE", on, NoConn), r.drops) :
                  rq' = [rq EXCEPT ![w] = told.q] /\ drops' = told.drops
      BY <1>6, <1>12
    <2>3. /\ told.q \in Seq(Blks) /\ Len(told.q) <= QCap /\ told.drops \in 0..MaxDrops
          /\ r.drops <= told.drops
          /\ told.q \in {r.q, Append(r.q, Blk("CLOSE", on, NoConn))}
      BY <1>5, <1>10, PushedFacts
    <2>4. told.q \in {rq[w], Append(rq[w], Blk("CLOSE", on, NoConn))}
      BY <1>10, <2>1, <2>3
    <2>5. /\ drops' > 0 /\ (drops > 0 /\ MaxDrops > 1 => drops' > 1) /\ drops <= drops'
      BY <1>2, <1>10, <2>1, <2>2, <2>3, Numbers
    <2>6. Lost(c, new, w)
      BY <1>8, <2>1, <2>2, <2>3, <2>4, <2>5 DEF Lost
    <2> QED BY <1>1, <1>2, <1>3, <1>4, <2>6
  <1> QED BY <1>11, <1>12

\* The first connection of a backlog leaves it, with or without those behind it.
LEMMA BacklogFacts ==
  ASSUME Tables, NEW l \in Works, backlog[l] # <<>>,
         \/ backlog' = [backlog EXCEPT ![l] = Tail(@)]
         \/ backlog' = [backlog EXCEPT ![l] = <<>>]
  PROVE  /\ backlog' \in [Works -> Seq(Conns)] /\ WaitsOnce'
         /\ backlog[l][1] \in Conns /\ Waits(backlog[l][1])
         /\ backlog' = [backlog EXCEPT ![l] = Tail(@)] =>
              \A x : Waits(x)' <=> Waits(x) /\ x # backlog[l][1]
         /\ backlog' = [backlog EXCEPT ![l] = <<>>] =>
              \A x : Waits(x)' <=> Waits(x) /\ \A i \in 1..Len(backlog[l]) : backlog[l][i] # x
         /\ \A i \in 2..Len(backlog[l]) : /\ backlog[l][i] \in Conns /\ Waits(backlog[l][i])
                                          /\ backlog[l][i] # backlog[l][1]
  <1>1. /\ backlog \in [Works -> Seq(Conns)] /\ Len(backlog[l]) \in Nat /\ Len(backlog[l]) # 0
        /\ backlog[l] \in Seq(Conns)
    BY LenProperties, EmptySeq DEF Tables
  <1>2. /\ Tail(backlog[l]) \in Seq(Conns) /\ Len(Tail(backlog[l])) = Len(backlog[l]) - 1
        /\ \A i \in 1..Len(Tail(backlog[l])) : Tail(backlog[l])[i] = backlog[l][i + 1]
        /\ <<>> \in Seq(Conns) /\ Len(<<>>) = 0
    BY <1>1, HeadTailProperties, EmptySeq
  <1>3. /\ backlog' \in [Works -> Seq(Conns)]
        /\ \A v \in Works \ {l} : backlog'[v] = backlog[v]
        /\ \/ Len(backlog'[l]) = 0 /\ backlog' = [backlog EXCEPT ![l] = <<>>]
           \/ /\ Len(backlog'[l]) = Len(backlog[l]) - 1
              /\ \A i \in 1..Len(backlog'[l]) : backlog'[l][i] = backlog[l][i + 1]
              /\ backlog' = [backlog EXCEPT ![l] = Tail(@)]
    BY <1>1, <1>2
  <1>4. /\ \A i \in 1..Len(backlog[l]) : backlog[l][i] \in Conns /\ Waits(backlog[l][i])
        /\ 1 \in 1..Len(backlog[l])
        /\ \A i \in 2..Len(backlog[l]) : i \in 1..Len(backlog[l]) /\ i # 1
    BY <1>1, ElementOfSeq DEF Waits
  <1>5. \A u, v \in Works : \A i \in 1..Len(backlog[u]), j \in 1..Len(backlog[v]) :
          backlog[u][i] = backlog[v][j] => u = v /\ i = j
    BY DEF Tables, WaitsOnce
  <1>6. \A i \in 2..Len(backlog[l]) : backlog[l][i] # backlog[l][1]
    BY <1>4, <1>5
  \* What waits at k of v afterwards waited at one place before.
  <1>7. ASSUME NEW v \in Works, NEW k \in 1..Len(backlog'[v])
        PROVE  /\ v # l => k \in 1..Len(backlog[v]) /\ backlog'[v][k] = backlog[v][k]
               /\ v = l => k + 1 \in 2..Len(backlog[l]) /\ backlog'[v][k] = backlog[l][k + 1]
                           /\ k \in Nat
    <2>1. v # l => k \in 1..Len(backlog[v]) /\ backlog'[v][k] = backlog[v][k]
      BY <1>3
    <2>2. v = l => Len(backlog'[l]) # 0
      OBVIOUS
    <2>3. v = l => k + 1 \in 2..Len(backlog[l]) /\ backlog'[v][k] = backlog[l][k + 1] /\ k \in Nat
      BY <1>1, <1>3, <2>2
    <2> QED BY <2>1, <2>3
  <1>8. WaitsOnce'
    <2> SUFFICES ASSUME NEW u \in Works, NEW v \in Works,
                        NEW i \in 1..Len(backlog'[u]), NEW j \in 1..Len(backlog'[v]),
                        backlog'[u][i] = backlog'[v][j]
                 PROVE  u = v /\ i = j
      BY DEF WaitsOnce
    <2>1. CASE u # l /\ v # l
      BY <1>5, <1>7, <2>1
    <2>2. CASE u = l /\ v = l
      <3>1. /\ i + 1 \in 1..Len(backlog[l]) /\ j + 1 \in 1..Len(backlog[l])
            /\ backlog[l][i + 1] = backlog[l][j + 1] /\ i \in Nat /\ j \in Nat
        BY <1>4, <1>7, <2>2
      <3>2. i + 1 = j + 1
        BY <1>5, <3>1
      <3> QED BY <2>2, <3>1, <3>2
    <2>3. CASE u = l /\ v # l
      <3>1. i + 1 \in 1..Len(backlog[l]) /\ backlog'[u][i] = backlog[l][i + 1]
        BY <1>4, <1>7, <2>3
      <3>2. j \in 1..Len(backlog[v]) /\ backlog'[v][j] = backlog[v][j]
        BY <1>7, <2>3
      <3> QED BY <1>5, <2>3, <3>1, <3>2
    <2>4. CASE u # l /\ v = l
      <3>1. j + 1 \in 1..Len(backlog[l]) /\ backlog'[v][j] = backlog[l][j + 1]
        BY <1>4, <1>7, <2>4
      <3>2. i \in 1..Len(backlog[u]) /\ backlog'[u][i] = backlog[u][i]
        BY <1>7, <2>4
      <3> QED BY <1>5, <2>4, <3>1, <3>2
    <2> QED BY <2>1, <2>2, <2>3, <2>4
  \* Waiting somewhere, somewhere else than in l, or in l but not in front.
  <1> DEFINE Else(x) == \E v \in Works \ {l} : \E i \in 1..Len(backlog[v]) : backlog[v][i] = x
             Behind(x) == \E i \in 2..Len(backlog[l]) : backlog[l][i] = x
  <1>9. \A x : Waits(x) <=> Else(x) \/ Behind(x) \/ x = backlog[l][1]
    <2>1. \A i \in 1..Len(backlog[l]) : i = 1 \/ i \in 2..Len(backlog[l])
      BY <1>1
    <2>2. ASSUME NEW x, Waits(x) PROVE Else(x) \/ Behind(x) \/ x = backlog[l][1]
      <3>1. PICK v \in Works : \E i \in 1..Len(backlog[v]) : backlog[v][i] = x
        BY <2>2 DEF Waits
      <3> QED BY <2>1, <3>1
    <2>3. ASSUME NEW x, Else(x) \/ Behind(x) \/ x = backlog[l][1] PROVE Waits(x)
      BY <1>4, <2>3 DEF Waits
    <2> QED BY <2>2, <2>3
  <1>10. \A x : Else(x) => Waits(x)'
    BY <1>3 DEF Waits
  <1>11. ASSUME backlog' = [backlog EXCEPT ![l] = Tail(@)]
         PROVE  \A x : Waits(x)' <=> Waits(x) /\ x # backlog[l][1]
    <2>1. ASSUME NEW x, Waits(x)' PROVE Else(x) \/ Behind(x)
      <3>1. PICK v \in Works : \E k \in 1..Len(backlog'[v]) : backlog'[v][k] = x
        BY <2>1 DEF Waits
      <3> QED BY <1>7, <3>1
    <2>2. ASSUME NEW x, Behind(x) PROVE Waits(x)'
      <3>1. PICK i \in 2..Len(backlog[l]) : backlog[l][i] = x
        BY <2>2
      <3>2. backlog'[l] = Tail(backlog[l])
        BY <1>1, <1>11
      <3>3. i - 1 \in 1..Len(Tail(backlog[l])) /\ (i - 1) + 1 = i
        BY <1>1, <1>2, <3>1
      <3>4. backlog'[l][i - 1] = x /\ i - 1 \in 1..Len(backlog'[l])
        BY <1>2, <3>1, <3>2, <3>3
      <3> QED BY <3>4 DEF Waits
    <2>3. \A x : Else(x) \/ Behind(x) => x # backlog[l][1]
      BY <1>4, <1>5, <1>6
    <2> QED BY <1>9, <1>10, <2>1, <2>2, <2>3
  <1>12. ASSUME backlog' = [backlog EXCEPT ![l] = <<>>]
         PROVE  \A x : Waits(x)' <=>
                         Waits(x) /\ \A i \in 1..Len(backlog[l]) : backlog[l][i] # x
    <2>1. backlog'[l] = <<>> /\ Len(backlog'[l]) = 0
      BY <1>1, <1>2, <1>12
    <2>2. ASSUME NEW x, Waits(x)' PROVE Else(x)
      <3>1. PICK v \in Works : \E k \in 1..Len(backlog'[v]) : backlog'[v][k] = x
        BY <2>2 DEF Waits
      <3>2. v # l
        BY <2>1, <3>1
      <3> QED BY <1>7, <3>1, <3>2
    <2>3. \A x : Else(x) => \A i \in 1..Len(backlog[l]) : backlog[l][i] # x
      BY <1>5
    <2>4. \A x : Behind(x) \/ x = backlog[l][1] => \E i \in 1..Len(backlog[l]) : backlog[l][i] = x
      BY <1>4
    <2> QED BY <1>9, <1>10, <2>2, <2>3, <2>4
  <1> QED BY <1>3, <1>4, <1>6, <1>8, <1>11, <1>12

\* A connection c of the backlog of l moves into the table as new, those in R
\* are reset.
Moving(c, new, w, l, R) ==
  /\ Waits(c) /\ fdt[l].type = "listen" /\ l \in open
  /\ \A x \in R : Waits(x) /\ x # c
  /\ fdt' \in [Fds -> Entries] /\ fdt'[new] = Entry("cli", w, c)
  /\ \A f \in Fds \ {new, l} : fdt'[f] = fdt[f]
  /\ \/ fdt'[l] = fdt[l] /\ open' = open \cup {new}
     \/ fdt'[l].type = "null" /\ open' = (open \cup {new}) \ {l}
  /\ backlog' \in [Works -> Seq(Conns)] /\ WaitsOnce'
  /\ \A x \in Conns : Waits(x)' <=> Waits(x) /\ x \notin R /\ x # c
  /\ cli' = [x \in Conns |-> IF x \in R THEN "gone" ELSE cli[x]]
  /\ unread' = [x \in Conns |-> IF x \in R THEN 0 ELSE unread[x]]
  /\ sent' = sent /\ maxfd' \in Fds \cup {-1}

LEMMA MovedIn ==
  ASSUME Tables, NEW c \in Conns, NEW new \in Fds \ open, NEW w \in Works,
         NEW l \in Works, NEW R \in SUBSET Conns, Moving(c, new, w, l, R)
  PROVE  Tables'
  <1> USE DEF Moving
  <1>1. /\ new # l /\ l \in Fds /\ ~IsCli(new) /\ ~IsCli(l)
        /\ ~(new \in Works /\ fdt[new].type = "listen")
    BY OpenFacts, Numbers DEF IsCli
  <1>2. /\ fdt'[new].type = "cli" /\ fdt'[new].conn = c /\ fdt'[l].type # "cli"
    BY <1>1 DEF Entry, IsCli
  <1>3. \A f \in Fds, x \in Conns : Holds(f, x)' <=> (f = new /\ x = c) \/ Holds(f, x)
    BY <1>1, <1>2 DEF Holds, IsCli
  <1>4. \A f \in Fds : IsCli(f)' <=> f = new \/ IsCli(f)
    BY <1>1, <1>2 DEF IsCli
  <1>5. open' = {f \in Fds : IsCli(f)' \/ (f \in Works /\ fdt'[f].type = "listen")}
    <2>1. ASSUME NEW f \in Fds
          PROVE  f \in open' <=> IsCli(f)' \/ (f \in Works /\ fdt'[f].type = "listen")
      <3>1. CASE f = new
        BY <1>1, <1>4, <3>1
      <3>2. CASE f = l
        BY <1>1, <1>2, <3>2 DEF IsCli
      <3>3. CASE f # new /\ f # l
        <4>1. fdt'[f] = fdt[f]
          BY <3>3
        <4> QED BY <1>4, <3>3, <4>1, OpenFacts
      <3> QED BY <3>1, <3>2, <3>3
    <2>2. open' \subseteq Fds
      BY DEF Tables
    <2> QED BY <2>1, <2>2
  <1>6. \A x \in Conns : x = c \/ x \in R => ~\E f \in Fds : Holds(f, x)
    BY PlaceFacts
  <1>7. ASSUME NEW x \in Conns
        PROVE  /\ cli'[x] \in {"up", "shut"} <=> Waits(x)' \/ \E f \in Fds : Holds(f, x)'
               /\ \A f \in Fds : Holds(f, x)' =>
                    ~Waits(x)' /\ \A other \in Fds \ {f} : ~Holds(other, x)'
    <2>1. CASE x = c
      <3>1. ~(x \in R) /\ cli'[x] = cli[x]
        BY <2>1
      <3>2. \A f \in Fds : Holds(f, x)' <=> f = new
        BY <1>3, <1>6, <2>1
      <3>3. cli[x] \in {"up", "shut"}
        BY <2>1, PlaceFacts
      <3>4. ~Waits(x)'
        BY <2>1
      <3> QED BY <3>1, <3>2, <3>3, <3>4
    <2>2. CASE x # c /\ x \in R
      <3>1. cli'[x] = "gone" /\ ~Waits(x)'
        BY <2>2
      <3>2. \A f \in Fds : ~Holds(f, x)'
        BY <1>3, <1>6, <2>2
      <3> QED BY <3>1, <3>2
    <2>3. CASE x # c /\ x \notin R
      <3>1. cli'[x] = cli[x] /\ (Waits(x)' <=> Waits(x))
        BY <2>3
      <3>2. \A f \in Fds : Holds(f, x)' <=> Holds(f, x)
        BY <1>3, <2>3
      <3> QED BY <3>1, <3>2, PlaceFacts
    <2> QED BY <2>1, <2>2, <2>3
  <1>8. TableMatchesKernel'
    BY <1>5, <1>7 DEF TableMatchesKernel, Holds, IsCli, Waits
  <1>9. /\ cli' \in [Conns -> {"new", "up", "shut", "gone"}]
        /\ unread' \in [Conns -> 0..MaxMsgs] /\ sent' \in [Conns -> 0..MaxMsgs]
    BY Numbers DEF Tables
  <1>10. ArrivedWasSent'
    <2> SUFFICES ASSUME NEW x \in Conns PROVE unread'[x] <= sent'[x]
      BY DEF ArrivedWasSent
    <2>1. unread[x] <= sent[x] /\ sent[x] \in 0..MaxMsgs
      BY DEF Tables, ArrivedWasSent
    <2> QED BY <2>1, Numbers
  <1>11. \A f \in Fds : IsCli(f)' => fdt'[f].conn \in Conns
    <2> SUFFICES ASSUME NEW f \in Fds, IsCli(f)' PROVE fdt'[f].conn \in Conns
      OBVIOUS
    <2>1. CASE f = new
      BY <1>2, <2>1
    <2>2. CASE f # new
      <3>1. IsCli(f) /\ f # l
        BY <1>1, <1>4, <2>2
      <3>2. fdt'[f] = fdt[f]
        BY <2>2, <3>1
      <3> QED BY <3>1, <3>2 DEF Tables
    <2> QED BY <2>1, <2>2
  <1>12. open' \subseteq Fds
    BY <1>5
  <1> QED BY <1>8, <1>9, <1>10, <1>11, <1>12 DEF Tables

LEMMA AcceptBase ==
  ASSUME Base, Accept
  PROVE  Base'
  <1>1. /\ Tables /\ Loop /\ Rest /\ Queue(rq) /\ at = "accept"
        /\ on \in Works /\ on \in Fds /\ fdt[on].type = "listen" /\ on \in open \ ready
        /\ backlog[on] # <<>>
        /\ UNCHANGED <<ready, left, sq, sess, torn, misclosed, misrouted, crossed>>
    BY BaseParts, AcceptFacts, Numbers
  <1>2. PICK c \in Conns, new \in Fds \ open, w \in Works :
          c = backlog[on][1] /\ (Accepted(c, new, w) \/ Lost(c, new, w))
    BY AcceptFacts
  <1>3. /\ Entry("cli", w, c) \in Entries /\ fdt \in [Fds -> Entries] /\ new # on
        /\ ready \subseteq open /\ open \subseteq Fds
    BY <1>1 DEF Entry, Entries, Tables, Loop
  <1>4. \A f \in ready : f \in Fds /\ f # new /\ f # on
    BY <1>1, <1>3
  <1>5. CASE Accepted(c, new, w)
    <2>1. /\ fdt' = [fdt EXCEPT ![new] = Entry("cli", w, c)] /\ open' = open \cup {new}
          /\ maxfd' \in Fds \cup {-1}
          /\ backlog' = [backlog EXCEPT ![on] = Tail(@)]
          /\ UNCHANGED <<at, on, cli, unread, sent>>
      BY <1>5 DEF Accepted
    <2>2. Queue(rq') /\ drops' \in 0..MaxDrops
      <3>1. PICK r : /\ r.q \in Seq(Blks) /\ Len(r.q) <= QCap /\ r.drops \in 0..MaxDrops
                     /\ rq' = [rq EXCEPT ![w] = r.q] /\ drops' = r.drops
        BY <1>5 DEF Accepted
      <3> QED BY <1>1, <3>1, QueuePut
    <2>3. Rest'
      BY <1>1, <2>2 DEF Rest, Queue
    <2>4. /\ backlog' \in [Works -> Seq(Conns)] /\ WaitsOnce' /\ Waits(c)
          /\ \A x : Waits(x)' <=> Waits(x) /\ x # c
      BY <1>1, <1>2, <2>1, BacklogFacts
    <2>5. /\ fdt' \in [Fds -> Entries] /\ fdt'[new] = Entry("cli", w, c)
          /\ \A f \in Fds \ {new} : fdt'[f] = fdt[f]
      BY <1>3, <2>1
    <2>6. /\ \A f \in Fds \ {new, on} : fdt'[f] = fdt[f]
          /\ fdt'[on] = fdt[on] /\ open' = open \cup {new}
      BY <1>1, <1>3, <2>1, <2>5
    <2>7. /\ cli' = [x \in Conns |-> IF x \in {} THEN "gone" ELSE cli[x]]
          /\ unread' = [x \in Conns |-> IF x \in {} THEN 0 ELSE unread[x]]
          /\ sent' = sent
      BY <1>1, <2>1 DEF Tables
    <2>8. {} \in SUBSET Conns /\ \A x \in {} : Waits(x) /\ x # c
      OBVIOUS
    <2>9. \A x \in Conns : Waits(x)' <=> Waits(x) /\ x \notin {} /\ x # c
      BY <2>4
    <2>10. Tables'
      <3>1. Moving(c, new, w, on, {})
        BY <1>1, <2>1, <2>4, <2>5, <2>6, <2>7, <2>8, <2>9 DEF Moving
      <3> QED BY <1>1, <2>8, <3>1, MovedIn
    <2>11. UNCHANGED loopVars /\ open \subseteq open'
      BY <1>1, <2>1 DEF loopVars
    <2>12. \A f \in Fds : f \in open => fdt'[f] = fdt[f]
      BY <2>5
    <2>13. \A f \in ready : IsCli(f) => unread'[fdt[f].conn] > 0 \/ cli'[fdt[f].conn] = "shut"
      BY <1>1, <2>1 DEF Loop
    <2>14. at = "push" => on \in open
      BY <1>1
    <2>15. Loop'
      BY <1>1, <2>11, <2>12, <2>13, <2>14, LoopStays
    <2> QED BY <2>3, <2>10, <2>15, BaseNext
  <1>6. CASE Lost(c, new, w)
    <2>1. /\ drops' \in 0..MaxDrops
          /\ fdt' = [[fdt EXCEPT ![new] = Entry("cli", w, c)] EXCEPT ![on].type = "null"]
          /\ open' = (open \cup {new}) \ {on} /\ maxfd' \in Fds \cup {-1}
          /\ backlog' = [backlog EXCEPT ![on] = <<>>]
          /\ cli' = [x \in Conns |-> IF x \in Reset THEN "gone" ELSE cli[x]]
          /\ unread' = [x \in Conns |-> IF x \in Reset THEN 0 ELSE unread[x]]
          /\ at' = "events" /\ on' = 1 /\ sent' = sent
      BY <1>6 DEF Lost
    <2>2. Queue(rq')
      <3>1. PICK q : q \in Seq(Blks) /\ Len(q) <= QCap /\ rq' = [rq EXCEPT ![w] = q]
        BY <1>6 DEF Lost
      <3> QED BY <1>1, <3>1, QueuePut
    <2>3. Rest'
      BY <1>1, <2>1, <2>2 DEF Rest, Queue
    <2>4. /\ backlog' \in [Works -> Seq(Conns)] /\ WaitsOnce' /\ Waits(c)
          /\ \A x : Waits(x)' <=> Waits(x) /\ \A i \in 1..Len(backlog[on]) : backlog[on][i] # x
          /\ \A i \in 2..Len(backlog[on]) : /\ backlog[on][i] \in Conns /\ Waits(backlog[on][i])
                                            /\ backlog[on][i] # c
      BY <1>1, <1>2, <2>1, BacklogFacts
    <2>5. Reset \in SUBSET Conns /\ \A x \in Reset : Waits(x) /\ x # c
      BY <2>4 DEF Reset
    <2>6. Len(backlog[on]) \in Nat \ {0}
      BY <1>1, LenProperties, EmptySeq DEF Tables
    <2>7. ASSUME NEW x \in Conns PROVE Waits(x)' <=> Waits(x) /\ x \notin Reset /\ x # c
      <3>1. \A i \in 1..Len(backlog[on]) : i = 1 \/ i \in 2..Len(backlog[on])
        BY <2>6
      <3>2. \A i \in 2..Len(backlog[on]) : i \in 1..Len(backlog[on])
        BY <2>6
      <3>3. 1 \in 1..Len(backlog[on])
        BY <2>6
      <3>4. (\A i \in 1..Len(backlog[on]) : backlog[on][i] # x) <=> x \notin Reset /\ x # c
        BY <1>2, <3>1, <3>2, <3>3 DEF Reset
      <3> QED BY <2>4, <3>4
    <2>8. /\ fdt' \in [Fds -> Entries] /\ fdt'[new] = Entry("cli", w, c)
          /\ \A f \in Fds \ {new, on} : fdt'[f] = fdt[f]
          /\ fdt'[on].type = "null"
      <3>1. [fdt EXCEPT ![new] = Entry("cli", w, c)] \in [Fds -> Entries]
        BY <1>3
      <3>2. \A t \in [Fds -> Entries] :
              /\ [t EXCEPT ![on].type = "null"] \in [Fds -> Entries]
              /\ [t EXCEPT ![on].type = "null"][on].type = "null"
              /\ \A f \in Fds \ {on} : [t EXCEPT ![on].type = "null"][f] = t[f]
        BY <1>1 DEF Entries
      <3>3. \A f \in Fds \ {on} : fdt'[f] = [fdt EXCEPT ![new] = Entry("cli", w, c)][f]
        BY <2>1, <3>1, <3>2
      <3>4. fdt'[new] = Entry("cli", w, c) /\ \A f \in Fds \ {new, on} : fdt'[f] = fdt[f]
        BY <1>3, <3>3
      <3> QED BY <2>1, <3>1, <3>2, <3>4
    <2>9. \A x \in Conns : Waits(x)' <=> Waits(x) /\ x \notin Reset /\ x # c
      BY <2>7
    <2>10. Tables'
      <3>1. Moving(c, new, w, on, Reset)
        BY <1>1, <2>1, <2>4, <2>5, <2>8, <2>9 DEF Moving
      <3> QED BY <1>1, <2>5, <3>1, MovedIn
    <2>11. ASSUME NEW f \in ready, IsCli(f)'
           PROVE  unread'[fdt'[f].conn] > 0 \/ cli'[fdt'[f].conn] = "shut"
      <3>1. f \in Fds \ {new, on}
        BY <1>4
      <3>2. fdt'[f] = fdt[f] /\ IsCli(f)
        BY <2>8, <2>11, <3>1 DEF IsCli
      <3>3. fdt[f].conn \in Conns /\ Holds(f, fdt[f].conn)
        BY <1>1, <3>1, <3>2 DEF Tables, Holds
      <3>4. ~Waits(fdt[f].conn)
        BY <1>1, <3>1, <3>3, PlaceFacts
      <3>5. fdt[f].conn \notin Reset
        BY <2>5, <3>4
      <3>6. cli'[fdt[f].conn] = cli[fdt[f].conn] /\ unread'[fdt[f].conn] = unread[fdt[f].conn]
        BY <2>1, <3>3, <3>5
      <3> QED BY <1>1, <3>2, <3>6 DEF Loop
    <2>12. ready' \subseteq open' /\ ready' \subseteq Fds
      BY <1>1, <1>3, <2>1
    <2>13. left' \in 0..MaxMsgs
      BY <1>1 DEF Loop
    <2>14. at' = "events" /\ on' = 1 /\ ready' = ready
      BY <1>1, <2>1
    <2>15. Loop'
      BY <2>11, <2>12, <2>13, <2>14, Numbers DEF Loop
    <2> QED BY <2>3, <2>10, <2>15, BaseNext
  <1> QED BY <1>2, <1>5, <1>6

-----------------------------------------------------------------------------
\* The work processes keep Base.

LEMMA WorkQuiet ==
  ASSUME Base, UNCHANGED <<loopVars, tableVars, clientVars>>, Rest'
  PROVE  Base'
  <1>1. Tables /\ Loop /\ UNCHANGED <<tableVars, clientVars>>
    BY BaseParts
  <1>2. UNCHANGED <<at, on, ready, left, fdt, open, cli, unread>>
    BY DEF loopVars, tableVars, clientVars
  <1>3. Loop'
    BY <1>1, <1>2 DEF Loop, IsCli
  <1> QED BY <1>1, <1>3, TablesStay, BaseNext

LEMMA TakingFacts ==
  ASSUME Base, NEW w \in Works, NEW type, Taking(w, type), PopRq(w)
  PROVE  /\ Rest /\ ~torn[w] /\ Head(rq[w]) = rq[w][1] /\ rq[w][1].type = type
         /\ rq[w][1] \in Blks /\ rq[w][1].fd \in Fds
         /\ rq[w][1].conn \in Conns \cup {NoConn}
         /\ Queue(rq') /\ Queue(sq) /\ drops \in 0..MaxDrops
         /\ sess \in [Works -> [Fds -> Conns \cup {NoConn}]]
         /\ sq[w] \in Seq(Blks) /\ Len(sq[w]) <= QCap
         /\ Len(rq[w]) \in Nat \ {0} /\ Len(rq'[w]) = Len(rq[w]) - 1
         /\ \A i \in 1..(Len(rq[w]) - 1) : rq'[w][i] = rq[w][i + 1]
         /\ \A v \in Works \ {w} : rq'[v] = rq[v]
  <1>1. Rest /\ ~torn[w] /\ rq[w] # <<>> /\ Head(rq[w]).type = type
        /\ rq' = [rq EXCEPT ![w] = Tail(@)]
    BY BaseParts DEF Taking, PopRq
  <1>2. Queue(rq) /\ Queue(sq) /\ rq \in [Works -> Seq(Blks)]
    BY <1>1 DEF Rest, Queue
  <1>3. rq'[w] = Tail(rq[w]) /\ \A v \in Works \ {w} : rq'[v] = rq[v]
    BY <1>1, <1>2
  <1>4. /\ Head(rq[w]) \in Blks /\ Queue(rq')
        /\ Len(rq[w]) \in Nat \ {0} /\ Len(rq'[w]) = Len(rq[w]) - 1
        /\ Head(rq[w]) = rq[w][1]
        /\ \A i \in 1..(Len(rq[w]) - 1) : rq'[w][i] = rq[w][i + 1]
    <2>1. /\ Head(rq[w]) \in Blks /\ Queue([rq EXCEPT ![w] = Tail(@)])
          /\ Len(rq[w]) \in Nat \ {0} /\ Len(Tail(rq[w])) = Len(rq[w]) - 1
          /\ Head(rq[w]) = rq[w][1]
          /\ \A i \in 1..(Len(rq[w]) - 1) : Tail(rq[w])[i] = rq[w][i + 1]
      BY <1>1, <1>2, QueueTail
    <2> QED BY <1>1, <1>3, <2>1
  <1>5. rq[w][1].fd \in Fds /\ rq[w][1].conn \in Conns \cup {NoConn}
    BY <1>4 DEF Blks
  <1>6. /\ sess \in [Works -> [Fds -> Conns \cup {NoConn}]] /\ drops \in 0..MaxDrops
        /\ sq[w] \in Seq(Blks) /\ Len(sq[w]) <= QCap
    BY <1>1, <1>2 DEF Rest, Queue
  <1>7. rq[w][1].type = type /\ rq[w][1] \in Blks
    BY <1>1, <1>4
  <1> QED BY <1>1, <1>2, <1>3, <1>4, <1>5, <1>6, <1>7

LEMMA OpenSessionBase ==
  ASSUME Base, NEW w \in Works, OpenSession(w)
  PROVE  Base'
  <1>1. /\ Taking(w, "OPEN") /\ PopRq(w)
        /\ sess' = [sess EXCEPT ![w][Head(rq[w]).fd] = Head(rq[w]).conn]
        /\ UNCHANGED <<loopVars, tableVars, clientVars>>
        /\ UNCHANGED <<sq, torn, drops, misclosed, misrouted, crossed>>
    BY DEF OpenSession, flags
  <1>2. /\ Rest /\ Queue(rq') /\ Head(rq[w]).fd \in Fds
        /\ Head(rq[w]).conn \in Conns \cup {NoConn}
    BY <1>1, TakingFacts
  <1>3. sess' \in [Works -> [Fds -> Conns \cup {NoConn}]]
    BY <1>1, <1>2 DEF Rest
  <1>4. Rest'
    BY <1>1, <1>2, <1>3 DEF Rest, Queue
  <1> QED BY <1>1, <1>4, WorkQuiet

LEMMA CloseSessionBase ==
  ASSUME Base, NEW w \in Works, CloseSession(w)
  PROVE  Base'
  <1>1. /\ Taking(w, "CLOSE") /\ PopRq(w)
        /\ sess' = [sess EXCEPT ![w][Head(rq[w]).fd] = NoConn]
        /\ UNCHANGED <<loopVars, tableVars, clientVars>>
        /\ UNCHANGED <<sq, torn, drops, misclosed, misrouted, crossed>>
    BY DEF CloseSession, flags
  <1>2. Rest /\ Queue(rq') /\ Head(rq[w]).fd \in Fds
    BY <1>1, TakingFacts
  <1>3. sess' \in [Works -> [Fds -> Conns \cup {NoConn}]]
    BY <1>1, <1>2 DEF Rest
  <1>4. Rest'
    BY <1>1, <1>2, <1>3 DEF Rest, Queue
  <1> QED BY <1>1, <1>4, WorkQuiet

\* What RefuseOpen does to the other queue.
LEMMA RefuseFacts ==
  ASSUME Base, NEW w \in Works, RefuseOpen(w)
  PROVE  /\ Taking(w, "OPEN") /\ PopRq(w) /\ sess[w][rq[w][1].fd] # NoConn
         /\ torn' = [torn EXCEPT ![w] = TRUE]
         /\ UNCHANGED <<loopVars, tableVars, clientVars>>
         /\ UNCHANGED <<sess, misclosed, misrouted, crossed>>
         /\ Queue(sq') /\ drops' \in 0..MaxDrops /\ drops <= drops'
         /\ \/ /\ drops' = drops
               /\ sq' = [sq EXCEPT ![w] = Append(sq[w], Blk("CLOSE", rq[w][1].fd, rq[w][1].conn))]
            \/ sq' = sq /\ drops' > 0 /\ (drops > 0 /\ MaxDrops > 1 => drops' > 1)
  <1> DEFINE b == Blk("CLOSE", rq[w][1].fd, rq[w][1].conn)
  <1>1. /\ Taking(w, "OPEN") /\ PopRq(w) /\ sess[w][Head(rq[w]).fd] # NoConn
        /\ \E r \in Pushed(sq[w], Blk("CLOSE", Head(rq[w]).fd, Head(rq[w]).conn), drops) :
              sq' = [sq EXCEPT ![w] = r.q] /\ drops' = r.drops
        /\ torn' = [torn EXCEPT ![w] = TRUE]
        /\ UNCHANGED <<loopVars, tableVars, clientVars>>
        /\ UNCHANGED <<sess, misclosed, misrouted, crossed>>
    BY DEF RefuseOpen, flags
  <1>2. /\ Head(rq[w]) = rq[w][1] /\ rq[w][1].fd \in Fds
        /\ rq[w][1].conn \in Conns \cup {NoConn} /\ Queue(sq) /\ drops \in 0..MaxDrops
        /\ sq[w] \in Seq(Blks) /\ Len(sq[w]) <= QCap
    BY <1>1, TakingFacts
  <1>3. b \in Blks
    BY <1>2, BlkFacts
  <1>4. PICK r \in Pushed(sq[w], b, drops) : sq' = [sq EXCEPT ![w] = r.q] /\ drops' = r.drops
    BY <1>1, <1>2
  <1> HIDE DEF b
  <1>5. /\ r.q \in Seq(Blks) /\ Len(r.q) <= QCap /\ r.drops \in 0..MaxDrops /\ drops <= r.drops
        /\ \/ r.q = Append(sq[w], b) /\ r.drops = drops
           \/ r.q = sq[w] /\ r.drops > 0 /\ (drops > 0 /\ MaxDrops > 1 => r.drops > 1)
    BY <1>2, <1>3, <1>4, PushedFacts
  <1>6. Queue(sq')
    BY <1>2, <1>4, <1>5, QueuePut
  <1>7. r.q = sq[w] => sq' = sq
    BY <1>2, <1>4 DEF Queue
  <1> QED BY <1>1, <1>2, <1>4, <1>5, <1>6, <1>7 DEF b

LEMMA RefuseOpenBase ==
  ASSUME Base, NEW w \in Works, RefuseOpen(w)
  PROVE  Base'
  <1>1. /\ Taking(w, "OPEN") /\ PopRq(w) /\ torn' = [torn EXCEPT ![w] = TRUE]
        /\ UNCHANGED <<loopVars, tableVars, clientVars>>
        /\ UNCHANGED <<sess, misclosed, misrouted, crossed>>
        /\ Queue(sq') /\ drops' \in 0..MaxDrops
    BY RefuseFacts
  <1>2. Rest /\ Queue(rq')
    BY <1>1, TakingFacts
  <1>3. torn' \in [Works -> BOOLEAN]
    BY <1>1, <1>2 DEF Rest
  <1>4. Rest'
    BY <1>1, <1>2, <1>3 DEF Rest, Queue
  <1> QED BY <1>1, <1>4, WorkQuiet

\* r is q with blocks of X behind it.
Extended(q, r, X) ==
  /\ \A i \in 1..Len(q) : i \in 1..Len(r) /\ r[i] = q[i]
  /\ \A i \in 1..Len(r) : (i \in 1..Len(q) /\ r[i] = q[i]) \/ r[i] \in X

LEMMA AppendExtends ==
  ASSUME NEW q \in Seq(Blks), NEW b \in Blks
  PROVE  /\ Extended(q, Append(q, b), {b}) /\ Len(Append(q, b)) = Len(q) + 1
         /\ Len(q) + 1 \in 1..Len(Append(q, b)) /\ Append(q, b)[Len(q) + 1] = b
  <1>1. /\ Len(q) \in Nat /\ Len(Append(q, b)) = Len(q) + 1
        /\ \A i \in 1..Len(q) : Append(q, b)[i] = q[i]
        /\ Append(q, b)[Len(q) + 1] = b
    BY AppendProperties, LenProperties
  <1> QED BY <1>1 DEF Extended

LEMMA PushedExtends ==
  ASSUME NEW q \in Seq(Blks), Len(q) <= QCap, NEW b \in Blks, NEW d \in 0..MaxDrops,
         NEW r \in Pushed(q, b, d)
  PROVE  Extended(q, r.q, {b})
         /\ (r.drops = 0 => \E i \in 1..Len(r.q) : r.q[i] = b)
  <1>1. \/ r.q = Append(q, b)
        \/ r.q = q /\ r.drops > 0
    BY PushedFacts
  <1>2. CASE r.q = Append(q, b)
    BY <1>2, AppendExtends
  <1>3. CASE r.q = q /\ r.drops > 0
    BY <1>3 DEF Extended
  <1> QED BY <1>1, <1>2, <1>3

LEMMA ExtendedTwice ==
  ASSUME NEW q, NEW r, NEW t, NEW X, NEW Y, NEW Z, Extended(q, r, X), Extended(r, t, Y),
         X \subseteq Z, Y \subseteq Z
  PROVE  Extended(q, t, Z)
  BY DEF Extended

\* What Process does: the session s the block finds may be closed, and then the
\* master is asked to close it, unless that push queues nothing.
LEMMA ProcessFacts ==
  ASSUME Base, NEW w \in Works, Process(w)
  PROVE  /\ Taking(w, "DATA") /\ PopRq(w)
         /\ UNCHANGED <<loopVars, tableVars, clientVars>>
         /\ UNCHANGED <<torn, misclosed, misrouted>>
         /\ \/ sess[w][rq[w][1].fd] = NoConn /\ UNCHANGED <<sq, sess, drops, crossed>>
            \/ /\ sess[w][rq[w][1].fd] # NoConn
               /\ Queue(sq') /\ drops' \in 0..MaxDrops /\ drops <= drops'
               /\ \A v \in Works \ {w} : sq'[v] = sq[v]
               /\ Extended(sq[w], sq'[w], {Blk(t, rq[w][1].fd, sess[w][rq[w][1].fd]) :
                                             t \in {"DATA", "CLOSE"}})
               /\ \/ sess' = sess
                  \/ /\ sess' = [sess EXCEPT ![w][rq[w][1].fd] = NoConn]
                     /\ drops' = 0 => \E i \in 1..Len(sq'[w]) :
                          sq'[w][i] = Blk("CLOSE", rq[w][1].fd, sess[w][rq[w][1].fd])
               /\ crossed' = (crossed \/ sess[w][rq[w][1].fd] # rq[w][1].conn)
  <1> DEFINE fd == rq[w][1].fd
             s == sess[w][fd]
             data == Blk("DATA", fd, s)
             close == Blk("CLOSE", fd, s)
             both == {Blk(t, fd, s) : t \in {"DATA", "CLOSE"}}
             same == [q |-> sq[w], ret |-> 0, drops |-> drops]
  <1>1. /\ Taking(w, "DATA") /\ PopRq(w)
        /\ UNCHANGED <<loopVars, tableVars, clientVars>>
        /\ UNCHANGED <<torn, misclosed, misrouted>>
    BY DEF Process
  <1>2. /\ Rest /\ Head(rq[w]) = rq[w][1] /\ fd \in Fds /\ s \in Conns \cup {NoConn}
        /\ Queue(sq) /\ drops \in 0..MaxDrops
        /\ sq[w] \in Seq(Blks) /\ Len(sq[w]) <= QCap
    BY <1>1, TakingFacts
  <1>3. \/ s = NoConn /\ UNCHANGED <<sq, sess, drops, crossed>>
        \/ \E reply, cl \in BOOLEAN :
           \E r \in IF reply THEN Pushed(sq[w], data, drops) ELSE {same} :
           \E t \in IF cl THEN Pushed(r.q, close, r.drops) ELSE {r} :
             /\ s # NoConn
             /\ sq' = [sq EXCEPT ![w] = t.q] /\ drops' = t.drops
             /\ sess' = IF cl THEN [sess EXCEPT ![w][fd] = NoConn] ELSE sess
             /\ crossed' = (crossed \/ s # rq[w][1].conn)
    BY <1>2 DEF Process
  <1>4. data \in Blks /\ close \in Blks /\ {data} \subseteq both /\ {close} \subseteq both
    BY <1>2, BlkFacts
  <1>5. /\ same.q = sq[w] /\ same.drops = drops
        /\ Extended(sq[w], sq[w], both)
    BY DEF Extended
  <1> HIDE DEF fd, s, data, close, both, same
  <1>6. CASE s = NoConn /\ UNCHANGED <<sq, sess, drops, crossed>>
    BY <1>1, <1>6 DEF s, fd
  <1>7. ASSUME NEW reply \in BOOLEAN, NEW cl \in BOOLEAN,
               NEW r \in IF reply THEN Pushed(sq[w], data, drops) ELSE {same},
               NEW t \in IF cl THEN Pushed(r.q, close, r.drops) ELSE {r},
               s # NoConn, sq' = [sq EXCEPT ![w] = t.q], drops' = t.drops,
               sess' = IF cl THEN [sess EXCEPT ![w][fd] = NoConn] ELSE sess,
               crossed' = (crossed \/ s # rq[w][1].conn)
        PROVE  /\ Queue(sq') /\ drops' \in 0..MaxDrops /\ drops <= drops'
               /\ \A v \in Works \ {w} : sq'[v] = sq[v]
               /\ Extended(sq[w], sq'[w], both)
               /\ \/ sess' = sess
                  \/ /\ sess' = [sess EXCEPT ![w][fd] = NoConn]
                     /\ drops' = 0 => \E i \in 1..Len(sq'[w]) : sq'[w][i] = close
    <2>1. /\ r.q \in Seq(Blks) /\ Len(r.q) <= QCap /\ r.drops \in 0..MaxDrops
          /\ drops <= r.drops /\ Extended(sq[w], r.q, both)
      <3>1. CASE reply
        <4>1. r \in Pushed(sq[w], data, drops)
          BY <3>1
        <4>2. Extended(sq[w], r.q, {data})
          BY <1>2, <1>4, <4>1, PushedExtends
        <4>3. Extended(sq[w], r.q, both)
          BY <1>4, <4>2 DEF Extended
        <4> QED BY <1>2, <1>4, <4>1, <4>3, PushedFacts
      <3>2. CASE ~reply
        <4>1. r = same
          BY <3>2
        <4> QED BY <1>2, <1>5, <4>1, Numbers
      <3> QED BY <3>1, <3>2
    <2>2. /\ t.q \in Seq(Blks) /\ Len(t.q) <= QCap /\ t.drops \in 0..MaxDrops
          /\ r.drops <= t.drops /\ Extended(sq[w], t.q, both)
          /\ (cl /\ t.drops = 0 => \E i \in 1..Len(t.q) : t.q[i] = close)
      <3>1. CASE cl
        <4>1. t \in Pushed(r.q, close, r.drops)
          BY <3>1
        <4>2. /\ Extended(r.q, t.q, {close})
              /\ (t.drops = 0 => \E i \in 1..Len(t.q) : t.q[i] = close)
          BY <1>4, <2>1, <4>1, PushedExtends
        <4>3. Extended(sq[w], t.q, both)
          BY <1>4, <2>1, <4>2, ExtendedTwice
        <4> QED BY <1>4, <2>1, <4>1, <4>2, <4>3, PushedFacts
      <3>2. CASE ~cl
        <4>1. t = r
          BY <3>2
        <4> QED BY <2>1, <3>2, <4>1, Numbers
      <3> QED BY <3>1, <3>2
    <2>3. Queue(sq')
      BY <1>2, <1>7, <2>2, QueuePut
    <2>4. sq'[w] = t.q /\ \A v \in Works \ {w} : sq'[v] = sq[v]
      BY <1>2, <1>7 DEF Queue
    <2>5. drops' \in 0..MaxDrops /\ drops <= drops'
      BY <1>2, <1>7, <2>1, <2>2, Numbers
    <2>6. \/ sess' = sess
          \/ cl /\ sess' = [sess EXCEPT ![w][fd] = NoConn]
      BY <1>7
    <2> QED BY <1>7, <2>2, <2>3, <2>4, <2>5, <2>6
  <1>8. CASE ~(s = NoConn /\ UNCHANGED <<sq, sess, drops, crossed>>)
    <2>1. PICK reply \in BOOLEAN, cl \in BOOLEAN :
           \E r \in IF reply THEN Pushed(sq[w], data, drops) ELSE {same} :
           \E t \in IF cl THEN Pushed(r.q, close, r.drops) ELSE {r} :
             /\ s # NoConn
             /\ sq' = [sq EXCEPT ![w] = t.q] /\ drops' = t.drops
             /\ sess' = IF cl THEN [sess EXCEPT ![w][fd] = NoConn] ELSE sess
             /\ crossed' = (crossed \/ s # rq[w][1].conn)
      BY <1>3, <1>8
    <2>2. PICK r \in IF reply THEN Pushed(sq[w], data, drops) ELSE {same} :
           \E t \in IF cl THEN Pushed(r.q, close, r.drops) ELSE {r} :
             /\ s # NoConn
             /\ sq' = [sq EXCEPT ![w] = t.q] /\ drops' = t.drops
             /\ sess' = IF cl THEN [sess EXCEPT ![w][fd] = NoConn] ELSE sess
             /\ crossed' = (crossed \/ s # rq[w][1].conn)
      BY <2>1
    <2>3. /\ s # NoConn /\ crossed' = (crossed \/ s # rq[w][1].conn)
          /\ Queue(sq') /\ drops' \in 0..MaxDrops /\ drops <= drops'
          /\ \A v \in Works \ {w} : sq'[v] = sq[v]
          /\ Extended(sq[w], sq'[w], both)
          /\ \/ sess' = sess
             \/ /\ sess' = [sess EXCEPT ![w][fd] = NoConn]
                /\ drops' = 0 => \E i \in 1..Len(sq'[w]) : sq'[w][i] = close
      BY <1>7, <2>2
    <2> QED BY <1>1, <2>3 DEF s, fd, both, close
  <1> QED BY <1>6, <1>8

LEMMA ProcessBase ==
  ASSUME Base, NEW w \in Works, Process(w)
  PROVE  Base'
  <1> DEFINE fd == rq[w][1].fd
  <1>1. /\ Taking(w, "DATA") /\ PopRq(w)
        /\ UNCHANGED <<loopVars, tableVars, clientVars>>
        /\ UNCHANGED <<torn, misclosed, misrouted>>
        /\ \/ UNCHANGED <<sq, sess, drops, crossed>>
           \/ /\ Queue(sq') /\ drops' \in 0..MaxDrops
              /\ sess' = sess \/ sess' = [sess EXCEPT ![w][fd] = NoConn]
              /\ crossed' = (crossed \/ sess[w][fd] # rq[w][1].conn)
    BY ProcessFacts
  <1>2. Rest /\ Queue(rq') /\ fd \in Fds
    BY <1>1, TakingFacts
  <1> HIDE DEF fd
  <1>3. [sess EXCEPT ![w][fd] = NoConn] \in [Works -> [Fds -> Conns \cup {NoConn}]]
    BY <1>2 DEF Rest
  <1>4. CASE UNCHANGED <<sq, sess, drops, crossed>>
    <2>1. Rest'
      BY <1>1, <1>2, <1>4 DEF Rest, Queue
    <2> QED BY <1>1, <2>1, WorkQuiet
  <1>5. CASE /\ Queue(sq') /\ drops' \in 0..MaxDrops
             /\ sess' = sess \/ sess' = [sess EXCEPT ![w][fd] = NoConn]
             /\ crossed' = (crossed \/ sess[w][fd] # rq[w][1].conn)
    <2>1. sess' \in [Works -> [Fds -> Conns \cup {NoConn}]]
      BY <1>2, <1>3, <1>5 DEF Rest
    <2>2. crossed' \in BOOLEAN
      BY <1>5
    <2>3. Rest'
      BY <1>1, <1>2, <1>5, <2>1, <2>2 DEF Rest, Queue
    <2> QED BY <1>1, <2>3, WorkQuiet
  <1> QED BY <1>1, <1>4, <1>5

-----------------------------------------------------------------------------
\* Base is an invariant.

LEMMA InitBase ==
  ASSUME Init
  PROVE  Base
  <1>1. /\ fdt = [fd \in Fds |-> Entry("listen", IF fd \in Works THEN fd ELSE 1, NoConn)]
        /\ open = Works /\ maxfd = NWork
        /\ at = "send" /\ on = 1 /\ ready = {} /\ left = 0
        /\ backlog = [w \in Works |-> <<>>]
        /\ cli = [c \in Conns |-> "new"]
        /\ unread = [c \in Conns |-> 0] /\ sent = [c \in Conns |-> 0]
        /\ rq = [w \in Works |-> <<>>] /\ sq = [w \in Works |-> <<>>]
        /\ sess = [w \in Works |-> [fd \in Fds |-> NoConn]]
        /\ torn = [w \in Works |-> FALSE]
        /\ drops = 0
        /\ misclosed = FALSE /\ misrouted = FALSE /\ crossed = FALSE
    BY DEF Init
  <1>2. NWork \in Fds /\ QCap \in Nat /\ <<>> \in Seq(Conns) /\ <<>> \in Seq(Blks)
        /\ Len(<<>>) = 0
    BY SessionAssumption, EmptySeq DEF Fds
  <1>3. fdt \in [Fds -> Entries] /\ \A fd \in Fds : fdt[fd].type = "listen"
    BY <1>1, Numbers DEF Entry, Entries
  <1>4. \A fd \in Fds : ~IsCli(fd)
    BY <1>3 DEF IsCli
  <1>5. \A c : ~Waits(c)
    BY <1>1, <1>2 DEF Waits
  <1>6. TableMatchesKernel
    <2>1. open = {fd \in Fds : IsCli(fd) \/ (fd \in Works /\ fdt[fd].type = "listen")}
      BY <1>1, <1>3, <1>4, Numbers
    <2>2. \A c \in Conns : cli[c] \notin {"up", "shut"}
      BY <1>1
    <2> QED BY <1>4, <1>5, <2>1, <2>2 DEF TableMatchesKernel, Holds
  <1>7. WaitsOnce
    BY <1>1, <1>2 DEF WaitsOnce
  <1>8. ArrivedWasSent
    BY <1>1 DEF ArrivedWasSent
  <1>9. Tables
    BY <1>1, <1>2, <1>3, <1>4, <1>6, <1>7, <1>8, Numbers DEF Tables
  <1>10. Loop
    BY <1>1, <1>4, Numbers DEF Loop
  <1>11. Queue(rq) /\ Queue(sq)
    BY <1>1, <1>2 DEF Queue
  <1>12. Rest
    BY <1>1, <1>11, Numbers DEF Rest
  <1> QED BY <1>9, <1>10, <1>12, BaseParts

LEMMA StutterBase ==
  ASSUME Base, UNCHANGED vars
  PROVE  Base'
  <1>1. UNCHANGED <<loopVars, tableVars, clientVars, rq, sq, workVars, drops, flags>>
    BY DEF vars
  <1>2. Rest
    BY BaseParts
  <1>3. Rest'
    BY <1>1, <1>2, RestStays
  <1> QED BY <1>1, <1>3, WorkQuiet

LEMMA StepBase ==
  ASSUME Base, [Next]_vars
  PROVE  Base'
  <1>1. ASSUME NEW c \in Conns, ClientStep(c) PROVE Base'
    BY <1>1, ConnectBase, SendMsgBase, HangUpBase DEF ClientStep
  <1>2. CASE MasterStep
    BY <1>2, NextQueueBase, ReplyBase, CloseAskedBase, EpollWaitBase, LoopTopBase,
       StartAcceptBase, ReadHangupBase, ReadMsgsBase, AcceptBase, AcceptNoneBase, PushMsgBase
       DEF MasterStep
  <1>3. ASSUME NEW w \in Works, WorkStep(w) PROVE Base'
    BY <1>3, OpenSessionBase, RefuseOpenBase, ProcessBase, CloseSessionBase DEF WorkStep
  <1>4. CASE UNCHANGED vars
    BY <1>4, StutterBase
  <1> QED BY <1>1, <1>2, <1>3, <1>4 DEF Next

\* Every variable keeps a value of its kind: the master's table, the queues and
\* the sessions hold what the code puts there (net_util.h, mem_queue.h, fds.h),
\* and the largest descriptor is a descriptor or -1.
THEOREM TypeCorrect == Spec => []TypeOK
  <1>1. Init => Base
    BY InitBase
  <1>2. Base /\ [Next]_vars => Base'
    BY StepBase
  <1>3. Base => TypeOK
    BY DEF Base
  <1> QED BY <1>1, <1>2, <1>3, PTL DEF Spec

\* However many pushes go wrong, the table of the master and the kernel agree
\* on which descriptors are open, and a connection has one place (do_fd_open,
\* do_fd_close).
THEOREM TableTrue == Spec => []TableMatchesKernel
  <1>1. Init => Base
    BY InitBase
  <1>2. Base /\ [Next]_vars => Base'
    BY StepBase
  <1>3. Base => TableMatchesKernel
    BY DEF Base
  <1> QED BY <1>1, <1>2, <1>3, PTL DEF Spec

-----------------------------------------------------------------------------
\* The kinds of steps, as far as the rest is concerned.

\* What is over stays over.
StayGone == \A c \in Conns : cli[c] = "gone" => cli'[c] = "gone"

\* sq loses at most its first block, and when that asks for a descriptor to be
\* closed no client has the descriptor afterwards.
Answered ==
  \/ sq' = sq
  \/ /\ on \in Works /\ sq[on] # <<>> /\ sq' = [sq EXCEPT ![on] = Tail(@)]
     /\ sq[on][1].type = "CLOSE" => fdt'[sq[on][1].fd].type # "cli"

Quiet ==
  /\ UNCHANGED <<fdt, open, rq, sess, torn, drops, crossed>>
  /\ StayGone /\ Answered

\* The master passes a request on, or loses it.
Passed(fd) ==
  /\ UNCHANGED <<fdt, open, cli, sq, sess, torn, crossed>>
  /\ IsCli(fd) /\ fdt[fd].idx \in Works /\ fdt[fd].conn \in Conns /\ drops <= drops'
  /\ \/ drops' = drops /\ rq' = [rq EXCEPT ![fdt[fd].idx]
                                   = Append(@, Blk("DATA", fd, fdt[fd].conn))]
     \/ rq' = rq /\ drops' > 0

\* The master closes a client, and tells the work process or not.
Closed(fd) ==
  /\ IsCli(fd) /\ Dropped(fd) /\ fdt[fd].idx \in Works /\ fdt[fd].conn \in Conns
  /\ UNCHANGED <<sess, torn, crossed>> /\ Answered /\ drops <= drops'
  /\ \/ rq' = [rq EXCEPT ![fdt[fd].idx] = Append(@, Blk("CLOSE", fd, fdt[fd].conn))]
     \/ rq' = rq /\ drops' > 0

\* The master accepts a connection.
Taken(c, new, w) ==
  /\ on \in Works /\ fdt[on].type = "listen" /\ UNCHANGED <<sq, sess, torn, crossed>>
  /\ Accepted(c, new, w) \/ Lost(c, new, w)

LEMMA QuietKind ==
  ASSUME Base, UNCHANGED <<tableVars, rq, sq, workVars, drops, flags>>, StayGone
  PROVE  Quiet
  BY DEF Quiet, Answered, tableVars, workVars, flags

LEMMA ClientKind ==
  ASSUME Base, NEW c \in Conns, ClientStep(c)
  PROVE  Quiet
  <1>1. cli \in [Conns -> {"new", "up", "shut", "gone"}]
    BY BaseParts DEF Tables
  <1>2. ASSUME NEW w \in Works, Connect(c, w) PROVE Quiet
    <2>1. StayGone
      BY <1>1, <1>2 DEF Connect, StayGone
    <2> QED BY <1>2, <2>1 DEF Connect, Quiet, Answered, workVars, flags
  <1>3. CASE SendMsg(c)
    <2>1. StayGone
      BY <1>3 DEF SendMsg, StayGone
    <2> QED BY <1>3, <2>1, QuietKind DEF SendMsg
  <1>4. CASE HangUp(c)
    <2>1. StayGone
      BY <1>1, <1>4 DEF HangUp, StayGone
    <2> QED BY <1>4, <2>1, QuietKind DEF HangUp
  <1> QED BY <1>2, <1>3, <1>4 DEF ClientStep

LEMMA DroppedGone ==
  ASSUME Base, NEW fd \in Fds, IsCli(fd), Dropped(fd)
  PROVE  StayGone /\ ~IsCli(fd)' /\ cli'[fdt[fd].conn] = "gone"
  <1>1. /\ fdt \in [Fds -> Entries] /\ fdt[fd].conn \in Conns
        /\ cli \in [Conns -> {"new", "up", "shut", "gone"}]
    BY BaseParts DEF Tables
  <1>2. /\ fdt' = [fdt EXCEPT ![fd].type = "null"]
        /\ cli' = [cli EXCEPT ![fdt[fd].conn] = "gone"]
    BY DEF Dropped
  <1>3. fdt'[fd].type = "null"
    BY <1>1, <1>2 DEF Entries
  <1> QED BY <1>1, <1>2, <1>3 DEF StayGone, IsCli

LEMMA ClosedKind ==
  ASSUME Base, NEW fd \in Fds, IsCli(fd), NEW d \in 0..MaxDrops, CloseAndTell(fd, d),
         drops <= d, d = drops \/ d > 0,
         UNCHANGED <<sess, torn, crossed>>, Answered
  PROVE  Closed(fd)
  <1>1. Tables /\ Queue(rq) /\ drops \in 0..MaxDrops
    BY BaseParts DEF Rest
  <1>2. /\ Dropped(fd) /\ drops' \in 0..MaxDrops /\ d <= drops'
        /\ fdt[fd].idx \in Works /\ fdt[fd].conn \in Conns
        /\ \/ rq' = [rq EXCEPT ![fdt[fd].idx]
                       = Append(rq[fdt[fd].idx], Blk("CLOSE", fd, fdt[fd].conn))]
           \/ rq' = rq /\ drops' > 0
    BY <1>1, TellFacts
  <1>3. drops <= drops'
    BY <1>1, <1>2, Numbers
  <1> QED BY <1>2, <1>3 DEF Closed

LEMMA ReplyKind ==
  ASSUME Base, Reply
  PROVE  Quiet \/ \E fd \in Fds : Closed(fd)
  <1> DEFINE b == sq[on][1]
  <1>1. /\ Loop /\ Rest /\ on \in Works /\ sq[on] # <<>> /\ Head(sq[on]).type = "DATA"
        /\ sq' = [sq EXCEPT ![on] = Tail(@)]
        /\ UNCHANGED <<sess, torn, crossed>>
    BY BaseParts DEF Reply, Handling, PopSq, Loop, workVars
  <1>2. /\ Head(sq[on]) = b /\ b \in Blks /\ b.fd \in Fds /\ drops \in 0..MaxDrops
    BY <1>1, QueueTail DEF Rest, Blks
  <1>3. Answered
    BY <1>1, <1>2 DEF Answered
  <1>4. \/ UNCHANGED <<tableVars, clientVars, rq, drops>>
        \/ IsCli(b.fd) /\ CloseAndTell(b.fd, drops)
    BY <1>2 DEF Reply
  <1> HIDE DEF b
  <1>5. CASE UNCHANGED <<tableVars, clientVars, rq, drops>>
    BY <1>1, <1>3, <1>5 DEF Quiet, StayGone, tableVars, clientVars
  <1>6. CASE IsCli(b.fd) /\ CloseAndTell(b.fd, drops)
    <2>1. drops <= drops
      BY <1>2, Numbers
    <2>2. Closed(b.fd)
      BY <1>1, <1>2, <1>3, <1>6, <2>1, ClosedKind
    <2> QED BY <1>2, <2>2
  <1> QED BY <1>4, <1>5, <1>6

LEMMA CloseAskedKind ==
  ASSUME Base, CloseAsked
  PROVE  Quiet \/ \E fd \in Fds : Closed(fd)
  <1> DEFINE b == sq[on][1]
  <1>1. /\ Loop /\ Rest /\ on \in Works /\ sq[on] # <<>>
        /\ sq' = [sq EXCEPT ![on] = Tail(@)]
        /\ UNCHANGED <<sess, torn, crossed>>
    BY BaseParts DEF CloseAsked, Handling, PopSq, Loop, workVars
  <1>2. /\ Head(sq[on]) = b /\ b \in Blks /\ b.fd \in Fds /\ drops \in 0..MaxDrops
    BY <1>1, QueueTail DEF Rest, Blks
  <1>3. \/ ~IsCli(b.fd) /\ UNCHANGED <<tableVars, clientVars, rq, drops>>
        \/ IsCli(b.fd) /\ CloseAndTell(b.fd, drops)
    BY <1>2 DEF CloseAsked
  <1>4. CASE ~IsCli(b.fd) /\ UNCHANGED <<tableVars, clientVars, rq, drops>>
    <2>1. fdt'[b.fd].type # "cli"
      BY <1>1, <1>4 DEF IsCli, tableVars
    <2>2. Answered
      BY <1>1, <2>1 DEF Answered
    <2> HIDE DEF b
    <2> QED BY <1>1, <1>4, <2>2 DEF Quiet, StayGone, tableVars, clientVars
  <1>5. CASE IsCli(b.fd) /\ CloseAndTell(b.fd, drops)
    <2>1. drops <= drops
      BY <1>2, Numbers
    <2>2. Dropped(b.fd)
      BY <1>5 DEF CloseAndTell
    <2>3. fdt'[b.fd].type # "cli"
      <3> HIDE DEF b
      <3>1. fdt \in [Fds -> Entries] /\ fdt' = [fdt EXCEPT ![b.fd].type = "null"]
        BY <2>2, BaseParts DEF Tables, Dropped
      <3>2. fdt'[b.fd].type = "null"
        BY <1>2, <3>1 DEF Entries
      <3> QED BY <3>2
    <2>4. Answered
      BY <1>1, <2>3 DEF Answered
    <2> HIDE DEF b
    <2>5. Closed(b.fd)
      BY <1>1, <1>2, <1>5, <2>1, <2>4, ClosedKind
    <2> QED BY <1>2, <2>5
  <1> QED BY <1>3, <1>4, <1>5

LEMMA PushMsgKind ==
  ASSUME Base, PushMsg
  PROVE  \E fd \in Fds : Passed(fd) \/ Closed(fd)
  <1> DEFINE w == fdt[on].idx
             b == Blk("DATA", on, fdt[on].conn)
  <1>1. /\ on \in Fds /\ IsCli(on) /\ w \in Works /\ fdt[on].conn \in Conns
        /\ drops \in 0..MaxDrops /\ Queue(rq)
        /\ UNCHANGED <<sq, sess, torn, crossed>>
    BY PushMsgFacts
  <1>2. PICK r \in Pushed(rq[w], b, drops) :
              /\ r.q \in Seq(Blks) /\ Len(r.q) <= QCap /\ r.drops \in 0..MaxDrops
              /\ drops <= r.drops
              /\ \/ /\ rq' = [rq EXCEPT ![w] = r.q] /\ drops' = r.drops
                    /\ UNCHANGED <<tableVars, clientVars>>
                 \/ CloseAndTell(on, r.drops) /\ r.drops > 0
    BY PushMsgFacts
  <1>3. b \in Blks
    BY <1>1, BlkFacts
  <1>4. rq[w] \in Seq(Blks) /\ Len(rq[w]) <= QCap
    BY <1>1 DEF Queue
  <1> HIDE DEF w, b
  <1>5. \/ r.q = Append(rq[w], b) /\ r.drops = drops
        \/ r.q = rq[w] /\ r.drops > 0
    BY <1>1, <1>2, <1>3, <1>4, PushedFacts
  <1>6. CASE /\ rq' = [rq EXCEPT ![w] = r.q] /\ drops' = r.drops
             /\ UNCHANGED <<tableVars, clientVars>>
    <2>1. r.q = rq[w] => rq' = rq
      BY <1>1, <1>6 DEF Queue
    <2>2. \/ drops' = drops /\ rq' = [rq EXCEPT ![w] = Append(rq[w], b)]
          \/ rq' = rq /\ drops' > 0
      BY <1>5, <1>6, <2>1
    <2>3. UNCHANGED <<fdt, open, cli, sq, sess, torn, crossed>> /\ drops <= drops'
      BY <1>1, <1>2, <1>6 DEF tableVars, clientVars
    <2>4. Passed(on)
      BY <1>1, <2>2, <2>3 DEF Passed, w, b
    <2> QED BY <1>1, <2>4
  <1>7. CASE CloseAndTell(on, r.drops) /\ r.drops > 0
    <2>1. Answered
      BY <1>1 DEF Answered
    <2>2. Closed(on)
      BY <1>1, <1>2, <1>7, <2>1, ClosedKind
    <2> QED BY <1>1, <2>2
  <1> QED BY <1>2, <1>6, <1>7

LEMMA MasterKind ==
  ASSUME Base, MasterStep
  PROVE  \/ Quiet
         \/ \E fd \in Fds : Passed(fd) \/ Closed(fd)
         \/ \E c \in Conns, new \in Fds \ open, w \in Works : Taken(c, new, w)
  <1>1. CASE NextQueue \/ EpollWait \/ LoopTop \/ AcceptNone
    <2>1. UNCHANGED <<tableVars, clientVars, rq, sq, workVars, drops, flags>>
      BY <1>1 DEF NextQueue, EpollWait, LoopTop, AcceptNone
    <2>2. StayGone
      BY <2>1 DEF StayGone, clientVars
    <2> QED BY <2>1, <2>2, QuietKind
  <1>2. ASSUME NEW fd \in Fds, StartAccept(fd) \/ ReadMsgs(fd) PROVE Quiet
    <2>1. UNCHANGED <<tableVars, cli, rq, sq, workVars, drops, flags>>
      BY <1>2 DEF StartAccept, ReadMsgs, clientVars
    <2>2. StayGone
      BY <2>1 DEF StayGone
    <2> QED BY <2>1, <2>2, QuietKind
  <1>3. ASSUME NEW fd \in Fds, ReadHangup(fd) PROVE Closed(fd)
    <2>1. /\ IsCli(fd) /\ CloseAndTell(fd, drops)
          /\ UNCHANGED <<sq, sess, torn, crossed>>
      BY <1>3 DEF ReadHangup, workVars, flags
    <2>2. drops \in 0..MaxDrops
      BY BaseParts DEF Rest
    <2>3. Answered /\ drops <= drops
      BY <2>1, <2>2, Numbers DEF Answered
    <2> QED BY <2>1, <2>2, <2>3, ClosedKind
  <1>4. CASE Accept
    <2>1. /\ on \in Works /\ fdt[on].type = "listen" /\ UNCHANGED <<sq, sess, torn, crossed>>
          /\ \E c \in Conns, new \in Fds \ open, w \in Works :
               Accepted(c, new, w) \/ Lost(c, new, w)
      BY <1>4, AcceptFacts
    <2> QED BY <2>1 DEF Taken
  <1> QED BY <1>1, <1>2, <1>3, <1>4, ReplyKind, CloseAskedKind, PushMsgKind DEF MasterStep

LEMMA StutterKind ==
  ASSUME Base, UNCHANGED vars
  PROVE  Quiet
  <1>1. UNCHANGED <<tableVars, clientVars, rq, sq, workVars, drops, flags>>
    BY DEF vars
  <1>2. StayGone
    BY <1>1 DEF StayGone, clientVars
  <1> QED BY <1>1, <1>2, QuietKind

LEMMA StepKinds ==
  ASSUME Base, [Next]_vars
  PROVE  \/ Quiet
         \/ \E fd \in Fds : Passed(fd) \/ Closed(fd)
         \/ \E c \in Conns, new \in Fds \ open, w \in Works : Taken(c, new, w)
         \/ \E w \in Works : WorkStep(w)
  BY ClientKind, MasterKind, StutterKind DEF Next

\* The table after each kind of step that changes it.
LEMMA ClosedTable ==
  ASSUME Base, NEW fd \in Fds, Closed(fd)
  PROVE  /\ StayGone /\ ~IsCli(fd)' /\ cli'[fdt[fd].conn] = "gone" /\ open' = open \ {fd}
         /\ \A f \in Fds \ {fd} : fdt'[f] = fdt[f]
  <1>1. Tables /\ IsCli(fd) /\ Dropped(fd)
    BY BaseParts DEF Closed
  <1> QED BY <1>1, DroppedKeeps, DroppedGone

LEMMA TakenTable ==
  ASSUME Base, NEW c \in Conns, NEW new \in Fds \ open, NEW w \in Works, Taken(c, new, w)
  PROVE  /\ StayGone /\ new # on /\ ~IsCli(new) /\ ~IsCli(on)
         /\ fdt'[new] = Entry("cli", w, c) /\ fdt'[on].type # "cli"
         /\ \A f \in Fds \ {new, on} : fdt'[f] = fdt[f]
         /\ \/ fdt'[on] = fdt[on] /\ open' = open \cup {new}
            \/ fdt'[on].type = "null" /\ drops' > 0
         /\ drops \in 0..MaxDrops /\ drops' \in 0..MaxDrops /\ drops <= drops'
         /\ Queue(rq)
         /\ \/ drops' = drops /\ rq' = [rq EXCEPT ![w] = Append(@, Blk("OPEN", new, c))]
            \/ /\ \/ rq' = rq
                  \/ rq' = [rq EXCEPT ![w] = Append(@, Blk("CLOSE", on, NoConn))]
                     /\ fdt'[on].type = "null"
               /\ drops' > 0 /\ (drops > 0 /\ MaxDrops > 1 => drops' > 1)
  <1>1. /\ Tables /\ Rest /\ on \in Works /\ on \in Fds /\ fdt[on].type = "listen"
        /\ Accepted(c, new, w) \/ Lost(c, new, w)
    BY BaseParts, Numbers DEF Taken
  <1>2. /\ fdt \in [Fds -> Entries] /\ Entry("cli", w, c) \in Entries
        /\ Entry("cli", w, c).type = "cli"
        /\ cli \in [Conns -> {"new", "up", "shut", "gone"}]
        /\ drops \in 0..MaxDrops /\ Queue(rq)
    BY <1>1 DEF Tables, Entry, Entries, Rest
  <1>3. ~IsCli(on) /\ on \in open /\ new # on /\ ~IsCli(new)
    BY <1>1, OpenFacts DEF IsCli
  <1>4. CASE Accepted(c, new, w)
    <2>1. /\ fdt' = [fdt EXCEPT ![new] = Entry("cli", w, c)] /\ open' = open \cup {new}
          /\ UNCHANGED cli
          /\ \E r \in Pushed(rq[w], Blk("OPEN", new, c), drops) :
               /\ r.drops \in 0..MaxDrops
               /\ rq' = [rq EXCEPT ![w] = r.q] /\ drops' = r.drops
      BY <1>4 DEF Accepted
    <2>2. /\ fdt'[new] = Entry("cli", w, c) /\ \A f \in Fds \ {new} : fdt'[f] = fdt[f]
      BY <1>2, <2>1
    <2>3. fdt'[on] = fdt[on] /\ \A f \in Fds \ {new, on} : fdt'[f] = fdt[f]
      BY <1>1, <1>3, <2>2
    <2>4. fdt'[on].type # "cli"
      BY <1>1, <2>3 DEF IsCli
    <2>5. PICK r \in Pushed(rq[w], Blk("OPEN", new, c), drops) :
               /\ r.drops \in 0..MaxDrops
               /\ rq' = [rq EXCEPT ![w] = r.q] /\ drops' = r.drops
      BY <2>1
    <2>6. Blk("OPEN", new, c) \in Blks /\ rq[w] \in Seq(Blks) /\ Len(rq[w]) <= QCap
      BY <1>2, BlkFacts DEF Queue
    <2>7. /\ drops <= r.drops
          /\ \/ r.q = Append(rq[w], Blk("OPEN", new, c)) /\ r.drops = drops
             \/ r.q = rq[w] /\ r.drops > 0 /\ (drops > 0 /\ MaxDrops > 1 => r.drops > 1)
      BY <1>2, <2>5, <2>6, PushedFacts
    <2>8. r.q = rq[w] => rq' = rq
      BY <1>2, <2>5 DEF Queue
    <2>9. StayGone
      BY <2>1 DEF StayGone
    <2> QED BY <1>2, <1>3, <2>1, <2>2, <2>3, <2>4, <2>5, <2>7, <2>8, <2>9
  <1>5. CASE Lost(c, new, w)
    <2>1. /\ fdt' = [[fdt EXCEPT ![new] = Entry("cli", w, c)] EXCEPT ![on].type = "null"]
          /\ cli' = [x \in Conns |-> IF x \in Reset THEN "gone" ELSE cli[x]]
          /\ drops' \in 0..MaxDrops /\ drops' > 0 /\ (drops > 0 /\ MaxDrops > 1 => drops' > 1)
          /\ drops <= drops'
          /\ \E q \in {rq[w], Append(rq[w], Blk("CLOSE", on, NoConn))} :
               rq' = [rq EXCEPT ![w] = q]
      BY <1>5 DEF Lost
    <2>2. [fdt EXCEPT ![new] = Entry("cli", w, c)] \in [Fds -> Entries]
      BY <1>2
    <2>3. \A t \in [Fds -> Entries] :
              /\ [t EXCEPT ![on].type = "null"][on].type = "null"
              /\ \A f \in Fds \ {on} : [t EXCEPT ![on].type = "null"][f] = t[f]
      BY <1>1 DEF Entries
    <2>4. /\ fdt'[on].type = "null"
          /\ \A f \in Fds \ {on} : fdt'[f] = [fdt EXCEPT ![new] = Entry("cli", w, c)][f]
      BY <2>1, <2>2, <2>3
    <2>5. fdt'[new] = Entry("cli", w, c) /\ \A f \in Fds \ {new, on} : fdt'[f] = fdt[f]
      BY <1>2, <1>3, <2>4
    <2>6. fdt'[on].type # "cli"
      BY <2>4 DEF IsCli
    <2>7. StayGone
      BY <1>2, <2>1 DEF StayGone
    <2>8. \/ rq' = rq
          \/ rq' = [rq EXCEPT ![w] = Append(rq[w], Blk("CLOSE", on, NoConn))]
      <3>1. [rq EXCEPT ![w] = rq[w]] = rq
        BY <1>2 DEF Queue
      <3> QED BY <2>1, <3>1
    <2> QED BY <1>2, <1>3, <2>1, <2>4, <2>5, <2>6, <2>7, <2>8
  <1> QED BY <1>1, <1>4, <1>5

\* Pushes that went wrong are never forgotten.
LEMMA WorkDrops ==
  ASSUME Base, NEW w \in Works, WorkStep(w)
  PROVE  /\ UNCHANGED <<fdt, open, cli>> /\ drops \in 0..MaxDrops /\ drops' \in 0..MaxDrops
         /\ drops <= drops'
  <1>1. drops \in 0..MaxDrops /\ drops <= drops
    BY BaseParts, Numbers DEF Rest
  <1>2. UNCHANGED <<fdt, open, cli>>
    BY DEF WorkStep, OpenSession, RefuseOpen, Process, CloseSession, tableVars, clientVars
  <1>3. CASE OpenSession(w) \/ CloseSession(w)
    BY <1>1, <1>2, <1>3 DEF OpenSession, CloseSession
  <1>4. CASE RefuseOpen(w)
    BY <1>1, <1>2, <1>4, RefuseFacts
  <1>5. CASE Process(w)
    BY <1>1, <1>2, <1>5, ProcessFacts
  <1> QED BY <1>3, <1>4, <1>5 DEF WorkStep

-----------------------------------------------------------------------------
\* The listeners.

LEMMA StepListeners ==
  ASSUME Base, ListenersStayUntilFailure, [Next]_vars
  PROVE  ListenersStayUntilFailure'
  <1> SUFFICES ASSUME drops' = 0, NEW v \in Works
               PROVE  v \in open' /\ fdt'[v].type = "listen"
    BY DEF ListenersStayUntilFailure
  <1>1. v \in Fds /\ drops \in 0..MaxDrops
    BY BaseParts, Numbers DEF Rest
  <1>2. ASSUME drops = 0 PROVE v \in open /\ fdt[v].type = "listen" /\ ~IsCli(v)
    BY <1>2 DEF ListenersStayUntilFailure, IsCli
  <1>3. CASE Quiet
    BY <1>2, <1>3 DEF Quiet
  <1>4. ASSUME NEW fd \in Fds, Passed(fd) PROVE v \in open' /\ fdt'[v].type = "listen"
    <2>1. drops = 0
      BY <1>1, <1>4, Numbers DEF Passed
    <2> QED BY <1>2, <1>4, <2>1 DEF Passed
  <1>5. ASSUME NEW fd \in Fds, Closed(fd) PROVE v \in open' /\ fdt'[v].type = "listen"
    <2>1. drops = 0
      BY <1>1, <1>5, Numbers DEF Closed
    <2>2. v # fd
      BY <1>2, <1>5, <2>1 DEF Closed
    <2>3. open' = open \ {fd} /\ fdt'[v] = fdt[v]
      BY <1>1, <1>5, <2>2, ClosedTable
    <2> QED BY <1>2, <2>1, <2>2, <2>3
  <1>6. ASSUME NEW c \in Conns, NEW new \in Fds \ open, NEW w \in Works, Taken(c, new, w)
        PROVE  v \in open' /\ fdt'[v].type = "listen"
    <2>1. /\ fdt'[on] = fdt[on] /\ open' = open \cup {new} /\ drops <= drops'
          /\ \A f \in Fds \ {new, on} : fdt'[f] = fdt[f]
      BY <1>6, TakenTable, Numbers
    <2>2. drops = 0
      BY <1>1, <2>1, Numbers
    <2>3. v # new
      BY <1>2, <1>6, <2>2
    <2>4. fdt'[v] = fdt[v]
      BY <1>1, <2>1, <2>3
    <2> QED BY <1>2, <2>1, <2>2, <2>4
  <1>7. ASSUME NEW w \in Works, WorkStep(w) PROVE v \in open' /\ fdt'[v].type = "listen"
    <2>1. UNCHANGED <<fdt, open>> /\ drops <= drops'
      BY <1>7, WorkDrops
    <2>2. drops = 0
      BY <1>1, <2>1, Numbers
    <2> QED BY <1>2, <2>1, <2>2
  <1> QED BY <1>3, <1>4, <1>5, <1>6, <1>7, StepKinds

\* As long as no push goes wrong every listening descriptor stays open: only the
\* failure branch of do_fd_open closes one (master.c:333).
THEOREM ListenersStay == Spec => []ListenersStayUntilFailure
  <1>1. Init => Base /\ ListenersStayUntilFailure
    <2>1. Init => \A w \in Works : w \in open /\ fdt[w].type = "listen"
      BY Numbers DEF Init, Entry
    <2> QED BY <2>1, InitBase DEF ListenersStayUntilFailure
  <1>2. Base /\ ListenersStayUntilFailure /\ [Next]_vars
          => Base' /\ ListenersStayUntilFailure'
    BY StepBase, StepListeners
  <1> QED BY <1>1, <1>2, PTL DEF Spec

-----------------------------------------------------------------------------
\* What the blocks and the sessions mean.

MeantRq(b) == /\ b.type # "CLOSE" => b.conn # NoConn
              /\ b.conn # NoConn => Names(b.fd, b.conn)
MeantSq(b) == b.conn # NoConn /\ Names(b.fd, b.conn)
MeantSess(w) == \A fd \in Fds : sess[w][fd] # NoConn => Names(fd, sess[w][fd])

LEMMA MeantParts ==
  Meant <=> \A w \in Works : /\ MeantSess(w)
                             /\ \A i \in 1..Len(rq[w]) : MeantRq(rq[w][i])
                             /\ \A i \in 1..Len(sq[w]) : MeantSq(sq[w][i])
  BY DEF Meant, MeantRq, MeantSq, MeantSess

\* Names of the next state, of what is named now.
NamesThen(fd, c) == (fdt'[fd].type = "cli" /\ fdt'[fd].conn = c) \/ cli'[c] = "gone"

LEMMA MeantNext ==
  ASSUME \A w \in Works, fd \in Fds :
           sess'[w][fd] # NoConn => NamesThen(fd, sess'[w][fd]),
         \A w \in Works : \A i \in 1..Len(rq'[w]) :
           /\ rq'[w][i].type # "CLOSE" => rq'[w][i].conn # NoConn
           /\ rq'[w][i].conn # NoConn => NamesThen(rq'[w][i].fd, rq'[w][i].conn),
         \A w \in Works : \A i \in 1..Len(sq'[w]) :
           sq'[w][i].conn # NoConn /\ NamesThen(sq'[w][i].fd, sq'[w][i].conn)
  PROVE  Meant'
  BY DEF Meant, Names, Holds, IsCli, NamesThen

\* The names that hold go on holding.
NamesStay == \A fd \in Fds, c \in Conns : Names(fd, c) => NamesThen(fd, c)

LEMMA MeantKept ==
  ASSUME Base, Meant, NamesStay,
         \A w \in Works, fd \in Fds :
           \/ sess'[w][fd] \in {sess[w][fd], NoConn}
           \/ sess'[w][fd] \in Conns /\ Names(fd, sess'[w][fd]),
         \A w \in Works : \A i \in 1..Len(rq'[w]) :
           \/ \E j \in 1..Len(rq[w]) : rq'[w][i] = rq[w][j]
           \/ \E t \in {"OPEN", "DATA", "CLOSE"}, fd \in Fds, c \in Conns :
                rq'[w][i] = Blk(t, fd, c) /\ NamesThen(fd, c)
           \/ \E fd \in Fds : rq'[w][i] = Blk("CLOSE", fd, NoConn),
         \A w \in Works : \A i \in 1..Len(sq'[w]) :
           \/ \E j \in 1..Len(sq[w]) : sq'[w][i] = sq[w][j]
           \/ \E t \in {"OPEN", "DATA", "CLOSE"}, fd \in Fds, c \in Conns :
                sq'[w][i] = Blk(t, fd, c) /\ Names(fd, c)
  PROVE  Meant'
  <1>1. /\ Rest /\ NoConn \notin Conns
        /\ \A w \in Works, fd \in Fds : sess[w][fd] \in Conns \cup {NoConn}
        /\ \A w \in Works : rq[w] \in Seq(Blks) /\ sq[w] \in Seq(Blks)
    BY BaseParts, SessionAssumption DEF Rest, Queue
  <1>2. \A w \in Works : \A j \in 1..Len(rq[w]) : rq[w][j] \in Blks
    BY <1>1, ElementOfSeq
  <1>3. \A w \in Works : \A j \in 1..Len(sq[w]) : sq[w][j] \in Blks
    BY <1>1, ElementOfSeq
  <1>4. \A b \in Blks : b.fd \in Fds /\ (b.conn # NoConn => b.conn \in Conns)
    BY DEF Blks
  <1>5. \A fd \in Fds, c \in Conns : Names(fd, c) => NamesThen(fd, c)
    BY DEF NamesStay
  <1>6. \A t, fd, c : Blk(t, fd, c).type = t /\ Blk(t, fd, c).fd = fd /\ Blk(t, fd, c).conn = c
    BY DEF Blk
  <1>7. ASSUME NEW w \in Works, NEW fd \in Fds, sess'[w][fd] # NoConn
        PROVE  NamesThen(fd, sess'[w][fd])
    <2> DEFINE s == sess'[w][fd]
    <2>1. s \in Conns /\ Names(fd, s)
      <3>1. CASE s \in {sess[w][fd], NoConn}
        <4>1. s = sess[w][fd] /\ s # NoConn
          BY <1>7, <3>1
        <4> QED BY <1>1, <4>1, MeantParts DEF MeantSess
      <3>2. CASE s \in Conns /\ Names(fd, s)
        BY <3>2
      <3> QED BY <3>1, <3>2
    <2>2. ASSUME NEW x \in Conns, x = s, Names(fd, x) PROVE NamesThen(fd, sess'[w][fd])
      BY <1>5, <2>2
    <2> QED BY <2>1, <2>2
  <1>8. ASSUME NEW w \in Works, NEW i \in 1..Len(rq'[w])
        PROVE  /\ rq'[w][i].type # "CLOSE" => rq'[w][i].conn # NoConn
               /\ rq'[w][i].conn # NoConn => NamesThen(rq'[w][i].fd, rq'[w][i].conn)
    <2>1. CASE \E j \in 1..Len(rq[w]) : rq'[w][i] = rq[w][j]
      <3>1. PICK j \in 1..Len(rq[w]) : rq'[w][i] = rq[w][j]
        BY <2>1
      <3>2. MeantRq(rq[w][j]) /\ rq[w][j] \in Blks
        BY <1>2, MeantParts
      <3>3. rq[w][j].conn # NoConn => Names(rq[w][j].fd, rq[w][j].conn)
              /\ rq[w][j].fd \in Fds /\ rq[w][j].conn \in Conns
        BY <1>4, <3>2 DEF MeantRq
      <3>4. rq[w][j].type # "CLOSE" => rq[w][j].conn # NoConn
        BY <3>2 DEF MeantRq
      <3>5. ASSUME NEW x, NEW y, x = rq[w][j].fd, y = rq[w][j].conn, y # NoConn
            PROVE  NamesThen(x, y)
        BY <1>5, <3>3, <3>5
      <3> QED BY <3>1, <3>4, <3>5
    <2>2. CASE \E t \in {"OPEN", "DATA", "CLOSE"}, fd \in Fds, c \in Conns :
                 rq'[w][i] = Blk(t, fd, c) /\ NamesThen(fd, c)
      <3>1. PICK t \in {"OPEN", "DATA", "CLOSE"}, fd \in Fds, c \in Conns :
                 rq'[w][i] = Blk(t, fd, c) /\ NamesThen(fd, c)
        BY <2>2
      <3>2. rq'[w][i].fd = fd /\ rq'[w][i].conn = c /\ c # NoConn
        BY <1>1, <1>6, <3>1
      <3> QED BY <3>1, <3>2
    <2>3. CASE \E fd \in Fds : rq'[w][i] = Blk("CLOSE", fd, NoConn)
      BY <1>6, <2>3
    <2> QED BY <2>1, <2>2, <2>3
  <1>9. ASSUME NEW w \in Works, NEW i \in 1..Len(sq'[w])
        PROVE  sq'[w][i].conn # NoConn /\ NamesThen(sq'[w][i].fd, sq'[w][i].conn)
    <2>1. CASE \E j \in 1..Len(sq[w]) : sq'[w][i] = sq[w][j]
      <3>1. PICK j \in 1..Len(sq[w]) : sq'[w][i] = sq[w][j]
        BY <2>1
      <3>2. MeantSq(sq[w][j]) /\ sq[w][j] \in Blks
        BY <1>3, MeantParts
      <3>3. /\ sq[w][j].conn # NoConn /\ Names(sq[w][j].fd, sq[w][j].conn)
            /\ sq[w][j].fd \in Fds /\ sq[w][j].conn \in Conns
        BY <1>4, <3>2 DEF MeantSq
      <3>4. ASSUME NEW x, NEW y, x = sq[w][j].fd, y = sq[w][j].conn
            PROVE  NamesThen(x, y)
        BY <1>5, <3>3, <3>4
      <3> QED BY <3>1, <3>3, <3>4
    <2>2. CASE \E t \in {"OPEN", "DATA", "CLOSE"}, fd \in Fds, c \in Conns :
                 sq'[w][i] = Blk(t, fd, c) /\ Names(fd, c)
      <3>1. PICK t \in {"OPEN", "DATA", "CLOSE"}, fd \in Fds, c \in Conns :
                 sq'[w][i] = Blk(t, fd, c) /\ Names(fd, c)
        BY <2>2
      <3>2. sq'[w][i].fd = fd /\ sq'[w][i].conn = c /\ c # NoConn /\ NamesThen(fd, c)
        BY <1>1, <1>5, <1>6, <3>1
      <3> QED BY <3>2
    <2> QED BY <2>1, <2>2
  <1> QED BY <1>7, <1>8, <1>9, MeantNext

\* Where the blocks of a queue come from.
LEMMA PutFrom ==
  ASSUME NEW q, Queue(q), NEW w \in Works, NEW b \in Blks, NEW v \in Works,
         NEW i \in 1..Len([q EXCEPT ![w] = Append(@, b)][v])
  PROVE  \/ \E j \in 1..Len(q[v]) : [q EXCEPT ![w] = Append(@, b)][v][i] = q[v][j]
         \/ v = w /\ [q EXCEPT ![w] = Append(@, b)][v][i] = b
  <1>1. q \in [Works -> Seq(Blks)] /\ q[w] \in Seq(Blks)
    BY DEF Queue
  <1>2. CASE v # w
    <2>1. [q EXCEPT ![w] = Append(@, b)][v] = q[v]
      BY <1>1, <1>2
    <2> QED BY <2>1
  <1>3. CASE v = w
    <2>1. [q EXCEPT ![w] = Append(@, b)][v] = Append(q[w], b)
      BY <1>1, <1>3
    <2>2. Extended(q[w], Append(q[w], b), {b})
      BY <1>1, AppendExtends
    <2> QED BY <1>3, <2>1, <2>2 DEF Extended
  <1> QED BY <1>2, <1>3

LEMMA AnsweredFrom ==
  ASSUME Base, Answered
  PROVE  \A w \in Works : \A i \in 1..Len(sq'[w]) :
           \E j \in 1..Len(sq[w]) : sq'[w][i] = sq[w][j]
  <1>1. CASE sq' = sq
    BY <1>1
  <1>2. CASE on \in Works /\ sq[on] # <<>> /\ sq' = [sq EXCEPT ![on] = Tail(@)]
    <2>1. Queue(sq) /\ sq \in [Works -> Seq(Blks)]
      BY BaseParts DEF Rest, Queue
    <2>2. /\ Len(sq[on]) \in Nat \ {0} /\ Len(Tail(sq[on])) = Len(sq[on]) - 1
          /\ \A i \in 1..(Len(sq[on]) - 1) : Tail(sq[on])[i] = sq[on][i + 1]
      BY <1>2, <2>1, QueueTail
    <2>3. sq'[on] = Tail(sq[on]) /\ \A w \in Works \ {on} : sq'[w] = sq[w]
      BY <1>2, <2>1
    <2>4. \A i \in 1..Len(sq'[on]) : i + 1 \in 1..Len(sq[on]) /\ sq'[on][i] = sq[on][i + 1]
      BY <2>2, <2>3
    <2> QED BY <2>3, <2>4
  <1> QED BY <1>1, <1>2 DEF Answered

LEMMA QuietMeant ==
  ASSUME Base, Meant, Quiet
  PROVE  Meant'
  <1>1. UNCHANGED <<fdt, rq, sess>> /\ StayGone /\ Answered
    BY DEF Quiet
  <1>2. NamesStay
    BY <1>1 DEF NamesStay, NamesThen, Names, Holds, IsCli, StayGone
  <1>3. \A w \in Works, fd \in Fds : sess'[w][fd] \in {sess[w][fd], NoConn}
    BY <1>1
  <1>4. \A w \in Works : \A i \in 1..Len(rq'[w]) : \E j \in 1..Len(rq[w]) : rq'[w][i] = rq[w][j]
    BY <1>1
  <1> QED BY <1>1, <1>2, <1>3, <1>4, AnsweredFrom, MeantKept

LEMMA PassedMeant ==
  ASSUME Base, Meant, NEW fd \in Fds, Passed(fd)
  PROVE  Meant'
  <1> DEFINE w == fdt[fd].idx
             c == fdt[fd].conn
             b == Blk("DATA", fd, c)
  <1>1. /\ UNCHANGED <<fdt, cli, sq, sess>> /\ IsCli(fd) /\ w \in Works /\ c \in Conns
        /\ rq' = [rq EXCEPT ![w] = Append(@, b)] \/ rq' = rq
    BY DEF Passed
  <1>2. NamesStay
    BY <1>1 DEF NamesStay, NamesThen, Names, Holds, IsCli
  <1>3. Queue(rq) /\ b \in Blks
    BY <1>1, BaseParts, BlkFacts DEF Rest
  <1>4. Names(fd, c)
    BY <1>1 DEF Names, Holds
  <1> HIDE DEF w, c
  <1>5. NamesThen(fd, c)
    BY <1>1, <1>2, <1>4 DEF NamesStay
  <1>6. ASSUME NEW v \in Works, NEW i \in 1..Len(rq'[v])
        PROVE  \/ \E j \in 1..Len(rq[v]) : rq'[v][i] = rq[v][j]
               \/ \E t \in {"OPEN", "DATA", "CLOSE"}, f \in Fds, x \in Conns :
                    rq'[v][i] = Blk(t, f, x) /\ NamesThen(f, x)
    <2>1. CASE rq' = rq
      BY <2>1
    <2>2. CASE rq' = [rq EXCEPT ![w] = Append(@, b)]
      <3>1. \/ \E j \in 1..Len(rq[v]) : rq'[v][i] = rq[v][j]
            \/ rq'[v][i] = b
        <4> HIDE DEF b
        <4> QED BY <1>1, <1>3, <2>2, PutFrom
      <3> QED BY <1>1, <1>5, <3>1
    <2> QED BY <1>1, <2>1, <2>2
  <1>7. \A v \in Works, f \in Fds : sess'[v][f] \in {sess[v][f], NoConn}
    BY <1>1
  <1>8. \A v \in Works : \A i \in 1..Len(sq'[v]) : \E j \in 1..Len(sq[v]) : sq'[v][i] = sq[v][j]
    BY <1>1
  <1> QED BY <1>2, <1>6, <1>7, <1>8, MeantKept

LEMMA ClosedMeant ==
  ASSUME Base, Meant, NEW fd \in Fds, Closed(fd)
  PROVE  Meant'
  <1> DEFINE w == fdt[fd].idx
             c == fdt[fd].conn
             b == Blk("CLOSE", fd, c)
  <1>1. /\ UNCHANGED sess /\ w \in Works /\ c \in Conns /\ Answered
        /\ rq' = [rq EXCEPT ![w] = Append(@, b)] \/ rq' = rq
    BY DEF Closed
  <1>2. /\ StayGone /\ cli'[c] = "gone"
        /\ \A f \in Fds \ {fd} : fdt'[f] = fdt[f]
    BY ClosedTable
  <1>3. NamesStay
    <2> SUFFICES ASSUME NEW f \in Fds, NEW x \in Conns, Names(f, x) PROVE NamesThen(f, x)
      BY DEF NamesStay
    <2>1. CASE f = fd /\ x = c
      BY <1>2, <2>1 DEF NamesThen
    <2>2. CASE f = fd /\ x # c
      BY <1>2, <2>2 DEF NamesThen, Names, Holds, StayGone
    <2>3. CASE f # fd
      <3>1. fdt'[f] = fdt[f]
        BY <1>2, <2>3
      <3> QED BY <1>2, <3>1 DEF NamesThen, Names, Holds, IsCli, StayGone
    <2> QED BY <2>1, <2>2, <2>3
  <1>4. Queue(rq) /\ b \in Blks
    BY <1>1, BaseParts, BlkFacts DEF Rest
  <1> HIDE DEF w, c
  <1>5. NamesThen(fd, c)
    BY <1>1, <1>2 DEF NamesThen, c
  <1>6. ASSUME NEW v \in Works, NEW i \in 1..Len(rq'[v])
        PROVE  \/ \E j \in 1..Len(rq[v]) : rq'[v][i] = rq[v][j]
               \/ \E t \in {"OPEN", "DATA", "CLOSE"}, f \in Fds, x \in Conns :
                    rq'[v][i] = Blk(t, f, x) /\ NamesThen(f, x)
    <2>1. CASE rq' = rq
      BY <2>1
    <2>2. CASE rq' = [rq EXCEPT ![w] = Append(@, b)]
      <3>1. \/ \E j \in 1..Len(rq[v]) : rq'[v][i] = rq[v][j]
            \/ rq'[v][i] = b
        <4> HIDE DEF b
        <4> QED BY <1>1, <1>4, <2>2, PutFrom
      <3> QED BY <1>1, <1>5, <3>1
    <2> QED BY <1>1, <2>1, <2>2
  <1>7. \A v \in Works, f \in Fds : sess'[v][f] \in {sess[v][f], NoConn}
    BY <1>1
  <1> QED BY <1>1, <1>3, <1>6, <1>7, AnsweredFrom, MeantKept

LEMMA TakenMeant ==
  ASSUME Base, Meant, NEW c \in Conns, NEW new \in Fds \ open, NEW w \in Works,
         Taken(c, new, w)
  PROVE  Meant'
  <1>1. /\ StayGone /\ new # on /\ ~IsCli(new) /\ ~IsCli(on)
        /\ fdt'[new] = Entry("cli", w, c)
        /\ \A f \in Fds \ {new, on} : fdt'[f] = fdt[f]
        /\ Queue(rq)
        /\ \/ rq' = rq
           \/ rq' = [rq EXCEPT ![w] = Append(@, Blk("OPEN", new, c))]
           \/ rq' = [rq EXCEPT ![w] = Append(@, Blk("CLOSE", on, NoConn))]
    BY TakenTable
  <1>2. UNCHANGED <<sq, sess>> /\ on \in Fds
    BY Numbers DEF Taken
  <1>3. NamesStay
    <2> SUFFICES ASSUME NEW f \in Fds, NEW x \in Conns, Names(f, x) PROVE NamesThen(f, x)
      BY DEF NamesStay
    <2>1. CASE cli[x] = "gone"
      BY <1>1, <2>1 DEF NamesThen, Names, StayGone
    <2>2. CASE Holds(f, x)
      <3>1. f # new /\ f # on
        BY <1>1, <2>2 DEF Holds
      <3>2. fdt'[f] = fdt[f]
        BY <1>1, <3>1
      <3> QED BY <2>2, <3>2 DEF NamesThen, Names, Holds, IsCli
    <2> QED BY <2>1, <2>2 DEF Names
  <1>4. NamesThen(new, c)
    <2>1. fdt'[new].type = "cli" /\ fdt'[new].conn = c
      BY <1>1 DEF Entry
    <2> QED BY <2>1 DEF NamesThen, Names, Holds, IsCli
  <1>5. Blk("OPEN", new, c) \in Blks /\ Blk("CLOSE", on, NoConn) \in Blks
    BY <1>2, BlkFacts
  <1>6. ASSUME NEW v \in Works, NEW i \in 1..Len(rq'[v])
        PROVE  \/ \E j \in 1..Len(rq[v]) : rq'[v][i] = rq[v][j]
               \/ \E t \in {"OPEN", "DATA", "CLOSE"}, f \in Fds, x \in Conns :
                    rq'[v][i] = Blk(t, f, x) /\ NamesThen(f, x)
               \/ \E f \in Fds : rq'[v][i] = Blk("CLOSE", f, NoConn)
    <2>1. CASE rq' = rq
      BY <2>1
    <2>2. CASE rq' = [rq EXCEPT ![w] = Append(@, Blk("OPEN", new, c))]
      <3>1. \/ \E j \in 1..Len(rq[v]) : rq'[v][i] = rq[v][j]
            \/ rq'[v][i] = Blk("OPEN", new, c)
        BY <1>1, <1>5, <2>2, PutFrom
      <3> QED BY <1>4, <3>1
    <2>3. CASE rq' = [rq EXCEPT ![w] = Append(@, Blk("CLOSE", on, NoConn))]
      <3>1. \/ \E j \in 1..Len(rq[v]) : rq'[v][i] = rq[v][j]
            \/ rq'[v][i] = Blk("CLOSE", on, NoConn)
        BY <1>1, <1>5, <2>3, PutFrom
      <3> QED BY <1>2, <3>1
    <2> QED BY <1>1, <2>1, <2>2, <2>3
  <1>7. \A v \in Works, f \in Fds : sess'[v][f] \in {sess[v][f], NoConn}
    BY <1>2
  <1>8. \A v \in Works : \A i \in 1..Len(sq'[v]) : \E j \in 1..Len(sq[v]) : sq'[v][i] = sq[v][j]
    BY <1>2
  <1> QED BY <1>3, <1>6, <1>7, <1>8, MeantKept

\* What a work process finds in front of rq, and what it leaves there.
LEMMA TakingMeant ==
  ASSUME Base, Meant, NEW w \in Works, NEW type, Taking(w, type), PopRq(w),
         UNCHANGED <<tableVars, clientVars>>
  PROVE  /\ NamesStay
         /\ \A v \in Works : \A i \in 1..Len(rq'[v]) :
              \E j \in 1..Len(rq[v]) : rq'[v][i] = rq[v][j]
         /\ type # "CLOSE" => /\ rq[w][1].conn \in Conns
                              /\ Names(rq[w][1].fd, rq[w][1].conn)
  <1>1. UNCHANGED <<fdt, cli>>
    BY DEF tableVars, clientVars
  <1>2. NamesStay
    BY <1>1 DEF NamesStay, NamesThen, Names, Holds, IsCli
  <1>3. /\ rq[w][1].type = type /\ rq[w][1].conn \in Conns \cup {NoConn}
        /\ Len(rq[w]) \in Nat \ {0} /\ Len(rq'[w]) = Len(rq[w]) - 1
        /\ \A i \in 1..(Len(rq[w]) - 1) : rq'[w][i] = rq[w][i + 1]
        /\ \A v \in Works \ {w} : rq'[v] = rq[v]
    BY TakingFacts
  <1>4. ASSUME NEW v \in Works, NEW i \in 1..Len(rq'[v])
        PROVE  \E j \in 1..Len(rq[v]) : rq'[v][i] = rq[v][j]
    <2>1. CASE v # w
      <3>1. rq'[v] = rq[v]
        BY <1>3, <2>1
      <3> QED BY <3>1
    <2>2. CASE v = w
      <3>1. i + 1 \in 1..Len(rq[w]) /\ rq'[w][i] = rq[w][i + 1]
        BY <1>3, <2>2
      <3> QED BY <2>2, <3>1
    <2> QED BY <2>1, <2>2
  <1>5. MeantRq(rq[w][1])
    <2>1. 1 \in 1..Len(rq[w])
      BY <1>3
    <2> QED BY <2>1, MeantParts
  <1> QED BY <1>2, <1>3, <1>4, <1>5 DEF MeantRq

LEMMA WorkMeant ==
  ASSUME Base, Meant, NEW w \in Works, WorkStep(w)
  PROVE  Meant'
  <1> DEFINE fd == rq[w][1].fd
             s == sess[w][fd]
  <1>1. sess \in [Works -> [Fds -> Conns \cup {NoConn}]] /\ sq \in [Works -> Seq(Blks)]
    BY BaseParts DEF Rest, Queue
  <1>2. ASSUME NEW x \in [Works -> [Fds -> Conns \cup {NoConn}]], NEW y \in Fds, NEW z
        PROVE  \A v \in Works, f \in Fds :
                 [x EXCEPT ![w][y] = z][v][f] = IF v = w /\ f = y THEN z ELSE x[v][f]
    OBVIOUS
  <1>3. CASE OpenSession(w)
    <2>1. /\ Taking(w, "OPEN") /\ PopRq(w) /\ UNCHANGED <<tableVars, clientVars>>
          /\ UNCHANGED sq
          /\ sess' = [sess EXCEPT ![w][Head(rq[w]).fd] = Head(rq[w]).conn]
      BY <1>3 DEF OpenSession
    <2>2. Head(rq[w]) = rq[w][1] /\ fd \in Fds
      BY <2>1, TakingFacts
    <2>3. /\ NamesStay
          /\ \A v \in Works : \A i \in 1..Len(rq'[v]) :
               \E j \in 1..Len(rq[v]) : rq'[v][i] = rq[v][j]
          /\ rq[w][1].conn \in Conns /\ Names(fd, rq[w][1].conn)
      BY <2>1, TakingMeant
    <2>4. \A v \in Works, f \in Fds :
            sess'[v][f] = IF v = w /\ f = fd THEN rq[w][1].conn ELSE sess[v][f]
      BY <1>1, <1>2, <2>1, <2>2
    <2> HIDE DEF fd
    <2>5. \A v \in Works, f \in Fds :
            \/ sess'[v][f] \in {sess[v][f], NoConn}
            \/ sess'[v][f] \in Conns /\ Names(f, sess'[v][f])
      BY <2>3, <2>4
    <2>6. \A v \in Works : \A i \in 1..Len(sq'[v]) : \E j \in 1..Len(sq[v]) : sq'[v][i] = sq[v][j]
      BY <2>1
    <2> QED BY <2>3, <2>5, <2>6, MeantKept
  <1>4. CASE CloseSession(w)
    <2>1. /\ Taking(w, "CLOSE") /\ PopRq(w) /\ UNCHANGED <<tableVars, clientVars>>
          /\ UNCHANGED sq
          /\ sess' = [sess EXCEPT ![w][Head(rq[w]).fd] = NoConn]
      BY <1>4 DEF CloseSession
    <2>2. Head(rq[w]) = rq[w][1] /\ fd \in Fds
      BY <2>1, TakingFacts
    <2>3. /\ NamesStay
          /\ \A v \in Works : \A i \in 1..Len(rq'[v]) :
               \E j \in 1..Len(rq[v]) : rq'[v][i] = rq[v][j]
      BY <2>1, TakingMeant
    <2>4. \A v \in Works, f \in Fds :
            sess'[v][f] = IF v = w /\ f = fd THEN NoConn ELSE sess[v][f]
      BY <1>1, <1>2, <2>1, <2>2
    <2>5. \A v \in Works, f \in Fds : sess'[v][f] \in {sess[v][f], NoConn}
      BY <2>4
    <2>6. \A v \in Works : \A i \in 1..Len(sq'[v]) : \E j \in 1..Len(sq[v]) : sq'[v][i] = sq[v][j]
      BY <2>1
    <2> QED BY <2>3, <2>5, <2>6, MeantKept
  <1>5. CASE RefuseOpen(w)
    <2> DEFINE b == Blk("CLOSE", fd, rq[w][1].conn)
    <2>1. /\ Taking(w, "OPEN") /\ PopRq(w)
          /\ UNCHANGED <<tableVars, clientVars>> /\ UNCHANGED sess
          /\ \/ sq' = [sq EXCEPT ![w] = Append(sq[w], b)]
             \/ sq' = sq
      BY <1>5, RefuseFacts
    <2>2. fd \in Fds /\ Queue(sq)
      BY <2>1, TakingFacts
    <2>3. /\ NamesStay
          /\ \A v \in Works : \A i \in 1..Len(rq'[v]) :
               \E j \in 1..Len(rq[v]) : rq'[v][i] = rq[v][j]
          /\ rq[w][1].conn \in Conns /\ Names(fd, rq[w][1].conn)
      BY <2>1, TakingMeant
    <2>4. b \in Blks
      BY <2>2, <2>3, BlkFacts
    <2>5. ASSUME NEW v \in Works, NEW i \in 1..Len(sq'[v])
          PROVE  \/ \E j \in 1..Len(sq[v]) : sq'[v][i] = sq[v][j]
                 \/ sq'[v][i] = b
      <3> HIDE DEF b
      <3>1. CASE sq' = sq
        BY <3>1
      <3>2. CASE sq' = [sq EXCEPT ![w] = Append(sq[w], b)]
        BY <2>2, <2>4, <3>2, PutFrom
      <3> QED BY <2>1, <3>1, <3>2
    <2>6. \A v \in Works : \A i \in 1..Len(sq'[v]) :
           \/ \E j \in 1..Len(sq[v]) : sq'[v][i] = sq[v][j]
           \/ \E t \in {"OPEN", "DATA", "CLOSE"}, f \in Fds, c \in Conns :
                sq'[v][i] = Blk(t, f, c) /\ Names(f, c)
      <3> HIDE DEF fd
      <3> QED BY <2>2, <2>3, <2>5
    <2>7. \A v \in Works, f \in Fds : sess'[v][f] \in {sess[v][f], NoConn}
      BY <2>1
    <2> QED BY <2>3, <2>6, <2>7, MeantKept
  <1>6. CASE Process(w)
    <2>1. /\ Taking(w, "DATA") /\ PopRq(w) /\ UNCHANGED <<tableVars, clientVars>>
          /\ \/ UNCHANGED <<sq, sess>>
             \/ /\ s # NoConn /\ \A v \in Works \ {w} : sq'[v] = sq[v]
                /\ Extended(sq[w], sq'[w], {Blk(t, fd, s) : t \in {"DATA", "CLOSE"}})
                /\ sess' = sess \/ sess' = [sess EXCEPT ![w][fd] = NoConn]
      BY <1>6, ProcessFacts
    <2>2. fd \in Fds
      BY <2>1, TakingFacts
    <2>3. /\ NamesStay
          /\ \A v \in Works : \A i \in 1..Len(rq'[v]) :
               \E j \in 1..Len(rq[v]) : rq'[v][i] = rq[v][j]
      BY <2>1, TakingMeant
    <2>4. s # NoConn => s \in Conns /\ Names(fd, s)
      <3>1. MeantSess(w)
        BY MeantParts
      <3> QED BY <1>1, <2>2, <3>1 DEF MeantSess
    <2> HIDE DEF s
    <2>5. \A v \in Works, f \in Fds : sess'[v][f] \in {sess[v][f], NoConn}
      <3> HIDE DEF fd
      <3>1. CASE sess' = sess
        BY <3>1
      <3>2. CASE sess' = [sess EXCEPT ![w][fd] = NoConn]
        <4>1. \A v \in Works, f \in Fds :
                sess'[v][f] = IF v = w /\ f = fd THEN NoConn ELSE sess[v][f]
          BY <1>1, <1>2, <2>2, <3>2
        <4> QED BY <4>1
      <3> QED BY <2>1, <3>1, <3>2
    <2>6. ASSUME NEW v \in Works, NEW i \in 1..Len(sq'[v])
          PROVE  \/ \E j \in 1..Len(sq[v]) : sq'[v][i] = sq[v][j]
                 \/ \E t \in {"OPEN", "DATA", "CLOSE"}, f \in Fds, c \in Conns :
                      sq'[v][i] = Blk(t, f, c) /\ Names(f, c)
      <3> HIDE DEF fd
      <3>1. CASE UNCHANGED <<sq, sess>> \/ v # w
        <4>1. sq'[v] = sq[v]
          BY <2>1, <3>1
        <4> QED BY <4>1
      <3>2. CASE ~UNCHANGED <<sq, sess>> /\ v = w
        <4>1. \/ sq'[v][i] = sq[v][i] /\ i \in 1..Len(sq[v])
              \/ sq'[v][i] \in {Blk(t, fd, s) : t \in {"DATA", "CLOSE"}}
          BY <2>1, <3>2 DEF Extended
        <4>2. s \in Conns /\ Names(fd, s)
          BY <2>1, <2>4, <3>2
        <4> QED BY <2>2, <4>1, <4>2
      <3> QED BY <3>1, <3>2
    <2> QED BY <2>3, <2>5, <2>6, MeantKept
  <1> QED BY <1>3, <1>4, <1>5, <1>6 DEF WorkStep

LEMMA StepMeant ==
  ASSUME Base, Meant, [Next]_vars
  PROVE  Meant'
  BY StepKinds, QuietMeant, PassedMeant, ClosedMeant, TakenMeant, WorkMeant

LEMMA InitMeant ==
  ASSUME Init
  PROVE  Meant
  <1>1. Len(<<>>) = 0
    OBVIOUS
  <1> QED BY <1>1 DEF Init, Meant

\* The block in front of sq names the connection it was meant for.
LEMMA FrontMeant ==
  ASSUME Base, Meant, at = "send", sq[on] # <<>>
  PROVE  /\ sq[on][1] = Head(sq[on])
         /\ Names(Head(sq[on]).fd, Head(sq[on]).conn)
  <1>1. on \in Works /\ Queue(sq)
    BY BaseParts DEF Loop, Rest
  <1>2. Head(sq[on]) = sq[on][1] /\ Len(sq[on]) \in Nat \ {0}
    BY <1>1, QueueTail
  <1>3. 1 \in 1..Len(sq[on])
    BY <1>2
  <1>4. MeantSq(sq[on][1])
    BY <1>1, <1>3, MeantParts
  <1> QED BY <1>2, <1>4 DEF MeantSq

\* A reply or a close reaches another connection than it was meant for only
\* when that one is over: do_blk_send goes by the descriptor alone
\* (master.c:287-316), and the descriptor is given away only by do_fd_close.
THEOREM CrossesLate == Spec => CrossesOnlyWhenOver
  <1> DEFINE Late == <<misrouted, misclosed>>' # <<misrouted, misclosed>> =>
                       cli[Head(sq[on]).conn] = "gone"
  <1>1. Init => Base /\ Meant
    BY InitBase, InitMeant
  <1>2. Base /\ Meant /\ [Next]_vars => Base' /\ Meant'
    BY StepBase, StepMeant
  <1>3. ASSUME Base, Meant, [Next]_vars PROVE [Late]_vars
    <2>1. CASE Reply
      <3>1. /\ at = "send" /\ sq[on] # <<>> /\ misclosed' = misclosed
            /\ \/ /\ IsCli(Head(sq[on]).fd)
                  /\ misrouted' = (misrouted \/ fdt[Head(sq[on]).fd].conn # Head(sq[on]).conn)
               \/ UNCHANGED misrouted
        BY <2>1 DEF Reply, Handling
      <3>2. Names(Head(sq[on]).fd, Head(sq[on]).conn)
        BY <1>3, <3>1, FrontMeant
      <3>3. misrouted \in BOOLEAN
        BY <1>3, BaseParts DEF Rest
      <3>4. CASE fdt[Head(sq[on]).fd].conn # Head(sq[on]).conn
        BY <3>2, <3>4 DEF Names, Holds
      <3>5. CASE fdt[Head(sq[on]).fd].conn = Head(sq[on]).conn
        <4>1. misrouted' = misrouted
          BY <3>1, <3>3, <3>5
        <4> QED BY <3>1, <4>1
      <3> QED BY <3>4, <3>5
    <2>2. CASE CloseAsked
      <3>1. /\ at = "send" /\ sq[on] # <<>> /\ misrouted' = misrouted
            /\ \/ /\ IsCli(Head(sq[on]).fd)
                  /\ misclosed' = (misclosed \/ fdt[Head(sq[on]).fd].conn # Head(sq[on]).conn)
               \/ UNCHANGED misclosed
        BY <2>2 DEF CloseAsked, Handling
      <3>2. Names(Head(sq[on]).fd, Head(sq[on]).conn)
        BY <1>3, <3>1, FrontMeant
      <3>3. misclosed \in BOOLEAN
        BY <1>3, BaseParts DEF Rest
      <3>4. CASE fdt[Head(sq[on]).fd].conn # Head(sq[on]).conn
        BY <3>2, <3>4 DEF Names, Holds
      <3>5. CASE fdt[Head(sq[on]).fd].conn = Head(sq[on]).conn
        <4>1. misclosed' = misclosed
          BY <3>1, <3>3, <3>5
        <4> QED BY <3>1, <4>1
      <3> QED BY <3>4, <3>5
    <2>3. CASE \E c \in Conns : ClientStep(c)
      BY <2>3 DEF ClientStep, Connect, SendMsg, HangUp, flags
    <2>4. CASE NextQueue \/ EpollWait \/ LoopTop \/ AcceptNone \/ Accept \/ PushMsg
               \/ \E fd \in Fds : StartAccept(fd) \/ ReadHangup(fd) \/ ReadMsgs(fd)
      BY <2>4 DEF NextQueue, EpollWait, LoopTop, AcceptNone, Accept, PushMsg, StartAccept,
                  ReadHangup, ReadMsgs, flags
    <2>5. CASE \E w \in Works : WorkStep(w)
      BY <2>5 DEF WorkStep, OpenSession, RefuseOpen, Process, CloseSession, flags
    <2>6. CASE UNCHANGED vars
      BY <2>6
    <2> QED BY <1>3, <2>1, <2>2, <2>3, <2>4, <2>5, <2>6 DEF Next, MasterStep
  <1>4. CrossesOnlyWhenOver <=> [][Late]_vars
    BY DEF CrossesOnlyWhenOver
  <1> HIDE DEF Late
  <1> QED BY <1>1, <1>2, <1>3, <1>4, PTL DEF Spec

-----------------------------------------------------------------------------
\* How the sessions follow the master.

\* One block behind the queue.
Put(q, r, n, b) == n \in Nat /\ r[n + 1] = b /\ \A i \in 1..n : r[i] = q[i]

LEMMA AppendAfter ==
  ASSUME NEW q, NEW r, NEW n, NEW b, Put(q, r, n, b), NEW f, NEW s
  PROVE  /\ Relevant(b, f) => After(r, n + 1, f, s) = Result(b)
         /\ ~Relevant(b, f) => After(r, n + 1, f, s) = After(q, n, f, s)
  <1> USE DEF Put
  <1>2. After(r, n, f, s) = After(q, n, f, s)
    BY AfterSame
  <1>3. After(r, n + 1, f, s)
          = IF Relevant(r[n + 1], f) THEN Result(r[n + 1]) ELSE After(r, n, f, s)
    BY AfterOneMore
  <1> QED BY <1>2, <1>3

\* The master puts b behind rq[w].
RqPut(w, b) == /\ Queue(rq) /\ sess' = sess
               /\ rq' = [rq EXCEPT ![w] = Append(@, b)]

LEMMA ComingPut ==
  ASSUME NEW w \in Works, NEW b \in Blks, RqPut(w, b)
  PROVE  /\ \A v \in Works, f \in Fds :
              Coming(v, f)' = IF v = w /\ Relevant(b, f) THEN Result(b) ELSE Coming(v, f)
         /\ \A v \in Works : \A i \in 1..Len(rq'[v]) :
              \/ /\ i \in 1..Len(rq[v]) /\ rq'[v][i] = rq[v][i]
                 /\ \A f \in Fds : After(rq'[v], i - 1, f, sess'[v][f])
                                     = After(rq[v], i - 1, f, sess[v][f])
              \/ /\ v = w /\ rq'[v][i] = b
                 /\ \A f \in Fds : After(rq'[v], i - 1, f, sess'[v][f]) = Coming(w, f)
  <1> USE DEF RqPut
  <1>1. rq \in [Works -> Seq(Blks)] /\ rq[w] \in Seq(Blks) /\ Len(rq[w]) \in Nat
    BY LenProperties DEF Queue
  <1>2. rq'[w] = Append(rq[w], b) /\ \A v \in Works \ {w} : rq'[v] = rq[v]
    BY <1>1
  <1>3. /\ Len(Append(rq[w], b)) = Len(rq[w]) + 1
        /\ Append(rq[w], b)[Len(rq[w]) + 1] = b
        /\ \A i \in 1..Len(rq[w]) : Append(rq[w], b)[i] = rq[w][i]
    BY <1>1, AppendProperties
  <1>4. \A f \in Fds :
          /\ \A n \in 0..Len(rq[w]) :
               After(rq'[w], n, f, sess'[w][f]) = After(rq[w], n, f, sess[w][f])
          /\ After(rq'[w], Len(rq'[w]), f, sess'[w][f])
               = IF Relevant(b, f) THEN Result(b) ELSE After(rq[w], Len(rq[w]), f, sess[w][f])
    <2> SUFFICES ASSUME NEW f \in Fds
                 PROVE  /\ \A n \in 0..Len(rq[w]) :
                             After(rq'[w], n, f, sess'[w][f]) = After(rq[w], n, f, sess[w][f])
                        /\ After(rq'[w], Len(rq'[w]), f, sess'[w][f])
                             = IF Relevant(b, f) THEN Result(b)
                               ELSE After(rq[w], Len(rq[w]), f, sess[w][f])
      OBVIOUS
    <2> DEFINE s == sess[w][f]
               r == rq'[w]
               n == Len(rq[w])
    <2>1. n \in Nat /\ Len(r) = n + 1 /\ r[n + 1] = b /\ \A i \in 1..n : r[i] = rq[w][i]
      BY <1>1, <1>2, <1>3
    <2> HIDE DEF s, r, n
    <2>3. Put(rq[w], r, n, b)
      BY <2>1 DEF Put
    <2>2. /\ \A m \in 0..n : After(r, m, f, s) = After(rq[w], m, f, s)
          /\ Relevant(b, f) => After(r, n + 1, f, s) = Result(b)
          /\ ~Relevant(b, f) => After(r, n + 1, f, s) = After(rq[w], n, f, s)
      <3>1. \A m \in 0..n : After(r, m, f, s) = After(rq[w], m, f, s)
        <4> SUFFICES ASSUME NEW m \in 0..n PROVE After(r, m, f, s) = After(rq[w], m, f, s)
          OBVIOUS
        <4> DEFINE q == rq[w]
        <4>1. m \in Nat /\ \A i \in 1..m : r[i] = q[i]
          BY <2>1
        <4> HIDE DEF q
        <4>2. After(r, m, f, s) = After(q, m, f, s)
          BY <4>1, AfterSame
        <4> QED BY <4>2 DEF q
      <3>2. Relevant(b, f) => After(r, n + 1, f, s) = Result(b)
        BY <2>3, AppendAfter
      <3>3. ~Relevant(b, f) => After(r, n + 1, f, s) = After(rq[w], n, f, s)
        BY <2>3, AppendAfter
      <3> QED BY <3>1, <3>2, <3>3
    <2> QED BY <2>1, <2>2 DEF s, r, n
  <1>5. ASSUME NEW v \in Works, NEW f \in Fds
        PROVE  Coming(v, f)' = IF v = w /\ Relevant(b, f) THEN Result(b) ELSE Coming(v, f)
    <2>1. CASE v = w
      BY <1>4, <2>1 DEF Coming
    <2>2. CASE v # w
      <3>1. rq'[v] = rq[v]
        BY <1>2, <2>2
      <3> QED BY <2>2, <3>1 DEF Coming
    <2> QED BY <2>1, <2>2
  <1>6. ASSUME NEW v \in Works, NEW i \in 1..Len(rq'[v])
        PROVE  \/ /\ i \in 1..Len(rq[v]) /\ rq'[v][i] = rq[v][i]
                  /\ \A f \in Fds : After(rq'[v], i - 1, f, sess'[v][f])
                                      = After(rq[v], i - 1, f, sess[v][f])
               \/ /\ v = w /\ rq'[v][i] = b
                  /\ \A f \in Fds : After(rq'[v], i - 1, f, sess'[v][f]) = Coming(w, f)
    <2>1. CASE v # w
      <3>1. rq'[v] = rq[v]
        BY <1>2, <2>1
      <3> QED BY <3>1
    <2>2. CASE v = w /\ i \in 1..Len(rq[w])
      <3>1. i - 1 \in 0..Len(rq[w])
        BY <1>1, <2>2
      <3>2. rq'[w][i] = rq[w][i]
        BY <1>2, <1>3, <2>2
      <3> QED BY <1>4, <2>2, <3>1, <3>2
    <2>3. CASE v = w /\ i \notin 1..Len(rq[w])
      <3>1. i = Len(rq[w]) + 1
        BY <1>1, <1>2, <1>3, <2>3
      <3>2. i - 1 = Len(rq[w]) /\ Len(rq[w]) \in 0..Len(rq[w])
        BY <1>1, <3>1
      <3>3. rq'[w][i] = b
        BY <1>2, <1>3, <3>1
      <3> QED BY <1>4, <2>3, <3>2, <3>3 DEF Coming
    <2> QED BY <2>1, <2>2, <2>3
  <1> QED BY <1>5, <1>6

\* A close that is asked for stays so, unless no client has the descriptor now.
LEMMA AskStays ==
  ASSUME Base, Answered, NEW w \in Works, NEW f \in Fds, NEW c, AskedToClose(w, f, c)
  PROVE  AskedToClose(w, f, c)' \/ ~IsCli(f)'
  <1>1. PICK i \in 1..Len(sq[w]) : sq[w][i] = Blk("CLOSE", f, c)
    BY DEF AskedToClose
  <1>2. CASE sq' = sq
    BY <1>2 DEF AskedToClose
  <1>3. CASE /\ on \in Works /\ sq[on] # <<>> /\ sq' = [sq EXCEPT ![on] = Tail(@)]
             /\ sq[on][1].type = "CLOSE" => fdt'[sq[on][1].fd].type # "cli"
    <2>1. Queue(sq) /\ sq \in [Works -> Seq(Blks)]
      BY BaseParts DEF Rest, Queue
    <2>2. /\ Len(sq[on]) \in Nat \ {0} /\ Len(Tail(sq[on])) = Len(sq[on]) - 1
          /\ \A j \in 1..(Len(sq[on]) - 1) : Tail(sq[on])[j] = sq[on][j + 1]
      BY <1>3, <2>1, QueueTail
    <2>3. sq'[on] = Tail(sq[on]) /\ \A v \in Works \ {on} : sq'[v] = sq[v]
      BY <1>3, <2>1
    <2>4. CASE w # on
      <3>1. sq'[w] = sq[w]
        BY <2>3, <2>4
      <3> QED BY <1>1, <3>1 DEF AskedToClose
    <2>5. CASE w = on /\ i = 1
      <3>1. sq[on][1].type = "CLOSE" /\ sq[on][1].fd = f
        BY <1>1, <2>5 DEF Blk
      <3> QED BY <1>3, <3>1 DEF IsCli
    <2>6. CASE w = on /\ i # 1
      <3>1. i - 1 \in 1..(Len(sq[on]) - 1) /\ (i - 1) + 1 = i
        BY <2>2, <2>6
      <3>2. i - 1 \in 1..Len(sq'[w]) /\ sq'[w][i - 1] = sq[w][i]
        BY <2>2, <2>3, <2>6, <3>1
      <3> QED BY <1>1, <3>2 DEF AskedToClose
    <2> QED BY <2>4, <2>5, <2>6
  <1> QED BY <1>2, <1>3 DEF Answered

\* What is left to show when the master or a client has moved.
LEMMA MasterAgrees ==
  ASSUME Base, Agreed, drops <= drops', drops' \in 0..MaxDrops,
         UNCHANGED <<sess, torn, crossed>>,
         NEW w \in Works, NEW b \in Blks,
         \/ rq' = rq
         \/ /\ rq' = [rq EXCEPT ![w] = Append(@, b)]
            /\ b.type = "OPEN" /\ drops' = 0 => Coming(w, b.fd) = NoConn
            /\ b.type = "DATA" /\ OneLoss(w) => Coming(w, b.fd) \in {NoConn, b.conn},
         SessionsFollowMaster', ComingIsOwn'
  PROVE  Agreed'
  <1>1. /\ Rest /\ Queue(rq) /\ drops \in 0..MaxDrops /\ MaxDrops \in Nat
        /\ \A v \in Works : Len(rq[v]) \in Nat /\ rq[v] \in Seq(Blks)
    BY BaseParts, Numbers, LenProperties DEF Rest, Queue
  <1>2. /\ drops' = 0 => drops = 0
        /\ drops' <= 1 => drops <= 1
        /\ drops > 0 => drops' > 0
        /\ drops >= 2 => drops' >= 2
    BY <1>1
  <1>3. \A v \in Works : OneLoss(v)' => OneLoss(v)
    BY <1>2 DEF OneLoss
  <1>4. RefusalNeedsLostClose'
    BY <1>2 DEF Agreed, RefusalNeedsLostClose
  <1>5. NoCrossing'
    BY <1>2 DEF Agreed, NoCrossing, CrossingNeedsTwoLosses
  <1>6. \A v \in Works : \A i \in 1..Len(rq'[v]) :
              \/ /\ i \in 1..Len(rq[v]) /\ rq'[v][i] = rq[v][i]
                 /\ \A f \in Fds : After(rq'[v], i - 1, f, sess'[v][f])
                                     = After(rq[v], i - 1, f, sess[v][f])
              \/ /\ v = w /\ rq'[v][i] = b
                 /\ b.type = "OPEN" /\ drops' = 0 => Coming(w, b.fd) = NoConn
                 /\ b.type = "DATA" /\ OneLoss(w) => Coming(w, b.fd) \in {NoConn, b.conn}
                 /\ \A f \in Fds : After(rq'[v], i - 1, f, sess'[v][f]) = Coming(w, f)
    <2>1. CASE rq' = rq
      BY <2>1
    <2>2. CASE /\ rq' = [rq EXCEPT ![w] = Append(@, b)]
               /\ b.type = "OPEN" /\ drops' = 0 => Coming(w, b.fd) = NoConn
               /\ b.type = "DATA" /\ OneLoss(w) => Coming(w, b.fd) \in {NoConn, b.conn}
      <3>1. \A v \in Works : \A i \in 1..Len(rq'[v]) :
              \/ /\ i \in 1..Len(rq[v]) /\ rq'[v][i] = rq[v][i]
                 /\ \A f \in Fds : After(rq'[v], i - 1, f, sess'[v][f])
                                     = After(rq[v], i - 1, f, sess[v][f])
              \/ /\ v = w /\ rq'[v][i] = b
                 /\ \A f \in Fds : After(rq'[v], i - 1, f, sess'[v][f]) = Coming(w, f)
        <4>1. RqPut(w, b)
          BY <1>1, <2>2 DEF RqPut
        <4> QED BY <4>1, ComingPut
      <3> QED BY <2>2, <3>1
    <2> QED BY <2>1, <2>2
  <1>7. /\ \A v \in Works : \A i \in 1..Len(rq[v]) : rq[v][i].fd \in Fds
        /\ b.fd \in Fds
    <2>1. \A v \in Works : \A i \in 1..Len(rq[v]) : rq[v][i] \in Blks
      BY <1>1, ElementOfSeq
    <2>2. \A x \in Blks : x.fd \in Fds
      BY DEF Blks
    <2> QED BY <2>1, <2>2
  <1>8. OpensFindNone'
    <2> SUFFICES ASSUME drops' = 0, NEW v \in Works, NEW i \in 1..Len(rq'[v]),
                        rq'[v][i].type = "OPEN"
                 PROVE  After(rq'[v], i - 1, rq'[v][i].fd, sess'[v][rq'[v][i].fd]) = NoConn
      BY DEF OpensFindNone
    <2>1. CASE /\ i \in 1..Len(rq[v]) /\ rq'[v][i] = rq[v][i]
               /\ \A f \in Fds : After(rq'[v], i - 1, f, sess'[v][f])
                                   = After(rq[v], i - 1, f, sess[v][f])
      <3>1. After(rq[v], i - 1, rq[v][i].fd, sess[v][rq[v][i].fd]) = NoConn
        BY <1>2, <2>1 DEF Agreed, OpensFindNone
      <3> QED BY <1>7, <2>1, <3>1
    <2>2. CASE /\ v = w /\ rq'[v][i] = b
               /\ b.type = "OPEN" /\ drops' = 0 => Coming(w, b.fd) = NoConn
               /\ \A f \in Fds : After(rq'[v], i - 1, f, sess'[v][f]) = Coming(w, f)
      BY <1>7, <2>2
    <2> QED BY <1>6, <2>1, <2>2
  <1>9. RequestsFindOwn'
    <2> SUFFICES ASSUME NEW v \in Works, OneLoss(v)', NEW i \in 1..Len(rq'[v]),
                        rq'[v][i].type = "DATA"
                 PROVE  After(rq'[v], i - 1, rq'[v][i].fd, sess'[v][rq'[v][i].fd])
                          \in {NoConn, rq'[v][i].conn}
      BY DEF RequestsFindOwn
    <2>1. CASE /\ i \in 1..Len(rq[v]) /\ rq'[v][i] = rq[v][i]
               /\ \A f \in Fds : After(rq'[v], i - 1, f, sess'[v][f])
                                   = After(rq[v], i - 1, f, sess[v][f])
      <3>1. After(rq[v], i - 1, rq[v][i].fd, sess[v][rq[v][i].fd]) \in {NoConn, rq[v][i].conn}
        BY <1>3, <2>1 DEF Agreed, RequestsFindOwn
      <3> QED BY <1>7, <2>1, <3>1
    <2>2. CASE /\ v = w /\ rq'[v][i] = b
               /\ b.type = "DATA" /\ OneLoss(w) => Coming(w, b.fd) \in {NoConn, b.conn}
               /\ \A f \in Fds : After(rq'[v], i - 1, f, sess'[v][f]) = Coming(w, f)
      BY <1>3, <1>7, <2>2
    <2> QED BY <1>6, <2>1, <2>2
  <1> QED BY <1>4, <1>5, <1>8, <1>9 DEF Agreed

\* Nothing moved for a work process and a descriptor, or both sides meet.
LEMMA FollowsNext ==
  ASSUME Base, SessionsFollowMaster, drops' = 0 => drops = 0,
         \A v \in Works, f \in Fds : drops' = 0 =>
           \/ Coming(v, f)' = Held(v, f)'
           \/ /\ Coming(v, f)' = Coming(v, f) /\ Held(v, f)' = Held(v, f)
              /\ \A c : AskedToClose(v, f, c) => AskedToClose(v, f, c)' \/ Held(v, f)' = NoConn
  PROVE  SessionsFollowMaster'
  <1> SUFFICES ASSUME drops' = 0, NEW v \in Works, NEW f \in Fds
               PROVE  \/ Coming(v, f)' = Held(v, f)'
                      \/ Coming(v, f)' = NoConn /\ AskedToClose(v, f, Held(v, f))'
    BY DEF SessionsFollowMaster
  <1>1. \/ Coming(v, f) = Held(v, f)
        \/ Coming(v, f) = NoConn /\ AskedToClose(v, f, Held(v, f))
    BY DEF SessionsFollowMaster
  <1>2. CASE Coming(v, f)' = Held(v, f)'
    BY <1>2
  <1>3. CASE /\ Coming(v, f)' = Coming(v, f) /\ Held(v, f)' = Held(v, f)
             /\ \A c : AskedToClose(v, f, c) => AskedToClose(v, f, c)' \/ Held(v, f)' = NoConn
    <2>1. CASE Coming(v, f) = Held(v, f)
      BY <1>3, <2>1
    <2>2. CASE Coming(v, f) = NoConn /\ AskedToClose(v, f, Held(v, f))
      <3>1. ASSUME NEW c, c = Held(v, f)
            PROVE  \/ Coming(v, f)' = Held(v, f)'
                   \/ Coming(v, f)' = NoConn /\ AskedToClose(v, f, Held(v, f))'
        <4>1. AskedToClose(v, f, c)' \/ Held(v, f)' = NoConn
          BY <1>3, <2>2, <3>1
        <4>2. c = Held(v, f)'
          BY <1>3, <3>1
        <4>3. AskedToClose(v, f, c)' => AskedToClose(v, f, Held(v, f))'
          BY <4>2 DEF AskedToClose
        <4> QED BY <1>3, <2>2, <4>1, <4>3
      <3> QED BY <3>1
    <2> QED BY <1>1, <2>1, <2>2
  <1> QED BY <1>2, <1>3

LEMMA AgreedFacts ==
  ASSUME Base, drops <= drops', drops' \in 0..MaxDrops
  PROVE  /\ drops \in 0..MaxDrops /\ NoConn \notin Conns
         /\ (drops' = 0 => drops = 0) /\ (drops' <= 1 => drops <= 1)
         /\ (drops > 0 => drops' > 0) /\ (drops >= 2 => drops' >= 2)
         /\ \A f \in Fds : IsCli(f) => fdt[f].conn \in Conns
  <1>1. drops \in 0..MaxDrops /\ MaxDrops \in Nat
    BY BaseParts, Numbers DEF Rest
  <1>2. \A f \in Fds : IsCli(f) => fdt[f].conn \in Conns
    BY BaseParts DEF Tables
  <1> QED BY <1>1, <1>2, SessionAssumption

LEMMA QuietAgrees ==
  ASSUME Base, Agreed, Quiet
  PROVE  Agreed'
  <1>1. /\ UNCHANGED <<fdt, rq, sess, torn, drops, crossed>> /\ Answered
    BY DEF Quiet
  <1>2. drops <= drops' /\ drops' \in 0..MaxDrops
    BY <1>1, BaseParts, Numbers DEF Rest
  <1>3. \A v \in Works, f \in Fds : Coming(v, f)' = Coming(v, f) /\ Held(v, f)' = Held(v, f)
    BY <1>1 DEF Coming, Held, IsCli
  <1>4. \A f \in Fds : ~IsCli(f)' => \A v \in Works : Held(v, f)' = NoConn
    BY DEF Held
  <1>5. \A v \in Works, f \in Fds : \A c :
          AskedToClose(v, f, c) => AskedToClose(v, f, c)' \/ Held(v, f)' = NoConn
    BY <1>1, <1>4, AskStays
  <1>6. SessionsFollowMaster /\ ComingIsOwn
    BY DEF Agreed
  <1>7. drops' = 0 => drops = 0
    BY <1>1
  <1>8. SessionsFollowMaster'
    BY <1>3, <1>5, <1>6, <1>7, FollowsNext
  <1>9. ComingIsOwn'
    BY <1>1, <1>3, <1>6 DEF ComingIsOwn, OneLoss
  <1>10. Blk("CLOSE", 1, NoConn) \in Blks /\ 1 \in Works
    BY Numbers, BlkFacts
  <1>11. rq' = rq /\ UNCHANGED <<sess, torn, crossed>>
    BY <1>1
  <1> QED BY <1>2, <1>8, <1>9, <1>10, <1>11, MasterAgrees

LEMMA PassedAgrees ==
  ASSUME Base, Agreed, NEW fd \in Fds, Passed(fd), drops' \in 0..MaxDrops
  PROVE  Agreed'
  <1>1. PICK w \in Works, c \in Conns : w = fdt[fd].idx /\ c = fdt[fd].conn
    BY DEF Passed
  <1> DEFINE b == Blk("DATA", fd, c)
  <1>2. /\ UNCHANGED <<fdt, sq, sess, torn, crossed>> /\ IsCli(fd) /\ drops <= drops'
        /\ \/ drops' = drops /\ rq' = [rq EXCEPT ![w] = Append(@, b)]
           \/ rq' = rq /\ drops' > 0
    BY <1>1 DEF Passed
  <1>3. Queue(rq)
    BY BaseParts DEF Rest
  <1>4. /\ (drops' = 0 => drops = 0) /\ (drops' <= 1 => drops <= 1) /\ NoConn \notin Conns
    BY <1>2, <1>3, AgreedFacts
  <1>5. b \in Blks /\ b.type = "DATA" /\ b.fd = fd /\ b.conn = c
    BY BlkFacts DEF Blk
  <1>6. Held(w, fd) = c /\ c # NoConn
    BY <1>1, <1>2, <1>4 DEF Held
  <1> HIDE DEF b
  <1>7. \A v \in Works, f \in Fds : Held(v, f)' = Held(v, f)
    BY <1>2 DEF Held, IsCli
  <1>8. \A v \in Works, f \in Fds : Coming(v, f)' = Coming(v, f)
    <2>1. CASE rq' = rq
      BY <1>2, <2>1 DEF Coming
    <2>2. CASE rq' = [rq EXCEPT ![w] = Append(@, b)]
      <3>1. RqPut(w, b)
        BY <1>2, <1>3, <2>2 DEF RqPut
      <3>2. \A f : ~Relevant(b, f)
        BY <1>5 DEF Relevant
      <3> QED BY <1>5, <3>1, <3>2, ComingPut
    <2> QED BY <1>2, <2>1, <2>2
  <1>9. SessionsFollowMaster /\ ComingIsOwn
    BY DEF Agreed
  <1>10. \A v \in Works, f \in Fds : \A c1 : AskedToClose(v, f, c1) => AskedToClose(v, f, c1)'
    BY <1>2 DEF AskedToClose
  <1>11. SessionsFollowMaster'
    BY <1>4, <1>7, <1>8, <1>9, <1>10, FollowsNext
  <1>12. \A v \in Works : OneLoss(v)' => OneLoss(v)
    BY <1>2, <1>4 DEF OneLoss
  <1>13. ComingIsOwn'
    BY <1>7, <1>8, <1>9, <1>12 DEF ComingIsOwn
  <1>14. OneLoss(w) => Coming(w, fd) \in {NoConn, c}
    BY <1>6, <1>9 DEF ComingIsOwn
  <1>15. \/ rq' = rq
         \/ /\ rq' = [rq EXCEPT ![w] = Append(@, b)]
            /\ b.type = "OPEN" /\ drops' = 0 => Coming(w, b.fd) = NoConn
            /\ b.type = "DATA" /\ OneLoss(w) => Coming(w, b.fd) \in {NoConn, b.conn}
    BY <1>2, <1>5, <1>14
  <1>16. UNCHANGED <<sess, torn, crossed>>
    BY <1>2
  <1> QED BY <1>2, <1>3, <1>5, <1>11, <1>13, <1>15, <1>16, MasterAgrees

LEMMA ClosedAgrees ==
  ASSUME Base, Agreed, NEW fd \in Fds, Closed(fd), drops' \in 0..MaxDrops
  PROVE  Agreed'
  <1>1. PICK w \in Works, c \in Conns : w = fdt[fd].idx /\ c = fdt[fd].conn
    BY DEF Closed
  <1> DEFINE b == Blk("CLOSE", fd, c)
  <1>2. /\ UNCHANGED <<sess, torn, crossed>> /\ IsCli(fd) /\ drops <= drops' /\ Answered
        /\ \/ rq' = [rq EXCEPT ![w] = Append(@, b)]
           \/ rq' = rq /\ drops' > 0
    BY <1>1 DEF Closed
  <1>3. Queue(rq)
    BY BaseParts DEF Rest
  <1>4. /\ (drops' = 0 => drops = 0) /\ (drops' <= 1 => drops <= 1) /\ NoConn \notin Conns
        /\ drops' = 0 => ~(drops' > 0)
    BY <1>2, AgreedFacts
  <1>5. b \in Blks /\ b.type = "CLOSE" /\ b.fd = fd /\ Result(b) = NoConn
    BY BlkFacts DEF Blk, Result
  <1> HIDE DEF b
  <1>6. ~IsCli(fd)' /\ \A f \in Fds \ {fd} : fdt'[f] = fdt[f]
    BY ClosedTable
  <1>7. /\ \A v \in Works : Held(v, fd)' = NoConn
        /\ \A v \in Works, f \in Fds \ {fd} : Held(v, f)' = Held(v, f)
        /\ \A v \in Works \ {w} : Held(v, fd) = NoConn
    BY <1>1, <1>6 DEF Held, IsCli
  <1>8. /\ \A v \in Works, f \in Fds \ {fd} : Coming(v, f)' = Coming(v, f)
        /\ \A v \in Works \ {w} : Coming(v, fd)' = Coming(v, fd)
        /\ drops' = 0 => Coming(w, fd)' = NoConn
    <2>1. CASE rq' = rq /\ drops' > 0
      BY <1>2, <1>4, <2>1 DEF Coming
    <2>2. CASE rq' = [rq EXCEPT ![w] = Append(@, b)]
      <3>1. RqPut(w, b)
        BY <1>2, <1>3, <2>2 DEF RqPut
      <3>2. \A f : Relevant(b, f) <=> f = fd
        BY <1>5 DEF Relevant
      <3>3. \A v \in Works, f \in Fds :
              Coming(v, f)' = IF v = w /\ Relevant(b, f) THEN Result(b) ELSE Coming(v, f)
        BY <1>5, <3>1, ComingPut
      <3> QED BY <1>5, <3>2, <3>3
    <2> QED BY <1>2, <2>1, <2>2
  <1>9. SessionsFollowMaster /\ ComingIsOwn
    BY DEF Agreed
  <1>10. \A v \in Works, f \in Fds : \A x :
           AskedToClose(v, f, x) => AskedToClose(v, f, x)' \/ Held(v, f)' = NoConn
    <2>1. \A f \in Fds : ~IsCli(f)' => \A v \in Works : Held(v, f)' = NoConn
      BY DEF Held
    <2> QED BY <1>2, <2>1, AskStays
  <1>11. SessionsFollowMaster'
    <2>1. ASSUME drops' = 0, NEW v \in Works
          PROVE  Coming(v, fd)' = Held(v, fd)'
      <3>1. CASE v = w
        BY <1>7, <1>8, <2>1, <3>1
      <3>2. CASE v # w
        <4>1. Coming(v, fd) = NoConn
          BY <1>4, <1>7, <1>9, <2>1, <3>2 DEF SessionsFollowMaster
        <4> QED BY <1>7, <1>8, <3>2, <4>1
      <3> QED BY <3>1, <3>2
    <2>2. \A v \in Works, f \in Fds : drops' = 0 =>
            \/ Coming(v, f)' = Held(v, f)'
            \/ /\ Coming(v, f)' = Coming(v, f) /\ Held(v, f)' = Held(v, f)
               /\ \A x : AskedToClose(v, f, x) => AskedToClose(v, f, x)' \/ Held(v, f)' = NoConn
      BY <1>7, <1>8, <1>10, <2>1
    <2> QED BY <1>4, <1>9, <2>2, FollowsNext
  <1>12. \A v \in Works : OneLoss(v)' => OneLoss(v)
    BY <1>2, <1>4 DEF OneLoss
  <1>13. ComingIsOwn'
    <2> SUFFICES ASSUME NEW v \in Works, OneLoss(v)', NEW f \in Fds, Held(v, f)' # NoConn
                 PROVE  Coming(v, f)' \in {NoConn, Held(v, f)'}
      BY DEF ComingIsOwn
    <2>1. f # fd
      BY <1>7
    <2>2. Held(v, f)' = Held(v, f) /\ Coming(v, f)' = Coming(v, f)
      BY <1>7, <1>8, <2>1
    <2> QED BY <1>9, <1>12, <2>2 DEF ComingIsOwn
  <1>14. \/ rq' = rq
         \/ /\ rq' = [rq EXCEPT ![w] = Append(@, b)]
            /\ b.type = "OPEN" /\ drops' = 0 => Coming(w, b.fd) = NoConn
            /\ b.type = "DATA" /\ OneLoss(w) => Coming(w, b.fd) \in {NoConn, b.conn}
    BY <1>2, <1>5
  <1>15. UNCHANGED <<sess, torn, crossed>>
    BY <1>2
  <1> QED BY <1>2, <1>5, <1>11, <1>13, <1>14, <1>15, MasterAgrees

LEMMA TakenAgrees ==
  ASSUME Base, Agreed, NEW c \in Conns, NEW new \in Fds \ open, NEW w \in Works,
         Taken(c, new, w)
  PROVE  Agreed'
  <1>1. PICK l \in Fds : l = on
    BY BaseParts DEF Loop
  <1> DEFINE a == Blk("OPEN", new, c)
             z == Blk("CLOSE", l, NoConn)
  <1>2. /\ new # l /\ ~IsCli(new) /\ ~IsCli(l)
        /\ fdt'[new] = Entry("cli", w, c) /\ fdt'[l].type # "cli"
        /\ \A f \in Fds \ {new, l} : fdt'[f] = fdt[f]
        /\ drops' \in 0..MaxDrops /\ drops <= drops' /\ Queue(rq)
        /\ \/ drops' = drops /\ rq' = [rq EXCEPT ![w] = Append(@, a)]
           \/ /\ \/ rq' = rq
                 \/ rq' = [rq EXCEPT ![w] = Append(@, z)]
              /\ drops' > 0 /\ (drops > 0 /\ MaxDrops > 1 => drops' > 1)
    BY <1>1, TakenTable
  <1>3. UNCHANGED <<sq, sess, torn, crossed>>
    BY DEF Taken
  <1>4. /\ (drops' = 0 => drops = 0) /\ (drops' <= 1 => drops <= 1) /\ NoConn \notin Conns
        /\ (drops' = 0 => ~(drops' > 0))
    BY <1>2, AgreedFacts
  <1>5. /\ a \in Blks /\ a.type = "OPEN" /\ a.fd = new /\ Result(a) = c
        /\ z \in Blks /\ z.type = "CLOSE" /\ z.fd = l
    BY BlkFacts DEF Blk, Result
  <1> HIDE DEF a, z
  <1>6. /\ \A v \in Works : Held(v, new) = NoConn /\ Held(v, l) = NoConn /\ Held(v, l)' = NoConn
        /\ Held(w, new)' = c /\ \A v \in Works \ {w} : Held(v, new)' = NoConn
        /\ \A v \in Works, f \in Fds \ {new, l} : Held(v, f)' = Held(v, f)
    <2>1. fdt'[new].type = "cli" /\ fdt'[new].idx = w /\ fdt'[new].conn = c
      BY <1>2 DEF Entry
    <2>2. \A v \in Works : Held(v, new) = NoConn /\ Held(v, l) = NoConn /\ Held(v, l)' = NoConn
      BY <1>2 DEF Held, IsCli
    <2>3. Held(w, new)' = c /\ \A v \in Works \ {w} : Held(v, new)' = NoConn
      BY <2>1 DEF Held, IsCli
    <2>4. \A v \in Works, f \in Fds \ {new, l} : Held(v, f)' = Held(v, f)
      BY <1>2 DEF Held, IsCli
    <2> QED BY <2>2, <2>3, <2>4
  <1>7. /\ \A v \in Works, f \in Fds \ {new, l} : Coming(v, f)' = Coming(v, f)
        /\ \A v \in Works \ {w} : Coming(v, new)' = Coming(v, new)
        /\ \/ Coming(w, new)' = c /\ \A v \in Works : Coming(v, l)' = Coming(v, l)
           \/ /\ Coming(w, new)' = Coming(w, new)
              /\ drops' > 0 /\ (drops > 0 /\ MaxDrops > 1 => drops' > 1)
    <2>1. CASE rq' = [rq EXCEPT ![w] = Append(@, a)]
      <3>1. RqPut(w, a)
        BY <1>2, <1>3, <2>1 DEF RqPut
      <3>2. \A f : Relevant(a, f) <=> f = new
        BY <1>5 DEF Relevant
      <3>3. \A v \in Works, f \in Fds :
              Coming(v, f)' = IF v = w /\ Relevant(a, f) THEN Result(a) ELSE Coming(v, f)
        BY <1>5, <3>1, ComingPut
      <3> QED BY <1>2, <1>5, <3>2, <3>3
    <2>2. CASE /\ rq' = [rq EXCEPT ![w] = Append(@, z)]
               /\ drops' > 0 /\ (drops > 0 /\ MaxDrops > 1 => drops' > 1)
      <3>1. RqPut(w, z)
        BY <1>2, <1>3, <2>2 DEF RqPut
      <3>2. \A f : Relevant(z, f) <=> f = l
        BY <1>5 DEF Relevant
      <3>3. \A v \in Works, f \in Fds :
              Coming(v, f)' = IF v = w /\ Relevant(z, f) THEN Result(z) ELSE Coming(v, f)
        BY <1>5, <3>1, ComingPut
      <3> QED BY <1>2, <1>5, <2>2, <3>2, <3>3
    <2>3. CASE /\ rq' = rq
               /\ drops' > 0 /\ (drops > 0 /\ MaxDrops > 1 => drops' > 1)
      BY <1>3, <2>3 DEF Coming
    <2> QED BY <1>2, <2>1, <2>2, <2>3
  <1>8. SessionsFollowMaster /\ ComingIsOwn
    BY DEF Agreed
  <1>9. drops = 0 => \A v \in Works : Coming(v, new) = NoConn
    BY <1>6, <1>8 DEF SessionsFollowMaster
  <1>10. \A v \in Works, f \in Fds : \A x : AskedToClose(v, f, x) => AskedToClose(v, f, x)'
    BY <1>3 DEF AskedToClose
  <1>11. SessionsFollowMaster'
    <2>1. ASSUME drops' = 0, NEW v \in Works PROVE Coming(v, new)' = Held(v, new)'
      BY <1>4, <1>6, <1>7, <1>9, <2>1
    <2>2. ASSUME drops' = 0, NEW v \in Works
          PROVE  Coming(v, l)' = Coming(v, l) /\ Held(v, l)' = Held(v, l)
      BY <1>4, <1>6, <1>7, <2>2
    <2>3. \A v \in Works, f \in Fds : drops' = 0 =>
            \/ Coming(v, f)' = Held(v, f)'
            \/ /\ Coming(v, f)' = Coming(v, f) /\ Held(v, f)' = Held(v, f)
               /\ \A x : AskedToClose(v, f, x) => AskedToClose(v, f, x)' \/ Held(v, f)' = NoConn
      BY <1>6, <1>7, <1>10, <2>1, <2>2
    <2> QED BY <1>4, <1>8, <2>3, FollowsNext
  <1>12. \A v \in Works : OneLoss(v)' => OneLoss(v)
    BY <1>3, <1>4 DEF OneLoss
  <1>13. ComingIsOwn'
    <2> SUFFICES ASSUME NEW v \in Works, OneLoss(v)', NEW f \in Fds, Held(v, f)' # NoConn
                 PROVE  Coming(v, f)' \in {NoConn, Held(v, f)'}
      BY DEF ComingIsOwn
    <2>1. CASE f \notin {new, l}
      <3>1. Held(v, f)' = Held(v, f) /\ Coming(v, f)' = Coming(v, f)
        BY <1>6, <1>7, <2>1
      <3> QED BY <1>8, <1>12, <3>1 DEF ComingIsOwn
    <2>2. CASE f = new
      <3>1. v = w /\ Held(w, new)' = c
        BY <1>6, <2>2
      <3>2. CASE Coming(w, new)' = c
        BY <2>2, <3>1, <3>2
      <3>3. CASE /\ Coming(w, new)' = Coming(w, new)
                 /\ drops' > 0 /\ (drops > 0 /\ MaxDrops > 1 => drops' > 1)
        <4>1. MaxDrops > 1 /\ drops' <= 1
          BY DEF OneLoss
        <4>2. drops = 0
          <5>1. drops \in 0..MaxDrops /\ MaxDrops \in Nat
            BY <1>2, AgreedFacts, Numbers
          <5> QED BY <1>2, <3>3, <4>1, <5>1
        <4> QED BY <1>9, <2>2, <3>1, <3>3, <4>2
      <3> QED BY <1>7, <3>2, <3>3
    <2>3. f # l
      BY <1>6
    <2> QED BY <2>1, <2>2, <2>3
  <1>14. UNCHANGED <<sess, torn, crossed>>
    BY <1>3
  <1>15. CASE rq' = [rq EXCEPT ![w] = Append(@, a)]
    <2>1. a.type = "OPEN" /\ drops' = 0 => Coming(w, a.fd) = NoConn
      BY <1>4, <1>5, <1>9
    <2>2. ~(a.type = "DATA")
      BY <1>5
    <2> QED BY <1>2, <1>5, <1>11, <1>13, <1>14, <1>15, <2>1, <2>2, MasterAgrees
  <1>16. CASE rq' = [rq EXCEPT ![w] = Append(@, z)] \/ rq' = rq
    <2>1. ~(z.type = "OPEN") /\ ~(z.type = "DATA")
      BY <1>5
    <2> QED BY <1>2, <1>5, <1>11, <1>13, <1>14, <1>16, <2>1, MasterAgrees
  <1> QED BY <1>2, <1>15, <1>16

-----------------------------------------------------------------------------
\* A work process takes the first block off its queue and does what it asks
\* for; it may close a session besides, and then its request is in sq unless a
\* push went wrong.
Emptied(w) ==
  \A f \in Fds :
    \/ Relevant(rq[w][1], f) /\ sess'[w][f] = Result(rq[w][1])
    \/ ~Relevant(rq[w][1], f) /\ sess'[w][f] = sess[w][f]
    \/ /\ ~Relevant(rq[w][1], f) /\ sess'[w][f] = NoConn
       /\ drops' = 0 => \E i \in 1..Len(sq'[w]) : sq'[w][i] = Blk("CLOSE", f, sess[w][f])

LEMMA EmptiedAfter ==
  ASSUME Base, NEW w \in Works, NEW type, Taking(w, type), PopRq(w), Emptied(w),
         NEW f \in Fds, NEW n \in 0..Len(rq'[w])
  PROVE  \/ After(rq'[w], n, f, sess'[w][f]) = After(rq[w], n + 1, f, sess[w][f])
         \/ /\ After(rq'[w], n, f, sess'[w][f]) = NoConn
            /\ After(rq[w], n + 1, f, sess[w][f]) = sess[w][f]
            /\ drops' = 0 => \E i \in 1..Len(sq'[w]) :
                               sq'[w][i] = Blk("CLOSE", f, sess[w][f])
  <1> DEFINE q == rq[w]
             r == rq'[w]
             s == sess[w][f]
             t == sess'[w][f]
             asked == \E i \in 1..Len(sq'[w]) : sq'[w][i] = Blk("CLOSE", f, s)
  <1>1. n \in Nat /\ \A i \in 1..n : r[i] = q[i + 1]
    BY TakingFacts
  <1>2. \/ Relevant(q[1], f) /\ t = Result(q[1])
        \/ ~Relevant(q[1], f) /\ t = s
        \/ ~Relevant(q[1], f) /\ t = NoConn /\ (drops' = 0 => asked)
    BY DEF Emptied
  <1> HIDE DEF q, r, s, t, asked
  <1>3. After(q, n + 1, f, s)
          = After(r, n, f, IF Relevant(q[1], f) THEN Result(q[1]) ELSE s)
    BY <1>1, AfterFirst
  <1>4. \/ After(r, n, f, t) = After(q, n + 1, f, s)
        \/ /\ After(r, n, f, t) = NoConn /\ After(q, n + 1, f, s) = s
           /\ drops' = 0 => asked
    <2>1. CASE Relevant(q[1], f) /\ t = Result(q[1])
      BY <1>3, <2>1
    <2>2. CASE ~Relevant(q[1], f) /\ t = s
      BY <1>3, <2>2
    <2>3. CASE ~Relevant(q[1], f) /\ t = NoConn /\ (drops' = 0 => asked)
      <3>1. \/ After(r, n, f, NoConn) = After(r, n, f, s)
            \/ After(r, n, f, NoConn) = NoConn /\ After(r, n, f, s) = s
        BY <1>1, AfterClosed
      <3> QED BY <1>3, <2>3, <3>1
    <2> QED BY <1>2, <2>1, <2>2, <2>3
  <1> QED BY <1>4 DEF q, r, s, t, asked

\* What the queue of w will make of a session, before and after.
LEMMA EmptiedComing ==
  ASSUME Base, NEW w \in Works, NEW type, Taking(w, type), PopRq(w), Emptied(w),
         NEW f \in Fds
  PROVE  \/ Coming(w, f)' = Coming(w, f)
         \/ /\ Coming(w, f)' = NoConn /\ Coming(w, f) = sess[w][f]
            /\ drops' = 0 => \E i \in 1..Len(sq'[w]) :
                               sq'[w][i] = Blk("CLOSE", f, sess[w][f])
  <1>1. Len(rq'[w]) \in 0..Len(rq'[w]) /\ Len(rq[w]) = Len(rq'[w]) + 1
    BY TakingFacts
  <1>2. \/ After(rq'[w], Len(rq'[w]), f, sess'[w][f])
             = After(rq[w], Len(rq'[w]) + 1, f, sess[w][f])
        \/ /\ After(rq'[w], Len(rq'[w]), f, sess'[w][f]) = NoConn
           /\ After(rq[w], Len(rq'[w]) + 1, f, sess[w][f]) = sess[w][f]
           /\ drops' = 0 => \E i \in 1..Len(sq'[w]) :
                              sq'[w][i] = Blk("CLOSE", f, sess[w][f])
    BY <1>1, EmptiedAfter
  <1> QED BY <1>1, <1>2 DEF Coming

\* What w finds for a block when it comes to it: what it would have found, or
\* nothing.
LEMMA EmptiedFinds ==
  ASSUME Base, NEW w \in Works, NEW type, Taking(w, type), PopRq(w), Emptied(w),
         NEW i \in 1..Len(rq'[w])
  PROVE  /\ i + 1 \in 1..Len(rq[w]) /\ rq'[w][i] = rq[w][i + 1] /\ rq[w][i + 1].fd \in Fds
         /\ After(rq'[w], i - 1, rq'[w][i].fd, sess'[w][rq'[w][i].fd])
              \in {NoConn, After(rq[w], (i + 1) - 1, rq[w][i + 1].fd,
                                 sess[w][rq[w][i + 1].fd])}
  <1>1. /\ Len(rq[w]) \in Nat \ {0} /\ Len(rq'[w]) = Len(rq[w]) - 1
        /\ \A j \in 1..(Len(rq[w]) - 1) : rq'[w][j] = rq[w][j + 1]
        /\ rq[w] \in Seq(Blks)
    BY TakingFacts, BaseParts DEF Rest, Queue
  <1>2. /\ i + 1 \in 1..Len(rq[w]) /\ rq'[w][i] = rq[w][i + 1]
        /\ i - 1 \in 0..Len(rq'[w]) /\ (i + 1) - 1 = (i - 1) + 1
    BY <1>1
  <1>3. rq[w][i + 1] \in Blks
    BY <1>1, <1>2, ElementOfSeq
  <1>4. PICK f \in Fds : f = rq[w][i + 1].fd
    BY <1>3 DEF Blks
  <1>5. After(rq'[w], i - 1, f, sess'[w][f])
          \in {NoConn, After(rq[w], (i - 1) + 1, f, sess[w][f])}
    BY <1>2, EmptiedAfter
  <1> QED BY <1>2, <1>4, <1>5

\* What is common to the steps of work process w: it touches nothing of the
\* others, and takes nothing back that it has asked for.
Own(w) ==
  /\ fdt' = fdt /\ drops <= drops' /\ drops' \in 0..MaxDrops
  /\ \A v \in Works \ {w} : sess'[v] = sess[v] /\ (torn'[v] <=> torn[v])
  /\ \A v \in Works, f \in Fds : \A c : AskedToClose(v, f, c) => AskedToClose(v, f, c)'

LEMMA OwnAgrees ==
  ASSUME Base, Agreed, NEW w \in Works, NEW type, Taking(w, type), PopRq(w), Own(w),
         \/ torn'[w] /\ drops' > 0
         \/ (torn'[w] <=> torn[w]) /\ Emptied(w),
         NoCrossing'
  PROVE  Agreed'
  <1>1. /\ (drops' = 0 => drops = 0) /\ (drops' <= 1 => drops <= 1)
        /\ (drops > 0 => drops' > 0) /\ (drops' = 0 => ~(drops' > 0))
    BY AgreedFacts DEF Own
  <1>2. /\ \A v \in Works \ {w} : rq'[v] = rq[v] /\ sess'[v] = sess[v] /\ (torn'[v] <=> torn[v])
        /\ ~torn[w]
    BY TakingFacts DEF Own
  <1>3. \A v \in Works, f \in Fds : Held(v, f)' = Held(v, f)
    BY DEF Own, Held, IsCli
  <1>4. \A v \in Works \ {w}, f \in Fds : Coming(v, f)' = Coming(v, f)
    BY <1>2 DEF Coming
  <1>5. \A v \in Works \ {w} : OneLoss(v)' => OneLoss(v)
    BY <1>1, <1>2 DEF OneLoss
  <1>6. OneLoss(w)' => OneLoss(w) /\ ~torn'[w]
    BY <1>1, <1>2 DEF OneLoss
  <1>7. /\ drops' = 0 => Emptied(w)
        /\ OneLoss(w)' => Emptied(w)
    BY <1>1, <1>6
  <1>8. SessionsFollowMaster'
    <2> SUFFICES ASSUME drops' = 0, NEW v \in Works, NEW f \in Fds
                 PROVE  \/ Coming(v, f)' = Held(v, f)'
                        \/ Coming(v, f)' = NoConn /\ AskedToClose(v, f, Held(v, f))'
      BY DEF SessionsFollowMaster
    <2>1. \/ Coming(v, f) = Held(v, f)
          \/ Coming(v, f) = NoConn /\ AskedToClose(v, f, Held(v, f))
      BY <1>1 DEF Agreed, SessionsFollowMaster
    <2>2. \A c : c = Held(v, f) /\ AskedToClose(v, f, c)' => AskedToClose(v, f, Held(v, f))'
      BY <1>3 DEF AskedToClose
    <2>3. AskedToClose(v, f, Held(v, f)) => AskedToClose(v, f, Held(v, f))'
      BY <2>2 DEF Own
    <2>4. CASE Coming(v, f)' = Coming(v, f)
      BY <1>3, <2>1, <2>3, <2>4
    <2>5. CASE v = w /\ Coming(v, f)' # Coming(v, f)
      <3>1. /\ Coming(w, f)' = NoConn /\ Coming(w, f) = sess[w][f]
            /\ drops' = 0 => \E i \in 1..Len(sq'[w]) :
                               sq'[w][i] = Blk("CLOSE", f, sess[w][f])
        BY <1>7, <2>5, EmptiedComing
      <3>2. CASE Coming(w, f) = Held(w, f)
        <4>1. sess[w][f] = Held(w, f)'
          BY <1>3, <3>1, <3>2
        <4>2. \E i \in 1..Len(sq'[w]) : sq'[w][i] = Blk("CLOSE", f, Held(w, f)')
          BY <3>1, <4>1
        <4> QED BY <2>5, <3>1, <4>2 DEF AskedToClose
      <3>3. CASE AskedToClose(w, f, Held(w, f))
        BY <2>3, <2>5, <3>1, <3>3
      <3> QED BY <2>1, <2>5, <3>2, <3>3
    <2> QED BY <1>4, <2>4, <2>5
  <1>9. RefusalNeedsLostClose'
    <2>1. \A v \in Works : torn'[v] => torn[v] \/ drops' > 0
      BY <1>2
    <2> QED BY <1>1, <2>1 DEF Agreed, RefusalNeedsLostClose
  <1>10. OpensFindNone'
    <2> SUFFICES ASSUME drops' = 0, NEW v \in Works, NEW i \in 1..Len(rq'[v]),
                        rq'[v][i].type = "OPEN"
                 PROVE  After(rq'[v], i - 1, rq'[v][i].fd, sess'[v][rq'[v][i].fd]) = NoConn
      BY DEF OpensFindNone
    <2>1. CASE v # w
      <3>1. rq'[v] = rq[v] /\ sess'[v] = sess[v]
        BY <1>2, <2>1
      <3> QED BY <1>1, <3>1 DEF Agreed, OpensFindNone
    <2>2. CASE v = w
      <3>1. /\ i + 1 \in 1..Len(rq[w]) /\ rq'[w][i] = rq[w][i + 1]
            /\ After(rq'[w], i - 1, rq'[w][i].fd, sess'[w][rq'[w][i].fd])
                 \in {NoConn, After(rq[w], (i + 1) - 1, rq[w][i + 1].fd,
                                    sess[w][rq[w][i + 1].fd])}
        BY <1>7, <2>2, EmptiedFinds
      <3>2. After(rq[w], (i + 1) - 1, rq[w][i + 1].fd, sess[w][rq[w][i + 1].fd]) = NoConn
        BY <1>1, <2>2, <3>1 DEF Agreed, OpensFindNone
      <3> QED BY <2>2, <3>1, <3>2
    <2> QED BY <2>1, <2>2
  <1>11. RequestsFindOwn'
    <2> SUFFICES ASSUME NEW v \in Works, OneLoss(v)', NEW i \in 1..Len(rq'[v]),
                        rq'[v][i].type = "DATA"
                 PROVE  After(rq'[v], i - 1, rq'[v][i].fd, sess'[v][rq'[v][i].fd])
                          \in {NoConn, rq'[v][i].conn}
      BY DEF RequestsFindOwn
    <2>1. CASE v # w
      <3>1. rq'[v] = rq[v] /\ sess'[v] = sess[v]
        BY <1>2, <2>1
      <3> QED BY <1>5, <2>1, <3>1 DEF Agreed, RequestsFindOwn
    <2>2. CASE v = w
      <3>1. /\ i + 1 \in 1..Len(rq[w]) /\ rq'[w][i] = rq[w][i + 1]
            /\ After(rq'[w], i - 1, rq'[w][i].fd, sess'[w][rq'[w][i].fd])
                 \in {NoConn, After(rq[w], (i + 1) - 1, rq[w][i + 1].fd,
                                    sess[w][rq[w][i + 1].fd])}
        BY <1>7, <2>2, EmptiedFinds
      <3>2. After(rq[w], (i + 1) - 1, rq[w][i + 1].fd, sess[w][rq[w][i + 1].fd])
              \in {NoConn, rq[w][i + 1].conn}
        BY <1>6, <2>2, <3>1 DEF Agreed, RequestsFindOwn
      <3> QED BY <2>2, <3>1, <3>2
    <2> QED BY <2>1, <2>2
  <1>12. ComingIsOwn'
    <2> SUFFICES ASSUME NEW v \in Works, OneLoss(v)', NEW f \in Fds, Held(v, f)' # NoConn
                 PROVE  Coming(v, f)' \in {NoConn, Held(v, f)'}
      BY DEF ComingIsOwn
    <2>1. OneLoss(v)
      BY <1>5, <1>6
    <2>2. Coming(v, f) \in {NoConn, Held(v, f)}
      BY <1>3, <2>1 DEF Agreed, ComingIsOwn
    <2>3. CASE v # w
      BY <1>3, <1>4, <2>2, <2>3
    <2>4. CASE v = w
      <3>1. Coming(w, f)' \in {NoConn, Coming(w, f)}
        BY <1>7, <2>4, EmptiedComing
      <3> QED BY <1>3, <2>2, <2>4, <3>1
    <2> QED BY <2>3, <2>4
  <1> QED BY <1>8, <1>9, <1>10, <1>11, <1>12 DEF Agreed

LEMMA SessionPut ==
  ASSUME NEW x \in [Works -> [Fds -> Conns \cup {NoConn}]], NEW w \in Works,
         NEW y \in Fds, NEW z
  PROVE  /\ [x EXCEPT ![w][y] = z][w][y] = z
         /\ \A f \in Fds \ {y} : [x EXCEPT ![w][y] = z][w][f] = x[w][f]
         /\ \A v \in Works \ {w} : [x EXCEPT ![w][y] = z][v] = x[v]
  OBVIOUS

\* sq only grows.
LEMMA AsksStay ==
  ASSUME NEW w \in Works, \A v \in Works \ {w} : sq'[v] = sq[v],
         NEW X, Extended(sq[w], sq'[w], X)
  PROVE  \A v \in Works, f \in Fds : \A c : AskedToClose(v, f, c) => AskedToClose(v, f, c)'
  <1> SUFFICES ASSUME NEW v \in Works, NEW f \in Fds, NEW c, AskedToClose(v, f, c)
               PROVE  AskedToClose(v, f, c)'
    OBVIOUS
  <1>1. PICK i \in 1..Len(sq[v]) : sq[v][i] = Blk("CLOSE", f, c)
    BY DEF AskedToClose
  <1>2. i \in 1..Len(sq'[v]) /\ sq'[v][i] = sq[v][i]
    <2>1. CASE v = w
      BY <2>1 DEF Extended
    <2>2. CASE v # w
      <3>1. sq'[v] = sq[v]
        BY <2>2
      <3> QED BY <3>1
    <2> QED BY <2>1, <2>2
  <1> QED BY <1>1, <1>2 DEF AskedToClose

\* What is not crossed now is not crossed by a step that leaves it alone.
LEMMA CrossingStays ==
  ASSUME Base, Agreed, drops <= drops', drops' \in 0..MaxDrops, crossed' => crossed
  PROVE  NoCrossing'
  <1>1. drops >= 2 => drops' >= 2
    BY AgreedFacts
  <1> QED BY <1>1 DEF Agreed, NoCrossing, CrossingNeedsTwoLosses

\* do_blk_open, do_blk_close
LEMMA OpenCloseAgrees ==
  ASSUME Base, Agreed, NEW w \in Works, OpenSession(w) \/ CloseSession(w)
  PROVE  Agreed'
  <1>1. PICK type \in {"OPEN", "CLOSE"} : Taking(w, type) /\ PopRq(w)
    BY DEF OpenSession, CloseSession
  <1>2. /\ sess' = [sess EXCEPT ![w][Head(rq[w]).fd] = Result(Head(rq[w]))]
        /\ UNCHANGED <<fdt, sq, torn, drops, crossed>>
    BY DEF OpenSession, CloseSession, Taking, Result, tableVars, flags
  <1>3. /\ Head(rq[w]) = rq[w][1] /\ rq[w][1].type = type /\ rq[w][1].fd \in Fds
        /\ drops \in 0..MaxDrops /\ sess \in [Works -> [Fds -> Conns \cup {NoConn}]]
    BY <1>1, TakingFacts
  <1>4. drops <= drops' /\ drops' \in 0..MaxDrops
    BY <1>2, <1>3, Numbers
  <1> DEFINE y == rq[w][1].fd
             z == Result(rq[w][1])
  <1>5. \A f : Relevant(rq[w][1], f) <=> f = y
    BY <1>3 DEF Relevant
  <1>6. sess' = [sess EXCEPT ![w][y] = z] /\ y \in Fds
    BY <1>2, <1>3
  <1> HIDE DEF y, z
  <1>7. /\ sess'[w][y] = z /\ \A f \in Fds \ {y} : sess'[w][f] = sess[w][f]
        /\ \A v \in Works \ {w} : sess'[v] = sess[v]
    BY <1>3, <1>6, SessionPut
  <1>8. Emptied(w)
    BY <1>5, <1>7 DEF Emptied, z
  <1>9. Own(w)
    <2>1. \A v \in Works, f \in Fds : \A c : AskedToClose(v, f, c) => AskedToClose(v, f, c)'
      BY <1>2 DEF AskedToClose
    <2> QED BY <1>2, <1>4, <1>7, <2>1 DEF Own
  <1>10. NoCrossing'
    BY <1>2, <1>4, CrossingStays
  <1>11. torn'[w] <=> torn[w]
    BY <1>2
  <1> QED BY <1>1, <1>8, <1>9, <1>10, <1>11, OwnAgrees

\* do_blk_open refuses: a push had gone wrong before, or what is in rq would
\* find no session.
LEMMA RefuseAgrees ==
  ASSUME Base, Agreed, NEW w \in Works, RefuseOpen(w)
  PROVE  Agreed'
  <1> DEFINE b == Blk("CLOSE", rq[w][1].fd, rq[w][1].conn)
  <1>1. /\ Taking(w, "OPEN") /\ PopRq(w) /\ sess[w][rq[w][1].fd] # NoConn
        /\ torn' = [torn EXCEPT ![w] = TRUE]
        /\ UNCHANGED tableVars /\ UNCHANGED <<sess, crossed>>
        /\ drops' \in 0..MaxDrops /\ drops <= drops'
        /\ \/ sq' = [sq EXCEPT ![w] = Append(sq[w], b)]
           \/ sq' = sq
    BY RefuseFacts
  <1>2. /\ Rest /\ rq[w][1].type = "OPEN" /\ rq[w][1].fd \in Fds
        /\ rq[w][1].conn \in Conns \cup {NoConn}
        /\ Len(rq[w]) \in Nat \ {0} /\ Queue(sq) /\ sq[w] \in Seq(Blks)
    BY <1>1, TakingFacts
  <1>3. (drops' = 0 => drops = 0) /\ (drops' # 0 => drops' > 0)
    <2>1. drops' # 0 => drops' > 0
      BY <1>1, Numbers
    <2> QED BY <1>1, <2>1, AgreedFacts
  <1>4. drops # 0
    <2> SUFFICES ASSUME drops = 0 PROVE FALSE
      OBVIOUS
    <2>1. 1 \in 1..Len(rq[w])
      BY <1>2
    <2>2. After(rq[w], 1 - 1, rq[w][1].fd, sess[w][rq[w][1].fd]) = NoConn
      BY <1>2, <2>1 DEF Agreed, OpensFindNone
    <2>3. After(rq[w], 0, rq[w][1].fd, sess[w][rq[w][1].fd]) = sess[w][rq[w][1].fd]
      BY AfterNothing
    <2> QED BY <1>1, <2>2, <2>3
  <1>5. drops' > 0
    BY <1>3, <1>4
  <1>6. torn'[w] /\ \A v \in Works \ {w} : torn'[v] <=> torn[v]
    BY <1>1, <1>2 DEF Rest
  <1>7. b \in Blks
    BY <1>2, BlkFacts
  <1> HIDE DEF b
  <1>8. \A v \in Works, f \in Fds : \A c : AskedToClose(v, f, c) => AskedToClose(v, f, c)'
    <2>1. CASE sq' = sq
      BY <2>1 DEF AskedToClose
    <2>2. CASE sq' = [sq EXCEPT ![w] = Append(sq[w], b)]
      <3>1. sq'[w] = Append(sq[w], b) /\ \A v \in Works \ {w} : sq'[v] = sq[v]
        BY <1>2, <2>2 DEF Queue
      <3>2. Extended(sq[w], sq'[w], {b})
        BY <1>2, <1>7, <3>1, AppendExtends
      <3> QED BY <3>1, <3>2, AsksStay
    <2> QED BY <1>1, <2>1, <2>2
  <1>9. fdt' = fdt
    BY <1>1 DEF tableVars
  <1>10. \A v \in Works \ {w} : sess'[v] = sess[v]
    BY <1>1
  <1>11. Own(w)
    BY <1>1, <1>6, <1>8, <1>9, <1>10 DEF Own
  <1>12. NoCrossing'
    BY <1>1, CrossingStays
  <1> QED BY <1>1, <1>5, <1>6, <1>11, <1>12, OwnAgrees

\* do_blk_msg
LEMMA ProcessAgrees ==
  ASSUME Base, Agreed, NEW w \in Works, Process(w)
  PROVE  Agreed'
  <1> DEFINE y == rq[w][1].fd
             s == sess[w][y]
             both == {Blk(t, y, s) : t \in {"DATA", "CLOSE"}}
             asked == \E i \in 1..Len(sq'[w]) : sq'[w][i] = Blk("CLOSE", y, s)
  <1>1. /\ Taking(w, "DATA") /\ PopRq(w) /\ UNCHANGED tableVars /\ UNCHANGED torn
        /\ \/ UNCHANGED <<sq, sess, drops, crossed>>
           \/ /\ s # NoConn /\ drops' \in 0..MaxDrops /\ drops <= drops'
              /\ \A v \in Works \ {w} : sq'[v] = sq[v]
              /\ Extended(sq[w], sq'[w], both)
              /\ \/ sess' = sess
                 \/ sess' = [sess EXCEPT ![w][y] = NoConn] /\ (drops' = 0 => asked)
              /\ crossed' = (crossed \/ s # rq[w][1].conn)
    BY ProcessFacts
  <1>2. /\ rq[w][1].type = "DATA" /\ y \in Fds /\ ~torn[w] /\ drops \in 0..MaxDrops
        /\ Len(rq[w]) \in Nat \ {0} /\ sess \in [Works -> [Fds -> Conns \cup {NoConn}]]
    BY <1>1, TakingFacts
  <1>3. drops <= drops' /\ drops' \in 0..MaxDrops
    <2>1. drops <= drops
      BY <1>2, Numbers
    <2> QED BY <1>1, <1>2, <2>1
  <1>4. \A f : ~Relevant(rq[w][1], f)
    BY <1>2 DEF Relevant
  <1>5. OneLoss(w) => s \in {NoConn, rq[w][1].conn}
    <2> SUFFICES ASSUME OneLoss(w) PROVE s \in {NoConn, rq[w][1].conn}
      OBVIOUS
    <2>1. 1 \in 1..Len(rq[w])
      BY <1>2
    <2>2. After(rq[w], 1 - 1, y, s) \in {NoConn, rq[w][1].conn}
      BY <1>2, <2>1 DEF Agreed, RequestsFindOwn
    <2>3. After(rq[w], 0, y, s) = s
      BY AfterNothing
    <2> QED BY <2>2, <2>3
  <1>6. NoCrossing'
    <2>1. CASE OneLoss(w)
      <3>1. crossed' => crossed
        BY <1>1, <1>5, <2>1
      <3> QED BY <1>3, <3>1, CrossingStays
    <2>2. CASE ~OneLoss(w)
      <3>1. MaxDrops > 1 => ~(drops <= 1)
        BY <1>2, <2>2 DEF OneLoss
      <3>2. MaxDrops > 1 => drops' >= 2
        BY <1>2, <1>3, <3>1, Numbers
      <3> QED BY <3>2 DEF NoCrossing, CrossingNeedsTwoLosses
    <2> QED BY <2>1, <2>2
  <1>7. \A v \in Works, f \in Fds : \A c : AskedToClose(v, f, c) => AskedToClose(v, f, c)'
    <2>1. CASE sq' = sq
      BY <2>1 DEF AskedToClose
    <2>2. CASE sq' # sq
      BY <1>1, <2>2, AsksStay
    <2> QED BY <2>1, <2>2
  <1>8. Emptied(w) /\ \A v \in Works \ {w} : sess'[v] = sess[v]
    <2>1. CASE sess' = sess
      BY <1>4, <2>1 DEF Emptied
    <2>2. CASE sess' = [sess EXCEPT ![w][y] = NoConn] /\ (drops' = 0 => asked)
      <3> HIDE DEF y
      <3>1. /\ sess'[w][y] = NoConn /\ \A f \in Fds \ {y} : sess'[w][f] = sess[w][f]
            /\ \A v \in Works \ {w} : sess'[v] = sess[v]
        BY <1>2, <2>2, SessionPut
      <3> QED BY <1>4, <2>2, <3>1 DEF Emptied
    <2> QED BY <1>1, <2>1, <2>2
  <1>9. fdt' = fdt /\ \A v \in Works : torn'[v] <=> torn[v]
    BY <1>1 DEF tableVars
  <1>10. Own(w)
    BY <1>3, <1>7, <1>8, <1>9 DEF Own
  <1> QED BY <1>1, <1>6, <1>8, <1>9, <1>10, OwnAgrees

LEMMA StepAgreed ==
  ASSUME Base, Agreed, [Next]_vars
  PROVE  Agreed'
  <1>1. drops' \in 0..MaxDrops
    BY StepBase, BaseParts DEF Base, TypeOK
  <1>2. ASSUME NEW fd \in Fds, Passed(fd) \/ Closed(fd) PROVE Agreed'
    BY <1>1, <1>2, PassedAgrees, ClosedAgrees
  <1>3. ASSUME NEW w \in Works, WorkStep(w) PROVE Agreed'
    BY <1>3, OpenCloseAgrees, RefuseAgrees, ProcessAgrees DEF WorkStep
  <1> QED BY <1>2, <1>3, StepKinds, QuietAgrees, TakenAgrees

LEMMA InitAgreed ==
  ASSUME Init
  PROVE  Agreed
  <1>1. /\ Len(<<>>) = 0 /\ 0 \in Nat
        /\ \A w \in Works : Len(rq[w]) = 0 /\ ~torn[w]
        /\ ~crossed
        /\ \A w \in Works, fd \in Fds : sess[w][fd] = NoConn /\ ~IsCli(fd)
    BY DEF Init, IsCli, Entry
  <1>2. \A w \in Works, fd \in Fds : Coming(w, fd) = NoConn /\ Held(w, fd) = NoConn
    <2> SUFFICES ASSUME NEW w \in Works, NEW fd \in Fds
                 PROVE  Coming(w, fd) = NoConn /\ Held(w, fd) = NoConn
      OBVIOUS
    <2>1. After(rq[w], 0, fd, sess[w][fd]) = sess[w][fd]
      BY AfterNothing
    <2> QED BY <1>1, <2>1 DEF Coming, Held
  <1>3. \A w \in Works : 1..Len(rq[w]) = {}
    BY <1>1
  <1>4. SessionsFollowMaster /\ ComingIsOwn
    BY <1>2 DEF SessionsFollowMaster, ComingIsOwn
  <1>5. OpensFindNone /\ RequestsFindOwn
    BY <1>3 DEF OpensFindNone, RequestsFindOwn
  <1>6. RefusalNeedsLostClose /\ NoCrossing
    BY <1>1 DEF RefusalNeedsLostClose, NoCrossing, CrossingNeedsTwoLosses
  <1> QED BY <1>4, <1>5, <1>6 DEF Agreed

\* The inductive invariant of SessionInv holds of every reachable state of the
\* two sides: the table, the meaning of the blocks and the sessions, and how
\* far the two sides have come apart after no loss and after one.
THEOREM SessionInvariant == Spec => []IInv
  <1>1. Init => IInv
    <2>1. Init => \A w \in Works : w \in open /\ fdt[w].type = "listen"
      BY Numbers DEF Init, Entry
    <2> QED BY <2>1, InitBase, InitMeant, InitAgreed DEF IInv, ListenersStayUntilFailure
  <1>2. IInv /\ [Next]_vars => IInv'
    BY StepBase, StepListeners, StepMeant, StepAgreed DEF IInv
  <1> QED BY <1>1, <1>2, PTL DEF Spec

\* As long as every push has queued its block, the sessions of a work process
\* are, up to what is still in its queue, those of the connections the master
\* holds for it (do_fd_open, do_fd_close, do_blk_open, do_blk_close, close_cli).
THEOREM SessionsFollow == Spec => []SessionsFollowMaster
  <1>1. IInv => SessionsFollowMaster
    BY DEF IInv, Agreed
  <1> QED BY <1>1, SessionInvariant, PTL

\* No work process rewrites a block in place (work.c:263-264) unless a push has
\* gone wrong before.
THEOREM RefusalNeedsLoss == Spec => []RefusalNeedsLostClose
  <1>1. IInv => RefusalNeedsLostClose
    BY DEF IInv, Agreed
  <1> QED BY <1>1, SessionInvariant, PTL

\* One push that goes wrong never makes a work process serve a request in the
\* session of another client (do_blk_msg).  MaxDrops is where the history drops
\* stops counting: it has to count to two for this to say anything.
THEOREM CrossingNeedsTwo ==
  ASSUME MaxDrops > 1
  PROVE  Spec => []CrossingNeedsTwoLosses
  <1>1. IInv => CrossingNeedsTwoLosses
    BY DEF IInv, Agreed, NoCrossing
  <1> QED BY <1>1, SessionInvariant, PTL

=============================================================================
