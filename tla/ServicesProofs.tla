-------------------------- MODULE ServicesProofs --------------------------
(***************************************************************************)
(* Proofs about the caches and plugins of the work processes, for every    *)
(* number of work processes, announcers, addresses, plugins and datagrams. *)
(***************************************************************************)
EXTENDS ServicesInv, TLAPS

\* An announcement tells an address of the one it names; a request names a
\* plugin.
LEMMA PacketFacts ==
  ASSUME NEW d \in Packets
  PROVE  /\ d.type = "noti" => d.key \in Keys /\ d.addr \in Addr(d.key) /\ d.addr \in Addrs
         /\ d.type = "reload" => d \in Reloads /\ d.so \in Sos
  <1>1. CASE d \in Notis
    <2>1. PICK k \in Keys : d \in {Noti(k, a) : a \in Addr(k)}
      BY <1>1 DEF Notis
    <2>2. PICK a \in Addr(k) : d = Noti(k, a)
      BY <2>1
    <2> QED BY <2>2 DEF Noti, Addrs
  <1>2. CASE d \in Reloads
    <2>1. d.type = "reload" /\ d.so \in Sos
      BY <1>2 DEF Reloads, Reload
    <2> QED BY <1>2, <2>1
  <1>3. CASE d = Other
    BY <1>3 DEF Other
  <1> QED BY <1>1, <1>2, <1>3 DEF Packets

\* What a work process sends about itself is a packet.
LEMMA OwnPackets ==
  /\ \A k \in Keys : \A a \in Addr(k) : Noti(k, a) \in Packets
  /\ \A w \in Works : Home(w) \in Addr(w)
  /\ Other \in Packets /\ Other.type = "other"
  BY DEF Packets, Notis, Home, Addr, Other

\* IInv speaks of no plug, cache or up but those of TypeOK, CacheIsTrue and
\* PluginWasWanted: what Handle does to the rest of it is nothing.
LEMMA HandleKeeps ==
  ASSUME IInv, NEW w \in Works, NEW d \in Packets, Handle(w, d),
         d.type = "reload" => d \in wanted,
         UNCHANGED wanted
  PROVE  /\ cache' \in [Works -> [Keys -> Addrs \cup {NoAddr}]]
         /\ plug' \in [Works -> Sos \cup Shut] /\ up' \in [Works -> BOOLEAN]
         /\ CacheIsTrue' /\ PluginWasWanted'
  <1>1. CASE Learn(w, d)
    <2>1. d.key \in Keys /\ d.addr \in Addr(d.key) /\ d.addr \in Addrs
      BY <1>1, PacketFacts DEF Learn
    <2>2. cache' \in [Works -> [Keys -> Addrs \cup {NoAddr}]] /\ CacheIsTrue'
      BY <1>1, <2>1 DEF Learn, IInv, TypeOK, CacheIsTrue
    <2> QED BY <1>1, <2>2 DEF Learn, IInv, TypeOK, PluginWasWanted
  <1>2. CASE DoReload(w, d)
    <2>1. CASE UNCHANGED plug
      BY <1>2, <2>1 DEF DoReload, IInv, TypeOK, CacheIsTrue, PluginWasWanted
    <2>2. CASE \E p \in Loaded(d.so) : ForMe(w, d) /\ plug' = [plug EXCEPT ![w] = p]
      <3>1. PICK p \in Loaded(d.so) : ForMe(w, d) /\ plug' = [plug EXCEPT ![w] = p]
        BY <2>2
      <3>2. d \in wanted /\ d.so \in Sos
        BY <1>2, PacketFacts DEF DoReload
      <3>3. p \in Shut \/ p = d.so
        BY DEF Loaded
      <3>4. d.own /\ d.id \in {0, w}
        BY <3>1 DEF ForMe
      <3>5. PluginWasWanted'
        <4> SUFFICES ASSUME NEW v \in Works
                     PROVE  plug'[v] \in {Startup} \cup Shut \cup
                              {r.so : r \in {q \in wanted : q.own /\ q.id \in {0, v}}}
          BY DEF PluginWasWanted
        <4>1. CASE v = w
          <5>1. plug'[v] = p
            BY <3>1, <4>1 DEF IInv, TypeOK
          <5>2. d.so \in {r.so : r \in {q \in wanted : q.own /\ q.id \in {0, v}}}
            BY <3>2, <3>4, <4>1
          <5> QED BY <5>1, <5>2, <3>3
        <4>2. CASE v # w
          <5>1. plug'[v] = plug[v]
            BY <3>1, <4>2 DEF IInv, TypeOK
          <5> QED BY <5>1 DEF IInv, PluginWasWanted
        <4> QED BY <4>1, <4>2
      <3>6. plug' \in [Works -> Sos \cup Shut]
        BY <3>1, <3>2, <3>3 DEF IInv, TypeOK
      <3> QED BY <1>2, <3>5, <3>6 DEF DoReload, IInv, TypeOK, CacheIsTrue
    <2> QED BY <1>2, <2>1, <2>2 DEF DoReload
  <1>3. CASE Ask(w, d)
    BY <1>3 DEF Ask, IInv, TypeOK, CacheIsTrue, PluginWasWanted
  <1> QED BY <1>1, <1>2, <1>3 DEF Handle

LEMMA AnnounceKeeps ==
  ASSUME IInv, NEW w \in Works, Announce(w)
  PROVE  IInv'
  <1>1. Noti(w, Home(w)) \in Packets
    BY OwnPackets DEF Keys
  <1>2. TypeOK'
    BY <1>1 DEF Announce, IInv, TypeOK, proc
  <1>3. RequestsMade'
    BY DEF Announce, IInv, RequestsMade, proc, Noti
  <1> QED
    BY <1>2, <1>3 DEF Announce, IInv, CacheIsTrue, PluginWasWanted, OwnAddress, proc

LEMMA AnnounceFailsKeeps ==
  ASSUME IInv, NEW w \in Works, AnnounceFails(w)
  PROVE  IInv'
  <1>1. leaked' \in [Works -> 0..MaxFds]
    <2>1. leaked[w] + 1 \in 0..MaxFds
      BY ServicesAssumption DEF AnnounceFails, IInv, TypeOK
    <2> QED BY <2>1 DEF AnnounceFails, IInv, TypeOK
  <1> QED
    BY <1>1 DEF AnnounceFails, IInv, TypeOK, CacheIsTrue, PluginWasWanted, OwnAddress,
       RequestsMade

LEMMA ReceiveKeeps ==
  ASSUME IInv, NEW w \in Works, NEW d \in net, Receive(w, d)
  PROVE  IInv'
  <1>1. d \in Packets /\ (d.type = "reload" => d \in wanted)
    BY DEF IInv, TypeOK, RequestsMade
  <1>2. /\ cache' \in [Works -> [Keys -> Addrs \cup {NoAddr}]]
        /\ plug' \in [Works -> Sos \cup Shut] /\ up' \in [Works -> BOOLEAN]
        /\ CacheIsTrue' /\ PluginWasWanted'
    BY <1>1, HandleKeeps DEF Receive
  <1>3. TypeOK'
    BY <1>1, <1>2 DEF Receive, IInv, TypeOK
  <1>4. RequestsMade'
    <2>1. \A v \in Works : last'[v] = d \/ last'[v] = last[v]
      BY DEF Receive, IInv, TypeOK
    <2> QED BY <2>1 DEF Receive, IInv, RequestsMade
  <1> QED BY <1>2, <1>3, <1>4 DEF Receive, IInv, OwnAddress

LEMMA ReceiveShortKeeps ==
  ASSUME IInv, NEW w \in Works, ReceiveShort(w)
  PROVE  IInv'
  <1>1. last[w] \in Packets /\ (last[w].type = "reload" => last[w] \in wanted)
    BY DEF IInv, TypeOK, RequestsMade
  <1>2. /\ cache' \in [Works -> [Keys -> Addrs \cup {NoAddr}]]
        /\ plug' \in [Works -> Sos \cup Shut] /\ up' \in [Works -> BOOLEAN]
        /\ CacheIsTrue' /\ PluginWasWanted'
    BY <1>1, HandleKeeps DEF ReceiveShort
  <1>3. shorts' \in 0..MaxShort
    BY ServicesAssumption DEF ReceiveShort, IInv, TypeOK
  <1>4. TypeOK'
    BY <1>2, <1>3 DEF ReceiveShort, IInv, TypeOK
  <1> QED BY <1>2, <1>4 DEF ReceiveShort, IInv, OwnAddress, RequestsMade

LEMMA TickKeeps ==
  ASSUME IInv, NEW w \in Works, Tick(w)
  PROVE  IInv'
  BY DEF Tick, IInv, TypeOK, CacheIsTrue, PluginWasWanted, OwnAddress, RequestsMade

LEMMA RestartKeeps ==
  ASSUME IInv, NEW w \in Works, Restart(w)
  PROVE  IInv'
  <1>1. TypeOK'
    BY ServicesAssumption, OwnPackets DEF Restart, IInv, TypeOK, Unknown
  <1>2. CacheIsTrue'
    BY DEF Restart, IInv, TypeOK, CacheIsTrue, Unknown
  <1>3. PluginWasWanted'
    BY DEF Restart, IInv, TypeOK, PluginWasWanted
  <1>4. RequestsMade'
    <2>1. \A v \in Works : last'[v] = Other \/ last'[v] = last[v]
      BY DEF Restart, IInv, TypeOK
    <2> QED BY <2>1, OwnPackets DEF Restart, IInv, RequestsMade
  <1> QED BY <1>1, <1>2, <1>3, <1>4 DEF Restart, IInv, OwnAddress

-----------------------------------------------------------------------------
\* The other announcers, the requests and the network.

LEMMA MoveKeeps ==
  ASSUME IInv, NEW k \in Others, NEW a \in Addr(k) \cup {NoAddr}, Move(k, a)
  PROVE  IInv'
  <1>1. a \in Addrs \cup {NoAddr}
    BY DEF Addrs, Keys
  <1>2. TypeOK' /\ OwnAddress'
    BY <1>1 DEF Move, IInv, TypeOK, OwnAddress, proc
  <1> QED BY <1>2 DEF Move, IInv, CacheIsTrue, PluginWasWanted, RequestsMade, proc

LEMMA AnnounceOtherKeeps ==
  ASSUME IInv, NEW k \in Others, AnnounceOther(k)
  PROVE  IInv'
  <1>1. Noti(k, at[k]) \in Packets
    BY OwnPackets DEF AnnounceOther, IInv, OwnAddress, Keys
  <1>2. TypeOK'
    BY <1>1 DEF AnnounceOther, IInv, TypeOK, proc
  <1>3. RequestsMade'
    BY DEF AnnounceOther, IInv, RequestsMade, proc, Noti
  <1> QED
    BY <1>2, <1>3 DEF AnnounceOther, IInv, CacheIsTrue, PluginWasWanted, OwnAddress, proc

LEMMA RequestKeeps ==
  ASSUME IInv, NEW d \in Reloads, Request(d)
  PROVE  IInv'
  <1>1. d \in Packets
    BY DEF Packets
  <1>2. requests' \in 0..MaxReload
    BY ServicesAssumption DEF Request, IInv, TypeOK
  <1>3. TypeOK'
    BY <1>1, <1>2 DEF Request, IInv, TypeOK, proc
  <1>4. PluginWasWanted'
    BY DEF Request, IInv, PluginWasWanted, proc
  <1>5. RequestsMade'
    BY DEF Request, IInv, RequestsMade, proc
  <1> QED BY <1>3, <1>4, <1>5 DEF Request, IInv, CacheIsTrue, OwnAddress, proc

LEMMA SendOtherKeeps ==
  ASSUME IInv, SendOther
  PROVE  IInv'
  BY OwnPackets DEF SendOther, IInv, TypeOK, CacheIsTrue, PluginWasWanted, OwnAddress,
     RequestsMade, proc

LEMMA VanishKeeps ==
  ASSUME IInv, NEW d \in net, Vanish(d)
  PROVE  IInv'
  BY DEF Vanish, IInv, TypeOK, CacheIsTrue, PluginWasWanted, OwnAddress, RequestsMade, proc

-----------------------------------------------------------------------------

\* The processes start with their own plugin and an empty cache (work_init).
LEMMA InitIInv == Init => IInv
  <1> SUFFICES ASSUME Init PROVE IInv
    OBVIOUS
  <1>1. TypeOK
    BY ServicesAssumption, OwnPackets DEF Init, TypeOK, Unknown
  <1>2. RequestsMade
    BY OwnPackets DEF Init, RequestsMade
  <1> QED
    BY <1>1, <1>2 DEF Init, IInv, CacheIsTrue, PluginWasWanted, OwnAddress, Unknown

\* Every step keeps the inductive invariant.
LEMMA NextIInv == IInv /\ [Next]_vars => IInv'
  <1> SUFFICES ASSUME IInv, [Next]_vars PROVE IInv'
    OBVIOUS
  <1>1. ASSUME NEW w \in Works,
               \/ Announce(w) \/ AnnounceFails(w) \/ ReceiveShort(w) \/ Tick(w) \/ Restart(w)
               \/ \E d \in net : Receive(w, d)
        PROVE  IInv'
    BY <1>1, AnnounceKeeps, AnnounceFailsKeeps, ReceiveKeeps, ReceiveShortKeeps, TickKeeps,
       RestartKeeps
  <1>2. ASSUME NEW k \in Others,
               AnnounceOther(k) \/ \E a \in Addr(k) \cup {NoAddr} : Move(k, a)
        PROVE  IInv'
    BY <1>2, AnnounceOtherKeeps, MoveKeeps
  <1>3. CASE \E d \in Reloads : Request(d)
    BY <1>3, RequestKeeps
  <1>4. CASE SendOther
    BY <1>4, SendOtherKeeps
  <1>5. CASE \E d \in net : Vanish(d)
    BY <1>5, VanishKeeps
  <1>6. CASE UNCHANGED vars
    BY <1>6 DEF vars, proc, IInv, TypeOK, CacheIsTrue, PluginWasWanted, OwnAddress, RequestsMade
  <1> QED BY <1>1, <1>2, <1>3, <1>4, <1>5, <1>6 DEF Next

LEMMA Invariance == Spec => []IInv
  BY InitIInv, NextIInv, PTL DEF Spec

\* The variables hold values of their kinds, and the static buffer of
\* do_proc_mcast a whole packet.
THEOREM TypeCorrect == Spec => []TypeOK
  <1>1. IInv => TypeOK
    BY DEF IInv
  <1> QED BY Invariance, <1>1, PTL

\* An address in a cache is one of this very service and id (add_serv_to_cach).
THEOREM CacheTrue == Spec => []CacheIsTrue
  <1>1. IInv => CacheIsTrue
    BY DEF IInv
  <1> QED BY Invariance, <1>1, PTL

\* A work process runs no plugin but its first and those requested of it or of
\* all (do_mcast_realod_so).
THEOREM PluginWanted == Spec => []PluginWasWanted
  <1>1. IInv => PluginWasWanted
    BY DEF IInv
  <1> QED BY Invariance, <1>1, PTL

=============================================================================
