----------------------------- MODULE Services -----------------------------
(***************************************************************************)
(* What the work processes tell each other by multicast: where each        *)
(* service can be reached, kept by every work process in g_servs, and      *)
(* requests to load another version of the plugin.                         *)
(*                                                                         *)
(* A datagram is in the air until it vanishes.  Meanwhile every work       *)
(* process may receive it once, again, late, behind a younger one, or not  *)
(* at all; nothing is acknowledged or repeated, except that addresses are  *)
(* announced every 1 to 10 seconds.  do_del_expired_addr is empty, so that *)
(* no action takes the address of a silent service out of a cache.         *)
(*                                                                         *)
(* A datagram comes whole, or too short for its header.  do_proc_mcast     *)
(* checks no more than the header; one cut behind it, which nobody in this *)
(* repository sends, would be handled with the rest of the packet before   *)
(* it, and is left out.                                                    *)
(*                                                                         *)
(* A plugin is one of Sos.  dlclose unmaps it, so that calling it later    *)
(* kills the process; master and every new work process run Startup.       *)
(***************************************************************************)
EXTENDS Integers, FiniteSets

CONSTANTS
  Works,     \* ids of the work processes modelled, all of service srv_name
  Others,    \* announcers elsewhere, of this or of other services
  NoAddr,    \* no address
  Sos,       \* plugin files
  Startup,   \* text_so of the configuration
  Places,    \* bound: addresses an announcer elsewhere moves between
  MaxFds,    \* descriptors a work process can lose before socket fails
  MaxReload, \* bound: reload requests
  MaxShort   \* bound: datagrams too short for a header (1 to 4 bytes)

ASSUME ServicesAssumption ==
  /\ 0 \notin Works /\ Works \cap Others = {}
  /\ Startup \in Sos /\ Places \in Nat /\ MaxFds \in Nat /\ MaxReload \in Nat /\ MaxShort \in Nat

VARIABLES
  at,       \* where each announcer elsewhere is, NoAddr while it is silent
  net,      \* the datagrams in the air
  cache,    \* g_servs of each work process, an entry per name and id
  plug,     \* what its callbacks point to: a plugin, or "closed"; "mute" is
            \* closed and without handle_timer
  up,       \* it runs
  last,     \* the packet in the static buffer of do_proc_mcast
  leaked,   \* sockets send_pkg_to_mcast left open
  requests, shorts,
  wanted    \* history, read by no action: requests so far

proc == <<cache, plug, up, last, leaked>>
vars == <<at, net, proc, requests, shorts, wanted>>

Shut == {"closed", "mute"}

Keys == Works \cup Others

\* An address is told by its owner and a number; a work process has the one of
\* its configuration.
Addr(k) == {[of |-> k, place |-> n] : n \in (IF k \in Works THEN {1} ELSE 1..Places)}
Addrs == UNION {Addr(k) : k \in Keys}
Home(w) == [of |-> w, place |-> 1]

ASSUME NoAddrAssumption == NoAddr \notin Addrs

Noti(k, a) == [type |-> "noti", key |-> k, addr |-> a]
Reload(own, id, so) == [type |-> "reload", own |-> own, id |-> id, so |-> so]
Other == [type |-> "other"]

Unknown == [k \in Keys |-> NoAddr]

Init ==
  /\ at = [k \in Others |-> NoAddr] /\ net = {}
  /\ cache = [w \in Works |-> Unknown]
  /\ plug = [w \in Works |-> Startup] /\ up = [w \in Works |-> TRUE]
  /\ last = [w \in Works |-> Other] /\ leaked = [w \in Works |-> 0]
  /\ requests = 0 /\ shorts = 0
  /\ wanted = {}

-----------------------------------------------------------------------------
\* do_syn_serv_addr and send_pkg_to_mcast

Announce(w) ==
  /\ up[w] /\ leaked[w] < MaxFds
  /\ net' = net \cup {Noti(w, Home(w))}
  /\ UNCHANGED <<at, proc, requests, shorts, wanted>>

\* An option cannot be set or sendto fails: the socket stays open.
AnnounceFails(w) ==
  /\ up[w] /\ leaked[w] < MaxFds
  /\ leaked' = [leaked EXCEPT ![w] = @ + 1]
  /\ UNCHANGED <<at, net, cache, plug, up, last, requests, shorts, wanted>>

-----------------------------------------------------------------------------
\* do_proc_mcast: what a packet does.

\* Mistake: the entry is looked up by name alone.
Bug_ByName(w, d) ==
  /\ d.type = "noti"
  /\ cache' = [cache EXCEPT ![w] = [k \in Keys |-> IF k = d.key \/ @[k] # NoAddr THEN d.addr ELSE @[k]]]
  /\ UNCHANGED <<plug, up>>

\* Mistake: an entry that is there is left as it is.
Bug_NoUpdate(w, d) ==
  /\ d.type = "noti"
  /\ cache' = [cache EXCEPT ![w][d.key] = IF @ = NoAddr THEN d.addr ELSE @]
  /\ UNCHANGED <<plug, up>>

\* add_serv_to_cach
Learn(w, d) ==
  /\ d.type = "noti"
  /\ cache' = [cache EXCEPT ![w][d.key] = d.addr]
  /\ UNCHANGED <<plug, up>>

\* Mistake: a request that names a work process is taken by all.
Bug_AnyId(w, d) == d.own

\* Is the request for this service, and for this process or all?
ForMe(w, d) == d.own /\ (d.id = 0 \/ d.id = w)

\* unreg_so and reg_so: the old plugin is closed first.  If the new one cannot
\* be loaded the callbacks keep their old values; if it lacks a function that
\* callback is cleared, and the others point into this plugin or the last one,
\* both closed.
Loaded(so) == {so} \cup Shut

\* do_mcast_realod_so: nothing, if it is for others or the file cannot be read.
DoReload(w, d) ==
  /\ d.type = "reload"
  /\ \/ UNCHANGED plug
     \/ \E p \in Loaded(d.so) : ForMe(w, d) /\ plug' = [plug EXCEPT ![w] = p]
  /\ UNCHANGED <<cache, up>>

\* do_mcast_other_req calls the plugin, if it has a function for it.
Ask(w, d) ==
  /\ d.type = "other"
  /\ \/ UNCHANGED up
     \/ plug[w] \in Shut /\ up' = [up EXCEPT ![w] = FALSE]
  /\ UNCHANGED <<cache, plug>>

Handle(w, d) == Learn(w, d) \/ DoReload(w, d) \/ Ask(w, d)

Receive(w, d) ==
  /\ up[w] /\ d \in net
  /\ last' = [last EXCEPT ![w] = d]
  /\ Handle(w, d)
  /\ UNCHANGED <<at, net, leaked, requests, shorts, wanted>>

\* Mistake: the short datagram is handled as if it were whole.
Bug_TakesShort(w) ==
  /\ up[w] /\ shorts < MaxShort
  /\ shorts' = shorts + 1
  /\ last' = [last EXCEPT ![w] = [type |-> "short"]]
  /\ UNCHANGED <<at, net, cache, plug, up, leaked, requests, wanted>>

\* A datagram too short for the header overwrites at most the length, which
\* nothing reads.  It is reported, and then the packet that was in the buffer
\* before is handled once more.
ReceiveShort(w) ==
  /\ up[w] /\ shorts < MaxShort
  /\ shorts' = shorts + 1
  /\ Handle(w, last[w])
  /\ UNCHANGED <<at, net, last, leaked, requests, wanted>>

\* Mistake: no callback is called while there is no handle.
Bug_ChecksHandle(w) ==
  /\ up[w] /\ plug[w] = "closed"
  /\ UNCHANGED vars

\* handle_timer of the plugin is called in every round of work_dispatch.
Tick(w) ==
  /\ up[w] /\ plug[w] = "closed"
  /\ up' = [up EXCEPT ![w] = FALSE]
  /\ UNCHANGED <<at, net, cache, plug, last, leaked, requests, shorts, wanted>>

\* The master starts a new process: its own plugin, an empty cache.
Restart(w) ==
  /\ ~up[w]
  /\ up' = [up EXCEPT ![w] = TRUE]
  /\ plug' = [plug EXCEPT ![w] = Startup]
  /\ cache' = [cache EXCEPT ![w] = Unknown]
  /\ last' = [last EXCEPT ![w] = Other] /\ leaked' = [leaked EXCEPT ![w] = 0]
  /\ UNCHANGED <<at, net, requests, shorts, wanted>>

-----------------------------------------------------------------------------
\* The other announcers, whoever asks for a reload, and the network.

Move(k, a) ==
  /\ at[k] # a
  /\ at' = [at EXCEPT ![k] = a]
  /\ UNCHANGED <<net, proc, requests, shorts, wanted>>

AnnounceOther(k) ==
  /\ at[k] # NoAddr
  /\ net' = net \cup {Noti(k, at[k])}
  /\ UNCHANGED <<at, proc, requests, shorts, wanted>>

Request(d) ==
  /\ requests < MaxReload
  /\ requests' = requests + 1
  /\ net' = net \cup {d}
  /\ wanted' = wanted \cup {d}
  /\ UNCHANGED <<at, proc, shorts>>

\* Other types are for the plugins, MCAST_RELOAD_CONF among them.
SendOther ==
  /\ Other \notin net
  /\ net' = net \cup {Other}
  /\ UNCHANGED <<at, proc, requests, shorts, wanted>>

Vanish(d) ==
  /\ d \in net
  /\ net' = net \ {d}
  /\ UNCHANGED <<at, proc, requests, shorts, wanted>>

Notis == UNION {{Noti(k, a) : a \in Addr(k)} : k \in Keys}
\* What a request for another service names beside it makes no difference.
Reloads ==
  {Reload(TRUE, id, so) : id \in {0} \cup Keys, so \in Sos}
  \cup {Reload(FALSE, 0, so) : so \in Sos}
Packets == Notis \cup Reloads \cup {Other}

Next ==
  \/ \E w \in Works :
       \/ Announce(w) \/ AnnounceFails(w) \/ ReceiveShort(w) \/ Tick(w) \/ Restart(w)
       \/ \E d \in net : Receive(w, d)
  \/ \E k \in Others : AnnounceOther(k) \/ \E a \in Addr(k) \cup {NoAddr} : Move(k, a)
  \/ \E d \in Reloads : Request(d)
  \/ SendOther
  \/ \E d \in net : Vanish(d)

Spec == Init /\ [][Next]_vars

\* The loops go round and the master restarts; announcements go on, no
\* datagram stays in the air for ever, and one that is sent again and again
\* gets through.
FairSpec ==
  /\ Spec
  /\ \A w \in Works : SF_vars(Announce(w)) /\ WF_vars(Tick(w)) /\ WF_vars(Restart(w))
  /\ \A k \in Others : WF_vars(AnnounceOther(k))
  /\ \A d \in Notis \cup {Other} : WF_vars(Vanish(d))
  /\ WF_vars(\E d \in Reloads : Vanish(d))
  /\ \A w \in Works, d \in Notis : SF_vars(Receive(w, d))
=============================================================================
