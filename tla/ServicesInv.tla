---------------------------- MODULE ServicesInv ----------------------------
(***************************************************************************)
(* What Services.tla is to satisfy.                                        *)
(***************************************************************************)
EXTENDS Services

\* Every variable holds a value of its kind; what lies in the static buffer is
\* always a whole packet, since a datagram too short for a header does not reach
\* the type and the data behind it (work.c:332-339).
TypeOK ==
  /\ at \in [Others -> Addrs \cup {NoAddr}] /\ net \subseteq Packets
  /\ cache \in [Works -> [Keys -> Addrs \cup {NoAddr}]]
  /\ plug \in [Works -> Sos \cup Shut] /\ up \in [Works -> BOOLEAN]
  /\ last \in [Works -> Packets] /\ leaked \in [Works -> 0..MaxFds]
  /\ requests \in 0..MaxReload /\ shorts \in 0..MaxShort
  /\ wanted \subseteq Reloads

\* An address in the cache is one of this very service and id, whatever was
\* lost, repeated, late or too short for a header, and whatever was loaded or
\* restarted meanwhile (add_serv_to_cach, do_proc_mcast).
CacheIsTrue ==
  \A w \in Works, k \in Keys : cache[w][k] \in Addr(k) \cup {NoAddr}

\* A work process runs the plugin it was started with or one that a request to
\* it or to all named, also when a packet is handled a second time
\* (do_mcast_realod_so).
PluginWasWanted ==
  \A w \in Works : plug[w] \in {Startup} \cup Shut \cup
    {d.so : d \in {r \in wanted : r.own /\ r.id \in {0, w}}}

\* What makes the two inductive.  An announcer elsewhere is at an address of its
\* own, and a request that is in the air, or lies in a static buffer to be
\* handled once more, has been made.
OwnAddress == \A k \in Others : at[k] \in Addr(k) \cup {NoAddr}
RequestsMade ==
  \A d \in net \cup {last[w] : w \in Works} : d.type = "reload" => d \in wanted

IInv == TypeOK /\ CacheIsTrue /\ PluginWasWanted /\ OwnAddress /\ RequestsMade

\* A reload that fails does not leave a process behind that nobody can use: it
\* is loaded anew, or dies on a callback and is restarted with the plugin of
\* the master (mcast.c:189-193, work.c:213).  Only a plugin that lacks
\* handle_timer itself leaves one that lives on: there the callback is cleared.
ClosedEnds == \A w \in Works : plug[w] = "closed" ~> plug[w] # "closed"

\* Once an announcer stays where it is, every work process has its address in
\* the end and for good, through loss, late datagrams, reloads and restarts.
\* A work process can only be found as long as send_pkg_to_mcast has not used
\* up its descriptors (do_syn_serv_addr).
CachesConverge ==
  \A w \in Works :
    /\ \A k \in Others :
         <>[][at'[k] = at[k]]_vars => <>[](at[k] \in {NoAddr, cache[w][k]})
    /\ \A k \in Works : <>[](leaked[k] < MaxFds) => <>[](cache[w][k] = Home(k))
=============================================================================
