--------------------------- MODULE LifecycleInv ---------------------------
(***************************************************************************)
(* What Lifecycle.tla is to satisfy.  The last part states what a comment  *)
(* of the code expects and the code does not keep.                         *)
(***************************************************************************)
EXTENDS Lifecycle

Procs == [state : {"none", "born", "ready", "loop", "zombie", "reaped"}, slot : Slots,
          gen : Nat, stop : BOOLEAN, term : BOOLEAN, deaf : BOOLEAN,
          kids : BOOLEAN, forgot : BOOLEAN]
Frames == [kind : {"chld", "term"}, at : {"next", "fork", "listen"}, slot : 1..(NWork + 1),
           child : 0..MaxForks]

\* Every variable holds a value of its kind, and no handler runs inside itself
\* (sigaction blocks a signal while its handler runs).
TypeOK ==
  /\ pc \in {"fork", "listen", "init", "loop", "use", "fini", "gone"}
  /\ slot \in Slots /\ child \in 0..MaxForks /\ seen \in Nat
  /\ stack \in Seq(Frames)
  /\ \A i, j \in 1..Len(stack) : stack[i].kind = stack[j].kind => i = j
  /\ pend \subseteq {"chld", "term"} /\ stop \in BOOLEAN
  /\ chl \in [Slots -> 0..MaxForks] /\ gen \in [Slots -> Nat]
  /\ forks \in 0..MaxForks /\ proc \in [Pids -> Procs]
  /\ failed \subseteq Slots /\ sent \in BOOLEAN

\* A slot never has two work processes, and the one it has shares with the
\* master the queues the master holds now, however deaths, restarts and
\* signals interleave: start_work replaces queues only after the death of the
\* process that had them (master.c:462-472).
OneWorkerPerSlot ==
  \A p \in Pids : Alive(p) =>
    /\ proc[p].gen = gen[proc[p].slot]
    /\ \A q \in Pids \ {p} : Alive(q) => proc[q].slot # proc[p].slot

\* While the master is in its loop, has not been told to stop and is not
\* restarting anybody, it has the pid of every work process written down, so
\* that each will be missed when it dies; except where master_listen failed in
\* start_work, which returns before chl_pids[idx] = pid (master.c:448-452).
LiveIsRecorded ==
  pc \in {"loop", "use"} /\ ~stop /\ ~In("chld") =>
    \A p \in Pids : Alive(p) => chl[proc[p].slot] = p \/ proc[p].slot \in failed

\* What makes these inductive.  A slot is vacant before fork; from there on the
\* process that fork gave, and later the one written down, is the only one.
Vacant(s) == \A p \in Pids : Alive(p) => proc[p].slot # s
Sole(s, p) == \A q \in Pids : Alive(q) /\ proc[q].slot = s => q = p

\* main starts the slots in order; those it has not come to have nobody.
Starting ==
  /\ pc = "fork" => \A t \in slot..NWork : Vacant(t) /\ chl[t] = 0
  /\ pc = "listen" => /\ Sole(slot, child) /\ chl[slot] = 0
                      /\ \A t \in (slot + 1)..NWork : Vacant(t) /\ chl[t] = 0

\* Only handle_sigchld is ever in start_work, for a slot whose pid it cleared
\* and which main has been through; handle_term comes after stop.
Handlers ==
  \A i \in 1..Len(stack) :
    /\ stack[i].kind = "term" => stack[i].at = "next" /\ stop
    /\ stack[i].at # "next" =>
         /\ stack[i].slot \in Slots /\ chl[stack[i].slot] = 0
         /\ pc \in {"fork", "listen"} => stack[i].slot < slot
    /\ stack[i].at = "fork" => Vacant(stack[i].slot)
    /\ stack[i].at = "listen" => Sole(stack[i].slot, stack[i].child)

Recorded == \A s \in Slots : chl[s] # 0 => Sole(s, chl[s])

\* Until the master is to stop it has each pid written down or in hand.
InHand(p) ==
  \/ pc = "listen" /\ child = p /\ slot = proc[p].slot
  \/ \E i \in 1..Len(stack) :
       stack[i].at = "listen" /\ stack[i].child = p /\ stack[i].slot = proc[p].slot
Noted ==
  ~stop /\ pc \notin {"fini", "gone"} =>
    \A p \in Pids : Alive(p) => \/ chl[proc[p].slot] = p \/ proc[p].slot \in failed
                                \/ InHand(p)

IInv == TypeOK /\ OneWorkerPerSlot /\ Starting /\ Handlers /\ Recorded /\ Noted

\* Once no work process dies any more every slot has one again, also when several
\* died behind one SIGCHLD or during a restart (the loop in handle_sigchld):
\* unless start_work failed, the service ends, or the process died before its
\* pid was written down, so that handle_sigchld did not find it (reaped, and
\* in chl_pids for ever).
Served(s) == chl[s] # 0 /\ proc[chl[s]].state # "zombie"
DeadIsReplaced ==
  <>[](stop \/ pc = "gone" \/ \A s \in Slots : Served(s) \/ s \in failed)

\* Once the master has taken a SIGTERM it ends, and so does every work process
\* but for three kinds: forked when stop was set, or signalled, before it
\* cleared stop for the last time (work.c:123, work.c:158); with SIGTERM
\* blocked for life because it was forked inside handle_term; or alive when no
\* pid was written down and so nobody was signalled (master.c:505).
Excused(p) == proc[p].forgot \/ proc[p].deaf \/ ~sent
StopEndsAll == stop ~> pc = "gone" /\ \A p \in Pids : Alive(p) => Excused(p)

-----------------------------------------------------------------------------
\* What the comments expect.

\* master.h:67-69: since father and child share resources a restart cannot be
\* done when the signal arrives, which only reaps: the queues the master has in
\* hand are not replaced under it.
QueuesInHandStay == [][pc = "use" /\ pc' = "use" => gen'[slot] = gen[slot]]_vars
=============================================================================
