----------------------------- MODULE Lifecycle -----------------------------
(***************************************************************************)
(* The processes: the master starts one work process per slot of workmgr,  *)
(* restarts those that die from inside its SIGCHLD handler, and is to end  *)
(* them all when it is told to stop.  Every process runs the same code, so *)
(* a work process inherits handlers, signal mask, stop and chl_pids.       *)
(*                                                                         *)
(* A signal may interrupt the master between any two steps.  handle_signal *)
(* leaves sa_mask empty: a handler is interrupted by any signal but its    *)
(* own, and what it forks inherits the signals blocked at that moment.     *)
(* SIGTERM stands for SIGINT and SIGQUIT too.                              *)
(*                                                                         *)
(* mq_fini and mq_init give a slot new queues; a generation number stands  *)
(* for the pair.  Mapping memory does not fail.                            *)
(***************************************************************************)
EXTENDS Integers, Sequences, FiniteSets

CONSTANTS
  NWork,    \* workmgr.nr_used
  MaxForks  \* bound: work processes ever started; after that fork fails

ASSUME LifecycleAssumption == NWork \in Nat \ {0} /\ MaxForks \in Nat

Slots == 1..NWork
Pids == 1..MaxForks

VARIABLES
  pc, slot,   \* what the master does outside its handlers, and to which slot
  child,      \* the pid that fork gave main
  stack,      \* the handlers it is in, the innermost last
  pend,       \* signals on their way to it
  stop,       \* the master's stop
  chl,        \* chl_pids, 0 for none
  gen, seen,  \* the queues of each slot, and those the loop has in hand
  forks,      \* work processes started so far
  proc,       \* the work processes
  \* history, read by no action:
  failed,     \* slots start_work gave up
  sent        \* a handle_term has signalled the group

main == <<pc, slot, child, seen>>
history == <<failed, sent>>
vars == <<main, stack, pend, stop, chl, gen, forks, proc, history>>

Alive(p) == proc[p].state \in {"born", "ready", "loop"}
In(kind) == \E i \in 1..Len(stack) : stack[i].kind = kind

NoProc == [state |-> "none", slot |-> 1, gen |-> 0, stop |-> FALSE, term |-> FALSE,
           deaf |-> FALSE, kids |-> FALSE, forgot |-> FALSE]

Init ==
  /\ pc = "fork" /\ slot = 1 /\ child = 0 /\ seen = 0
  /\ stack = <<>> /\ pend = {} /\ stop = FALSE
  /\ chl = [s \in Slots |-> 0] /\ gen = [s \in Slots |-> 0]
  /\ forks = 0 /\ proc = [p \in Pids |-> NoProc]
  /\ failed = {} /\ sent = FALSE

\* kill(0, signo): every process of the group, the caller among them.
KillGroup(procs) ==
  [p \in Pids |-> [procs[p] EXCEPT !.term = @ \/ procs[p].state \in {"born", "ready", "loop"}]]

\* fork for slot s: kids tells whether the copy of chl_pids names anybody,
\* deaf whether SIGTERM is blocked.
Forked(s) ==
  [NoProc EXCEPT !.state = "born", !.slot = s, !.gen = gen'[s], !.stop = stop,
                 !.deaf = In("term"), !.kids = (\E t \in Slots : chl[t] # 0)]

NewQueues(s) == gen' = [gen EXCEPT ![s] = @ + 1]

Fork(s) ==
  /\ forks < MaxForks
  /\ forks' = forks + 1
  /\ proc' = [proc EXCEPT ![forks + 1] = Forked(s)]

ForkFails == UNCHANGED <<forks, proc>>

-----------------------------------------------------------------------------
\* main and master_dispatch

Main ==
  /\ stack = <<>>
  /\ pend' = IF pc' = "gone" THEN {} ELSE pend
  /\ UNCHANGED <<stack, stop, sent>>

\* Mistake: the -1 of a failed fork is taken for a pid.
Bug_ForkUnchecked ==
  /\ pc = "fork"
  /\ NewQueues(slot)
  /\ \/ Fork(slot) /\ child' = forks + 1
     \/ ForkFails /\ child' = -1
  /\ pc' = "listen"
  /\ UNCHANGED <<slot, seen, chl, failed>>
  /\ Main

\* master_mq_create and fork; after a failure main goes to master_fini.
MainFork ==
  /\ pc = "fork"
  /\ NewQueues(slot)
  /\ \/ Fork(slot) /\ pc' = "listen" /\ child' = forks + 1 /\ UNCHANGED slot
     \/ ForkFails /\ pc' = "fini" /\ slot' = 1 /\ UNCHANGED child
  /\ UNCHANGED <<seen, chl, failed>>
  /\ Main

\* Mistake: the pid is not written down.
Bug_NotRecorded ==
  /\ pc = "listen"
  /\ pc' = (IF slot < NWork THEN "fork" ELSE "init")
  /\ slot' = (IF slot < NWork THEN slot + 1 ELSE 1)
  /\ child' = 0
  /\ UNCHANGED <<chl, seen, gen, forks, proc, failed>>
  /\ Main

\* master_listen, then chl_pids[i] = pid.
MainListen ==
  /\ pc = "listen"
  /\ \/ /\ chl' = [chl EXCEPT ![slot] = child]
        /\ pc' = (IF slot < NWork THEN "fork" ELSE "init")
        /\ slot' = (IF slot < NWork THEN slot + 1 ELSE 1)
     \/ pc' = "fini" /\ slot' = 1 /\ UNCHANGED chl
  /\ child' = 0
  /\ UNCHANGED <<seen, gen, forks, proc, failed>>
  /\ Main

\* serv_init of the plugin, which may fail.
MainInit ==
  /\ pc = "init"
  /\ pc' \in {"loop", "gone"}
  /\ UNCHANGED <<slot, child, seen, chl, gen, forks, proc, failed>>
  /\ Main

\* The loop takes the queues of a slot in hand (handle_mq_send, handle_cli).
Use(s) ==
  /\ pc = "loop" /\ ~stop
  /\ pc' = "use" /\ slot' = s /\ seen' = gen[s]
  /\ UNCHANGED <<child, chl, gen, forks, proc, failed>>
  /\ Main

\* If they were unmapped meanwhile the master dies on the old address, or
\* finds itself in the new queues.
Used ==
  /\ pc = "use"
  /\ pc' = "loop" \/ (gen[slot] # seen /\ pc' = "gone")
  /\ slot' = 1 /\ seen' = 0
  /\ UNCHANGED <<child, chl, gen, forks, proc, failed>>
  /\ Main

Leave ==
  /\ pc = "loop" /\ stop
  /\ pc' = "fini"
  /\ UNCHANGED <<slot, child, seen, chl, gen, forks, proc, failed>>
  /\ Main

MasterFini ==
  /\ pc = "fini"
  /\ pc' = "gone"
  /\ UNCHANGED <<slot, child, seen, chl, gen, forks, proc, failed>>
  /\ Main

-----------------------------------------------------------------------------
\* Signals to the master and its handlers.

Top == stack[Len(stack)]
Return == stack' = SubSeq(stack, 1, Len(stack) - 1)
Go(where, s, p) == stack' = [stack EXCEPT ![Len(stack)] = [@ EXCEPT !.at = where, !.slot = s, !.child = p]]

Frame(kind) == [kind |-> kind, at |-> "next", slot |-> 1, child |-> 0]

\* handle_term sets stop before anything else.
Deliver(kind) ==
  /\ pc # "gone" /\ kind \in pend /\ ~In(kind)
  /\ pend' = pend \ {kind}
  /\ stack' = Append(stack, Frame(kind))
  /\ stop' = (stop \/ kind = "term")
  /\ UNCHANGED <<main, chl, gen, forks, proc, history>>

Running(kind, where) ==
  /\ pc # "gone" /\ stack # <<>> /\ Top.kind = kind /\ Top.at = where

Dead == {p \in Pids : proc[p].state = "zombie"}

\* Mistake: one waitpid for each SIGCHLD.
Bug_ReapOne ==
  /\ Running("chld", "next")
  /\ \E p \in Dead :
       /\ proc' = [proc EXCEPT ![p].state = "reaped"]
       /\ \/ \E s \in Slots : chl[s] = p /\ chl' = [chl EXCEPT ![s] = 0] /\ Go("fork", s, 0)
          \/ (\A s \in Slots : chl[s] # p) /\ Return /\ UNCHANGED chl
  /\ UNCHANGED <<main, pend, stop, gen, forks, history>>

\* Mistake: a pid that is not in chl_pids restarts the slot after the loop.
Bug_RestartsUnknown ==
  /\ Running("chld", "next")
  /\ \E p \in Dead :
       /\ proc' = [proc EXCEPT ![p].state = "reaped"]
       /\ \/ \E s \in Slots : chl[s] = p /\ chl' = [chl EXCEPT ![s] = 0] /\ Go("fork", s, 0)
          \/ (\A s \in Slots : chl[s] # p) /\ Go("fork", NWork, 0) /\ UNCHANGED chl
  /\ UNCHANGED <<main, pend, stop, gen, forks, history>>

\* waitpid; a pid that chl_pids does not hold is passed over.
Reap ==
  /\ Running("chld", "next")
  /\ \E p \in Dead :
       /\ proc' = [proc EXCEPT ![p].state = "reaped"]
       /\ \/ \E s \in Slots : chl[s] = p /\ chl' = [chl EXCEPT ![s] = 0] /\ Go("fork", s, 0)
          \/ (\A s \in Slots : chl[s] # p) /\ UNCHANGED <<chl, stack>>
  /\ UNCHANGED <<main, pend, stop, gen, forks, history>>

ReapNone ==
  /\ Running("chld", "next") /\ Dead = {}
  /\ Return
  /\ UNCHANGED <<main, pend, stop, chl, gen, forks, proc, history>>

\* start_work replaces the queues and forks.
Restart ==
  LET s == Top.slot IN
  /\ Running("chld", "fork")
  /\ NewQueues(s)
  /\ \/ Fork(s) /\ Go("listen", s, forks + 1) /\ UNCHANGED failed
     \/ ForkFails /\ Go("next", 1, 0) /\ failed' = failed \cup {s}
  /\ UNCHANGED <<main, pend, stop, chl, sent>>

\* It listens again and writes the pid down.
RestartListen ==
  LET s == Top.slot IN
  /\ Running("chld", "listen")
  /\ Go("next", 1, 0)
  /\ \/ chl' = [chl EXCEPT ![s] = Top.child] /\ UNCHANGED failed
     \/ failed' = failed \cup {s} /\ UNCHANGED chl
  /\ UNCHANGED <<main, pend, stop, gen, forks, proc, sent>>

\* One round of the loop in handle_term: the pid is cleared before kill looks
\* at it, so the signal goes to the whole group.
TermRound ==
  LET s == Top.slot IN
  /\ Running("term", "next") /\ s <= NWork
  /\ Go("next", s + 1, 0)
  /\ IF chl[s] = 0
     THEN UNCHANGED <<chl, proc, pend, sent>>
     ELSE /\ chl' = [chl EXCEPT ![s] = 0] /\ proc' = KillGroup(proc)
          /\ pend' = pend \cup {"term"} /\ sent' = TRUE
  /\ UNCHANGED <<main, stop, gen, forks, failed>>

TermReturn ==
  /\ Running("term", "next") /\ Top.slot > NWork
  /\ Return
  /\ UNCHANGED <<main, pend, stop, chl, gen, forks, proc, history>>

Handler == Reap \/ ReapNone \/ Restart \/ RestartListen \/ TermRound \/ TermReturn

Master ==
  \/ MainFork \/ MainListen \/ MainInit \/ (\E s \in Slots : Use(s)) \/ Used \/ Leave
  \/ MasterFini
  \/ Handler

-----------------------------------------------------------------------------
\* A work process.

Work == UNCHANGED <<main, stack, stop, chl, gen, forks, history>>

\* work_init clears stop and chl_pids.  forgot: the process is to live on
\* although it, or the master before the fork, has been told to stop.
WorkInit(p) ==
  /\ Work /\ proc[p].state = "born"
  /\ proc' = [proc EXCEPT ![p] = [@ EXCEPT !.state = "ready", !.stop = FALSE, !.kids = FALSE,
                                           !.forgot = proc[p].forgot \/ proc[p].stop]]
  /\ UNCHANGED pend

\* Its log cannot be opened: work_init returns 0 before it clears anything and
\* the process goes on to work_dispatch.  That it has the master's epoll and
\* descriptors then is not followed.
WorkInitNoLog(p) ==
  /\ Work /\ proc[p].state = "born"
  /\ proc' = [proc EXCEPT ![p] = [@ EXCEPT !.state = "ready"]]
  /\ UNCHANGED pend

\* work_dispatch clears stop again.
WorkStart(p) ==
  /\ Work /\ proc[p].state = "ready"
  /\ proc' = [proc EXCEPT ![p] = [@ EXCEPT !.state = "loop", !.stop = FALSE,
                                           !.forgot = proc[p].forgot \/ proc[p].stop]]
  /\ UNCHANGED pend

\* Mistake: only the parent stops.
Bug_OnlyParent(p) ==
  /\ Work /\ Alive(p) /\ proc[p].term /\ ~proc[p].deaf
  /\ proc' = [proc EXCEPT ![p].term = FALSE]
  /\ UNCHANGED pend

\* handle_term in a work process: it takes itself for the parent, and with
\* chl_pids not yet cleared it signals the group.
WorkTerm(p) ==
  /\ Work /\ Alive(p) /\ proc[p].term /\ ~proc[p].deaf
  /\ LET taken == [proc EXCEPT ![p] = [@ EXCEPT !.term = FALSE, !.stop = TRUE, !.kids = FALSE]] IN
     IF proc[p].kids
     THEN proc' = KillGroup(taken) /\ pend' = (IF pc = "gone" THEN pend ELSE pend \cup {"term"})
     ELSE proc' = taken /\ UNCHANGED pend

\* Without its father a process that has ended is reaped by init.
Die(p) ==
  LET ended == [NoProc EXCEPT !.slot = proc[p].slot] IN
  IF pc = "gone"
  THEN proc' = [proc EXCEPT ![p] = [ended EXCEPT !.state = "reaped"]] /\ UNCHANGED pend
  ELSE proc' = [proc EXCEPT ![p] = [ended EXCEPT !.state = "zombie"]] /\ pend' = pend \cup {"chld"}

\* The loop ends, work_fini, exit.
WorkExit(p) == Work /\ proc[p].state = "loop" /\ proc[p].stop /\ Die(p)

\* work_init returns -1, or the process is killed or crashes.
Crash(p) == Work /\ Alive(p) /\ Die(p)

Worker(p) == WorkInit(p) \/ WorkInitNoLog(p) \/ WorkStart(p) \/ WorkTerm(p) \/ WorkExit(p)

\* Somebody ends the service.
AskToStop ==
  /\ pc # "gone" /\ ~stop
  /\ pend' = pend \cup {"term"}
  /\ UNCHANGED <<main, stack, stop, chl, gen, forks, proc, history>>

Next ==
  \/ Master
  \/ \E kind \in {"chld", "term"} : Deliver(kind)
  \/ \E p \in Pids : Worker(p) \/ Crash(p)
  \/ AskToStop

Spec == Init /\ [][Next]_vars

\* The master runs, some work process that can run does, and signals arrive;
\* nobody has to crash or to ask for an end.
FairSpec ==
  /\ Spec
  /\ WF_vars(Master)
  /\ WF_vars(\E kind \in {"chld", "term"} : Deliver(kind))
  /\ WF_vars(\E p \in Pids : Worker(p))
=============================================================================
