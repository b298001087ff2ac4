-------------------------- MODULE LifecycleProofs --------------------------
(***************************************************************************)
(* Proofs about the processes, for every number of slots and of work       *)
(* processes ever started.                                                 *)
(***************************************************************************)
EXTENDS LifecycleInv, SequenceTheorems, TLAPS

-----------------------------------------------------------------------------
\* The stack of handlers.

LEMMA StackFacts ==
  ASSUME TypeOK
  PROVE  /\ Len(stack) \in Nat
         /\ \A i \in 1..Len(stack) : stack[i] \in Frames
         /\ stack # <<>> => Len(stack) \in 1..Len(stack) /\ Top \in Frames
  <1>1. stack \in Seq(Frames)
    BY DEF TypeOK
  <1>2. Len(stack) \in Nat /\ \A i \in 1..Len(stack) : stack[i] \in Frames
    BY <1>1, LenProperties, ElementOfSeq
  <1>3. stack # <<>> => Len(stack) \in 1..Len(stack)
    BY <1>1, EmptySeq
  <1> QED BY <1>2, <1>3 DEF Top

\* The innermost handler goes on, the others stay where they are.
LEMMA GoFacts ==
  ASSUME TypeOK, stack # <<>>,
         NEW where \in {"next", "fork", "listen"}, NEW s \in 1..(NWork + 1),
         NEW p \in 0..MaxForks, Go(where, s, p)
  PROVE  /\ stack' \in Seq(Frames) /\ Len(stack') = Len(stack)
         /\ \A i \in 1..Len(stack) : stack'[i].kind = stack[i].kind
         /\ \A i \in 1..Len(stack) : i # Len(stack) => stack'[i] = stack[i]
         /\ stack'[Len(stack)].at = where /\ stack'[Len(stack)].slot = s
         /\ stack'[Len(stack)].child = p
         /\ \A i, j \in 1..Len(stack') : stack'[i].kind = stack'[j].kind => i = j
  <1> DEFINE n == Len(stack)
             f == [stack[n] EXCEPT !.at = where, !.slot = s, !.child = p]
  <1>1. n \in 1..n /\ stack[n] \in Frames /\ stack \in Seq(Frames)
    BY StackFacts DEF Top, TypeOK
  <1>2. /\ f \in Frames /\ f.kind = stack[n].kind /\ f.at = where /\ f.slot = s
        /\ f.child = p
    BY <1>1 DEF Frames
  <1>3. stack' = [stack EXCEPT ![n] = f]
    BY DEF Go
  <1> HIDE DEF f
  <1>4. /\ stack' \in Seq(Frames) /\ Len(stack') = n
        /\ \A i \in 1..n : stack'[i] = IF i = n THEN f ELSE stack[i]
    BY <1>1, <1>2, <1>3, ExceptSeq
  <1>5. \A i \in 1..n : stack'[i].kind = stack[i].kind
    BY <1>1, <1>2, <1>4
  <1>6. \A i, j \in 1..n : stack[i].kind = stack[j].kind => i = j
    BY DEF TypeOK
  <1> QED BY <1>1, <1>2, <1>4, <1>5, <1>6

\* The innermost handler returns.
LEMMA ReturnFacts ==
  ASSUME TypeOK, stack # <<>>, Return
  PROVE  /\ stack' \in Seq(Frames) /\ Len(stack') = Len(stack) - 1
         /\ \A i \in 1..Len(stack') : i \in 1..Len(stack) /\ stack'[i] = stack[i]
         /\ \A i, j \in 1..Len(stack') : stack'[i].kind = stack'[j].kind => i = j
  <1> DEFINE n == Len(stack)
  <1>1. n \in Nat /\ n \in 1..n /\ \A i \in 1..n : stack[i] \in Frames
    BY StackFacts
  <1>2. stack' = SubSeq(stack, 1, n - 1)
    BY DEF Return
  <1>3. 1 \in Int /\ n - 1 \in Int /\ \A i \in 1..(n - 1) : stack[i] \in Frames
    BY <1>1
  <1> HIDE DEF n
  <1>4. /\ SubSeq(stack, 1, n - 1) \in Seq(Frames)
        /\ Len(SubSeq(stack, 1, n - 1)) = IF 1 <= n - 1 THEN n - 1 - 1 + 1 ELSE 0
        /\ \A i \in 1..(n - 1 - 1 + 1) : SubSeq(stack, 1, n - 1)[i] = stack[1 + i - 1]
    BY <1>3, SubSeqProperties
  <1>5. /\ stack' \in Seq(Frames) /\ Len(stack') = n - 1
        /\ \A i \in 1..(n - 1) : stack'[i] = stack[i]
    BY <1>1, <1>2, <1>4
  <1>6. \A i, j \in 1..n : stack[i].kind = stack[j].kind => i = j
    BY DEF TypeOK, n
  <1>7. \A i \in 1..(n - 1) : i \in 1..n
    BY <1>1
  <1> QED BY <1>1, <1>5, <1>6, <1>7 DEF n

\* A signal starts a handler that is not running yet.
LEMMA PushFacts ==
  ASSUME TypeOK, NEW kind \in {"chld", "term"}, ~In(kind),
         stack' = Append(stack, Frame(kind))
  PROVE  /\ stack' \in Seq(Frames) /\ Len(stack') = Len(stack) + 1
         /\ \A i \in 1..Len(stack) : stack'[i] = stack[i]
         /\ stack'[Len(stack) + 1] = Frame(kind)
         /\ \A i, j \in 1..Len(stack') : stack'[i].kind = stack'[j].kind => i = j
  <1> DEFINE n == Len(stack)
  <1>1. n \in Nat /\ stack \in Seq(Frames)
    BY StackFacts DEF TypeOK
  <1>2. Frame(kind) \in Frames /\ Frame(kind).kind = kind
    BY LifecycleAssumption DEF Frame, Frames
  <1>3. /\ stack' \in Seq(Frames) /\ Len(stack') = n + 1
        /\ \A i \in 1..n : stack'[i] = stack[i]
        /\ stack'[n + 1] = Frame(kind)
    BY <1>1, <1>2, AppendProperties
  <1>4. \A i \in 1..n : stack[i].kind # kind
    BY DEF In
  <1>5. \A i, j \in 1..n : stack[i].kind = stack[j].kind => i = j
    BY DEF TypeOK
  <1>6. ASSUME NEW i \in 1..(n + 1), NEW j \in 1..(n + 1), stack'[i].kind = stack'[j].kind
        PROVE  i = j
    <2>1. CASE i \in 1..n /\ j \in 1..n
      BY <1>3, <1>5, <1>6, <2>1
    <2>2. CASE i = n + 1 /\ j \in 1..n
      BY <1>2, <1>3, <1>4, <1>6, <2>2
    <2>3. CASE j = n + 1 /\ i \in 1..n
      BY <1>2, <1>3, <1>4, <1>6, <2>3
    <2> QED BY <1>1, <2>1, <2>2, <2>3
  <1> QED BY <1>3, <1>6

-----------------------------------------------------------------------------
\* What a step may do to the work processes.

\* None starts and no queue is replaced.
LEMMA NoBirth ==
  ASSUME OneWorkerPerSlot, gen' = gen,
         \A p \in Pids : Alive(p)' => /\ Alive(p) /\ proc'[p].slot = proc[p].slot
                                      /\ proc'[p].gen = proc[p].gen
  PROVE  /\ OneWorkerPerSlot'
         /\ \A s : Vacant(s) => Vacant(s)'
         /\ \A s, p : Sole(s, p) => Sole(s, p)'
  BY DEF OneWorkerPerSlot, Vacant, Sole

\* One starts in a slot that nobody has, with its new queues.
LEMMA Birth ==
  ASSUME TypeOK, OneWorkerPerSlot, NEW s \in Slots, Vacant(s), NewQueues(s), Fork(s)
  PROVE  /\ OneWorkerPerSlot' /\ \A p : p = forks + 1 => Sole(s, p)'
         /\ \A t : t # s => (Vacant(t) => Vacant(t)') /\ \A p : Sole(t, p) => Sole(t, p)'
         /\ proc' \in [Pids -> Procs] /\ gen' \in [Slots -> Nat]
         /\ forks' \in 0..MaxForks /\ forks + 1 \in 1..MaxForks
         /\ \A p \in Pids : \/ p = forks + 1 /\ proc'[p].slot = s
                            \/ p # forks + 1 /\ proc'[p] = proc[p]
  <1> DEFINE new == Forked(s)
  <1>1. forks + 1 \in Pids /\ forks + 1 \in 1..MaxForks /\ forks' \in 0..MaxForks
    BY LifecycleAssumption DEF Fork, TypeOK, Pids
  <1>2. gen' \in [Slots -> Nat] /\ \A t \in Slots : t # s => gen'[t] = gen[t]
    BY DEF NewQueues, TypeOK
  <1>3. /\ new.state = "born" /\ new.slot = s /\ new.gen = gen'[s]
        /\ new \in Procs
    <2>1. 1 \in Slots /\ stop \in BOOLEAN /\ In("term") \in BOOLEAN
          /\ (\E t \in Slots : chl[t] # 0) \in BOOLEAN /\ gen'[s] \in Nat
      BY LifecycleAssumption, <1>2 DEF TypeOK, Slots, In
    <2> QED BY <2>1 DEF Forked, NoProc, Procs
  <1> HIDE DEF new
  <1>4. proc' = [proc EXCEPT ![forks + 1] = new] /\ proc \in [Pids -> Procs]
    BY DEF Fork, TypeOK, new
  <1>5. proc' \in [Pids -> Procs]
    BY <1>3, <1>4
  <1>6. /\ proc'[forks + 1] = new
        /\ \A p \in Pids : p # forks + 1 => proc'[p] = proc[p]
    BY <1>1, <1>4
  <1>7. \A p \in Pids : proc[p].slot \in Slots
    BY <1>4 DEF Procs
  <1>8. \A p : p = forks + 1 => Sole(s, p)'
    BY <1>6 DEF Sole, Vacant, Alive
  <1>9. \A t : t # s => (Vacant(t) => Vacant(t)') /\ \A p : Sole(t, p) => Sole(t, p)'
    BY <1>3, <1>6 DEF Sole, Vacant, Alive
  <1>10. OneWorkerPerSlot'
    <2> SUFFICES ASSUME NEW p \in Pids, Alive(p)'
                 PROVE  /\ proc'[p].gen = gen'[proc'[p].slot]
                        /\ \A q \in Pids \ {p} : Alive(q)' => proc'[q].slot # proc'[p].slot
      BY DEF OneWorkerPerSlot
    <2>1. CASE p = forks + 1
      BY <1>3, <1>6, <2>1 DEF Vacant, Alive
    <2>2. CASE p # forks + 1
      <3>1. proc'[p] = proc[p] /\ Alive(p) /\ proc[p].slot # s
        BY <1>6, <2>2 DEF Alive, Vacant
      <3> QED BY <1>2, <1>3, <1>6, <1>7, <3>1 DEF OneWorkerPerSlot, Alive
    <2> QED BY <2>1, <2>2
  <1> QED BY <1>1, <1>2, <1>3, <1>5, <1>6, <1>8, <1>9, <1>10

\* The queues are replaced, but nobody starts.
LEMMA NoFork ==
  ASSUME TypeOK, OneWorkerPerSlot, NEW s \in Slots, Vacant(s), NewQueues(s), ForkFails
  PROVE  /\ OneWorkerPerSlot'
         /\ \A t : Vacant(t) => Vacant(t)'
         /\ \A t, p : Sole(t, p) => Sole(t, p)'
         /\ gen' \in [Slots -> Nat]
  <1>1. /\ gen' \in [Slots -> Nat] /\ \A t \in Slots : t # s => gen'[t] = gen[t]
        /\ proc' = proc /\ \A p \in Pids : proc[p].slot \in Slots
    BY DEF NewQueues, ForkFails, TypeOK, Procs
  <1> QED BY <1>1 DEF OneWorkerPerSlot, Vacant, Sole, Alive

-----------------------------------------------------------------------------
\* main and master_dispatch.  While main runs there is no handler.

LEMMA NoHandler ==
  ASSUME IInv, Main
  PROVE  /\ stack' = <<>> /\ Handlers' /\ UNCHANGED <<stop, sent>>
         /\ stack' \in Seq(Frames) /\ pend' \subseteq {"chld", "term"}
         /\ \A i, j \in 1..Len(stack') : stack'[i].kind = stack'[j].kind => i = j
         /\ stop' \in BOOLEAN /\ sent' \in BOOLEAN
         /\ \A p : ~\E i \in 1..Len(stack) :
                  stack[i].at = "listen" /\ stack[i].child = p /\ stack[i].slot = proc[p].slot
  <1>1. stack = <<>> /\ stack' = <<>> /\ UNCHANGED <<stop, sent>>
    BY DEF Main
  <1>2. Len(stack) = 0 /\ Len(stack') = 0 /\ stack' \in Seq(Frames)
    BY <1>1, EmptySeq
  <1>3. Handlers'
    BY <1>2 DEF Handlers
  <1>4. pend' \subseteq {"chld", "term"}
    BY DEF Main, IInv, TypeOK
  <1> QED BY <1>1, <1>2, <1>3, <1>4 DEF IInv, TypeOK

LEMMA MainForkKeeps ==
  ASSUME IInv, MainFork
  PROVE  IInv'
  <1>1. /\ pc = "fork" /\ NewQueues(slot) /\ UNCHANGED <<seen, chl, failed>> /\ Main
        /\ TypeOK /\ OneWorkerPerSlot /\ Starting /\ Handlers /\ Recorded /\ Noted
        /\ slot \in Slots
    BY DEF MainFork, IInv, TypeOK
  <1>2. Vacant(slot) /\ chl[slot] = 0 /\ \A t \in (slot + 1)..NWork : Vacant(t) /\ chl[t] = 0
    BY <1>1, LifecycleAssumption DEF Starting, Slots
  <1>3. CASE Fork(slot) /\ pc' = "listen" /\ child' = forks + 1 /\ UNCHANGED slot
    <2>1. /\ OneWorkerPerSlot' /\ \A p : p = forks + 1 => Sole(slot, p)'
          /\ \A t : t # slot => (Vacant(t) => Vacant(t)') /\ \A p : Sole(t, p) => Sole(t, p)'
          /\ proc' \in [Pids -> Procs] /\ gen' \in [Slots -> Nat]
          /\ forks' \in 0..MaxForks /\ forks + 1 \in 1..MaxForks
          /\ \A p \in Pids : \/ p = forks + 1 /\ proc'[p].slot = slot
                             \/ p # forks + 1 /\ proc'[p] = proc[p]
      BY <1>1, <1>2, <1>3, Birth
    <2>2. Starting'
      <3>1. Sole(slot, child)'
        BY <1>3, <2>1
      <3>2. \A t \in (slot + 1)..NWork : Vacant(t)' /\ chl'[t] = 0
        <4>1. \A t \in (slot + 1)..NWork : t # slot
          BY <1>1 DEF Slots
        <4> QED BY <1>1, <1>2, <2>1, <4>1
      <3> QED BY <1>1, <1>2, <1>3, <3>1, <3>2 DEF Starting
    <2>3. Recorded'
      BY <1>1, <1>2, <2>1 DEF Recorded
    <2>4. Noted'
      <3> SUFFICES ASSUME ~stop', NEW p \in Pids, Alive(p)'
                   PROVE  \/ chl'[proc'[p].slot] = p \/ proc'[p].slot \in failed'
                          \/ InHand(p)'
        BY DEF Noted
      <3>1. CASE p = forks + 1
        BY <1>3, <2>1, <3>1 DEF InHand
      <3>2. CASE p # forks + 1
        <4>1. proc'[p] = proc[p] /\ Alive(p) /\ ~stop
          BY <1>1, <2>1, <3>2, NoHandler DEF Alive
        <4>2. ~InHand(p)
          BY <1>1, NoHandler DEF InHand
        <4> QED BY <1>1, <4>1, <4>2 DEF Noted
      <3> QED BY <3>1, <3>2
    <2>5. TypeOK'
      BY <1>1, <1>3, <2>1, NoHandler DEF TypeOK
    <2> QED BY <1>1, <2>1, <2>2, <2>3, <2>4, <2>5, NoHandler DEF IInv
  <1>4. CASE ForkFails /\ pc' = "fini" /\ slot' = 1 /\ UNCHANGED child
    <2>1. /\ OneWorkerPerSlot' /\ gen' \in [Slots -> Nat]
          /\ \A t, p : Sole(t, p) => Sole(t, p)'
      BY <1>1, <1>2, <1>4, NoFork
    <2>2. Starting' /\ Recorded' /\ Noted'
      BY <1>1, <1>4, <2>1 DEF Starting, Recorded, Noted
    <2>3. TypeOK'
      BY <1>1, <1>4, <2>1, NoHandler, LifecycleAssumption DEF TypeOK, ForkFails, Slots
    <2> QED BY <1>1, <2>1, <2>2, <2>3, NoHandler DEF IInv
  <1> QED BY <1>3, <1>4 DEF MainFork

LEMMA MainListenKeeps ==
  ASSUME IInv, MainListen
  PROVE  IInv'
  <1>1. /\ pc = "listen" /\ UNCHANGED <<seen, gen, forks, proc, failed>> /\ Main /\ child' = 0
        /\ TypeOK /\ OneWorkerPerSlot /\ Starting /\ Handlers /\ Recorded /\ Noted
        /\ slot \in Slots
    BY DEF MainListen, IInv, TypeOK
  <1>2. /\ OneWorkerPerSlot'
        /\ \A s : Vacant(s) => Vacant(s)'
        /\ \A s, p : Sole(s, p) => Sole(s, p)'
    BY <1>1, NoBirth DEF Alive
  <1>3. CASE /\ chl' = [chl EXCEPT ![slot] = child]
             /\ pc' = (IF slot < NWork THEN "fork" ELSE "init")
             /\ slot' = (IF slot < NWork THEN slot + 1 ELSE 1)
    <2>1. slot' \in Slots /\ pc' \in {"fork", "init"} /\ chl' \in [Slots -> 0..MaxForks]
      BY <1>1, <1>3, LifecycleAssumption DEF Slots, TypeOK
    <2>2. Starting'
      <3> SUFFICES ASSUME pc' = "fork"
                   PROVE  \A t \in slot'..NWork : Vacant(t)' /\ chl'[t] = 0
        BY <2>1 DEF Starting
      <3>1. slot' = slot + 1
        BY <1>3
      <3>2. \A t \in (slot + 1)..NWork : Vacant(t) /\ chl[t] = 0 /\ t # slot /\ t \in Slots
        BY <1>1 DEF Starting, Slots
      <3> QED BY <1>1, <1>2, <1>3, <3>1, <3>2 DEF TypeOK
    <2>3. Recorded'
      <3> SUFFICES ASSUME NEW s \in Slots, chl'[s] # 0
                   PROVE  \A q : q = chl'[s] => Sole(s, q)'
        BY DEF Recorded
      <3>1. CASE s = slot
        BY <1>1, <1>2, <1>3, <3>1 DEF Starting, TypeOK
      <3>2. CASE s # slot
        BY <1>1, <1>2, <1>3, <3>2 DEF Recorded, TypeOK
      <3> QED BY <3>1, <3>2
    <2>4. Noted'
      <3> SUFFICES ASSUME ~stop', NEW p \in Pids, Alive(p)'
                   PROVE  chl'[proc'[p].slot] = p \/ proc'[p].slot \in failed'
        BY DEF Noted
      <3>1. ~stop /\ Alive(p) /\ proc'[p] = proc[p] /\ proc[p].slot \in Slots
        BY <1>1, NoHandler DEF Alive, TypeOK, Procs
      <3>2. CASE proc[p].slot = slot
        <4>1. p = child
          BY <1>1, <3>1, <3>2 DEF Starting, Sole
        <4> QED BY <1>1, <1>3, <3>1, <3>2, <4>1 DEF TypeOK
      <3>3. CASE proc[p].slot # slot
        <4>1. ~InHand(p)
          BY <1>1, <3>3, NoHandler DEF InHand
        <4> QED BY <1>1, <1>3, <3>1, <3>3, <4>1 DEF Noted, TypeOK
      <3> QED BY <3>2, <3>3
    <2>5. TypeOK'
      BY <1>1, <2>1, NoHandler, LifecycleAssumption DEF TypeOK
    <2> QED BY <1>1, <1>2, <2>2, <2>3, <2>4, <2>5, NoHandler DEF IInv
  <1>4. CASE pc' = "fini" /\ slot' = 1 /\ UNCHANGED chl
    <2>1. Starting' /\ Recorded' /\ Noted'
      BY <1>1, <1>2, <1>4 DEF Starting, Recorded, Noted
    <2>2. TypeOK'
      BY <1>1, <1>4, NoHandler, LifecycleAssumption DEF TypeOK, Slots
    <2> QED BY <1>1, <1>2, <2>1, <2>2, NoHandler DEF IInv
  <1> QED BY <1>3, <1>4 DEF MainListen

\* The other steps of main start nobody and write nothing down.
LEMMA MainKeeps ==
  ASSUME IInv, Main, UNCHANGED <<child, chl, gen, forks, proc, failed>>,
         pc \notin {"fork", "listen"},
         pc' \in {"loop", "use", "fini", "gone"}, pc \in {"fini", "gone"} => pc' \in {"fini", "gone"},
         slot' \in Slots, seen' \in Nat
  PROVE  IInv'
  <1>1. TypeOK /\ OneWorkerPerSlot /\ Recorded /\ Noted
    BY DEF IInv
  <1>2. /\ OneWorkerPerSlot'
        /\ \A s, p : Sole(s, p) => Sole(s, p)'
    BY <1>1, NoBirth DEF Alive
  <1>3. Starting' /\ Recorded'
    BY <1>1, <1>2 DEF Starting, Recorded
  <1>4. Noted'
    <2> SUFFICES ASSUME ~stop', pc' \notin {"fini", "gone"}, NEW p \in Pids, Alive(p)'
                 PROVE  chl'[proc'[p].slot] = p \/ proc'[p].slot \in failed'
      BY DEF Noted
    <2>1. ~stop /\ Alive(p) /\ pc \notin {"fini", "gone"}
      BY NoHandler DEF Alive
    <2>2. ~InHand(p)
      BY NoHandler DEF InHand
    <2> QED BY <1>1, <2>1, <2>2 DEF Noted
  <1>5. TypeOK'
    BY <1>1, NoHandler DEF TypeOK
  <1> QED BY <1>2, <1>3, <1>4, <1>5, NoHandler DEF IInv

LEMMA MainOtherKeeps ==
  ASSUME IInv,
         MainInit \/ (\E s \in Slots : Use(s)) \/ Used \/ Leave \/ MasterFini
  PROVE  IInv'
  <1>0. slot \in Slots /\ seen \in Nat /\ gen \in [Slots -> Nat] /\ 1 \in Slots
    BY LifecycleAssumption DEF IInv, TypeOK, Slots
  <1>1. CASE MainInit
    BY <1>0, <1>1, MainKeeps DEF MainInit
  <1>2. ASSUME NEW s \in Slots, Use(s)
        PROVE  IInv'
    <2>1. slot' \in Slots /\ seen' \in Nat
      BY <1>0, <1>2 DEF Use
    <2> QED BY <1>2, <2>1, MainKeeps DEF Use
  <1>3. CASE Used
    BY <1>0, <1>3, MainKeeps DEF Used
  <1>4. CASE Leave
    BY <1>0, <1>4, MainKeeps DEF Leave
  <1>5. CASE MasterFini
    BY <1>0, <1>5, MainKeeps DEF MasterFini
  <1> QED BY <1>1, <1>2, <1>3, <1>4, <1>5

-----------------------------------------------------------------------------
\* The handlers.

\* Around the innermost handler there are only handlers of the other kind.
LEMMA RunningFacts ==
  ASSUME IInv, NEW kind \in {"chld", "term"}, NEW where, Running(kind, where)
  PROVE  /\ pc # "gone" /\ stack # <<>>
         /\ Len(stack) \in 1..Len(stack) /\ Len(stack) \in Nat
         /\ Top = stack[Len(stack)] /\ Top \in Frames /\ Top.kind = kind /\ Top.at = where
         /\ \A i \in 1..Len(stack) : stack[i] \in Frames
         /\ \A i \in 1..Len(stack) : i # Len(stack) => stack[i].kind # kind
  <1>1. /\ pc # "gone" /\ stack # <<>> /\ Top.kind = kind /\ Top.at = where
        /\ TypeOK /\ Top = stack[Len(stack)]
    BY DEF Running, IInv, Top
  <1>2. \A i, j \in 1..Len(stack) : stack[i].kind = stack[j].kind => i = j
    BY <1>1 DEF TypeOK
  <1> QED BY <1>1, <1>2, StackFacts

LEMMA ReapKeeps ==
  ASSUME IInv, Reap
  PROVE  IInv'
  <1>1. Running("chld", "next") /\ UNCHANGED <<main, pend, stop, gen, forks, history>>
    BY DEF Reap
  <1>2. PICK p \in Dead :
          /\ proc' = [proc EXCEPT ![p].state = "reaped"]
          /\ \/ \E s \in Slots : chl[s] = p /\ chl' = [chl EXCEPT ![s] = 0] /\ Go("fork", s, 0)
             \/ (\A s \in Slots : chl[s] # p) /\ UNCHANGED <<chl, stack>>
    BY DEF Reap
  <1>3. /\ TypeOK /\ OneWorkerPerSlot /\ Starting /\ Handlers /\ Recorded /\ Noted
        /\ p \in Pids /\ ~Alive(p) /\ p # 0
        /\ pc' = pc /\ slot' = slot /\ child' = child /\ seen' = seen
        /\ failed' = failed /\ sent' = sent
    BY <1>1 DEF IInv, Dead, Pids, Alive, main, history
  <1>4. /\ proc' \in [Pids -> Procs] /\ ~Alive(p)'
        /\ \A q \in Pids : proc'[q].slot = proc[q].slot /\ proc'[q].gen = proc[q].gen
        /\ \A q \in Pids : Alive(q)' => Alive(q)
    <2> DEFINE d == [proc[p] EXCEPT !.state = "reaped"]
    <2>1. proc \in [Pids -> Procs] /\ proc[p] \in Procs /\ proc' = [proc EXCEPT ![p] = d]
      BY <1>2, <1>3 DEF TypeOK
    <2>2. d \in Procs /\ d.state = "reaped" /\ d.slot = proc[p].slot /\ d.gen = proc[p].gen
      BY <2>1 DEF Procs
    <2> HIDE DEF d
    <2>3. /\ proc' \in [Pids -> Procs] /\ proc'[p] = d
          /\ \A q \in Pids : q # p => proc'[q] = proc[q]
      BY <1>3, <2>1, <2>2
    <2> QED BY <2>2, <2>3 DEF Alive
  <1>5. /\ OneWorkerPerSlot'
        /\ \A s : Vacant(s) => Vacant(s)'
        /\ \A s, q : Sole(s, q) => Sole(s, q)'
    BY <1>1, <1>3, <1>4, NoBirth
  <1>6. ASSUME NEW s \in Slots, chl[s] = p, chl' = [chl EXCEPT ![s] = 0], Go("fork", s, 0)
        PROVE  IInv'
    <2>1. /\ stack' \in Seq(Frames) /\ Len(stack') = Len(stack)
          /\ \A i \in 1..Len(stack) : stack'[i].kind = stack[i].kind
          /\ \A i \in 1..Len(stack) : i # Len(stack) => stack'[i] = stack[i]
          /\ stack'[Len(stack)].at = "fork" /\ stack'[Len(stack)].slot = s
          /\ stack'[Len(stack)].child = 0
          /\ \A i, j \in 1..Len(stack') : stack'[i].kind = stack'[j].kind => i = j
      <3>1. s \in 1..(NWork + 1) /\ 0 \in 0..MaxForks
        BY LifecycleAssumption DEF Slots
      <3> QED BY <1>1, <1>3, <1>6, <3>1, RunningFacts, GoFacts
    <2>2. chl' \in [Slots -> 0..MaxForks] /\ chl'[s] = 0 /\ \A t \in Slots : t # s => chl'[t] = chl[t]
      BY <1>3, <1>6, LifecycleAssumption DEF TypeOK
    <2>3. TypeOK'
      BY <1>1, <1>3, <1>4, <2>1, <2>2 DEF TypeOK
    <2>4. Vacant(s)'
      BY <1>3, <1>4, <1>6 DEF Recorded, Sole, Vacant
    <2>5. Starting'
      <3>1. \A t \in slot..NWork : t \in Slots
        BY <1>3, LifecycleAssumption DEF TypeOK, Slots
      <3>2. \A t \in slot..NWork : chl[t] = 0 => chl'[t] = 0
        BY <2>2, <3>1
      <3>3. slot \in slot..NWork /\ \A t \in (slot + 1)..NWork : t \in slot..NWork
        BY <1>3, LifecycleAssumption DEF TypeOK, Slots
      <3> QED BY <1>3, <1>5, <3>2, <3>3 DEF Starting
    <2>6. pc \in {"fork", "listen"} => s < slot
      BY <1>3, <1>6, LifecycleAssumption DEF Starting, Slots, TypeOK
    <2>7. Handlers'
      <3> SUFFICES ASSUME NEW i \in 1..Len(stack')
                   PROVE  /\ stack'[i].kind = "term" => stack'[i].at = "next" /\ stop'
                          /\ stack'[i].at # "next" =>
                               /\ stack'[i].slot \in Slots /\ chl'[stack'[i].slot] = 0
                               /\ pc' \in {"fork", "listen"} => stack'[i].slot < slot'
                          /\ \A t : stack'[i].at = "fork" /\ t = stack'[i].slot => Vacant(t)'
                          /\ stack'[i].at # "listen"
        BY DEF Handlers
      <3>1. CASE i = Len(stack)
        BY <1>1, <1>3, <2>1, <2>2, <2>4, <2>6, <3>1, RunningFacts
      <3>2. CASE i # Len(stack)
        <4>1. stack'[i] = stack[i] /\ stack[i].kind = "term" /\ stack[i].at = "next" /\ stop
          BY <1>1, <1>3, <2>1, <3>2, RunningFacts DEF Handlers, Frames
        <4> QED BY <1>1, <4>1
      <3> QED BY <3>1, <3>2
    <2>8. Recorded'
      BY <1>3, <1>5, <2>2 DEF Recorded
    <2>9. Noted'
      <3> SUFFICES ASSUME ~stop', pc' \notin {"fini", "gone"}, NEW q \in Pids, Alive(q)'
                   PROVE  \/ chl'[proc'[q].slot] = q \/ proc'[q].slot \in failed'
                          \/ InHand(q)'
        BY DEF Noted
      <3>1. /\ ~stop /\ pc \notin {"fini", "gone"} /\ Alive(q) /\ q # p
            /\ proc'[q].slot = proc[q].slot /\ proc[q].slot \in Slots
        BY <1>1, <1>3, <1>4 DEF TypeOK, Procs
      <3>2. proc[q].slot # s
        BY <1>3, <1>6, <3>1 DEF Recorded, Sole
      <3>3. CASE InHand(q)
        <4>1. ~\E i \in 1..Len(stack) : stack[i].at = "listen"
          <5> SUFFICES ASSUME NEW i \in 1..Len(stack) PROVE stack[i].at # "listen"
            OBVIOUS
          <5>1. CASE i = Len(stack)
            BY <1>1, <5>1, RunningFacts
          <5>2. CASE i # Len(stack)
            BY <1>1, <1>3, <5>2, RunningFacts DEF Handlers, Frames
          <5> QED BY <5>1, <5>2
        <4> QED BY <1>3, <3>1, <3>3, <4>1 DEF InHand
      <3> QED BY <1>3, <2>2, <3>1, <3>2, <3>3 DEF Noted
    <2> QED BY <1>5, <2>3, <2>5, <2>7, <2>8, <2>9 DEF IInv
  <1>7. CASE (\A s \in Slots : chl[s] # p) /\ UNCHANGED <<chl, stack>>
    <2>1. TypeOK'
      BY <1>1, <1>3, <1>4, <1>7 DEF TypeOK
    <2>2. Starting' /\ Recorded'
      BY <1>3, <1>5, <1>7 DEF Starting, Recorded
    <2>3. Handlers'
      BY <1>1, <1>3, <1>5, <1>7 DEF Handlers
    <2>4. Noted'
      BY <1>1, <1>3, <1>4, <1>7 DEF Noted, InHand
    <2> QED BY <1>5, <2>1, <2>2, <2>3, <2>4 DEF IInv
  <1> QED BY <1>2, <1>6, <1>7

\* What start_work finds when handle_sigchld calls it, and what it leaves when
\* the handler goes on, at "listen" with the new process or at "next".
LEMMA StartWorkFacts ==
  ASSUME IInv, NEW where \in {"fork", "listen"}, Running("chld", where)
  PROVE  /\ Top.slot \in Slots /\ chl[Top.slot] = 0
         /\ pc \in {"fork", "listen"} => Top.slot < slot
         /\ where = "fork" => Vacant(Top.slot)
         /\ where = "listen" => Sole(Top.slot, Top.child)
         /\ \A i \in 1..Len(stack) : i # Len(stack) =>
              stack[i].kind = "term" /\ stack[i].at = "next" /\ stop
         /\ ~stop => \A i \in 1..Len(stack) : i = Len(stack)
  <1>1. /\ Handlers /\ Len(stack) \in 1..Len(stack)
        /\ Top = stack[Len(stack)] /\ Top.kind = "chld" /\ Top.at = where
        /\ \A i \in 1..Len(stack) : stack[i] \in Frames
        /\ \A i \in 1..Len(stack) : i # Len(stack) => stack[i].kind # "chld"
    BY RunningFacts DEF IInv
  <1>2. \A i \in 1..Len(stack) : i # Len(stack) =>
          stack[i].kind = "term" /\ stack[i].at = "next" /\ stop
    BY <1>1 DEF Handlers, Frames
  <1>3. /\ Top.slot \in Slots /\ chl[Top.slot] = 0
        /\ pc \in {"fork", "listen"} => Top.slot < slot
        /\ where = "fork" => Vacant(Top.slot)
        /\ where = "listen" => Sole(Top.slot, Top.child)
    BY <1>1 DEF Handlers
  <1> QED BY <1>2, <1>3

LEMMA RestartKeeps ==
  ASSUME IInv, Restart
  PROVE  IInv'
  <1>1. /\ Running("chld", "fork")
        /\ UNCHANGED <<main, pend, stop, chl, sent>>
    BY DEF Restart
  <1>2. /\ TypeOK /\ OneWorkerPerSlot /\ Starting /\ Handlers /\ Recorded /\ Noted
        /\ pc' = pc /\ slot' = slot /\ child' = child /\ seen' = seen
        /\ stack # <<>> /\ Len(stack) \in 1..Len(stack)
    BY <1>1, RunningFacts DEF IInv, main
  <1>3. PICK s \in Slots : s = Top.slot
    BY <1>1, StartWorkFacts
  <1>4. /\ chl[s] = 0 /\ Vacant(s) /\ (pc \in {"fork", "listen"} => s < slot)
        /\ s \in 1..(NWork + 1) /\ 1 \in 1..(NWork + 1) /\ 0 \in 0..MaxForks
    <2>1. chl[s] = 0 /\ Vacant(s) /\ (pc \in {"fork", "listen"} => s < slot)
      BY <1>1, <1>3, StartWorkFacts
    <2> QED BY <2>1, LifecycleAssumption DEF Slots
  <1>5. /\ NewQueues(s)
        /\ \/ Fork(s) /\ Go("listen", s, forks + 1) /\ UNCHANGED failed
           \/ ForkFails /\ Go("next", 1, 0) /\ failed' = failed \cup {s}
    BY <1>3 DEF Restart
  <1>6. \A i \in 1..Len(stack) : i # Len(stack) =>
          stack[i].kind = "term" /\ stack[i].at = "next" /\ stop
    BY <1>1, StartWorkFacts
  <1>7. ~\E i \in 1..Len(stack) : stack[i].at = "listen"
    BY <1>1, <1>6, RunningFacts
  <1>8. CASE Fork(s) /\ Go("listen", s, forks + 1) /\ UNCHANGED failed
    <2>1. /\ OneWorkerPerSlot' /\ \A p : p = forks + 1 => Sole(s, p)'
          /\ \A t : t # s => (Vacant(t) => Vacant(t)') /\ \A p : Sole(t, p) => Sole(t, p)'
          /\ proc' \in [Pids -> Procs] /\ gen' \in [Slots -> Nat]
          /\ forks' \in 0..MaxForks /\ forks + 1 \in 1..MaxForks
          /\ \A p \in Pids : \/ p = forks + 1 /\ proc'[p].slot = s
                             \/ p # forks + 1 /\ proc'[p] = proc[p]
      BY <1>2, <1>4, <1>5, <1>8, Birth
    <2>2. /\ stack' \in Seq(Frames) /\ Len(stack') = Len(stack)
          /\ \A i \in 1..Len(stack) : stack'[i].kind = stack[i].kind
          /\ \A i \in 1..Len(stack) : i # Len(stack) => stack'[i] = stack[i]
          /\ stack'[Len(stack)].at = "listen" /\ stack'[Len(stack)].slot = s
          /\ stack'[Len(stack)].child = forks + 1
          /\ \A i, j \in 1..Len(stack') : stack'[i].kind = stack'[j].kind => i = j
      <3>1. forks + 1 \in 0..MaxForks
        BY <1>2, <2>1 DEF TypeOK
      <3> QED BY <1>2, <1>4, <1>8, <3>1, GoFacts
    <2>3. TypeOK'
      BY <1>1, <1>2, <1>8, <2>1, <2>2 DEF TypeOK
    <2>4. Starting'
      <3>1. pc = "fork" => \A t \in slot..NWork : t # s
        BY <1>2, <1>4 DEF TypeOK, Slots
      <3>2. pc = "listen" => slot # s /\ \A t \in (slot + 1)..NWork : t # s
        BY <1>2, <1>4 DEF TypeOK, Slots
      <3> QED BY <1>1, <1>2, <2>1, <3>1, <3>2 DEF Starting
    <2>5. Handlers'
      <3> SUFFICES ASSUME NEW i \in 1..Len(stack')
                   PROVE  /\ stack'[i].kind = "term" => stack'[i].at = "next" /\ stop'
                          /\ stack'[i].at # "next" =>
                               /\ stack'[i].slot \in Slots /\ chl'[stack'[i].slot] = 0
                               /\ pc' \in {"fork", "listen"} => stack'[i].slot < slot'
                          /\ stack'[i].at # "fork"
                          /\ stack'[i].at = "listen" => Sole(stack[i].slot, stack[i].child)'
        BY DEF Handlers
      <3>1. CASE i = Len(stack)
        BY <1>1, <1>2, <1>4, <2>1, <2>2, <3>1, RunningFacts
      <3>2. CASE i # Len(stack)
        BY <1>1, <1>6, <2>2, <3>2
      <3> QED BY <3>1, <3>2
    <2>6. Recorded'
      BY <1>1, <1>2, <1>4, <2>1 DEF Recorded
    <2>7. Noted'
      <3> SUFFICES ASSUME ~stop', pc' \notin {"fini", "gone"}, NEW p \in Pids, Alive(p)'
                   PROVE  \/ chl'[proc'[p].slot] = p \/ proc'[p].slot \in failed'
                          \/ InHand(p)'
        BY DEF Noted
      <3>1. CASE p = forks + 1
        BY <1>2, <2>1, <2>2, <3>1 DEF InHand
      <3>2. CASE p # forks + 1
        <4>1. proc'[p] = proc[p] /\ Alive(p) /\ ~stop /\ pc \notin {"fini", "gone"}
          BY <1>1, <1>2, <2>1, <3>2 DEF Alive
        <4>2. CASE InHand(p)
          BY <1>2, <1>7, <4>1, <4>2 DEF InHand
        <4> QED BY <1>1, <1>8, <4>1, <4>2, <1>2 DEF Noted
      <3> QED BY <3>1, <3>2
    <2> QED BY <2>1, <2>3, <2>4, <2>5, <2>6, <2>7 DEF IInv
  <1>9. CASE ForkFails /\ Go("next", 1, 0) /\ failed' = failed \cup {s}
    <2>1. /\ OneWorkerPerSlot' /\ gen' \in [Slots -> Nat]
          /\ \A t : Vacant(t) => Vacant(t)'
          /\ \A t, p : Sole(t, p) => Sole(t, p)'
      BY <1>2, <1>4, <1>5, <1>9, NoFork
    <2>2. /\ stack' \in Seq(Frames) /\ Len(stack') = Len(stack)
          /\ \A i \in 1..Len(stack) : stack'[i].kind = stack[i].kind
          /\ \A i \in 1..Len(stack) : i # Len(stack) => stack'[i] = stack[i]
          /\ stack'[Len(stack)].at = "next"
          /\ \A i, j \in 1..Len(stack') : stack'[i].kind = stack'[j].kind => i = j
      BY <1>2, <1>4, <1>9, GoFacts
    <2>3. TypeOK'
      BY <1>1, <1>2, <1>9, <2>1, <2>2 DEF TypeOK, ForkFails
    <2>4. Starting' /\ Recorded'
      BY <1>1, <1>2, <2>1 DEF Starting, Recorded
    <2>5. Handlers'
      <3> SUFFICES ASSUME NEW i \in 1..Len(stack')
                   PROVE  stack'[i].at = "next" /\ (stack'[i].kind = "term" => stop')
        BY DEF Handlers
      <3> QED BY <1>1, <1>6, <2>2, RunningFacts
    <2>6. Noted'
      BY <1>1, <1>2, <1>7, <1>9 DEF Noted, InHand, ForkFails, Alive
    <2> QED BY <2>1, <2>3, <2>4, <2>5, <2>6 DEF IInv
  <1> QED BY <1>5, <1>8, <1>9

LEMMA RestartListenKeeps ==
  ASSUME IInv, RestartListen
  PROVE  IInv'
  <1>1. /\ Running("chld", "listen") /\ Go("next", 1, 0)
        /\ UNCHANGED <<main, pend, stop, gen, forks, proc, sent>>
    BY DEF RestartListen
  <1>2. /\ TypeOK /\ OneWorkerPerSlot /\ Starting /\ Handlers /\ Recorded /\ Noted
        /\ pc' = pc /\ slot' = slot /\ child' = child /\ seen' = seen
        /\ stack # <<>> /\ Len(stack) \in 1..Len(stack)
    BY <1>1, RunningFacts DEF IInv, main
  <1>3. PICK s \in Slots, c \in 0..MaxForks : s = Top.slot /\ c = Top.child
    <2>1. Top \in Frames
      BY <1>1, RunningFacts
    <2> QED BY <1>1, <2>1, StartWorkFacts DEF Frames
  <1>4. /\ chl[s] = 0 /\ Sole(s, c) /\ (pc \in {"fork", "listen"} => s < slot)
    BY <1>1, <1>3, StartWorkFacts
  <1>5. \/ chl' = [chl EXCEPT ![s] = c] /\ UNCHANGED failed
        \/ failed' = failed \cup {s} /\ UNCHANGED chl
    BY <1>3 DEF RestartListen
  <1>6. \A i \in 1..Len(stack) : i # Len(stack) =>
          stack[i].kind = "term" /\ stack[i].at = "next" /\ stop
    BY <1>1, StartWorkFacts
  <1>7. /\ OneWorkerPerSlot'
        /\ \A t : Vacant(t) => Vacant(t)'
        /\ \A t, p : Sole(t, p) => Sole(t, p)'
    BY <1>1, <1>2, NoBirth DEF Alive
  <1>8. /\ stack' \in Seq(Frames) /\ Len(stack') = Len(stack)
        /\ \A i \in 1..Len(stack) : stack'[i].kind = stack[i].kind
        /\ \A i \in 1..Len(stack) : i # Len(stack) => stack'[i] = stack[i]
        /\ stack'[Len(stack)].at = "next"
        /\ \A i, j \in 1..Len(stack') : stack'[i].kind = stack'[j].kind => i = j
    <2>1. 1 \in 1..(NWork + 1) /\ 0 \in 0..MaxForks
      BY LifecycleAssumption
    <2> QED BY <1>1, <1>2, <2>1, GoFacts
  <1>9. /\ chl' \in [Slots -> 0..MaxForks] /\ failed' \subseteq Slots /\ failed \subseteq failed'
        /\ chl'[s] = c \/ s \in failed'
        /\ chl'[s] # 0 => chl'[s] = c
        /\ \A t \in Slots : t # s => chl'[t] = chl[t]
    BY <1>2, <1>4, <1>5 DEF TypeOK
  <1>10. TypeOK'
    BY <1>1, <1>2, <1>8, <1>9 DEF TypeOK
  <1>11. Starting'
    <2>1. pc = "fork" => \A t \in slot..NWork : t # s /\ t \in Slots
      BY <1>2, <1>4 DEF TypeOK, Slots
    <2>2. pc = "listen" => slot # s /\ \A t \in (slot + 1)..NWork : t # s /\ t \in Slots
      BY <1>2, <1>4 DEF TypeOK, Slots
    <2>3. slot \in Slots
      BY <1>2 DEF TypeOK
    <2> QED BY <1>2, <1>7, <1>9, <2>1, <2>2, <2>3 DEF Starting
  <1>12. Handlers'
    <2> SUFFICES ASSUME NEW i \in 1..Len(stack')
                 PROVE  stack'[i].at = "next" /\ (stack'[i].kind = "term" => stop')
      BY DEF Handlers
    <2> QED BY <1>1, <1>6, <1>8, RunningFacts
  <1>13. Recorded'
    <2> SUFFICES ASSUME NEW t \in Slots, chl'[t] # 0
                 PROVE  \A q : q = chl'[t] => Sole(t, q)'
      BY DEF Recorded
    <2>1. CASE t = s
      BY <1>4, <1>7, <1>9, <2>1
    <2>2. CASE t # s
      BY <1>2, <1>7, <1>9, <2>2 DEF Recorded
    <2> QED BY <2>1, <2>2
  <1>14. Noted'
    <2> SUFFICES ASSUME ~stop', pc' \notin {"fini", "gone"}, NEW p \in Pids, Alive(p)'
                 PROVE  \/ chl'[proc'[p].slot] = p \/ proc'[p].slot \in failed'
                        \/ InHand(p)'
      BY DEF Noted
    <2>1. /\ proc'[p] = proc[p] /\ Alive(p) /\ ~stop /\ pc \notin {"fini", "gone"}
          /\ proc[p].slot \in Slots
      BY <1>1, <1>2 DEF Alive, TypeOK, Procs
    <2>2. CASE proc[p].slot = s
      BY <1>4, <1>9, <2>1, <2>2 DEF Sole
    <2>3. CASE proc[p].slot # s
      <3>1. CASE InHand(p)
        <4>1. ASSUME NEW i \in 1..Len(stack), stack[i].at = "listen"
              PROVE  stack[i].slot = s
          BY <1>1, <1>3, <1>6, <4>1, RunningFacts
        <4>2. pc = "listen" /\ child = p /\ slot = proc[p].slot
          BY <2>3, <3>1, <4>1 DEF InHand
        <4> QED BY <1>2, <2>1, <4>2 DEF InHand
      <3>2. CASE ~InHand(p)
        BY <1>2, <1>9, <2>1, <2>3, <3>2 DEF Noted
      <3> QED BY <3>1, <3>2
    <2> QED BY <2>2, <2>3
  <1> QED BY <1>7, <1>10, <1>11, <1>12, <1>13, <1>14 DEF IInv

\* A signal to the group changes nothing but who has a SIGTERM on its way.
LEMMA KillFacts ==
  ASSUME NEW procs \in [Pids -> Procs]
  PROVE  /\ KillGroup(procs) \in [Pids -> Procs]
         /\ \A p \in Pids : /\ KillGroup(procs)[p].state = procs[p].state
                            /\ KillGroup(procs)[p].slot = procs[p].slot
                            /\ KillGroup(procs)[p].gen = procs[p].gen
  <1> DEFINE k(p) == [procs[p] EXCEPT !.term = @ \/ procs[p].state \in {"born", "ready", "loop"}]
  <1>1. ASSUME NEW p \in Pids
        PROVE  /\ k(p) \in Procs /\ k(p).state = procs[p].state
               /\ k(p).slot = procs[p].slot /\ k(p).gen = procs[p].gen
    <2>1. procs[p] \in Procs
      OBVIOUS
    <2> QED BY <2>1 DEF Procs
  <1>2. KillGroup(procs) = [p \in Pids |-> k(p)]
    BY DEF KillGroup
  <1> QED BY <1>1, <1>2

\* What the other steps do: no work process starts or changes its slot; pids are
\* only cleared, and only once the master is to stop; handlers come, go and go
\* on where nobody is in start_work.
NobodyStarts ==
  /\ proc' \in [Pids -> Procs]
  /\ \A p \in Pids : Alive(p)' => /\ Alive(p) /\ proc'[p].slot = proc[p].slot
                                  /\ proc'[p].gen = proc[p].gen

PidsStay ==
  /\ chl' \in [Slots -> 0..MaxForks]
  /\ \A s \in Slots : chl'[s] = chl[s] \/ (chl'[s] = 0 /\ stop)

HandlersMove ==
  /\ stack' \in Seq(Frames)
  /\ \A i, j \in 1..Len(stack') : stack'[i].kind = stack'[j].kind => i = j
  /\ \A i \in 1..Len(stack') : \/ i \in 1..Len(stack) /\ stack'[i] = stack[i]
                               \/ stack'[i].at = "next" /\ (stack'[i].kind = "term" => stop')
  /\ stop' \/ \A i \in 1..Len(stack) :
       stack[i].at = "listen" => i \in 1..Len(stack') /\ stack'[i] = stack[i]

LEMMA QuietKeeps ==
  ASSUME IInv, NobodyStarts, PidsStay, HandlersMove,
         UNCHANGED <<pc, slot, child, seen, gen, forks, failed>>,
         stop => stop', stop' \in BOOLEAN, sent' \in BOOLEAN,
         pend' \subseteq {"chld", "term"}
  PROVE  IInv'
  <1> USE DEF NobodyStarts, PidsStay, HandlersMove
  <1>1. TypeOK /\ OneWorkerPerSlot /\ Starting /\ Handlers /\ Recorded /\ Noted
    BY DEF IInv
  <1>2. /\ OneWorkerPerSlot'
        /\ \A s : Vacant(s) => Vacant(s)'
        /\ \A s, p : Sole(s, p) => Sole(s, p)'
    BY <1>1, NoBirth
  <1>3. TypeOK'
    BY <1>1 DEF TypeOK
  <1>4. \A s \in Slots : chl[s] = 0 => chl'[s] = 0
    OBVIOUS
  <1>5. Starting'
    <2>1. slot \in Slots /\ \A t \in slot..NWork : t \in Slots
      BY <1>1, LifecycleAssumption DEF TypeOK, Slots
    <2>2. \A t \in (slot + 1)..NWork : t \in Slots
      BY <1>1, LifecycleAssumption DEF TypeOK, Slots
    <2> QED BY <1>1, <1>2, <1>4, <2>1, <2>2 DEF Starting
  <1>6. Handlers'
    <2> SUFFICES ASSUME NEW i \in 1..Len(stack'), i \in 1..Len(stack) /\ stack'[i] = stack[i]
                 PROVE  /\ stack'[i].kind = "term" => stack'[i].at = "next" /\ stop'
                        /\ stack'[i].at # "next" =>
                             /\ stack'[i].slot \in Slots /\ chl'[stack'[i].slot] = 0
                             /\ pc' \in {"fork", "listen"} => stack'[i].slot < slot'
                        /\ stack'[i].at = "fork" => Vacant(stack[i].slot)'
                        /\ stack'[i].at = "listen" => Sole(stack[i].slot, stack[i].child)'
      BY DEF Handlers
    <2> QED BY <1>1, <1>2, <1>4 DEF Handlers
  <1>7. Recorded'
    BY <1>1, <1>2 DEF Recorded
  <1>8. Noted'
    <2> SUFFICES ASSUME ~stop', pc' \notin {"fini", "gone"}, NEW p \in Pids, Alive(p)'
                 PROVE  \/ chl'[proc'[p].slot] = p \/ proc'[p].slot \in failed'
                        \/ InHand(p)'
      BY DEF Noted
    <2>1. /\ ~stop /\ pc \notin {"fini", "gone"} /\ Alive(p) /\ proc'[p].slot = proc[p].slot
          /\ proc[p].slot \in Slots
      BY <1>1 DEF TypeOK, Procs
    <2>2. InHand(p) => InHand(p)'
      BY <2>1 DEF InHand
    <2> QED BY <1>1, <2>1, <2>2 DEF Noted
  <1> QED BY <1>2, <1>3, <1>5, <1>6, <1>7, <1>8 DEF IInv

\* Nothing is less than that.
LEMMA Unmoved ==
  ASSUME IInv
  PROVE  /\ UNCHANGED proc => NobodyStarts
         /\ UNCHANGED chl => PidsStay
         /\ UNCHANGED <<stack, stop>> => HandlersMove
  BY DEF IInv, TypeOK, NobodyStarts, PidsStay, HandlersMove, Alive

\* A handler that is not in start_work returns.
LEMMA ReturnKeeps ==
  ASSUME IInv, NEW kind \in {"chld", "term"}, Running(kind, "next"), Return,
         UNCHANGED <<main, pend, stop, chl, gen, forks, proc, history>>
  PROVE  IInv'
  <1>1. TypeOK /\ stack # <<>>
    BY RunningFacts DEF IInv
  <1>2. /\ stack' \in Seq(Frames) /\ Len(stack') = Len(stack) - 1
        /\ \A i \in 1..Len(stack') : i \in 1..Len(stack) /\ stack'[i] = stack[i]
        /\ \A i, j \in 1..Len(stack') : stack'[i].kind = stack'[j].kind => i = j
    BY <1>1, ReturnFacts
  <1>3. \A i \in 1..Len(stack) :
          stack[i].at = "listen" => i \in 1..Len(stack') /\ stack'[i] = stack[i]
    BY <1>2, RunningFacts
  <1>4. HandlersMove
    BY <1>2, <1>3 DEF HandlersMove
  <1>5. /\ UNCHANGED <<pc, slot, child, seen, gen, forks, failed, chl, proc>>
        /\ (stop => stop') /\ stop' \in BOOLEAN /\ sent' \in BOOLEAN
        /\ pend' \subseteq {"chld", "term"}
    BY <1>1 DEF main, history, TypeOK
  <1> QED BY <1>4, <1>5, Unmoved, QuietKeeps

LEMMA TermRoundKeeps ==
  ASSUME IInv, TermRound
  PROVE  IInv'
  <1>1. /\ Running("term", "next") /\ Top.slot <= NWork /\ Go("next", Top.slot + 1, 0)
        /\ UNCHANGED <<pc, slot, child, seen, stop, gen, forks, failed>>
    BY DEF TermRound, main
  <1>2. /\ TypeOK /\ stack # <<>> /\ Len(stack) \in 1..Len(stack) /\ stop
        /\ Top.slot \in Slots /\ Top.slot + 1 \in 1..(NWork + 1) /\ 0 \in 0..MaxForks
    <2>1. /\ stack # <<>> /\ Len(stack) \in 1..Len(stack)
          /\ Top = stack[Len(stack)] /\ Top \in Frames /\ Top.kind = "term"
      BY <1>1, RunningFacts
    <2>2. stop
      BY <2>1 DEF IInv, Handlers
    <2>3. Top.slot \in 1..(NWork + 1)
      BY <2>1 DEF Frames
    <2> QED BY <1>1, <2>1, <2>2, <2>3, LifecycleAssumption DEF IInv, Slots
  <1>3. /\ stack' \in Seq(Frames) /\ Len(stack') = Len(stack)
        /\ \A i \in 1..Len(stack) : stack'[i].kind = stack[i].kind
        /\ \A i \in 1..Len(stack) : i # Len(stack) => stack'[i] = stack[i]
        /\ stack'[Len(stack)].at = "next"
        /\ \A i, j \in 1..Len(stack') : stack'[i].kind = stack'[j].kind => i = j
    BY <1>1, <1>2, GoFacts
  <1>4. HandlersMove
    BY <1>1, <1>2, <1>3 DEF HandlersMove
  <1>5. CASE chl[Top.slot] = 0
    <2>1. UNCHANGED <<chl, proc, pend, sent>>
      BY <1>5 DEF TermRound
    <2>2. (stop => stop') /\ stop' \in BOOLEAN /\ sent' \in BOOLEAN /\ pend' \subseteq {"chld", "term"}
      BY <1>1, <1>2, <2>1 DEF TypeOK
    <2> QED BY <1>1, <1>4, <2>1, <2>2, Unmoved, QuietKeeps
  <1>6. CASE chl[Top.slot] # 0
    <2>1. /\ chl' = [chl EXCEPT ![Top.slot] = 0] /\ proc' = KillGroup(proc)
          /\ pend' = pend \cup {"term"} /\ sent' = TRUE
      BY <1>6 DEF TermRound
    <2>2. NobodyStarts
      BY <1>2, <2>1, KillFacts DEF TypeOK, Alive, NobodyStarts
    <2>3. PidsStay
      BY <1>2, <2>1, LifecycleAssumption DEF TypeOK, PidsStay
    <2>4. (stop => stop') /\ stop' \in BOOLEAN /\ sent' \in BOOLEAN /\ pend' \subseteq {"chld", "term"}
      BY <1>1, <1>2, <2>1 DEF TypeOK
    <2> QED BY <1>1, <1>4, <2>2, <2>3, <2>4, QuietKeeps
  <1> QED BY <1>5, <1>6

LEMMA DeliverKeeps ==
  ASSUME IInv, NEW kind \in {"chld", "term"}, Deliver(kind)
  PROVE  IInv'
  <1>1. /\ TypeOK /\ ~In(kind) /\ stack' = Append(stack, Frame(kind))
        /\ pend' = pend \ {kind} /\ stop' = (stop \/ kind = "term")
        /\ UNCHANGED <<pc, slot, child, seen, chl, gen, forks, proc, failed, sent>>
    BY DEF Deliver, IInv, main, history
  <1>2. /\ stack' \in Seq(Frames) /\ Len(stack') = Len(stack) + 1
        /\ \A i \in 1..Len(stack) : stack'[i] = stack[i]
        /\ stack'[Len(stack) + 1] = Frame(kind)
        /\ \A i, j \in 1..Len(stack') : stack'[i].kind = stack'[j].kind => i = j
    BY <1>1, PushFacts
  <1>3. ASSUME NEW i \in 1..Len(stack')
        PROVE  \/ i \in 1..Len(stack) /\ stack'[i] = stack[i]
               \/ stack'[i].at = "next" /\ (stack'[i].kind = "term" => stop')
    <2>1. CASE i = Len(stack) + 1
      <3>1. stack'[i] = Frame(kind)
        BY <1>2, <2>1
      <3>2. Frame(kind).at = "next" /\ Frame(kind).kind = kind
        BY DEF Frame
      <3>3. kind = "term" => stop'
        BY <1>1
      <3> QED BY <3>1, <3>2, <3>3
    <2>2. CASE i # Len(stack) + 1
      <3>1. Len(stack) \in Nat
        BY <1>1, StackFacts
      <3>2. i \in 1..Len(stack)
        BY <1>2, <2>2, <3>1
      <3> QED BY <1>2, <3>2
    <2> QED BY <2>1, <2>2
  <1>4. \A i \in 1..Len(stack) : i \in 1..Len(stack') /\ stack'[i] = stack[i]
    BY <1>1, <1>2, StackFacts
  <1>5. HandlersMove
    BY <1>2, <1>3, <1>4 DEF HandlersMove
  <1>6. (stop => stop') /\ stop' \in BOOLEAN /\ sent' \in BOOLEAN /\ pend' \subseteq {"chld", "term"}
    BY <1>1 DEF TypeOK
  <1> QED BY <1>1, <1>5, <1>6, Unmoved, QuietKeeps

-----------------------------------------------------------------------------
\* The work processes.

LEMMA WorkKeeps ==
  ASSUME IInv, Work, NobodyStarts, pend' \subseteq {"chld", "term"}
  PROVE  IInv'
  <1>1. /\ UNCHANGED <<pc, slot, child, seen, gen, forks, failed, stack, stop, sent, chl>>
        /\ (stop => stop') /\ stop' \in BOOLEAN /\ sent' \in BOOLEAN
    BY DEF Work, main, history, IInv, TypeOK
  <1> QED BY <1>1, Unmoved, QuietKeeps

\* One of them turns into another record of the same slot and queues.
LEMMA ChangeFacts ==
  ASSUME TypeOK, NEW p \in Pids, NEW new \in Procs,
         new.state \in {"born", "ready", "loop"} => Alive(p) /\ new.slot = proc[p].slot
                                                 /\ new.gen = proc[p].gen
  PROVE  LET procs == [proc EXCEPT ![p] = new]
         IN  /\ procs \in [Pids -> Procs]
             /\ \A q \in Pids : procs[q].state \in {"born", "ready", "loop"} =>
                  /\ Alive(q) /\ procs[q].slot = proc[q].slot /\ procs[q].gen = proc[q].gen
  BY DEF TypeOK, Alive

LEMMA WorkInitKeeps ==
  ASSUME IInv, NEW p \in Pids, WorkInit(p) \/ WorkInitNoLog(p) \/ WorkStart(p)
  PROVE  IInv'
  <1>1. TypeOK /\ proc[p] \in Procs /\ Alive(p) /\ Work /\ pend' \subseteq {"chld", "term"}
    BY DEF WorkInit, WorkInitNoLog, WorkStart, IInv, TypeOK, Alive
  <1>2. PICK new : proc' = [proc EXCEPT ![p] = new] /\ new \in Procs
                   /\ new.slot = proc[p].slot /\ new.gen = proc[p].gen
    <2>1. CASE WorkInit(p)
      <3> DEFINE new == [proc[p] EXCEPT !.state = "ready", !.stop = FALSE, !.kids = FALSE,
                                        !.forgot = proc[p].forgot \/ proc[p].stop]
      <3>1. new \in Procs /\ new.slot = proc[p].slot /\ new.gen = proc[p].gen
        BY <1>1 DEF Procs
      <3>2. proc' = [proc EXCEPT ![p] = new]
        BY <2>1 DEF WorkInit
      <3> QED BY <3>1, <3>2
    <2>2. CASE WorkStart(p)
      <3> DEFINE new == [proc[p] EXCEPT !.state = "loop", !.stop = FALSE,
                                        !.forgot = proc[p].forgot \/ proc[p].stop]
      <3>1. new \in Procs /\ new.slot = proc[p].slot /\ new.gen = proc[p].gen
        BY <1>1 DEF Procs
      <3>2. proc' = [proc EXCEPT ![p] = new]
        BY <2>2 DEF WorkStart
      <3> QED BY <3>1, <3>2
    <2>3. CASE WorkInitNoLog(p)
      <3> DEFINE new == [proc[p] EXCEPT !.state = "ready"]
      <3>1. new \in Procs /\ new.slot = proc[p].slot /\ new.gen = proc[p].gen
        BY <1>1 DEF Procs
      <3>2. proc' = [proc EXCEPT ![p] = new]
        BY <2>3 DEF WorkInitNoLog
      <3> QED BY <3>1, <3>2
    <2> QED BY <2>1, <2>2, <2>3
  <1>3. NobodyStarts
    BY <1>1, <1>2, ChangeFacts DEF Alive, NobodyStarts
  <1> QED BY <1>1, <1>3, WorkKeeps

LEMMA WorkTermKeeps ==
  ASSUME IInv, NEW p \in Pids, WorkTerm(p)
  PROVE  IInv'
  <1> DEFINE new   == [proc[p] EXCEPT !.term = FALSE, !.stop = TRUE, !.kids = FALSE]
             taken == [proc EXCEPT ![p] = new]
  <1>1. TypeOK /\ proc[p] \in Procs /\ Alive(p) /\ Work
    BY DEF WorkTerm, IInv, TypeOK
  <1>2. new \in Procs /\ new.slot = proc[p].slot /\ new.gen = proc[p].gen
    BY <1>1 DEF Procs
  <1>3. /\ proc' = taken \/ proc' = KillGroup(taken)
        /\ pend' \subseteq pend \cup {"term"}
    BY DEF WorkTerm
  <1> HIDE DEF new
  <1>4. /\ taken \in [Pids -> Procs]
        /\ \A q \in Pids : taken[q].state \in {"born", "ready", "loop"} =>
             /\ Alive(q) /\ taken[q].slot = proc[q].slot /\ taken[q].gen = proc[q].gen
    BY <1>1, <1>2, ChangeFacts
  <1> HIDE DEF taken
  <1>5. NobodyStarts
    BY <1>3, <1>4, KillFacts DEF Alive, NobodyStarts
  <1>6. pend' \subseteq {"chld", "term"}
    BY <1>1, <1>3 DEF TypeOK
  <1> QED BY <1>1, <1>5, <1>6, WorkKeeps

LEMMA DieKeeps ==
  ASSUME IInv, NEW p \in Pids, WorkExit(p) \/ Crash(p)
  PROVE  IInv'
  <1>1. TypeOK /\ proc[p] \in Procs /\ Work /\ Die(p)
    BY DEF WorkExit, Crash, IInv, TypeOK
  <1>2. PICK state \in {"reaped", "zombie"} :
          /\ proc' = [proc EXCEPT ![p] = [[NoProc EXCEPT !.slot = proc[p].slot] EXCEPT !.state = state]]
          /\ pend' \subseteq pend \cup {"chld"}
    BY <1>1 DEF Die
  <1> DEFINE new == [[NoProc EXCEPT !.slot = proc[p].slot] EXCEPT !.state = state]
  <1>3. new \in Procs /\ new.state = state
    <2>1. proc[p].slot \in Slots /\ 0 \in Nat
      BY <1>1 DEF Procs
    <2> QED BY <2>1 DEF NoProc, Procs
  <1>4. proc' = [proc EXCEPT ![p] = new]
    BY <1>2, Zenon
  <1> HIDE DEF new
  <1>5. NobodyStarts
    BY <1>1, <1>3, <1>4, ChangeFacts DEF Alive, NobodyStarts
  <1>6. pend' \subseteq {"chld", "term"}
    BY <1>1, <1>2 DEF TypeOK
  <1> QED BY <1>1, <1>5, <1>6, WorkKeeps

LEMMA AskToStopKeeps ==
  ASSUME IInv, AskToStop
  PROVE  IInv'
  <1>1. /\ Work /\ UNCHANGED proc /\ pend' \subseteq {"chld", "term"}
    BY DEF AskToStop, Work, IInv, TypeOK, main, history
  <1> QED BY <1>1, Unmoved, WorkKeeps

-----------------------------------------------------------------------------

\* Nobody has been started.
LEMMA InitIInv == Init => IInv
  <1> SUFFICES ASSUME Init PROVE IInv
    OBVIOUS
  <1>1. /\ Len(stack) = 0 /\ stack \in Seq(Frames) /\ slot \in Slots
        /\ \A p \in Pids : ~Alive(p)
    BY LifecycleAssumption, EmptySeq DEF Init, Slots, Alive, NoProc
  <1>2. NoProc \in Procs
    BY LifecycleAssumption DEF NoProc, Procs, Slots
  <1>3. TypeOK
    <2>1. /\ \A i, j \in 1..Len(stack) : stack[i].kind = stack[j].kind => i = j
          /\ 0 \in 0..MaxForks /\ 0 \in Nat
      BY <1>1, LifecycleAssumption
    <2>2. /\ proc \in [Pids -> Procs] /\ chl \in [Slots -> 0..MaxForks]
          /\ gen \in [Slots -> Nat]
      BY <1>2, <2>1 DEF Init
    <2> QED BY <1>1, <2>1, <2>2 DEF Init, TypeOK
  <1>4. Starting
    BY <1>1 DEF Init, Starting, Vacant, Slots
  <1> QED
    BY <1>1, <1>3, <1>4 DEF Init, IInv, OneWorkerPerSlot, Handlers, Recorded, Noted

\* Every step keeps the inductive invariant.
LEMMA NextIInv == IInv /\ [Next]_vars => IInv'
  <1> SUFFICES ASSUME IInv, [Next]_vars PROVE IInv'
    OBVIOUS
  <1>1. CASE MainFork \/ MainListen
    BY <1>1, MainForkKeeps, MainListenKeeps
  <1>2. CASE MainInit \/ (\E s \in Slots : Use(s)) \/ Used \/ Leave \/ MasterFini
    BY <1>2, MainOtherKeeps
  <1>3. CASE Reap \/ Restart \/ RestartListen \/ TermRound
    BY <1>3, ReapKeeps, RestartKeeps, RestartListenKeeps, TermRoundKeeps
  <1>4. CASE ReapNone
    BY <1>4, ReturnKeeps DEF ReapNone
  <1>5. CASE TermReturn
    BY <1>5, ReturnKeeps DEF TermReturn
  <1>6. ASSUME NEW kind \in {"chld", "term"}, Deliver(kind)
        PROVE  IInv'
    BY <1>6, DeliverKeeps
  <1>7. ASSUME NEW p \in Pids, Worker(p) \/ Crash(p)
        PROVE  IInv'
    BY <1>7, WorkInitKeeps, WorkTermKeeps, DieKeeps DEF Worker
  <1>8. CASE AskToStop
    BY <1>8, AskToStopKeeps
  <1>9. CASE UNCHANGED vars
    <2>1. /\ Work /\ UNCHANGED proc /\ pend' \subseteq {"chld", "term"}
      BY <1>9 DEF vars, Work, main, history, IInv, TypeOK
    <2> QED BY <2>1, Unmoved, WorkKeeps
  <1> QED
    BY <1>1, <1>2, <1>3, <1>4, <1>5, <1>6, <1>7, <1>8, <1>9 DEF Next, Master, Handler

LEMMA Invariance == Spec => []IInv
  BY InitIInv, NextIInv, PTL DEF Spec

\* The variables hold values of their kinds, and no handler runs inside itself.
THEOREM TypeCorrect == Spec => []TypeOK
  <1>1. IInv => TypeOK
    BY DEF IInv
  <1> QED BY Invariance, <1>1, PTL

\* No slot has two work processes, and the one it has uses the queues the
\* master holds (start_work, master.c:462-472).
THEOREM OneWorker == Spec => []OneWorkerPerSlot
  <1>1. IInv => OneWorkerPerSlot
    BY DEF IInv
  <1> QED BY Invariance, <1>1, PTL

\* In its loop the master has every work process written down, except where
\* start_work gave up (handle_sigchld, master.c:448-452).
THEOREM LiveRecorded == Spec => []LiveIsRecorded
  <1>1. IInv => LiveIsRecorded
    <2> SUFFICES ASSUME IInv, pc \in {"loop", "use"}, ~stop, ~In("chld"),
                        NEW p \in Pids, Alive(p)
                 PROVE  chl[proc[p].slot] = p \/ proc[p].slot \in failed
      BY DEF LiveIsRecorded
    <2>1. \A i \in 1..Len(stack) : stack[i].at = "next"
      <3>1. \A i \in 1..Len(stack) : stack[i] \in Frames /\ stack[i].kind # "chld"
        BY StackFacts DEF IInv, In
      <3> QED BY <3>1 DEF IInv, Handlers, Frames
    <2>2. ~InHand(p)
      BY <2>1 DEF InHand
    <2> QED BY <2>2 DEF IInv, Noted
  <1> QED BY Invariance, <1>1, PTL
=============================================================================
