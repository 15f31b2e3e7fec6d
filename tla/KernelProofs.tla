---------------------------- MODULE KernelProofs ----------------------------
(***************************************************************************)
(* Kernel keeps its queues, its process states and its semaphore counts    *)
(* consistent, for every size of the tables and every set of priorities,   *)
(* counts and delays: first the scheduler, then the handlers of Kernel,    *)
(* and at the end the semaphores, which keep the promise of Semaphores:    *)
(* each step of the kernel is one that Semaphores allows, or leaves its    *)
(* state alone.                                                            *)
(***************************************************************************)
EXTENDS KernelRefinement, QueuesProofs, FiniteSetTheorems

\* The scheduler.

SchedType ==
    [prstate : [Pid -> PrState], prprio : [Pid -> Nat], qkey : [Pid -> Int],
     readylist : Queue(Pid), currpid : Pid, preempt : 1 .. QUANTUM,
     ndefers : Nat, attempt : BOOLEAN]

Runnable == {"CURR", "READY"}

\* Between a call's changes and its resched: the current process may have left
\* the processor, but the null process is there to take it.
Eligible(s) ==
    /\ s \in SchedType
    /\ Range(s.readylist) = {p \in Pid : s.prstate[p] = "READY"}
    /\ s.prstate[NULLPROC] \in Runnable
    /\ \A p \in Pid : s.prstate[p] = "CURR" => p = s.currpid

\* Outside the scheduler: one process is current.
Dispatched(s) == Eligible(s) /\ s.prstate[s.currpid] = "CURR"

\* The processes outside X move between running and ready at most: that is
\* all the scheduler does to the processes it is not called for.
Keeps(s, t, X) ==
    \A p \in Pid \ X : IF s.prstate[p] \in Runnable THEN t.prstate[p] \in Runnable
                       ELSE t.prstate[p] = s.prstate[p]

KeepsBlocked(s, t) == Keeps(s, t, {}) /\ t.ndefers = s.ndefers

\* The null process has an entry.
LEMMA NullPid == NULLPROC \in Pid
BY NPROCAssumption DEF NULLPROC, Pid

\* ready's first half: the process joins the ready list.
LEMMA MakeReadyEligible ==
  ASSUME NEW s, Eligible(s), NEW pid \in Pid, s.prstate[pid] # "READY"
  PROVE  /\ Eligible(MakeReady(s, pid))
         /\ MakeReady(s, pid).prstate = [s.prstate EXCEPT ![pid] = "READY"]
         /\ MakeReady(s, pid).ndefers = s.ndefers
         /\ MakeReady(s, pid).currpid = s.currpid
<1> DEFINE t == MakeReady(s, pid)
           q == Insert(s.readylist, s.qkey, pid, s.prprio[pid])
<1>1. s \in SchedType /\ s.readylist \in Queue(Pid) /\ s.prprio[pid] \in Int
  BY DEF Eligible, SchedType
<1>2. pid \notin Range(s.readylist)
  BY DEF Eligible
<1>3. q \in Queue(Pid) /\ Range(q) = Range(s.readylist) \cup {pid}
  BY <1>1, <1>2, InsertQueue
<1> HIDE DEF q
<1>4. t = [s EXCEPT !.prstate = [s.prstate EXCEPT ![pid] = "READY"],
                    !.readylist = q,
                    !.qkey = [s.qkey EXCEPT ![pid] = s.prprio[pid]]]
  BY <1>1 DEF MakeReady, q, SchedType
<1>5. t \in SchedType
  <2> DEFINE st == [s.prstate EXCEPT ![pid] = "READY"]
             ks == [s.qkey EXCEPT ![pid] = s.prprio[pid]]
  <2>1. st \in [Pid -> PrState]
    BY <1>1 DEF SchedType, PrState
  <2>2. ks \in [Pid -> Int]
    BY <1>1 DEF SchedType
  <2> HIDE DEF st, ks
  <2>3. t = [s EXCEPT !.prstate = st, !.readylist = q, !.qkey = ks]
    BY <1>4 DEF st, ks
  <2> HIDE DEF t
  <2> QED  BY <1>1, <1>3, <2>1, <2>2, <2>3 DEF SchedType
<1>6. /\ t.prstate = [s.prstate EXCEPT ![pid] = "READY"] /\ t.readylist = q
      /\ t.currpid = s.currpid /\ t.ndefers = s.ndefers
  BY <1>1, <1>4 DEF SchedType
<1> HIDE DEF t
<1>7. Range(t.readylist) = {p \in Pid : t.prstate[p] = "READY"}
  BY <1>1, <1>3, <1>6 DEF Eligible, SchedType
<1>8. t.prstate[NULLPROC] \in Runnable /\ \A p \in Pid : t.prstate[p] = "CURR" => p = t.currpid
  BY <1>1, <1>6, NullPid DEF Eligible, SchedType, Runnable
<1> QED  BY <1>5, <1>6, <1>7, <1>8 DEF Eligible, t

\* The end of resched, once nobody is current.
LEMMA SwitchDispatches ==
  ASSUME NEW s, Eligible(s), \A p \in Pid : s.prstate[p] # "CURR"
  PROVE  Dispatched(Switch(s)) /\ KeepsBlocked(s, Switch(s))
<1> DEFINE t == Switch(s)
           new == Head(s.readylist)
<1>1. s \in SchedType /\ s.readylist \in Queue(Pid)
  BY DEF Eligible, SchedType
<1>2. NULLPROC \in Range(s.readylist)
  BY NullPid DEF Eligible, Runnable
<1>3. ~IsEmpty(s.readylist)
  BY <1>2, EmptyQueue DEF IsEmpty
<1>4. /\ new \in Pid /\ new \in Range(s.readylist) /\ Tail(s.readylist) \in Queue(Pid)
      /\ Range(Tail(s.readylist)) = Range(s.readylist) \ {new}
  BY <1>1, <1>3, DequeueQueue
<1> HIDE DEF new
<1>5. t = [s EXCEPT !.currpid = new, !.readylist = Tail(s.readylist),
                    !.prstate = [s.prstate EXCEPT ![new] = "CURR"], !.preempt = QUANTUM]
  BY <1>1 DEF Switch, new, SchedType
<1>6. t \in SchedType
  <2> DEFINE st == [s.prstate EXCEPT ![new] = "CURR"]
             rl == Tail(s.readylist)
  <2>1. st \in [Pid -> PrState] /\ rl \in Queue(Pid)
    BY <1>1, <1>4 DEF SchedType, PrState
  <2>2. QUANTUM \in 1 .. QUANTUM
    BY QUANTUMAssumption
  <2> HIDE DEF st, rl
  <2>3. t = [s EXCEPT !.currpid = new, !.readylist = rl, !.prstate = st, !.preempt = QUANTUM]
    BY <1>5 DEF st, rl
  <2> HIDE DEF t
  <2> QED  BY <1>1, <1>4, <2>1, <2>2, <2>3 DEF SchedType
<1>7. /\ t.prstate = [s.prstate EXCEPT ![new] = "CURR"] /\ t.readylist = Tail(s.readylist)
      /\ t.currpid = new /\ t.ndefers = s.ndefers
  BY <1>1, <1>5 DEF SchedType
<1> HIDE DEF t
<1>8. s.prstate \in [Pid -> PrState]
  BY <1>1 DEF SchedType
<1>9. Range(t.readylist) = {p \in Pid : t.prstate[p] = "READY"}
  BY <1>4, <1>7, <1>8 DEF Eligible
<1>10. /\ t.prstate[NULLPROC] \in Runnable /\ t.prstate[t.currpid] = "CURR"
       /\ \A p \in Pid : t.prstate[p] = "CURR" => p = t.currpid
  BY <1>4, <1>7, <1>8, NullPid DEF Eligible, Runnable
<1>11. s.prstate[new] = "READY"
  BY <1>4 DEF Eligible
<1>12. KeepsBlocked(s, t)
  BY <1>4, <1>7, <1>8, <1>11 DEF KeepsBlocked, Keeps, Runnable
<1> QED  BY <1>6, <1>9, <1>10, <1>12 DEF Eligible, Dispatched, t

\* resched, when it is not deferred.
LEMMA ReschedDispatches ==
  ASSUME NEW s, Eligible(s), s.ndefers = 0
  PROVE  Dispatched(Resched(s)) /\ KeepsBlocked(s, Resched(s))
<1>1. s \in SchedType /\ s.currpid \in Pid /\ s.prstate \in [Pid -> PrState]
  BY DEF Eligible, SchedType
<1>2. CASE s.prstate[s.currpid] # "CURR"
  <2>1. \A p \in Pid : s.prstate[p] # "CURR"
    BY <1>2 DEF Eligible
  <2>2. Resched(s) = Switch(s)
    BY <1>2 DEF Resched
  <2> QED  BY <2>1, <2>2, SwitchDispatches
<1>3. CASE s.prstate[s.currpid] = "CURR" /\ OutranksReady(s)
  <2>1. Resched(s) = s
    BY <1>3 DEF Resched
  <2> QED  BY <1>3, <2>1 DEF Dispatched, KeepsBlocked, Keeps
<1>4. CASE s.prstate[s.currpid] = "CURR" /\ ~OutranksReady(s)
  <2> DEFINE t == MakeReady(s, s.currpid)
  <2>1. Resched(s) = Switch(t)
    BY <1>4 DEF Resched
  <2>2. /\ Eligible(t) /\ t.prstate = [s.prstate EXCEPT ![s.currpid] = "READY"]
        /\ t.ndefers = s.ndefers
    BY <1>1, <1>4, MakeReadyEligible
  <2> HIDE DEF t
  <2>3. \A p \in Pid : t.prstate[p] # "CURR"
    BY <1>1, <2>2 DEF Eligible
  <2>4. Dispatched(Switch(t)) /\ KeepsBlocked(t, Switch(t))
    BY <2>2, <2>3, SwitchDispatches
  <2>5. KeepsBlocked(s, Switch(t))
    BY <1>1, <1>4, <2>2, <2>4 DEF KeepsBlocked, Keeps, Runnable
  <2> QED  BY <2>1, <2>4, <2>5
<1> QED  BY <1>2, <1>3, <1>4

\* resched, under deferral: only the attempt is recorded.
LEMMA ReschedDeferred ==
  ASSUME NEW s, s.ndefers > 0
  PROVE  Resched(s) = [s EXCEPT !.attempt = TRUE]
BY DEF Resched

\* ready, of a process that is neither running nor ready.
LEMMA ReadyDispatches ==
  ASSUME NEW s, Dispatched(s), NEW pid \in Pid, s.prstate[pid] \notin Runnable
  PROVE  /\ Dispatched(Ready(s, pid))
         /\ Ready(s, pid).ndefers = s.ndefers
         /\ s.ndefers > 0 => Ready(s, pid).currpid = s.currpid
         /\ Ready(s, pid).prstate[pid] \in Runnable
         /\ Keeps(s, Ready(s, pid), {pid})
<1> DEFINE t == MakeReady(s, pid)
           u == Resched(t)
<1>1. /\ s \in SchedType /\ s.currpid \in Pid /\ s.prstate \in [Pid -> PrState]
      /\ s.ndefers \in Nat
  BY DEF Dispatched, Eligible, SchedType
<1>2. /\ Eligible(t) /\ t.prstate = [s.prstate EXCEPT ![pid] = "READY"]
      /\ t.ndefers = s.ndefers /\ t.currpid = s.currpid
  BY MakeReadyEligible DEF Dispatched, Runnable
<1>3. Ready(s, pid) = u
  BY DEF Ready
<1> HIDE DEF t
<1>4. pid # s.currpid
  BY DEF Dispatched, Runnable
<1>5. t \in SchedType
  BY <1>2 DEF Eligible
<1>6. CASE s.ndefers = 0
  <2>1. Dispatched(u) /\ KeepsBlocked(t, u)
    BY <1>2, <1>6, ReschedDispatches
  <2> HIDE DEF u
  <2> QED  BY <1>1, <1>2, <1>3, <1>6, <2>1 DEF KeepsBlocked, Keeps, Runnable
<1>7. CASE s.ndefers > 0
  <2>1. u = [t EXCEPT !.attempt = TRUE]
    BY <1>2, <1>7, ReschedDeferred
  <2>2. /\ u \in SchedType /\ u.prstate = t.prstate /\ u.currpid = t.currpid
        /\ u.ndefers = t.ndefers /\ u.readylist = t.readylist
    BY <1>5, <2>1 DEF SchedType
  <2> HIDE DEF u
  <2>3. Eligible(u)
    BY <1>2, <2>2 DEF Eligible
  <2>4. u.prstate[u.currpid] = "CURR"
    BY <1>1, <1>2, <1>4, <2>2 DEF Dispatched
  <2> QED  BY <1>1, <1>2, <1>3, <2>2, <2>3, <2>4 DEF Dispatched, Keeps, Runnable
<1> QED  BY <1>1, <1>6, <1>7

\* The current process blocks: somebody else is current afterwards.
LEMMA BlockDispatches ==
  ASSUME NEW s, Dispatched(s), s.ndefers = 0, s.currpid # NULLPROC,
         NEW state \in PrState \ Runnable
  PROVE  /\ Dispatched(Block(s, state))
         /\ Block(s, state).ndefers = 0
         /\ Block(s, state).prstate[s.currpid] = state
         /\ Keeps(s, Block(s, state), {s.currpid})
<1> DEFINE t == [s EXCEPT !.prstate[s.currpid] = state]
           u == Resched(t)
<1>1. s \in SchedType /\ s.currpid \in Pid /\ s.prstate \in [Pid -> PrState]
  BY DEF Dispatched, Eligible, SchedType
<1>2. Block(s, state) = u
  BY DEF Block
<1>3. t \in SchedType
  BY <1>1 DEF SchedType, PrState
<1>4. /\ t.prstate = [s.prstate EXCEPT ![s.currpid] = state] /\ t.readylist = s.readylist
      /\ t.currpid = s.currpid /\ t.ndefers = 0
  BY <1>1 DEF SchedType
<1> HIDE DEF t
<1>5. s.prstate[s.currpid] # "READY"
  BY DEF Dispatched
<1>6. Eligible(t)
  BY <1>1, <1>3, <1>4, <1>5, NullPid DEF Dispatched, Eligible, Runnable
<1>7. Dispatched(u) /\ KeepsBlocked(t, u)
  BY <1>4, <1>6, ReschedDispatches
<1> HIDE DEF u
<1> QED  BY <1>1, <1>2, <1>4, <1>7 DEF KeepsBlocked, Keeps, Runnable

\* The end of a deferral.
LEMMA DeferStopDispatches ==
  ASSUME NEW s, Dispatched(s), s.ndefers = 1
  PROVE  /\ Dispatched(DeferStop(s)) /\ DeferStop(s).ndefers = 0
         /\ Keeps(s, DeferStop(s), {})
<1> DEFINE t == [s EXCEPT !.ndefers = s.ndefers - 1]
<1>1. s \in SchedType
  BY DEF Dispatched, Eligible
<1>2. /\ t \in SchedType /\ t.ndefers = 0 /\ t.prstate = s.prstate
      /\ t.currpid = s.currpid /\ t.readylist = s.readylist
  BY <1>1 DEF SchedType
<1>3. DeferStop(s) = IF s.attempt THEN Resched(t) ELSE t
  BY <1>1, <1>2 DEF DeferStop, SchedType
<1> HIDE DEF t
<1>4. Dispatched(t)
  BY <1>2 DEF Dispatched, Eligible
<1>5. Dispatched(Resched(t)) /\ KeepsBlocked(t, Resched(t))
  BY <1>2, <1>4, ReschedDispatches DEF Dispatched
<1> QED  BY <1>2, <1>3, <1>4, <1>5 DEF KeepsBlocked, Keeps

\* A change that leaves the ready list, the current process and who is running
\* or ready as they are.
LEMMA RewriteDispatches ==
  ASSUME NEW s, Dispatched(s), NEW t \in SchedType,
         t.readylist = s.readylist, t.currpid = s.currpid,
         \A p \in Pid : \/ t.prstate[p] = s.prstate[p]
                        \/ t.prstate[p] \notin Runnable /\ s.prstate[p] \notin Runnable
  PROVE  Dispatched(t)
<1>1. s.currpid \in Pid
  BY DEF Dispatched, Eligible, SchedType
<1>2. Range(t.readylist) = {p \in Pid : t.prstate[p] = "READY"}
  BY DEF Dispatched, Eligible, Runnable
<1>3. /\ t.prstate[NULLPROC] \in Runnable
      /\ \A p \in Pid : t.prstate[p] = "CURR" => p = t.currpid
  BY NullPid DEF Dispatched, Eligible, Runnable
<1>4. t.prstate[t.currpid] = "CURR"
  BY <1>1 DEF Dispatched, Runnable
<1> QED  BY <1>2, <1>3, <1>4 DEF Dispatched, Eligible

\* Three changes the callers of the scheduler make to its record.
Rekeyed(s, ks) == [s EXCEPT !.qkey = ks]

Restated(s, pid, state, ps, ks) ==
    [s EXCEPT !.prstate = [s.prstate EXCEPT ![pid] = state], !.prprio = ps, !.qkey = ks]

Unready(s, pid, state) ==
    [s EXCEPT !.readylist = GetItem(s.readylist, pid),
              !.prstate = [s.prstate EXCEPT ![pid] = state]]

\* The keys of the sleep queue are rewritten.
LEMMA QkeyDispatches ==
  ASSUME NEW s, Dispatched(s), NEW ks \in [Pid -> Int]
  PROVE  /\ Dispatched(Rekeyed(s, ks)) /\ Rekeyed(s, ks).prstate = s.prstate
         /\ Rekeyed(s, ks).currpid = s.currpid /\ Rekeyed(s, ks).ndefers = s.ndefers
<1> DEFINE t == Rekeyed(s, ks)
<1>1. s \in SchedType
  BY DEF Dispatched, Eligible
<1>2. /\ t \in SchedType /\ t.prstate = s.prstate /\ t.readylist = s.readylist
      /\ t.currpid = s.currpid /\ t.ndefers = s.ndefers
  BY <1>1 DEF SchedType, Rekeyed
<1> HIDE DEF t
<1>3. Dispatched(t)
  BY <1>2, RewriteDispatches
<1> QED  BY <1>2, <1>3 DEF t

\* A process off the processor and the ready list gets another state that is
\* off them too, and perhaps another priority.
LEMMA RestateDispatches ==
  ASSUME NEW s, Dispatched(s), NEW pid \in Pid, s.prstate[pid] \notin Runnable,
         NEW state \in PrState \ Runnable, NEW ps \in [Pid -> Nat], NEW ks \in [Pid -> Int]
  PROVE  /\ Dispatched(Restated(s, pid, state, ps, ks))
         /\ Restated(s, pid, state, ps, ks).ndefers = s.ndefers
         /\ Restated(s, pid, state, ps, ks).currpid = s.currpid
         /\ Restated(s, pid, state, ps, ks).prstate = [s.prstate EXCEPT ![pid] = state]
<1> DEFINE st == [s.prstate EXCEPT ![pid] = state]
           t == Restated(s, pid, state, ps, ks)
<1>1. s \in SchedType /\ s.prstate \in [Pid -> PrState]
  BY DEF Dispatched, Eligible, SchedType
<1>2. st \in [Pid -> PrState]
  BY <1>1
<1>3. t = [s EXCEPT !.prstate = st, !.prprio = ps, !.qkey = ks]
  BY DEF Restated
<1> HIDE DEF st, t
<1>4. /\ t \in SchedType /\ t.prstate = st /\ t.readylist = s.readylist
      /\ t.currpid = s.currpid /\ t.ndefers = s.ndefers
  BY <1>1, <1>2, <1>3 DEF SchedType
<1>5. \A p \in Pid : \/ t.prstate[p] = s.prstate[p]
                     \/ t.prstate[p] \notin Runnable /\ s.prstate[p] \notin Runnable
  BY <1>1, <1>4 DEF st
<1>6. Dispatched(t)
  BY <1>4, <1>5, RewriteDispatches
<1>7. t.prstate = [s.prstate EXCEPT ![pid] = state]
  BY <1>4 DEF st
<1> QED  BY <1>4, <1>6, <1>7 DEF t

\* A ready process leaves the ready list.
LEMMA UnreadyDispatches ==
  ASSUME NEW s, Dispatched(s), NEW pid \in Pid, pid # NULLPROC, s.prstate[pid] = "READY",
         NEW state \in PrState \ Runnable
  PROVE  /\ Dispatched(Unready(s, pid, state))
         /\ Unready(s, pid, state).ndefers = s.ndefers
         /\ Unready(s, pid, state).currpid = s.currpid
         /\ Unready(s, pid, state).prstate = [s.prstate EXCEPT ![pid] = state]
<1> DEFINE st == [s.prstate EXCEPT ![pid] = state]
           rl == GetItem(s.readylist, pid)
           t == Unready(s, pid, state)
<1>1. /\ s \in SchedType /\ s.prstate \in [Pid -> PrState] /\ s.readylist \in Queue(Pid)
      /\ s.currpid \in Pid
  BY DEF Dispatched, Eligible, SchedType
<1>2. pid \in Range(s.readylist) /\ pid # s.currpid
  BY DEF Dispatched, Eligible
<1>3. rl \in Queue(Pid) /\ Range(rl) = Range(s.readylist) \ {pid}
  BY <1>1, <1>2, GetItemQueue
<1>4. st \in [Pid -> PrState]
  BY <1>1
<1>5. t = [s EXCEPT !.readylist = rl, !.prstate = st]
  BY DEF Unready
<1> HIDE DEF rl, st, t
<1>6. /\ t \in SchedType /\ t.prstate = st /\ t.readylist = rl
      /\ t.currpid = s.currpid /\ t.ndefers = s.ndefers
  BY <1>1, <1>3, <1>4, <1>5 DEF SchedType
<1>7. Range(t.readylist) = {p \in Pid : t.prstate[p] = "READY"}
  BY <1>1, <1>3, <1>6 DEF Dispatched, Eligible, Runnable, st
<1>8. /\ t.prstate[NULLPROC] \in Runnable /\ t.prstate[t.currpid] = "CURR"
      /\ \A p \in Pid : t.prstate[p] = "CURR" => p = t.currpid
  BY <1>1, <1>2, <1>6, NullPid DEF Dispatched, Eligible, Runnable, st
<1>9. t.prstate = [s.prstate EXCEPT ![pid] = state]
  BY <1>6 DEF st
<1> QED  BY <1>6, <1>7, <1>8, <1>9 DEF Dispatched, Eligible, t

\* The beginning of a deferral.
LEMMA DeferStartDispatches ==
  ASSUME NEW s, Dispatched(s), s.ndefers = 0
  PROVE  /\ Dispatched(DeferStart(s)) /\ DeferStart(s).ndefers = 1
         /\ DeferStart(s).currpid = s.currpid /\ DeferStart(s).prstate = s.prstate
<1> DEFINE t == DeferStart(s)
<1>1. s \in SchedType
  BY DEF Dispatched, Eligible
<1>2. t = [s EXCEPT !.ndefers = 1, !.attempt = FALSE]
  BY <1>1 DEF SchedType, DeferStart
<1> HIDE DEF t
<1>3. /\ t \in SchedType /\ t.prstate = s.prstate /\ t.readylist = s.readylist
      /\ t.currpid = s.currpid /\ t.ndefers = 1
  BY <1>1, <1>2 DEF SchedType
<1>4. Dispatched(t)
  BY <1>3, RewriteDispatches
<1> QED  BY <1>3, <1>4 DEF t

-----------------------------------------------------------------------------
\* The ready list is in the order of the priorities: its keys fall, and are
\* the priorities the ready processes have.
Ranked(s) ==
    /\ Descending(s.readylist, s.qkey)
    /\ \A p \in Pid : s.prstate[p] = "READY" => s.qkey[p] = s.prprio[p]

\* No ready process outranks the current one.
TopRuns(s) ==
    \A p \in Pid : s.prstate[p] = "READY" => s.prprio[p] <= s.prprio[s.currpid]

\* Between two calls of the scheduler: only an attempt made under deferral may
\* leave a higher priority waiting.
Scheduled(s) ==
    Dispatched(s) /\ Ranked(s) /\ (s.ndefers = 0 \/ ~s.attempt => TopRuns(s))

\* ready's insert puts the process where its priority belongs.
LEMMA MakeReadyRanked ==
  ASSUME NEW s, Eligible(s), Ranked(s), NEW pid \in Pid, s.prstate[pid] # "READY"
  PROVE  Ranked(MakeReady(s, pid))
<1> DEFINE t == MakeReady(s, pid)
           q == Insert(s.readylist, s.qkey, pid, s.prprio[pid])
           ks == [s.qkey EXCEPT ![pid] = s.prprio[pid]]
<1>1. /\ s \in SchedType /\ s.readylist \in Queue(Pid) /\ s.prprio[pid] \in Int
      /\ s.qkey \in [Pid -> Int] /\ s.prstate \in [Pid -> PrState]
  BY DEF Eligible, SchedType
<1>2. pid \notin Range(s.readylist)
  BY DEF Eligible
<1>3. Descending(q, ks)
  BY <1>1, <1>2, InsertDescending DEF Ranked
<1>4. /\ t.prstate = [s.prstate EXCEPT ![pid] = "READY"] /\ t.readylist = q
      /\ t.qkey = ks /\ t.prprio = s.prprio
  BY <1>1 DEF MakeReady, SchedType
<1> HIDE DEF t, q
<1>5. \A p \in Pid : t.prstate[p] = "READY" => t.qkey[p] = t.prprio[p]
  BY <1>1, <1>4 DEF Ranked
<1> QED  BY <1>3, <1>4, <1>5 DEF Ranked, t

\* The head of the ready list outranks the rest of it.
LEMMA SwitchRanked ==
  ASSUME NEW s, Eligible(s), Ranked(s), \A p \in Pid : s.prstate[p] # "CURR"
  PROVE  Ranked(Switch(s)) /\ TopRuns(Switch(s))
<1> DEFINE t == Switch(s)
           new == Head(s.readylist)
<1>1. /\ s \in SchedType /\ s.readylist \in Queue(Pid) /\ s.qkey \in [Pid -> Int]
      /\ s.prstate \in [Pid -> PrState]
  BY DEF Eligible, SchedType
<1>2. ~IsEmpty(s.readylist)
  BY NullPid, EmptyQueue DEF IsEmpty, Eligible, Runnable
<1>3. new \in Pid /\ new \in Range(s.readylist)
  BY <1>1, <1>2, DequeueQueue
<1>4. \A p \in Range(s.readylist) : s.qkey[p] <= s.qkey[new]
  BY <1>1, <1>2, HeadHighest DEF Ranked
<1>5. Descending(Tail(s.readylist), s.qkey)
  BY <1>1, <1>3, LeaveDescending DEF Ranked
<1> HIDE DEF new
<1>6. /\ t.prstate = [s.prstate EXCEPT ![new] = "CURR"] /\ t.readylist = Tail(s.readylist)
      /\ t.qkey = s.qkey /\ t.prprio = s.prprio /\ t.currpid = new
  BY <1>1 DEF Switch, new, SchedType
<1> HIDE DEF t
<1>7. ASSUME NEW p \in Pid, t.prstate[p] = "READY"
      PROVE  t.qkey[p] = t.prprio[p] /\ t.prprio[p] <= t.prprio[new]
  <2>1. s.prstate[p] = "READY" /\ p \in Range(s.readylist) /\ s.prstate[new] = "READY"
    BY <1>1, <1>3, <1>6, <1>7 DEF Eligible
  <2>2. s.qkey[p] = s.prprio[p] /\ s.qkey[new] = s.prprio[new]
    BY <1>3, <2>1 DEF Ranked
  <2> QED  BY <1>4, <1>6, <2>1, <2>2
<1> QED  BY <1>5, <1>6, <1>7 DEF Ranked, TopRuns, t

\* resched, when it is not deferred, leaves the processor to a process that
\* nobody outranks.
LEMMA ReschedRanked ==
  ASSUME NEW s, Eligible(s), Ranked(s), s.ndefers = 0
  PROVE  Ranked(Resched(s)) /\ TopRuns(Resched(s))
<1>1. /\ s \in SchedType /\ s.currpid \in Pid /\ s.prstate \in [Pid -> PrState]
      /\ s.prprio \in [Pid -> Nat] /\ s.qkey \in [Pid -> Int] /\ s.readylist \in Queue(Pid)
  BY DEF Eligible, SchedType
<1>2. CASE s.prstate[s.currpid] # "CURR"
  <2>1. \A p \in Pid : s.prstate[p] # "CURR"
    BY <1>2 DEF Eligible
  <2>2. Resched(s) = Switch(s)
    BY <1>2 DEF Resched
  <2> QED  BY <2>1, <2>2, SwitchRanked
<1>3. CASE s.prstate[s.currpid] = "CURR" /\ OutranksReady(s)
  <2>1. Resched(s) = s
    BY <1>3 DEF Resched
  <2>2. ASSUME NEW p \in Pid, s.prstate[p] = "READY"
        PROVE  s.prprio[p] <= s.prprio[s.currpid]
    <3>1. p \in Range(s.readylist) /\ s.qkey[p] = s.prprio[p]
      BY <2>2 DEF Eligible, Ranked
    <3>2. ~IsEmpty(s.readylist)
      BY <3>1, EmptyQueue DEF IsEmpty
    <3>3. Head(s.readylist) \in Pid
      BY <1>1, <3>2, DequeueQueue
    <3>4. s.qkey[p] <= s.qkey[Head(s.readylist)]
      BY <1>1, <3>1, <3>2, HeadHighest DEF Ranked
    <3>5. s.prprio[s.currpid] > s.qkey[Head(s.readylist)]
      BY <1>3, <3>2 DEF OutranksReady
    <3> QED  BY <1>1, <3>1, <3>3, <3>4, <3>5
  <2> QED  BY <2>1, <2>2 DEF TopRuns
<1>4. CASE s.prstate[s.currpid] = "CURR" /\ ~OutranksReady(s)
  <2> DEFINE t == MakeReady(s, s.currpid)
  <2>1. Resched(s) = Switch(t)
    BY <1>4 DEF Resched
  <2>2. Eligible(t) /\ t.prstate = [s.prstate EXCEPT ![s.currpid] = "READY"] /\ Ranked(t)
    BY <1>1, <1>4, MakeReadyEligible, MakeReadyRanked
  <2> HIDE DEF t
  <2>3. \A p \in Pid : t.prstate[p] # "CURR"
    BY <1>1, <2>2 DEF Eligible
  <2> QED  BY <2>1, <2>2, <2>3, SwitchRanked
<1> QED  BY <1>2, <1>3, <1>4

\* A change that the ready list and the ready processes do not show.
LEMMA RewriteRanked ==
  ASSUME NEW s, Eligible(s), Ranked(s), NEW t, t.readylist = s.readylist,
         \A p \in Pid : t.prstate[p] = "READY" => s.prstate[p] = "READY",
         \A p \in Pid : s.prstate[p] = "READY" => /\ t.qkey[p] = s.qkey[p]
                                                  /\ t.prprio[p] = s.prprio[p]
  PROVE  /\ Ranked(t)
         /\ TopRuns(s) /\ t.currpid = s.currpid /\ t.prprio[s.currpid] = s.prprio[s.currpid]
               => TopRuns(t)
<1>1. s.readylist \in Seq(Pid)
  BY DEF Eligible, SchedType, Queue
<1>2. \A i \in 1 .. Len(s.readylist) : t.qkey[s.readylist[i]] = s.qkey[s.readylist[i]]
  BY <1>1 DEF Eligible, Range
<1>3. Descending(t.readylist, t.qkey)
  BY <1>2 DEF Ranked, Descending
<1> QED  BY <1>3 DEF Ranked, TopRuns

-----------------------------------------------------------------------------
\* Each operation leaves a scheduled state scheduled.

\* resched.
LEMMA ReschedScheduled ==
  ASSUME NEW s, Scheduled(s), s.ndefers = 0
  PROVE  Scheduled(Resched(s))
<1>1. Eligible(s) /\ Ranked(s)
  BY DEF Scheduled, Dispatched
<1> QED  BY <1>1, ReschedDispatches, ReschedRanked DEF Scheduled

\* ready, deferred or not.
LEMMA ReadyScheduled ==
  ASSUME NEW s, Scheduled(s), NEW pid \in Pid, s.prstate[pid] \notin Runnable
  PROVE  Scheduled(Ready(s, pid))
<1> DEFINE t == MakeReady(s, pid)
<1>1. Dispatched(s) /\ Eligible(s) /\ Ranked(s) /\ s.prstate[pid] # "READY" /\ s.ndefers \in Nat
  BY DEF Scheduled, Dispatched, Runnable, Eligible, SchedType
<1>2. Eligible(t) /\ Ranked(t) /\ t.ndefers = s.ndefers
  BY <1>1, MakeReadyEligible, MakeReadyRanked
<1>3. Ready(s, pid) = Resched(t) /\ Dispatched(Ready(s, pid))
  BY <1>1, ReadyDispatches DEF Ready
<1> HIDE DEF t
<1>4. CASE s.ndefers = 0
  BY <1>2, <1>3, <1>4, ReschedRanked DEF Scheduled
<1>5. CASE s.ndefers > 0
  <2>1. Resched(t) = [t EXCEPT !.attempt = TRUE]
    BY <1>2, <1>5, ReschedDeferred
  <2> DEFINE u == [t EXCEPT !.attempt = TRUE]
  <2>2. /\ u.readylist = t.readylist /\ u.qkey = t.qkey /\ u.prprio = t.prprio
        /\ u.prstate = t.prstate /\ u.ndefers = t.ndefers /\ u.attempt = TRUE
    BY <1>2 DEF Eligible, SchedType
  <2> HIDE DEF u
  <2>3. Ranked(u)
    BY <1>2, <2>2, RewriteRanked
  <2> QED  BY <1>2, <1>3, <1>5, <2>1, <2>2, <2>3 DEF Scheduled, u
<1> QED  BY <1>1, <1>4, <1>5

\* The current process leaves the processor.
LEMMA BlockScheduled ==
  ASSUME NEW s, Scheduled(s), s.ndefers = 0, s.currpid # NULLPROC,
         NEW state \in PrState \ Runnable
  PROVE  Scheduled(Block(s, state))
<1> DEFINE t == [s EXCEPT !.prstate[s.currpid] = state]
<1>1. /\ Dispatched(s) /\ Eligible(s) /\ Ranked(s) /\ s \in SchedType
      /\ s.currpid \in Pid /\ s.prstate \in [Pid -> PrState]
  BY DEF Scheduled, Dispatched, Eligible, SchedType
<1>2. Dispatched(Block(s, state)) /\ Block(s, state) = Resched(t)
  BY <1>1, BlockDispatches DEF Block
<1>3. t \in SchedType
  BY <1>1 DEF SchedType, PrState
<1>4. /\ t.prstate = [s.prstate EXCEPT ![s.currpid] = state] /\ t.readylist = s.readylist
      /\ t.currpid = s.currpid /\ t.ndefers = 0 /\ t.qkey = s.qkey /\ t.prprio = s.prprio
  BY <1>1 DEF SchedType
<1> HIDE DEF t
<1>5. Eligible(t)
  BY <1>1, <1>3, <1>4, NullPid DEF Dispatched, Eligible, Runnable
<1>6. Ranked(t)
  BY <1>1, <1>4, RewriteRanked DEF Runnable
<1> QED  BY <1>2, <1>4, <1>5, <1>6, ReschedRanked DEF Scheduled

\* A deferral begins and ends: its end makes up for the attempts.
LEMMA DeferScheduled ==
  ASSUME NEW s, Scheduled(s)
  PROVE  /\ s.ndefers = 0 => Scheduled(DeferStart(s))
         /\ s.ndefers = 1 => Scheduled(DeferStop(s))
<1>1. Dispatched(s) /\ Eligible(s) /\ Ranked(s) /\ s \in SchedType
  BY DEF Scheduled, Dispatched, Eligible
<1>2. ASSUME s.ndefers = 0
      PROVE  Scheduled(DeferStart(s))
  <2> DEFINE t == DeferStart(s)
  <2>1. /\ t.prstate = s.prstate /\ t.readylist = s.readylist /\ t.currpid = s.currpid
        /\ t.qkey = s.qkey /\ t.prprio = s.prprio
    BY <1>1 DEF DeferStart, SchedType
  <2>2. Dispatched(t)
    BY <1>1, <1>2, DeferStartDispatches
  <2> HIDE DEF t
  <2> QED  BY <1>1, <1>2, <2>1, <2>2, RewriteRanked DEF Scheduled, t
<1>3. ASSUME s.ndefers = 1
      PROVE  Scheduled(DeferStop(s))
  <2> DEFINE t == [s EXCEPT !.ndefers = s.ndefers - 1]
  <2>1. /\ t \in SchedType /\ t.prstate = s.prstate /\ t.readylist = s.readylist
        /\ t.currpid = s.currpid /\ t.qkey = s.qkey /\ t.prprio = s.prprio
        /\ t.ndefers = 0
    BY <1>1, <1>3 DEF SchedType
  <2>2. DeferStop(s) = IF s.attempt THEN Resched(t) ELSE t
    BY <1>1, <1>3, <2>1 DEF DeferStop, SchedType
  <2>3. Dispatched(DeferStop(s))
    BY <1>1, <1>3, DeferStopDispatches
  <2> HIDE DEF t
  <2>4. Eligible(t) /\ Ranked(t) /\ (TopRuns(s) => TopRuns(t))
    BY <1>1, <2>1, RewriteRanked DEF Eligible
  <2>5. CASE s.attempt
    BY <2>1, <2>2, <2>3, <2>4, <2>5, ReschedRanked DEF Scheduled
  <2>6. CASE ~s.attempt
    BY <2>2, <2>3, <2>4, <2>6 DEF Scheduled
  <2> QED  BY <2>5, <2>6
<1> QED  BY <1>2, <1>3

\* The callers' own changes.
LEMMA RekeyedScheduled ==
  ASSUME NEW s, Scheduled(s), NEW ks \in [Pid -> Int],
         \A p \in Pid : s.prstate[p] = "READY" => ks[p] = s.qkey[p]
  PROVE  Scheduled(Rekeyed(s, ks))
<1> DEFINE t == Rekeyed(s, ks)
<1>1. Dispatched(s) /\ Eligible(s) /\ Ranked(s) /\ s \in SchedType
  BY DEF Scheduled, Dispatched, Eligible
<1>2. /\ t.prstate = s.prstate /\ t.readylist = s.readylist /\ t.currpid = s.currpid
      /\ t.qkey = ks /\ t.prprio = s.prprio /\ t.ndefers = s.ndefers /\ t.attempt = s.attempt
  BY <1>1 DEF Rekeyed, SchedType
<1>3. Dispatched(t)
  BY <1>1, QkeyDispatches
<1> HIDE DEF t
<1> QED  BY <1>1, <1>2, <1>3, RewriteRanked DEF Scheduled, t

\* A process off the processor and the ready list is given another state and
\* perhaps another priority, or a ready process leaves the list.
LEMMA RestatedScheduled ==
  ASSUME NEW s, Scheduled(s), NEW pid \in Pid, NEW state \in PrState \ Runnable
  PROVE  /\ \A ps \in [Pid -> Nat] :
              s.prstate[pid] \notin Runnable /\ (\A p \in Pid \ {pid} : ps[p] = s.prprio[p])
                 => Scheduled(Restated(s, pid, state, ps, s.qkey))
         /\ pid # NULLPROC /\ s.prstate[pid] = "READY" => Scheduled(Unready(s, pid, state))
<1>1. /\ Dispatched(s) /\ Eligible(s) /\ Ranked(s) /\ s \in SchedType
      /\ s.prstate \in [Pid -> PrState] /\ s.currpid \in Pid /\ s.qkey \in [Pid -> Int]
      /\ s.readylist \in Queue(Pid)
  BY DEF Scheduled, Dispatched, Eligible, SchedType
<1>2. ASSUME NEW ps \in [Pid -> Nat], s.prstate[pid] \notin Runnable,
             \A p \in Pid \ {pid} : ps[p] = s.prprio[p]
      PROVE  Scheduled(Restated(s, pid, state, ps, s.qkey))
  <2> DEFINE t == Restated(s, pid, state, ps, s.qkey)
  <2>1. /\ t.prstate = [s.prstate EXCEPT ![pid] = state] /\ t.readylist = s.readylist
        /\ t.currpid = s.currpid /\ t.qkey = s.qkey /\ t.prprio = ps
        /\ t.ndefers = s.ndefers /\ t.attempt = s.attempt
    BY <1>1 DEF Restated, SchedType
  <2>2. Dispatched(t)
    BY <1>1, <1>2, RestateDispatches
  <2> HIDE DEF t
  <2>3. pid # s.currpid /\ s.prstate[pid] # "READY"
    BY <1>1, <1>2 DEF Dispatched, Runnable
  <2>4. Ranked(t) /\ (TopRuns(s) => TopRuns(t))
    BY <1>1, <1>2, <2>1, <2>3, RewriteRanked DEF Runnable
  <2> QED  BY <2>1, <2>2, <2>4 DEF Scheduled, t
<1>3. ASSUME pid # NULLPROC, s.prstate[pid] = "READY"
      PROVE  Scheduled(Unready(s, pid, state))
  <2> DEFINE t == Unready(s, pid, state)
  <2>1. /\ t.prstate = [s.prstate EXCEPT ![pid] = state]
        /\ t.readylist = GetItem(s.readylist, pid)
        /\ t.currpid = s.currpid /\ t.qkey = s.qkey /\ t.prprio = s.prprio
        /\ t.ndefers = s.ndefers /\ t.attempt = s.attempt
    BY <1>1 DEF Unready, SchedType
  <2>2. Dispatched(t)
    BY <1>1, <1>3, UnreadyDispatches
  <2> HIDE DEF t
  <2>3. pid \in Range(s.readylist)
    BY <1>1, <1>3 DEF Eligible
  <2>4. Descending(t.readylist, t.qkey)
    BY <1>1, <2>1, <2>3, LeaveDescending DEF Ranked
  <2>5. \A p \in Pid : t.prstate[p] = "READY" => s.prstate[p] = "READY"
    BY <1>1, <1>3, <2>1
  <2>6. Ranked(t)
    BY <1>1, <2>1, <2>4, <2>5 DEF Ranked
  <2>7. TopRuns(s) => TopRuns(t)
    BY <2>1, <2>5 DEF TopRuns
  <2> QED  BY <2>1, <2>2, <2>6, <2>7 DEF Scheduled, t
<1> QED  BY <1>2, <1>3

-----------------------------------------------------------------------------
\* The kernel.

SemLoops == {"signaln", "semdelete", "semreset"}
LoopOps  == SemLoops \cup {"wakeup"}
Asleep   == {"SLEEP", "RECTIM"}

ContType == [op : ContOps, obj : Pid \cup Sem, n : Nat]

\* A continuation of the right shape; kill's victim is never the null process.
ContOK(c) == /\ c \in ContType
             /\ c.op = "kill" => c.obj \in Pid \ {NULLPROC}
             /\ c.op \in SemLoops => c.obj \in Sem

\* Only the current process is in a loop under deferral, one defer deep.
ContInv ==
    /\ cont \in [Pid -> ContType]
    /\ \A p \in Pid : ContOK(cont[p]) /\ (cont[p].op \in LoopOps => p = Cur)
    /\ sched.ndefers = IF cont[Cur].op \in LoopOps THEN 1 ELSE 0

TableType ==
    /\ prhasmsg \in [Pid -> BOOLEAN]
    /\ prparent \in [Pid -> Pid]
    /\ prcount \in Int
    /\ nextpid \in 1 .. NPROC
    /\ nextsem \in Sem

SleepOK == sleepq \in Queue(Pid) /\ Range(sleepq) = InState(Asleep)

\* A free semaphore has no waiters, unless semdelete is still releasing them.
FreeEmpty ==
    \A sem \in Sem : sstate[sem] = "S_FREE" =>
        scount[sem] >= 0 \/ (At("semdelete") /\ cont[Cur].obj = sem)

SemOK ==
    /\ prsem \in [Pid -> Sem \cup {-1}]
    /\ sstate \in [Sem -> {"S_FREE", "S_USED"}]
    /\ scount \in [Sem -> Int]
    /\ squeue \in [Sem -> Queue(Pid)]
    /\ \A sem \in Sem : Range(squeue[sem]) = {p \in InState({"WAIT"}) : prsem[p] = sem}
    /\ \A p \in InState({"WAIT"}) : prsem[p] \in Sem
    /\ CountsMatchQueues
    /\ FreeEmpty

\* The inductive invariant.
IInv == Dispatched(sched) /\ ContInv /\ TableType /\ SleepOK /\ SemOK

-----------------------------------------------------------------------------
\* Frames: what a step need not look at.

Blocked == Asleep \cup {"WAIT"}

\* No process starts or stops sleeping or waiting.
StillAsleep  == \A p \in Pid : State(p)' \in Asleep <=> State(p) \in Asleep
StillWaiting == \A p \in Pid : State(p)' = "WAIT" <=> State(p) = "WAIT"
Still        == StillAsleep /\ StillWaiting

Looping == cont[Cur].op \in LoopOps

\* The scheduler leaves the sleepers and waiters alone.
LEMMA KeepsStill ==
  ASSUME NEW X, Keeps(sched, sched', X),
         \A p \in Pid : p \in X => State(p) \notin Blocked /\ State(p)' \notin Blocked
  PROVE  Still
<1>1. ASSUME NEW p \in Pid
      PROVE  /\ State(p)' \in Asleep <=> State(p) \in Asleep
             /\ State(p)' = "WAIT" <=> State(p) = "WAIT"
  <2>1. CASE p \in X
    BY <2>1 DEF Blocked
  <2>2. CASE p \notin X
    BY <2>2 DEF Keeps, Runnable, Asleep, State
  <2> QED  BY <2>1, <2>2
<1> QED  BY <1>1 DEF Still, StillAsleep, StillWaiting

\* Unchanged states are a special case.
LEMMA SameStill ==
  ASSUME sched'.prstate = sched.prstate
  PROVE  Still
BY DEF Still, StillAsleep, StillWaiting, State

\* The sleep queue stays right if nobody starts or stops sleeping.
LEMMA SleepQuiet ==
  ASSUME SleepOK, StillAsleep, UNCHANGED sleepq
  PROVE  SleepOK'
<1>1. \A p \in Pid : State(p)' \in Asleep <=> State(p) \in Asleep
  BY DEF StillAsleep
<1>2. InState(Asleep)' = InState(Asleep)
  BY <1>1, Zenon DEF InState, State, Asleep
<1> QED  BY <1>2 DEF SleepOK

\* So do the semaphores if nobody starts or stops waiting.
LEMMA SemQuiet ==
  ASSUME SemOK, StillWaiting, ~Looping, UNCHANGED <<sstate, scount, squeue>>,
         prsem' \in [Pid -> Sem \cup {-1}],
         \A p \in Pid : State(p) = "WAIT" => prsem'[p] = prsem[p]
  PROVE  SemOK'
<1>1. InState({"WAIT"})' = InState({"WAIT"}) /\ \A p \in InState({"WAIT"}) : State(p) = "WAIT"
  <2>1. \A p \in Pid : State(p)' = "WAIT" <=> State(p) = "WAIT"
    BY DEF StillWaiting
  <2> QED  BY <2>1 DEF InState, State
<1>2. InState({"WAIT"}) \subseteq Pid
  BY DEF InState
<1>3. \A sem \in Sem : Range(squeue'[sem]) = {p \in InState({"WAIT"})' : prsem'[p] = sem}
  BY <1>1, <1>2 DEF SemOK
<1>4. \A p \in InState({"WAIT"})' : prsem'[p] \in Sem
  BY <1>1, <1>2 DEF SemOK
<1>5. CountsMatchQueues'
  BY DEF SemOK, CountsMatchQueues, Looping, LoopOps, SemLoops, At
<1>6. FreeEmpty'
  BY DEF SemOK, FreeEmpty, Looping, LoopOps, SemLoops, At
<1> QED  BY <1>3, <1>4, <1>5, <1>6 DEF SemOK

\* The continuations after a step that leaves them alone.
LEMMA ContStays ==
  ASSUME ContInv, ~Looping, UNCHANGED cont, sched'.ndefers = 0, Cur' \in Pid
  PROVE  ContInv'
BY DEF ContInv, Looping, Cur

\* The current process gets a new continuation and may lose the processor.
LEMMA ContGoes ==
  ASSUME ContInv, Cur \in Pid, NEW c, ContOK(c), c.op \notin LoopOps, Goto(c),
         sched'.ndefers = 0, Cur' \in Pid
  PROVE  ContInv'
<1>1. c \in ContType
  BY DEF ContOK
<1>2. cont' \in [Pid -> ContType] /\ \A p \in Pid : cont'[p] = IF p = Cur THEN c ELSE cont[p]
  BY <1>1 DEF ContInv, Goto
<1>3. \A p \in Pid : ContOK(cont'[p]) /\ cont'[p].op \notin LoopOps
  BY <1>2 DEF ContInv
<1> QED  BY <1>2, <1>3 DEF ContInv, Cur, ContOK

\* It enters a loop, or goes round one more time.
LEMMA ContLoops ==
  ASSUME ContInv, Cur \in Pid, NEW c, ContOK(c), c.op \in LoopOps, Goto(c),
         sched'.ndefers = 1, Cur' = Cur
  PROVE  ContInv'
<1>1. c \in ContType
  BY DEF ContOK
<1>2. cont' \in [Pid -> ContType] /\ \A p \in Pid : cont'[p] = IF p = Cur THEN c ELSE cont[p]
  BY <1>1 DEF ContInv, Goto
<1>3. \A p \in Pid : ContOK(cont'[p]) /\ (cont'[p].op \in LoopOps => p = Cur)
  BY <1>2 DEF ContInv
<1> QED  BY <1>2, <1>3 DEF ContInv, ContOK

\* The loop goes round without touching its continuation.
LEMMA ContLoopStays ==
  ASSUME ContInv, UNCHANGED cont, sched'.ndefers = sched.ndefers, Cur' = Cur
  PROVE  ContInv'
BY DEF ContInv, ContOK

\* The simple facts every step starts from.
LEMMA Facts ==
  ASSUME IInv
  PROVE  /\ Cur \in Pid /\ sched.currpid \in Pid /\ State(Cur) = "CURR"
         /\ sched \in SchedType /\ sched.ndefers \in Nat
         /\ sched.prstate \in [Pid -> PrState] /\ sched.prprio \in [Pid -> Nat]
         /\ sched.qkey \in [Pid -> Int]
         /\ cont[Cur] \in ContType
         /\ ~Looping => sched.ndefers = 0
         /\ Looping => sched.ndefers = 1
         /\ State(NULLPROC) \in Runnable
BY DEF IInv, Dispatched, Eligible, SchedType, Cur, State, ContInv, Looping

\* A scheduler state that is dispatched names a process.
LEMMA DispatchedCur ==
  ASSUME NEW s, Dispatched(s)
  PROVE  s.currpid \in Pid
BY DEF Dispatched, Eligible, SchedType

\* "user" and most other continuations are no loop.
LEMMA NotLooping ==
  ASSUME \/ At("user") \/ At("kill") \/ At("receive") \/ At("recvtime") \/ At("clkhandler")
  PROVE  ~Looping
BY DEF At, Looping, LoopOps, SemLoops

\* Leaving the kernel, or waiting in it, is no loop either.
LEMMA ContOKs ==
  /\ ContOK(User) /\ User.op \notin LoopOps
  /\ \A op \in {"receive", "recvtime", "clkhandler", "xdone"} :
        ContOK(Cont(op, 0, 0)) /\ Cont(op, 0, 0).op \notin LoopOps
BY NullPid DEF ContOK, ContType, ContOps, User, Cont, LoopOps, SemLoops, NULLPROC

\* A step that only reschedules, or wakes nobody who sleeps or waits.
LEMMA QuietStep ==
  ASSUME IInv, ~Looping, Still, Dispatched(sched'), ContInv', TableType',
         UNCHANGED <<prsem, sstate, scount, squeue, sleepq>>
  PROVE  IInv'
<1>1. SleepOK'
  BY SleepQuiet DEF IInv, Still
<1>2. prsem' \in [Pid -> Sem \cup {-1}]
  BY DEF IInv, SemOK
<1>3. SemOK'
  BY <1>2, SemQuiet DEF IInv, Still
<1> QED  BY <1>1, <1>3 DEF IInv

-----------------------------------------------------------------------------
\* One lemma per action: the invariant holds after it.

\* newpid finds a free entry and moves nextpid past it.
LEMMA FreeOffsetPid ==
  ASSUME IInv, FreeOffsets # {}
  PROVE  LET pid == (nextpid + Min(FreeOffsets)) % NPROC
         IN  pid \in Pid /\ State(pid) = "FREE" /\ pid + 1 \in 1 .. NPROC
<1> DEFINE i == Min(FreeOffsets)
           pid == (nextpid + i) % NPROC
<1>1. FreeOffsets \subseteq Nat
  BY NPROCAssumption DEF FreeOffsets
<1>2. i \in FreeOffsets
  BY <1>1, MinNat
<1>3. i \in Nat /\ State(pid) = "FREE"
  BY <1>1, <1>2 DEF FreeOffsets
<1> HIDE DEF i
<1>4. nextpid + i \in Int /\ NPROC \in Int /\ NPROC > 0
  BY <1>3, NPROCAssumption DEF IInv, TableType
<1>5. pid \in 0 .. NPROC-1
  BY <1>4
<1> HIDE DEF pid
<1>6. pid \in Pid /\ pid + 1 \in 1 .. NPROC
  BY <1>4, <1>5, NPROCAssumption DEF Pid
<1> QED  BY <1>3, <1>6 DEF pid, i

\* create: a free entry becomes suspended; it was on no queue and is on none.
LEMMA CreateStep ==
  ASSUME IInv, NEW prio \in Prios, NEW stack \in BOOLEAN, Create(prio, stack)
  PROVE  IInv'
<1> DEFINE pid == (nextpid + Min(FreeOffsets)) % NPROC
<1>1. pid \in Pid /\ State(pid) = "FREE" /\ pid + 1 \in 1 .. NPROC
  BY FreeOffsetPid DEF Create
<1>2. /\ At("user") /\ ~Looping /\ sched.ndefers = 0
  BY NotLooping, Facts DEF Create, Sys
<1>3. /\ nextpid' = pid + 1
      /\ UNCHANGED <<sstate, scount, squeue, nextsem, sleepq>>
  BY DEF Create, semvars
<1>4. CASE stack
  <2>1. /\ sched'    = [sched EXCEPT !.prstate[pid] = "SUSP", !.prprio[pid] = prio]
        /\ cont'     = [cont EXCEPT ![pid] = User]
        /\ prsem'    = [prsem EXCEPT ![pid] = -1]
        /\ prparent' = [prparent EXCEPT ![pid] = Cur]
        /\ prhasmsg' = [prhasmsg EXCEPT ![pid] = FALSE]
        /\ prcount'  = prcount + 1
    BY <1>4 DEF Create
  <2> HIDE DEF pid
  <2>2. TableType'
    BY <1>1, <1>3, <2>1, Facts DEF IInv, TableType
  <2> DEFINE ps == [sched.prprio EXCEPT ![pid] = prio]
             t == Restated(sched, pid, "SUSP", ps, sched.qkey)
  <2>3. ps \in [Pid -> Nat] /\ sched.qkey \in [Pid -> Int]
    BY Facts, PriosAssumption
  <2>4. sched.prstate[pid] \notin Runnable /\ "SUSP" \in PrState \ Runnable
    BY <1>1 DEF State, Runnable, PrState
  <2>5. sched' = t
    BY <2>1, Facts DEF SchedType, Restated
  <2> HIDE DEF ps
  <2>6. /\ Dispatched(t) /\ t.ndefers = 0 /\ t.currpid = sched.currpid
        /\ t.prstate = [sched.prstate EXCEPT ![pid] = "SUSP"]
    BY <1>1, <1>2, <2>3, <2>4, RestateDispatches DEF IInv
  <2> HIDE DEF t
  <2>7. /\ Dispatched(sched') /\ sched'.ndefers = 0 /\ Cur' = Cur
        /\ sched'.prstate = [sched.prstate EXCEPT ![pid] = "SUSP"]
    BY <2>5, <2>6 DEF Cur
  <2>8. Still
    BY <1>1, <2>7, Facts DEF Still, StillAsleep, StillWaiting, State, Asleep
  <2>9. ContInv'
    <3>1. cont' \in [Pid -> ContType] /\ \A p \in Pid : cont'[p] = IF p = pid THEN User ELSE cont[p]
      BY <1>1, <2>1, ContOKs DEF IInv, ContInv, ContOK
    <3>2. \A p \in Pid : cont[p].op \notin LoopOps
      BY <1>2 DEF IInv, ContInv, Looping
    <3>3. \A p \in Pid : ContOK(cont'[p]) /\ cont'[p].op \notin LoopOps
      BY <3>1, <3>2, ContOKs DEF IInv, ContInv
    <3> QED  BY <2>7, <3>1, <3>3, Facts DEF ContInv, ContOK
  <2>10. SleepOK'
    BY <1>3, <2>8, SleepQuiet DEF IInv, Still
  <2>11. /\ prsem' \in [Pid -> Sem \cup {-1}]
         /\ \A p \in Pid : State(p) = "WAIT" => prsem'[p] = prsem[p]
    BY <1>1, <2>1 DEF IInv, SemOK
  <2>12. SemOK'
    BY <1>2, <1>3, <2>8, <2>11, SemQuiet DEF IInv, Still
  <2> QED  BY <2>2, <2>7, <2>9, <2>10, <2>12 DEF IInv
<1>5. CASE ~stack
  <2>1. UNCHANGED <<sched, cont, prsem, prparent, prhasmsg, prcount>>
    BY <1>5 DEF Create
  <2> HIDE DEF pid
  <2>2. TableType'
    BY <1>1, <1>3, <2>1 DEF IInv, TableType
  <2>3. Still /\ Dispatched(sched')
    BY <2>1, SameStill DEF IInv
  <2>4. ContInv'
    BY <1>2, <2>1, ContStays, Facts DEF IInv, Cur
  <2> QED  BY <1>2, <1>3, <2>1, <2>2, <2>3, <2>4, QuietStep
<1> QED  BY <1>4, <1>5

\* A step that changes nothing but the scheduler, from outside the kernel.
LEMMA SchedStep ==
  ASSUME IInv, At("user"), Dispatched(sched'), sched'.ndefers = 0, Still,
         UNCHANGED <<cont, procvars, semvars, sleepq>>
  PROVE  IInv'
<1>1. ~Looping /\ Cur' \in Pid
  BY NotLooping, DispatchedCur DEF Cur
<1>2. ContInv'
  BY <1>1, ContStays DEF IInv
<1>3. TableType'
  BY DEF IInv, TableType, procvars, semvars
<1> QED  BY <1>1, <1>2, <1>3, QuietStep DEF procvars, semvars

\* resume: a suspended process was on no queue.
LEMMA ResumeStep ==
  ASSUME IInv, NEW pid \in Pid, Resume(pid)
  PROVE  IInv'
<1>1. /\ At("user") /\ sched.ndefers = 0 /\ State(pid) = "SUSP" /\ sched' = Ready(sched, pid)
      /\ UNCHANGED <<cont, procvars, semvars, sleepq>>
  BY NotLooping, Facts DEF Resume, Sys
<1>2. /\ Dispatched(sched') /\ sched'.ndefers = 0 /\ sched'.prstate[pid] \in Runnable
      /\ Keeps(sched, sched', {pid})
  BY <1>1, ReadyDispatches DEF IInv, State, Runnable
<1>3. Still
  BY <1>1, <1>2, KeepsStill DEF State, Runnable, Blocked, Asleep
<1> QED  BY <1>1, <1>2, <1>3, SchedStep

\* suspend: a ready process leaves the ready list, the current one the processor.
LEMMA SuspendStep ==
  ASSUME IInv, NEW pid \in Pid, Suspend(pid)
  PROVE  IInv'
<1>1. /\ At("user") /\ sched.ndefers = 0 /\ Cur # NULLPROC /\ pid # NULLPROC
      /\ UNCHANGED <<cont, procvars, semvars, sleepq>>
  BY NotLooping, Facts DEF Suspend, Sys
<1>2. "SUSP" \in PrState \ Runnable
  BY DEF PrState, Runnable
<1>3. CASE State(pid) = "READY" /\ sched' = [sched EXCEPT !.readylist    = GetItem(@, pid),
                                                          !.prstate[pid] = "SUSP"]
  <2>1. sched' = Unready(sched, pid, "SUSP")
    BY <1>3, Facts DEF SchedType, Unready
  <2>2. /\ Dispatched(sched') /\ sched'.ndefers = 0
        /\ sched'.prstate = [sched.prstate EXCEPT ![pid] = "SUSP"]
    <3>1. sched.prstate[pid] = "READY" /\ Dispatched(sched)
      BY <1>3 DEF IInv, State
    <3>2. Dispatched(Unready(sched, pid, "SUSP")) /\ Unready(sched, pid, "SUSP").ndefers = 0
          /\ Unready(sched, pid, "SUSP").prstate = [sched.prstate EXCEPT ![pid] = "SUSP"]
      BY <1>1, <1>2, <3>1, UnreadyDispatches
    <3> QED  BY <2>1, <3>2
  <2>3. Still
    BY <1>3, <2>2, Facts DEF Still, StillAsleep, StillWaiting, State, Asleep
  <2> QED  BY <1>1, <2>2, <2>3, SchedStep
<1>4. CASE State(pid) = "CURR" /\ sched' = Block(sched, "SUSP")
  <2>1. /\ Dispatched(sched') /\ sched'.ndefers = 0 /\ sched'.prstate[Cur] = "SUSP"
        /\ Keeps(sched, sched', {Cur})
    BY <1>1, <1>2, <1>4, BlockDispatches DEF IInv, Cur
  <2>2. Still
    BY <1>1, <2>1, Facts, KeepsStill DEF State, Blocked, Asleep
  <2> QED  BY <1>1, <2>1, <2>2, SchedStep
<1> QED  BY <1>3, <1>4 DEF Suspend

\* chprio changes a priority and nothing else.
LEMMA ChprioStep ==
  ASSUME IInv, NEW pid \in Pid, NEW newprio \in Prios, Chprio(pid, newprio)
  PROVE  IInv'
<1> DEFINE ps == [sched.prprio EXCEPT ![pid] = newprio]
<1>1. /\ At("user") /\ sched.ndefers = 0 /\ sched' = [sched EXCEPT !.prprio = ps]
      /\ UNCHANGED <<cont, procvars, semvars, sleepq>>
  BY NotLooping, Facts DEF Chprio, Sys, SchedType
<1>2. ps \in [Pid -> Nat]
  BY Facts, PriosAssumption
<1> HIDE DEF ps
<1>3. /\ sched' \in SchedType /\ sched'.readylist = sched.readylist
      /\ sched'.currpid = sched.currpid /\ sched'.ndefers = 0
      /\ sched'.prstate = sched.prstate
  BY <1>1, <1>2, Facts DEF SchedType
<1>4. Dispatched(sched')
  BY <1>3, RewriteDispatches DEF IInv
<1> QED  BY <1>1, <1>3, <1>4, SameStill, SchedStep

\* resched alone, as yield calls it.
LEMMA ReschedStep ==
  ASSUME IInv, At("user"), sched' = Resched(sched),
         UNCHANGED <<cont, procvars, semvars, sleepq>>
  PROVE  IInv'
<1>1. sched.ndefers = 0 /\ Eligible(sched)
  BY NotLooping, Facts DEF IInv, Dispatched
<1>2. Dispatched(sched') /\ sched'.ndefers = 0 /\ Keeps(sched, sched', {})
  BY <1>1, ReschedDispatches DEF KeepsBlocked
<1>3. Still
  BY <1>2, KeepsStill
<1> QED  BY <1>2, <1>3, SchedStep

\* yield, and sleepms with no delay.
LEMMA YieldStep ==
  ASSUME IInv, Yield
  PROVE  IInv'
BY ReschedStep DEF Yield, Sys

-----------------------------------------------------------------------------
\* A process leaves the sleep queue.
LEMMA SleepLeaves ==
  ASSUME SleepOK, NEW pid \in Pid, State(pid)' \notin Asleep,
         \A p \in Pid \ {pid} : State(p)' \in Asleep <=> State(p) \in Asleep,
         sleepq' \in Queue(Pid), Range(sleepq') = Range(sleepq) \ {pid}
  PROVE  SleepOK'
<1>1. \A p \in Pid : p \in Range(sleepq') <=> State(p)' \in Asleep
  BY DEF SleepOK, InState
<1>2. Range(sleepq') \subseteq Pid
  BY DEF SleepOK, InState
<1>3. Range(sleepq') = InState(Asleep)'
  <2>1. \A p : p \in InState(Asleep)' <=> p \in Pid /\ State(p)' \in Asleep
    BY DEF InState, Asleep
  <2> QED  BY <1>1, <1>2, <2>1
<1> QED  BY <1>3 DEF SleepOK

\* A process joins the sleep queue.
LEMMA SleepJoins ==
  ASSUME SleepOK, NEW pid \in Pid, State(pid)' \in Asleep,
         \A p \in Pid \ {pid} : State(p)' \in Asleep <=> State(p) \in Asleep,
         sleepq' \in Queue(Pid), Range(sleepq') = Range(sleepq) \cup {pid}
  PROVE  SleepOK'
<1>1. \A p \in Pid : p \in Range(sleepq') <=> State(p)' \in Asleep
  BY DEF SleepOK, InState
<1>2. Range(sleepq') \subseteq Pid
  BY DEF SleepOK, InState
<1>3. Range(sleepq') = InState(Asleep)'
  <2>1. \A p : p \in InState(Asleep)' <=> p \in Pid /\ State(p)' \in Asleep
    BY DEF InState, Asleep
  <2> QED  BY <1>1, <1>2, <2>1
<1> QED  BY <1>3 DEF SleepOK

\* What the scheduler keeps, for one process that is not asleep or waiting
\* afterwards, or was not before.
LEMMA KeepsOthers ==
  ASSUME NEW pid, Keeps(sched, sched', {pid})
  PROVE  \A p \in Pid \ {pid} : /\ State(p)' \in Asleep <=> State(p) \in Asleep
                                /\ State(p)' = "WAIT" <=> State(p) = "WAIT"
<1> SUFFICES ASSUME NEW p \in Pid \ {pid}
             PROVE  /\ State(p)' \in Asleep <=> State(p) \in Asleep
                    /\ State(p)' = "WAIT" <=> State(p) = "WAIT"
  OBVIOUS
<1> QED  BY DEF Keeps, Runnable, Asleep, State

\* send wakes a receiver: off the sleep queue with its deltas if it has a
\* timeout, and nobody else is woken.
LEMMA DeliverStep ==
  ASSUME IInv, ~Looping, NEW pid \in Pid, Deliver(pid)
  PROVE  /\ Dispatched(sched') /\ sched'.ndefers = 0
         /\ StillWaiting /\ SleepOK' /\ prhasmsg' \in [Pid -> BOOLEAN]
<1>1. prhasmsg \in [Pid -> BOOLEAN] /\ SleepOK /\ Dispatched(sched) /\ sched.ndefers = 0
  BY Facts DEF IInv, TableType
<1>2. CASE UNCHANGED <<sched, sleepq>> /\ prhasmsg' \in [Pid -> BOOLEAN]
  <2>1. Still
    BY <1>2, SameStill
  <2> QED  BY <1>1, <1>2, <2>1, SleepQuiet DEF Still
<1>3. CASE /\ prhasmsg' = [prhasmsg EXCEPT ![pid] = TRUE] /\ State(pid) = "RECV"
           /\ sched' = Ready(sched, pid) /\ UNCHANGED sleepq
  <2>1. /\ Dispatched(sched') /\ sched'.ndefers = 0 /\ sched'.prstate[pid] \in Runnable
        /\ Keeps(sched, sched', {pid})
    BY <1>1, <1>3, ReadyDispatches DEF State, Runnable
  <2>2. Still
    BY <1>3, <2>1, KeepsStill DEF State, Runnable, Blocked, Asleep
  <2> QED  BY <1>1, <1>3, <2>1, <2>2, SleepQuiet DEF Still
<1>4. CASE /\ prhasmsg' = [prhasmsg EXCEPT ![pid] = TRUE] /\ State(pid) = "RECTIM"
           /\ sched' = Ready([sched EXCEPT !.qkey = UnsleepKeys(sleepq, @, pid)], pid)
           /\ sleepq' = GetItem(sleepq, pid)
  <2> DEFINE ks == UnsleepKeys(sleepq, sched.qkey, pid)
             s == Rekeyed(sched, ks)
  <2>1. ks \in [Pid -> Int]
    BY Facts, UnsleepKeysInt
  <2>2. sched' = Ready(s, pid)
    BY <1>4 DEF Rekeyed
  <2> HIDE DEF ks
  <2>3. /\ Dispatched(s) /\ s.prstate = sched.prstate /\ s.ndefers = 0
        /\ s.currpid = sched.currpid
    BY <1>1, <2>1, QkeyDispatches
  <2> HIDE DEF s
  <2>4. s.prstate[pid] \notin Runnable
    BY <1>4, <2>3 DEF State, Runnable
  <2>5. /\ Dispatched(sched') /\ sched'.ndefers = 0 /\ sched'.prstate[pid] \in Runnable
        /\ Keeps(s, sched', {pid})
    BY <2>2, <2>3, <2>4, ReadyDispatches
  <2>6. Keeps(sched, sched', {pid})
    BY <2>3, <2>5 DEF Keeps
  <2>7. State(pid)' \notin Blocked /\ State(pid) # "WAIT"
    BY <1>4, <2>5 DEF State, Runnable, Blocked, Asleep
  <2>8. StillWaiting
    BY <2>6, <2>7, KeepsOthers DEF StillWaiting, Blocked
  <2>9. pid \in Range(sleepq) /\ sleepq \in Queue(Pid)
    BY <1>1, <1>4 DEF SleepOK, InState, Asleep
  <2>10. sleepq' \in Queue(Pid) /\ Range(sleepq') = Range(sleepq) \ {pid}
    BY <1>4, <2>9, GetItemQueue
  <2>11. SleepOK'
    BY <1>1, <2>6, <2>7, <2>10, KeepsOthers, SleepLeaves DEF Blocked
  <2> QED  BY <1>1, <1>4, <2>5, <2>8, <2>11
<1> QED  BY <1>1, <1>2, <1>3, <1>4 DEF Deliver

\* send.
LEMMA SendStep ==
  ASSUME IInv, NEW pid \in Pid, Send(pid)
  PROVE  IInv'
<1>1. /\ ~Looping /\ Deliver(pid)
      /\ UNCHANGED <<cont, prsem, prparent, prcount, nextpid, sstate, scount, squeue, nextsem>>
  BY NotLooping DEF Send, Sys, semvars
<1>2. /\ Dispatched(sched') /\ sched'.ndefers = 0
      /\ StillWaiting /\ SleepOK' /\ prhasmsg' \in [Pid -> BOOLEAN]
  BY <1>1, DeliverStep
<1>3. ContInv'
  BY <1>1, <1>2, ContStays, DispatchedCur DEF IInv, Cur
<1>4. TableType'
  BY <1>1, <1>2 DEF IInv, TableType
<1>5. SemOK'
  BY <1>1, <1>2, SemQuiet DEF IInv, SemOK
<1> QED  BY <1>2, <1>3, <1>4, <1>5 DEF IInv

\* A message flag changes, and nothing the scheduler or the queues know of.
LEMMA FlagStep ==
  ASSUME IInv, ~Looping, TakeMessage,
         UNCHANGED <<sched, prsem, prparent, prcount, nextpid, semvars, sleepq>>,
         \/ UNCHANGED cont
         \/ Goto(User)
  PROVE  IInv'
<1>1. /\ sched' = sched /\ sched'.ndefers = 0 /\ Cur' \in Pid /\ Cur \in Pid /\ Dispatched(sched')
      /\ UNCHANGED <<prsem, prparent, prcount, nextpid, sstate, scount, squeue, nextsem, sleepq>>
  BY Facts DEF Cur, IInv, semvars
<1>2. Still
  BY <1>1, SameStill
<1>3. TableType'
  BY <1>1 DEF IInv, TableType, TakeMessage
<1>4. ContInv'
  BY <1>1, ContStays, ContGoes, ContOKs DEF IInv
<1> QED  BY <1>1, <1>2, <1>3, <1>4, QuietStep

\* The current process blocks in a state that is on no queue.
LEMMA BlockStep ==
  ASSUME IInv, At("user"), Cur # NULLPROC, sched' = Block(sched, "RECV"),
         Goto(Cont("receive", 0, 0)),
         UNCHANGED <<prhasmsg, prsem, prparent, prcount, nextpid, semvars, sleepq>>
  PROVE  IInv'
<1>1. /\ ~Looping /\ sched.ndefers = 0 /\ Cur \in Pid /\ Dispatched(sched)
      /\ "RECV" \in PrState \ Runnable
      /\ UNCHANGED <<prhasmsg, prsem, prparent, prcount, nextpid, sstate, scount, squeue,
                     nextsem, sleepq>>
  BY Facts, NotLooping DEF IInv, PrState, Runnable, semvars
<1>2. /\ Dispatched(sched') /\ sched'.ndefers = 0 /\ sched'.prstate[Cur] = "RECV"
      /\ Keeps(sched, sched', {Cur})
  BY <1>1, BlockDispatches DEF Cur
<1>3. Still
  BY <1>1, <1>2, Facts, KeepsStill DEF State, Blocked, Asleep
<1>4. ContInv'
  BY <1>1, <1>2, ContGoes, ContOKs, DispatchedCur DEF IInv, Cur
<1>5. TableType'
  BY <1>1 DEF IInv, TableType
<1> QED  BY <1>1, <1>2, <1>3, <1>4, <1>5, QuietStep

\* receive.
LEMMA ReceiveStep ==
  ASSUME IInv, Receive
  PROVE  IInv'
BY NotLooping, FlagStep, BlockStep DEF Receive, Sys

\* The rest of receive and of recvtime, and recvclr.
LEMMA FlagSteps ==
  ASSUME IInv, ReceiveEnd \/ RecvtimeEnd \/ Recvclr
  PROVE  IInv'
BY NotLooping, FlagStep DEF ReceiveEnd, RecvtimeEnd, Recvclr, Sys

\* insertd and the block after it: the current process is asleep.
LEMMA SleepAsStep ==
  ASSUME IInv, At("user"), Cur # NULLPROC, NEW state \in Asleep, NEW delay \in Delays,
         SleepAs(state, delay)
  PROVE  Dispatched(sched') /\ sched'.ndefers = 0 /\ StillWaiting /\ SleepOK'
<1>1. /\ Cur \in Pid /\ sched.ndefers = 0 /\ SleepOK /\ Dispatched(sched) /\ State(Cur) = "CURR"
      /\ state \in PrState \ Runnable
  BY Facts, NotLooping DEF IInv, Asleep, PrState, Runnable
<1>2. sleepq \in Queue(Pid) /\ Cur \notin Range(sleepq)
  BY <1>1 DEF SleepOK, InState, Asleep
<1> DEFINE ks == InsertdKeys(sleepq, sched.qkey, Cur, delay)
           s == Rekeyed(sched, ks)
<1>3. ks \in [Pid -> Int]
  <2>1. delay \in Int /\ sched.qkey \in [Pid -> Int]
    BY Facts, DelaysAssumption
  <2> QED  BY <1>1, <1>2, <2>1, InsertdKeysInt
<1>4. sched' = Block(s, state)
  BY DEF SleepAs, Rekeyed
<1> HIDE DEF ks
<1>5. /\ Dispatched(s) /\ s.prstate = sched.prstate /\ s.ndefers = 0 /\ s.currpid = Cur
  BY <1>1, <1>3, QkeyDispatches DEF Cur
<1> HIDE DEF s
<1>6. /\ Dispatched(sched') /\ sched'.ndefers = 0 /\ sched'.prstate[Cur] = state
      /\ Keeps(s, sched', {Cur})
  BY <1>1, <1>4, <1>5, BlockDispatches
<1>7. Keeps(sched, sched', {Cur})
  BY <1>5, <1>6 DEF Keeps
<1> PICK me \in Pid : me = Cur
  BY <1>1
<1>8. /\ State(me)' \in Asleep /\ State(me)' # "WAIT" /\ State(me) # "WAIT"
      /\ Keeps(sched, sched', {me})
  BY <1>1, <1>6, <1>7 DEF State, Asleep
<1>9. StillWaiting
  BY <1>8, KeepsOthers DEF StillWaiting
<1>10. sleepq' \in Queue(Pid) /\ Range(sleepq') = Range(sleepq) \cup {me}
  BY <1>1, <1>2, InsertdQueue DEF SleepAs
<1>11. SleepOK'
  BY <1>1, <1>8, <1>10, KeepsOthers, SleepJoins
<1> QED  BY <1>6, <1>9, <1>11

\* recvtime.
LEMMA RecvtimeStep ==
  ASSUME IInv, NEW maxwait \in Delays, Recvtime(maxwait)
  PROVE  IInv'
<1>1. /\ At("user") /\ ~Looping /\ Cur # NULLPROC /\ Cur \in Pid
      /\ UNCHANGED <<prsem, prparent, prcount, nextpid, semvars>>
  BY NotLooping, Facts DEF Recvtime, Sys
<1>2. CASE TakeMessage /\ UNCHANGED <<sched, cont, sleepq>>
  BY <1>1, <1>2, FlagStep
<1>3. CASE /\ Goto(Cont("recvtime", 0, 0)) /\ SleepAs("RECTIM", maxwait) /\ UNCHANGED prhasmsg
  <2>1. Dispatched(sched') /\ sched'.ndefers = 0 /\ StillWaiting /\ SleepOK'
    BY <1>1, <1>3, SleepAsStep DEF Asleep
  <2>2. ContInv'
    BY <1>1, <1>3, <2>1, ContGoes, ContOKs, DispatchedCur DEF IInv, Cur
  <2>3. TableType'
    BY <1>1, <1>3 DEF IInv, TableType, semvars
  <2>4. SemOK'
    BY <1>1, <2>1, SemQuiet DEF IInv, SemOK, semvars
  <2> QED  BY <2>1, <2>2, <2>3, <2>4 DEF IInv
<1> QED  BY <1>2, <1>3 DEF Recvtime

\* sleepms.
LEMMA SleepmsStep ==
  ASSUME IInv, NEW delay \in Delays, Sleepms(delay)
  PROVE  IInv'
<1>1. /\ At("user") /\ ~Looping /\ Cur # NULLPROC /\ Cur \in Pid
      /\ UNCHANGED <<cont, procvars, semvars>>
  BY NotLooping, Facts DEF Sleepms, Sys
<1>2. CASE sched' = Resched(sched) /\ UNCHANGED sleepq
  BY <1>1, <1>2, ReschedStep
<1>3. CASE SleepAs("SLEEP", delay)
  <2>1. Dispatched(sched') /\ sched'.ndefers = 0 /\ StillWaiting /\ SleepOK'
    BY <1>1, <1>3, SleepAsStep DEF Asleep
  <2>2. ContInv'
    BY <1>1, <2>1, ContStays, DispatchedCur DEF IInv, Cur
  <2>3. TableType'
    BY <1>1 DEF IInv, TableType, procvars, semvars
  <2>4. SemOK'
    BY <1>1, <2>1, SemQuiet DEF IInv, SemOK, procvars, semvars
  <2> QED  BY <2>1, <2>2, <2>3, <2>4 DEF IInv
<1> QED  BY <1>2, <1>3 DEF Sleepms

-----------------------------------------------------------------------------
\* Semaphores: the part of SemOK that is about queues, and the part about
\* counts.

SemShape ==
    /\ prsem \in [Pid -> Sem \cup {-1}]
    /\ squeue \in [Sem -> Queue(Pid)]
    /\ \A sem \in Sem : Range(squeue[sem]) = {p \in InState({"WAIT"}) : prsem[p] = sem}
    /\ \A p \in InState({"WAIT"}) : prsem[p] \in Sem

\* The length of the queue of a semaphore with this count.
Waiters(count) == IF count < 0 THEN -count ELSE 0

\* CountsMatchQueues, outside semreset.
CountsExact == \A sem \in Sem : Len(squeue[sem]) = Waiters(scount[sem])

\* SemOK has both parts.
LEMMA SemParts ==
  ASSUME SemOK
  PROVE  /\ SemShape /\ sstate \in [Sem -> {"S_FREE", "S_USED"}] /\ scount \in [Sem -> Int]
         /\ FreeEmpty
         /\ ~At("semreset") => CountsExact
BY DEF SemOK, SemShape, CountsMatchQueues, CountsExact, Waiters

\* And holds after a step that leaves both parts.
LEMMA SemWhole ==
  ASSUME SemShape', sstate' \in [Sem -> {"S_FREE", "S_USED"}], scount' \in [Sem -> Int],
         FreeEmpty', CountsExact'
  PROVE  SemOK'
BY DEF SemOK, SemShape, CountsMatchQueues, CountsExact, Waiters

\* A process is in InState(states) when its state is one of them.
LEMMA InStateIff ==
  /\ \A p : p \in InState({"WAIT"}) <=> p \in Pid /\ State(p) = "WAIT"
  /\ \A p : p \in InState({"WAIT"})' <=> p \in Pid /\ State(p)' = "WAIT"
BY DEF InState

\* A waiter leaves the queue it is on.
LEMMA WaiterLeaves ==
  ASSUME SemShape, NEW sem \in Sem, NEW pid \in Range(squeue[sem]), State(pid)' # "WAIT",
         \A p \in Pid \ {pid} : State(p)' = "WAIT" <=> State(p) = "WAIT",
         NEW q \in Queue(Pid), Range(q) = Range(squeue[sem]) \ {pid},
         squeue' = [squeue EXCEPT ![sem] = q], UNCHANGED prsem
  PROVE  SemShape'
<1>1. pid \in Pid /\ prsem[pid] = sem /\ State(pid) = "WAIT"
  BY InStateIff DEF SemShape
<1>2. squeue' \in [Sem -> Queue(Pid)] /\ \A s \in Sem : squeue'[s] = IF s = sem THEN q ELSE squeue[s]
  BY DEF SemShape
<1>3. \A p \in Pid : State(p)' = "WAIT" <=> State(p) = "WAIT" /\ p # pid
  BY <1>1
<1>4. ASSUME NEW s \in Sem
      PROVE  Range(squeue'[s]) = {p \in InState({"WAIT"})' : prsem'[p] = s}
  <2>1. Range(squeue'[s]) = Range(squeue[s]) \ {pid}
    BY <1>1, <1>2 DEF SemShape
  <2>2. Range(squeue[s]) = {p \in InState({"WAIT"}) : prsem[p] = s}
    BY DEF SemShape
  <2> QED  BY <1>3, <2>1, <2>2, InStateIff
<1>5. \A p \in InState({"WAIT"})' : prsem'[p] \in Sem
  BY <1>3, InStateIff DEF SemShape
<1> QED  BY <1>2, <1>4, <1>5 DEF SemShape

\* A process joins the queue of a semaphore.
LEMMA WaiterJoins ==
  ASSUME SemShape, NEW sem \in Sem, NEW pid \in Pid, State(pid)' = "WAIT", State(pid) # "WAIT",
         \A p \in Pid \ {pid} : State(p)' = "WAIT" <=> State(p) = "WAIT",
         NEW q \in Queue(Pid), Range(q) = Range(squeue[sem]) \cup {pid},
         squeue' = [squeue EXCEPT ![sem] = q], prsem' = [prsem EXCEPT ![pid] = sem]
  PROVE  SemShape'
<1>1. squeue' \in [Sem -> Queue(Pid)] /\ \A s \in Sem : squeue'[s] = IF s = sem THEN q ELSE squeue[s]
  BY DEF SemShape
<1>2. /\ prsem' \in [Pid -> Sem \cup {-1}]
      /\ \A p \in Pid : prsem'[p] = IF p = pid THEN sem ELSE prsem[p]
  BY DEF SemShape
<1>3. \A p \in Pid : State(p)' = "WAIT" <=> State(p) = "WAIT" \/ p = pid
  OBVIOUS
<1>4. ASSUME NEW s \in Sem
      PROVE  Range(squeue'[s]) = {p \in InState({"WAIT"})' : prsem'[p] = s}
  <2>1. Range(squeue[s]) = {p \in InState({"WAIT"}) : prsem[p] = s}
    BY DEF SemShape
  <2>2. \A p : p \in Range(squeue'[s]) <=> p \in Range(squeue[s]) \/ (s = sem /\ p = pid)
    BY <1>1
  <2>3. \A p : p \in Range(squeue[s]) <=> p \in Pid /\ State(p) = "WAIT" /\ prsem[p] = s
    BY <2>1, InStateIff
  <2>4. \A p : p \in Range(squeue'[s]) <=> p \in Pid /\ State(p)' = "WAIT" /\ prsem'[p] = s
    BY <1>2, <1>3, <2>2, <2>3
  <2> QED  BY <2>4, InStateIff
<1>5. \A p \in InState({"WAIT"})' : prsem'[p] \in Sem
  BY <1>2, <1>3, InStateIff DEF SemShape
<1> QED  BY <1>1, <1>2, <1>4, <1>5 DEF SemShape

\* The first waiter is made ready: ready(dequeue(squeue)).
LEMMA ReleaseFirstStep ==
  ASSUME IInv, NEW sem \in Sem, ReleaseFirst(sem), UNCHANGED prsem
  PROVE  /\ Dispatched(sched') /\ sched'.ndefers = sched.ndefers
         /\ Looping => Cur' = Cur
         /\ StillAsleep /\ SemShape'
         /\ \A s \in Sem : Len(squeue'[s]) =
               IF s = sem /\ ~IsEmpty(squeue[sem]) THEN Len(squeue[s]) - 1 ELSE Len(squeue[s])
<1>1. SemShape /\ Dispatched(sched) /\ squeue \in [Sem -> Queue(Pid)]
  BY SemParts DEF IInv, SemShape
<1>2. CASE IsEmpty(squeue[sem])
  <2>1. UNCHANGED <<sched, squeue>>
    BY <1>2 DEF ReleaseFirst
  <2>2. Still
    BY <2>1, SameStill
  <2>3. SemShape'
    BY <1>1, <2>1, InStateIff DEF SemShape, InState, State
  <2> QED  BY <1>1, <1>2, <2>1, <2>2, <2>3 DEF Still, Cur
<1>3. CASE ~IsEmpty(squeue[sem])
  <2> DEFINE q == squeue[sem]
  <2>1. sched' = Ready(sched, Head(q)) /\ squeue' = [squeue EXCEPT ![sem] = Tail(q)]
    BY <1>3 DEF ReleaseFirst
  <2>2. /\ Head(q) \in Range(q) /\ Head(q) \in Pid /\ Tail(q) \in Queue(Pid)
        /\ Len(Tail(q)) = Len(q) - 1 /\ Range(Tail(q)) = Range(q) \ {Head(q)}
    BY <1>1, <1>3, DequeueQueue
  <2> PICK pid \in Pid : pid = Head(q)
    BY <2>2
  <2>3. pid \in Range(squeue[sem]) /\ State(pid) = "WAIT"
    BY <1>1, <2>2, InStateIff DEF SemShape
  <2>4. /\ Dispatched(sched') /\ sched'.ndefers = sched.ndefers
        /\ sched.ndefers > 0 => sched'.currpid = sched.currpid
        /\ sched'.prstate[pid] \in Runnable /\ Keeps(sched, sched', {pid})
    BY <1>1, <2>1, <2>3, ReadyDispatches DEF State, Runnable
  <2>5. State(pid)' # "WAIT" /\ State(pid)' \notin Asleep /\ State(pid) \notin Asleep
    BY <2>3, <2>4 DEF State, Runnable, Asleep
  <2>6. StillAsleep
    BY <2>4, <2>5, KeepsOthers DEF StillAsleep
  <2>7. SemShape'
    BY <1>1, <2>1, <2>2, <2>3, <2>4, <2>5, KeepsOthers, WaiterLeaves
  <2>8. Looping => Cur' = Cur
    BY <2>4, Facts DEF Cur
  <2>9. \A s \in Sem : Len(squeue'[s]) = IF s = sem THEN Len(squeue[s]) - 1 ELSE Len(squeue[s])
    BY <1>1, <2>1, <2>2
  <2> QED  BY <1>3, <2>4, <2>6, <2>7, <2>8, <2>9
<1> QED  BY <1>2, <1>3

\* One signal: a waiter gets the place, or the count goes up.
LEMMA Signal1Step ==
  ASSUME IInv, ~At("semreset"), NEW sem \in Sem, Signal1(sem), UNCHANGED <<prsem, sstate, sleepq>>
  PROVE  /\ Dispatched(sched') /\ sched'.ndefers = sched.ndefers
         /\ Looping => Cur' = Cur
         /\ SleepOK' /\ SemShape' /\ CountsExact'
         /\ scount' \in [Sem -> Int] /\ \A s \in Sem : scount'[s] >= scount[s]
<1>1. /\ SemShape /\ CountsExact /\ Dispatched(sched) /\ scount \in [Sem -> Int]
      /\ squeue \in [Sem -> Queue(Pid)] /\ SleepOK
  BY SemParts DEF IInv, SemShape
<1>2. scount' = [scount EXCEPT ![sem] = scount[sem] + 1]
  BY DEF Signal1
<1>3. scount' \in [Sem -> Int] /\ \A s \in Sem : scount'[s] >= scount[s]
  BY <1>1, <1>2
<1>4. \A s \in Sem : Len(squeue[s]) \in Nat /\ (IsEmpty(squeue[s]) => Len(squeue[s]) = 0)
  BY <1>1 DEF Queue, IsEmpty
<1>5. CASE scount[sem] < 0 /\ ReleaseFirst(sem)
  <2>1. /\ Dispatched(sched') /\ sched'.ndefers = sched.ndefers
        /\ Looping => Cur' = Cur
        /\ StillAsleep /\ SemShape'
        /\ \A s \in Sem : Len(squeue'[s]) =
              IF s = sem /\ ~IsEmpty(squeue[sem]) THEN Len(squeue[s]) - 1 ELSE Len(squeue[s])
    BY <1>5, ReleaseFirstStep
  <2>2. ~IsEmpty(squeue[sem])
    BY <1>1, <1>4, <1>5 DEF CountsExact, Waiters
  <2>3. CountsExact'
    BY <1>1, <1>2, <1>5, <2>1, <2>2 DEF CountsExact, Waiters
  <2>4. SleepOK'
    BY <1>1, <2>1, SleepQuiet
  <2> QED  BY <1>3, <2>1, <2>3, <2>4
<1>6. CASE scount[sem] >= 0 /\ UNCHANGED <<sched, squeue>>
  <2>1. Still
    BY <1>6, SameStill
  <2>2. SemShape'
    BY <1>1, <1>6 DEF SemShape, InState, State
  <2>3. CountsExact'
    BY <1>1, <1>2, <1>6 DEF CountsExact, Waiters
  <2>4. SleepOK'
    BY <1>1, <2>1, SleepQuiet DEF Still
  <2> QED  BY <1>1, <1>3, <1>6, <2>2, <2>3, <2>4 DEF Cur
<1>7. scount[sem] \in Int
  BY <1>1
<1> QED  BY <1>5, <1>6, <1>7 DEF Signal1

\* The free semaphores stay empty while no count goes down.
LEMMA FreeStays ==
  ASSUME IInv, UNCHANGED sstate, ~At("semdelete"),
         scount' \in [Sem -> Int], \A s \in Sem : scount'[s] >= scount[s]
  PROVE  FreeEmpty'
<1>1. scount \in [Sem -> Int] /\ \A s \in Sem : sstate[s] = "S_FREE" => scount[s] >= 0
  BY SemParts DEF IInv, FreeEmpty
<1>2. \A s \in Sem : sstate[s] = "S_FREE" => scount'[s] >= 0
  BY <1>1
<1> QED  BY <1>2 DEF FreeEmpty

\* signal.
LEMMA SignalStep ==
  ASSUME IInv, NEW sem \in Sem, Signal(sem)
  PROVE  IInv'
<1>1. /\ At("user") /\ ~Looping /\ ~At("semreset") /\ ~At("semdelete") /\ sched.ndefers = 0
      /\ UNCHANGED <<cont, prsem, prhasmsg, prparent, prcount, nextpid, sstate, nextsem, sleepq>>
      /\ Signal1(sem)
  BY NotLooping, Facts DEF Signal, Sys, At, procvars
<1>2. /\ Dispatched(sched') /\ sched'.ndefers = sched.ndefers
      /\ SleepOK' /\ SemShape' /\ CountsExact'
      /\ scount' \in [Sem -> Int] /\ \A s \in Sem : scount'[s] >= scount[s]
  BY <1>1, Signal1Step
<1>3. FreeEmpty'
  BY <1>1, <1>2, FreeStays
<1>4. SemOK'
  <2>1. sstate' \in [Sem -> {"S_FREE", "S_USED"}]
    BY <1>1 DEF IInv, SemOK
  <2> QED  BY <1>2, <1>3, <2>1, SemWhole
<1>5. ContInv'
  BY <1>1, <1>2, ContStays, DispatchedCur DEF IInv, Cur
<1>6. TableType'
  BY <1>1 DEF IInv, TableType
<1> QED  BY <1>2, <1>4, <1>5, <1>6 DEF IInv

\* wait: the caller joins the end of the queue, or takes a place.
LEMMA WaitStep ==
  ASSUME IInv, NEW sem \in Sem, Wait(sem)
  PROVE  IInv'
<1>1. /\ At("user") /\ ~Looping /\ ~At("semreset") /\ ~At("semdelete") /\ sched.ndefers = 0
      /\ Cur \in Pid /\ Cur # NULLPROC /\ sstate[sem] = "S_USED" /\ State(Cur) = "CURR"
      /\ UNCHANGED <<cont, prhasmsg, prparent, prcount, nextpid, sstate, nextsem, sleepq>>
  BY NotLooping, Facts DEF Wait, Sys, At
<1>2. /\ SemShape /\ CountsExact /\ FreeEmpty /\ Dispatched(sched) /\ scount \in [Sem -> Int]
      /\ squeue \in [Sem -> Queue(Pid)] /\ SleepOK
      /\ sstate' \in [Sem -> {"S_FREE", "S_USED"}]
  BY <1>1, SemParts DEF IInv, SemShape
<1>3. scount' = [scount EXCEPT ![sem] = scount[sem] - 1] /\ scount' \in [Sem -> Int]
  BY <1>2 DEF Wait
<1>4. FreeEmpty'
  BY <1>1, <1>2, <1>3 DEF FreeEmpty
<1>5. TableType'
  BY <1>1 DEF IInv, TableType
<1>6. CASE /\ scount[sem] - 1 < 0 /\ prsem' = [prsem EXCEPT ![Cur] = sem]
           /\ squeue' = [squeue EXCEPT ![sem] = Enqueue(squeue[sem], Cur)]
           /\ sched' = Block(sched, "WAIT")
  <2> PICK me \in Pid : me = Cur
    BY <1>1
  <2> DEFINE q == Enqueue(squeue[sem], me)
  <2>1. "WAIT" \in PrState \ Runnable
    BY DEF PrState, Runnable
  <2>2. /\ Dispatched(sched') /\ sched'.ndefers = 0 /\ sched'.prstate[me] = "WAIT"
        /\ Keeps(sched, sched', {me})
    BY <1>1, <1>2, <1>6, <2>1, BlockDispatches DEF Cur
  <2>3. /\ State(me)' = "WAIT" /\ State(me)' \notin Asleep /\ State(me) \notin Asleep
        /\ State(me) # "WAIT"
    BY <1>1, <2>2 DEF State, Asleep
  <2>4. StillAsleep
    BY <2>2, <2>3, KeepsOthers DEF StillAsleep
  <2>5. SleepOK'
    BY <1>1, <1>2, <2>4, SleepQuiet
  <2>6. me \notin Range(squeue[sem]) /\ squeue[sem] \in Queue(Pid)
    BY <1>2, <2>3, InStateIff DEF SemShape
  <2>7. q \in Queue(Pid) /\ Range(q) = Range(squeue[sem]) \cup {me} /\ Len(q) = Len(squeue[sem]) + 1
    BY <2>6, EnqueueQueue
  <2>8. squeue' = [squeue EXCEPT ![sem] = q] /\ prsem' = [prsem EXCEPT ![me] = sem]
    BY <1>6
  <2> HIDE DEF q
  <2>9. SemShape'
    BY <1>2, <2>2, <2>3, <2>7, <2>8, KeepsOthers, WaiterJoins
  <2>10. \A s \in Sem : Len(squeue'[s]) = IF s = sem THEN Len(squeue[s]) + 1 ELSE Len(squeue[s])
    BY <1>2, <2>7, <2>8
  <2>11. CountsExact'
    BY <1>2, <1>3, <1>6, <2>10 DEF CountsExact, Waiters
  <2>12. SemOK'
    BY <1>2, <1>3, <1>4, <2>9, <2>11, SemWhole
  <2>13. ContInv'
    BY <1>1, <2>2, ContStays, DispatchedCur DEF IInv, Cur
  <2> QED  BY <1>5, <2>2, <2>5, <2>12, <2>13 DEF IInv
<1>7. CASE scount[sem] - 1 >= 0 /\ UNCHANGED <<prsem, squeue, sched>>
  <2>1. Still
    BY <1>7, SameStill
  <2>2. SleepOK'
    BY <1>1, <1>2, <2>1, SleepQuiet DEF Still
  <2>3. SemShape'
    BY <1>2, <1>7 DEF SemShape, InState, State
  <2>4. CountsExact'
    BY <1>2, <1>3, <1>7 DEF CountsExact, Waiters
  <2>5. SemOK'
    BY <1>2, <1>3, <1>4, <2>3, <2>4, SemWhole
  <2>6. ContInv' /\ Dispatched(sched')
    BY <1>1, <1>2, <1>7, ContStays, DispatchedCur DEF IInv, Cur
  <2> QED  BY <1>5, <2>2, <2>5, <2>6 DEF IInv
<1>8. scount[sem] \in Int
  BY <1>2
<1> QED  BY <1>6, <1>7, <1>8 DEF Wait

\* semcreate: a free entry has an empty queue, so any count fits it.
LEMMA SemcreateStep ==
  ASSUME IInv, NEW count \in Counts, Semcreate(count)
  PROVE  IInv'
<1> DEFINE sem == (nextsem + Min(FreeSemOffsets)) % NSEM
<1>1. /\ At("user") /\ ~Looping /\ ~At("semreset") /\ ~At("semdelete") /\ sched.ndefers = 0
      /\ Cur \in Pid
      /\ UNCHANGED <<sched, cont, prsem, prhasmsg, prparent, prcount, nextpid, squeue, sleepq>>
  BY NotLooping, Facts DEF Semcreate, Sys, At, procvars
<1>2. sem \in Sem /\ sstate[sem] = "S_FREE" /\ (sem + 1) % NSEM \in Sem
  <2> DEFINE i == Min(FreeSemOffsets)
  <2>1. FreeSemOffsets \subseteq Nat /\ FreeSemOffsets # {}
    BY NSEMAssumption DEF FreeSemOffsets, Semcreate
  <2>2. i \in FreeSemOffsets
    BY <2>1, MinNat
  <2>3. i \in Nat /\ sstate[sem] = "S_FREE"
    BY <2>1, <2>2 DEF FreeSemOffsets
  <2>0. sem = (nextsem + i) % NSEM
    OBVIOUS
  <2> HIDE DEF i, sem
  <2>4. nextsem + i \in Int /\ NSEM \in Int /\ NSEM > 0
    BY <2>3, NSEMAssumption DEF IInv, TableType, Sem
  <2>5. sem \in 0 .. NSEM-1
    BY <2>0, <2>4
  <2>6. \A j \in Int : j % NSEM \in 0 .. NSEM-1
    BY <2>4
  <2>7. sem \in Int
    BY <2>4, <2>5
  <2>8. (sem + 1) % NSEM \in 0 .. NSEM-1
    BY <2>6, <2>7
  <2> QED  BY <2>3, <2>5, <2>8 DEF Sem
<1>3. /\ sstate'  = [sstate EXCEPT ![sem] = "S_USED"]
      /\ scount'  = [scount EXCEPT ![sem] = count]
      /\ nextsem' = (sem + 1) % NSEM
  BY DEF Semcreate
<1> HIDE DEF sem
<1>4. /\ SemShape /\ CountsExact /\ FreeEmpty /\ scount \in [Sem -> Int]
      /\ sstate \in [Sem -> {"S_FREE", "S_USED"}] /\ SleepOK /\ Dispatched(sched)
  BY <1>1, SemParts DEF IInv
<1>5. count \in Nat
  BY CountsAssumption
<1>6. scount[sem] >= 0 /\ \A s \in Sem : sstate[s] = "S_FREE" => scount[s] >= 0
  BY <1>1, <1>2, <1>4 DEF FreeEmpty
<1>7. scount' \in [Sem -> Int] /\ sstate' \in [Sem -> {"S_FREE", "S_USED"}]
  <2>1. count \in Int
    BY <1>5
  <2>2. scount' \in [Sem -> Int]
    BY <1>3, <1>4, <2>1
  <2>3. sstate' \in [Sem -> {"S_FREE", "S_USED"}]
    BY <1>3, <1>4
  <2> QED  BY <2>2, <2>3
<1>8. FreeEmpty'
  BY <1>2, <1>3, <1>4, <1>6 DEF FreeEmpty
<1>9. CountsExact'
  BY <1>1, <1>2, <1>3, <1>4, <1>5, <1>6 DEF CountsExact, Waiters
<1>10. Still
  BY <1>1, SameStill
<1>11. SleepOK'
  BY <1>1, <1>4, <1>10, SleepQuiet DEF Still
<1>12. SemShape'
  BY <1>1, <1>4 DEF SemShape, InState, State
<1>13. SemOK'
  BY <1>7, <1>8, <1>9, <1>12, SemWhole
<1>14. ContInv' /\ Dispatched(sched')
  BY <1>1, <1>4, ContStays, DispatchedCur DEF IInv, Cur
<1>15. TableType'
  BY <1>1, <1>2, <1>3 DEF IInv, TableType
<1> QED  BY <1>11, <1>13, <1>14, <1>15 DEF IInv

-----------------------------------------------------------------------------
\* The loops under deferral.

\* A deferral begins: nothing else changes but what the call has left to do.
LEMMA StartStep ==
  ASSUME IInv, At("user"), NEW c, ContOK(c), c.op \in LoopOps, Goto(c),
         NEW s, Dispatched(s), s.prstate = sched.prstate, s.currpid = Cur, s.ndefers = 0,
         sched' = DeferStart(s), UNCHANGED <<procvars, sleepq>>
  PROVE  Dispatched(sched') /\ ContInv' /\ SleepOK' /\ Still /\ Cur' = Cur /\ Cur \in Pid
<1>1. Cur \in Pid /\ SleepOK
  BY Facts DEF IInv
<1>2. Dispatched(sched') /\ sched'.ndefers = 1 /\ sched'.currpid = Cur /\ sched'.prstate = sched.prstate
  BY DeferStartDispatches
<1>3. Still
  BY <1>2, SameStill
<1>4. Cur' = Cur
  BY <1>2 DEF Cur
<1>5. ContInv'
  BY <1>1, <1>2, <1>4, ContLoops DEF IInv
<1> QED  BY <1>1, <1>2, <1>3, <1>4, <1>5, SleepQuiet DEF Still

\* signaln, semdelete and semreset, up to their loops.
LEMMA SemStartStep ==
  ASSUME IInv, NEW sem \in Sem, NEW n \in Nat, NEW op \in SemLoops, At("user"),
         Goto(Cont(op, sem, n)), sched' = DeferStart(sched),
         UNCHANGED <<procvars, scount, squeue, nextsem, sleepq>>,
         \/ UNCHANGED sstate
         \/ op = "semdelete" /\ sstate' = [sstate EXCEPT ![sem] = "S_FREE"]
  PROVE  IInv'
<1> DEFINE c == Cont(op, sem, n)
<1>1. ContOK(c) /\ c.op \in LoopOps /\ c.op = op /\ c.obj = sem
  BY DEF ContOK, ContType, ContOps, Cont, SemLoops, LoopOps
<1>2. /\ Dispatched(sched) /\ sched.currpid = Cur /\ sched.ndefers = 0
      /\ ~At("semreset") /\ ~At("semdelete") /\ cont \in [Pid -> ContType]
  BY NotLooping, Facts DEF IInv, ContInv, Cur, At
<1>3. Dispatched(sched') /\ ContInv' /\ SleepOK' /\ Still /\ Cur' = Cur /\ Cur \in Pid
  BY <1>1, <1>2, StartStep
<1>4. /\ SemShape /\ CountsExact /\ FreeEmpty /\ scount \in [Sem -> Int]
      /\ sstate \in [Sem -> {"S_FREE", "S_USED"}]
  BY <1>2, SemParts DEF IInv
<1>5. SemShape' /\ CountsExact'
  BY <1>3, <1>4, InStateIff DEF SemShape, CountsExact, procvars, Still, StillWaiting
<1>6. sstate' \in [Sem -> {"S_FREE", "S_USED"}] /\ scount' \in [Sem -> Int]
  BY <1>4
<1>7. cont'[Cur'] = c
  BY <1>2, <1>3 DEF Goto
<1>8. FreeEmpty'
  BY <1>1, <1>2, <1>4, <1>7 DEF FreeEmpty, At
<1>9. SemOK'
  BY <1>5, <1>6, <1>8, SemWhole
<1>10. TableType'
  BY DEF IInv, TableType, procvars
<1> QED  BY <1>3, <1>9, <1>10 DEF IInv

\* The calls with a count.
LEMMA SemStartSteps ==
  ASSUME IInv, NEW sem \in Sem, NEW count \in Counts,
         Signaln(sem, count) \/ Semreset(sem, count)
  PROVE  IInv'
<1>1. count \in Nat
  BY CountsAssumption
<1>2. CASE Signaln(sem, count)
  BY <1>1, <1>2, SemStartStep DEF Signaln, Sys, semvars, SemLoops
<1>3. CASE Semreset(sem, count)
  BY <1>1, <1>3, SemStartStep DEF Semreset, Sys, semvars, SemLoops
<1> QED  BY <1>2, <1>3

\* semdelete.
LEMMA SemdeleteStep ==
  ASSUME IInv, NEW sem \in Sem, Semdelete(sem)
  PROVE  IInv'
BY SemStartStep DEF Semdelete, Sys, SemLoops

\* A deferral ends, and the process leaves the loop.
LEMMA StopStep ==
  ASSUME IInv, Looping, NEW c, ContOK(c), c.op \notin LoopOps, Goto(c),
         sched' = DeferStop(sched), UNCHANGED sleepq
  PROVE  Dispatched(sched') /\ ContInv' /\ SleepOK' /\ Still
<1>1. Cur \in Pid /\ SleepOK /\ Dispatched(sched) /\ sched.ndefers = 1
  BY Facts DEF IInv
<1>2. Dispatched(sched') /\ sched'.ndefers = 0 /\ Keeps(sched, sched', {})
  BY <1>1, DeferStopDispatches
<1>3. Still
  BY <1>2, KeepsStill
<1>4. ContInv'
  BY <1>1, <1>2, ContGoes, DispatchedCur DEF IInv, Cur
<1> QED  BY <1>1, <1>2, <1>3, <1>4, SleepQuiet DEF Still

\* The semaphore a loop is about, and the shape of its continuation.
LEMMA LoopFacts ==
  ASSUME IInv, At("signaln") \/ At("semdelete") \/ At("semreset")
  PROVE  /\ cont[Cur].obj \in Sem /\ cont[Cur].n \in Nat /\ cont[Cur].op \in SemLoops
         /\ Looping /\ Cur \in Pid
BY Facts DEF At, IInv, ContInv, ContOK, ContType, Looping, LoopOps, SemLoops

\* One round of signaln, or its end.
LEMMA SignalnLoopStep ==
  ASSUME IInv, SignalnLoop
  PROVE  IInv'
<1>1. /\ cont[Cur].obj \in Sem /\ cont[Cur].n \in Nat /\ Looping /\ Cur \in Pid
      /\ ~At("semreset") /\ ~At("semdelete")
      /\ UNCHANGED <<prsem, prhasmsg, prparent, prcount, nextpid, sstate, nextsem, sleepq>>
  BY LoopFacts DEF SignalnLoop, procvars, At
<1>2. TableType'
  BY <1>1 DEF IInv, TableType
<1> PICK sem \in Sem : sem = cont[Cur].obj
  BY <1>1
<1> PICK n \in Nat : n = cont[Cur].n
  BY <1>1
<1>3. CASE n > 0 /\ Signal1(sem) /\ Goto(Cont("signaln", sem, n - 1))
  <2>1. /\ Dispatched(sched') /\ sched'.ndefers = sched.ndefers /\ Cur' = Cur
        /\ SleepOK' /\ SemShape' /\ CountsExact'
        /\ scount' \in [Sem -> Int] /\ \A s \in Sem : scount'[s] >= scount[s]
    BY <1>1, <1>3, Signal1Step
  <2>2. FreeEmpty'
    BY <1>1, <2>1, FreeStays
  <2>3. sstate' \in [Sem -> {"S_FREE", "S_USED"}]
    BY <1>1 DEF IInv, SemOK
  <2>4. SemOK'
    BY <2>1, <2>2, <2>3, SemWhole
  <2>5. ContOK(Cont("signaln", sem, n - 1)) /\ Cont("signaln", sem, n - 1).op \in LoopOps
    BY <1>3 DEF ContOK, ContType, ContOps, Cont, SemLoops, LoopOps
  <2>6. sched'.ndefers = 1
    BY <1>1, <2>1, Facts
  <2>7. ContInv'
    BY <1>1, <1>3, <2>1, <2>5, <2>6, ContLoops DEF IInv
  <2> QED  BY <1>2, <2>1, <2>4, <2>7 DEF IInv
<1>4. CASE sched' = DeferStop(sched) /\ Goto(User) /\ UNCHANGED <<scount, squeue>>
  <2>1. Dispatched(sched') /\ ContInv' /\ SleepOK' /\ Still
    BY <1>1, <1>4, ContOKs, StopStep
  <2>2. /\ SemShape /\ CountsExact /\ scount \in [Sem -> Int]
        /\ sstate \in [Sem -> {"S_FREE", "S_USED"}]
    BY <1>1, SemParts DEF IInv
  <2>3. SemShape' /\ CountsExact'
    BY <1>1, <1>4, <2>1, <2>2, InStateIff DEF SemShape, CountsExact, Still, StillWaiting
  <2>4. FreeEmpty'
    BY <1>1, <1>4, <2>2, FreeStays
  <2>5. SemOK'
    BY <1>1, <1>4, <2>2, <2>3, <2>4, SemWhole
  <2> QED  BY <1>2, <2>1, <2>5 DEF IInv
<1> QED  BY <1>3, <1>4 DEF SignalnLoop

\* One round of semdelete, or its end: the count reaches 0 as the queue empties.
LEMMA SemdeleteLoopStep ==
  ASSUME IInv, SemdeleteLoop
  PROVE  IInv'
<1>1. /\ cont[Cur].obj \in Sem /\ Looping /\ Cur \in Pid /\ At("semdelete") /\ ~At("semreset")
      /\ UNCHANGED <<prsem, prhasmsg, prparent, prcount, nextpid, sstate, nextsem, sleepq>>
  BY LoopFacts DEF SemdeleteLoop, procvars, At
<1>2. TableType'
  BY <1>1 DEF IInv, TableType
<1> PICK sem \in Sem : sem = cont[Cur].obj
  BY <1>1
<1>3. /\ SemShape /\ CountsExact /\ scount \in [Sem -> Int] /\ FreeEmpty
      /\ sstate' \in [Sem -> {"S_FREE", "S_USED"}]
  BY <1>1, SemParts DEF IInv
<1>4. \A s \in Sem : sstate[s] = "S_FREE" => scount[s] >= 0 \/ s = sem
  BY <1>3 DEF FreeEmpty
<1>5. scount' = [scount EXCEPT ![sem] = scount[sem] + 1] /\ scount' \in [Sem -> Int]
  BY <1>3 DEF SemdeleteLoop
<1>6. CASE scount[sem] < 0 /\ ReleaseFirst(sem) /\ UNCHANGED cont
  <2>1. Signal1(sem)
    BY <1>5, <1>6 DEF Signal1
  <2>2. /\ Dispatched(sched') /\ sched'.ndefers = sched.ndefers /\ Cur' = Cur
        /\ SleepOK' /\ SemShape' /\ CountsExact'
    BY <1>1, <2>1, Signal1Step
  <2>3. cont'[Cur'] = cont[Cur]
    BY <1>6, <2>2
  <2>4. FreeEmpty'
    BY <1>1, <1>3, <1>4, <1>5, <2>3 DEF FreeEmpty, At
  <2>5. SemOK'
    BY <1>3, <1>5, <2>2, <2>4, SemWhole
  <2>6. ContInv'
    BY <1>6, <2>2, ContLoopStays DEF IInv
  <2> QED  BY <1>2, <2>2, <2>5, <2>6 DEF IInv
<1>7. CASE scount[sem] >= 0 /\ sched' = DeferStop(sched) /\ Goto(User) /\ UNCHANGED squeue
  <2>1. Dispatched(sched') /\ ContInv' /\ SleepOK' /\ Still
    BY <1>1, <1>7, ContOKs, StopStep
  <2>2. SemShape'
    BY <1>1, <1>3, <1>7, <2>1, InStateIff DEF SemShape, Still, StillWaiting
  <2>3. CountsExact'
    BY <1>3, <1>5, <1>7 DEF CountsExact, Waiters
  <2>4. \A s \in Sem : sstate[s] = "S_FREE" => scount'[s] >= 0
    BY <1>3, <1>4, <1>5, <1>7
  <2>5. FreeEmpty'
    BY <1>1, <2>4 DEF FreeEmpty
  <2>6. SemOK'
    BY <1>3, <1>5, <2>2, <2>3, <2>5, SemWhole
  <2> QED  BY <1>2, <2>1, <2>6 DEF IInv
<1>8. scount[sem] \in Int
  BY <1>3
<1> QED  BY <1>6, <1>7, <1>8 DEF SemdeleteLoop

\* One round of semreset, or its end.  Meanwhile this one count is wrong.
LEMMA SemresetLoopStep ==
  ASSUME IInv, SemresetLoop
  PROVE  IInv'
<1>1. /\ cont[Cur].obj \in Sem /\ cont[Cur].n \in Nat /\ Looping /\ Cur \in Pid
      /\ At("semreset") /\ ~At("semdelete")
      /\ UNCHANGED <<prsem, prhasmsg, prparent, prcount, nextpid, sstate, nextsem, sleepq>>
  BY LoopFacts DEF SemresetLoop, procvars, At
<1>2. TableType'
  BY <1>1 DEF IInv, TableType
<1> PICK sem \in Sem : sem = cont[Cur].obj
  BY <1>1
<1> PICK n \in Nat : n = cont[Cur].n
  BY <1>1
<1>3. /\ SemShape /\ scount \in [Sem -> Int] /\ squeue \in [Sem -> Queue(Pid)]
      /\ sstate' \in [Sem -> {"S_FREE", "S_USED"}]
  BY <1>1, SemParts DEF IInv, SemShape
<1>4. \A s \in Sem : s # sem => Len(squeue[s]) = Waiters(scount[s])
  BY <1>1 DEF IInv, SemOK, CountsMatchQueues, Waiters
<1>5. CASE ReleaseFirst(sem) /\ UNCHANGED <<cont, scount>>
  <2>1. /\ Dispatched(sched') /\ sched'.ndefers = sched.ndefers /\ Cur' = Cur
        /\ StillAsleep /\ SemShape' /\ \A s \in Sem : s # sem => Len(squeue'[s]) = Len(squeue[s])
    BY <1>1, <1>5, ReleaseFirstStep
  <2>2. cont'[Cur'].op = "semreset" /\ cont'[Cur'].obj = sem
    BY <1>1, <1>5, <2>1 DEF At
  <2>3. \A s \in Sem : s # sem => Len(squeue'[s]) = Waiters(scount'[s])
    BY <1>4, <1>5, <2>1
  <2>4. CountsMatchQueues'
    BY <2>2, <2>3 DEF CountsMatchQueues, At, Waiters
  <2>5. scount' \in [Sem -> Int] /\ \A s \in Sem : scount'[s] >= scount[s]
    BY <1>3, <1>5
  <2>6. FreeEmpty'
    BY <1>1, <2>5, FreeStays
  <2>7. SemOK'
    BY <1>3, <2>1, <2>4, <2>5, <2>6 DEF SemOK, SemShape
  <2>8. ContInv'
    BY <1>5, <2>1, ContLoopStays DEF IInv
  <2>9. SleepOK'
    BY <1>1, <2>1, SleepQuiet DEF IInv
  <2> QED  BY <1>2, <2>1, <2>7, <2>8, <2>9 DEF IInv
<1>6. CASE /\ IsEmpty(squeue[sem]) /\ scount' = [scount EXCEPT ![sem] = n]
           /\ sched' = DeferStop(sched) /\ Goto(User) /\ UNCHANGED squeue
  <2>1. Dispatched(sched') /\ ContInv' /\ SleepOK' /\ Still
    BY <1>1, <1>6, ContOKs, StopStep
  <2>2. SemShape'
    BY <1>1, <1>3, <1>6, <2>1, InStateIff DEF SemShape, Still, StillWaiting
  <2>3. Len(squeue[sem]) = 0
    BY <1>6 DEF IsEmpty
  <2>4. CountsExact'
    BY <1>3, <1>4, <1>6, <2>3 DEF CountsExact, Waiters
  <2>5. n \in Int /\ scount' \in [Sem -> Int]
    <3>1. n \in Int
      OBVIOUS
    <3> QED  BY <1>3, <1>6, <3>1
  <2>6. \A s \in Sem : sstate[s] = "S_FREE" => scount'[s] >= 0
    BY <1>1, <1>3, <1>6 DEF IInv, SemOK, FreeEmpty
  <2>7. FreeEmpty'
    BY <1>1, <2>6 DEF FreeEmpty
  <2>8. SemOK'
    BY <1>3, <2>2, <2>4, <2>5, <2>7, SemWhole
  <2> QED  BY <1>2, <2>1, <2>8 DEF IInv
<1> QED  BY <1>5, <1>6 DEF SemresetLoop

-----------------------------------------------------------------------------
\* kill, up to the message to the parent.
LEMMA KillStep ==
  ASSUME IInv, NEW pid \in Pid, Kill(pid)
  PROVE  IInv'
<1>1. /\ ~Looping /\ Cur \in Pid /\ sched.ndefers = 0 /\ pid # NULLPROC /\ prcount' = prcount - 1
      /\ prparent[pid] \in Pid
      /\ UNCHANGED <<prsem, prparent, nextpid, sstate, scount, squeue, nextsem>>
  BY NotLooping, Facts DEF Kill, Killable, Sys, semvars, IInv, TableType
<1>2. CASE Goto(Cont("xdone", 0, 0)) /\ UNCHANGED <<sched, prhasmsg, sleepq>>
  <2>1. Still /\ Dispatched(sched') /\ sched'.ndefers = 0
    BY <1>1, <1>2, SameStill DEF IInv
  <2>2. ContInv'
    BY <1>1, <1>2, <2>1, ContGoes, ContOKs, DispatchedCur DEF IInv, Cur
  <2>3. TableType'
    BY <1>1, <1>2 DEF IInv, TableType
  <2> QED  BY <1>1, <1>2, <2>1, <2>2, <2>3, QuietStep
<1>3. CASE Goto(Cont("kill", pid, 0)) /\ Deliver(prparent[pid])
  <2>1. /\ Dispatched(sched') /\ sched'.ndefers = 0
        /\ StillWaiting /\ SleepOK' /\ prhasmsg' \in [Pid -> BOOLEAN]
    BY <1>1, <1>3, DeliverStep
  <2>2. ContOK(Cont("kill", pid, 0)) /\ Cont("kill", pid, 0).op \notin LoopOps
    BY <1>1 DEF ContOK, ContType, ContOps, Cont, SemLoops, LoopOps
  <2>3. ContInv'
    BY <1>1, <1>3, <2>1, <2>2, ContGoes, DispatchedCur DEF IInv, Cur
  <2>4. TableType'
    BY <1>1, <2>1 DEF IInv, TableType
  <2>5. SemOK'
    BY <1>1, <2>1, SemQuiet DEF IInv, SemOK
  <2> QED  BY <2>1, <2>3, <2>4, <2>5 DEF IInv
<1> QED  BY <1>2, <1>3 DEF Kill

\* A process that was neither running nor ready is freed.
LEMMA FreedDispatches ==
  ASSUME IInv, ~Looping, NEW pid \in Pid, State(pid) \notin Runnable, NEW ks \in [Pid -> Int],
         sched' = Restated(sched, pid, "FREE", sched.prprio, ks)
  PROVE  /\ Dispatched(sched') /\ sched'.ndefers = 0
         /\ sched'.prstate = [sched.prstate EXCEPT ![pid] = "FREE"]
<1> DEFINE t == Restated(sched, pid, "FREE", sched.prprio, ks)
<1>1. /\ sched.prstate[pid] \notin Runnable /\ "FREE" \in PrState \ Runnable
      /\ sched.prprio \in [Pid -> Nat] /\ Dispatched(sched) /\ sched.ndefers = 0
  BY Facts DEF IInv, State, PrState, Runnable
<1>2. /\ Dispatched(t) /\ t.ndefers = sched.ndefers
      /\ t.prstate = [sched.prstate EXCEPT ![pid] = "FREE"]
  BY <1>1, RestateDispatches
<1> QED  BY <1>1, <1>2

\* The rest of kill: the victim leaves the queue it is on by now, and with it
\* the semaphore it waits for.
LEMMA KillEndStep ==
  ASSUME IInv, KillEnd
  PROVE  IInv'
<1>1. /\ ~Looping /\ ~At("semreset") /\ ~At("semdelete") /\ Cur \in Pid /\ sched.ndefers = 0
      /\ cont[Cur].obj \in Pid \ {NULLPROC} /\ Dispatched(sched) /\ SleepOK
      /\ UNCHANGED <<prsem, prhasmsg, prparent, prcount, nextpid, sstate, nextsem>>
  BY NotLooping, Facts DEF KillEnd, At, IInv, ContInv, ContOK, procvars
<1> PICK pid \in Pid \ {NULLPROC} : pid = cont[Cur].obj
  BY <1>1
<1>2. cont' = [cont EXCEPT ![Cur] = User, ![pid] = User]
  BY DEF KillEnd
<1>3. TableType'
  BY <1>1 DEF IInv, TableType
<1>4. ASSUME Dispatched(sched'), sched'.ndefers = 0
      PROVE  ContInv'
  <2>1. /\ cont' \in [Pid -> ContType]
        /\ \A p \in Pid : cont'[p] = IF p = Cur \/ p = pid THEN User ELSE cont[p]
    BY <1>1, <1>2, ContOKs DEF IInv, ContInv, ContOK
  <2>2. \A p \in Pid : cont[p].op \notin LoopOps
    BY <1>1 DEF IInv, ContInv, Looping
  <2>3. \A p \in Pid : ContOK(cont'[p]) /\ cont'[p].op \notin LoopOps
    BY <2>1, <2>2, ContOKs DEF IInv, ContInv
  <2>4. Cur' \in Pid
    BY <1>4, DispatchedCur DEF Cur
  <2> QED  BY <1>4, <2>1, <2>3, <2>4 DEF ContInv
<1>5. "FREE" \in PrState \ Runnable
  BY DEF PrState, Runnable
<1>6. sched.prprio \in [Pid -> Nat] /\ sched.qkey \in [Pid -> Int] /\ sched.prstate \in [Pid -> PrState]
  BY Facts
<1>7. CASE /\ State(pid) = "CURR" /\ UNCHANGED <<sleepq, scount, squeue>>
           /\ sched' = Resched([sched EXCEPT !.prstate[pid] = "FREE"])
  <2>1. pid = Cur
    BY <1>1, <1>7 DEF Dispatched, Eligible, State, Cur
  <2>2. sched' = Block(sched, "FREE")
    BY <1>7, <2>1 DEF Block, Cur
  <2>3. /\ Dispatched(sched') /\ sched'.ndefers = 0 /\ sched'.prstate[pid] = "FREE"
        /\ Keeps(sched, sched', {pid})
    BY <1>1, <1>5, <2>1, <2>2, BlockDispatches DEF Cur
  <2>4. Still
    BY <1>7, <2>3, KeepsStill DEF State, Blocked, Asleep
  <2> QED  BY <1>1, <1>3, <1>4, <1>7, <2>3, <2>4, QuietStep
<1>8. CASE /\ State(pid) \in Asleep /\ sleepq' = GetItem(sleepq, pid)
           /\ UNCHANGED <<scount, squeue>>
           /\ sched' = [[sched EXCEPT !.prstate[pid] = "FREE"] EXCEPT
                            !.qkey = UnsleepKeys(sleepq, sched.qkey, pid)]
  <2> DEFINE ks == UnsleepKeys(sleepq, sched.qkey, pid)
  <2>1. ks \in [Pid -> Int]
    BY <1>6, UnsleepKeysInt
  <2>2. sched' = Restated(sched, pid, "FREE", sched.prprio, ks)
    BY <1>8, Facts DEF Restated, SchedType
  <2> HIDE DEF ks
  <2>3. State(pid) \notin Runnable /\ State(pid) # "WAIT"
    BY <1>8 DEF Asleep, Runnable
  <2>4. /\ Dispatched(sched') /\ sched'.ndefers = 0
        /\ sched'.prstate = [sched.prstate EXCEPT ![pid] = "FREE"]
    BY <1>1, <2>1, <2>2, <2>3, FreedDispatches
  <2>5. StillWaiting
    BY <1>6, <2>3, <2>4 DEF StillWaiting, State
  <2>6. /\ State(pid)' \notin Asleep
        /\ \A p \in Pid \ {pid} : State(p)' \in Asleep <=> State(p) \in Asleep
    BY <1>6, <2>4 DEF State, Asleep
  <2>7. pid \in Range(sleepq) /\ sleepq \in Queue(Pid)
    BY <1>1, <1>8 DEF SleepOK, InState
  <2>8. sleepq' \in Queue(Pid) /\ Range(sleepq') = Range(sleepq) \ {pid}
    BY <1>8, <2>7, GetItemQueue
  <2>9. SleepOK'
    BY <1>1, <2>6, <2>8, SleepLeaves
  <2>10. SemOK'
    BY <1>1, <1>8, <2>5, SemQuiet DEF IInv, SemOK
  <2> QED  BY <1>3, <1>4, <2>4, <2>9, <2>10 DEF IInv
<1>9. CASE /\ State(pid) = "WAIT" /\ LeaveSemaphore(pid) /\ UNCHANGED sleepq
           /\ sched' = [sched EXCEPT !.prstate[pid] = "FREE"]
  <2>1. sched' = Restated(sched, pid, "FREE", sched.prprio, sched.qkey)
    BY <1>9, Facts DEF Restated, SchedType
  <2>2. /\ Dispatched(sched') /\ sched'.ndefers = 0
        /\ sched'.prstate = [sched.prstate EXCEPT ![pid] = "FREE"]
    BY <1>1, <1>6, <1>9, <2>1, FreedDispatches DEF Runnable
  <2>3. StillAsleep
    BY <1>6, <1>9, <2>2 DEF StillAsleep, State, Asleep
  <2>4. /\ State(pid)' # "WAIT"
        /\ \A p \in Pid \ {pid} : State(p)' = "WAIT" <=> State(p) = "WAIT"
    BY <1>6, <2>2 DEF State
  <2>5. SleepOK'
    BY <1>1, <1>9, <2>3, SleepQuiet
  <2>6. /\ SemShape /\ CountsExact /\ scount \in [Sem -> Int] /\ squeue \in [Sem -> Queue(Pid)]
        /\ sstate' \in [Sem -> {"S_FREE", "S_USED"}]
    BY <1>1, SemParts DEF IInv, SemShape
  <2>7. prsem[pid] \in Sem
    BY <1>9, <2>6, InStateIff DEF SemShape
  <2> PICK sem \in Sem : sem = prsem[pid]
    BY <2>7
  <2>8. pid \in Range(squeue[sem])
    BY <1>9, <2>6, InStateIff DEF SemShape
  <2> DEFINE q == GetItem(squeue[sem], pid)
  <2>9. /\ q \in Queue(Pid) /\ Len(q) = Len(squeue[sem]) - 1
        /\ Range(q) = Range(squeue[sem]) \ {pid}
    BY <2>6, <2>8, GetItemQueue
  <2>10. /\ squeue' = [squeue EXCEPT ![sem] = q]
         /\ scount' = [scount EXCEPT ![sem] = scount[sem] + 1]
    BY <1>9 DEF LeaveSemaphore
  <2>11. squeue[sem] \in Queue(Pid) /\ Len(squeue[sem]) \in Nat /\ Len(squeue[sem]) # 0
    BY <2>6, <2>8, EmptyQueue DEF Queue
  <2> HIDE DEF q
  <2>12. SemShape'
    BY <1>1, <2>4, <2>6, <2>8, <2>9, <2>10, WaiterLeaves
  <2>13. \A s \in Sem : Len(squeue'[s]) = IF s = sem THEN Len(squeue[s]) - 1 ELSE Len(squeue[s])
    BY <2>6, <2>9, <2>10
  <2>14. CountsExact'
    BY <2>6, <2>10, <2>11, <2>13 DEF CountsExact, Waiters
  <2>15. scount' \in [Sem -> Int] /\ \A s \in Sem : scount'[s] >= scount[s]
    BY <2>6, <2>10
  <2>16. FreeEmpty'
    BY <1>1, <2>15, FreeStays
  <2>17. SemOK'
    BY <2>6, <2>12, <2>14, <2>15, <2>16, SemWhole
  <2> QED  BY <1>3, <1>4, <2>2, <2>5, <2>17 DEF IInv
<1>10. CASE /\ State(pid) = "READY" /\ UNCHANGED <<sleepq, scount, squeue>>
            /\ sched' = [[sched EXCEPT !.prstate[pid] = "FREE"] EXCEPT
                             !.readylist = GetItem(sched.readylist, pid)]
  <2>1. sched' = Unready(sched, pid, "FREE")
    BY <1>10, Facts DEF Unready, SchedType
  <2>2. /\ Dispatched(sched') /\ sched'.ndefers = 0
        /\ sched'.prstate = [sched.prstate EXCEPT ![pid] = "FREE"]
    <3>1. sched.prstate[pid] = "READY"
      BY <1>10 DEF State
    <3>2. /\ Dispatched(Unready(sched, pid, "FREE")) /\ Unready(sched, pid, "FREE").ndefers = 0
          /\ Unready(sched, pid, "FREE").prstate = [sched.prstate EXCEPT ![pid] = "FREE"]
      BY <1>1, <1>5, <3>1, UnreadyDispatches
    <3> QED  BY <2>1, <3>2
  <2>3. Still
    BY <1>6, <1>10, <2>2 DEF Still, StillAsleep, StillWaiting, State, Asleep
  <2> QED  BY <1>1, <1>3, <1>4, <1>10, <2>2, <2>3, QuietStep
<1>11. CASE /\ State(pid) \in {"SUSP", "RECV", "FREE"} /\ UNCHANGED <<sleepq, scount, squeue>>
            /\ sched' = [sched EXCEPT !.prstate[pid] = "FREE"]
  <2>1. sched' = Restated(sched, pid, "FREE", sched.prprio, sched.qkey)
    BY <1>11, Facts DEF Restated, SchedType
  <2>2. /\ Dispatched(sched') /\ sched'.ndefers = 0
        /\ sched'.prstate = [sched.prstate EXCEPT ![pid] = "FREE"]
    BY <1>1, <1>6, <1>11, <2>1, FreedDispatches DEF Runnable
  <2>3. Still
    BY <1>6, <1>11, <2>2 DEF Still, StillAsleep, StillWaiting, State, Asleep
  <2> QED  BY <1>1, <1>3, <1>4, <1>11, <2>2, <2>3, QuietStep
<1> QED  BY <1>7, <1>8, <1>9, <1>10, <1>11 DEF KillEnd, Asleep

-----------------------------------------------------------------------------
\* The clock.  The end of clkhandler may reschedule, and that is all it does.
LEMMA PreemptDispatches ==
  ASSUME NEW s, Dispatched(s), s.ndefers = 0
  PROVE  Dispatched(Preempt(s)) /\ Preempt(s).ndefers = 0 /\ Keeps(s, Preempt(s), {})
<1>1. s \in SchedType
  BY DEF Dispatched, Eligible
<1> DEFINE T(k) == [s EXCEPT !.preempt = k]
<1>2. ASSUME NEW k \in 1 .. QUANTUM
      PROVE  Dispatched(T(k)) /\ T(k).ndefers = 0 /\ T(k).prstate = s.prstate
  <2> DEFINE t == T(k)
  <2>1. /\ t \in SchedType /\ t.prstate = s.prstate /\ t.readylist = s.readylist
        /\ t.currpid = s.currpid /\ t.ndefers = 0
    BY <1>1 DEF SchedType
  <2> HIDE DEF t
  <2>2. Dispatched(t)
    BY <2>1, RewriteDispatches
  <2> QED  BY <2>1, <2>2 DEF t
<1>3. CASE s.preempt - 1 <= 0
  <2>1. QUANTUM \in 1 .. QUANTUM
    BY QUANTUMAssumption
  <2>2. Preempt(s) = Resched(T(QUANTUM))
    BY <1>3 DEF Preempt
  <2> HIDE DEF T
  <2>3. Dispatched(T(QUANTUM)) /\ T(QUANTUM).ndefers = 0 /\ T(QUANTUM).prstate = s.prstate
    BY <1>2, <2>1
  <2>4. /\ Dispatched(Resched(T(QUANTUM))) /\ Resched(T(QUANTUM)).ndefers = 0
        /\ Keeps(T(QUANTUM), Resched(T(QUANTUM)), {})
    BY <2>3, ReschedDispatches DEF Dispatched, KeepsBlocked
  <2> QED  BY <2>2, <2>3, <2>4 DEF Keeps
<1>4. CASE ~(s.preempt - 1 <= 0)
  <2>1. s.preempt - 1 \in 1 .. QUANTUM
    BY <1>1, <1>4, QUANTUMAssumption DEF SchedType
  <2>2. Preempt(s) = T(s.preempt - 1)
    BY <1>4 DEF Preempt
  <2> HIDE DEF T
  <2> QED  BY <1>2, <2>1, <2>2 DEF Keeps
<1> QED  BY <1>3, <1>4

\* clkhandler.
LEMMA ClkhandlerStep ==
  ASSUME IInv, Clkhandler
  PROVE  IInv'
<1>1. /\ At("user") /\ ~Looping /\ Cur \in Pid /\ sched.ndefers = 0 /\ sched.currpid = Cur
      /\ Dispatched(sched) /\ SleepOK /\ sched.qkey \in [Pid -> Int]
      /\ UNCHANGED <<procvars, semvars, sleepq>>
  BY NotLooping, Facts DEF Clkhandler, IInv, Cur
<1>2. CASE IsEmpty(sleepq) /\ sched' = Preempt(sched) /\ UNCHANGED cont
  <2>1. Dispatched(sched') /\ sched'.ndefers = 0 /\ Keeps(sched, sched', {})
    BY <1>1, <1>2, PreemptDispatches
  <2> QED  BY <1>1, <1>2, <2>1, KeepsStill, SchedStep
<1>3. CASE ~IsEmpty(sleepq)
  <2> DEFINE pid == Head(sleepq)
             ks == [sched.qkey EXCEPT ![pid] = sched.qkey[pid] - 1]
             s == Rekeyed(sched, ks)
             d == [sched EXCEPT !.qkey[pid] = @ - 1]
  <2>1. pid \in Pid
    BY <1>1, <1>3, DequeueQueue DEF SleepOK
  <2>2. d = s
    BY Facts DEF SchedType, Rekeyed
  <2>3. IF d.qkey[pid] <= 0 THEN sched' = DeferStart(d) /\ Goto(Cont("wakeup", 0, 0))
        ELSE sched' = Preempt(d) /\ UNCHANGED cont
    BY <1>3 DEF Clkhandler
  <2> HIDE DEF d, pid
  <2>4. ks \in [Pid -> Int]
    BY <1>1, <2>1
  <2> HIDE DEF ks
  <2>5. Dispatched(s) /\ s.prstate = sched.prstate /\ s.ndefers = 0 /\ s.currpid = Cur
    BY <1>1, <2>4, QkeyDispatches
  <2> HIDE DEF s
  <2>6. CASE sched' = DeferStart(s) /\ Goto(Cont("wakeup", 0, 0))
    <3>1. ContOK(Cont("wakeup", 0, 0)) /\ Cont("wakeup", 0, 0).op \in LoopOps
      BY NullPid DEF ContOK, ContType, ContOps, Cont, SemLoops, LoopOps, NULLPROC
    <3>2. Dispatched(sched') /\ ContInv' /\ SleepOK' /\ Still
      BY <1>1, <2>5, <2>6, <3>1, StartStep
    <3>3. TableType'
      BY <1>1 DEF IInv, TableType, procvars, semvars
    <3> QED  BY <1>1, <3>2, <3>3, QuietStep DEF procvars, semvars
  <2>7. CASE sched' = Preempt(s) /\ UNCHANGED cont
    <3>1. Dispatched(sched') /\ sched'.ndefers = 0 /\ Keeps(s, sched', {})
      BY <2>5, <2>7, PreemptDispatches
    <3>2. Keeps(sched, sched', {})
      BY <2>5, <3>1 DEF Keeps
    <3> QED  BY <1>1, <2>7, <3>1, <3>2, KeepsStill, SchedStep
  <2> QED  BY <2>2, <2>3, <2>6, <2>7
<1> QED  BY <1>2, <1>3 DEF Clkhandler

\* One round of wakeup, or its end.
LEMMA WakeupStep ==
  ASSUME IInv, Wakeup
  PROVE  IInv'
<1>1. /\ Looping /\ ~At("semreset") /\ ~At("semdelete") /\ Cur \in Pid /\ sched.ndefers = 1
      /\ Dispatched(sched) /\ SleepOK
      /\ UNCHANGED <<prsem, prhasmsg, prparent, prcount, nextpid, sstate, scount, squeue, nextsem>>
  BY Facts DEF Wakeup, At, Looping, LoopOps, IInv, procvars, semvars
<1>2. TableType'
  BY <1>1 DEF IInv, TableType
<1>3. ASSUME StillWaiting
      PROVE  SemOK'
  <2>1. /\ SemShape /\ CountsExact /\ scount \in [Sem -> Int]
        /\ sstate \in [Sem -> {"S_FREE", "S_USED"}]
    BY <1>1, SemParts DEF IInv
  <2>2. SemShape' /\ CountsExact'
    BY <1>1, <1>3, <2>1, InStateIff DEF SemShape, CountsExact, StillWaiting
  <2>3. FreeEmpty'
    BY <1>1, <2>1, FreeStays
  <2> QED  BY <1>1, <2>1, <2>2, <2>3, SemWhole
<1>4. CASE /\ ~IsEmpty(sleepq) /\ sched' = Ready(sched, Head(sleepq))
           /\ sleepq' = Tail(sleepq) /\ UNCHANGED cont
  <2>1. /\ Head(sleepq) \in Pid /\ Head(sleepq) \in Range(sleepq) /\ sleepq' \in Queue(Pid)
        /\ Range(sleepq') = Range(sleepq) \ {Head(sleepq)}
    BY <1>1, <1>4, DequeueQueue DEF SleepOK
  <2> PICK pid \in Pid : pid = Head(sleepq)
    BY <2>1
  <2>2. State(pid) \in Asleep
    BY <1>1, <2>1 DEF SleepOK, InState
  <2>3. sched.prstate[pid] \notin Runnable
    BY <2>2 DEF State, Asleep, Runnable
  <2>4. sched' = Ready(sched, pid)
    BY <1>4
  <2>5. /\ Dispatched(sched') /\ sched'.ndefers = sched.ndefers /\ sched'.currpid = sched.currpid
        /\ sched'.prstate[pid] \in Runnable /\ Keeps(sched, sched', {pid})
    BY <1>1, <2>3, <2>4, ReadyDispatches
  <2>6. State(pid)' \notin Asleep /\ State(pid)' # "WAIT" /\ State(pid) # "WAIT"
    BY <2>2, <2>5 DEF State, Runnable, Asleep
  <2>7. StillWaiting
    BY <2>5, <2>6, KeepsOthers DEF StillWaiting
  <2>8. SleepOK'
    BY <1>1, <2>1, <2>5, <2>6, KeepsOthers, SleepLeaves
  <2>9. ContInv'
    BY <1>4, <2>5, ContLoopStays DEF IInv, Cur
  <2> QED  BY <1>2, <1>3, <2>5, <2>7, <2>8, <2>9 DEF IInv
<1>5. CASE sched' = DeferStop(sched) /\ Goto(Cont("clkhandler", 0, 0)) /\ UNCHANGED sleepq
  <2>1. Dispatched(sched') /\ ContInv' /\ SleepOK' /\ Still
    BY <1>1, <1>5, ContOKs, StopStep
  <2> QED  BY <1>2, <1>3, <2>1 DEF IInv, Still
<1> QED  BY <1>4, <1>5 DEF Wakeup

\* The rest of clkhandler.
LEMMA ClkhandlerEndStep ==
  ASSUME IInv, ClkhandlerEnd
  PROVE  IInv'
<1>1. /\ ~Looping /\ Cur \in Pid /\ sched.ndefers = 0 /\ Dispatched(sched)
      /\ UNCHANGED <<prsem, prhasmsg, prparent, prcount, nextpid, sstate, scount, squeue,
                     nextsem, sleepq>>
  BY NotLooping, Facts DEF ClkhandlerEnd, IInv, procvars, semvars
<1>2. Dispatched(sched') /\ sched'.ndefers = 0 /\ Keeps(sched, sched', {})
  BY <1>1, PreemptDispatches DEF ClkhandlerEnd
<1>3. Still
  BY <1>2, KeepsStill
<1>4. ContInv'
  BY <1>1, <1>2, ContGoes, ContOKs, DispatchedCur DEF IInv, Cur, ClkhandlerEnd
<1>5. TableType'
  BY <1>1 DEF IInv, TableType
<1> QED  BY <1>1, <1>2, <1>3, <1>4, <1>5, QuietStep

-----------------------------------------------------------------------------
\* The invariant holds once nulluser has resumed the main process.
LEMMA InitInv ==
  ASSUME Init
  PROVE  IInv
<1>1. /\ 1 \in Pid /\ 0 \in Pid /\ NULLPROC = 0 /\ 0 \in Sem /\ Pid \subseteq Nat /\ 2 \in 1 .. NPROC
      /\ QUANTUM \in 1 .. QUANTUM /\ 1 # 0
  BY NPROCAssumption, NSEMAssumption, QUANTUMAssumption DEF Pid, Sem, NULLPROC
<1> DEFINE st == [p \in Pid |-> IF p = 0 THEN "READY" ELSE IF p = 1 THEN "CURR" ELSE "FREE"]
<1>2. /\ sched.prstate = st /\ sched.readylist = <<0>> /\ sched.currpid = 1 /\ sched.ndefers = 0
      /\ sched.prprio = [p \in Pid |-> IF p = 1 THEN 1 ELSE 0] /\ sched.qkey = [p \in Pid |-> 0]
      /\ sched.preempt = QUANTUM /\ sched.attempt = FALSE
      /\ sched = [prstate |-> sched.prstate, prprio |-> sched.prprio, qkey |-> sched.qkey,
                  readylist |-> sched.readylist, currpid |-> sched.currpid,
                  preempt |-> sched.preempt, ndefers |-> sched.ndefers, attempt |-> sched.attempt]
  BY <1>1 DEF Init
<1>3. <<0>> \in Queue(Pid) /\ Range(<<0>>) = {0}
  BY <1>1 DEF Queue, IsInjective, Range
<1>4. st \in [Pid -> PrState]
  BY DEF PrState
<1>5. sched \in SchedType
  <2>1. sched.prprio \in [Pid -> Nat] /\ sched.qkey \in [Pid -> Int]
    BY <1>2
  <2>2. sched.attempt \in BOOLEAN
    BY <1>2
  <2>3. /\ sched.prstate \in [Pid -> PrState] /\ sched.readylist \in Queue(Pid)
        /\ sched.currpid \in Pid /\ sched.preempt \in 1 .. QUANTUM /\ sched.ndefers \in Nat
    BY <1>1, <1>2, <1>3, <1>4
  <2> QED  BY <1>2, <2>1, <2>2, <2>3 DEF SchedType
<1>6. /\ Range(sched.readylist) = {p \in Pid : sched.prstate[p] = "READY"}
      /\ sched.prstate[NULLPROC] \in Runnable /\ sched.prstate[sched.currpid] = "CURR"
      /\ \A p \in Pid : sched.prstate[p] = "CURR" => p = sched.currpid
  BY <1>1, <1>2, <1>3 DEF Runnable
<1>7. Dispatched(sched)
  BY <1>5, <1>6 DEF Dispatched, Eligible
<1>8. ContInv
  <2>1. cont = [p \in Pid |-> User]
    BY DEF Init
  <2> QED  BY <1>1, <1>2, <2>1, ContOKs DEF ContInv, ContOK, Cur
<1>9. TableType
  BY <1>1 DEF Init, TableType
<1>10. InState(Asleep) = {} /\ InState({"WAIT"}) = {}
  BY <1>2 DEF InState, State, Asleep
<1>11. SleepOK
  BY <1>10, EmptyQueue DEF Init, SleepOK
<1>12. /\ prsem \in [Pid -> Sem \cup {-1}] /\ sstate \in [Sem -> {"S_FREE", "S_USED"}]
       /\ scount \in [Sem -> Int] /\ squeue \in [Sem -> Queue(Pid)]
       /\ \A sem \in Sem : squeue[sem] = <<>> /\ scount[sem] = 0
  BY EmptyQueue DEF Init
<1>13. SemOK
  BY <1>10, <1>12, EmptyQueue DEF SemOK, CountsMatchQueues, FreeEmpty
<1> QED  BY <1>7, <1>8, <1>9, <1>11, <1>13 DEF IInv

\* Every step keeps it.
LEMMA NextInv ==
  ASSUME IInv, [Next]_vars
  PROVE  IInv'
<1>1. CASE Syscall
  BY <1>1, CreateStep, ResumeStep, SuspendStep, SendStep, KillStep, ChprioStep, YieldStep,
     ReceiveStep, FlagSteps, RecvtimeStep, SleepmsStep, WaitStep, SignalStep, SemStartSteps,
     SemdeleteStep, SemcreateStep
     DEF Syscall
<1>2. CASE Kernel
  BY <1>2, FlagSteps, KillEndStep, SignalnLoopStep, SemdeleteLoopStep, SemresetLoopStep,
     WakeupStep, ClkhandlerEndStep
     DEF Kernel
<1>3. CASE Clkhandler
  BY <1>3, ClkhandlerStep
<1>4. CASE UNCHANGED vars
  <2>1. /\ UNCHANGED <<sched, cont, prsem, prhasmsg, prparent, prcount, nextpid, sstate, scount,
                       squeue, nextsem, sleepq>>
    BY <1>4 DEF vars, procvars, semvars
  <2> QED  BY <2>1 DEF IInv, ContInv, TableType, SleepOK, SemOK, CountsMatchQueues, FreeEmpty,
                       InState, State, Cur, At, ContOK
<1> QED  BY <1>1, <1>2, <1>3, <1>4 DEF Next

\* The invariant of the kernel, for every run.
THEOREM KernelInv == Spec => []IInv
<1>1. Init => IInv
  BY InitInv
<1>2. IInv /\ [Next]_vars => IInv'
  BY NextInv
<1> QED  BY <1>1, <1>2, PTL DEF Spec

\* Every global keeps a value of its type, and deferral is never nested.
THEOREM KernelTypeOK == Spec => []TypeOK
<1>1. IInv => TypeOK
  <2> SUFFICES ASSUME IInv  PROVE TypeOK
    OBVIOUS
  <2>1. sched \in SchedType /\ sched.ndefers \in 0 .. 1
    BY DEF IInv, Dispatched, Eligible, ContInv
  <2>2. Queue(Pid) \subseteq Seq(Pid)
    BY DEF Queue
  <2>3. sched \in [prstate : [Pid -> PrState], prprio : [Pid -> Nat],
                   qkey : [Pid -> Int], readylist : Seq(Pid), currpid : Pid,
                   preempt : 1 .. QUANTUM, ndefers : 0 .. 1, attempt : BOOLEAN]
    BY <2>1, <2>2 DEF SchedType
  <2>4. squeue \in [Sem -> Seq(Pid)] /\ sleepq \in Seq(Pid)
    BY <2>2 DEF IInv, SemOK, SleepOK
  <2>5. cont \in [Pid -> [op : ContOps, obj : Pid \cup Sem, n : Nat]]
    BY DEF IInv, ContInv, ContType
  <2> QED  BY <2>3, <2>4, <2>5 DEF TypeOK, IInv, TableType, SemOK
<1> QED  BY <1>1, KernelInv, PTL

\* A process is on exactly the queue its state names, whatever calls, wakeups,
\* kills and clock ticks come in whatever order.
THEOREM KernelQueues == Spec => []QueuesMatchStates
<1>1. IInv => QueuesMatchStates
  <2> SUFFICES ASSUME IInv  PROVE QueuesMatchStates
    OBVIOUS
  <2>1. IsInjective(sched.readylist) /\ Range(sched.readylist) = InState({"READY"})
    BY DEF IInv, Dispatched, Eligible, SchedType, Queue, InState, State
  <2>2. IsInjective(sleepq) /\ Range(sleepq) = InState({"SLEEP", "RECTIM"})
    BY DEF IInv, SleepOK, Queue, Asleep
  <2>3. \A sem \in Sem : /\ IsInjective(squeue[sem])
                         /\ Range(squeue[sem]) = {p \in InState({"WAIT"}) : prsem[p] = sem}
    BY DEF IInv, SemOK, Queue
  <2>4. InState({"CURR"}) = {Cur}
    BY Facts DEF IInv, Dispatched, Eligible, InState, State, Cur
  <2> QED  BY <2>1, <2>2, <2>3, <2>4 DEF QueuesMatchStates
<1> QED  BY <1>1, KernelInv, PTL

\* The count of a semaphore is the number of its waiters when it is negative,
\* and a semaphore with a count of zero or more has none.
THEOREM KernelCounts == Spec => []CountsMatchQueues
<1>1. IInv => CountsMatchQueues
  BY DEF IInv, SemOK
<1> QED  BY <1>1, KernelInv, PTL

-----------------------------------------------------------------------------
\* Scheduling: every step leaves the scheduler's globals as one of its
\* operations leaves them.

\* Taking a sleeper off the sleep queue, or putting the caller on it, changes
\* no key the ready list is sorted by.
LEMMA SleepKeys ==
  ASSUME IInv, NEW pid \in Pid, NEW key \in Int
  PROVE  LET un == UnsleepKeys(sleepq, sched.qkey, pid)
             in == InsertdKeys(sleepq, sched.qkey, Cur, key)
         IN  /\ un \in [Pid -> Int]
             /\ \A p \in Pid : sched.prstate[p] = "READY" => un[p] = sched.qkey[p]
             /\ in \in [Pid -> Int]
             /\ \A p \in Pid : sched.prstate[p] = "READY" => in[p] = sched.qkey[p]
<1>1. /\ sleepq \in Queue(Pid) /\ sched.qkey \in [Pid -> Int] /\ Cur \in Pid
      /\ State(Cur) = "CURR" /\ \A p \in Range(sleepq) : State(p) \in Asleep
  BY Facts DEF IInv, SleepOK, InState
<1>2. Cur \notin Range(sleepq)
  BY <1>1 DEF Asleep
<1>3. \A p \in Pid : sched.prstate[p] = "READY" => p \notin Range(sleepq) /\ p # Cur
  BY <1>1 DEF State, Asleep
<1>4. UnsleepKeys(sleepq, sched.qkey, pid) \in [Pid -> Int]
  BY <1>1, UnsleepKeysInt
<1>5. InsertdKeys(sleepq, sched.qkey, Cur, key) \in [Pid -> Int]
  BY <1>1, <1>2, InsertdKeysInt
<1>6. ASSUME NEW p \in Pid, sched.prstate[p] = "READY"
      PROVE  /\ UnsleepKeys(sleepq, sched.qkey, pid)[p] = sched.qkey[p]
             /\ InsertdKeys(sleepq, sched.qkey, Cur, key)[p] = sched.qkey[p]
  BY <1>1, <1>3, <1>6, OtherKeysStay
<1> QED  BY <1>4, <1>5, <1>6

\* send's delivery.
LEMMA DeliverScheduled ==
  ASSUME IInv, Scheduled(sched), NEW pid \in Pid, Deliver(pid)
  PROVE  Scheduled(sched')
<1>1. CASE UNCHANGED sched
  BY <1>1
<1>2. CASE State(pid) = "RECV" /\ sched' = Ready(sched, pid)
  BY <1>2, ReadyScheduled DEF State, Runnable
<1>3. CASE /\ State(pid) = "RECTIM"
           /\ sched' = Ready([sched EXCEPT !.qkey = UnsleepKeys(sleepq, @, pid)], pid)
  <2> DEFINE ks == UnsleepKeys(sleepq, sched.qkey, pid)
             s == Rekeyed(sched, ks)
  <2>1. ks \in [Pid -> Int] /\ \A p \in Pid : sched.prstate[p] = "READY" => ks[p] = sched.qkey[p]
    BY SleepKeys
  <2>2. sched' = Ready(s, pid)
    BY <1>3 DEF Rekeyed
  <2> HIDE DEF ks
  <2>3. Scheduled(s) /\ s.prstate = sched.prstate
    BY <2>1, RekeyedScheduled, QkeyDispatches DEF Scheduled
  <2> HIDE DEF s
  <2> QED  BY <1>3, <2>2, <2>3, ReadyScheduled DEF State, Runnable
<1> QED  BY <1>1, <1>2, <1>3 DEF Deliver

\* A blocking call with a delay.
LEMMA SleepAsScheduled ==
  ASSUME IInv, ~Looping, Scheduled(sched), Cur # NULLPROC, NEW state \in Asleep,
         NEW delay \in Delays, SleepAs(state, delay)
  PROVE  Scheduled(sched')
<1> DEFINE ks == InsertdKeys(sleepq, sched.qkey, Cur, delay)
           s == Rekeyed(sched, ks)
<1>1. delay \in Int /\ 0 \in Pid /\ state \in PrState \ Runnable /\ sched.ndefers = 0
  BY DelaysAssumption, NullPid, Facts DEF NULLPROC, Asleep, PrState, Runnable
<1>2. ks \in [Pid -> Int] /\ \A p \in Pid : sched.prstate[p] = "READY" => ks[p] = sched.qkey[p]
  BY <1>1, SleepKeys
<1>3. sched' = Block(s, state)
  BY DEF SleepAs, Rekeyed
<1> HIDE DEF ks
<1>4. Scheduled(s) /\ s.currpid = Cur /\ s.ndefers = 0
  BY <1>1, <1>2, RekeyedScheduled, QkeyDispatches DEF Scheduled, Cur
<1> HIDE DEF s
<1> QED  BY <1>1, <1>3, <1>4, BlockScheduled

\* The first waiter of a semaphore is made ready.
LEMMA ReleaseScheduled ==
  ASSUME IInv, Scheduled(sched), NEW sem \in Sem, ReleaseFirst(sem)
  PROVE  Scheduled(sched')
<1>1. CASE UNCHANGED sched
  BY <1>1
<1>2. CASE ~IsEmpty(squeue[sem]) /\ sched' = Ready(sched, Head(squeue[sem]))
  <2>1. SemShape
    BY SemParts DEF IInv
  <2>2. squeue[sem] \in Queue(Pid)
    BY <2>1 DEF SemShape
  <2>3. Head(squeue[sem]) \in Range(squeue[sem]) /\ Head(squeue[sem]) \in Pid
    BY <1>2, <2>2, DequeueQueue
  <2> PICK pid \in Pid : pid = Head(squeue[sem])
    BY <2>3
  <2>4. State(pid) = "WAIT"
    BY <2>1, <2>3, InStateIff DEF SemShape
  <2> QED  BY <1>2, <2>4, ReadyScheduled DEF State, Runnable
<1> QED  BY <1>1, <1>2 DEF ReleaseFirst

\* The end of clkhandler.
LEMMA PreemptScheduled ==
  ASSUME NEW s, Scheduled(s), s.ndefers = 0
  PROVE  Scheduled(Preempt(s))
<1>1. s \in SchedType /\ Dispatched(s) /\ Eligible(s) /\ Ranked(s) /\ TopRuns(s)
  BY DEF Scheduled, Dispatched, Eligible
<1> DEFINE T(k) == [s EXCEPT !.preempt = k]
<1>2. ASSUME NEW k \in 1 .. QUANTUM
      PROVE  Scheduled(T(k)) /\ T(k).ndefers = 0
  <2> DEFINE t == T(k)
  <2>1. /\ t \in SchedType /\ t.prstate = s.prstate /\ t.readylist = s.readylist
        /\ t.currpid = s.currpid /\ t.ndefers = 0 /\ t.qkey = s.qkey /\ t.prprio = s.prprio
    BY <1>1 DEF SchedType
  <2> HIDE DEF t
  <2>2. Dispatched(t)
    BY <1>1, <2>1, RewriteDispatches
  <2>3. Ranked(t) /\ TopRuns(t)
    BY <1>1, <2>1, RewriteRanked
  <2> QED  BY <2>1, <2>2, <2>3 DEF t, Scheduled
<1>3. CASE s.preempt - 1 <= 0
  <2>1. QUANTUM \in 1 .. QUANTUM /\ Preempt(s) = Resched(T(QUANTUM))
    BY <1>3, QUANTUMAssumption DEF Preempt
  <2> HIDE DEF T
  <2> QED  BY <1>2, <2>1, ReschedScheduled
<1>4. CASE ~(s.preempt - 1 <= 0)
  <2>1. s.preempt - 1 \in 1 .. QUANTUM /\ Preempt(s) = T(s.preempt - 1)
    BY <1>1, <1>4, QUANTUMAssumption DEF SchedType, Preempt
  <2> HIDE DEF T
  <2> QED  BY <1>2, <2>1
<1> QED  BY <1>3, <1>4

\* create, resume, suspend and yield.
LEMMA ProcessScheduled ==
  ASSUME IInv, Scheduled(sched),
         \/ \E prio \in Prios, stack \in BOOLEAN : Create(prio, stack)
         \/ \E pid \in Pid : Resume(pid) \/ Suspend(pid)
         \/ Yield
  PROVE  Scheduled(sched')
<1>1. /\ ~Looping /\ sched.ndefers = 0 /\ Cur # NULLPROC /\ sched \in SchedType
      /\ "SUSP" \in PrState \ Runnable
  BY Facts, NotLooping DEF Create, Resume, Suspend, Yield, Sys, PrState, Runnable
<1>2. CASE \E prio \in Prios, stack \in BOOLEAN : Create(prio, stack)
  <2> PICK prio \in Prios, stack \in BOOLEAN : Create(prio, stack)
    BY <1>2
  <2>1. PICK new \in Pid : /\ State(new) = "FREE"
                           /\ \/ UNCHANGED sched
                              \/ sched' = [sched EXCEPT !.prstate[new] = "SUSP",
                                                        !.prprio[new] = prio]
    BY FreeOffsetPid DEF Create
  <2> DEFINE ps == [sched.prprio EXCEPT ![new] = prio]
  <2>2. ps \in [Pid -> Nat] /\ \A p \in Pid \ {new} : ps[p] = sched.prprio[p]
    BY <1>1, PriosAssumption DEF SchedType
  <2>3. sched.prstate[new] \notin Runnable
    BY <2>1 DEF State, Runnable
  <2>4. \/ UNCHANGED sched
        \/ sched' = Restated(sched, new, "SUSP", ps, sched.qkey)
    BY <1>1, <2>1 DEF Restated, SchedType
  <2> HIDE DEF ps
  <2> QED  BY <1>1, <2>2, <2>3, <2>4, RestatedScheduled
<1>3. CASE \E pid \in Pid : Resume(pid)
  BY <1>3, ReadyScheduled DEF Resume, State, Runnable
<1>4. CASE \E pid \in Pid : Suspend(pid)
  <2> PICK pid \in Pid : Suspend(pid)
    BY <1>4
  <2>1. CASE State(pid) = "READY" /\ sched' = [sched EXCEPT !.readylist    = GetItem(@, pid),
                                                            !.prstate[pid] = "SUSP"]
    <3>1. sched' = Unready(sched, pid, "SUSP")
      BY <1>1, <2>1 DEF SchedType, Unready
    <3>2. pid # NULLPROC /\ sched.prstate[pid] = "READY"
      BY <2>1 DEF State, Suspend
    <3> QED  BY <1>1, <3>1, <3>2, RestatedScheduled
  <2>2. CASE sched' = Block(sched, "SUSP")
    BY <1>1, <2>2, BlockScheduled DEF Cur
  <2> QED  BY <2>1, <2>2 DEF Suspend
<1>5. CASE Yield
  BY <1>1, <1>5, ReschedScheduled DEF Yield
<1> QED  BY <1>2, <1>3, <1>4, <1>5

\* Messages, delays and semaphores, up to where the call blocks.
LEMMA CallScheduled ==
  ASSUME IInv, Scheduled(sched),
         \/ \E pid \in Pid : Send(pid) \/ Kill(pid)
         \/ Receive \/ Recvclr
         \/ \E delay \in Delays : Recvtime(delay) \/ Sleepms(delay)
         \/ \E sem \in Sem : Wait(sem) \/ Signal(sem) \/ Semdelete(sem)
         \/ \E sem \in Sem, count \in Counts : Signaln(sem, count) \/ Semreset(sem, count)
         \/ \E count \in Counts : Semcreate(count)
  PROVE  Scheduled(sched')
<1>1. At("user") /\ Cur # NULLPROC
  BY DEF Send, Kill, Receive, Recvclr, Recvtime, Sleepms, Wait, Signal, Semdelete, Semcreate,
         Signaln, Semreset, Sys
<1>2. /\ ~Looping /\ sched.ndefers = 0 /\ sched \in SchedType /\ sched.currpid # NULLPROC
      /\ {"RECV", "WAIT"} \subseteq PrState \ Runnable /\ {"SLEEP", "RECTIM"} \subseteq Asleep
  BY <1>1, Facts, NotLooping DEF PrState, Runnable, Asleep, Cur
<1>3. CASE \E pid \in Pid : Send(pid) \/ Kill(pid)
  <2> PICK pid \in Pid : Send(pid) \/ Kill(pid)
    BY <1>3
  <2>1. prparent[pid] \in Pid
    BY DEF IInv, TableType
  <2> QED  BY <2>1, DeliverScheduled DEF Send, Kill
<1>4. CASE Receive \/ Recvclr
  BY <1>2, <1>4, BlockScheduled DEF Receive, Recvclr
<1>5. CASE \E delay \in Delays : Recvtime(delay) \/ Sleepms(delay)
  BY <1>1, <1>2, <1>5, SleepAsScheduled, ReschedScheduled DEF Recvtime, Sleepms
<1>6. CASE \E sem \in Sem : Wait(sem) \/ Signal(sem) \/ Semdelete(sem)
  <2> PICK sem \in Sem : Wait(sem) \/ Signal(sem) \/ Semdelete(sem)
    BY <1>6
  <2>1. CASE Wait(sem)
    BY <1>2, <2>1, BlockScheduled DEF Wait
  <2>2. CASE Signal(sem)
    BY <2>2, ReleaseScheduled DEF Signal, Signal1
  <2>3. CASE Semdelete(sem)
    BY <1>2, <2>3, DeferScheduled DEF Semdelete
  <2> QED  BY <2>1, <2>2, <2>3
<1>7. CASE \/ \E sem \in Sem, count \in Counts : Signaln(sem, count) \/ Semreset(sem, count)
           \/ \E count \in Counts : Semcreate(count)
  BY <1>2, <1>7, DeferScheduled DEF Signaln, Semreset, Semcreate
<1> QED  BY <1>3, <1>4, <1>5, <1>6, <1>7

\* The end of kill.
LEMMA KillEndScheduled ==
  ASSUME IInv, Scheduled(sched), KillEnd
  PROVE  Scheduled(sched')
<1>1. /\ ~Looping /\ sched.ndefers = 0 /\ cont[Cur].obj \in Pid \ {NULLPROC}
      /\ sched \in SchedType /\ "FREE" \in PrState \ Runnable
      /\ sched.prprio \in [Pid -> Nat]
  BY NotLooping, Facts DEF KillEnd, At, IInv, ContInv, ContOK, PrState, Runnable
<1> PICK pid \in Pid \ {NULLPROC} : pid = cont[Cur].obj
  BY <1>1
<1> DEFINE freed == Restated(sched, pid, "FREE", sched.prprio, sched.qkey)
<1>2. [sched EXCEPT !.prstate[pid] = "FREE"] = freed
  BY <1>1 DEF Restated, SchedType
<1>3. State(pid) \notin Runnable => Scheduled(freed)
  BY <1>1, RestatedScheduled DEF State
<1>4. CASE State(pid) = "CURR" /\ sched' = Resched([sched EXCEPT !.prstate[pid] = "FREE"])
  <2>1. pid = sched.currpid
    BY <1>4 DEF IInv, Dispatched, Eligible, State
  <2>2. sched' = Block(sched, "FREE")
    BY <1>4, <2>1 DEF Block
  <2> QED  BY <1>1, <2>1, <2>2, BlockScheduled
<1>5. CASE /\ State(pid) \in {"SLEEP", "RECTIM"}
           /\ sched' = [[sched EXCEPT !.prstate[pid] = "FREE"] EXCEPT
                            !.qkey = UnsleepKeys(sleepq, sched.qkey, pid)]
  <2> DEFINE ks == UnsleepKeys(sleepq, sched.qkey, pid)
  <2>1. ks \in [Pid -> Int] /\ \A p \in Pid : sched.prstate[p] = "READY" => ks[p] = sched.qkey[p]
    BY SleepKeys
  <2>2. sched' = Rekeyed(freed, ks)
    BY <1>2, <1>5 DEF Rekeyed
  <2> HIDE DEF ks
  <2>3. Scheduled(freed)
    BY <1>3, <1>5 DEF Runnable
  <2>4. freed.qkey = sched.qkey /\ \A p \in Pid : freed.prstate[p] = "READY" => sched.prstate[p] = "READY"
    BY <1>1 DEF Restated, SchedType
  <2> HIDE DEF freed
  <2> QED  BY <2>1, <2>2, <2>3, <2>4, RekeyedScheduled
<1>6. CASE State(pid) = "READY" /\ sched' = [[sched EXCEPT !.prstate[pid] = "FREE"] EXCEPT
                                                 !.readylist = GetItem(sched.readylist, pid)]
  <2>1. sched' = Unready(sched, pid, "FREE")
    BY <1>1, <1>6 DEF Unready, SchedType
  <2> QED  BY <1>1, <1>6, <2>1, RestatedScheduled DEF State
<1>7. CASE /\ State(pid) \in {"WAIT", "SUSP", "RECV", "FREE"}
           /\ sched' = [sched EXCEPT !.prstate[pid] = "FREE"]
  BY <1>2, <1>3, <1>7 DEF Runnable
<1> QED  BY <1>4, <1>5, <1>6, <1>7 DEF KillEnd

\* The loops under deferral and the other ends of calls.
LEMMA LoopScheduled ==
  ASSUME IInv, Scheduled(sched), Kernel
  PROVE  Scheduled(sched')
<1>1. CASE ReceiveEnd \/ RecvtimeEnd
  BY <1>1 DEF ReceiveEnd, RecvtimeEnd
<1>2. CASE KillEnd
  BY <1>2, KillEndScheduled
<1>3. CASE SignalnLoop \/ SemdeleteLoop \/ SemresetLoop
  <2>1. cont[Cur].obj \in Sem /\ sched.ndefers = 1
    BY <1>3, LoopFacts, Facts DEF SignalnLoop, SemdeleteLoop, SemresetLoop
  <2> PICK sem \in Sem : sem = cont[Cur].obj
    BY <2>1
  <2>2. \/ UNCHANGED sched \/ ReleaseFirst(sem)
        \/ sched' = DeferStop(sched)
    BY <1>3 DEF SignalnLoop, SemdeleteLoop, SemresetLoop, Signal1
  <2> QED  BY <2>1, <2>2, ReleaseScheduled, DeferScheduled
<1>4. CASE Wakeup
  <2>1. Looping /\ sched.ndefers = 1
    BY <1>4, Facts DEF Wakeup, At, Looping, LoopOps
  <2>2. CASE sched' = DeferStop(sched)
    BY <2>1, <2>2, DeferScheduled
  <2>3. CASE ~IsEmpty(sleepq) /\ sched' = Ready(sched, Head(sleepq))
    <3>1. sleepq \in Queue(Pid) /\ Head(sleepq) \in Pid /\ Head(sleepq) \in Range(sleepq)
      BY <2>3, DequeueQueue DEF IInv, SleepOK
    <3> PICK pid \in Pid : pid = Head(sleepq)
      BY <3>1
    <3>2. State(pid) \in Asleep
      BY <3>1 DEF IInv, SleepOK, InState
    <3>3. sched.prstate[pid] \notin Runnable
      BY <3>2 DEF State, Asleep, Runnable
    <3> QED  BY <2>3, <3>3, ReadyScheduled
  <2> QED  BY <1>4, <2>2, <2>3 DEF Wakeup
<1>5. CASE ClkhandlerEnd
  BY <1>5, NotLooping, Facts, PreemptScheduled DEF ClkhandlerEnd
<1> QED  BY <1>1, <1>2, <1>3, <1>4, <1>5 DEF Kernel

\* clkhandler.
LEMMA ClkhandlerScheduled ==
  ASSUME IInv, Scheduled(sched), Clkhandler
  PROVE  Scheduled(sched')
<1>1. ~Looping /\ sched.ndefers = 0 /\ sched \in SchedType /\ sched.qkey \in [Pid -> Int]
  BY NotLooping, Facts DEF Clkhandler
<1>2. CASE sched' = Preempt(sched)
  BY <1>1, <1>2, PreemptScheduled
<1>3. CASE ~IsEmpty(sleepq)
  <2> DEFINE pid == Head(sleepq)
             ks == [sched.qkey EXCEPT ![pid] = sched.qkey[pid] - 1]
             s == Rekeyed(sched, ks)
             d == [sched EXCEPT !.qkey[pid] = @ - 1]
  <2>1. pid \in Pid /\ pid \in Range(sleepq)
    BY <1>3, DequeueQueue DEF IInv, SleepOK
  <2>2. State(pid) \in Asleep
    BY <2>1 DEF IInv, SleepOK, InState
  <2>3. d = s
    BY <1>1 DEF SchedType, Rekeyed
  <2>4. sched' = DeferStart(d) \/ sched' = Preempt(d)
    BY <1>3 DEF Clkhandler
  <2> HIDE DEF d, pid
  <2>5. ks \in [Pid -> Int] /\ \A p \in Pid : sched.prstate[p] = "READY" => ks[p] = sched.qkey[p]
    BY <1>1, <2>1, <2>2 DEF State, Asleep
  <2> HIDE DEF ks
  <2>6. Scheduled(s) /\ s.ndefers = 0
    BY <1>1, <2>5, RekeyedScheduled, QkeyDispatches DEF Scheduled
  <2> HIDE DEF s
  <2> QED  BY <2>3, <2>4, <2>6, DeferScheduled, PreemptScheduled
<1> QED  BY <1>2, <1>3 DEF Clkhandler

\* Outside the kernel nothing is deferred and no ready process outranks the
\* current one, whatever was woken, resumed, killed or preempted before:
\* every operation that makes a process ready also reschedules.  Without
\* chprio, which leaves the ready list in the order of the old priorities.
THEOREM KernelHighestPriority ==
  ASSUME "chprio" \notin Syscalls
  PROVE  Spec => []HighestPriorityRuns
<1> DEFINE Inv == IInv /\ Scheduled(sched)
<1>1. Init => Inv
  <2> SUFFICES ASSUME Init  PROVE Inv
    OBVIOUS
  <2>1. IInv
    BY InitInv
  <2>2. /\ sched.prstate = [p \in Pid |-> IF p = 0 THEN "READY" ELSE IF p = 1 THEN "CURR" ELSE "FREE"]
        /\ sched.prprio = [p \in Pid |-> IF p = 1 THEN 1 ELSE 0]
        /\ sched.qkey = [p \in Pid |-> 0] /\ sched.readylist = <<0>> /\ sched.currpid = 1
    BY DEF Init, NULLPROC
  <2>3. 1 \in Pid
    BY NPROCAssumption DEF Pid
  <2>4. Descending(sched.readylist, sched.qkey)
    BY <2>2 DEF Descending
  <2>5. Ranked(sched) /\ TopRuns(sched)
    BY <2>2, <2>3, <2>4 DEF Ranked, TopRuns
  <2> QED  BY <2>1, <2>5 DEF Scheduled, IInv
<1>2. Inv /\ [Next]_vars => Inv'
  <2> SUFFICES ASSUME Inv, [Next]_vars  PROVE Scheduled(sched')
    BY NextInv
  <2>1. CASE Syscall
    <3>1. \A pid \in Pid, prio \in Prios : ~Chprio(pid, prio)
      BY DEF Chprio, Sys
    <3> QED  BY <2>1, <3>1, ProcessScheduled, CallScheduled DEF Syscall
  <2>2. CASE Kernel
    BY <2>2, LoopScheduled
  <2>3. CASE Clkhandler
    BY <2>3, ClkhandlerScheduled
  <2>4. CASE UNCHANGED vars
    BY <2>4 DEF vars
  <2> QED  BY <2>1, <2>2, <2>3, <2>4 DEF Next
<1>3. Inv => HighestPriorityRuns
  <2> SUFFICES ASSUME Inv, At("user")
               PROVE  /\ sched.ndefers = 0
                      /\ \A p \in InState({"READY"}) : sched.prprio[p] <= sched.prprio[Cur]
    BY DEF HighestPriorityRuns
  <2>1. sched.ndefers = 0
    BY NotLooping, Facts
  <2> QED  BY <2>1 DEF Scheduled, TopRuns, InState, State, Cur
<1> QED  BY <1>1, <1>2, <1>3, PTL DEF Spec

-----------------------------------------------------------------------------
\* Messages.
Receiving == {"RECV", "RECTIM"}

\* MessageBeforeReceiveReturns, of one process.
MsgOK(p) ==
    /\ State(p) \in Receiving => ~prhasmsg[p]
    /\ cont[p].op = "receive" /\ State(p) # "RECV" => prhasmsg[p]

\* A step that neither starts nor ends the wait of p for a message, touches its
\* flag or puts it into receive.
MsgKept(p) ==
    /\ State(p)' \in Receiving => State(p) \in Receiving
    /\ State(p) = "RECV" => State(p)' = "RECV"
    /\ prhasmsg'[p] = prhasmsg[p]
    /\ cont'[p].op = "receive" => cont[p].op = "receive"

\* Such a step keeps what is said of p.
LEMMA MsgKeptOK ==
  ASSUME NEW p, MsgOK(p), MsgKept(p)
  PROVE  MsgOK(p)'
BY DEF MsgOK, MsgKept

\* The scheduler starts and ends no such wait, of the processes it is not
\* called for.
LEMMA KeepsMsg ==
  ASSUME NEW X, Keeps(sched, sched', X), UNCHANGED <<prhasmsg, cont>>
  PROVE  \A p \in Pid \ X : MsgKept(p)
<1> SUFFICES ASSUME NEW p \in Pid \ X  PROVE MsgKept(p)
  OBVIOUS
<1>1. IF State(p) \in Runnable THEN State(p)' \in Runnable ELSE State(p)' = State(p)
  BY DEF Keeps, State
<1> QED  BY <1>1 DEF MsgKept, Runnable, Receiving

\* A scheduler step that wakes no receiver and puts nobody into receive.
LEMMA QuietMsg ==
  ASSUME \A p \in Pid : MsgOK(p), NEW X, Keeps(sched, sched', X), UNCHANGED prhasmsg,
         \A p \in Pid : cont'[p].op = "receive" => cont[p].op = "receive",
         \A p \in Pid : p \in X => State(p) \notin Receiving /\ State(p)' \notin Receiving
  PROVE  \A p \in Pid : MsgOK(p)'
<1> SUFFICES ASSUME NEW p \in Pid  PROVE MsgOK(p)'
  OBVIOUS
<1>1. CASE p \in X
  BY <1>1 DEF MsgOK, Receiving
<1>2. CASE p \notin X
  <2>1. IF State(p) \in Runnable THEN State(p)' \in Runnable ELSE State(p)' = State(p)
    BY <1>2 DEF Keeps, State
  <2> QED  BY <2>1 DEF MsgOK, Runnable, Receiving
<1> QED  BY <1>1, <1>2

\* Leaving the kernel, or going anywhere in it but receive.
LEMMA GotoMsg ==
  ASSUME IInv, NEW c, c.op # "receive", Goto(c) \/ UNCHANGED cont
  PROVE  \A p \in Pid : cont'[p].op = "receive" => cont[p].op = "receive"
BY DEF Goto, IInv, ContInv

\* What the scheduler's operations keep of a step that starts with interrupts
\* off: the shapes the handlers use.
LEMMA SchedulerKeeps ==
  ASSUME IInv
  PROVE  /\ sched' = sched \/ sched' = DeferStart(sched) => Keeps(sched, sched', {})
         /\ ~Looping /\ sched' = Resched(sched) => Keeps(sched, sched', {})
         /\ ~Looping /\ sched' = Preempt(sched) => Keeps(sched, sched', {})
         /\ Looping /\ sched' = DeferStop(sched) => Keeps(sched, sched', {})
         /\ \A p \in Pid : State(p) \notin Runnable /\ sched' = Ready(sched, p)
               => Keeps(sched, sched', {p}) /\ State(p)' \in Runnable
         /\ \A state \in PrState \ Runnable :
               ~Looping /\ Cur # NULLPROC /\ sched' = Block(sched, state)
                  => Keeps(sched, sched', {Cur}) /\ sched'.prstate[Cur] = state
<1>1. /\ Dispatched(sched) /\ Eligible(sched) /\ sched \in SchedType
      /\ ~Looping => sched.ndefers = 0
      /\ Looping => sched.ndefers = 1
  BY Facts DEF IInv, Dispatched
<1>2. sched' = DeferStart(sched) => sched'.prstate = sched.prstate
  BY <1>1 DEF DeferStart, SchedType
<1>3. sched' = sched \/ sched' = DeferStart(sched) => Keeps(sched, sched', {})
  BY <1>2 DEF Keeps
<1>4. ~Looping /\ sched' = Resched(sched) => Keeps(sched, sched', {})
  BY <1>1, ReschedDispatches DEF KeepsBlocked
<1>5. ~Looping /\ sched' = Preempt(sched) => Keeps(sched, sched', {})
  BY <1>1, PreemptDispatches
<1>6. Looping /\ sched' = DeferStop(sched) => Keeps(sched, sched', {})
  BY <1>1, DeferStopDispatches
<1>7. ASSUME NEW p \in Pid, State(p) \notin Runnable, sched' = Ready(sched, p)
      PROVE  Keeps(sched, sched', {p}) /\ State(p)' \in Runnable
  BY <1>1, <1>7, ReadyDispatches DEF State
<1>8. ASSUME NEW state \in PrState \ Runnable, ~Looping, Cur # NULLPROC, sched' = Block(sched, state)
      PROVE  Keeps(sched, sched', {Cur}) /\ sched'.prstate[Cur] = state
  BY <1>1, <1>8, BlockDispatches DEF Cur
<1> QED  BY <1>3, <1>4, <1>5, <1>6, <1>7, <1>8 DEF State

\* send's delivery: the receiver has its message before it is woken.
LEMMA DeliverMsg ==
  ASSUME IInv, ~Looping, NEW pid \in Pid, Deliver(pid), \A p \in Pid : MsgOK(p),
         \A p \in Pid : cont'[p].op = "receive" => cont[p].op = "receive"
  PROVE  \A p \in Pid : MsgOK(p)'
<1>1. prhasmsg \in [Pid -> BOOLEAN] /\ Dispatched(sched) /\ sched.ndefers = 0
  BY Facts DEF IInv, TableType
<1>2. CASE UNCHANGED <<sched, prhasmsg>>
  BY <1>2, SchedulerKeeps, QuietMsg
<1>3. CASE prhasmsg' = [prhasmsg EXCEPT ![pid] = TRUE] /\ State(pid) \notin Receiving /\ UNCHANGED sched
  BY <1>1, <1>3 DEF MsgOK, State
<1>4. CASE /\ prhasmsg' = [prhasmsg EXCEPT ![pid] = TRUE]
           /\ Keeps(sched, sched', {pid}) /\ State(pid)' \in Runnable
  <2> SUFFICES ASSUME NEW p \in Pid  PROVE MsgOK(p)'
    OBVIOUS
  <2>1. CASE p = pid
    BY <1>1, <1>4, <2>1 DEF MsgOK, Runnable, Receiving
  <2>2. CASE p # pid
    <3>1. IF State(p) \in Runnable THEN State(p)' \in Runnable ELSE State(p)' = State(p)
      BY <1>4, <2>2 DEF Keeps, State
    <3>2. prhasmsg'[p] = prhasmsg[p]
      BY <1>1, <1>4, <2>2
    <3> QED  BY <3>1, <3>2 DEF MsgOK, Runnable, Receiving
  <2> QED  BY <2>1, <2>2
<1>5. CASE State(pid) = "RECV" /\ sched' = Ready(sched, pid)
  <2>1. Keeps(sched, sched', {pid}) /\ State(pid)' \in Runnable
    BY <1>5, SchedulerKeeps DEF Runnable
  <2>2. prhasmsg' = [prhasmsg EXCEPT ![pid] = TRUE] \/ UNCHANGED <<sched, prhasmsg>>
    BY DEF Deliver
  <2> QED  BY <1>2, <1>4, <2>1, <2>2
<1>6. CASE /\ State(pid) = "RECTIM" /\ prhasmsg' = [prhasmsg EXCEPT ![pid] = TRUE]
           /\ sched' = Ready([sched EXCEPT !.qkey = UnsleepKeys(sleepq, @, pid)], pid)
  <2> DEFINE ks == UnsleepKeys(sleepq, sched.qkey, pid)
             s == Rekeyed(sched, ks)
  <2>1. ks \in [Pid -> Int]
    BY Facts, UnsleepKeysInt
  <2>2. sched' = Ready(s, pid)
    BY <1>6 DEF Rekeyed
  <2> HIDE DEF ks
  <2>3. Dispatched(s) /\ s.prstate = sched.prstate
    BY <1>1, <2>1, QkeyDispatches
  <2> HIDE DEF s
  <2>4. Keeps(s, sched', {pid}) /\ sched'.prstate[pid] \in Runnable
    BY <1>6, <2>2, <2>3, ReadyDispatches DEF State, Runnable
  <2>5. Keeps(sched, sched', {pid}) /\ State(pid)' \in Runnable
    BY <2>3, <2>4 DEF Keeps, State
  <2> QED  BY <1>4, <1>6, <2>5
<1> QED  BY <1>2, <1>3, <1>5, <1>6 DEF Deliver, Receiving

\* insertd and the block after it.
LEMMA SleepAsKeeps ==
  ASSUME IInv, ~Looping, Cur # NULLPROC, NEW state \in Asleep, NEW delay \in Delays,
         SleepAs(state, delay)
  PROVE  Keeps(sched, sched', {Cur}) /\ sched'.prstate[Cur] = state
<1> DEFINE ks == InsertdKeys(sleepq, sched.qkey, Cur, delay)
           s == Rekeyed(sched, ks)
<1>1. /\ delay \in Int /\ 0 \in Pid /\ state \in PrState \ Runnable /\ sched.ndefers = 0
      /\ Dispatched(sched)
  BY DelaysAssumption, NullPid, Facts DEF NULLPROC, Asleep, PrState, Runnable, IInv
<1>2. ks \in [Pid -> Int]
  BY <1>1, SleepKeys
<1>3. sched' = Block(s, state)
  BY DEF SleepAs, Rekeyed
<1> HIDE DEF ks
<1>4. Dispatched(s) /\ s.currpid = Cur /\ s.ndefers = 0 /\ s.prstate = sched.prstate
  BY <1>1, <1>2, QkeyDispatches DEF Cur
<1> HIDE DEF s
<1>5. Keeps(s, sched', {Cur}) /\ sched'.prstate[Cur] = state
  BY <1>1, <1>3, <1>4, BlockDispatches
<1> QED  BY <1>4, <1>5 DEF Keeps

\* A process takes its message, or finds none and waits for one.
LEMMA ReceiveMsg ==
  ASSUME IInv, \A p \in Pid : MsgOK(p),
         \/ Receive \/ Recvclr \/ ReceiveEnd \/ RecvtimeEnd
         \/ \E delay \in Delays : Recvtime(delay)
  PROVE  \A p \in Pid : MsgOK(p)'
<1>1. /\ Cur \in Pid /\ State(Cur) = "CURR" /\ ~Looping /\ prhasmsg \in [Pid -> BOOLEAN]
      /\ cont \in [Pid -> ContType]
  BY Facts, NotLooping DEF Receive, Recvclr, ReceiveEnd, RecvtimeEnd, Recvtime, Sys, IInv,
                           TableType, ContInv
<1> PICK me \in Pid : me = Cur
  BY <1>1
<1>2. CASE /\ prhasmsg' = [prhasmsg EXCEPT ![me] = FALSE] /\ UNCHANGED sched
           /\ \/ UNCHANGED cont /\ At("user")
              \/ Goto(User)
  <2>1. /\ \A p \in Pid : cont'[p].op = "receive" => p # me /\ cont[p].op = "receive"
        /\ \A p \in Pid \ {me} : prhasmsg'[p] = prhasmsg[p]
        /\ prhasmsg'[me] = FALSE
    BY <1>1, <1>2 DEF Goto, User, Cont, At
  <2> QED  BY <1>2, <2>1 DEF MsgOK, State
<1>3. CASE /\ ~prhasmsg[me] /\ UNCHANGED prhasmsg
           /\ Goto(Cont("receive", 0, 0)) /\ sched' = Block(sched, "RECV") /\ Cur # NULLPROC
  <2>1. Keeps(sched, sched', {me}) /\ sched'.prstate[me] = "RECV"
    BY <1>1, <1>3, SchedulerKeeps DEF PrState, Runnable
  <2> SUFFICES ASSUME NEW p \in Pid  PROVE MsgOK(p)'
    OBVIOUS
  <2>2. CASE p = me
    BY <1>3, <2>1, <2>2 DEF MsgOK, State
  <2>3. CASE p # me
    <3>1. IF State(p) \in Runnable THEN State(p)' \in Runnable ELSE State(p)' = State(p)
      BY <2>1, <2>3 DEF Keeps, State
    <3>2. cont'[p] = cont[p]
      BY <1>1, <1>3, <2>3 DEF Goto
    <3> QED  BY <1>3, <3>1, <3>2 DEF MsgOK, Runnable, Receiving
  <2> QED  BY <2>2, <2>3
<1>4. CASE /\ ~prhasmsg[me] /\ UNCHANGED prhasmsg /\ Cur # NULLPROC
           /\ Goto(Cont("recvtime", 0, 0)) /\ \E delay \in Delays : SleepAs("RECTIM", delay)
  <2>1. Keeps(sched, sched', {me}) /\ sched'.prstate[me] = "RECTIM"
    BY <1>1, <1>4, SleepAsKeeps DEF Asleep
  <2> SUFFICES ASSUME NEW p \in Pid  PROVE MsgOK(p)'
    OBVIOUS
  <2>2. CASE p = me
    <3>1. cont'[me].op = "recvtime"
      BY <1>1, <1>4 DEF Goto, Cont
    <3> QED  BY <1>4, <2>2, <3>1 DEF MsgOK
  <2>3. CASE p # me
    <3>1. IF State(p) \in Runnable THEN State(p)' \in Runnable ELSE State(p)' = State(p)
      BY <2>1, <2>3 DEF Keeps, State
    <3>2. cont'[p] = cont[p]
      BY <1>1, <1>4, <2>3 DEF Goto
    <3> QED  BY <1>4, <3>1, <3>2 DEF MsgOK, Runnable, Receiving
  <2> QED  BY <2>2, <2>3
<1> QED  BY <1>2, <1>3, <1>4
         DEF Receive, Recvclr, ReceiveEnd, RecvtimeEnd, Recvtime, TakeMessage, Sys

\* The process calls that deliver nothing.
LEMMA ProcessMsg ==
  ASSUME IInv, \A p \in Pid : MsgOK(p),
         \/ \E prio \in Prios, stack \in BOOLEAN : Create(prio, stack)
         \/ \E pid \in Pid : Resume(pid) \/ Suspend(pid)
         \/ \E pid \in Pid, prio \in Prios : Chprio(pid, prio)
         \/ Yield
         \/ \E delay \in Delays : Sleepms(delay)
  PROVE  \A p \in Pid : MsgOK(p)'
<1>1. /\ ~Looping /\ Cur # NULLPROC /\ sched \in SchedType /\ "SUSP" \in PrState \ Runnable
      /\ Cur \in Pid /\ State(Cur) = "CURR" /\ sched.prstate \in [Pid -> PrState]
      /\ prhasmsg \in [Pid -> BOOLEAN] /\ cont \in [Pid -> ContType]
  BY Facts, NotLooping DEF Create, Resume, Suspend, Chprio, Yield, Sleepms, Sys, PrState, Runnable,
                           IInv, TableType, ContInv
<1>2. CASE \E prio \in Prios, stack \in BOOLEAN : Create(prio, stack)
  <2> PICK prio \in Prios, stack \in BOOLEAN : Create(prio, stack)
    BY <1>2
  <2>1. PICK new \in Pid :
           \/ UNCHANGED <<sched, cont, prhasmsg>>
           \/ /\ State(new) = "FREE" /\ prhasmsg' = [prhasmsg EXCEPT ![new] = FALSE]
              /\ cont' = [cont EXCEPT ![new] = User]
              /\ sched' = [sched EXCEPT !.prstate[new] = "SUSP", !.prprio[new] = prio]
    BY FreeOffsetPid DEF Create
  <2>2. CASE UNCHANGED <<sched, cont, prhasmsg>>
    BY <2>2 DEF MsgOK, State
  <2>3. CASE /\ State(new) = "FREE" /\ prhasmsg' = [prhasmsg EXCEPT ![new] = FALSE]
             /\ cont' = [cont EXCEPT ![new] = User]
             /\ sched' = [sched EXCEPT !.prstate[new] = "SUSP", !.prprio[new] = prio]
    <3>1. sched'.prstate = [sched.prstate EXCEPT ![new] = "SUSP"]
      BY <1>1, <2>3 DEF SchedType
    <3>2. \A p \in Pid \ {new} : MsgOK(p)'
      BY <1>1, <2>3, <3>1 DEF MsgOK, State
    <3>3. MsgOK(new)'
      BY <1>1, <2>3, <3>1 DEF MsgOK, State, User, Cont, Receiving
    <3> QED  BY <3>2, <3>3
  <2> QED  BY <2>1, <2>2, <2>3
<1>3. CASE \E pid \in Pid : Resume(pid)
  <2> PICK pid \in Pid : Resume(pid)
    BY <1>3
  <2>1. /\ State(pid) = "SUSP" /\ Keeps(sched, sched', {pid}) /\ State(pid)' \in Runnable
        /\ UNCHANGED <<cont, prhasmsg>>
    BY SchedulerKeeps DEF Resume, Runnable, procvars
  <2> QED  BY <2>1, QuietMsg DEF Runnable, Receiving
<1>4. CASE \E pid \in Pid : Suspend(pid)
  <2> PICK pid \in Pid : Suspend(pid)
    BY <1>4
  <2>1. UNCHANGED <<cont, prhasmsg>>
    BY DEF Suspend, procvars
  <2>2. CASE State(pid) = "READY" /\ sched' = [sched EXCEPT !.readylist    = GetItem(@, pid),
                                                            !.prstate[pid] = "SUSP"]
    <3>1. sched'.prstate = [sched.prstate EXCEPT ![pid] = "SUSP"]
      BY <1>1, <2>2 DEF SchedType
    <3> QED  BY <1>1, <2>1, <2>2, <3>1 DEF MsgOK, State, Receiving
  <2>3. CASE sched' = Block(sched, "SUSP")
    <3>1. Keeps(sched, sched', {Cur}) /\ sched'.prstate[Cur] = "SUSP"
      BY <1>1, <2>3, SchedulerKeeps
    <3> PICK me \in Pid : me = Cur
      BY <1>1
    <3>2. Keeps(sched, sched', {me}) /\ State(me)' = "SUSP" /\ State(me) = "CURR"
      BY <1>1, <3>1 DEF State
    <3> QED  BY <2>1, <3>2, QuietMsg DEF Receiving
  <2> QED  BY <2>2, <2>3 DEF Suspend
<1>5. CASE \E pid \in Pid, prio \in Prios : Chprio(pid, prio)
  <2>1. sched'.prstate = sched.prstate /\ UNCHANGED <<cont, prhasmsg>>
    BY <1>1, <1>5 DEF Chprio, SchedType, procvars
  <2> QED  BY <2>1 DEF MsgOK, State
<1>6. CASE sched' = Resched(sched) /\ UNCHANGED <<cont, prhasmsg>>
  BY <1>1, <1>6, SchedulerKeeps, QuietMsg
<1>7. CASE UNCHANGED <<cont, prhasmsg>> /\ \E delay \in Delays : SleepAs("SLEEP", delay)
  <2> PICK me \in Pid : me = Cur
    BY <1>1
  <2>1. Keeps(sched, sched', {me}) /\ sched'.prstate[me] = "SLEEP"
    BY <1>1, <1>7, SleepAsKeeps DEF Asleep
  <2>2. State(me)' \notin Receiving /\ State(me) \notin Receiving
    BY <1>1, <2>1 DEF State, Receiving
  <2> QED  BY <1>7, <2>1, <2>2, QuietMsg
<1> QED  BY <1>2, <1>3, <1>4, <1>5, <1>6, <1>7 DEF Yield, Sleepms, procvars

\* Semaphores: the first waiter is no receiver.
LEMMA ReleaseKeeps ==
  ASSUME IInv, NEW sem \in Sem, ReleaseFirst(sem)
  PROVE  \E X : /\ Keeps(sched, sched', X)
                /\ \A p \in Pid : p \in X => State(p) \notin Receiving /\ State(p)' \notin Receiving
<1>1. CASE UNCHANGED sched
  BY <1>1, SchedulerKeeps
<1>2. CASE ~IsEmpty(squeue[sem]) /\ sched' = Ready(sched, Head(squeue[sem]))
  <2>1. SemShape
    BY SemParts DEF IInv
  <2>2. squeue[sem] \in Queue(Pid)
    BY <2>1 DEF SemShape
  <2>3. Head(squeue[sem]) \in Range(squeue[sem]) /\ Head(squeue[sem]) \in Pid
    BY <1>2, <2>2, DequeueQueue
  <2> PICK pid \in Pid : pid = Head(squeue[sem])
    BY <2>3
  <2>4. State(pid) = "WAIT"
    BY <2>1, <2>3, InStateIff DEF SemShape
  <2>5. Keeps(sched, sched', {pid}) /\ State(pid)' \in Runnable
    BY <1>2, <2>4, SchedulerKeeps DEF Runnable
  <2> QED  BY <2>4, <2>5 DEF Runnable, Receiving
<1> QED  BY <1>1, <1>2 DEF ReleaseFirst

\* The semaphore calls and their loops.
LEMMA SemMsg ==
  ASSUME IInv, \A p \in Pid : MsgOK(p),
         \/ \E sem \in Sem : Wait(sem) \/ Signal(sem) \/ Semdelete(sem)
         \/ \E sem \in Sem, count \in Counts : Signaln(sem, count) \/ Semreset(sem, count)
         \/ \E count \in Counts : Semcreate(count)
         \/ SignalnLoop \/ SemdeleteLoop \/ SemresetLoop
  PROVE  \A p \in Pid : MsgOK(p)'
<1>1. UNCHANGED prhasmsg
  BY DEF Wait, Signal, Semdelete, Signaln, Semreset, Semcreate, SignalnLoop, SemdeleteLoop,
         SemresetLoop, procvars
<1>2. \A p \in Pid : cont'[p].op = "receive" => cont[p].op = "receive"
  <2>1. \A op, o, n : Cont(op, o, n).op = op
    BY DEF Cont
  <2>2. User.op # "receive"
    BY DEF User, Cont
  <2>3. \E c : c.op # "receive" /\ (Goto(c) \/ UNCHANGED cont)
    BY <2>1, <2>2 DEF Wait, Signal, Semdelete, Signaln, Semreset, Semcreate, SignalnLoop,
                      SemdeleteLoop, SemresetLoop
  <2> QED  BY <2>3, GotoMsg
<1>3. CASE \E sem \in Sem : ReleaseFirst(sem)
  BY <1>1, <1>2, <1>3, ReleaseKeeps, QuietMsg
<1>4. CASE sched' = sched \/ sched' = DeferStart(sched) \/ (Looping /\ sched' = DeferStop(sched))
  BY <1>1, <1>2, <1>4, SchedulerKeeps, QuietMsg
<1>5. CASE \E sem \in Sem : Wait(sem)
  <2>1. /\ Cur \in Pid /\ State(Cur) = "CURR" /\ ~Looping /\ Cur # NULLPROC
        /\ "WAIT" \in PrState \ Runnable
    BY <1>5, Facts, NotLooping DEF Wait, Sys, PrState, Runnable
  <2> PICK me \in Pid : me = Cur
    BY <2>1
  <2>2. CASE sched' = Block(sched, "WAIT")
    <3>1. Keeps(sched, sched', {me}) /\ sched'.prstate[me] = "WAIT"
      BY <2>1, <2>2, SchedulerKeeps
    <3>2. State(me)' = "WAIT"
      BY <3>1 DEF State
    <3> QED  BY <1>1, <1>2, <2>1, <3>1, <3>2, QuietMsg DEF Receiving
  <2> QED  BY <1>4, <1>5, <2>2 DEF Wait
<1>6. CASE \/ \E sem \in Sem : Signal(sem) \/ Semdelete(sem)
           \/ \E sem \in Sem, count \in Counts : Signaln(sem, count) \/ Semreset(sem, count)
           \/ \E count \in Counts : Semcreate(count)
  BY <1>3, <1>4, <1>6 DEF Signal, Signal1, Semdelete, Signaln, Semreset, Semcreate
<1>7. CASE SignalnLoop \/ SemdeleteLoop \/ SemresetLoop
  <2>1. cont[Cur].obj \in Sem /\ Looping
    BY <1>7, LoopFacts DEF SignalnLoop, SemdeleteLoop, SemresetLoop
  <2>2. \/ sched' = sched \/ sched' = DeferStop(sched) \/ ReleaseFirst(cont[Cur].obj)
    BY <1>7 DEF SignalnLoop, SemdeleteLoop, SemresetLoop, Signal1
  <2> QED  BY <1>3, <1>4, <2>1, <2>2
<1> QED  BY <1>5, <1>6, <1>7

\* kill's end: the victim is out of receive, whatever it was in.
LEMMA KillEndMsg ==
  ASSUME IInv, \A p \in Pid : MsgOK(p), KillEnd
  PROVE  \A p \in Pid : MsgOK(p)'
<1>1. /\ ~Looping /\ Cur \in Pid /\ cont[Cur].obj \in Pid \ {NULLPROC} /\ UNCHANGED prhasmsg
      /\ sched \in SchedType /\ "FREE" \in PrState \ Runnable /\ cont \in [Pid -> ContType]
      /\ sched.prstate \in [Pid -> PrState]
  BY NotLooping, Facts DEF KillEnd, At, IInv, ContInv, ContOK, PrState, Runnable, procvars
<1> PICK pid \in Pid \ {NULLPROC} : pid = cont[Cur].obj
  BY <1>1
<1>2. /\ \A p \in Pid : cont'[p].op = "receive" => cont[p].op = "receive"
      /\ cont'[pid].op = "user"
  BY <1>1 DEF KillEnd, User, Cont
<1>3. CASE sched'.prstate = [sched.prstate EXCEPT ![pid] = "FREE"]
  <2>1. State(pid)' = "FREE" /\ \A p \in Pid \ {pid} : State(p)' = State(p)
    BY <1>1, <1>3 DEF State
  <2> QED  BY <1>1, <1>2, <2>1 DEF MsgOK, Receiving
<1>4. CASE State(pid) = "CURR" /\ sched' = Resched([sched EXCEPT !.prstate[pid] = "FREE"])
  <2>1. pid = sched.currpid /\ Cur # NULLPROC
    BY <1>4 DEF IInv, Dispatched, Eligible, State, Cur
  <2>2. sched' = Block(sched, "FREE")
    BY <1>4, <2>1 DEF Block
  <2>3. Keeps(sched, sched', {pid}) /\ sched'.prstate[pid] = "FREE"
    BY <1>1, <2>1, <2>2, SchedulerKeeps DEF Cur
  <2>4. State(pid)' = "FREE"
    BY <2>3 DEF State
  <2> QED  BY <1>1, <1>2, <1>4, <2>3, <2>4, QuietMsg DEF Receiving
<1>5. \/ State(pid) = "CURR" /\ sched' = Resched([sched EXCEPT !.prstate[pid] = "FREE"])
      \/ sched' = [[sched EXCEPT !.prstate[pid] = "FREE"] EXCEPT
                        !.qkey = UnsleepKeys(sleepq, sched.qkey, pid)]
      \/ sched' = [sched EXCEPT !.prstate[pid] = "FREE"]
      \/ sched' = [[sched EXCEPT !.prstate[pid] = "FREE"] EXCEPT
                        !.readylist = GetItem(sched.readylist, pid)]
  BY DEF KillEnd
<1> QED  BY <1>1, <1>3, <1>4, <1>5 DEF SchedType

\* The clock: a timeout ends recvtime's wait, and nobody's receive.
LEMMA ClockMsg ==
  ASSUME IInv, \A p \in Pid : MsgOK(p), Clkhandler \/ Wakeup \/ ClkhandlerEnd
  PROVE  \A p \in Pid : MsgOK(p)'
<1>1. UNCHANGED prhasmsg /\ sched \in SchedType /\ sched.qkey \in [Pid -> Int]
  BY Facts DEF Clkhandler, Wakeup, ClkhandlerEnd, procvars
<1>2. \A p \in Pid : cont'[p].op = "receive" => cont[p].op = "receive"
  <2>1. User.op # "receive" /\ Cont("wakeup", 0, 0).op # "receive" /\ Cont("clkhandler", 0, 0).op # "receive"
    BY DEF User, Cont
  <2>2. Goto(User) \/ Goto(Cont("wakeup", 0, 0)) \/ Goto(Cont("clkhandler", 0, 0)) \/ UNCHANGED cont
    BY DEF Clkhandler, Wakeup, ClkhandlerEnd
  <2> QED  BY <2>1, <2>2, GotoMsg
<1>3. CASE Clkhandler
  <2>1. ~Looping /\ sched.ndefers = 0
    BY <1>3, NotLooping, Facts DEF Clkhandler
  <2>2. CASE sched' = Preempt(sched)
    BY <1>1, <1>2, <2>1, <2>2, SchedulerKeeps, QuietMsg
  <2>3. CASE ~IsEmpty(sleepq)
    <3> DEFINE pid == Head(sleepq)
               ks == [sched.qkey EXCEPT ![pid] = sched.qkey[pid] - 1]
               s == Rekeyed(sched, ks)
               d == [sched EXCEPT !.qkey[pid] = @ - 1]
    <3>1. pid \in Pid
      BY <2>3, DequeueQueue DEF IInv, SleepOK
    <3>2. d = s
      BY <1>1 DEF SchedType, Rekeyed
    <3>3. sched' = DeferStart(d) \/ sched' = Preempt(d)
      BY <1>3, <2>3 DEF Clkhandler
    <3> HIDE DEF d, pid
    <3>4. ks \in [Pid -> Int]
      BY <1>1, <3>1
    <3> HIDE DEF ks
    <3>5. Dispatched(s) /\ s.prstate = sched.prstate /\ s.ndefers = 0
      BY <2>1, <3>4, QkeyDispatches DEF IInv
    <3> HIDE DEF s
    <3>6. Keeps(s, sched', {})
      BY <3>2, <3>3, <3>5, DeferStartDispatches, PreemptDispatches DEF Keeps
    <3>7. Keeps(sched, sched', {})
      BY <3>5, <3>6 DEF Keeps
    <3> QED  BY <1>1, <1>2, <3>7, QuietMsg
  <2> QED  BY <1>3, <2>2, <2>3 DEF Clkhandler
<1>4. CASE Wakeup
  <2>1. CASE sched' = DeferStop(sched)
    BY <1>1, <1>2, <1>4, <2>1, SchedulerKeeps, QuietMsg DEF Wakeup, At, Looping, LoopOps
  <2>2. CASE ~IsEmpty(sleepq) /\ sched' = Ready(sched, Head(sleepq)) /\ UNCHANGED cont
    <3>1. sleepq \in Queue(Pid) /\ Head(sleepq) \in Pid /\ Head(sleepq) \in Range(sleepq)
      BY <2>2, DequeueQueue DEF IInv, SleepOK
    <3> PICK pid \in Pid : pid = Head(sleepq)
      BY <3>1
    <3>2. State(pid) \in Asleep
      BY <3>1 DEF IInv, SleepOK, InState
    <3>3. Keeps(sched, sched', {pid}) /\ State(pid)' \in Runnable
      BY <2>2, <3>2, SchedulerKeeps DEF Asleep, Runnable
    <3>4. \A p \in Pid \ {pid} : MsgKept(p)
      BY <1>1, <2>2, <3>3, KeepsMsg
    <3>5. MsgOK(pid)'
      BY <1>1, <2>2, <3>2, <3>3 DEF MsgOK, Runnable, Receiving, Asleep
    <3> QED  BY <3>4, <3>5, MsgKeptOK
  <2> QED  BY <1>4, <2>1, <2>2 DEF Wakeup
<1>5. CASE ClkhandlerEnd
  BY <1>1, <1>2, <1>5, NotLooping, SchedulerKeeps, QuietMsg DEF ClkhandlerEnd
<1> QED  BY <1>3, <1>4, <1>5

\* receive returns with a message, and a process that waits for one has none,
\* whoever suspends, resumes, signals or preempts it in between.
THEOREM KernelMessages == Spec => []MessageBeforeReceiveReturns
<1> DEFINE Inv == IInv /\ \A p \in Pid : MsgOK(p)
<1>1. Init => Inv
  <2> SUFFICES ASSUME Init  PROVE \A p \in Pid : MsgOK(p)
    BY InitInv
  <2> QED  BY DEF Init, MsgOK, State, User, Cont
<1>2. Inv /\ [Next]_vars => Inv'
  <2> SUFFICES ASSUME Inv, [Next]_vars  PROVE \A p \in Pid : MsgOK(p)'
    BY NextInv
  <2>1. ASSUME NEW pid \in Pid, Send(pid) \/ Kill(pid)
        PROVE  \A p \in Pid : MsgOK(p)'
    <3>1. ~Looping /\ prparent[pid] \in Pid
      BY <2>1, NotLooping DEF Send, Kill, Sys, IInv, TableType
    <3>2. \A p \in Pid : cont'[p].op = "receive" => cont[p].op = "receive"
      <4>1. Cont("kill", pid, 0).op # "receive" /\ Cont("xdone", 0, 0).op # "receive"
        BY DEF Cont
      <4>2. Goto(Cont("kill", pid, 0)) \/ Goto(Cont("xdone", 0, 0)) \/ UNCHANGED cont
        BY <2>1 DEF Send, Kill
      <4> QED  BY <4>1, <4>2, GotoMsg
    <3>3. \/ Deliver(pid) \/ Deliver(prparent[pid])
          \/ UNCHANGED <<sched, prhasmsg>>
      BY <2>1 DEF Send, Kill
    <3> QED  BY <3>1, <3>2, <3>3, DeliverMsg, SchedulerKeeps, QuietMsg
  <2>2. CASE Syscall
    BY <2>1, <2>2, ProcessMsg, ReceiveMsg, SemMsg DEF Syscall
  <2>3. CASE Kernel
    BY <2>3, ReceiveMsg, KillEndMsg, SemMsg, ClockMsg DEF Kernel
  <2>4. CASE Clkhandler
    BY <2>4, ClockMsg
  <2>5. CASE UNCHANGED vars
    BY <2>5 DEF vars, procvars, MsgOK, State
  <2> QED  BY <2>2, <2>3, <2>4, <2>5 DEF Next
<1>3. Inv => MessageBeforeReceiveReturns
  BY DEF MsgOK, MessageBeforeReceiveReturns, Receiving
<1> QED  BY <1>1, <1>2, <1>3, PTL DEF Spec

-----------------------------------------------------------------------------
\* The semaphores of the kernel implement Semaphores.

Used  == {s \in Sem : sstate[s] = "S_USED"}
Free0 == [s \in Sem |-> IF sstate[s] = "S_USED" /\ scount[s] > 0 THEN scount[s] ELSE 0]

\* The abstract state does not change.
Same == UNCHANGED <<Used, Free0, squeue>>

\* A step that leaves the semaphore table and the queues alone.
LEMMA QuietSame ==
  ASSUME UNCHANGED <<sstate, scount, squeue>>
  PROVE  Same
BY DEF Same, Used, Free0

\* The queue of a semaphore nobody resets has as many processes as its count
\* says.
LEMMA WaitersCounted ==
  ASSUME IInv, ~At("semreset"), NEW sem \in Sem
  PROVE  /\ squeue[sem] \in Queue(Pid) /\ scount[sem] \in Int
         /\ scount[sem] < 0 => squeue[sem] # <<>>
         /\ scount[sem] >= 0 => squeue[sem] = <<>>
<1>1. squeue[sem] \in Queue(Pid) /\ scount[sem] \in Int
  BY DEF IInv, SemOK
<1>2. Len(squeue[sem]) = IF scount[sem] < 0 THEN -scount[sem] ELSE 0
  BY DEF IInv, SemOK, CountsMatchQueues
<1>3. squeue[sem] \in Seq(Pid)
  BY <1>1 DEF Queue
<1> QED  BY <1>1, <1>2, <1>3, EmptySeq

\* One count changes, and with it the free units of its semaphore.
LEMMA CountChanges ==
  ASSUME NEW sem \in Sem, UNCHANGED sstate, scount \in [Sem -> Int], NEW n \in Int,
         scount' = [scount EXCEPT ![sem] = n]
  PROVE  /\ UNCHANGED Used
         /\ Free0' = [Free0 EXCEPT ![sem] = IF sstate[sem] = "S_USED" /\ n > 0 THEN n ELSE 0]
<1> DEFINE m == IF sstate[sem] = "S_USED" /\ n > 0 THEN n ELSE 0
           Free(s) == IF sstate[s] = "S_USED" /\ scount[s] > 0 THEN scount[s] ELSE 0
<1>1. \A s \in Sem : scount'[s] = IF s = sem THEN n ELSE scount[s]
  OBVIOUS
<1>2. \A s \in Sem : Free(s)' = IF s = sem THEN m ELSE Free(s)
  BY <1>1
<1>3. Free0 = [s \in Sem |-> Free(s)] /\ Free0' = [s \in Sem |-> Free(s)']
  BY DEF Free0
<1> HIDE DEF m, Free
<1>4. Free0' = [Free0 EXCEPT ![sem] = m]
  BY <1>2, <1>3
<1> QED  BY <1>4 DEF m, Used

-----------------------------------------------------------------------------
\* wait: the process takes a unit or joins the line.
LEMMA WaitRefines ==
  ASSUME IInv, NEW sem \in Sem, Wait(sem)
  PROVE  Promise!ANext
<1>1. /\ Cur \in Pid /\ State(Cur) = "CURR" /\ ~At("semreset")
      /\ sem \in Used /\ scount \in [Sem -> Int] /\ UNCHANGED sstate
      /\ scount' = [scount EXCEPT ![sem] = @ - 1]
  BY Facts DEF Wait, Sys, At, Used, IInv, SemOK
<1> PICK p \in Pid : p = Cur
  BY <1>1
<1>2. p \notin Promise!InLine
  <2>1. \A s \in Sem : Cur \notin Range(squeue[s])
    BY <1>1 DEF IInv, SemOK, InState
  <2> QED  BY <2>1 DEF Promise!InLine, Promise!Range, Range
<1>3. CASE scount[sem] > 0
  <2>1. UNCHANGED <<Used, squeue>>
    BY <1>1, <1>3 DEF Wait, Used
  <2>2. Free0[sem] = scount[sem] /\ Free0[sem] > 0
    BY <1>1, <1>3 DEF Free0, Used
  <2>3. Free0' = [Free0 EXCEPT ![sem] = @ - 1]
    <3>1. PICK n \in Int : n = scount[sem] - 1
      BY <1>1
    <3>2. scount' = [scount EXCEPT ![sem] = n]
      BY <1>1, <3>1
    <3>3. Free0' = [Free0 EXCEPT ![sem] = IF sstate[sem] = "S_USED" /\ n > 0 THEN n ELSE 0]
      BY <1>1, <3>2, CountChanges
    <3>4. (IF sstate[sem] = "S_USED" /\ n > 0 THEN n ELSE 0) = Free0[sem] - 1
      BY <1>1, <1>3, <2>2, <3>1 DEF Used
    <3> QED  BY <3>3, <3>4, Zenon
  <2>4. Promise!P(sem, p)
    BY <1>1, <1>2, <2>1, <2>2, <2>3 DEF Promise!P, Used, Free0
  <2> QED  BY <1>1, <2>4 DEF Promise!ANext
<1>4. CASE scount[sem] <= 0
  <2>1. /\ UNCHANGED <<Used, Free0>> /\ Free0[sem] = 0
        /\ squeue' = [squeue EXCEPT ![sem] = Append(@, Cur)]
    BY <1>1, <1>4 DEF Wait, Used, Free0, Enqueue
  <2>2. Promise!P(sem, p)
    BY <1>1, <1>2, <2>1 DEF Promise!P, Used, Free0
  <2> QED  BY <1>1, <2>2 DEF Promise!ANext
<1> QED  BY <1>1, <1>3, <1>4

\* signal, and a round of signaln or semdelete: a unit goes to the first
\* waiter, is freed, or was one of a semaphore that is deleted.
LEMMA UnitRefines ==
  ASSUME IInv, ~At("semreset"), NEW sem \in Sem, UNCHANGED sstate,
         scount' = [scount EXCEPT ![sem] = @ + 1],
         IF scount[sem] < 0 /\ squeue[sem] # <<>>
         THEN squeue' = [squeue EXCEPT ![sem] = Tail(@)] ELSE UNCHANGED squeue
  PROVE  Promise!ANext \/ Same
<1>1. /\ scount \in [Sem -> Int] /\ squeue[sem] \in Queue(Pid) /\ UNCHANGED Used
  BY WaitersCounted DEF IInv, SemOK, Used
<1>2. CASE scount[sem] < 0
  <2>1. squeue[sem] # <<>>
    BY <1>2, WaitersCounted
  <2>2. /\ UNCHANGED Free0 /\ squeue' = [squeue EXCEPT ![sem] = Tail(@)]
    BY <1>1, <1>2, <2>1 DEF Free0
  <2>3. Promise!Release(sem)
    BY <1>1, <2>1, <2>2 DEF Promise!Release, Used, Free0
  <2> QED  BY <2>3 DEF Promise!ANext
<1>3. CASE scount[sem] >= 0
  <2>1. squeue[sem] = <<>> /\ UNCHANGED squeue
    BY <1>1, <1>3, WaitersCounted
  <2>2. CASE sem \in Used
    <3>1. Free0[sem] = scount[sem]
      BY <1>1, <1>3, <2>2 DEF Free0, Used
    <3>2. Free0' = [Free0 EXCEPT ![sem] = @ + 1]
      <4>1. PICK n \in Int : n = scount[sem] + 1
        BY <1>1
      <4>2. scount' = [scount EXCEPT ![sem] = n]
        BY <1>1, <4>1
      <4>3. Free0' = [Free0 EXCEPT ![sem] = IF sstate[sem] = "S_USED" /\ n > 0 THEN n ELSE 0]
        BY <1>1, <4>2, CountChanges
      <4>4. (IF sstate[sem] = "S_USED" /\ n > 0 THEN n ELSE 0) = Free0[sem] + 1
        BY <1>1, <1>3, <2>2, <3>1, <4>1 DEF Used
      <4> QED  BY <4>3, <4>4, Zenon
    <3>3. Promise!V(sem)
      BY <1>1, <2>1, <2>2, <3>2 DEF Promise!V, Used, Free0
    <3> QED  BY <3>3 DEF Promise!ANext
  <2>3. CASE sem \notin Used
    <3>1. UNCHANGED Free0
      BY <1>1, <2>3 DEF Free0, Used
    <3> QED  BY <1>1, <2>1, <3>1 DEF Same
  <2> QED  BY <2>2, <2>3
<1> QED  BY <1>1, <1>2, <1>3

\* What signal does to its semaphore.
LEMMA Signal1Refines ==
  ASSUME IInv, ~At("semreset"), NEW sem \in Sem, UNCHANGED sstate, Signal1(sem)
  PROVE  Promise!ANext \/ Same
BY UnitRefines DEF Signal1, ReleaseFirst, IsEmpty

\* signal, signaln's and semdelete's loops.
LEMMA SignalRefines ==
  ASSUME IInv, (\E sem \in Sem : Signal(sem)) \/ SignalnLoop \/ SemdeleteLoop
  PROVE  Promise!ANext \/ Same
<1>1. CASE \E sem \in Sem : Signal(sem)
  BY <1>1, Signal1Refines DEF Signal, Sys, At
<1>2. CASE SignalnLoop
  <2> DEFINE sem == cont[Cur].obj
  <2>1. sem \in Sem /\ ~At("semreset") /\ UNCHANGED sstate
    BY <1>2, Facts DEF SignalnLoop, IInv, ContInv, ContOK, At, SemLoops
  <2>2. CASE Signal1(sem)
    BY <2>1, <2>2, Signal1Refines
  <2>3. CASE UNCHANGED <<scount, squeue>>
    BY <2>1, <2>3, QuietSame
  <2> QED  BY <1>2, <2>2, <2>3 DEF SignalnLoop
<1>3. CASE SemdeleteLoop
  <2> DEFINE sem == cont[Cur].obj
  <2>1. sem \in Sem /\ ~At("semreset") /\ UNCHANGED sstate
    BY <1>3, Facts DEF SemdeleteLoop, IInv, ContInv, ContOK, At, SemLoops
  <2>2. scount' = [scount EXCEPT ![sem] = @ + 1]
    BY <1>3 DEF SemdeleteLoop
  <2>3. IF scount[sem] < 0 /\ squeue[sem] # <<>>
        THEN squeue' = [squeue EXCEPT ![sem] = Tail(@)] ELSE UNCHANGED squeue
    BY <1>3 DEF SemdeleteLoop, ReleaseFirst, IsEmpty
  <2> QED  BY <2>1, <2>2, <2>3, UnitRefines
<1> QED  BY <1>1, <1>2, <1>3

-----------------------------------------------------------------------------
\* semcreate, semdelete and semreset.

\* semcreate: a free semaphore has no waiters, and gets its units.
LEMMA SemcreateRefines ==
  ASSUME IInv, NEW count \in Counts, Semcreate(count)
  PROVE  Promise!ANext
<1> DEFINE i == Min(FreeSemOffsets)
<1>1. /\ ~At("semreset") /\ ~At("semdelete") /\ nextsem \in Sem /\ count \in Nat
      /\ FreeSemOffsets # {} /\ UNCHANGED squeue
  BY CountsAssumption DEF Semcreate, Sys, At, IInv, TableType
<1>2. i \in FreeSemOffsets /\ i \in Nat
  <2>1. FreeSemOffsets \subseteq Nat
    BY NSEMAssumption DEF FreeSemOffsets
  <2> QED  BY <1>1, <2>1, MinNat
<1> HIDE DEF i
<1>3. sstate[(nextsem + i) % NSEM] = "S_FREE" /\ (nextsem + i) % NSEM \in Sem
  BY <1>1, <1>2, NSEMAssumption DEF FreeSemOffsets, Sem
<1> PICK sem \in Sem : sem = (nextsem + i) % NSEM
  BY <1>3
<1>4. /\ sstate' = [sstate EXCEPT ![sem] = "S_USED"]
      /\ scount' = [scount EXCEPT ![sem] = count]
  BY DEF Semcreate, i
<1>5. /\ squeue[sem] = <<>> /\ sem \notin Used
      /\ scount \in [Sem -> Int] /\ sstate \in [Sem -> {"S_FREE", "S_USED"}]
  BY <1>1, <1>3, WaitersCounted DEF IInv, SemOK, FreeEmpty, Used
<1>6. Used' = Used \cup {sem}
  BY <1>4, <1>5 DEF Used
<1>7. /\ Free0'[sem] = count
      /\ \A s \in Sem \ {sem} : Free0'[s] = Free0[s]
  BY <1>1, <1>4, <1>5 DEF Free0
<1>8. Free0' = [Free0 EXCEPT ![sem] = Free0'[sem]]
  BY <1>7 DEF Free0
<1>9. Promise!New(sem)
  BY <1>1, <1>5, <1>6, <1>7, <1>8 DEF Promise!New, Promise!Refill, Used, Free0
<1> QED  BY <1>9 DEF Promise!ANext

\* semdelete: its units are gone, its waiters not yet.
LEMMA SemdeleteRefines ==
  ASSUME IInv, NEW sem \in Sem, Semdelete(sem)
  PROVE  Promise!ANext
<1>1. /\ sstate' = [sstate EXCEPT ![sem] = "S_FREE"] /\ UNCHANGED <<scount, squeue>>
      /\ sem \in Used /\ sstate \in [Sem -> {"S_FREE", "S_USED"}]
  BY DEF Semdelete, Used, IInv, SemOK
<1>2. Used' = Used \ {sem}
  BY <1>1 DEF Used
<1>3. \A s \in Sem : Free0'[s] = IF s = sem THEN 0 ELSE Free0[s]
  BY <1>1 DEF Free0
<1>4. Free0' = [Free0 EXCEPT ![sem] = 0]
  BY <1>3 DEF Free0
<1>5. Promise!Delete(sem)
  BY <1>1, <1>2, <1>4 DEF Promise!Delete, Used, Free0
<1> QED  BY <1>5 DEF Promise!ANext

\* A round of semreset: a waiter is released, or none is left.
LEMMA SemresetRefines ==
  ASSUME IInv, SemresetLoop
  PROVE  Promise!ANext \/ Same
<1> DEFINE obj == cont[Cur].obj
           num == cont[Cur].n
<1>1. obj \in Sem /\ num \in Nat /\ UNCHANGED sstate
  BY Facts DEF SemresetLoop, IInv, ContInv, ContOK, ContType, At, SemLoops
<1> PICK sem \in Sem : sem = obj
  BY <1>1
<1> PICK n \in Nat : n = num
  BY <1>1
<1>2. /\ squeue[sem] \in Queue(Pid) /\ scount \in [Sem -> Int] /\ UNCHANGED Used
  BY <1>1 DEF IInv, SemOK, Used
<1>3. CASE squeue[sem] # <<>>
  <2>1. UNCHANGED <<Used, Free0>> /\ squeue' = [squeue EXCEPT ![sem] = Tail(@)]
    BY <1>1, <1>2, <1>3 DEF SemresetLoop, ReleaseFirst, IsEmpty, Free0
  <2>2. Promise!Release(sem)
    BY <1>3, <2>1 DEF Promise!Release, Used, Free0
  <2> QED  BY <2>2 DEF Promise!ANext
<1>4. CASE squeue[sem] = <<>>
  <2>1. scount' = [scount EXCEPT ![sem] = n] /\ UNCHANGED squeue
    BY <1>4 DEF SemresetLoop, IsEmpty
  <2> DEFINE m == IF sstate[sem] = "S_USED" /\ n > 0 THEN n ELSE 0
  <2>2. n \in Int /\ UNCHANGED sstate /\ scount \in [Sem -> Int] /\ m \in Nat
    BY <1>1, <1>2
  <2>3. Free0' = [Free0 EXCEPT ![sem] = m]
    BY <2>1, <2>2, CountChanges
  <2>4. CASE sem \in Used
    <3> HIDE DEF m
    <3>1. Free0'[sem] = m
      BY <2>3 DEF Free0
    <3>2. Free0' = [Free0 EXCEPT ![sem] = Free0'[sem]] /\ Free0'[sem] \in Nat
      BY <2>2, <2>3, <3>1, Zenon
    <3>3. Promise!Reset(sem)
      BY <1>2, <1>4, <2>1, <2>4, <3>2 DEF Promise!Reset, Promise!Refill, Used, Free0
    <3> QED  BY <3>3 DEF Promise!ANext
  <2>5. CASE sem \notin Used
    <3>1. Free0[sem] = 0 /\ sstate[sem] # "S_USED"
      BY <2>5 DEF Free0, Used
    <3>2. UNCHANGED Free0
      BY <2>3, <3>1 DEF Free0
    <3> QED  BY <1>2, <2>1, <3>2 DEF Same
  <2> QED  BY <2>4, <2>5
<1> QED  BY <1>3, <1>4

-----------------------------------------------------------------------------
\* The end of kill: a waiter leaves the line, from wherever it is in it, and
\* its place is given back.
LEMMA KillEndRefines ==
  ASSUME IInv, KillEnd
  PROVE  Promise!ANext \/ Same
<1> DEFINE victim == cont[Cur].obj
<1>1. ~At("semreset") /\ UNCHANGED sstate /\ victim \in Pid
  BY Facts DEF KillEnd, At, IInv, ContInv, ContOK
<1> PICK pid \in Pid : pid = victim
  BY <1>1
<1>2. CASE UNCHANGED <<scount, squeue>>
  BY <1>1, <1>2, QuietSame
<1>3. CASE State(pid) = "WAIT" /\ LeaveSemaphore(pid)
  <2>1. prsem[pid] \in Sem /\ pid \in Range(squeue[prsem[pid]])
    BY <1>3 DEF IInv, SemOK, InState
  <2> PICK sem \in Sem : sem = prsem[pid]
    BY <2>1
  <2>2. /\ squeue[sem] \in Queue(Pid) /\ pid \in Range(squeue[sem]) /\ squeue[sem] # <<>>
    BY <2>1, EmptyQueue DEF IInv, SemOK
  <2>3. scount[sem] < 0 /\ scount \in [Sem -> Int]
    BY <1>1, <2>2, WaitersCounted DEF IInv, SemOK
  <2>4. scount' = [scount EXCEPT ![sem] = @ + 1]
    BY <1>3 DEF LeaveSemaphore
  <2>5. UNCHANGED <<Used, Free0>>
    BY <1>1, <2>3, <2>4 DEF Used, Free0
  <2>6. squeue' = [squeue EXCEPT ![sem] = RemoveFirst(squeue[sem], pid)]
    BY <1>3, <2>2, RemoveFirstQueue DEF LeaveSemaphore
  <2>7. RemoveFirst(squeue[sem], pid) = Promise!RemoveFirst(squeue[sem], pid)
    BY DEF RemoveFirst, Promise!RemoveFirst, SelectInSeq, Promise!SelectInSeq, RemoveAt,
           Promise!RemoveAt, Min, Promise!Min
  <2>8. Promise!Leave(sem, pid)
    BY <2>2, <2>5, <2>6, <2>7 DEF Promise!Leave, Promise!Range, Range, Used, Free0
  <2> QED  BY <2>8 DEF Promise!ANext
<1> QED  BY <1>2, <1>3 DEF KillEnd

-----------------------------------------------------------------------------
\* Every other step leaves semaphores and their queues alone.
LEMMA NextRefines ==
  ASSUME IInv, [Next]_vars
  PROVE  Promise!ANext \/ Same
<1>1. CASE Syscall
  <2>1. CASE \E sem \in Sem : Wait(sem) \/ Signal(sem) \/ Semdelete(sem)
    BY <2>1, WaitRefines, SignalRefines, SemdeleteRefines
  <2>2. CASE \E count \in Counts : Semcreate(count)
    BY <2>2, SemcreateRefines
  <2>3. CASE UNCHANGED <<sstate, scount, squeue>>
    BY <2>3, QuietSame
  <2> QED
    BY <1>1, <2>1, <2>2, <2>3
       DEF Syscall, Create, Resume, Suspend, Send, Kill, Chprio, Yield, Receive, Recvclr,
           Recvtime, Sleepms, Signaln, Semreset, semvars
<1>2. CASE Kernel
  BY <1>2, SignalRefines, SemresetRefines, KillEndRefines, QuietSame
     DEF Kernel, ReceiveEnd, RecvtimeEnd, Wakeup, ClkhandlerEnd, semvars
<1>3. CASE Clkhandler \/ UNCHANGED vars
  BY <1>3, QuietSame DEF Clkhandler, vars, semvars
<1> QED  BY <1>1, <1>2, <1>3 DEF Next

\* The semaphores of the kernel are counting semaphores with a first-come
\* first-served line: no unit is lost or given twice and nobody overtakes, in
\* wait, signal, signaln, semcreate, semdelete, semreset and kill.
THEOREM KernelImplementsSemaphores == Spec => SemaphoresRefined
<1>1. Init => Promise!AInit
  BY DEF Init, Promise!AInit
<1>2. IInv /\ [Next]_vars => [Promise!ANext]_<<Used, Free0, squeue>>
  BY NextRefines DEF Same
<1>3. [Promise!ANext]_<<Used, Free0, squeue>> => [Promise!ANext]_(Promise!avars)
  BY DEF Promise!avars, Used, Free0
<1> QED  BY <1>1, <1>2, <1>3, KernelInv, PTL DEF Spec, SemaphoresRefined, Promise!ASpec
-----------------------------------------------------------------------------
\* The number of live processes.

\* A kill picks a process that nobody is killing and that is not killing
\* another, and who kills is not being killed.
KillsApart ==
    [][\A pid \in Pid : Kill(pid) =>
           pid \notin Victims /\ Cur \notin Victims /\ cont[pid].op # "kill"]_vars

Killers == {p \in Pid : cont[p].op = "kill"}

\* The kills in progress have a victim each, and who kills is alive and no victim
\* of another; so is the victim.
KillsOK ==
    /\ \A p \in Killers : State(p) # "FREE" /\ State(cont[p].obj) # "FREE"
    /\ \A p, q \in Killers : cont[p].obj = cont[q].obj => p = q
    /\ \A p, q \in Killers : cont[p].obj = q => p = q

Counted == prcount = Cardinality(Live) - Cardinality(Victims)

\* No process comes or goes.
SameLive == \A p \in Pid : State(p)' = "FREE" <=> State(p) = "FREE"

\* No kill begins or ends.
SameKills == \A p \in Pid : cont[p].op = "kill" \/ cont'[p].op = "kill" => cont'[p] = cont[p]

\* The victims are those of all the kills in progress, and live.
LEMMA VictimsAre ==
  ASSUME IInv, KillsOK
  PROVE  /\ Victims = {cont[p].obj : p \in Killers} /\ Victims \subseteq Live
         /\ Live \subseteq Pid /\ IsFiniteSet(Live) /\ IsFiniteSet(Victims)
<1>1. \A p \in Pid : p \in Live <=> State(p) # "FREE"
  BY DEF Live, InState
<1>2. Live \subseteq Pid /\ Killers \subseteq Pid
  BY DEF Live, Killers
<1>3. {k \in Live : cont[k].op = "kill"} = Killers
  BY <1>1, <1>2 DEF Killers, KillsOK
<1>4. Victims = {cont[p].obj : p \in Killers}
  BY <1>3 DEF Victims
<1>5. \A p \in Killers : cont[p].obj \in Pid
  BY DEF Killers, IInv, ContInv, ContOK
<1>6. Victims \subseteq Live
  BY <1>1, <1>4, <1>5 DEF KillsOK
<1>7. IsFiniteSet(Pid)
  BY NPROCAssumption, FS_Interval DEF Pid
<1>8. IsFiniteSet(Live) /\ IsFiniteSet(Victims)
  BY <1>2, <1>6, <1>7, FS_Subset
<1> QED  BY <1>2, <1>4, <1>6, <1>8

\* A step that neither creates nor kills keeps the count.
LEMMA SameCounted ==
  ASSUME IInv, IInv', KillsOK, Counted, SameLive, SameKills, UNCHANGED prcount
  PROVE  KillsOK' /\ Counted'
<1>1. Killers' = Killers /\ \A p \in Killers : cont'[p] = cont[p] /\ p \in Pid /\ cont[p].obj \in Pid
  BY DEF SameKills, Killers, IInv, ContInv, ContOK
<1>2. Live' = Live
  BY DEF SameLive, Live, InState
<1>3. KillsOK'
  BY <1>1 DEF KillsOK, SameLive
<1>4. \A k \in Live : cont'[k].op = "kill" <=> cont[k].op = "kill"
  BY DEF SameKills, Live
<1>5. {k \in Live : cont'[k].op = "kill"} = {k \in Live : cont[k].op = "kill"}
  BY <1>4
<1>6. \A k \in {j \in Live : cont[j].op = "kill"} : cont'[k] = cont[k]
  BY DEF SameKills, Live
<1>7. Victims' = Victims
  BY <1>2, <1>5, <1>6 DEF Victims
<1> QED  BY <1>2, <1>3, <1>7 DEF Counted

\* The scheduler frees and makes no process, of those it is not called for.
LEMMA KeepsLive ==
  ASSUME NEW X, Keeps(sched, sched', X),
         \A p \in Pid : p \in X => State(p) # "FREE" /\ State(p)' # "FREE"
  PROVE  SameLive
<1> SUFFICES ASSUME NEW p \in Pid  PROVE State(p)' = "FREE" <=> State(p) = "FREE"
  BY DEF SameLive
<1>1. CASE p \notin X
  <2>1. IF State(p) \in Runnable THEN State(p)' \in Runnable ELSE State(p)' = State(p)
    BY <1>1 DEF Keeps, State
  <2> QED  BY <2>1 DEF Runnable
<1> QED  BY <1>1

\* Nor does it when it makes a process ready that was waiting, or the current
\* process waits.
LEMMA SchedulerLive ==
  ASSUME IInv
  PROVE  /\ sched' = sched \/ sched' = DeferStart(sched) => SameLive
         /\ ~Looping /\ (sched' = Resched(sched) \/ sched' = Preempt(sched)) => SameLive
         /\ Looping /\ sched' = DeferStop(sched) => SameLive
         /\ \A p \in Pid : State(p) \notin Runnable \cup {"FREE"} /\ sched' = Ready(sched, p)
               => SameLive
         /\ \A state \in PrState \ (Runnable \cup {"FREE"}) :
               ~Looping /\ Cur # NULLPROC /\ sched' = Block(sched, state) => SameLive
<1>1. ASSUME NEW p \in Pid, State(p) \notin Runnable \cup {"FREE"}, sched' = Ready(sched, p)
      PROVE  SameLive
  <2>1. Keeps(sched, sched', {p}) /\ State(p)' \in Runnable
    BY <1>1, SchedulerKeeps
  <2> QED  BY <1>1, <2>1, KeepsLive DEF Runnable
<1>2. ASSUME NEW state \in PrState \ (Runnable \cup {"FREE"}), ~Looping, Cur # NULLPROC,
             sched' = Block(sched, state)
      PROVE  SameLive
  <2>1. Keeps(sched, sched', {Cur}) /\ sched'.prstate[Cur] = state
    BY <1>2, SchedulerKeeps
  <2> PICK me : me = Cur
    OBVIOUS
  <2>2. Keeps(sched, sched', {me}) /\ State(me)' # "FREE" /\ State(me) = "CURR"
    BY <1>2, <2>1, Facts DEF State
  <2> QED  BY <2>2, KeepsLive
<1> QED  BY <1>1, <1>2, SchedulerKeeps, KeepsLive

\* The current process goes on with anything but a kill.
LEMMA GotoKills ==
  ASSUME IInv, ~At("kill"), NEW c, c.op # "kill", Goto(c) \/ UNCHANGED cont
  PROVE  SameKills
BY DEF Goto, IInv, ContInv, SameKills, At

\* send's delivery makes a process ready that is there.
LEMMA DeliverLive ==
  ASSUME IInv, ~Looping, NEW pid \in Pid, Deliver(pid)
  PROVE  SameLive
<1>1. CASE UNCHANGED sched
  BY <1>1, SchedulerLive
<1>2. CASE State(pid) = "RECV" /\ sched' = Ready(sched, pid)
  BY <1>2, SchedulerLive DEF Runnable
<1>3. CASE /\ State(pid) = "RECTIM"
           /\ sched' = Ready([sched EXCEPT !.qkey = UnsleepKeys(sleepq, @, pid)], pid)
  <2> DEFINE ks == UnsleepKeys(sleepq, sched.qkey, pid)
             s == Rekeyed(sched, ks)
  <2>1. ks \in [Pid -> Int]
    BY Facts, UnsleepKeysInt
  <2>2. sched' = Ready(s, pid)
    BY <1>3 DEF Rekeyed
  <2> HIDE DEF ks
  <2>3. Dispatched(s) /\ s.prstate = sched.prstate
    BY <2>1, QkeyDispatches DEF IInv
  <2> HIDE DEF s
  <2>4. Keeps(s, sched', {pid}) /\ sched'.prstate[pid] \in Runnable
    BY <1>3, <2>2, <2>3, ReadyDispatches DEF State, Runnable
  <2>5. Keeps(sched, sched', {pid}) /\ State(pid)' \in Runnable
    BY <2>3, <2>4 DEF Keeps, State
  <2> QED  BY <1>3, <2>5, KeepsLive DEF Runnable
<1> QED  BY <1>1, <1>2, <1>3 DEF Deliver

\* The calls that neither create nor kill.
LEMMA CallLive ==
  ASSUME IInv,
         \/ \E pid \in Pid : Resume(pid) \/ Suspend(pid) \/ Send(pid)
         \/ \E pid \in Pid, prio \in Prios : Chprio(pid, prio)
         \/ Yield \/ Receive \/ Recvclr
         \/ \E delay \in Delays : Recvtime(delay) \/ Sleepms(delay)
  PROVE  SameLive /\ SameKills /\ UNCHANGED prcount
<1>1. /\ ~Looping /\ Cur # NULLPROC /\ sched \in SchedType /\ At("user")
      /\ sched.prstate \in [Pid -> PrState]
      /\ {"SUSP", "RECV"} \subseteq PrState \ (Runnable \cup {"FREE"})
  BY Facts, NotLooping DEF Resume, Suspend, Send, Chprio, Yield, Receive, Recvclr, Recvtime, Sleepms,
                           Sys, PrState, Runnable
<1>2. UNCHANGED prcount
  BY DEF Resume, Suspend, Send, Chprio, Yield, Receive, Recvclr, Recvtime, Sleepms, procvars
<1>3. SameKills
  <2>1. Cont("receive", 0, 0).op # "kill" /\ Cont("recvtime", 0, 0).op # "kill" /\ ~At("kill")
    BY <1>1 DEF Cont, At
  <2>2. UNCHANGED cont \/ Goto(Cont("receive", 0, 0)) \/ Goto(Cont("recvtime", 0, 0))
    BY DEF Resume, Suspend, Send, Chprio, Yield, Receive, Recvclr, Recvtime, Sleepms
  <2> QED  BY <2>1, <2>2, GotoKills
<1> SUFFICES SameLive
  BY <1>2, <1>3
<1>4. CASE \E pid \in Pid : Resume(pid)
  BY <1>4, SchedulerLive DEF Resume, Runnable
<1>5. CASE \E pid \in Pid : Suspend(pid)
  <2> PICK pid \in Pid : Suspend(pid)
    BY <1>5
  <2>1. CASE State(pid) = "READY" /\ sched' = [sched EXCEPT !.readylist    = GetItem(@, pid),
                                                            !.prstate[pid] = "SUSP"]
    <3>1. sched'.prstate = [sched.prstate EXCEPT ![pid] = "SUSP"]
      BY <1>1, <2>1 DEF SchedType
    <3> QED  BY <1>1, <2>1, <3>1 DEF SameLive, State
  <2>2. CASE sched' = Block(sched, "SUSP")
    BY <1>1, <2>2, SchedulerLive
  <2> QED  BY <2>1, <2>2 DEF Suspend
<1>6. CASE \E pid \in Pid : Deliver(pid)
  BY <1>1, <1>6, DeliverLive
<1>7. CASE \E pid \in Pid, prio \in Prios : Chprio(pid, prio)
  <2>1. sched'.prstate = sched.prstate
    BY <1>1, <1>7 DEF Chprio, SchedType
  <2> QED  BY <2>1 DEF SameLive, State
<1>8. CASE \E state \in Asleep, delay \in Delays : SleepAs(state, delay)
  <2> PICK state \in Asleep, delay \in Delays : SleepAs(state, delay)
    BY <1>8
  <2> PICK me : me = Cur
    OBVIOUS
  <2>1. Keeps(sched, sched', {me}) /\ sched'.prstate[me] = state
    BY <1>1, SleepAsKeeps
  <2>2. State(me)' # "FREE" /\ State(me) = "CURR"
    BY <2>1, Facts DEF State, Asleep
  <2> QED  BY <2>1, <2>2, KeepsLive
<1>9. CASE sched' \in {sched, Resched(sched), Block(sched, "RECV")}
  BY <1>1, <1>9, SchedulerLive
<1> QED
  BY <1>4, <1>5, <1>6, <1>7, <1>8, <1>9
     DEF Send, Yield, Receive, Recvclr, Recvtime, Sleepms, Asleep

\* The semaphore calls, their loops, the ends of the waits, and the clock.
LEMMA KernelLive ==
  ASSUME IInv,
         \/ \E sem \in Sem : Wait(sem) \/ Signal(sem) \/ Semdelete(sem)
         \/ \E sem \in Sem, count \in Counts : Signaln(sem, count) \/ Semreset(sem, count)
         \/ \E count \in Counts : Semcreate(count)
         \/ SignalnLoop \/ SemdeleteLoop \/ SemresetLoop \/ ReceiveEnd \/ RecvtimeEnd
  PROVE  SameLive /\ SameKills /\ UNCHANGED prcount
<1>1. UNCHANGED prcount
  BY DEF Wait, Signal, Semdelete, Signaln, Semreset, Semcreate, SignalnLoop, SemdeleteLoop,
         SemresetLoop, ReceiveEnd, RecvtimeEnd, procvars
<1>2. SameKills
  <2>1. \A op, o, n : Cont(op, o, n).op = op
    BY DEF Cont
  <2>2. User.op # "kill" /\ ~At("kill")
    BY DEF User, Cont, At, Wait, Signal, Semdelete, Signaln, Semreset, Semcreate, SignalnLoop,
           SemdeleteLoop, SemresetLoop, ReceiveEnd, RecvtimeEnd, Sys
  <2>3. \E c : c.op # "kill" /\ (Goto(c) \/ UNCHANGED cont)
    BY <2>1, <2>2 DEF Wait, Signal, Semdelete, Signaln, Semreset, Semcreate, SignalnLoop,
                      SemdeleteLoop, SemresetLoop, ReceiveEnd, RecvtimeEnd
  <2> QED  BY <2>2, <2>3, GotoKills
<1> SUFFICES SameLive
  BY <1>1, <1>2
<1>3. ASSUME NEW sem \in Sem, ReleaseFirst(sem)
      PROVE  SameLive
  <2>1. CASE UNCHANGED sched
    BY <2>1, SchedulerLive
  <2>2. CASE ~IsEmpty(squeue[sem]) /\ sched' = Ready(sched, Head(squeue[sem]))
    <3>1. SemShape
      BY SemParts DEF IInv
    <3>2. Head(squeue[sem]) \in Range(squeue[sem]) /\ Head(squeue[sem]) \in Pid
      BY <2>2, <3>1, DequeueQueue DEF SemShape
    <3> PICK pid \in Pid : pid = Head(squeue[sem])
      BY <3>2
    <3>3. State(pid) = "WAIT"
      BY <3>1, <3>2, InStateIff DEF SemShape
    <3> QED  BY <2>2, <3>3, SchedulerLive DEF Runnable
  <2> QED  BY <1>3, <2>1, <2>2 DEF ReleaseFirst
<1>4. CASE sched' = sched \/ sched' = DeferStart(sched) \/ (Looping /\ sched' = DeferStop(sched))
  BY <1>4, SchedulerLive
<1>5. CASE \E sem \in Sem : Wait(sem)
  <2>1. ~Looping /\ Cur # NULLPROC /\ "WAIT" \in PrState \ (Runnable \cup {"FREE"})
    BY <1>5, NotLooping DEF Wait, Sys, PrState, Runnable
  <2>2. sched' = sched \/ sched' = Block(sched, "WAIT")
    BY <1>5 DEF Wait
  <2> QED  BY <2>1, <2>2, SchedulerLive
<1>6. CASE \/ \E sem \in Sem : Signal(sem) \/ Semdelete(sem)
           \/ \E sem \in Sem, count \in Counts : Signaln(sem, count) \/ Semreset(sem, count)
           \/ \E count \in Counts : Semcreate(count)
           \/ ReceiveEnd \/ RecvtimeEnd
  BY <1>3, <1>4, <1>6 DEF Signal, Signal1, Semdelete, Signaln, Semreset, Semcreate, ReceiveEnd,
                          RecvtimeEnd
<1>7. CASE SignalnLoop \/ SemdeleteLoop \/ SemresetLoop
  <2>1. cont[Cur].obj \in Sem /\ Looping
    BY <1>7, LoopFacts DEF SignalnLoop, SemdeleteLoop, SemresetLoop
  <2>2. sched' = sched \/ sched' = DeferStop(sched) \/ ReleaseFirst(cont[Cur].obj)
    BY <1>7 DEF SignalnLoop, SemdeleteLoop, SemresetLoop, Signal1
  <2> QED  BY <1>3, <1>4, <2>1, <2>2
<1> QED  BY <1>5, <1>6, <1>7

\* The clock.
LEMMA ClockLive ==
  ASSUME IInv, Clkhandler \/ Wakeup \/ ClkhandlerEnd
  PROVE  SameLive /\ SameKills /\ UNCHANGED prcount
<1>1. UNCHANGED prcount /\ sched \in SchedType /\ sched.qkey \in [Pid -> Int]
  BY Facts DEF Clkhandler, Wakeup, ClkhandlerEnd, procvars
<1>2. SameKills
  <2>1. User.op # "kill" /\ Cont("wakeup", 0, 0).op # "kill" /\ Cont("clkhandler", 0, 0).op # "kill"
    BY DEF User, Cont
  <2>2. Goto(User) \/ Goto(Cont("wakeup", 0, 0)) \/ Goto(Cont("clkhandler", 0, 0)) \/ UNCHANGED cont
    BY DEF Clkhandler, Wakeup, ClkhandlerEnd
  <2>3. ~At("kill")
    BY DEF At, Clkhandler, Wakeup, ClkhandlerEnd
  <2> QED  BY <2>1, <2>2, <2>3, GotoKills
<1> SUFFICES SameLive
  BY <1>1, <1>2
<1>3. CASE Clkhandler
  <2>1. ~Looping /\ sched.ndefers = 0
    BY <1>3, NotLooping, Facts DEF Clkhandler
  <2>2. CASE sched' = Preempt(sched)
    BY <2>1, <2>2, SchedulerLive
  <2>3. CASE ~IsEmpty(sleepq)
    <3> DEFINE pid == Head(sleepq)
               ks == [sched.qkey EXCEPT ![pid] = sched.qkey[pid] - 1]
               s == Rekeyed(sched, ks)
               d == [sched EXCEPT !.qkey[pid] = @ - 1]
    <3>1. pid \in Pid
      BY <2>3, DequeueQueue DEF IInv, SleepOK
    <3>2. d = s
      BY <1>1 DEF SchedType, Rekeyed
    <3>3. sched' = DeferStart(d) \/ sched' = Preempt(d)
      BY <1>3, <2>3 DEF Clkhandler
    <3> HIDE DEF d, pid
    <3>4. ks \in [Pid -> Int]
      BY <1>1, <3>1
    <3> HIDE DEF ks
    <3>5. Dispatched(s) /\ s.prstate = sched.prstate /\ s.ndefers = 0
      BY <2>1, <3>4, QkeyDispatches DEF IInv
    <3> HIDE DEF s
    <3>6. Keeps(s, sched', {})
      BY <3>2, <3>3, <3>5, DeferStartDispatches, PreemptDispatches DEF Keeps
    <3>7. Keeps(sched, sched', {})
      BY <3>5, <3>6 DEF Keeps
    <3> QED  BY <3>7, KeepsLive
  <2> QED  BY <1>3, <2>2, <2>3 DEF Clkhandler
<1>4. CASE Wakeup
  <2>1. CASE sched' = DeferStop(sched)
    BY <1>4, <2>1, SchedulerLive DEF Wakeup, At, Looping, LoopOps
  <2>2. CASE ~IsEmpty(sleepq) /\ sched' = Ready(sched, Head(sleepq))
    <3>1. sleepq \in Queue(Pid) /\ Head(sleepq) \in Pid /\ Head(sleepq) \in Range(sleepq)
      BY <2>2, DequeueQueue DEF IInv, SleepOK
    <3> PICK pid \in Pid : pid = Head(sleepq)
      BY <3>1
    <3>2. State(pid) \in Asleep
      BY <3>1 DEF IInv, SleepOK, InState
    <3> QED  BY <2>2, <3>2, SchedulerLive DEF Asleep, Runnable
  <2> QED  BY <1>4, <2>1, <2>2 DEF Wakeup
<1>5. CASE ClkhandlerEnd
  BY <1>5, NotLooping, SchedulerLive DEF ClkhandlerEnd
<1> QED  BY <1>3, <1>4, <1>5

\* create: one more process, that nobody kills.
LEMMA CreateCounted ==
  ASSUME IInv, KillsOK, Counted, NEW prio \in Prios, NEW stack \in BOOLEAN, Create(prio, stack)
  PROVE  KillsOK' /\ Counted'
<1>1. PICK new \in Pid :
         \/ UNCHANGED <<sched, cont, prcount>>
         \/ /\ State(new) = "FREE" /\ prcount' = prcount + 1
            /\ cont' = [cont EXCEPT ![new] = User]
            /\ sched' = [sched EXCEPT !.prstate[new] = "SUSP", !.prprio[new] = prio]
  BY FreeOffsetPid DEF Create
<1>2. CASE UNCHANGED <<sched, cont, prcount>>
  BY <1>2 DEF KillsOK, Counted, Killers, Live, Victims, InState, State
<1>3. CASE /\ State(new) = "FREE" /\ prcount' = prcount + 1
           /\ cont' = [cont EXCEPT ![new] = User]
           /\ sched' = [sched EXCEPT !.prstate[new] = "SUSP", !.prprio[new] = prio]
  <2>1. /\ sched \in SchedType /\ cont \in [Pid -> ContType] /\ User.op = "user"
        /\ sched.prstate \in [Pid -> PrState] /\ prcount \in Int
    BY Facts DEF IInv, ContInv, User, Cont, TableType
  <2>2. State(new)' = "SUSP" /\ \A p \in Pid \ {new} : State(p)' = State(p)
    BY <1>3, <2>1 DEF SchedType, State
  <2>3. \A p \in Killers : p \in Pid /\ cont[p].obj \in Pid
    BY DEF Killers, IInv, ContInv, ContOK
  <2>4. new \notin Killers /\ \A p \in Killers : cont[p].obj # new
    BY <1>3 DEF KillsOK
  <2>5. Killers' = Killers /\ \A p \in Killers : cont'[p] = cont[p]
    BY <1>3, <2>1, <2>3, <2>4 DEF Killers
  <2>6. KillsOK'
    BY <2>2, <2>3, <2>4, <2>5 DEF KillsOK
  <2>7. Live' = Live \cup {new} /\ new \notin Live
    BY <1>3, <2>2 DEF Live, InState
  <2>8. /\ Victims = {cont[p].obj : p \in Killers}
        /\ IsFiniteSet(Live) /\ IsFiniteSet(Victims)
    BY VictimsAre
  <2>9. {k \in Live' : cont'[k].op = "kill"} = Killers
    <3>1. \A k \in Pid : k \in Live' <=> State(k)' # "FREE"
      BY DEF Live, InState
    <3>2. \A k \in Killers : k \in Pid /\ k \in Live'
      BY <2>3, <2>5, <2>6, <3>1 DEF KillsOK
    <3>3. \A k \in Live' : k \in Pid
      BY DEF Live
    <3> QED  BY <2>5, <3>2, <3>3 DEF Killers
  <2>10. Victims' = Victims
    <3>1. Victims' = {cont'[p].obj : p \in Killers}
      BY <2>9 DEF Victims
    <3> QED  BY <2>5, <2>8, <3>1
  <2>11. Cardinality(Live') = Cardinality(Live) + 1 /\ Cardinality(Live) \in Nat
    BY <2>7, <2>8, FS_AddElement, FS_CardinalityType
  <2>12. Cardinality(Victims) \in Nat
    BY <2>8, FS_CardinalityType
  <2>13. prcount = Cardinality(Live) - Cardinality(Victims)
    BY DEF Counted
  <2>14. prcount' = Cardinality(Live') - Cardinality(Victims)
    BY <1>3, <2>11, <2>12, <2>13
  <2> QED  BY <2>6, <2>10, <2>14 DEF Counted
<1> QED  BY <1>1, <1>2, <1>3

\* kill: its victim is counted out when it begins.
LEMMA KillCounted ==
  ASSUME IInv, IInv', KillsOK, Counted, NEW pid \in Pid, Kill(pid),
         pid \notin Victims, Cur \notin Victims, cont[pid].op # "kill"
  PROVE  KillsOK' /\ (At("xdone") \/ Counted)'
<1>1. /\ Cur \in Pid /\ ~Looping /\ ~At("kill") /\ State(Cur) = "CURR" /\ State(pid) # "FREE"
      /\ cont \in [Pid -> ContType] /\ prparent[pid] \in Pid
      /\ prcount \in Int /\ prcount' = prcount - 1
  BY NotLooping, Facts DEF Kill, Sys, At, Killable, IsBadPid, IInv, ContInv, TableType
<1> PICK me \in Pid : me = Cur
  BY <1>1
<1>2. SameLive
  BY <1>1, DeliverLive, SchedulerLive DEF Kill
<1>3. Live' = Live
  BY <1>2 DEF SameLive, Live, InState
<1>4. CASE Goto(Cont("xdone", 0, 0)) /\ UNCHANGED sched
  <2>1. SameKills /\ Cont("xdone", 0, 0).op = "xdone"
    BY <1>1, <1>4, GotoKills DEF Cont
  <2>2. Killers' = Killers /\ \A p \in Killers : cont'[p] = cont[p] /\ p \in Pid /\ cont[p].obj \in Pid
    BY <2>1 DEF SameKills, Killers, IInv, ContInv, ContOK
  <2>3. KillsOK'
    BY <1>2, <2>2 DEF KillsOK, SameLive
  <2>4. Cur' = me
    BY <1>4 DEF Cur
  <2>5. cont'[me] = Cont("xdone", 0, 0)
    BY <1>1, <1>4 DEF Goto
  <2>6. At("xdone")'
    BY <2>1, <2>4, <2>5 DEF At
  <2> QED  BY <2>3, <2>6
<1>5. CASE Goto(Cont("kill", pid, 0))
  <2>1. /\ cont' = [cont EXCEPT ![me] = Cont("kill", pid, 0)]
        /\ Cont("kill", pid, 0).op = "kill" /\ Cont("kill", pid, 0).obj = pid
    BY <1>5 DEF Goto, Cont
  <2>2. /\ cont'[me].op = "kill" /\ cont'[me].obj = pid
        /\ \A p \in Pid \ {me} : cont'[p] = cont[p]
    BY <1>1, <2>1
  <2>3. me \notin Killers /\ Killers' = Killers \cup {me}
    BY <1>1, <2>2 DEF Killers, At
  <2>4. \A p \in Killers : p \in Pid /\ p # me /\ cont'[p] = cont[p] /\ cont[p].obj \in Pid
    BY <2>2, <2>3 DEF Killers, IInv, ContInv, ContOK
  <2>5. /\ Victims = {cont[p].obj : p \in Killers} /\ IsFiniteSet(Live) /\ IsFiniteSet(Victims)
    BY VictimsAre
  <2>6. \A p \in Killers : cont[p].obj # pid /\ cont[p].obj # me
    BY <2>5
  <2>7. pid \notin Killers
    BY DEF Killers
  <2>8. KillsOK'
    <3>1. \A p \in Pid : State(p)' = "FREE" <=> State(p) = "FREE"
      BY <1>2 DEF SameLive
    <3>2. ASSUME NEW p \in Killers'
          PROVE  sched'.prstate[p] # "FREE" /\ sched'.prstate[cont'[p].obj] # "FREE"
      BY <1>1, <2>2, <2>3, <2>4, <3>1, <3>2 DEF KillsOK, State
    <3>3. ASSUME NEW p \in Killers', NEW q \in Killers', cont'[p].obj = cont'[q].obj
          PROVE  p = q
      BY <2>2, <2>3, <2>4, <2>6, <3>3 DEF KillsOK
    <3>4. ASSUME NEW p \in Killers', NEW q \in Killers', cont'[p].obj = q
          PROVE  p = q
      BY <2>2, <2>3, <2>4, <2>6, <2>7, <3>4 DEF KillsOK
    <3> QED  BY <3>2, <3>3, <3>4 DEF KillsOK, State
  <2>9. {k \in Live' : cont'[k].op = "kill"} = Killers'
    <3>1. \A k \in Pid : k \in Live' <=> State(k)' # "FREE"
      BY DEF Live, InState
    <3>2. \A k \in Killers' : k \in Pid /\ k \in Live'
      BY <2>3, <2>4, <2>8, <3>1 DEF KillsOK
    <3>3. \A k \in Live' : k \in Pid
      BY DEF Live
    <3> QED  BY <3>2, <3>3 DEF Killers
  <2>10. Victims' = {cont'[p].obj : p \in Killers'}
    BY <2>9 DEF Victims
  <2>11. Victims' = Victims \cup {pid} /\ pid \notin Victims
    BY <2>2, <2>3, <2>4, <2>5, <2>10
  <2>12. Cardinality(Victims') = Cardinality(Victims) + 1 /\ Cardinality(Victims) \in Nat
    BY <2>5, <2>11, FS_AddElement, FS_CardinalityType
  <2>13. Cardinality(Live) \in Nat
    BY <2>5, FS_CardinalityType
  <2>14. prcount = Cardinality(Live) - Cardinality(Victims)
    BY DEF Counted
  <2>15. prcount' = Cardinality(Live) - Cardinality(Victims')
    BY <1>1, <2>12, <2>13, <2>14
  <2> QED  BY <1>3, <2>8, <2>15 DEF Counted
<1> QED  BY <1>4, <1>5 DEF Kill

\* The end of a kill: the victim is gone and no longer one.
LEMMA KillEndCounted ==
  ASSUME IInv, KillsOK, Counted, KillEnd
  PROVE  KillsOK' /\ Counted'
<1>1. /\ ~Looping /\ Cur \in Pid /\ cont[Cur].obj \in Pid \ {NULLPROC} /\ UNCHANGED prcount
      /\ sched \in SchedType /\ "FREE" \in PrState \ Runnable /\ cont \in [Pid -> ContType]
      /\ sched.prstate \in [Pid -> PrState] /\ Cur \in Killers
  BY NotLooping, Facts DEF KillEnd, At, IInv, ContInv, ContOK, PrState, Runnable, procvars, Killers
<1> PICK me \in Killers : me = Cur
  BY <1>1
<1> PICK pid \in Pid \ {NULLPROC} : pid = cont[Cur].obj
  BY <1>1
<1>2. State(pid)' = "FREE" /\ \A p \in Pid \ {pid} : State(p)' = "FREE" <=> State(p) = "FREE"
  <2>1. CASE sched'.prstate = [sched.prstate EXCEPT ![pid] = "FREE"]
    BY <1>1, <2>1 DEF State
  <2>2. CASE State(pid) = "CURR" /\ sched' = Resched([sched EXCEPT !.prstate[pid] = "FREE"])
    <3>1. pid = sched.currpid /\ Cur # NULLPROC
      BY <2>2 DEF IInv, Dispatched, Eligible, State, Cur
    <3>2. sched' = Block(sched, "FREE")
      BY <2>2, <3>1 DEF Block
    <3>3. Keeps(sched, sched', {pid}) /\ sched'.prstate[pid] = "FREE"
      BY <1>1, <3>1, <3>2, SchedulerKeeps DEF Cur
    <3> SUFFICES ASSUME NEW p \in Pid \ {pid}  PROVE State(p)' = "FREE" <=> State(p) = "FREE"
      BY <3>3 DEF State
    <3>4. IF State(p) \in Runnable THEN State(p)' \in Runnable ELSE State(p)' = State(p)
      BY <3>3 DEF Keeps, State
    <3> QED  BY <3>4 DEF Runnable
  <2>3. \/ State(pid) = "CURR" /\ sched' = Resched([sched EXCEPT !.prstate[pid] = "FREE"])
        \/ sched' = [[sched EXCEPT !.prstate[pid] = "FREE"] EXCEPT
                          !.qkey = UnsleepKeys(sleepq, sched.qkey, pid)]
        \/ sched' = [sched EXCEPT !.prstate[pid] = "FREE"]
        \/ sched' = [[sched EXCEPT !.prstate[pid] = "FREE"] EXCEPT
                          !.readylist = GetItem(sched.readylist, pid)]
    BY DEF KillEnd
  <2> QED  BY <1>1, <2>1, <2>2, <2>3 DEF SchedType
<1>3. /\ cont' = [cont EXCEPT ![me] = User, ![pid] = User] /\ User.op = "user"
      /\ me \in Pid /\ cont[me].obj = pid
  BY DEF KillEnd, User, Cont, Killers
<1>4. Killers' = Killers \ {me, pid} /\ \A p \in Killers \ {me, pid} : cont'[p] = cont[p]
  <2>1. \A p \in Pid : cont'[p] = IF p \in {me, pid} THEN User ELSE cont[p]
    BY <1>1, <1>3
  <2> QED  BY <1>3, <2>1 DEF Killers
<1>5. pid \in Killers => pid = me
  BY <1>3 DEF KillsOK
<1>6. Killers' = Killers \ {me} /\ \A p \in Killers \ {me} : cont'[p] = cont[p] /\ p # pid
  BY <1>4, <1>5
<1>7. \A p \in Killers : p \in Pid /\ cont[p].obj \in Pid /\ (p # me => cont[p].obj # pid)
  BY <1>3 DEF KillsOK, Killers, IInv, ContInv, ContOK
<1>8. KillsOK'
  <2>1. ASSUME NEW p \in Killers'
        PROVE  sched'.prstate[p] # "FREE" /\ sched'.prstate[cont'[p].obj] # "FREE"
    BY <1>2, <1>6, <1>7, <2>1 DEF KillsOK, State
  <2>2. \A p, q \in Killers' : cont'[p].obj = cont'[q].obj => p = q
    BY <1>6 DEF KillsOK
  <2>3. \A p, q \in Killers' : cont'[p].obj = q => p = q
    BY <1>6 DEF KillsOK
  <2> QED  BY <2>1, <2>2, <2>3 DEF KillsOK, State
<1>9. /\ Victims = {cont[p].obj : p \in Killers} /\ IsFiniteSet(Live) /\ IsFiniteSet(Victims)
      /\ Victims \subseteq Live
  BY VictimsAre
<1>10. Live' = Live \ {pid} /\ pid \in Live
  <2>1. State(pid) # "FREE"
    BY <1>3 DEF KillsOK
  <2> QED  BY <1>2, <2>1 DEF Live, InState
<1>11. {k \in Live' : cont'[k].op = "kill"} = Killers'
  <2>1. \A k \in Pid : k \in Live' <=> State(k)' # "FREE"
    BY DEF Live, InState
  <2>2. \A k \in Killers' : k \in Pid /\ k \in Live'
    BY <1>6, <1>7, <1>8, <2>1 DEF KillsOK
  <2>3. \A k \in Live' : k \in Pid
    BY DEF Live
  <2> QED  BY <2>2, <2>3 DEF Killers
<1>12. Victims' = {cont'[p].obj : p \in Killers'}
  BY <1>11 DEF Victims
<1>13. Victims' = Victims \ {pid} /\ pid \in Victims
  <2>1. pid \in Victims
    BY <1>3, <1>9
  <2>3. Victims' = {cont[p].obj : p \in Killers \ {me}}
    BY <1>6, <1>12
  <2>4. ASSUME NEW v \in Victims, v # pid  PROVE v \in Victims'
    <3>1. PICK p \in Killers : cont[p].obj = v
      BY <1>9, <2>4
    <3>2. p \in Killers \ {me}
      BY <1>3, <2>4, <3>1
    <3> QED  BY <2>3, <3>1, <3>2
  <2>5. ASSUME NEW v \in Victims'  PROVE v \in Victims /\ v # pid
    <3>1. PICK p \in Killers \ {me} : cont[p].obj = v
      BY <2>3, <2>5
    <3> QED  BY <1>7, <1>9, <3>1
  <2> QED  BY <2>1, <2>4, <2>5
<1>14. Cardinality(Victims') = Cardinality(Victims) - 1 /\ Cardinality(Victims) \in Nat
  BY <1>9, <1>13, FS_RemoveElement, FS_CardinalityType
<1>15. Cardinality(Live') = Cardinality(Live) - 1 /\ Cardinality(Live) \in Nat
  BY <1>9, <1>10, FS_RemoveElement, FS_CardinalityType
<1>16. prcount = Cardinality(Live) - Cardinality(Victims) /\ prcount' = prcount
  BY <1>1 DEF Counted
<1>17. prcount' = Cardinality(Live') - Cardinality(Victims')
  BY <1>14, <1>15, <1>16
<1> QED  BY <1>8, <1>17 DEF Counted

\* As long as kills keep apart, prcount is the number of live processes, less the
\* victims that the kills in progress have still to free, whatever is
\* preempted, suspended or waited for in the middle of them.
THEOREM KernelCountsLive == Spec /\ KillsApart => []PrcountIsLive
<1> DEFINE Apart == \A pid \in Pid : Kill(pid) =>
                        pid \notin Victims /\ Cur \notin Victims /\ cont[pid].op # "kill"
           Inv == IInv /\ KillsOK /\ (At("xdone") \/ Counted)
<1>1. Init => Inv
  <2> SUFFICES ASSUME Init  PROVE KillsOK /\ Counted
    BY InitInv
  <2>1. Killers = {}
    BY DEF Init, Killers, User, Cont
  <2>2. Live = 0 .. 1
    BY NPROCAssumption DEF Init, Live, InState, State, Pid
  <2>3. KillsOK
    BY <2>1 DEF KillsOK
  <2>4. Victims = {}
    BY <2>1, <2>3, InitInv, VictimsAre
  <2>5. Cardinality(0 .. 1) = 2 /\ Cardinality({}) = 0
    <3> PICK a \in Int, b \in Int : a = 0 /\ b = 1
      OBVIOUS
    <3>1. Cardinality(a .. b) = IF a > b THEN 0 ELSE b - a + 1
      BY FS_Interval
    <3> QED  BY <3>1, FS_EmptySet
  <2> QED  BY <2>2, <2>3, <2>4, <2>5 DEF Init, Counted
<1>2. Inv /\ [Next]_vars /\ [Apart]_vars => Inv'
  <2> SUFFICES ASSUME Inv, [Next]_vars, [Apart]_vars  PROVE (KillsOK /\ (At("xdone") \/ Counted))'
    BY NextInv
  <2>1. IInv'
    BY NextInv
  <2>2. CASE UNCHANGED vars
    <3>1. UNCHANGED <<sched, cont, prcount>>
      BY <2>2 DEF vars, procvars
    <3> QED  BY <3>1 DEF KillsOK, Counted, Killers, Live, Victims, InState, State, At, Cur
  <2>3. CASE Next /\ Apart
    <3>1. ~At("xdone")
      BY <2>3 DEF Next, Syscall, Kernel, Clkhandler, ReceiveEnd, RecvtimeEnd, KillEnd, SignalnLoop,
             SemdeleteLoop, SemresetLoop, Wakeup, ClkhandlerEnd, Create, Resume, Suspend, Send, Kill,
             Chprio, Yield, Receive, Recvclr, Recvtime, Sleepms, Wait, Signal, Semdelete, Signaln,
             Semreset, Semcreate, Sys, At
    <3>2. Counted
      BY <3>1
    <3>3. CASE SameLive /\ SameKills /\ UNCHANGED prcount
      BY <2>1, <3>2, <3>3, SameCounted
    <3>4. CASE \E pid \in Pid : Kill(pid)
      BY <2>1, <2>3, <3>2, <3>4, KillCounted
    <3>5. CASE Syscall
      BY <3>2, <3>3, <3>4, <3>5, CallLive, KernelLive, CreateCounted DEF Syscall
    <3>6. CASE Kernel
      BY <3>2, <3>3, <3>6, KernelLive, ClockLive, KillEndCounted DEF Kernel
    <3>7. CASE Clkhandler
      BY <3>3, <3>7, ClockLive
    <3> QED  BY <2>3, <3>5, <3>6, <3>7 DEF Next
  <2> QED  BY <2>2, <2>3
<1>3. Inv => PrcountIsLive
  <2> SUFFICES ASSUME Inv, At("user")  PROVE prcount = Cardinality(Live) - Cardinality(Victims \cap Live)
    BY DEF PrcountIsLive
  <2>1. Counted
    BY DEF At
  <2>2. Victims \cap Live = Victims
    BY VictimsAre
  <2> QED  BY <2>1, <2>2 DEF Counted
<1> QED  BY <1>1, <1>2, <1>3, PTL DEF Spec, KillsApart
=============================================================================
