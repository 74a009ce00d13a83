------------------------------ MODULE Workers -------------------------------
(***************************************************************************)
(* Starting and stopping workers on lcores, the registry of threads, and   *)
(* the ring that rib_manager creates when it starts.                       *)
(*                                                                         *)
(* The lthread core runs all lthreads in turn on one operating system      *)
(* thread: a shell command runs without yielding, and stop_lcore blocks    *)
(* the whole core in rte_eal_wait_lcore.  todo is what the current command *)
(* has left to do; while it is not empty nothing else runs on that core.   *)
(*                                                                         *)
(* rib_manager runs as an lthread or on an lcore.  What matters here of    *)
(* its work are the grace periods: each waits until every registered       *)
(* reader, the lthread core included, has been quiescent once.             *)
(***************************************************************************)
EXTENDS Integers, Sequences, FiniteSets, SequencesExt

CONSTANTS
  Lcore,         \* 0 .. nb_lcores-1
  Main,          \* lthread_core
  Func,          \* what can be launched on an lcore
  Vty,           \* vty clients
  Site,          \* bounds: [lcore, func, vty, lthread], the lcores, functions
                 \* and clients an operator uses, and whether rib_manager is
                 \* started as an lthread
  ThreadLimit,   \* THREAD_INFO_LIMIT, less the static lthreads
  MayStopMain    \* the operator may name the lthread core in a stop command

ASSUME LcoreAssumption ==
  Main \in Lcore /\ Lcore \subseteq Nat /\ IsFiniteSet(Lcore)
ASSUME ThreadLimitAssumption == ThreadLimit \in Nat
ASSUME FuncAssumption ==
  Func \subseteq {"router", "l2_repeater", "rib_manager", "netlink_thread"}
ASSUME SiteAssumption ==
  Site \subseteq [lcore : SUBSET Lcore, func : SUBSET Func, vty : SUBSET Vty,
                 lthread : BOOLEAN]

VARIABLES
  site,
  worker,       \* lcore_workers[].func
  running,      \* what each lcore executes
  inLoop,       \* lcores whose worker has entered its loop
  force_stop,
  force_quit,
  threads,      \* the registry
  counter,      \* thread_counters[].loop_counter_ptr: whose counter
  vty,          \* the thread_id of each connected client
  todo,         \* the operations left of the command on the lthread core
  manager,      \* the lthread rib_manager runs
  sync,         \* the lcore whose rib_manager is in a grace period, or Nowhere
  pending,      \* readers it waits for
  queue,        \* msg_queue_rib: "null", "live" or "freed"
  ring          \* a ring of that name exists

vars == <<site, worker, running, inLoop, force_stop, force_quit, threads, counter, vty,
          todo, manager, sync, pending, queue, ring>>
lcoreVars == <<worker, running, inLoop, force_stop>>
registryVars == <<threads, counter, vty>>
rcuVars == <<manager, sync, pending>>
queueVars == <<queue, ring>>

Nowhere == -1
NoFunc == "none"
FreeThread == [func |-> NoFunc, lcore |-> Nowhere]
Op(op, l, after) == [op |-> op, lcore |-> l, after |-> after]

Init ==
  /\ site \in Site
  /\ worker = [l \in Lcore |-> IF l = Main THEN "lthread_main" ELSE NoFunc]
  /\ running = worker
  /\ inLoop = {Main}
  /\ force_stop = [l \in Lcore |-> FALSE]
  /\ force_quit = FALSE
  /\ threads = <<>>
  /\ counter = [i \in 1 .. ThreadLimit |-> FreeThread]
  /\ vty = [c \in Vty |-> 0]
  /\ todo = <<>>
  /\ manager = FALSE
  /\ sync = Nowhere
  /\ pending = {}
  /\ queue = "null"
  /\ ring = FALSE

-----------------------------------------------------------------------------
(* The registry of threads.                                                *)

\* Mutant: thread_lookup, which takes an entry of any lcore.
ThreadLookupAny(f, l) ==
  LET hits == {i \in DOMAIN threads : threads[i].func = f}
  IN  IF hits = {} THEN 0 ELSE CHOOSE i \in hits : \A j \in hits : j <= i

\* thread_lookup_by_lcore: the last entry, or 0.
ThreadLookup(f, l) ==
  LET hits == {i \in DOMAIN threads : threads[i] = [func |-> f, lcore |-> l]}
  IN  IF hits = {} THEN 0 ELSE CHOOSE i \in hits : \A j \in hits : j <= i

\* thread_register: a free entry, or a new one; 0 if the table is full.
ThreadSlot ==
  LET free == {i \in DOMAIN threads : threads[i].func = NoFunc}
  IN  IF free # {} THEN CHOOSE i \in free : \A j \in free : i <= j
      ELSE IF Len(threads) < ThreadLimit THEN Len(threads) + 1
      ELSE 0

ThreadRegister(f, l) ==
  LET t == [func |-> f, lcore |-> l]
  IN  IF ThreadSlot = 0 THEN threads
      ELSE IF ThreadSlot > Len(threads) THEN Append(threads, t)
      ELSE [threads EXCEPT ![ThreadSlot] = t]

\* thread_register_loop_counter
Counted(i, t) == IF i = 0 THEN counter ELSE [counter EXCEPT ![i] = t]

-----------------------------------------------------------------------------
(* Commands, on the lthread core.                                          *)

\* A shell can run a command.
Idle == todo = <<>> /\ sync # Main /\ ~force_quit /\ ~force_stop[Main]

\* What start_stop_worker does to one lcore: a restart stops and starts it.
Ops(command, l) ==
  CASE command = "start" -> <<Op("start", l, FALSE)>>
    [] command = "stop" -> <<Op("stop", l, FALSE)>>
    [] command = "restart" -> <<Op("stop", l, FALSE), Op("start", l, TRUE)>>

\* set worker lcore <l> <f>, with set, or start, reset and restart
SetWorker(l, f, restart) ==
  /\ Idle
  /\ worker[l] # "lthread_main"
  /\ worker' = [worker EXCEPT ![l] = f]
  /\ todo' = IF restart THEN Ops("restart", l) ELSE <<>>
  /\ UNCHANGED <<running, inLoop, force_stop, force_quit, registryVars, rcuVars, queueVars>>

\* (start|stop|restart) worker lcore <l>
StartStopWorker(command, l) ==
  /\ Idle
  /\ todo' = Ops(command, l)
  /\ UNCHANGED <<lcoreVars, force_quit, registryVars, rcuVars, queueVars>>

\* (start|stop|restart) worker lcore all
StartStopAll(command) ==
  /\ Idle
  /\ force_quit' = (command = "stop")
  /\ todo' = FlattenSeq([i \in 1 .. Cardinality(Lcore) |-> Ops(command, i - 1)])
  /\ UNCHANGED <<lcoreVars, registryVars, rcuVars, queueVars>>

\* stop_lcore, up to rte_eal_wait_lcore
StopLcore(l) ==
  /\ todo # <<>> /\ Head(todo).op = "stop" /\ Head(todo).lcore = l
  /\ force_stop' = [force_stop EXCEPT ![l] = TRUE]
  /\ todo' = IF l = Main THEN Tail(todo)
             ELSE <<[Head(todo) EXCEPT !.op = "wait"]>> \o Tail(todo)
  /\ UNCHANGED <<worker, running, inLoop, force_quit, registryVars, rcuVars, queueVars>>

\* Mutant: stop_lcore returns without waiting.
WaitLcoreNot(l) ==
  /\ todo # <<>> /\ Head(todo).op = "wait" /\ Head(todo).lcore = l
  /\ todo' = Tail(todo)
  /\ UNCHANGED <<lcoreVars, force_quit, registryVars, rcuVars, queueVars>>

WaitLcore(l) ==
  /\ todo # <<>> /\ Head(todo).op = "wait" /\ Head(todo).lcore = l
  /\ running[l] = NoFunc
  /\ todo' = Tail(todo)
  /\ UNCHANGED <<lcoreVars, force_quit, registryVars, rcuVars, queueVars>>

\* start_lcore.  rte_eal_remote_launch fails on an lcore that is busy, which
\* is not noticed.
StartLcore(l) ==
  LET launch == worker[l] # NoFunc /\ l # Main
  IN  /\ todo # <<>> /\ Head(todo).op = "start" /\ Head(todo).lcore = l
      /\ todo' = Tail(todo)
      /\ force_stop' = [force_stop EXCEPT ![l] = @ /\ worker[l] = NoFunc]
      /\ threads' = IF launch /\ ThreadLookup(worker[l], l) = 0
                    THEN ThreadRegister(worker[l], l) ELSE threads
      /\ running' = IF launch /\ running[l] = NoFunc
                    THEN [running EXCEPT ![l] = worker[l]] ELSE running
      /\ UNCHANGED <<worker, inLoop, force_quit, counter, vty, rcuVars, queueVars>>

\* rib_manager creates its ring; a second one of the same name cannot be made,
\* and the pointer is assigned nevertheless.
CreateRing ==
  /\ queue' = IF ring THEN "null" ELSE "live"
  /\ ring' = TRUE

\* rte_ring_free at the end of rib_manager
FreeRing ==
  /\ queue' = IF queue = "live" THEN "freed" ELSE queue
  /\ ring' = (ring /\ queue # "live")

\* set worker lthread rib-manager: the lthread is registered, once more at
\* every command and for good, and finds its entry if it gets its ring.
StartManager ==
  LET t == [func |-> "rib_manager", lcore |-> Main]
  IN  /\ Idle /\ site.lthread
      /\ CreateRing
      /\ manager' = (manager \/ ~ring)
      /\ threads' = ThreadRegister(t.func, t.lcore)
      /\ counter' = IF ring THEN counter ELSE Counted(ThreadLookup(t.func, t.lcore)', t)
      /\ UNCHANGED <<lcoreVars, force_quit, vty, todo, sync, pending>>

\* vty_shell starts and ends.
VtyConnect(c) ==
  /\ Idle /\ vty[c] = 0 /\ ThreadSlot # 0
  /\ vty' = [vty EXCEPT ![c] = ThreadSlot]
  /\ threads' = ThreadRegister("vty_shell", Main)
  /\ counter' = Counted(ThreadSlot, [func |-> "vty_shell", lcore |-> Main])
  /\ UNCHANGED <<lcoreVars, force_quit, todo, rcuVars, queueVars>>

VtyExit(c) ==
  /\ todo = <<>> /\ sync # Main /\ vty[c] # 0
  /\ vty' = [vty EXCEPT ![c] = 0]
  /\ threads' = [threads EXCEPT ![vty[c]] = FreeThread]
  /\ counter' = Counted(vty[c], FreeThread)
  /\ UNCHANGED <<lcoreVars, force_quit, todo, rcuVars, queueVars>>

\* SIGTERM
Sigterm ==
  /\ force_quit' = TRUE
  /\ UNCHANGED <<lcoreVars, registryVars, todo, rcuVars, queueVars>>

-----------------------------------------------------------------------------
(* Workers, each on its lcore.                                             *)

\* Mutant: rib_manager goes on without a ring of its own.
WorkerEnterAnyway(l) ==
  LET f == running[l]
  IN  /\ f # NoFunc /\ l \notin inLoop
      /\ IF f = "rib_manager" THEN CreateRing ELSE UNCHANGED queueVars
      /\ inLoop' = inLoop \cup {l}
      /\ counter' = Counted(ThreadLookup(f, l), [func |-> f, lcore |-> l])
      /\ UNCHANGED <<worker, running, force_stop, force_quit, threads, vty, todo, rcuVars>>

\* The start of a worker: it finds its entry of the registry.
WorkerEnter(l) ==
  LET f == running[l]
  IN  /\ f # NoFunc /\ l \notin inLoop
      /\ IF f = "rib_manager" THEN CreateRing ELSE UNCHANGED queueVars
      /\ IF f = "rib_manager" /\ ring
         THEN /\ running' = [running EXCEPT ![l] = NoFunc]
              /\ UNCHANGED <<inLoop, counter>>
         ELSE /\ inLoop' = inLoop \cup {l}
              /\ counter' = Counted(ThreadLookup(f, l), [func |-> f, lcore |-> l])
              /\ UNCHANGED running
      /\ UNCHANGED <<worker, force_stop, force_quit, threads, vty, todo, rcuVars>>

\* Mutant: every loop looks at the lthread core's flag.
StopFlagMain(l) == force_stop[Main]

\* The flag a worker's loop tests; netlink_thread looks at the lthread core's.
StopFlag(l) == force_stop[IF running[l] = "netlink_thread" THEN Main ELSE l]

WorkerExit(l) ==
  /\ l \in inLoop \ {Main} /\ sync # l
  /\ force_quit \/ StopFlag(l)
  /\ running' = [running EXCEPT ![l] = NoFunc]
  /\ inLoop' = inLoop \ {l}
  /\ pending' = pending \ {l}
  /\ IF running[l] = "rib_manager" THEN FreeRing ELSE UNCHANGED queueVars
  /\ UNCHANGED <<worker, force_stop, force_quit, registryVars, todo, manager, sync>>

\* urcu_qsbr_quiescent_state at the end of a loop
Quiescent(l) ==
  /\ l \in pending
  /\ l = Main => todo = <<>>
  /\ pending' = pending \ {l}
  /\ UNCHANGED <<lcoreVars, force_quit, registryVars, todo, manager, sync, queueVars>>

\* rib_manager is not registered as a reader.
Readers == {Main} \cup {l \in inLoop : running[l] # "rib_manager"}

\* rib_replace, on lcore l.  On the lthread core the thread is a registered
\* reader, which synchronize_rcu takes offline.
SyncStart(l) ==
  /\ sync = Nowhere
  /\ IF l = Main THEN manager /\ todo = <<>>
                 ELSE l \in inLoop /\ running[l] = "rib_manager"
  /\ sync' = l
  /\ pending' = Readers \ {l}
  /\ UNCHANGED <<lcoreVars, force_quit, registryVars, todo, manager, queueVars>>

SyncEnd ==
  /\ sync # Nowhere /\ pending = {}
  /\ sync' = Nowhere
  /\ UNCHANGED <<lcoreVars, force_quit, registryVars, todo, manager, pending, queueVars>>

ManagerExit ==
  /\ manager /\ todo = <<>> /\ sync # Main
  /\ force_quit \/ force_stop[Main]
  /\ manager' = FALSE
  /\ FreeRing
  /\ UNCHANGED <<lcoreVars, force_quit, registryVars, todo, sync, pending>>

Stoppable == IF MayStopMain THEN site.lcore \cup {Main} ELSE site.lcore

Command ==
  \/ \E l \in site.lcore, f \in site.func \cup {NoFunc}, restart \in BOOLEAN :
       SetWorker(l, f, restart)
  \/ \E l \in site.lcore \cup {Main}, command \in {"start", "restart"} : StartStopWorker(command, l)
  \/ \E l \in Stoppable : StartStopWorker("stop", l)
  \/ \E command \in {"start", "stop", "restart"} : StartStopAll(command)
  \/ StartManager
  \/ \E c \in site.vty : VtyConnect(c)

Operation == \E l \in Lcore : StopLcore(l) \/ WaitLcore(l) \/ StartLcore(l)
Worker(l) == WorkerEnter(l) \/ WorkerExit(l) \/ Quiescent(l)

Next ==
  /\ \/ Command
     \/ Operation
     \/ \E c \in Vty : VtyExit(c)
     \/ Sigterm
     \/ \E l \in Lcore : Worker(l) \/ SyncStart(l)
     \/ SyncEnd
     \/ ManagerExit
  /\ UNCHANGED site

\* Every lcore keeps executing its loop, and so do the lthread core, unless it
\* is blocked, and rib_manager at the end of a grace period.  Nobody has to
\* give commands.
Spec ==
  /\ Init /\ [][Next]_vars
  /\ WF_vars(Operation /\ UNCHANGED site)
  /\ \A l \in Lcore :
       /\ WF_vars(WorkerEnter(l) /\ UNCHANGED site)
       /\ WF_vars(WorkerExit(l) /\ UNCHANGED site)
       /\ WF_vars(Quiescent(l) /\ UNCHANGED site)
  /\ WF_vars(SyncEnd /\ UNCHANGED site)

-----------------------------------------------------------------------------
(* Properties.                                                             *)

TypeOK ==
  /\ worker \in [Lcore -> Func \cup {NoFunc, "lthread_main"}]
  /\ running \in [Lcore -> Func \cup {NoFunc, "lthread_main"}]
  /\ inLoop \subseteq Lcore /\ \A l \in inLoop : running[l] # NoFunc
  /\ force_stop \in [Lcore -> BOOLEAN] /\ force_quit \in BOOLEAN
  /\ Len(threads) <= ThreadLimit
  /\ DOMAIN counter = 1 .. ThreadLimit
  /\ \A c \in Vty : vty[c] = 0 \/ threads[vty[c]].func = "vty_shell"
  /\ manager \in BOOLEAN
  /\ sync \in Lcore \cup {Nowhere}
  /\ pending \subseteq Readers

\* The statistics show each worker's own counter: a worker in its loop has an
\* entry with its function and lcore that points to its counter, as long as
\* the registry has not been full, however workers and vty shells come and go;
\* and a vty shell's entry is never another thread's.
CounterShown ==
  /\ TypeOK
  /\ Len(threads) < ThreadLimit =>
       \A l \in inLoop \ {Main} :
         LET t == [func |-> running[l], lcore |-> l]
         IN  ThreadLookup(running[l], l) # 0 /\ counter[ThreadLookup(running[l], l)] = t

\* A restart replaces the worker: when its start is done, the lcore executes
\* the function that was set.
RestartRuns ==
  [][\A l \in Lcore \ {Main} :
       (StartLcore(l) /\ Head(todo).after) => running'[l] = worker[l]]_vars

\* At most one rib_manager writes: the ring's name makes a second one fail.
OneManager ==
  Cardinality({l \in inLoop : running[l] = "rib_manager"}) + (IF manager THEN 1 ELSE 0) <= 1

\* The two ways in which stop_lcore waits for ever: for netlink_thread, which
\* looks at another lcore's flag, and for a rib_manager whose grace period
\* waits for the lthread core that waits here.
Stuck ==
  /\ Head(todo).op = "wait"
  /\ LET l == Head(todo).lcore
     IN  running[l] = "netlink_thread" \/ (sync = l /\ Main \in pending)

\* Every command comes to its end ("stopped worker on lcore"), whatever grace
\* periods, stops and restarts it meets, but for these two.
CommandEnds == todo # <<>> ~> (todo = <<>> \/ Stuck)

-----------------------------------------------------------------------------
(* The inductive invariant behind the safety properties.                   *)

Thread == [func : Func \cup {NoFunc, "vty_shell", "rib_manager"},
           lcore : Lcore \cup {Nowhere}]
Operations == [op : {"start", "stop", "wait"}, lcore : Nat, after : BOOLEAN]

\* The lthread core runs nothing else, and nothing else runs the lthreads.
Types ==
  /\ TypeOK
  /\ site \in Site
  /\ \A l \in Lcore : /\ worker[l] = "lthread_main" <=> l = Main
                      /\ running[l] = "lthread_main" <=> l = Main
  /\ Main \in inLoop
  /\ threads \in Seq(Thread)
  /\ counter \in [1 .. ThreadLimit -> Thread]
  /\ todo \in Seq(Operations)
  /\ ring \in BOOLEAN

\* Each vty shell has an entry of its own.
VtyEntries ==
  /\ vty \in [Vty -> Nat]
  /\ \A c \in Vty : vty[c] # 0 =>
       vty[c] \in DOMAIN threads /\ threads[vty[c]].func = "vty_shell"
  /\ \A c, d \in Vty : vty[c] = vty[d] /\ vty[c] # 0 => c = d

\* A worker's function and lcore have one entry, from its launch on, and the
\* entry shows its counter while it is in its loop.
Entries ==
  /\ \A i, j \in DOMAIN threads :
       /\ threads[i] = threads[j]
       /\ threads[i].func \in Func /\ threads[i].lcore # Main
       => i = j
  /\ Len(threads) < ThreadLimit =>
       /\ \A l \in Lcore \ {Main} : running[l] # NoFunc =>
            \E i \in DOMAIN threads :
              threads[i] = [func |-> running[l], lcore |-> l]
       /\ \A l \in inLoop \ {Main} : \A i \in DOMAIN threads :
            threads[i] = [func |-> running[l], lcore |-> l] =>
              counter[i] = threads[i]

\* The start of a restart follows the stop of the same lcore.
Paired(ops) ==
  \A i \in 1 .. Len(ops) : ops[i].after =>
    /\ ops[i].op = "start"
    /\ i # 1 => /\ ops[i - 1].op \in {"stop", "wait"}
                /\ ops[i - 1].lcore = ops[i].lcore

Restarts ==
  /\ Paired(todo)
  /\ todo # <<>> /\ Head(todo).after =>
       \A l \in Lcore \ {Main} : l = Head(todo).lcore => running[l] = NoFunc

\* A rib_manager has made the ring, and only one can have.
Managing(l) == l \in inLoop /\ running[l] = "rib_manager"

Managers ==
  /\ \A l, k \in Lcore : Managing(l) /\ Managing(k) => l = k
  /\ \A l \in Lcore : Managing(l) => ~manager /\ ring
  /\ manager => ring

WorkersInv == Types /\ VtyEntries /\ Entries /\ Restarts /\ Managers
=============================================================================
