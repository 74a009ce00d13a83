--------------------------- MODULE Workers_proofs ---------------------------
(***************************************************************************)
(* Proofs about Workers: WorkersInv is inductive, so at most one           *)
(* rib_manager writes, every worker's counter is shown and a restart runs  *)
(* the function that was set, for any number of lcores and vty clients and *)
(* any size of the registry.                                               *)
(***************************************************************************)
EXTENDS Workers, Induction_proofs, FiniteSetTheorems, SequenceTheorems

-----------------------------------------------------------------------------
(* Facts about the operators.                                              *)

LEMMA Functions ==
  /\ NoFunc \notin Func /\ "lthread_main" \notin Func
  /\ "vty_shell" \notin Func /\ NoFunc # "vty_shell"
  /\ NoFunc # "lthread_main" /\ NoFunc # "rib_manager"
  /\ FreeThread \in Thread
BY FuncAssumption DEF NoFunc, FreeThread, Thread

\* thread_register takes a free entry, or appends one while there is room.
LEMMA SlotFacts ==
  ASSUME Types
  PROVE  /\ ThreadSlot \in 0 .. ThreadLimit
         /\ ThreadSlot = 0 => Len(threads) = ThreadLimit
         /\ ThreadSlot # 0 => ThreadSlot \in 1 .. (Len(threads) + 1)
         /\ ThreadSlot \in DOMAIN threads => threads[ThreadSlot].func = NoFunc
<1> DEFINE free == {i \in DOMAIN threads : threads[i].func = NoFunc}
<1>1. /\ threads \in Seq(Thread) /\ Len(threads) \in Nat
      /\ DOMAIN threads = 1 .. Len(threads)
      /\ Len(threads) <= ThreadLimit /\ ThreadLimit \in Nat
  BY ThreadLimitAssumption DEF Types, TypeOK
<1>2. CASE free # {}
  <2>1. free \in SUBSET Nat
    BY <1>1
  <2>2. \E i \in free : \A j \in free : i <= j
    BY <1>2, <2>1, LeastNat
  <2>3. ThreadSlot = CHOOSE i \in free : \A j \in free : i <= j
    BY <1>2 DEF ThreadSlot
  <2> HIDE DEF free
  <2>4. ThreadSlot \in free
    BY <2>2, <2>3, Zenon
  <2>5. ThreadSlot \in 1 .. Len(threads) /\ threads[ThreadSlot].func = NoFunc
    BY <1>1, <2>4 DEF free
  <2>6. ThreadSlot \in Nat /\ 1 <= ThreadSlot /\ ThreadSlot <= Len(threads)
    BY <1>1, <2>5
  <2>7. ThreadSlot \in 0 .. ThreadLimit
    BY <1>1, <2>6
  <2>8. ThreadSlot \in 1 .. (Len(threads) + 1)
    BY <1>1, <2>6
  <2> QED
    BY <2>5, <2>6, <2>7, <2>8
<1>3. CASE free = {}
  <2>1. ThreadSlot = IF Len(threads) < ThreadLimit THEN Len(threads) + 1 ELSE 0
    BY <1>3 DEF ThreadSlot
  <2>2. CASE Len(threads) < ThreadLimit
    <3>1. ThreadSlot = Len(threads) + 1
      BY <2>1, <2>2
    <3>2. ThreadSlot \in Nat /\ ThreadSlot # 0 /\ ThreadSlot <= ThreadLimit
      BY <1>1, <2>2, <3>1
    <3>3. ThreadSlot \notin DOMAIN threads
      BY <1>1, <3>1
    <3>4. ThreadSlot \in 1 .. (Len(threads) + 1)
      BY <1>1, <3>1
    <3>5. ThreadSlot \in 0 .. ThreadLimit
      BY <1>1, <3>2
    <3> QED
      BY <3>2, <3>3, <3>4, <3>5
  <2>3. CASE ~(Len(threads) < ThreadLimit)
    <3>1. ThreadSlot = 0
      BY <2>1, <2>3
    <3>2. Len(threads) = ThreadLimit
      <4>1. Len(threads) \in Nat /\ ThreadLimit \in Nat
        BY <1>1
      <4>2. Len(threads) <= ThreadLimit
        BY <1>1
      <4> QED
        BY <4>1, <4>2, <2>3
    <3>3. ThreadSlot \notin DOMAIN threads
      BY <1>1, <3>1
    <3>4. ThreadSlot \in 0 .. ThreadLimit
      BY <1>1, <3>1
    <3> QED
      BY <3>1, <3>2, <3>3, <3>4
  <2> QED
    BY <2>2, <2>3
<1> QED
  BY <1>2, <1>3

LEMMA RegisterFacts ==
  ASSUME Types, NEW f \in Func \cup {"vty_shell", "rib_manager"}, NEW l \in Lcore
  PROVE  /\ ThreadRegister(f, l) \in Seq(Thread)
         /\ Len(ThreadRegister(f, l)) <= ThreadLimit
         /\ Len(threads) <= Len(ThreadRegister(f, l))
         /\ ThreadSlot = 0 => ThreadRegister(f, l) = threads
         /\ ThreadSlot # 0 =>
              /\ ThreadRegister(f, l)[ThreadSlot] = [func |-> f, lcore |-> l]
              /\ DOMAIN ThreadRegister(f, l) = DOMAIN threads \cup {ThreadSlot}
              /\ \A i \in DOMAIN threads \ {ThreadSlot} :
                   ThreadRegister(f, l)[i] = threads[i]
<1> DEFINE t == [func |-> f, lcore |-> l]
           new == ThreadRegister(f, l)
<1>1. t \in Thread
  BY DEF Thread
<1>2. /\ threads \in Seq(Thread) /\ Len(threads) \in Nat
      /\ DOMAIN threads = 1 .. Len(threads)
      /\ Len(threads) <= ThreadLimit /\ ThreadLimit \in Nat
  BY ThreadLimitAssumption DEF Types, TypeOK
<1>3. new = IF ThreadSlot = 0 THEN threads
            ELSE IF ThreadSlot > Len(threads) THEN Append(threads, t)
            ELSE [threads EXCEPT ![ThreadSlot] = t]
  BY DEF ThreadRegister
<1> SUFFICES /\ new \in Seq(Thread) /\ Len(new) <= ThreadLimit
             /\ Len(threads) <= Len(new)
             /\ ThreadSlot = 0 => new = threads
             /\ ThreadSlot # 0 =>
                  /\ new[ThreadSlot] = t
                  /\ DOMAIN new = DOMAIN threads \cup {ThreadSlot}
                  /\ \A i \in DOMAIN threads \ {ThreadSlot} :
                       new[i] = threads[i]
  OBVIOUS
<1> HIDE DEF t, new
<1>4. CASE ThreadSlot = 0
  BY <1>2, <1>3, <1>4
<1>5. CASE ThreadSlot # 0 /\ ThreadSlot > Len(threads)
  <2>1. ThreadSlot = Len(threads) + 1 /\ Len(threads) + 1 <= ThreadLimit
    <3>1. Len(threads) \in Nat /\ ThreadLimit \in Nat
      BY <1>2
    <3>2. /\ ThreadSlot \in 1 .. (Len(threads) + 1)
          /\ ThreadSlot \in 0 .. ThreadLimit
      BY <1>5, SlotFacts
    <3> QED
      BY <1>5, <3>1, <3>2
  <2>2. new = Append(threads, t)
    BY <1>3, <1>5
  <2>3. /\ new \in Seq(Thread) /\ Len(new) = Len(threads) + 1
        /\ new[Len(threads) + 1] = t
        /\ \A i \in 1 .. Len(threads) : new[i] = threads[i]
    BY <1>1, <1>2, <2>2
  <2>4. DOMAIN new = 1 .. (Len(threads) + 1)
    BY <2>3
  <2> QED
    BY <1>2, <1>5, <2>1, <2>3, <2>4 DEF t
<1>6. CASE ThreadSlot # 0 /\ ~(ThreadSlot > Len(threads))
  <2>1. ThreadSlot \in DOMAIN threads
    <3>1. Len(threads) \in Nat
      BY <1>2
    <3>2. ThreadSlot \in 1 .. (Len(threads) + 1)
      BY <1>6, SlotFacts
    <3>3. ThreadSlot \in 1 .. Len(threads)
      BY <1>6, <3>1, <3>2
    <3> QED
      BY <1>2, <3>3
  <2>2. new = [threads EXCEPT ![ThreadSlot] = t]
    BY <1>3, <1>6
  <2>3. new \in Seq(Thread) /\ Len(new) = Len(threads)
    BY <1>1, <1>2, <2>1, <2>2
  <2>4. /\ new[ThreadSlot] = t /\ DOMAIN new = DOMAIN threads
        /\ \A i \in DOMAIN threads \ {ThreadSlot} : new[i] = threads[i]
    BY <1>2, <2>1, <2>2
  <2> QED
    BY <1>2, <1>6, <2>1, <2>3, <2>4 DEF t
<1> QED
  BY <1>4, <1>5, <1>6

\* thread_lookup_by_lcore finds the one entry, if there is one.
LEMMA LookupFacts ==
  ASSUME Types, Entries, NEW f \in Func, NEW l \in Lcore, l # Main
  PROVE  /\ ThreadLookup(f, l) \in {0} \cup DOMAIN threads
         /\ ThreadLookup(f, l) = 0 =>
              \A i \in DOMAIN threads : threads[i] # [func |-> f, lcore |-> l]
         /\ ThreadLookup(f, l) # 0 =>
              threads[ThreadLookup(f, l)] = [func |-> f, lcore |-> l]
<1> DEFINE t == [func |-> f, lcore |-> l]
           hits == {i \in DOMAIN threads : threads[i] = t}
<1>1. DOMAIN threads = 1 .. Len(threads) /\ Len(threads) \in Nat
  BY DEF Types
<1>2. CASE hits = {}
  BY <1>2 DEF ThreadLookup
<1>3. CASE hits # {}
  <2>1. PICK i \in hits : TRUE
    BY <1>3
  <2>2. \A j \in hits : j = i
    BY <2>1 DEF Entries
  <2>3. i \in Nat \ {0}
    BY <1>1, <2>1
  <2>4. \E k \in hits : \A j \in hits : j <= k
    BY <2>1, <2>2, <2>3
  <2>5. ThreadLookup(f, l) = CHOOSE k \in hits : \A j \in hits : j <= k
    BY <1>3 DEF ThreadLookup
  <2> HIDE DEF hits
  <2>6. ThreadLookup(f, l) \in hits
    BY <2>4, <2>5, Zenon
  <2> QED
    BY <1>1, <2>3, <2>6, <2>2 DEF hits
<1> QED
  BY <1>2, <1>3

-----------------------------------------------------------------------------
(* The operations of a command.                                            *)

\* What a command leaves to do: restarts in pairs, beginning with no start
\* that depends on a stop.
GoodOps == {s \in Seq(Operations) :
              s # <<>> /\ ~s[1].after /\ Paired(s)}

LEMMA OpsFacts ==
  ASSUME NEW command \in {"start", "stop", "restart"}, NEW l \in Nat
  PROVE  /\ Ops(command, l) \in GoodOps
         /\ \A s \in GoodOps : s \o Ops(command, l) \in GoodOps
<1>1. /\ Op("start", l, FALSE) \in Operations
      /\ Op("stop", l, FALSE) \in Operations
      /\ Op("start", l, TRUE) \in Operations
  BY DEF Op, Operations
<1>2. CASE command \in {"start", "stop"}
  <2>1. PICK o \in Operations : Ops(command, l) = <<o>> /\ ~o.after
    BY <1>1, <1>2 DEF Ops, Op
  <2>2. <<o>> \in Seq(Operations) /\ Len(<<o>>) = 1 /\ <<o>>[1] = o
        /\ <<o>> # <<>>
    OBVIOUS
  <2>3. <<o>> \in GoodOps
    BY <2>1, <2>2 DEF GoodOps, Paired
  <2>4. ASSUME NEW s \in GoodOps PROVE s \o <<o>> \in GoodOps
    <3>1. s \in Seq(Operations) /\ s # <<>> /\ ~s[1].after /\ Paired(s)
      BY <2>4 DEF GoodOps
    <3>2. Len(s) \in Nat \ {0}
      BY <3>1
    <3> DEFINE u == s \o <<o>>
    <3>3. /\ u \in Seq(Operations) /\ Len(u) = Len(s) + 1
          /\ u[Len(s) + 1] = o
          /\ \A i \in 1 .. Len(s) : u[i] = s[i]
      BY <2>2, <3>1, <3>2
    <3> HIDE DEF u
    <3>4. u # <<>> /\ ~u[1].after
      BY <3>1, <3>2, <3>3
    <3>5. Paired(u)
      <4> SUFFICES ASSUME NEW i \in 1 .. Len(u), u[i].after
                   PROVE  /\ u[i].op = "start"
                          /\ i # 1 => /\ u[i - 1].op \in {"stop", "wait"}
                                      /\ u[i - 1].lcore = u[i].lcore
        BY DEF Paired
      <4>1. i \in 1 .. Len(s)
        BY <2>1, <3>2, <3>3
      <4>2. i # 1 => i - 1 \in 1 .. Len(s)
        BY <3>2, <4>1
      <4> QED
        BY <3>1, <3>3, <4>1, <4>2 DEF Paired
    <3> QED
      BY <3>3, <3>4, <3>5 DEF GoodOps, u
  <2> QED
    BY <2>1, <2>3, <2>4
<1>3. CASE command = "restart"
  <2> DEFINE o == Op("stop", l, FALSE)
             p == Op("start", l, TRUE)
  <2>1. Ops(command, l) = <<o, p>>
    BY <1>3 DEF Ops
  <2>2. /\ o.op = "stop" /\ o.lcore = l /\ o.after = FALSE
        /\ p.op = "start" /\ p.lcore = l /\ p.after = TRUE
    BY DEF Op
  <2>3. o \in Operations /\ p \in Operations
    BY <1>1
  <2> HIDE DEF o, p
  <2>4. <<o, p>> \in Seq(Operations) /\ Len(<<o, p>>) = 2 /\ <<o, p>>[1] = o
        /\ <<o, p>>[2] = p /\ <<o, p>> # <<>>
    BY <2>3
  <2>5. <<o, p>> \in GoodOps
    BY <2>2, <2>4 DEF GoodOps, Paired
  <2>6. ASSUME NEW s \in GoodOps PROVE s \o <<o, p>> \in GoodOps
    <3>1. s \in Seq(Operations) /\ s # <<>> /\ ~s[1].after /\ Paired(s)
      BY <2>6 DEF GoodOps
    <3>2. Len(s) \in Nat \ {0}
      BY <3>1
    <3> DEFINE u == s \o <<o, p>>
    <3>3. /\ u \in Seq(Operations) /\ Len(u) = Len(s) + 2
          /\ u[Len(s) + 1] = o /\ u[Len(s) + 2] = p
          /\ \A i \in 1 .. Len(s) : u[i] = s[i]
      BY <2>3, <2>4, <3>1, <3>2
    <3> HIDE DEF u
    <3>4. u # <<>> /\ ~u[1].after
      BY <3>1, <3>2, <3>3
    <3>5. Paired(u)
      <4> SUFFICES ASSUME NEW i \in 1 .. Len(u), u[i].after
                   PROVE  /\ u[i].op = "start"
                          /\ i # 1 => /\ u[i - 1].op \in {"stop", "wait"}
                                      /\ u[i - 1].lcore = u[i].lcore
        BY DEF Paired
      <4>1. i \in 1 .. Len(s) \/ i = Len(s) + 2
        BY <2>2, <3>2, <3>3
      <4>2. CASE i = Len(s) + 2
        <5>1. i - 1 = Len(s) + 1
          BY <3>2, <4>2
        <5> QED
          BY <2>2, <3>3, <4>2, <5>1
      <4>3. CASE i \in 1 .. Len(s)
        <5>1. i # 1 => i - 1 \in 1 .. Len(s)
          BY <3>2, <4>3
        <5> QED
          BY <3>1, <3>3, <4>3, <5>1 DEF Paired
      <4> QED
        BY <4>1, <4>2, <4>3
    <3> QED
      BY <3>3, <3>4, <3>5 DEF GoodOps, u
  <2> QED
    BY <2>1, <2>5, <2>6
<1> QED
  BY <1>2, <1>3

LEMMA AllOps ==
  ASSUME NEW command \in {"start", "stop", "restart"}
  PROVE  FlattenSeq([i \in 1 .. Cardinality(Lcore) |-> Ops(command, i - 1)])
           \in GoodOps
<1> DEFINE n == Cardinality(Lcore)
           seqs == [i \in 1 .. n |-> Ops(command, i - 1)]
<1>1. n \in Nat \ {0}
  BY LcoreAssumption, FS_CardinalityType, FS_EmptySet
<1> HIDE DEF n
<1>2. \A i \in 1 .. n : i - 1 \in Nat
  BY <1>1
<1>3. \A i \in 1 .. n : seqs[i] \in GoodOps /\ seqs[i] = Ops(command, i - 1)
  BY <1>2, OpsFacts
<1>4. GoodOps \in SUBSET Seq(Operations)
  BY DEF GoodOps
<1>5. seqs \in [1 .. n -> Seq(Operations)]
  BY <1>3, <1>4
<1>6. seqs[1] \in GoodOps
  BY <1>1, <1>3
<1>7. \A s \in GoodOps : \A i \in 2 .. n : s \o seqs[i] \in GoodOps
  <2> SUFFICES ASSUME NEW s \in GoodOps, NEW i \in 2 .. n
               PROVE  s \o seqs[i] \in GoodOps
    OBVIOUS
  <2>1. i \in 1 .. n
    BY <1>1
  <2> QED
    BY <1>2, <1>3, <2>1, OpsFacts
<1> HIDE DEF seqs
<1>8. FlattenSeq(seqs) \in GoodOps
  BY <1>1, <1>4, <1>5, <1>6, <1>7, FlattenSeqGood
<1> QED
  BY <1>8 DEF seqs, n

-----------------------------------------------------------------------------
(* The initial state, and steps that disturb little.                       *)

LEMMA InitWorkersInv == Init => WorkersInv
<1> SUFFICES ASSUME Init PROVE WorkersInv
  OBVIOUS
<1> USE DEF Init
<1>1. TypeOK
  <2>1. Len(threads) <= ThreadLimit
    BY ThreadLimitAssumption
  <2>2. DOMAIN counter = 1 .. ThreadLimit
    OBVIOUS
  <2>3. running \in [Lcore -> Func \cup {NoFunc, "lthread_main"}]
    OBVIOUS
  <2>4. inLoop \subseteq Lcore /\ \A l \in inLoop : running[l] # NoFunc
    BY LcoreAssumption, Functions
  <2> QED
    BY <2>1, <2>2, <2>3, <2>4 DEF TypeOK
<1>2. Types
  <2>1. counter \in [1 .. ThreadLimit -> Thread]
    BY Functions
  <2>2. threads \in Seq(Thread) /\ todo \in Seq(Operations)
    OBVIOUS
  <2> QED
    BY <1>1, <2>1, <2>2, LcoreAssumption, Functions DEF Types
<1>3. VtyEntries
  BY DEF VtyEntries
<1>4. Entries
  <2>1. DOMAIN threads = {}
    OBVIOUS
  <2>2. \A l \in Lcore \ {Main} : running[l] = NoFunc
    OBVIOUS
  <2>3. inLoop \ {Main} = {}
    OBVIOUS
  <2> QED
    BY <2>1, <2>2, <2>3 DEF Entries
<1>5. Restarts
  BY DEF Restarts, Paired
<1>6. Managers
  BY Functions DEF Managers, Managing
<1> QED
  BY <1>2, <1>3, <1>4, <1>5, <1>6 DEF WorkersInv

LEMMA RegistryFrame ==
  ASSUME WorkersInv, UNCHANGED <<running, inLoop, registryVars>>
  PROVE  VtyEntries' /\ Entries'
BY DEF WorkersInv, VtyEntries, Entries, registryVars

LEMMA ManagersFrame ==
  ASSUME WorkersInv, UNCHANGED <<running, inLoop, manager, ring>>
  PROVE  Managers'
BY DEF WorkersInv, Managers, Managing

LEMMA RestartsFrame ==
  ASSUME WorkersInv, UNCHANGED <<running, todo>>
  PROVE  Restarts'
BY DEF WorkersInv, Restarts, Paired

LEMMA NewCommand ==
  ASSUME todo' = <<>> \/ todo' \in GoodOps
  PROVE  Restarts' /\ todo' \in Seq(Operations)
<1>1. CASE todo' = <<>>
  BY <1>1 DEF Restarts, Paired
<1>2. CASE todo' \in GoodOps
  <2>1. todo' \in Seq(Operations) /\ todo' # <<>> /\ ~todo'[1].after
        /\ Paired(todo')
    BY <1>2 DEF GoodOps
  <2>2. Head(todo') = todo'[1]
    BY <2>1
  <2>3. Paired(todo)'
    BY <2>1 DEF Paired
  <2> QED
    BY <2>1, <2>2, <2>3 DEF Restarts
<1> QED
  BY <1>1, <1>2

\* Signals, quiescent states and grace periods.
LEMMA QuietInv ==
  ASSUME WorkersInv, UNCHANGED site,
         \/ Sigterm \/ SyncEnd
         \/ \E l \in Lcore : Quiescent(l) \/ SyncStart(l)
  PROVE  WorkersInv'
<1>1. UNCHANGED <<worker, running, inLoop, force_stop, registryVars, todo,
                  manager, queue, ring>>
  BY DEF Sigterm, SyncEnd, Quiescent, SyncStart, lcoreVars, rcuVars, queueVars
<1>2. force_quit' \in BOOLEAN
  BY DEF Sigterm, SyncEnd, Quiescent, SyncStart, WorkersInv, Types, TypeOK
<1>3. sync' \in Lcore \cup {Nowhere} /\ pending' \subseteq Readers
  <2>1. CASE Sigterm \/ SyncEnd
    BY <2>1 DEF Sigterm, SyncEnd, rcuVars, WorkersInv, Types, TypeOK
  <2>2. CASE \E l \in Lcore : Quiescent(l) \/ SyncStart(l)
    BY <2>2 DEF Quiescent, SyncStart, WorkersInv, Types, TypeOK
  <2> QED
    BY <2>1, <2>2
<1>4. Readers' = Readers
  BY <1>1 DEF Readers
<1>5. TypeOK'
  BY <1>1, <1>2, <1>3, <1>4 DEF WorkersInv, Types, TypeOK, registryVars
<1>6. Types'
  BY <1>1, <1>5 DEF WorkersInv, Types, registryVars
<1> QED
  BY <1>1, <1>6, RegistryFrame, ManagersFrame, RestartsFrame DEF WorkersInv

\* The shell's commands only change what is left to do and what is wanted.
LEMMA CommandTypes ==
  ASSUME WorkersInv, UNCHANGED <<site, running, inLoop, force_stop,
           registryVars, rcuVars, queueVars>>,
         worker' \in [Lcore -> Func \cup {NoFunc, "lthread_main"}],
         \A l \in Lcore : worker'[l] = "lthread_main" <=> l = Main,
         force_quit' \in BOOLEAN,
         todo' \in Seq(Operations)
  PROVE  Types'
<1>1. Readers' = Readers
  BY DEF Readers
<1>2. TypeOK'
  BY <1>1 DEF WorkersInv, Types, TypeOK, registryVars, rcuVars
<1> QED
  BY <1>2 DEF WorkersInv, Types, registryVars, queueVars

LEMMA CommandInv ==
  ASSUME WorkersInv, UNCHANGED site,
         \/ \E l \in site.lcore, f \in site.func \cup {NoFunc},
               restart \in BOOLEAN : SetWorker(l, f, restart)
         \/ \E l \in Lcore, command \in {"start", "stop", "restart"} :
              StartStopWorker(command, l)
         \/ \E command \in {"start", "stop", "restart"} : StartStopAll(command)
  PROVE  WorkersInv'
<1>1. UNCHANGED <<running, inLoop, force_stop, registryVars, rcuVars, queueVars>>
  BY DEF SetWorker, StartStopWorker, StartStopAll, lcoreVars
<1>2. todo' = <<>> \/ todo' \in GoodOps
  <2>1. CASE \E l \in site.lcore, f \in site.func \cup {NoFunc},
                restart \in BOOLEAN : SetWorker(l, f, restart)
    <3>1. site.lcore \subseteq Nat
      BY SiteAssumption, LcoreAssumption DEF WorkersInv, Types
    <3> QED
      BY <2>1, <3>1, OpsFacts DEF SetWorker
  <2>2. CASE \E l \in Lcore, command \in {"start", "stop", "restart"} :
               StartStopWorker(command, l)
    BY <2>2, OpsFacts, LcoreAssumption DEF StartStopWorker
  <2>3. CASE \E command \in {"start", "stop", "restart"} :
               StartStopAll(command)
    BY <2>3, AllOps DEF StartStopAll
  <2> QED
    BY <2>1, <2>2, <2>3
<1>3. /\ worker' \in [Lcore -> Func \cup {NoFunc, "lthread_main"}]
      /\ \A l \in Lcore : worker'[l] = "lthread_main" <=> l = Main
  <2>1. /\ worker \in [Lcore -> Func \cup {NoFunc, "lthread_main"}]
        /\ \A l \in Lcore : worker[l] = "lthread_main" <=> l = Main
    BY DEF WorkersInv, Types, TypeOK
  <2>2. CASE worker' = worker
    BY <2>1, <2>2
  <2>3. CASE \E l \in site.lcore, f \in site.func \cup {NoFunc},
                restart \in BOOLEAN : SetWorker(l, f, restart)
    <3>1. PICK l \in site.lcore, f \in site.func \cup {NoFunc} :
            worker' = [worker EXCEPT ![l] = f] /\ worker[l] # "lthread_main"
      BY <2>3 DEF SetWorker
    <3>2. l \in Lcore /\ f \in Func \cup {NoFunc}
      BY <3>1, SiteAssumption DEF WorkersInv, Types
    <3> QED
      BY <2>1, <3>1, <3>2, Functions
  <2> QED
    BY <2>2, <2>3 DEF StartStopWorker, StartStopAll, lcoreVars
<1>4. force_quit' \in BOOLEAN
  BY DEF SetWorker, StartStopWorker, StartStopAll, WorkersInv, Types, TypeOK
<1>5. Types'
  BY <1>1, <1>2, <1>3, <1>4, CommandTypes, NewCommand
<1> QED
  BY <1>1, <1>2, <1>5, NewCommand, RegistryFrame, ManagersFrame
     DEF WorkersInv, rcuVars, queueVars

-----------------------------------------------------------------------------
(* The operations on the lthread core.                                     *)

\* What is left when the first operation is done.
LEMMA TailFacts ==
  ASSUME Types, Restarts, todo # <<>>
  PROVE  /\ Head(todo) \in Operations /\ Tail(todo) \in Seq(Operations)
         /\ Paired(Tail(todo))
         /\ Tail(todo) # <<>> /\ Head(Tail(todo)).after =>
              /\ Head(todo).op \in {"stop", "wait"}
              /\ Head(todo).lcore = Head(Tail(todo)).lcore
<1> DEFINE r == Tail(todo)
<1>1. todo \in Seq(Operations) /\ Len(todo) \in Nat \ {0} /\ Paired(todo)
  BY DEF Types, Restarts
<1>2. /\ Head(todo) = todo[1] /\ todo[1] \in Operations
      /\ r \in Seq(Operations) /\ Len(r) = Len(todo) - 1
      /\ \A i \in 1 .. Len(r) : r[i] = todo[i + 1]
  BY <1>1
<1> HIDE DEF r
<1>3. Paired(r)
  <2> SUFFICES ASSUME NEW i \in 1 .. Len(r), r[i].after
               PROVE  /\ r[i].op = "start"
                      /\ i # 1 => /\ r[i - 1].op \in {"stop", "wait"}
                                  /\ r[i - 1].lcore = r[i].lcore
    BY DEF Paired
  <2>1. /\ i + 1 \in 1 .. Len(todo) /\ i + 1 # 1 /\ (i + 1) - 1 = i
        /\ i # 1 => i - 1 \in 1 .. Len(r) /\ (i - 1) + 1 = i
    BY <1>1, <1>2
  <2>2. r[i] = todo[i + 1] /\ (i # 1 => r[i - 1] = todo[i])
    BY <1>2, <2>1
  <2> QED
    BY <1>1, <2>1, <2>2 DEF Paired
<1>4. ASSUME r # <<>>, Head(r).after
      PROVE  Head(todo).op \in {"stop", "wait"} /\ Head(todo).lcore = Head(r).lcore
  <2>1. Head(r) = r[1] /\ 1 \in 1 .. Len(r)
    BY <1>2, <1>4
  <2>2. r[1] = todo[2] /\ 2 \in 1 .. Len(todo)
    BY <1>1, <1>2, <2>1
  <2>3. 2 - 1 = 1 /\ 2 # 1
    OBVIOUS
  <2>4. todo[2].after => todo[1].op \in {"stop", "wait"}
                         /\ todo[1].lcore = todo[2].lcore
    BY <1>1, <2>2, <2>3 DEF Paired
  <2> QED
    BY <1>2, <1>4, <2>1, <2>2, <2>4
<1> QED
  BY <1>2, <1>3, <1>4 DEF r

LEMMA StopLcoreInv ==
  ASSUME WorkersInv, UNCHANGED site, NEW l \in Lcore, StopLcore(l)
  PROVE  WorkersInv'
<1> DEFINE o == [Head(todo) EXCEPT !.op = "wait"]
           r == Tail(todo)
<1>1. UNCHANGED <<worker, running, inLoop, force_quit, registryVars, rcuVars,
                  queueVars>>
  BY DEF StopLcore
<1>2. /\ todo # <<>> /\ Head(todo).op = "stop" /\ Head(todo).lcore = l
      /\ todo' = IF l = Main THEN r ELSE <<o>> \o r
      /\ force_stop' = [force_stop EXCEPT ![l] = TRUE]
  BY DEF StopLcore
<1>3. /\ Head(todo) \in Operations /\ r \in Seq(Operations) /\ Paired(r)
      /\ r # <<>> /\ Head(r).after => Head(r).lcore = l
  BY <1>2, TailFacts DEF WorkersInv
<1>4. /\ Head(todo) = todo[1] /\ 1 \in 1 .. Len(todo)
      /\ ~Head(todo).after
  <2>1. todo \in Seq(Operations) /\ Paired(todo)
    BY DEF WorkersInv, Types, Restarts
  <2>2. Head(todo) = todo[1] /\ 1 \in 1 .. Len(todo)
    BY <1>2, <2>1
  <2> QED
    BY <1>2, <2>1, <2>2 DEF Paired
<1>5. o \in Operations /\ o.op = "wait" /\ o.lcore = l /\ ~o.after
  BY <1>2, <1>3, <1>4 DEF Operations
<1> HIDE DEF o, r
<1>6. CASE l = Main
  <2>1. Paired(todo)'
    BY <1>2, <1>3, <1>6 DEF Paired
  <2>2. Restarts' /\ todo' \in Seq(Operations)
    BY <1>2, <1>3, <1>6, <2>1 DEF Restarts
  <2> QED
    BY <2>2, <1>1, <1>2 DEF WorkersInv, Types, TypeOK, Readers, VtyEntries,
       Entries, Managers, Managing, registryVars, rcuVars, queueVars
<1>7. CASE l # Main
  <2> DEFINE u == <<o>> \o r
  <2>1. /\ u \in Seq(Operations) /\ Len(u) = Len(r) + 1 /\ u[1] = o
        /\ \A i \in 2 .. Len(u) : u[i] = r[i - 1]
        /\ u # <<>> /\ Len(r) \in Nat
    BY <1>3, <1>5
  <2>2. r # <<>> => Head(r) = r[1]
    BY <1>3
  <2> HIDE DEF u
  <2>3. Paired(u)
    <3> SUFFICES ASSUME NEW i \in 1 .. Len(u), u[i].after
                 PROVE  /\ u[i].op = "start"
                        /\ i # 1 => /\ u[i - 1].op \in {"stop", "wait"}
                                    /\ u[i - 1].lcore = u[i].lcore
      BY DEF Paired
    <3>1. i # 1
      BY <1>5, <2>1
    <3>2. i \in 2 .. Len(u) /\ i - 1 \in 1 .. Len(r) /\ u[i] = r[i - 1]
      BY <2>1, <3>1
    <3>3. CASE i = 2
      <4>1. i - 1 = 1 /\ r # <<>> /\ u[i] = r[1]
        BY <1>3, <3>2, <3>3
      <4> QED
        BY <1>3, <1>5, <2>1, <2>2, <3>2, <4>1 DEF Paired
    <3>4. CASE i # 2
      <4>1. i - 1 \in 2 .. Len(u) /\ (i - 1) - 1 \in 1 .. Len(r) /\ i - 1 # 1
        BY <2>1, <3>2, <3>4
      <4>2. u[i - 1] = r[(i - 1) - 1]
        BY <2>1, <4>1
      <4> QED
        BY <1>3, <3>2, <4>1, <4>2 DEF Paired
    <3> QED
      BY <3>3, <3>4
  <2>4. todo' = u
    BY <1>2, <1>7 DEF u
  <2>5. Head(u) = o
    BY <2>1
  <2>6. Paired(todo)'
    BY <2>3, <2>4 DEF Paired
  <2>7. Restarts' /\ todo' \in Seq(Operations)
    BY <1>5, <2>1, <2>4, <2>5, <2>6 DEF Restarts
  <2> QED
    BY <2>7, <1>1, <1>2 DEF WorkersInv, Types, TypeOK, Readers, VtyEntries,
       Entries, Managers, Managing, registryVars, rcuVars, queueVars
<1> QED
  BY <1>6, <1>7

LEMMA WaitLcoreInv ==
  ASSUME WorkersInv, UNCHANGED site, NEW l \in Lcore, WaitLcore(l)
  PROVE  WorkersInv'
<1>1. UNCHANGED <<worker, running, inLoop, force_stop, force_quit,
                  registryVars, rcuVars, queueVars>>
  BY DEF WaitLcore, lcoreVars
<1>2. /\ todo # <<>> /\ Head(todo).lcore = l /\ running[l] = NoFunc
      /\ todo' = Tail(todo)
  BY DEF WaitLcore
<1>3. /\ Tail(todo) \in Seq(Operations) /\ Paired(Tail(todo))
      /\ Tail(todo) # <<>> /\ Head(Tail(todo)).after =>
           Head(Tail(todo)).lcore = l
  BY <1>2, TailFacts DEF WorkersInv
<1>4. Paired(todo)'
  BY <1>2, <1>3 DEF Paired
<1>5. Restarts' /\ todo' \in Seq(Operations)
  BY <1>1, <1>2, <1>3, <1>4 DEF Restarts
<1>6. Types'
  BY <1>1, <1>5, CommandTypes DEF WorkersInv, Types, TypeOK
<1> QED
  BY <1>1, <1>5, <1>6, RegistryFrame, ManagersFrame
     DEF WorkersInv, rcuVars, queueVars

\* A thread registered for a worker or a vty shell keeps every other entry.
LEMMA NewEntryVty ==
  ASSUME WorkersInv, NEW f \in Func \cup {"vty_shell", "rib_manager"},
         NEW l \in Lcore,
         ThreadSlot # 0, threads' = ThreadRegister(f, l),
         NEW c \in Vty, vty[c] # 0
  PROVE  /\ vty[c] # ThreadSlot /\ vty[c] \in DOMAIN threads'
         /\ threads'[vty[c]].func = "vty_shell"
<1>1. vty[c] \in DOMAIN threads /\ threads[vty[c]].func = "vty_shell"
  BY DEF WorkersInv, VtyEntries
<1>2. vty[c] # ThreadSlot
  BY <1>1, SlotFacts, Functions DEF WorkersInv
<1>3. /\ DOMAIN ThreadRegister(f, l) = DOMAIN threads \cup {ThreadSlot}
      /\ \A i \in DOMAIN threads \ {ThreadSlot} :
           ThreadRegister(f, l)[i] = threads[i]
  BY RegisterFacts DEF WorkersInv
<1> QED
  BY <1>1, <1>2, <1>3

LEMMA StartLcoreEntries ==
  ASSUME WorkersInv, NEW l \in Lcore, StartLcore(l)
  PROVE  Entries'
<1> DEFINE f == worker[l]
           t == [func |-> f, lcore |-> l]
           launch == f # NoFunc /\ l # Main
<1>1. /\ threads' = IF launch /\ ThreadLookup(f, l) = 0
                    THEN ThreadRegister(f, l) ELSE threads
      /\ running' = IF launch /\ running[l] = NoFunc
                    THEN [running EXCEPT ![l] = f] ELSE running
      /\ UNCHANGED <<inLoop, counter>>
  BY DEF StartLcore
<1>2. launch => f \in Func
  BY DEF WorkersInv, Types, TypeOK
<1>3. /\ running \in [Lcore -> Func \cup {NoFunc, "lthread_main"}]
      /\ \A k \in inLoop : running[k] # NoFunc
      /\ inLoop \subseteq Lcore
      /\ \A k \in Lcore : running[k] = "lthread_main" <=> k = Main
  BY DEF WorkersInv, Types, TypeOK
<1>4. /\ Len(threads) \in Nat /\ ThreadLimit \in Nat
      /\ DOMAIN threads = 1 .. Len(threads)
  BY ThreadLimitAssumption DEF WorkersInv, Types
<1>5. \A k \in inLoop : running'[k] = running[k]
  BY <1>1, <1>3
<1> HIDE DEF f
<1>6. CASE launch /\ ThreadLookup(f, l) = 0 /\ ThreadSlot # 0
  <2>1. threads' = ThreadRegister(f, l)
    BY <1>1, <1>6
  <2>2. /\ threads' \in Seq(Thread) /\ Len(threads) <= Len(threads')
        /\ threads'[ThreadSlot] = t
        /\ DOMAIN threads' = DOMAIN threads \cup {ThreadSlot}
        /\ \A i \in DOMAIN threads \ {ThreadSlot} : threads'[i] = threads[i]
    <3>1. f \in Func \cup {"vty_shell", "rib_manager"}
      BY <1>2, <1>6
    <3>2. /\ ThreadRegister(f, l) \in Seq(Thread)
          /\ Len(threads) <= Len(ThreadRegister(f, l))
          /\ ThreadRegister(f, l)[ThreadSlot] = t
          /\ DOMAIN ThreadRegister(f, l) = DOMAIN threads \cup {ThreadSlot}
          /\ \A i \in DOMAIN threads \ {ThreadSlot} :
               ThreadRegister(f, l)[i] = threads[i]
      BY <1>6, <3>1, RegisterFacts DEF WorkersInv
    <3> QED
      BY <2>1, <3>2
  <2>3. \A i \in DOMAIN threads : threads[i] # t
    BY <1>2, <1>6, LookupFacts DEF WorkersInv
  <2>4. ThreadSlot \in DOMAIN threads => threads[ThreadSlot].func = NoFunc
    BY SlotFacts DEF WorkersInv
  <2>5. ASSUME NEW i \in DOMAIN threads', NEW j \in DOMAIN threads',
               threads'[i] = threads'[j], threads'[i].func \in Func,
               threads'[i].lcore # Main
        PROVE  i = j
    <3>1. CASE i # ThreadSlot /\ j # ThreadSlot
      BY <2>2, <2>5, <3>1 DEF WorkersInv, Entries
    <3>2. CASE i = ThreadSlot \/ j = ThreadSlot
      BY <2>2, <2>3, <2>5, <3>2
    <3> QED
      BY <3>1, <3>2
  <2>6. Len(threads') < ThreadLimit => Len(threads) < ThreadLimit
    <3>1. Len(threads') \in Nat
      BY <2>2
    <3>2. Len(threads) <= Len(threads')
      BY <2>2
    <3> QED
      BY <1>4, <3>1, <3>2
  <2>7. ASSUME Len(threads') < ThreadLimit, NEW k \in Lcore \ {Main},
               running'[k] # NoFunc
        PROVE  \E i \in DOMAIN threads' :
                 threads'[i] = [func |-> running'[k], lcore |-> k]
    <3>1. CASE running'[k] = running[k]
      <4>1. PICK i \in DOMAIN threads :
              threads[i] = [func |-> running[k], lcore |-> k]
        BY <2>6, <2>7, <3>1 DEF WorkersInv, Entries
      <4>2. i # ThreadSlot
        BY <2>4, <2>7, <3>1, <4>1
      <4> QED
        BY <2>2, <3>1, <4>1, <4>2
    <3>2. CASE running'[k] # running[k]
      <4>1. k = l /\ running'[k] = f
        BY <1>1, <1>3, <3>2
      <4> QED
        BY <2>2, <4>1
    <3> QED
      BY <3>1, <3>2
  <2>8. ASSUME Len(threads') < ThreadLimit, NEW k \in inLoop \ {Main},
               NEW i \in DOMAIN threads',
               threads'[i] = [func |-> running'[k], lcore |-> k]
        PROVE  counter'[i] = threads'[i]
    <3>1. k \in Lcore \ {Main} /\ running'[k] = running[k]
          /\ running[k] # NoFunc
      BY <1>3, <1>5, <2>8
    <3>2. i # ThreadSlot
      <4> SUFFICES ASSUME i = ThreadSlot PROVE FALSE
        OBVIOUS
      <4>1. [func |-> running[k], lcore |-> k] = t
        BY <2>2, <2>8, <3>1
      <4>2. \E j \in DOMAIN threads :
              threads[j] = [func |-> running[k], lcore |-> k]
        BY <2>6, <2>8, <3>1 DEF WorkersInv, Entries
      <4> QED
        BY <2>3, <4>1, <4>2
    <3>3. i \in DOMAIN threads /\ threads'[i] = threads[i]
      BY <2>2, <2>8, <3>2
    <3> QED
      BY <1>1, <2>6, <2>8, <3>1, <3>3 DEF WorkersInv, Entries
  <2> QED
    BY <1>1, <2>5, <2>7, <2>8 DEF Entries
<1>7. CASE ~(launch /\ ThreadLookup(f, l) = 0) \/ ThreadSlot = 0
  <2>1. threads' = threads
    <3>1. CASE launch /\ ThreadLookup(f, l) = 0
      BY <1>1, <1>2, <1>7, <3>1, RegisterFacts DEF WorkersInv
    <3>2. CASE ~(launch /\ ThreadLookup(f, l) = 0)
      BY <1>1, <3>2
    <3> QED
      BY <3>1, <3>2
  <2>2. ASSUME Len(threads) < ThreadLimit, NEW k \in Lcore \ {Main},
               running'[k] # NoFunc
        PROVE  \E i \in DOMAIN threads :
                 threads[i] = [func |-> running'[k], lcore |-> k]
    <3>1. CASE running'[k] = running[k]
      BY <2>2, <3>1 DEF WorkersInv, Entries
    <3>2. CASE running'[k] # running[k]
      <4>1. k = l /\ running'[k] = f /\ launch
        BY <1>1, <1>3, <3>2
      <4>2. ThreadSlot # 0
        <5>1. ThreadSlot = 0 => Len(threads) = ThreadLimit
          BY SlotFacts DEF WorkersInv
        <5>2. Len(threads) \in Nat /\ ThreadLimit \in Nat
          BY <1>4
        <5> QED
          BY <2>2, <5>1, <5>2
      <4>3. ThreadLookup(f, l) # 0
        BY <1>7, <4>1, <4>2
      <4>4. ThreadLookup(f, l) \in DOMAIN threads
            /\ threads[ThreadLookup(f, l)] = t
        BY <1>2, <4>1, <4>3, LookupFacts DEF WorkersInv
      <4> QED
        BY <4>1, <4>4
    <3> QED
      BY <3>1, <3>2
  <2> QED
    BY <1>1, <1>5, <2>1, <2>2 DEF WorkersInv, Entries
<1> QED
  BY <1>6, <1>7

LEMMA StartLcoreInv ==
  ASSUME WorkersInv, UNCHANGED site, NEW l \in Lcore, StartLcore(l)
  PROVE  WorkersInv'
<1> DEFINE f == worker[l]
           launch == f # NoFunc /\ l # Main
<1>1. /\ todo # <<>> /\ Head(todo).op = "start" /\ todo' = Tail(todo)
      /\ threads' = IF launch /\ ThreadLookup(f, l) = 0
                    THEN ThreadRegister(f, l) ELSE threads
      /\ running' = IF launch /\ running[l] = NoFunc
                    THEN [running EXCEPT ![l] = f] ELSE running
      /\ force_stop' = [force_stop EXCEPT ![l] = @ /\ worker[l] = NoFunc]
      /\ UNCHANGED <<worker, inLoop, force_quit, counter, vty, rcuVars, queueVars>>
  BY DEF StartLcore
<1>2. launch => f \in Func
  BY DEF WorkersInv, Types, TypeOK
<1>3. /\ running \in [Lcore -> Func \cup {NoFunc, "lthread_main"}]
      /\ \A k \in inLoop : running[k] # NoFunc
      /\ inLoop \subseteq Lcore
      /\ \A k \in Lcore : running[k] = "lthread_main" <=> k = Main
      /\ Main \in inLoop
  BY DEF WorkersInv, Types, TypeOK
<1> HIDE DEF f
<1>4. /\ running' \in [Lcore -> Func \cup {NoFunc, "lthread_main"}]
      /\ \A k \in Lcore : running'[k] = "lthread_main" <=> k = Main
      /\ \A k \in inLoop : running'[k] = running[k]
  BY <1>1, <1>2, <1>3, Functions
<1>5. /\ threads' \in Seq(Thread) /\ Len(threads') <= ThreadLimit
      /\ \A c \in Vty : vty[c] # 0 => /\ vty[c] \in DOMAIN threads'
                                      /\ threads'[vty[c]].func = "vty_shell"
  <2>1. CASE threads' = threads
    BY <2>1 DEF WorkersInv, Types, TypeOK, VtyEntries
  <2>2. CASE threads' = ThreadRegister(f, l) /\ ThreadSlot # 0 /\ launch
    <3>1. ThreadRegister(f, l) \in Seq(Thread)
          /\ Len(ThreadRegister(f, l)) <= ThreadLimit
      BY <1>2, <2>2, RegisterFacts DEF WorkersInv
    <3> QED
      BY <1>2, <2>2, <3>1, NewEntryVty
  <2>3. ThreadSlot = 0 /\ launch => ThreadRegister(f, l) = threads
    BY <1>2, RegisterFacts DEF WorkersInv
  <2> QED
    BY <1>1, <2>1, <2>2, <2>3
<1>6. VtyEntries'
  BY <1>1, <1>5 DEF WorkersInv, VtyEntries
<1>7. /\ Tail(todo) \in Seq(Operations) /\ Paired(Tail(todo))
      /\ Tail(todo) # <<>> => ~Head(Tail(todo)).after
  BY <1>1, TailFacts DEF WorkersInv
<1>8. Paired(todo)'
  BY <1>1, <1>7 DEF Paired
<1>9. Restarts' /\ todo' \in Seq(Operations)
  BY <1>1, <1>7, <1>8 DEF Restarts
<1>10. Readers' = Readers
  BY <1>1, <1>4 DEF Readers
<1>11. force_stop' \in [Lcore -> BOOLEAN]
  BY <1>1 DEF WorkersInv, Types, TypeOK
<1>12. TypeOK'
  <2>1. \A c \in Vty : vty'[c] = 0 \/ threads'[vty'[c]].func = "vty_shell"
    BY <1>1, <1>5
  <2>2. \A k \in inLoop' : running'[k] # NoFunc
    BY <1>1, <1>3, <1>4
  <2> QED
    BY <1>1, <1>4, <1>5, <1>10, <1>11, <2>1, <2>2
       DEF WorkersInv, Types, TypeOK, rcuVars
<1>13. Types'
  BY <1>1, <1>3, <1>4, <1>5, <1>9, <1>12 DEF WorkersInv, Types, queueVars
<1>14. Managers'
  BY <1>1, <1>4 DEF WorkersInv, Managers, Managing, rcuVars, queueVars
<1> QED
  BY <1>6, <1>9, <1>13, <1>14, StartLcoreEntries DEF WorkersInv

-----------------------------------------------------------------------------
(* rib_manager as an lthread, and vty shells.                              *)

LEMMA ManagerExitInv ==
  ASSUME WorkersInv, UNCHANGED site, ManagerExit
  PROVE  WorkersInv'
<1>1. UNCHANGED <<worker, running, inLoop, force_stop, force_quit,
                  registryVars, todo, sync, pending>>
  BY DEF ManagerExit, lcoreVars
<1>2. manager' \in BOOLEAN /\ ring' \in BOOLEAN
  BY DEF ManagerExit, FreeRing, WorkersInv, Types, TypeOK
<1>3. Types'
  <2>1. Readers' = Readers
    BY <1>1 DEF Readers
  <2>2. TypeOK'
    BY <1>1, <1>2, <2>1 DEF WorkersInv, Types, TypeOK, registryVars
  <2> QED
    BY <1>1, <1>2, <2>2 DEF WorkersInv, Types, registryVars
<1>4. Managers'
  <2>1. \A l \in Lcore : Managing(l)' <=> Managing(l)
    BY <1>1 DEF Managing
  <2> QED
    BY <2>1 DEF ManagerExit, WorkersInv, Managers
<1> QED
  BY <1>1, <1>3, <1>4, RegistryFrame, RestartsFrame DEF WorkersInv

\* thread_lookup_by_lcore in a registry that may hold an entry twice.
LEMMA LastFacts ==
  ASSUME NEW n \in Nat, NEW T \in SUBSET (1 .. n), T # {}
  PROVE  \E i \in T : \A j \in T : j <= i
<1> DEFINE D == {n - i : i \in T}
<1>0. \A i \in T : i \in 1 .. n
  OBVIOUS
<1>1. D \in SUBSET Nat /\ D # {}
  <2>1. \A i \in T : n - i \in Nat
    BY <1>0
  <2>2. PICK i : i \in T
    OBVIOUS
  <2>3. n - i \in D
    BY <2>2
  <2> QED
    BY <2>1, <2>3
<1>2. \E x \in D : \A y \in D : x <= y
  <2> HIDE DEF D
  <2> QED
    BY <1>1, LeastNat
<1>3. PICK i \in T : \A y \in D : n - i <= y
  BY <1>2
<1>4. \A j \in T : n - i <= n - j
  BY <1>3
<1>5. \A j \in T : j <= i
  BY <1>0, <1>3, <1>4
<1> QED
  BY <1>5

LEMMA StartManagerInv ==
  ASSUME WorkersInv, UNCHANGED site, StartManager
  PROVE  WorkersInv'
<1> DEFINE s == ThreadSlot
           t == [func |-> "rib_manager", lcore |-> Main]
           hits == {i \in DOMAIN threads' : threads'[i] = t}
           i0 == ThreadLookup("rib_manager", Main)'
<1>1. /\ threads' = ThreadRegister("rib_manager", Main)
      /\ counter' = IF ring THEN counter ELSE Counted(i0, t)
      /\ manager' = (manager \/ ~ring) /\ ring' = TRUE
      /\ UNCHANGED <<worker, running, inLoop, force_stop, force_quit, vty, todo,
                     sync, pending>>
  BY DEF StartManager, CreateRing, lcoreVars
<1>2. /\ threads' \in Seq(Thread) /\ Len(threads') <= ThreadLimit
      /\ Len(threads) <= Len(threads')
      /\ s = 0 => threads' = threads
      /\ s # 0 => /\ threads'[s] = t
                  /\ DOMAIN threads' = DOMAIN threads \cup {s}
                  /\ \A i \in DOMAIN threads \ {s} : threads'[i] = threads[i]
  <2>1. Main \in Lcore /\ "rib_manager" \in Func \cup {"vty_shell", "rib_manager"}
    BY LcoreAssumption
  <2> QED
    BY <1>1, <2>1, RegisterFacts DEF WorkersInv
<1>3. s \in DOMAIN threads => threads[s].func = NoFunc
  BY SlotFacts DEF WorkersInv
<1>4. /\ DOMAIN threads' = 1 .. Len(threads') /\ Len(threads') \in Nat
      /\ Len(threads) \in Nat /\ ThreadLimit \in Nat
      /\ DOMAIN threads' \subseteq 1 .. ThreadLimit /\ 0 \notin DOMAIN threads'
  <2>1. /\ DOMAIN threads' = 1 .. Len(threads') /\ Len(threads') \in Nat
        /\ Len(threads) \in Nat /\ ThreadLimit \in Nat
    BY <1>2, ThreadLimitAssumption DEF WorkersInv, Types
  <2>2. \A n, m \in Nat : n <= m => 1 .. n \subseteq 1 .. m
    OBVIOUS
  <2> QED
    BY <1>2, <2>1, <2>2
<1>5. i0 = 0 \/ (i0 \in DOMAIN threads' /\ threads'[i0] = t)
  <2>1. i0 = IF hits = {} THEN 0 ELSE CHOOSE i \in hits : \A j \in hits : j <= i
    BY DEF ThreadLookup
  <2>2. hits # {} => \E i \in hits : \A j \in hits : j <= i
    <3>1. hits \in SUBSET (1 .. Len(threads'))
      BY <1>4
    <3> HIDE DEF hits
    <3> QED
      BY <1>4, <3>1, LastFacts
  <2> HIDE DEF hits, i0
  <2>3. i0 = 0 \/ i0 \in hits
    BY <2>1, <2>2, Zenon
  <2> QED
    BY <2>3 DEF hits
<1> HIDE DEF s, i0, hits
<1>6. /\ counter' \in [1 .. ThreadLimit -> Thread]
      /\ \A i \in 1 .. ThreadLimit : i # i0 => counter'[i] = counter[i]
  <2>1. t \in Thread /\ counter \in [1 .. ThreadLimit -> Thread]
    BY LcoreAssumption DEF Thread, WorkersInv, Types
  <2>2. CASE ring \/ i0 = 0
    BY <1>1, <2>1, <2>2 DEF Counted
  <2>3. CASE ~ring /\ i0 # 0
    <3>1. i0 \in 1 .. ThreadLimit /\ counter' = [counter EXCEPT ![i0] = t]
      BY <1>1, <1>4, <1>5, <2>3 DEF Counted
    <3> QED
      BY <2>1, <3>1
  <2> QED
    BY <2>2, <2>3
<1>7. VtyEntries'
  <2>1. ASSUME NEW d \in Vty, vty[d] # 0
        PROVE  vty[d] \in DOMAIN threads' /\ threads'[vty[d]].func = "vty_shell"
    <3>1. vty[d] \in DOMAIN threads /\ threads[vty[d]].func = "vty_shell"
      BY <2>1 DEF WorkersInv, VtyEntries
    <3>2. vty[d] # s
      BY <1>3, <3>1, Functions
    <3> QED
      BY <1>2, <3>1, <3>2
  <2> QED
    BY <1>1, <2>1 DEF WorkersInv, VtyEntries
<1>8. \A i \in DOMAIN threads' : threads'[i] # t =>
        i \in DOMAIN threads /\ threads'[i] = threads[i]
  BY <1>2
<1>9. \A i \in DOMAIN threads : threads[i].func # NoFunc =>
        i \in DOMAIN threads' /\ threads'[i] = threads[i]
  BY <1>2, <1>3
<1>10. Len(threads') < ThreadLimit => Len(threads) < ThreadLimit
  <2>1. Len(threads) <= Len(threads')
    BY <1>2
  <2> QED
    BY <1>4, <2>1
<1>11. Entries'
  <2>1. ASSUME NEW i \in DOMAIN threads', NEW j \in DOMAIN threads',
               threads'[i] = threads'[j], threads'[i].func \in Func,
               threads'[i].lcore # Main
        PROVE  i = j
    <3>1. threads'[i] # t /\ threads'[j] # t
      BY <2>1
    <3> QED
      BY <1>8, <2>1, <3>1 DEF WorkersInv, Entries
  <2>2. ASSUME Len(threads') < ThreadLimit, NEW k \in Lcore \ {Main},
               running[k] # NoFunc
        PROVE  \E i \in DOMAIN threads' :
                 threads'[i] = [func |-> running[k], lcore |-> k]
    <3>1. PICK i \in DOMAIN threads :
            threads[i] = [func |-> running[k], lcore |-> k]
      BY <1>10, <2>2 DEF WorkersInv, Entries
    <3> QED
      BY <1>9, <2>2, <3>1
  <2>3. ASSUME Len(threads') < ThreadLimit, NEW k \in inLoop \ {Main},
               NEW i \in DOMAIN threads',
               threads'[i] = [func |-> running[k], lcore |-> k]
        PROVE  counter'[i] = threads'[i]
    <3>1. threads'[i] # t
      BY <2>3
    <3>2. i \in DOMAIN threads /\ threads'[i] = threads[i] /\ i # i0
      BY <1>4, <1>5, <1>8, <3>1
    <3>3. counter'[i] = counter[i]
      BY <1>4, <1>6, <2>3, <3>2
    <3> QED
      BY <1>10, <2>3, <3>2, <3>3 DEF WorkersInv, Entries
  <2> QED
    BY <1>1, <2>1, <2>2, <2>3 DEF Entries
<1>12. Types'
  <2>1. Readers' = Readers
    BY <1>1 DEF Readers
  <2>2. \A c \in Vty : vty'[c] = 0 \/ threads'[vty'[c]].func = "vty_shell"
    BY <1>7 DEF VtyEntries
  <2>3. DOMAIN counter' = 1 .. ThreadLimit /\ manager' \in BOOLEAN
    BY <1>1, <1>6 DEF WorkersInv, Types, TypeOK
  <2>4. TypeOK'
    BY <1>1, <1>2, <2>1, <2>2, <2>3 DEF WorkersInv, Types, TypeOK
  <2> QED
    BY <1>1, <1>2, <1>6, <2>4 DEF WorkersInv, Types
<1>13. Managers'
  <2>1. \A l \in Lcore : Managing(l)' <=> Managing(l)
    BY <1>1 DEF Managing
  <2> QED
    BY <1>1, <2>1 DEF WorkersInv, Managers
<1> QED
  BY <1>1, <1>7, <1>11, <1>12, <1>13, RestartsFrame DEF WorkersInv

\* Steps of the vty shells leave everything but the registry alone.
LEMMA VtyFrame ==
  ASSUME WorkersInv,
         UNCHANGED <<site, lcoreVars, force_quit, todo, rcuVars, queueVars>>,
         VtyEntries', Entries',
         threads' \in Seq(Thread), Len(threads') <= ThreadLimit,
         counter' \in [1 .. ThreadLimit -> Thread]
  PROVE  WorkersInv'
<1>1. UNCHANGED <<worker, running, inLoop, force_stop, manager, sync, pending,
                  queue, ring>>
  BY DEF lcoreVars, rcuVars, queueVars
<1>2. Readers' = Readers
  BY <1>1 DEF Readers
<1>3. TypeOK'
  <2>1. \A c \in Vty : vty'[c] = 0 \/ threads'[vty'[c]].func = "vty_shell"
    BY DEF VtyEntries
  <2>2. DOMAIN counter' = 1 .. ThreadLimit
    OBVIOUS
  <2> QED
    BY <1>1, <1>2, <2>1, <2>2 DEF WorkersInv, Types, TypeOK
<1>4. Types'
  BY <1>1, <1>3 DEF WorkersInv, Types
<1> QED
  BY <1>1, <1>4, ManagersFrame, RestartsFrame DEF WorkersInv

LEMMA VtyConnectInv ==
  ASSUME WorkersInv, UNCHANGED site, NEW c \in Vty, VtyConnect(c)
  PROVE  WorkersInv'
<1> DEFINE s == ThreadSlot
           t == [func |-> "vty_shell", lcore |-> Main]
           new == ThreadRegister("vty_shell", Main)
<1>1. /\ vty[c] = 0 /\ s # 0 /\ vty' = [vty EXCEPT ![c] = s]
      /\ threads' = new
      /\ counter' = [counter EXCEPT ![s] = t]
      /\ UNCHANGED <<lcoreVars, force_quit, todo, rcuVars, queueVars>>
  BY DEF VtyConnect, Counted
<1>2. /\ new \in Seq(Thread) /\ Len(new) <= ThreadLimit
      /\ Len(threads) <= Len(new)
      /\ new[s] = t
      /\ DOMAIN new = DOMAIN threads \cup {s}
      /\ \A i \in DOMAIN threads \ {s} : new[i] = threads[i]
  <2>1. Main \in Lcore /\ "vty_shell" \in Func \cup {"vty_shell", "rib_manager"}
    BY LcoreAssumption
  <2> QED
    BY <1>1, <2>1, RegisterFacts DEF WorkersInv
<1>3. \A d \in Vty : vty[d] # 0 => /\ vty[d] # s /\ vty[d] \in DOMAIN threads'
                                   /\ threads'[vty[d]].func = "vty_shell"
  <2>1. Main \in Lcore /\ "vty_shell" \in Func \cup {"vty_shell", "rib_manager"}
    BY LcoreAssumption
  <2>2. threads' = ThreadRegister("vty_shell", Main) /\ ThreadSlot # 0
    BY <1>1
  <2> QED
    BY <2>1, <2>2, NewEntryVty, Zenon
<1>4. s \in 1 .. ThreadLimit /\ s \in Nat
      /\ (s \in DOMAIN threads => threads[s].func = NoFunc)
  <2>1. s \in 0 .. ThreadLimit
        /\ (s \in DOMAIN threads => threads[s].func = NoFunc)
    BY SlotFacts DEF WorkersInv
  <2> QED
    BY <1>1, <2>1, ThreadLimitAssumption
<1>5. counter' \in [1 .. ThreadLimit -> Thread]
  <2>1. t \in Thread
    BY LcoreAssumption DEF Thread
  <2> QED
    BY <1>1, <2>1 DEF WorkersInv, Types
<1> HIDE DEF s, new
<1>6. VtyEntries'
  <2>1. vty \in [Vty -> Nat]
        /\ \A d, e \in Vty : vty[d] = vty[e] /\ vty[d] # 0 => d = e
    BY DEF WorkersInv, VtyEntries
  <2>2. \A d \in Vty : vty'[d] = IF d = c THEN s ELSE vty[d]
    BY <1>1, <2>1
  <2>3. vty' \in [Vty -> Nat]
    BY <1>1, <1>4, <2>1
  <2>4. ASSUME NEW d \in Vty, vty'[d] # 0
        PROVE  vty'[d] \in DOMAIN threads' /\ threads'[vty'[d]].func = "vty_shell"
    BY <1>1, <1>2, <1>3, <2>2, <2>4
  <2>5. ASSUME NEW d \in Vty, NEW e \in Vty, vty'[d] = vty'[e], vty'[d] # 0
        PROVE  d = e
    BY <1>3, <2>1, <2>2, <2>5
  <2> QED
    BY <2>3, <2>4, <2>5 DEF VtyEntries
<1>7. Entries'
  <2>1. UNCHANGED <<running, inLoop>>
    BY <1>1 DEF lcoreVars
  <2>2. ASSUME NEW i \in DOMAIN threads', NEW j \in DOMAIN threads',
               threads'[i] = threads'[j], threads'[i].func \in Func,
               threads'[i].lcore # Main
        PROVE  i = j
    <3>1. i # s /\ j # s
      BY <1>1, <1>2, <2>2, Functions
    <3> QED
      BY <1>1, <1>2, <2>2, <3>1 DEF WorkersInv, Entries
  <2>3. Len(threads') < ThreadLimit => Len(threads) < ThreadLimit
    <3>1. Len(threads') \in Nat /\ Len(threads) \in Nat
      BY <1>1, <1>2 DEF WorkersInv, Types
    <3>2. Len(threads) <= Len(threads')
      BY <1>1, <1>2
    <3> QED
      BY <3>1, <3>2, ThreadLimitAssumption
  <2>4. ASSUME Len(threads') < ThreadLimit, NEW k \in Lcore \ {Main},
               running[k] # NoFunc
        PROVE  \E i \in DOMAIN threads' :
                 threads'[i] = [func |-> running[k], lcore |-> k]
    <3>1. PICK i \in DOMAIN threads :
            threads[i] = [func |-> running[k], lcore |-> k]
      BY <2>3, <2>4 DEF WorkersInv, Entries
    <3>2. i # s
      BY <1>4, <2>4, <3>1
    <3> QED
      BY <1>1, <1>2, <3>1, <3>2
  <2>5. ASSUME Len(threads') < ThreadLimit, NEW k \in inLoop \ {Main},
               NEW i \in DOMAIN threads',
               threads'[i] = [func |-> running[k], lcore |-> k]
        PROVE  counter'[i] = threads'[i]
    <3>1. running[k] # "vty_shell"
      BY <2>5, Functions DEF WorkersInv, Types, TypeOK
    <3>2. i # s
      BY <1>1, <1>2, <2>5, <3>1
    <3>3. i \in DOMAIN threads /\ threads'[i] = threads[i]
      BY <1>1, <1>2, <2>5, <3>2
    <3>4. counter'[i] = counter[i]
      BY <1>1, <3>2 DEF WorkersInv, Types
    <3> QED
      BY <2>3, <2>5, <3>3, <3>4 DEF WorkersInv, Entries
  <2> QED
    BY <2>1, <2>2, <2>4, <2>5 DEF Entries
<1> QED
  BY <1>1, <1>2, <1>5, <1>6, <1>7, VtyFrame

LEMMA VtyExitInv ==
  ASSUME WorkersInv, UNCHANGED site, NEW c \in Vty, VtyExit(c)
  PROVE  WorkersInv'
<1> DEFINE s == vty[c]
<1>1. /\ s # 0 /\ vty' = [vty EXCEPT ![c] = 0]
      /\ threads' = [threads EXCEPT ![s] = FreeThread]
      /\ counter' = [counter EXCEPT ![s] = FreeThread]
      /\ UNCHANGED <<lcoreVars, force_quit, todo, rcuVars, queueVars>>
  BY DEF VtyExit, Counted
<1>2. s \in DOMAIN threads /\ threads[s].func = "vty_shell"
  BY <1>1 DEF WorkersInv, VtyEntries
<1>3. threads \in Seq(Thread) /\ Len(threads) <= ThreadLimit
      /\ counter \in [1 .. ThreadLimit -> Thread]
  BY DEF WorkersInv, Types, TypeOK
<1> HIDE DEF s
<1>4. /\ threads' \in Seq(Thread) /\ Len(threads') = Len(threads)
      /\ DOMAIN threads' = DOMAIN threads /\ threads'[s] = FreeThread
      /\ \A i \in DOMAIN threads \ {s} : threads'[i] = threads[i]
  BY <1>1, <1>2, <1>3, Functions
<1>5. counter' \in [1 .. ThreadLimit -> Thread]
      /\ \A i \in 1 .. ThreadLimit : i # s => counter'[i] = counter[i]
  BY <1>1, <1>3, Functions
<1>6. VtyEntries'
  <2>1. vty \in [Vty -> Nat]
        /\ \A d, e \in Vty : vty[d] = vty[e] /\ vty[d] # 0 => d = e
    BY DEF WorkersInv, VtyEntries
  <2>2. \A d \in Vty : vty'[d] = IF d = c THEN 0 ELSE vty[d]
    BY <1>1, <2>1
  <2>3. vty' \in [Vty -> Nat]
    BY <1>1, <2>1
  <2>4. ASSUME NEW d \in Vty, vty'[d] # 0
        PROVE  vty'[d] \in DOMAIN threads' /\ threads'[vty'[d]].func = "vty_shell"
    <3>1. d # c /\ vty'[d] = vty[d]
      BY <2>2, <2>4
    <3>2. vty[d] # s
      BY <2>1, <2>4, <3>1 DEF s
    <3>3. vty[d] \in DOMAIN threads /\ threads[vty[d]].func = "vty_shell"
      BY <2>4, <3>1 DEF WorkersInv, VtyEntries
    <3> QED
      BY <1>4, <3>1, <3>2, <3>3
  <2>5. ASSUME NEW d \in Vty, NEW e \in Vty, vty'[d] = vty'[e], vty'[d] # 0
        PROVE  d = e
    BY <2>1, <2>2, <2>5
  <2> QED
    BY <2>3, <2>4, <2>5 DEF VtyEntries
<1>7. Entries'
  <2>1. UNCHANGED <<running, inLoop>>
    BY <1>1 DEF lcoreVars
  <2>2. ASSUME NEW i \in DOMAIN threads', NEW j \in DOMAIN threads',
               threads'[i] = threads'[j], threads'[i].func \in Func,
               threads'[i].lcore # Main
        PROVE  i = j
    <3>1. i # s /\ j # s
      BY <1>4, <2>2, Functions DEF FreeThread
    <3> QED
      BY <1>4, <2>2, <3>1 DEF WorkersInv, Entries
  <2>3. running \in [Lcore -> Func \cup {NoFunc, "lthread_main"}]
        /\ inLoop \subseteq Lcore /\ \A k \in inLoop : running[k] # NoFunc
    BY DEF WorkersInv, Types, TypeOK
  <2>4. ASSUME Len(threads) < ThreadLimit, NEW k \in Lcore \ {Main},
               running[k] # NoFunc
        PROVE  \E i \in DOMAIN threads' :
                 threads'[i] = [func |-> running[k], lcore |-> k]
    <3>1. PICK i \in DOMAIN threads :
            threads[i] = [func |-> running[k], lcore |-> k]
      BY <2>4 DEF WorkersInv, Entries
    <3>2. i # s
      BY <1>2, <2>3, <3>1, Functions
    <3> QED
      BY <1>4, <3>1, <3>2
  <2>5. ASSUME Len(threads) < ThreadLimit, NEW k \in inLoop \ {Main},
               NEW i \in DOMAIN threads',
               threads'[i] = [func |-> running[k], lcore |-> k]
        PROVE  counter'[i] = threads'[i]
    <3>1. i # s
      BY <1>4, <2>3, <2>5 DEF FreeThread
    <3>2. i \in DOMAIN threads /\ threads'[i] = threads[i]
      BY <1>4, <2>5, <3>1
    <3>3. i \in 1 .. ThreadLimit
      <4>1. i \in 1 .. Len(threads) /\ Len(threads) \in Nat
        BY <1>3, <3>2
      <4>2. Len(threads) <= ThreadLimit
        BY <1>3
      <4> QED
        BY <4>1, <4>2, ThreadLimitAssumption
    <3> QED
      BY <1>5, <2>5, <3>1, <3>2, <3>3 DEF WorkersInv, Entries
  <2> QED
    BY <1>4, <2>1, <2>2, <2>4, <2>5 DEF Entries
<1> QED
  BY <1>1, <1>3, <1>4, <1>5, <1>6, <1>7, VtyFrame

-----------------------------------------------------------------------------
(* The workers.                                                            *)

LEMMA WorkerEnterInv ==
  ASSUME WorkersInv, UNCHANGED site, NEW l \in Lcore, WorkerEnter(l)
  PROVE  WorkersInv'
<1> DEFINE f == running[l]
           t == [func |-> f, lcore |-> l]
           i0 == ThreadLookup(f, l)
<1>1. /\ f # NoFunc /\ l \notin inLoop
      /\ UNCHANGED <<worker, force_stop, force_quit, threads, vty, todo, rcuVars>>
      /\ \/ /\ f = "rib_manager" /\ ring /\ ring' = TRUE
            /\ running' = [running EXCEPT ![l] = NoFunc]
            /\ UNCHANGED <<inLoop, counter>>
         \/ /\ f = "rib_manager" => ~ring /\ ring' = TRUE
            /\ f # "rib_manager" => ring' = ring
            /\ inLoop' = inLoop \cup {l}
            /\ counter' = Counted(i0, t)
            /\ UNCHANGED running
  BY DEF WorkerEnter, CreateRing, queueVars
<1>2. /\ running \in [Lcore -> Func \cup {NoFunc, "lthread_main"}]
      /\ inLoop \subseteq Lcore /\ \A k \in inLoop : running[k] # NoFunc
      /\ \A k \in Lcore : running[k] = "lthread_main" <=> k = Main
      /\ Main \in inLoop /\ pending \subseteq Readers
      /\ counter \in [1 .. ThreadLimit -> Thread]
      /\ ring \in BOOLEAN
  BY DEF WorkersInv, Types, TypeOK
<1>3. l # Main /\ f \in Func /\ t \in Thread
  BY <1>1, <1>2 DEF Thread
<1>4. /\ i0 \in {0} \cup DOMAIN threads
      /\ i0 = 0 => \A i \in DOMAIN threads : threads[i] # t
      /\ i0 # 0 => threads[i0] = t
  BY <1>3, LookupFacts DEF WorkersInv
<1>5. DOMAIN threads \subseteq 1 .. ThreadLimit /\ 0 \notin DOMAIN threads
  <2>1. DOMAIN threads = 1 .. Len(threads) /\ Len(threads) \in Nat
    BY DEF WorkersInv, Types
  <2>2. Len(threads) <= ThreadLimit
    BY DEF WorkersInv, Types, TypeOK
  <2> QED
    BY <2>1, <2>2, ThreadLimitAssumption
<1> HIDE DEF f, i0
<1>6. CASE /\ f = "rib_manager" /\ ring /\ ring' = TRUE
           /\ running' = [running EXCEPT ![l] = NoFunc]
           /\ UNCHANGED <<inLoop, counter>>
  <2>1. \A k \in inLoop : running'[k] = running[k]
    BY <1>1, <1>2, <1>6
  <2>2. /\ running' \in [Lcore -> Func \cup {NoFunc, "lthread_main"}]
        /\ \A k \in Lcore : running'[k] = "lthread_main" <=> k = Main
        /\ \A k \in Lcore : running'[k] # NoFunc => running'[k] = running[k]
    BY <1>2, <1>3, <1>6, Functions
  <2>3. Readers' = Readers
    BY <1>6, <2>1 DEF Readers
  <2>4. TypeOK'
    BY <1>1, <1>6, <2>1, <2>2, <2>3 DEF WorkersInv, Types, TypeOK, rcuVars
  <2>5. Types'
    BY <1>1, <1>6, <2>2, <2>4 DEF WorkersInv, Types
  <2>6. VtyEntries'
    BY <1>1 DEF WorkersInv, VtyEntries
  <2>7. Entries'
    BY <1>1, <1>6, <2>1, <2>2 DEF WorkersInv, Entries
  <2>8. Restarts'
    BY <1>1, <1>6, <2>2 DEF WorkersInv, Restarts, Paired
  <2>9. Managers'
    BY <1>1, <1>6, <2>1 DEF WorkersInv, Managers, Managing, rcuVars
  <2> QED
    BY <2>5, <2>6, <2>7, <2>8, <2>9 DEF WorkersInv
<1>7. CASE /\ f = "rib_manager" => ~ring /\ ring' = TRUE
           /\ f # "rib_manager" => ring' = ring
           /\ inLoop' = inLoop \cup {l}
           /\ counter' = Counted(i0, t)
           /\ UNCHANGED running
  <2>1. /\ counter' \in [1 .. ThreadLimit -> Thread]
        /\ i0 # 0 => counter'[i0] = t
        /\ \A i \in 1 .. ThreadLimit : i # i0 => counter'[i] = counter[i]
    <3>1. CASE i0 = 0
      BY <1>2, <1>7, <3>1 DEF Counted
    <3>2. CASE i0 # 0
      <4>1. counter' = [counter EXCEPT ![i0] = t] /\ i0 \in 1 .. ThreadLimit
        BY <1>4, <1>5, <1>7, <3>2 DEF Counted
      <4> QED
        BY <1>2, <1>3, <3>2, <4>1
    <3> QED
      BY <3>1, <3>2
  <2>2. Readers \subseteq Readers'
    BY <1>7 DEF Readers
  <2>3. TypeOK'
    <3>1. DOMAIN counter' = 1 .. ThreadLimit
      BY <2>1
    <3>2. inLoop' \subseteq Lcore /\ \A k \in inLoop' : running'[k] # NoFunc
      BY <1>1, <1>2, <1>7 DEF f
    <3> QED
      BY <1>1, <1>7, <2>2, <3>1, <3>2 DEF WorkersInv, Types, TypeOK, rcuVars
  <2>4. Types'
    BY <1>1, <1>2, <1>7, <2>1, <2>3 DEF WorkersInv, Types
  <2>5. VtyEntries'
    BY <1>1 DEF WorkersInv, VtyEntries
  <2>6. Entries'
    <3>1. ASSUME Len(threads) < ThreadLimit, NEW k \in inLoop' \ {Main},
                 NEW i \in DOMAIN threads,
                 threads[i] = [func |-> running[k], lcore |-> k]
          PROVE  counter'[i] = threads[i]
      <4>1. CASE k = l
        <5>1. threads[i] = t
          BY <3>1, <4>1 DEF f
        <5>2. i0 # 0 /\ threads[i0] = t /\ i0 \in DOMAIN threads
          BY <1>4, <5>1, <3>1
        <5>3. i = i0
          BY <1>3, <3>1, <5>1, <5>2 DEF WorkersInv, Entries
        <5> QED
          BY <2>1, <5>1, <5>2, <5>3
      <4>2. CASE k # l
        <5>1. k \in inLoop \ {Main}
          BY <1>7, <3>1, <4>2
        <5>2. i # i0
          BY <1>4, <1>5, <3>1, <4>2
        <5> QED
          BY <1>5, <2>1, <3>1, <5>1, <5>2 DEF WorkersInv, Entries
      <4> QED
        BY <4>1, <4>2
    <3> QED
      BY <1>1, <1>7, <3>1 DEF WorkersInv, Entries
  <2>7. Restarts'
    BY <1>1, <1>7, RestartsFrame
  <2>8. Managers'
    <3>1. \A k \in Lcore : Managing(k)' =>
            Managing(k) \/ (k = l /\ f = "rib_manager")
      BY <1>7 DEF Managing, f
    <3>2. manager' = manager
      BY <1>1 DEF rcuVars
    <3>3. CASE f = "rib_manager"
      <4>1. ~manager /\ \A k \in Lcore : ~Managing(k)
        BY <1>7, <3>3 DEF WorkersInv, Managers
      <4> QED
        BY <1>7, <3>1, <3>2, <3>3, <4>1 DEF Managers
    <3>4. CASE f # "rib_manager"
      BY <1>7, <3>1, <3>2, <3>4 DEF WorkersInv, Managers
    <3> QED
      BY <3>3, <3>4
  <2> QED
    BY <2>4, <2>5, <2>6, <2>7, <2>8 DEF WorkersInv
<1> QED
  BY <1>1, <1>6, <1>7

LEMMA WorkerExitInv ==
  ASSUME WorkersInv, UNCHANGED site, NEW l \in Lcore, WorkerExit(l)
  PROVE  WorkersInv'
<1>1. /\ l \in inLoop \ {Main}
      /\ running' = [running EXCEPT ![l] = NoFunc]
      /\ inLoop' = inLoop \ {l} /\ pending' = pending \ {l}
      /\ UNCHANGED <<worker, force_stop, force_quit, registryVars, todo, manager,
                     sync>>
      /\ running[l] # "rib_manager" => ring' = ring
      /\ ring \in BOOLEAN => ring' \in BOOLEAN
  BY DEF WorkerExit, FreeRing, queueVars
<1>2. /\ running \in [Lcore -> Func \cup {NoFunc, "lthread_main"}]
      /\ inLoop \subseteq Lcore /\ \A k \in inLoop : running[k] # NoFunc
      /\ \A k \in Lcore : running[k] = "lthread_main" <=> k = Main
      /\ Main \in inLoop /\ pending \subseteq Readers
  BY DEF WorkersInv, Types, TypeOK
<1>3. /\ running' \in [Lcore -> Func \cup {NoFunc, "lthread_main"}]
      /\ \A k \in Lcore \ {l} : running'[k] = running[k]
      /\ running'[l] = NoFunc
      /\ \A k \in Lcore : running'[k] = "lthread_main" <=> k = Main
  BY <1>1, <1>2, Functions
<1>4. pending' \subseteq Readers'
  BY <1>1, <1>2, <1>3, LcoreAssumption DEF Readers
<1>5. TypeOK'
  <2>1. inLoop' \subseteq Lcore /\ \A k \in inLoop' : running'[k] # NoFunc
    BY <1>1, <1>2, <1>3
  <2> QED
    BY <1>1, <1>3, <1>4, <2>1 DEF WorkersInv, Types, TypeOK, registryVars
<1>6. Types'
  BY <1>1, <1>2, <1>3, <1>5 DEF WorkersInv, Types, registryVars
<1>7. VtyEntries'
  BY <1>1 DEF WorkersInv, VtyEntries, registryVars
<1>8. Entries'
  BY <1>1, <1>2, <1>3 DEF WorkersInv, Entries, registryVars
<1>9. Restarts'
  BY <1>1, <1>3 DEF WorkersInv, Restarts, Paired
<1>10. Managers'
  <2>1. \A k \in Lcore : Managing(k)' => Managing(k) /\ k # l
    BY <1>1, <1>2, <1>3 DEF Managing
  <2>2. CASE running[l] = "rib_manager"
    <3>1. Managing(l)
      BY <1>1, <2>2 DEF Managing
    <3> QED
      BY <1>1, <2>1, <3>1 DEF WorkersInv, Managers
  <2>3. CASE running[l] # "rib_manager"
    BY <1>1, <2>1, <2>3 DEF WorkersInv, Managers
  <2> QED
    BY <2>2, <2>3
<1> QED
  BY <1>6, <1>7, <1>8, <1>9, <1>10 DEF WorkersInv

-----------------------------------------------------------------------------
(* The theorems.                                                           *)

LEMMA StepWorkersInv == WorkersInv /\ [Next]_vars => WorkersInv'
<1> SUFFICES ASSUME WorkersInv, [Next]_vars PROVE WorkersInv'
  OBVIOUS
<1>1. CASE UNCHANGED vars
  <2>1. UNCHANGED <<site, worker, running, inLoop, force_stop, force_quit,
                    registryVars, rcuVars, queueVars, todo>>
    BY <1>1 DEF vars, registryVars, rcuVars, queueVars
  <2>2. Types'
    BY <2>1, CommandTypes DEF WorkersInv, Types, TypeOK
  <2> QED
    BY <2>1, <2>2, RegistryFrame, ManagersFrame, RestartsFrame
       DEF WorkersInv, rcuVars, queueVars
<1>2. CASE Next
  <2>1. UNCHANGED site
    BY <1>2 DEF Next
  <2>2. CASE Command
    <3>1. Stoppable \subseteq Lcore /\ site.lcore \cup {Main} \subseteq Lcore
          /\ site.vty \subseteq Vty
      BY SiteAssumption, LcoreAssumption DEF Stoppable, WorkersInv, Types
    <3> QED
      BY <2>1, <2>2, <3>1, CommandInv, StartManagerInv, VtyConnectInv DEF Command
  <2>3. CASE Operation
    BY <2>1, <2>3, StopLcoreInv, WaitLcoreInv, StartLcoreInv DEF Operation
  <2>4. CASE \E c \in Vty : VtyExit(c)
    BY <2>1, <2>4, VtyExitInv
  <2>5. CASE Sigterm \/ SyncEnd \/ \E l \in Lcore : Quiescent(l) \/ SyncStart(l)
    BY <2>1, <2>5, QuietInv
  <2>6. CASE \E l \in Lcore : WorkerEnter(l) \/ WorkerExit(l)
    BY <2>1, <2>6, WorkerEnterInv, WorkerExitInv
  <2>7. CASE ManagerExit
    BY <2>1, <2>7, ManagerExitInv
  <2> QED
    BY <1>2, <2>2, <2>3, <2>4, <2>5, <2>6, <2>7 DEF Next, Worker
<1> QED
  BY <1>1, <1>2

LEMMA WorkersInvHolds == Spec => []WorkersInv
BY InitWorkersInv, StepWorkersInv, PTL DEF Spec

\* Whatever is started and stopped, on lcores or as an lthread, at most one
\* rib_manager is in its loop: the name of its ring keeps a second one out.
THEOREM SingleManager == Spec => []OneManager
<1>1. WorkersInv => OneManager
  <2> SUFFICES ASSUME WorkersInv PROVE OneManager
    OBVIOUS
  <2> DEFINE M == {l \in inLoop : running[l] = "rib_manager"}
  <2>1. inLoop \subseteq Lcore
    BY DEF WorkersInv, Types, TypeOK
  <2>2. \A l \in M : l \in Lcore /\ Managing(l)
    BY <2>1 DEF Managing
  <2>3. \A l, k \in M : l = k
    BY <2>2 DEF WorkersInv, Managers
  <2>4. M # {} => ~manager
    BY <2>2 DEF WorkersInv, Managers
  <2>5. CASE M = {}
    <3>1. Cardinality(M) = 0
      BY <2>5, FS_EmptySet
    <3> QED
      BY <3>1 DEF OneManager
  <2>6. CASE M # {}
    <3>1. PICK l : M = {l}
      BY <2>3, <2>6
    <3>2. Cardinality(M) = 1
      BY <3>1, FS_Singleton
    <3> QED
      BY <2>4, <2>6, <3>2 DEF OneManager
  <2> QED
    BY <2>5, <2>6
<1> QED
  BY <1>1, WorkersInvHolds, PTL

\* thread_lookup_by_lcore and thread_register_loop_counter: as long as the
\* registry has room, every worker's entry shows its own counter, whatever
\* vty shells and other workers take entries and give them back.
THEOREM CountersShown == Spec => []CounterShown
<1>1. WorkersInv => CounterShown
  <2> SUFFICES ASSUME WorkersInv PROVE CounterShown
    OBVIOUS
  <2>1. TypeOK
    BY DEF WorkersInv, Types
  <2>2. ASSUME Len(threads) < ThreadLimit, NEW l \in inLoop \ {Main}
        PROVE  /\ ThreadLookup(running[l], l) # 0
               /\ counter[ThreadLookup(running[l], l)]
                    = [func |-> running[l], lcore |-> l]
    <3>1. l \in Lcore \ {Main} /\ running[l] \in Func /\ running[l] # NoFunc
      BY <2>2 DEF WorkersInv, Types, TypeOK
    <3>2. \E i \in DOMAIN threads :
            threads[i] = [func |-> running[l], lcore |-> l]
      BY <2>2, <3>1 DEF WorkersInv, Entries
    <3>3. /\ ThreadLookup(running[l], l) # 0
          /\ ThreadLookup(running[l], l) \in DOMAIN threads
          /\ threads[ThreadLookup(running[l], l)]
               = [func |-> running[l], lcore |-> l]
      BY <3>1, <3>2, LookupFacts DEF WorkersInv
    <3> QED
      BY <2>2, <3>3 DEF WorkersInv, Entries
  <2> QED
    BY <2>1, <2>2 DEF CounterShown
<1> QED
  BY <1>1, WorkersInvHolds, PTL

\* start_stop_worker: when the start of a restart is done, the lcore runs the
\* function that was set, because its stop has waited for the old one.
THEOREM RestartsRun == Spec => RestartRuns
<1>1. ASSUME WorkersInv, NEW l \in Lcore \ {Main}, StartLcore(l),
             Head(todo).after
      PROVE  running'[l] = worker[l]
  <2>1. todo # <<>> /\ Head(todo).lcore = l
    BY <1>1 DEF StartLcore
  <2>2. running[l] = NoFunc
    BY <1>1, <2>1 DEF WorkersInv, Restarts
  <2>3. running \in [Lcore -> Func \cup {NoFunc, "lthread_main"}]
    BY <1>1 DEF WorkersInv, Types, TypeOK
  <2> QED
    BY <1>1, <2>2, <2>3 DEF StartLcore
<1>2. WorkersInv => [\A l \in Lcore \ {Main} :
        (StartLcore(l) /\ Head(todo).after) => running'[l] = worker[l]]_vars
  BY <1>1
<1> QED
  BY <1>2, WorkersInvHolds, PTL DEF RestartRuns
=============================================================================
