--------------------------- MODULE RibRcu_proofs ----------------------------
(***************************************************************************)
(* Proofs about RibRcu: Protocol is inductive, so the safety properties    *)
(* hold for any number of lcores, ports, queues, routes and addresses, and *)
(* for any size of the ring and of the bursts.  RibInv adds what the       *)
(* workers see: the published FIB is the routing table, and RibRcu         *)
(* implements RibSnapshot.                                                 *)
(***************************************************************************)
EXTENDS RibRcu, TLAPS, SequenceTheorems

-----------------------------------------------------------------------------
(* Facts about the operators.                                              *)

LEMMA TupleFacts ==
  ASSUME NEW x, NEW y, NEW z
  PROVE  /\ <<x>> # <<>> /\ Head(<<x>>) = x /\ Tail(<<x>>) = <<>>
         /\ <<y, z>> # <<>> /\ Head(<<y, z>>) = y /\ Tail(<<y, z>>) = <<z>>
         /\ <<x>> # <<y, z>>
OBVIOUS

LEMMA NoQueuesType == NoQueues \in Qconf
BY DEF NoQueues, Qconf

LEMMA UnusedType == Unused \in RibRecord /\ ZeroRib \in RibRecord
BY NoQueuesType DEF Unused, ZeroRib, RibRecord

LEMMA ReassignType ==
  ASSUME NEW qc \in Qconf, NEW l \in Lcore, NEW q \in Queue
  PROVE  Reassign(qc, l, q) \in Qconf
BY DEF Reassign, Qconf

LEMMA MergeType ==
  ASSUME NEW old \in Qconf, NEW msg \in Qconf
  PROVE  MergeQconf(old, msg) \in Qconf
BY DEF MergeQconf, Qconf

LEMMA CopyFacts ==
  ASSUME NEW r \in RibRecord
  PROVE  /\ [r EXCEPT !.ver = @ + 1, !.fib = {}] \in RibRecord
         /\ [r EXCEPT !.ver = @ + 1, !.fib = {}].live = r.live
         /\ [r EXCEPT !.ver = @ + 1, !.fib = {}].stopped = r.stopped
         /\ [r EXCEPT !.ver = @ + 1, !.fib = {}].qconf = r.qconf
<1>1. PICK n \in Nat : n = r.ver + 1
  BY DEF RibRecord
<1>2. /\ [r EXCEPT !.ver = n, !.fib = {}] \in RibRecord
      /\ [r EXCEPT !.ver = n, !.fib = {}].live = r.live
      /\ [r EXCEPT !.ver = n, !.fib = {}].stopped = r.stopped
      /\ [r EXCEPT !.ver = n, !.fib = {}].qconf = r.qconf
  BY DEF RibRecord
<1> QED
  BY <1>1, <1>2

\* What the manager's copy takes over from the published rib.
LEMMA RibCreateFacts ==
  ASSUME TypeOK, Owned, StopFlags, mpc = "idle"
  PROVE  /\ RibCreate(gptr) \in RibRecord
         /\ RibCreate(gptr).live = TRUE
         /\ RibCreate(gptr).stopped = FALSE
         /\ gptr = NoRib => RibCreate(gptr).qconf = NoQueues
         /\ gptr # NoRib => RibCreate(gptr).qconf = heap[gptr].qconf
<1>1. CASE gptr = NoRib
  <2>1. RibCreate(gptr) =
          [live |-> TRUE, info |-> TRUE, ver |-> 1, qconf |-> NoQueues,
           fib |-> {}, stopped |-> FALSE]
    BY <1>1 DEF RibCreate, Unused
  <2> QED
    BY <1>1, <2>1, NoQueuesType DEF RibRecord
<1>2. CASE gptr \in Addr
  <2>1. heap[gptr] \in RibRecord
    BY <1>2 DEF TypeOK
  <2>2. RibCreate(gptr) = [heap[gptr] EXCEPT !.ver = @ + 1, !.fib = {}]
    BY <1>2, NoRibAssumption DEF RibCreate
  <2>3. heap[gptr].live = TRUE /\ heap[gptr].stopped = FALSE
    BY <1>2, <2>1 DEF Owned, StopFlags, RibRecord
  <2> QED
    BY <1>2, <2>1, <2>2, <2>3, CopyFacts, NoRibAssumption
<1> QED
  BY <1>1, <1>2 DEF TypeOK

LEMMA NoQueuesDisjoint == Disjoint(NoQueues)
BY DEF Disjoint, NoQueues

LEMMA RibCheckDisjoint ==
  ASSUME NEW qc \in Qconf, RibCheck(qc)
  PROVE  Disjoint(qc)
BY DEF RibCheck, Disjoint

-----------------------------------------------------------------------------
(* The initial state.                                                      *)

LEMMA InitInv == Init => Protocol
<1> SUFFICES ASSUME Init PROVE Protocol
  OBVIOUS
<1> USE DEF Init
<1>1. TypeOK
  BY NoQueuesType, UnusedType, NoRibAssumption DEF TypeOK
<1>2. Phase
  BY DEF Phase
<1>3. Owned
  BY NoRibAssumption DEF Owned, Unused
<1>4. StopFlags
  BY DEF StopFlags, Unused
<1>5. Readers /\ Polling
  BY DEF Readers, Polling
<1>6. Queues
  BY NoRibAssumption DEF Queues
<1> QED
  BY <1>1, <1>2, <1>3, <1>4, <1>5, <1>6 DEF Protocol

-----------------------------------------------------------------------------
(* Steps that leave the ribs alone.                                        *)

\* The state Protocol speaks of, but for the senders' part of it.
LEMMA Framed ==
  ASSUME Protocol, UNCHANGED <<mgrVars, waiting, workerVars>>,
         thread_qconf' \in Qconf, ring' \in Seq(Message)
  PROVE  Protocol'
<1> USE DEF mgrVars, workerVars
<1>1. TypeOK'
  BY DEF Protocol, TypeOK
<1>2. Phase' /\ Owned' /\ StopFlags'
  BY DEF Protocol, Phase, Owned, StopFlags
<1>3. Readers' /\ Polling'
  BY DEF Protocol, Readers, Polling
<1>4. Queues => Queues'
  BY DEF Queues, Compatible
<1> QED
  BY <1>1, <1>2, <1>3, <1>4 DEF Protocol

LEMMA SendToType ==
  ASSUME TypeOK, NEW m \in Message, SendTo(m)
  PROVE  ring' \in Seq(Message)
BY DEF TypeOK, SendTo

LEMMA SetThreadQueueInv ==
  ASSUME Protocol, NEW l \in Lcore, NEW q \in Queue, SetThreadQueue(l, q)
  PROVE  Protocol'
<1>1. thread_qconf' \in Qconf
  BY ReassignType DEF SetThreadQueue, Protocol, TypeOK
<1>2. [type |-> "qconf", qconf |-> thread_qconf', routes |-> {}] \in Message
  BY <1>1 DEF Message, MsgTypes
<1>3. ring' \in Seq(Message)
  BY <1>2, SendToType DEF SetThreadQueue, Protocol
<1> QED
  BY <1>1, <1>3, Framed DEF SetThreadQueue

LEMMA SendOtherInv ==
  ASSUME Protocol, NEW t \in MsgType, NEW r \in SUBSET Route, SendOther(t, r)
  PROVE  Protocol'
<1>1. [type |-> t, qconf |-> NoQueues, routes |-> r] \in Message
  BY NoQueuesType, MsgTypeAssumption DEF Message
<1>2. ring' \in Seq(Message)
  BY <1>1, SendToType DEF SendOther, Protocol
<1> QED
  BY <1>2, Framed DEF SendOther, shellVars, Protocol, TypeOK

\* The workers do not touch what the manager owns.
LEMMA WorkerFrame ==
  ASSUME Protocol, UNCHANGED <<shellVars, ring, mgrVars>>
  PROVE  Phase' /\ Owned' /\ StopFlags' /\ (Queues => Queues')
BY DEF Protocol, Phase, Owned, StopFlags, Queues, Compatible, mgrVars

LEMMA StartInv ==
  ASSUME Protocol, NEW l \in Lcore, Start(l)
  PROVE  Protocol'
<1> USE DEF Start, mgrVars, shellVars
<1>1. TypeOK'
  BY DEF Protocol, TypeOK
<1>2. Readers' /\ Polling'
  BY DEF Protocol, TypeOK, Readers, Polling
<1> QED
  BY <1>1, <1>2, WorkerFrame DEF Protocol

LEMMA StopInv ==
  ASSUME Protocol, NEW l \in Lcore, Stop(l)
  PROVE  Protocol'
<1> USE DEF Stop, mgrVars, shellVars
<1>1. TypeOK'
  BY DEF Protocol, TypeOK
<1>2. Readers' /\ Polling'
  BY DEF Protocol, TypeOK, Readers, Polling
<1> QED
  BY <1>1, <1>2, WorkerFrame DEF Protocol

LEMMA DereferenceInv ==
  ASSUME Protocol, NEW l \in Lcore, Dereference(l)
  PROVE  Protocol'
<1> USE DEF Dereference, mgrVars, shellVars
<1>1. TypeOK'
  BY DEF Protocol, TypeOK
<1>2. Readers' /\ Polling'
  BY DEF Protocol, TypeOK, Readers, Polling
<1> QED
  BY <1>1, <1>2, WorkerFrame DEF Protocol

LEMMA BeginPollInv ==
  ASSUME Protocol, NEW l \in Lcore, NEW q \in Queue, BeginPoll(l, q)
  PROVE  Protocol'
<1> USE DEF BeginPoll, mgrVars, shellVars
<1>1. TypeOK'
  BY DEF Protocol, TypeOK
<1>2. Readers'
  BY DEF Protocol, TypeOK, Readers
<1>3. wrib[l] \in Addr /\ heap[wrib[l]].info /\ q \in heap[wrib[l]].qconf[l]
  BY DEF Protocol, TypeOK, ToPoll
<1>4. Polling'
  BY <1>3 DEF Protocol, TypeOK, Polling
<1> QED
  BY <1>1, <1>2, <1>4, WorkerFrame DEF Protocol

LEMMA SkipStoppedInv ==
  ASSUME Protocol, NEW l \in Lcore, NEW q \in Queue, SkipStopped(l, q)
  PROVE  Protocol'
<1> USE DEF SkipStopped, mgrVars, shellVars
<1>1. TypeOK'
  BY DEF Protocol, TypeOK
<1>2. Readers' /\ Polling'
  BY DEF Protocol, TypeOK, Readers, Polling
<1> QED
  BY <1>1, <1>2, WorkerFrame DEF Protocol

LEMMA EndPollInv ==
  ASSUME Protocol, NEW l \in Lcore, EndPoll(l)
  PROVE  Protocol'
<1> USE DEF EndPoll, mgrVars, shellVars
<1>1. TypeOK'
  BY DEF Protocol, TypeOK
<1>2. Readers' /\ Polling'
  BY DEF Protocol, TypeOK, Readers, Polling
<1> QED
  BY <1>1, <1>2, WorkerFrame DEF Protocol

LEMMA QuiescentInv ==
  ASSUME Protocol, NEW l \in Lcore, Quiescent(l)
  PROVE  Protocol'
<1> USE DEF Quiescent, mgrVars, shellVars
<1>1. TypeOK'
  BY DEF Protocol, TypeOK
<1>2. Readers' /\ Polling'
  BY DEF Protocol, TypeOK, Readers, Polling
<1> QED
  BY <1>1, <1>2, WorkerFrame DEF Protocol

-----------------------------------------------------------------------------
(* Steps of the manager.                                                   *)

LEMMA RecvBurstInv == Protocol /\ RecvBurst => Protocol'
<1> SUFFICES ASSUME Protocol, RecvBurst PROVE Protocol'
  OBVIOUS
<1> USE DEF RecvBurst, shellVars, workerVars
<1> DEFINE n == IF Len(ring) < Burst THEN Len(ring) ELSE Burst
<1>1. ring \in Seq(Message)
  BY DEF Protocol, TypeOK
<1>2. n \in Nat /\ n <= Len(ring)
  BY <1>1, RingAssumption
<1>3. batch' \in Seq(Message)
  <2>1. batch' = SubSeq(ring, 1, n)
    OBVIOUS
  <2>2. \A i \in 1 .. n : ring[i] \in Message
    BY <1>1, <1>2
  <2> QED
    BY <1>1, <1>2, <2>1, <2>2
<1>4. ring' \in Seq(Message)
  <2>1. ring' = SubSeq(ring, n + 1, Len(ring))
    OBVIOUS
  <2>2. \A i \in (n + 1) .. Len(ring) : ring[i] \in Message
    BY <1>1, <1>2
  <2> QED
    BY <1>1, <1>2, <2>1, <2>2
<1>5. TypeOK'
  BY <1>3, <1>4 DEF Protocol, TypeOK
<1>6. Phase' /\ Owned' /\ StopFlags' /\ Readers' /\ Polling'
  BY DEF Protocol, Phase, Owned, StopFlags, Readers, Polling
<1>7. Queues => Queues'
  BY DEF Queues, Compatible
<1> QED
  BY <1>5, <1>6, <1>7 DEF Protocol

LEMMA QconfCrashInv == Protocol /\ QconfCrash => Protocol'
<1> SUFFICES ASSUME Protocol, QconfCrash PROVE Protocol'
  OBVIOUS
<1> USE DEF QconfCrash, shellVars, workerVars
<1>1. TypeOK'
  BY DEF Protocol, TypeOK
<1>2. Phase' /\ Owned' /\ StopFlags' /\ Readers' /\ Polling'
  BY DEF Protocol, Phase, Owned, StopFlags, Readers, Polling
<1>3. Queues => Queues'
  BY DEF Queues, Compatible
<1> QED
  BY <1>1, <1>2, <1>3 DEF Protocol

LEMMA BeginCheckInv ==
  ASSUME Protocol, mpc = "idle", batch # <<>>, NEW a \in FreeAddr,
         BeginCheck(a, RibCreate(gptr)), mnew' = a,
         UNCHANGED <<shellVars, ring, batch, gptr, mold, mspare, waiting,
                     workerVars>>
  PROVE  Protocol'
<1> USE DEF shellVars, workerVars
<1> DEFINE copy == RibCreate(gptr)
           new == IF Head(batch).type = "qconf"
                  THEN [copy EXCEPT !.qconf = MergeQconf(@, Head(batch).qconf)]
                  ELSE copy
<1>1. /\ copy \in RibRecord /\ copy.live = TRUE /\ copy.stopped = FALSE
      /\ gptr = NoRib => copy.qconf = NoQueues
      /\ gptr # NoRib => copy.qconf = heap[gptr].qconf
  BY RibCreateFacts DEF Protocol
<1>2. a \in Addr /\ a \notin {gptr, mold} /\ ~heap[a].live
  BY DEF FreeAddr, Protocol, Owned
<1>3. Head(batch) \in Message
  BY DEF Protocol, TypeOK
<1> HIDE DEF copy
<1>4. MergeQconf(copy.qconf, Head(batch).qconf) \in Qconf
  BY <1>1, <1>3, MergeType DEF RibRecord, Message
<1>5. /\ new \in RibRecord /\ new.live = TRUE /\ new.stopped = FALSE
      /\ Head(batch).type # "qconf" => new.qconf = copy.qconf
  BY <1>1, <1>4 DEF RibRecord
<1> HIDE DEF new
<1>6. /\ mpc' = "check" /\ pub' = <<a>> /\ master' = master
      /\ heap' = [b \in Addr |-> IF b = a THEN new
                                 ELSE IF b = gptr
                                 THEN [heap[b] EXCEPT !.stopped = TRUE]
                                 ELSE heap[b]]
  BY DEF BeginCheck, copy, new
<1>7. /\ heap'[a] = new
      /\ \A b \in Addr \ {a} : /\ heap'[b].live = heap[b].live
                                /\ heap'[b].info = heap[b].info
                                /\ heap'[b].qconf = heap[b].qconf
      /\ \A b \in Addr \ {a, gptr} : heap'[b] = heap[b]
      /\ heap' \in [Addr -> RibRecord]
  BY <1>2, <1>5, <1>6 DEF Protocol, TypeOK, RibRecord
<1>8. TypeOK'
  BY <1>2, <1>6, <1>7 DEF Protocol, TypeOK
<1>9. Phase'
  BY <1>2, <1>6 DEF Protocol, Phase
<1>10. Owned'
  BY <1>2, <1>5, <1>6, <1>7, NoRibAssumption DEF Protocol, Owned, Phase
<1>11. StopFlags'
  BY <1>5, <1>6, <1>7 DEF Protocol, StopFlags
<1>12. Readers'
  BY <1>6 DEF Protocol, Readers
<1>13. Polling'
  <2>1. \A l \in Lcore : wpc[l] = "poll" => wrib[l] \in Addr \ {a}
    BY <1>2, NoRibAssumption DEF Protocol, Polling, Readers
  <2> QED
    BY <1>7, <2>1 DEF Protocol, Polling
<1>14. Queues => Queues'
  <2> SUFFICES ASSUME Queues PROVE Queues'
    OBVIOUS
  <2>1. Disjoint(copy.qconf)
    BY <1>1, NoQueuesDisjoint DEF Queues, Protocol, TypeOK
  <2>2. \A b \in Addr : b \in {gptr, mold} => Disjoint(heap'[b].qconf)
    BY <1>2, <1>7 DEF Queues
  <2>3. Head(batch).type # "qconf" =>
          Disjoint(heap'[a].qconf)
          /\ (gptr \in Addr => heap'[a].qconf = heap'[gptr].qconf)
    BY <1>1, <1>2, <1>5, <1>7, <2>1, NoRibAssumption
  <2> QED
    BY <1>6, <2>2, <2>3 DEF Queues, Compatible
<1> QED
  BY <1>8, <1>9, <1>10, <1>11, <1>12, <1>13, <1>14 DEF Protocol

LEMMA BeginPlainInv ==
  ASSUME Protocol, mpc = "idle", batch # <<>>, NEW a \in FreeAddr,
         BeginPlain(a, RibCreate(gptr)), mnew' = a,
         UNCHANGED <<shellVars, ring, batch, gptr, mold, mspare, waiting,
                     workerVars>>
  PROVE  Protocol'
<1> USE DEF shellVars, workerVars
<1> DEFINE copy == RibCreate(gptr)
<1>1. /\ copy \in RibRecord /\ copy.live = TRUE /\ copy.stopped = FALSE
      /\ gptr = NoRib => copy.qconf = NoQueues
      /\ gptr # NoRib => copy.qconf = heap[gptr].qconf
  BY RibCreateFacts DEF Protocol
<1>2. a \in Addr /\ a \notin {gptr, mold} /\ ~heap[a].live
  BY DEF FreeAddr, Protocol, Owned
<1>3. Head(batch) \in Message
  BY DEF Protocol, TypeOK
<1>4. /\ mpc' = "publish" /\ pub' = <<a>>
      /\ heap' = [heap EXCEPT ![a] = copy]
      /\ master' \in SUBSET Route
  BY <1>3 DEF BeginPlain, Message, Protocol, TypeOK
<1> HIDE DEF copy
<1>5. /\ heap'[a] = copy
      /\ \A b \in Addr \ {a} : heap'[b] = heap[b]
      /\ heap' \in [Addr -> RibRecord]
  BY <1>1, <1>2, <1>4 DEF Protocol, TypeOK
<1>6. TypeOK'
  BY <1>2, <1>4, <1>5 DEF Protocol, TypeOK
<1>7. Phase'
  BY <1>2, <1>4 DEF Protocol, Phase
<1>8. Owned'
  BY <1>1, <1>2, <1>4, <1>5, NoRibAssumption DEF Protocol, Owned, Phase
<1>9. StopFlags'
  BY <1>1, <1>4, <1>5 DEF Protocol, StopFlags
<1>10. Readers'
  BY <1>4 DEF Protocol, Readers
<1>11. Polling'
  <2>1. \A l \in Lcore : wpc[l] = "poll" => wrib[l] \in Addr \ {a}
    BY <1>2, NoRibAssumption DEF Protocol, Polling, Readers
  <2> QED
    BY <1>5, <2>1 DEF Protocol, Polling
<1>12. Queues => Queues'
  <2> SUFFICES ASSUME Queues PROVE Queues'
    OBVIOUS
  <2>1. Disjoint(copy.qconf)
    BY <1>1, NoQueuesDisjoint DEF Queues, Protocol, TypeOK
  <2>2. \A b \in Addr : b \in {gptr, mold} => Disjoint(heap'[b].qconf)
    BY <1>2, <1>5 DEF Queues
  <2>3. gptr \in Addr => heap'[a].qconf = heap'[gptr].qconf
    BY <1>1, <1>2, <1>5, NoRibAssumption
  <2> QED
    BY <1>4, <1>5, <2>1, <2>2, <2>3 DEF Queues, Compatible
<1> QED
  BY <1>6, <1>7, <1>8, <1>9, <1>10, <1>11, <1>12 DEF Protocol

LEMMA BeginMessageInv ==
  ASSUME Protocol, NEW a \in Addr, BeginMessage(a)
  PROVE  Protocol'
BY BeginCheckInv, BeginPlainInv DEF BeginMessage

\* The two copies of a port_get message, as its handler and the caller of
\* that left them.
LEMMA PortGetInv ==
  ASSUME Protocol, NEW a \in Addr, NEW b \in Addr, PortGet(a, b)
  PROVE  Protocol'
<1> USE DEF PortGet, shellVars, workerVars
<1> DEFINE copy == RibCreate(gptr)
<1>1. /\ copy \in RibRecord /\ copy.live = TRUE /\ copy.stopped = FALSE
      /\ gptr = NoRib => copy.qconf = NoQueues
      /\ gptr # NoRib => copy.qconf = heap[gptr].qconf
  BY RibCreateFacts DEF Protocol
<1>2. /\ mnew = NoRib /\ pub = <<>> /\ mold = NoRib /\ mspare = NoRib
      /\ a \notin {gptr, mold} /\ b \notin {gptr, mold} /\ a # b
  BY DEF FreeAddr, Protocol, Owned, Phase
<1>3. heap' = [heap EXCEPT ![a] = copy, ![b] = copy]
  OBVIOUS
<1> HIDE DEF copy
<1>4. /\ heap'[a] = copy /\ heap'[b] = copy
      /\ \A c \in Addr \ {a, b} : heap'[c] = heap[c]
      /\ heap' \in [Addr -> RibRecord]
  BY <1>1, <1>3 DEF Protocol, TypeOK
<1>5. TypeOK'
  BY <1>4 DEF Protocol, TypeOK
<1>6. Phase'
  BY <1>2, NoRibAssumption, TupleFacts DEF Protocol, Phase
<1>7. Owned'
  <2> SUFFICES ASSUME NEW c \in Addr
               PROVE  heap'[c].live <=>
                        \/ c \in {gptr', mold', mnew', mspare'}
                        \/ pub' = <<c, mnew'>>
    BY DEF Owned
  <2>1. pub' # <<c, mnew'>> /\ pub # <<c, mnew>>
    BY <1>2, TupleFacts
  <2> QED
    BY <1>1, <1>2, <1>4, <2>1, NoRibAssumption DEF Protocol, Owned
<1>8. StopFlags'
  BY <1>1, <1>4 DEF Protocol, StopFlags
<1>9. Readers'
  BY DEF Protocol, Readers
<1>10. Polling'
  <2>1. \A l \in Lcore : wpc[l] = "poll" => wrib[l] \in Addr \ {a, b}
    BY <1>2, NoRibAssumption DEF Protocol, Polling, Readers
  <2> QED
    BY <1>4, <2>1 DEF Protocol, Polling
<1>11. Queues => Queues'
  <2> SUFFICES ASSUME Queues PROVE Queues'
    OBVIOUS
  <2>1. Disjoint(copy.qconf)
    BY <1>1, NoQueuesDisjoint DEF Queues, Protocol, TypeOK
  <2>2. \A c \in Addr : c \in {gptr, mold} => Disjoint(heap'[c].qconf)
    BY <1>2, <1>4 DEF Queues
  <2>3. gptr \in Addr => heap'[b].qconf = heap'[gptr].qconf
    BY <1>1, <1>2, <1>4, NoRibAssumption
  <2> QED
    BY <1>4, <2>1, <2>2, <2>3 DEF Queues, Compatible
<1> QED
  BY <1>5, <1>6, <1>7, <1>8, <1>9, <1>10, <1>11 DEF Protocol

\* Clearing the stop flags changes nothing else.
LEMMA ClearStoppedFacts ==
  ASSUME Protocol
  PROVE  /\ ClearStopped \in [Addr -> RibRecord]
         /\ \A b \in Addr : /\ ClearStopped[b].live = heap[b].live
                            /\ ClearStopped[b].info = heap[b].info
                            /\ ClearStopped[b].qconf = heap[b].qconf
                            /\ ClearStopped[b].stopped = FALSE
         /\ \A b \in Addr \ {gptr} : ClearStopped[b] = heap[b]
<1>1. \A b \in Addr : heap[b] \in RibRecord
  BY DEF Protocol, TypeOK
<1>2. \A b \in Addr : b # gptr => heap[b].stopped = FALSE
  BY <1>1 DEF Protocol, StopFlags, RibRecord
<1> QED
  BY <1>1, <1>2 DEF ClearStopped, RibRecord

LEMMA CheckFailsInv == Protocol /\ CheckFails => Protocol'
<1> SUFFICES ASSUME Protocol, CheckFails PROVE Protocol'
  OBVIOUS
<1> USE DEF CheckFails, shellVars, workerVars
<1>1. mnew \in Addr /\ mnew # gptr /\ mold = NoRib /\ batch # <<>>
      /\ pub = <<mnew>>
  BY DEF Protocol, Phase
<1>2. /\ heap' \in [Addr -> RibRecord]
      /\ heap'[mnew] = Unused
      /\ \A b \in Addr \ {mnew} : /\ heap'[b].live = heap[b].live
                                   /\ heap'[b].info = heap[b].info
                                   /\ heap'[b].qconf = heap[b].qconf
                                   /\ heap'[b].stopped = FALSE
  BY <1>1, ClearStoppedFacts, UnusedType
<1>3. TypeOK'
  BY <1>1, <1>2 DEF Protocol, TypeOK
<1>4. Phase'
  BY <1>1 DEF Protocol, Phase
<1>5. Owned'
  <2> SUFFICES ASSUME NEW b \in Addr
               PROVE  heap'[b].live <=> \/ b \in {gptr, NoRib, mspare}
                                        \/ <<>> = <<b, NoRib>>
    BY <1>1 DEF Owned
  <2>1. mspare = NoRib
    BY DEF Protocol, Phase
  <2>2. heap[b].live <=> b \in {gptr, mnew}
    BY <1>1, <2>1, NoRibAssumption, TupleFacts DEF Protocol, Owned
  <2> QED
    BY <1>1, <1>2, <2>1, <2>2, NoRibAssumption, TupleFacts DEF Unused
<1>6. StopFlags'
  BY <1>2 DEF StopFlags, Unused
<1>7. Readers'
  BY DEF Protocol, Readers
<1>8. Polling'
  <2>1. \A l \in Lcore : wpc[l] = "poll" => wrib[l] \in Addr \ {mnew}
    BY <1>1, NoRibAssumption DEF Protocol, Polling, Readers
  <2> QED
    BY <1>2, <2>1 DEF Protocol, Polling
<1>9. Queues => Queues'
  BY <1>1, <1>2, NoRibAssumption DEF Queues
<1> QED
  BY <1>3, <1>4, <1>5, <1>6, <1>7, <1>8, <1>9 DEF Protocol

LEMMA CheckPassesInv == Protocol /\ CheckPasses => Protocol'
<1> SUFFICES ASSUME Protocol, CheckPasses PROVE Protocol'
  OBVIOUS
<1> USE DEF CheckPasses, shellVars, workerVars
<1>1. mnew \in Addr /\ mnew # gptr /\ mold = NoRib /\ pub = <<mnew>>
  BY DEF Protocol, Phase
<1>2. /\ heap' \in [Addr -> RibRecord]
      /\ \A b \in Addr : /\ heap'[b].live = heap[b].live
                         /\ heap'[b].info = heap[b].info
                         /\ heap'[b].qconf = heap[b].qconf
                         /\ heap'[b].stopped = FALSE
  BY ClearStoppedFacts
<1>3. TypeOK'
  BY <1>2 DEF Protocol, TypeOK
<1>4. Phase'
  BY <1>1 DEF Protocol, Phase
<1>5. Owned' /\ StopFlags' /\ Readers'
  BY <1>2 DEF Protocol, Owned, StopFlags, Readers
<1>6. Polling'
  BY <1>2 DEF Protocol, Polling
<1>7. Queues => Queues'
  BY <1>1, <1>2, NoRibAssumption DEF Queues, Compatible
<1> QED
  BY <1>3, <1>4, <1>5, <1>6, <1>7 DEF Protocol

LEMMA QconfPassesInv ==
  ASSUME Protocol, NEW z \in Addr, QconfPasses(z)
  PROVE  Protocol'
<1> USE DEF QconfPasses, shellVars, workerVars
<1>1. mnew \in Addr /\ mnew # gptr /\ mold = NoRib /\ pub = <<mnew>>
  BY DEF Protocol, Phase
<1>2. z \notin {gptr, mnew} /\ ~heap[z].live
  BY DEF FreeAddr, Protocol, Owned
<1>3. /\ heap' \in [Addr -> RibRecord]
      /\ heap'[z] = ZeroRib
      /\ \A b \in Addr \ {z} : /\ heap'[b].live = heap[b].live
                                /\ heap'[b].info = heap[b].info
                                /\ heap'[b].qconf = heap[b].qconf
                                /\ heap'[b].stopped = FALSE
  BY ClearStoppedFacts, UnusedType
<1>4. ZeroRib.live = TRUE /\ ZeroRib.stopped = FALSE
  BY DEF ZeroRib, Unused
<1>5. TypeOK'
  BY <1>3 DEF Protocol, TypeOK
<1>6. Phase'
  BY <1>1, <1>2, <1>3 DEF Protocol, Phase
<1>7. Owned'
  BY <1>1, <1>2, <1>3, <1>4 DEF Protocol, Owned
<1>8. StopFlags'
  BY <1>3, <1>4 DEF StopFlags
<1>9. Readers'
  BY DEF Protocol, Readers
<1>10. Polling'
  <2>1. \A l \in Lcore : wpc[l] = "poll" => wrib[l] \in Addr \ {z}
    BY <1>2, NoRibAssumption DEF Protocol, Polling, Readers
  <2> QED
    BY <1>3, <2>1 DEF Protocol, Polling
<1>11. Queues => Queues'
  <2>1. Disjoint(heap[mnew].qconf)
    BY <1>1, RibCheckDisjoint DEF Protocol, TypeOK, RibRecord
  <2> QED
    BY <1>1, <1>2, <1>3, <2>1, NoRibAssumption DEF Queues
<1> QED
  BY <1>5, <1>6, <1>7, <1>8, <1>9, <1>10, <1>11 DEF Protocol

\* Without the zero rib nothing is claimed of the queues.
LEMMA QconfPassesNoZeroInv == Protocol /\ QconfPassesNoZero => Protocol'
<1> SUFFICES ASSUME Protocol, QconfPassesNoZero PROVE Protocol'
  OBVIOUS
<1> USE DEF QconfPassesNoZero, shellVars, workerVars
<1>1. mnew \in Addr /\ mnew # gptr /\ mold = NoRib /\ pub = <<mnew>>
  BY DEF Protocol, Phase
<1>2. /\ heap' \in [Addr -> RibRecord]
      /\ \A b \in Addr : /\ heap'[b].live = heap[b].live
                         /\ heap'[b].info = heap[b].info
                         /\ heap'[b].qconf = heap[b].qconf
                         /\ heap'[b].stopped = FALSE
  BY ClearStoppedFacts
<1>3. TypeOK'
  BY <1>2 DEF Protocol, TypeOK
<1>4. Phase'
  BY <1>1 DEF Protocol, Phase
<1>5. Owned' /\ StopFlags' /\ Readers'
  BY <1>2 DEF Protocol, Owned, StopFlags, Readers
<1>6. Polling'
  BY <1>2 DEF Protocol, Polling
<1> QED
  BY <1>3, <1>4, <1>5, <1>6 DEF Protocol

LEMMA AssignInv == Protocol /\ Assign => Protocol'
<1> SUFFICES ASSUME Protocol, Assign PROVE Protocol'
  OBVIOUS
<1> USE DEF Assign, shellVars, workerVars
<1>1. mnew \in Addr /\ mnew # gptr /\ mold = NoRib /\ batch # <<>>
  BY DEF Protocol, Phase
<1>2. \/ pub = <<mnew>> /\ gptr' = mnew /\ pub' = <<>>
      \/ \E z \in Addr \ {gptr, mnew} :
           /\ pub = <<z, mnew>> /\ gptr' = z /\ pub' = <<mnew>>
           /\ heap[z] = ZeroRib
  <2>1. pub = <<mnew>> \/ \E z \in Addr : pub = <<z, mnew>>
    BY DEF Protocol, Phase, TypeOK
  <2>2. CASE pub = <<mnew>>
    BY <2>2, TupleFacts
  <2>3. CASE \E z \in Addr : pub = <<z, mnew>>
    BY <2>3, TupleFacts DEF Protocol, Phase
  <2> QED
    BY <2>1, <2>2, <2>3
<1>3. /\ heap' \in [Addr -> RibRecord]
      /\ \A b \in Addr : /\ heap'[b].live = heap[b].live
                         /\ heap'[b].info = heap[b].info
                         /\ heap'[b].qconf = heap[b].qconf
                         /\ heap'[b].stopped = heap[b].stopped
  BY <1>1, <1>2, ZenonT(60) DEF WithFib, Protocol, TypeOK, RibRecord
<1>4. ZeroRib.info = FALSE /\ ZeroRib.qconf = NoQueues
  BY DEF ZeroRib, Unused
<1>5. TypeOK'
  BY <1>1, <1>2, <1>3 DEF Protocol, TypeOK
<1>6. Phase'
  <2>1. mpc' = "assigned" /\ mnew' = mnew /\ mold' = gptr /\ batch' = batch
    OBVIOUS
  <2>2. \A z \in Addr : pub' # <<z, mnew>>
    BY <1>2, TupleFacts
  <2>3. gptr' \in Addr /\ mold' # gptr'
    BY <1>1, <1>2
  <2>4. \/ pub' = <<>> /\ gptr' = mnew
        \/ pub' = <<mnew>> /\ mnew \notin {gptr', mold'}
    BY <1>1, <1>2
  <2>5. mspare' # NoRib => mspare' \notin {gptr', mold', mnew'} /\ pub' = <<>>
    BY <1>1, <1>2, TupleFacts DEF Protocol, Phase
  <2> QED
    BY <1>1, <2>1, <2>2, <2>3, <2>4, <2>5 DEF Phase
<1>7. Owned'
  <2>1. ASSUME NEW a \in Addr
        PROVE  heap[a].live <=>
                 a \in {gptr, mnew, mspare} \/ pub = <<a, mnew>>
    BY <1>1, NoRibAssumption DEF Protocol, Owned
  <2>2. \A a \in Addr : pub' # <<a, mnew>>
    BY <1>2, TupleFacts
  <2>3. ASSUME NEW a \in Addr
        PROVE  a \in {gptr, mnew, mspare} \/ pub = <<a, mnew>> <=>
                 a \in {gptr', gptr, mnew, mspare}
    <3>1. CASE pub = <<mnew>> /\ gptr' = mnew
      BY <3>1, TupleFacts
    <3>2. CASE \E z \in Addr : pub = <<z, mnew>> /\ gptr' = z
      <4>1. PICK z \in Addr : pub = <<z, mnew>> /\ gptr' = z
        BY <3>2
      <4>2. <<z, mnew>> = <<a, mnew>> <=> z = a
        OBVIOUS
      <4> QED
        BY <4>1, <4>2
    <3> QED
      BY <1>2, <3>1, <3>2
  <2>4. mold' = gptr /\ mnew' = mnew /\ mspare' = mspare
    OBVIOUS
  <2>5. ASSUME NEW a \in Addr
        PROVE  heap'[a].live <=> \/ a \in {gptr', mold', mnew', mspare'}
                                 \/ pub' = <<a, mnew'>>
    BY <1>3, <2>1, <2>2, <2>3, <2>4
  <2> QED
    BY <2>5 DEF Owned
<1>8. StopFlags'
  BY <1>3 DEF Protocol, StopFlags
<1>9. Readers'
  BY DEF Protocol, Readers
<1>10. Polling'
  BY <1>3 DEF Protocol, Polling
<1>11. Queues => Queues'
  BY <1>1, <1>2, <1>3, <1>4, NoQueuesDisjoint DEF Queues, Compatible
<1> QED
  BY <1>5, <1>6, <1>7, <1>8, <1>9, <1>10, <1>11 DEF Protocol

LEMMA SyncStartInv == Protocol /\ SyncStart => Protocol'
<1> SUFFICES ASSUME Protocol, SyncStart PROVE Protocol'
  OBVIOUS
<1> USE DEF SyncStart, shellVars, workerVars
<1>1. TypeOK'
  BY DEF Protocol, TypeOK, Registered
<1>2. Phase' /\ Owned' /\ StopFlags' /\ Polling'
  BY DEF Protocol, Phase, Owned, StopFlags, Polling
<1>3. Readers'
  BY DEF Protocol, Readers, Registered
<1>4. Queues => Queues'
  BY DEF Queues, Compatible
<1> QED
  BY <1>1, <1>2, <1>3, <1>4 DEF Protocol

LEMMA ReclaimInv == Protocol /\ Reclaim => Protocol'
<1> SUFFICES ASSUME Protocol, Reclaim PROVE Protocol'
  OBVIOUS
<1> USE DEF Reclaim, shellVars, workerVars
<1>1. /\ gptr \in Addr /\ mold # gptr /\ mnew \in Addr /\ batch # <<>>
      /\ \/ pub = <<>> /\ gptr = mnew
         \/ pub = <<mnew>> /\ mnew \notin {gptr, mold} /\ mspare = NoRib
      /\ mspare \notin {gptr, mnew}
  BY NoRibAssumption, TupleFacts DEF Protocol, Phase
<1>2. /\ heap' \in [Addr -> RibRecord]
      /\ \A b \in Addr \cap {mold, mspare} : heap'[b] = Unused
      /\ \A b \in Addr \ {mold, mspare} : heap'[b] = heap[b]
  BY UnusedType DEF Protocol, TypeOK
<1>3. \/ pub = <<>> /\ gptr = mnew /\ mpc' = "idle" /\ mnew' = NoRib
           /\ batch' = Tail(batch)
      \/ /\ pub = <<mnew>> /\ mnew \notin {gptr, mold}
         /\ mpc' = "publish" /\ mnew' = mnew /\ batch' = batch
  BY <1>1, TupleFacts
<1>4. Tail(batch) \in Seq(Message)
  BY <1>1 DEF Protocol, TypeOK
<1>5. TypeOK'
  BY <1>3, <1>4, <1>2 DEF Protocol, TypeOK
<1>6. Phase'
  BY <1>1, <1>3, TupleFacts DEF Protocol, Phase
<1>7. Owned'
  <2> SUFFICES ASSUME NEW b \in Addr
               PROVE  heap'[b].live <=>
                        \/ b \in {gptr', mold', mnew', mspare'}
                        \/ pub' = <<b, mnew'>>
    BY DEF Owned
  <2>1. pub # <<b, mnew>> /\ pub' # <<b, mnew'>>
    <3>1. pub' = pub /\ (pub = <<>> \/ \E x \in Addr : pub = <<x>>)
      BY <1>1
    <3> QED
      BY <3>1, TupleFacts
  <2>2. heap[b].live <=> b \in {gptr, mold, mnew, mspare}
    BY <2>1 DEF Protocol, Owned
  <2>3. heap'[b].live <=> b \in {gptr, mnew}
    BY <1>1, <1>2, <2>2 DEF Unused
  <2>4. b \in {gptr', mold', mnew', mspare'} <=> b \in {gptr, mnew}
    BY <1>3, NoRibAssumption
  <2> QED
    BY <2>1, <2>3, <2>4
<1>8. StopFlags'
  BY <1>2 DEF Protocol, StopFlags, Unused
<1>9. Readers'
  BY DEF Protocol, Readers
<1>10. Polling'
  <2>1. \A l \in Lcore : wpc[l] = "poll" => wrib[l] \in Addr \ {mold, mspare}
    BY <1>1, NoRibAssumption DEF Protocol, Polling, Readers
  <2> QED
    BY <1>2, <2>1 DEF Protocol, Polling
<1>11. Queues => Queues'
  BY <1>1, <1>2, NoRibAssumption DEF Queues, Compatible
<1> QED
  BY <1>5, <1>6, <1>7, <1>8, <1>9, <1>10, <1>11 DEF Protocol

-----------------------------------------------------------------------------
(* The theorems.                                                           *)

LEMMA StepInv == Protocol /\ [Next]_vars => Protocol'
<1> SUFFICES ASSUME Protocol, [Next]_vars PROVE Protocol'
  OBVIOUS
<1>1. CASE Manager
  BY <1>1, RecvBurstInv, QconfCrashInv, BeginMessageInv, PortGetInv,
     CheckFailsInv, CheckPassesInv, QconfPassesInv, QconfPassesNoZeroInv, AssignInv,
     SyncStartInv, ReclaimInv DEF Manager
<1>2. CASE \E l \in Lcore : Start(l) \/ Stop(l) \/ Worker(l)
  BY <1>2, StartInv, StopInv, DereferenceInv, BeginPollInv, SkipStoppedInv,
     EndPollInv, QuiescentInv DEF Worker
<1>3. CASE \E l \in Lcore, q \in Queue : SetThreadQueue(l, q)
  BY <1>3, SetThreadQueueInv
<1>4. CASE \E t \in MsgType, r \in SUBSET Route : SendOther(t, r)
  BY <1>4, SendOtherInv
<1>5. CASE UNCHANGED vars
  BY <1>5, Framed DEF vars, shellVars, Protocol, TypeOK
<1> QED
  BY <1>1, <1>2, <1>3, <1>4, <1>5 DEF Next

\* The phases of a message in rib_manager_process_message, the ownership of
\* the ribs and what readers may hold are as Protocol says in every state.
THEOREM ProtocolHolds == Spec => []Protocol
BY InitInv, StepInv, PTL DEF Spec

\* Every variable keeps its type.
THEOREM TypeCorrect == Spec => []TypeOK
<1>1. Protocol => TypeOK
  BY DEF Protocol
<1> QED
  BY <1>1, ProtocolHolds, PTL

\* rib_replace frees a rib only when no worker can still be using it.
THEOREM UseAfterFreeFreedom == Spec => []NoUseAfterFree
<1>1. Protocol => NoUseAfterFree
  BY NoRibAssumption DEF Protocol, TypeOK, Owned, Readers, NoUseAfterFree
<1> QED
  BY <1>1, ProtocolHolds, PTL

\* If the zero rib can be allocated, no rx queue is ever polled by two
\* lcores, however the queues are moved between them.
THEOREM RxQueueExclusion ==
  ASSUME ~MallocMayFail
  PROVE  Spec => []NoSharedRxQueue
<1>1. Protocol => NoSharedRxQueue
  <2> SUFFICES ASSUME Protocol, NEW l \in Lcore, NEW k \in Lcore, l # k
               PROVE  rxq[l] \cap rxq[k] = {}
    BY DEF NoSharedRxQueue
  <2>1. CASE wpc[l] = "poll" /\ wpc[k] = "poll"
    <3>1. /\ wrib[l] \in Addr /\ heap[wrib[l]].info
          /\ wrib[k] \in Addr /\ heap[wrib[k]].info
          /\ rxq[l] \subseteq heap[wrib[l]].qconf[l]
          /\ rxq[k] \subseteq heap[wrib[k]].qconf[k]
      BY <2>1 DEF Protocol, Polling
    <3>2. \/ wrib[l] = gptr
          \/ mpc \in {"assigned", "sync"} /\ wrib[l] = mold
      BY <2>1, <3>1, NoRibAssumption DEF Protocol, Readers
    <3>3. \/ wrib[k] = gptr
          \/ mpc \in {"assigned", "sync"} /\ wrib[k] = mold
      BY <2>1, <3>1, NoRibAssumption DEF Protocol, Readers
    <3>4. heap[wrib[l]].qconf = heap[wrib[k]].qconf
      BY <3>1, <3>2, <3>3 DEF Protocol, Queues, Compatible
    <3>5. Disjoint(heap[wrib[l]].qconf)
      BY <3>1, <3>2 DEF Protocol, Queues
    <3> QED
      BY <3>1, <3>4, <3>5 DEF Disjoint
  <2>2. CASE ~(wpc[l] = "poll" /\ wpc[k] = "poll")
    BY <2>2 DEF Protocol, Polling
  <2> QED
    BY <2>1, <2>2
<1> QED
  BY <1>1, ProtocolHolds, PTL

\* Every path of rib_manager_process_message frees the ribs it made, the
\* second copy of a port_get request too.
THEOREM LeakFreedom == Spec => []NothingLeaked
<1>1. Protocol => NothingLeaked
  BY NoRibAssumption DEF Protocol, TypeOK, Owned, Phase, NothingLeaked
<1> QED
  BY <1>1, ProtocolHolds, PTL

\* No port stays marked stopped after rib_check.
THEOREM StopFlagsCleared == Spec => []StopFlagCleared
<1>1. Protocol => StopFlagCleared
  BY DEF Protocol, TypeOK, StopFlags, StopFlagCleared
<1> QED
  BY <1>1, ProtocolHolds, PTL


-----------------------------------------------------------------------------
(* RibInv is inductive.                                                    *)

\* rib_create makes a rib with contents, whatever it copies.
LEMMA RibCreateInfo ==
  ASSUME Protocol, Infos, mpc = "idle"
  PROVE  RibCreate(gptr).info = TRUE
<1>1. CASE gptr = NoRib
  <2>1. RibCreate(gptr) =
          [live |-> TRUE, info |-> TRUE, ver |-> 1, qconf |-> NoQueues,
           fib |-> {}, stopped |-> FALSE]
    BY <1>1 DEF RibCreate, Unused
  <2> QED
    BY <2>1
<1>2. CASE gptr \in Addr
  <2>1. heap[gptr] \in RibRecord
    BY <1>2 DEF Protocol, TypeOK
  <2>2. RibCreate(gptr) = [heap[gptr] EXCEPT !.ver = @ + 1, !.fib = {}]
    BY <1>2, NoRibAssumption DEF RibCreate
  <2>3. PICK n : n = heap[gptr].ver + 1
    OBVIOUS
  <2>4. [heap[gptr] EXCEPT !.ver = n, !.fib = {}].info = heap[gptr].info
    BY <2>1 DEF RibRecord
  <2>5. heap[gptr].info = TRUE
    BY <1>2, <2>1 DEF Infos, RibRecord
  <2> QED
    BY <2>2, <2>3, <2>4, <2>5
<1> QED
  BY <1>1, <1>2 DEF Protocol, TypeOK

LEMMA InitAll == Init => RibInv
<1> SUFFICES ASSUME Init PROVE RibInv
  OBVIOUS
<1>1. Infos
  BY NoRibAssumption DEF Init, Infos
<1>2. Fibs
  BY NoRibAssumption DEF Init, Fibs
<1> QED
  BY <1>1, <1>2, InitInv DEF RibInv

\* The stop flags are the only difference that rib_check leaves behind.
LEMMA ClearStoppedContents ==
  ASSUME Protocol
  PROVE  \A b \in Addr : /\ ClearStopped[b].ver = heap[b].ver
                         /\ ClearStopped[b].fib = heap[b].fib
<1>1. \A b \in Addr : heap[b] \in RibRecord
  BY DEF Protocol, TypeOK
<1> QED
  BY <1>1 DEF ClearStopped, RibRecord

\* What a step of the manager may do to the ribs a worker can reach: it
\* keeps the published one's contents, except for the stop flag.
SameContents(a) ==
  /\ heap'[a].live = heap[a].live /\ heap'[a].info = heap[a].info
  /\ heap'[a].ver = heap[a].ver /\ heap'[a].qconf = heap[a].qconf
  /\ heap'[a].fib = heap[a].fib

LEMMA BeginCheckContents ==
  ASSUME RibInv, mpc = "idle", batch # <<>>, NEW a \in FreeAddr,
         BeginCheck(a, RibCreate(gptr))
  PROVE  /\ \A b \in Addr \ {a} : SameContents(b)
         /\ heap'[a].info = TRUE
<1> DEFINE copy == RibCreate(gptr)
           new == IF Head(batch).type = "qconf"
                  THEN [copy EXCEPT !.qconf = MergeQconf(@, Head(batch).qconf)]
                  ELSE copy
<1>1. copy \in RibRecord /\ copy.info = TRUE
  BY RibCreateFacts, RibCreateInfo DEF RibInv, Protocol
<1>2. a \in Addr
  BY DEF FreeAddr
<1> HIDE DEF copy
<1>3. new.info = TRUE
  BY <1>1 DEF RibRecord
<1> HIDE DEF new
<1>4. heap' = [b \in Addr |-> IF b = a THEN new
                              ELSE IF b = gptr
                              THEN [heap[b] EXCEPT !.stopped = TRUE]
                              ELSE heap[b]]
  BY DEF BeginCheck, copy, new
<1>5. \A b \in Addr : heap[b] \in RibRecord
  BY DEF RibInv, Protocol, TypeOK
<1> QED
  BY <1>2, <1>3, <1>4, <1>5 DEF SameContents, RibRecord

LEMMA BeginPlainContents ==
  ASSUME RibInv, mpc = "idle", batch # <<>>, NEW a \in FreeAddr,
         BeginPlain(a, RibCreate(gptr))
  PROVE  /\ \A b \in Addr \ {a} : SameContents(b)
         /\ heap'[a].info = TRUE
<1> DEFINE copy == RibCreate(gptr)
<1>1. copy.info = TRUE
  BY RibCreateInfo DEF RibInv
<1>2. a \in Addr /\ heap \in [Addr -> RibRecord]
  BY DEF FreeAddr, RibInv, Protocol, TypeOK
<1>3. heap' = [heap EXCEPT ![a] = copy]
  BY DEF BeginPlain
<1> HIDE DEF copy
<1> QED
  BY <1>1, <1>2, <1>3 DEF SameContents

LEMMA PortGetContents ==
  ASSUME RibInv, NEW a \in Addr, NEW b \in Addr, PortGet(a, b)
  PROVE  /\ \A c \in Addr \ {a, b} : SameContents(c)
         /\ heap'[b].info = TRUE
         /\ gptr \notin {a, b}
<1> DEFINE copy == RibCreate(gptr)
<1>1. copy.info = TRUE
  BY RibCreateInfo DEF RibInv, PortGet
<1>2. heap \in [Addr -> RibRecord] /\ a # b
  BY DEF RibInv, Protocol, TypeOK, PortGet
<1>3. heap' = [heap EXCEPT ![a] = copy, ![b] = copy]
  BY DEF PortGet
<1>4. gptr \notin {a, b}
  BY DEF PortGet, FreeAddr, RibInv, Protocol, Owned
<1> HIDE DEF copy
<1> QED
  BY <1>1, <1>2, <1>3, <1>4 DEF SameContents

-----------------------------------------------------------------------------
(* Infos is preserved.                                                     *)

LEMMA BeginMessageInfos ==
  ASSUME RibInv, NEW a \in Addr, BeginMessage(a)
  PROVE  Infos'
<1>1. /\ mpc = "idle" /\ batch # <<>> /\ a \in FreeAddr /\ mnew' = a
      /\ gptr' = gptr /\ batch' = batch
  BY DEF BeginMessage
<1>2. \A b \in Addr \ {a} : heap'[b].info = heap[b].info
  BY <1>1, BeginCheckContents, BeginPlainContents
     DEF BeginMessage, SameContents
<1>3. heap'[a].info
  BY <1>1, BeginCheckContents, BeginPlainContents DEF BeginMessage
<1>4. gptr # a
  BY <1>1 DEF FreeAddr, RibInv, Protocol, Owned
<1>5. pub' = <<a>> /\ mpc' \in {"check", "publish"}
      /\ (mpc' = "check" /\ Head(batch).type # "txrx" => gptr # NoRib)
  BY <1>1 DEF BeginMessage, BeginCheck, BeginPlain
<1>6. gptr \in Addr \cup {NoRib}
  BY DEF RibInv, Protocol, TypeOK
<1> QED
  BY <1>1, <1>2, <1>3, <1>4, <1>5, <1>6, TupleFacts DEF RibInv, Infos

LEMMA PortGetInfos ==
  ASSUME RibInv, NEW a \in Addr, NEW b \in Addr, PortGet(a, b)
  PROVE  Infos'
<1>1. mpc = "idle" /\ mpc' = "publish" /\ mnew' = b /\ gptr' = gptr
      /\ pub' = <<b>>
  BY DEF PortGet
<1> QED
  BY <1>1, PortGetContents, TupleFacts DEF Infos

LEMMA CheckFailsInfos ==
  ASSUME RibInv, CheckFails
  PROVE  Infos'
<1> USE DEF CheckFails
<1>1. mnew \in Addr /\ mnew # gptr
  BY DEF RibInv, Protocol, Phase
<1>2. \A b \in Addr \ {mnew} : heap'[b].info = heap[b].info
  BY <1>1, ClearStoppedFacts DEF RibInv
<1> QED
  BY <1>1, <1>2 DEF RibInv, Infos

\* rib_check succeeds, with or without a zero rib.
LEMMA CheckPassesInfos ==
  ASSUME RibInv, CheckPasses \/ QconfPassesNoZero
  PROVE  Infos'
<1> USE DEF CheckPasses, QconfPassesNoZero
<1>1. mnew \in Addr /\ mnew # gptr /\ pub = <<mnew>>
  BY DEF RibInv, Protocol, Phase
<1>2. \A b \in Addr : heap'[b].info = heap[b].info
  BY ClearStoppedFacts DEF RibInv
<1> QED
  BY <1>1, <1>2, TupleFacts DEF RibInv, Infos

LEMMA QconfPassesInfos ==
  ASSUME RibInv, NEW z \in Addr, QconfPasses(z)
  PROVE  Infos'
<1> USE DEF QconfPasses
<1>1. mnew \in Addr /\ mnew # gptr
  BY DEF RibInv, Protocol, Phase
<1>2. z \notin {gptr, mnew}
  BY DEF FreeAddr, RibInv, Protocol, Owned
<1>3. \A b \in Addr \ {z} : heap'[b].info = heap[b].info
  BY <1>1, ClearStoppedFacts DEF RibInv
<1> QED
  BY <1>1, <1>2, <1>3 DEF RibInv, Infos

\* What rcu_assign_pointer publishes, and the ribs it leaves as they are.
LEMMA AssignFacts ==
  ASSUME RibInv, Assign
  PROVE  /\ mnew \in Addr /\ mnew # gptr /\ batch # <<>>
         /\ \A b \in Addr \ {mnew} : heap'[b] = heap[b]
         /\ \A b \in Addr : /\ heap'[b].live = heap[b].live
                            /\ heap'[b].info = heap[b].info
                            /\ heap'[b].ver = heap[b].ver
                            /\ heap'[b].qconf = heap[b].qconf
         /\ heap' \in [Addr -> RibRecord]
         /\ \/ /\ pub = <<mnew>> /\ gptr' = mnew /\ pub' = <<>>
               /\ Head(batch).type # "port_get" => heap'[mnew].fib = master
            \/ \E z \in Addr \ {gptr, mnew} :
                 /\ pub = <<z, mnew>> /\ gptr' = z /\ pub' = <<mnew>>
                 /\ heap'[z] = ZeroRib
<1> USE DEF Assign
<1>1. mnew \in Addr /\ mnew # gptr /\ batch # <<>>
  BY DEF RibInv, Protocol, Phase
<1>2. \/ pub = <<mnew>> /\ gptr' = mnew /\ pub' = <<>>
      \/ \E z \in Addr \ {gptr, mnew} :
           /\ pub = <<z, mnew>> /\ gptr' = z /\ pub' = <<mnew>>
           /\ heap[z] = ZeroRib
  <2>1. pub = <<mnew>> \/ \E z \in Addr : pub = <<z, mnew>>
    BY DEF RibInv, Protocol, Phase, TypeOK
  <2>2. CASE pub = <<mnew>>
    BY <2>2, TupleFacts
  <2>3. CASE \E z \in Addr : pub = <<z, mnew>>
    BY <2>3, TupleFacts DEF RibInv, Protocol, Phase
  <2> QED
    BY <2>1, <2>2, <2>3
<1>3. heap' = IF gptr' = mnew /\ Head(batch).type # "port_get"
              THEN [heap EXCEPT ![mnew].fib = master] ELSE heap
  BY DEF WithFib
<1>4. heap \in [Addr -> RibRecord] /\ master \in SUBSET Route
  BY DEF RibInv, Protocol, TypeOK
<1>5. /\ \A b \in Addr \ {mnew} : heap'[b] = heap[b]
      /\ \A b \in Addr : /\ heap'[b].live = heap[b].live
                         /\ heap'[b].info = heap[b].info
                         /\ heap'[b].ver = heap[b].ver
                         /\ heap'[b].qconf = heap[b].qconf
      /\ heap' \in [Addr -> RibRecord]
  <2> HIDE DEF Assign
  <2>1. CASE heap' = [heap EXCEPT ![mnew].fib = master]
    <3>1. /\ \A b \in Addr \ {mnew} : heap'[b] = heap[b]
          /\ heap'[mnew] = [heap[mnew] EXCEPT !.fib = master]
          /\ heap' = [b \in Addr |-> heap'[b]]
      BY <1>1, <1>4, <2>1
    <3>2. heap[mnew] \in RibRecord
      BY <1>1, <1>4
    <3>3. /\ heap'[mnew].live = heap[mnew].live
          /\ heap'[mnew].info = heap[mnew].info
          /\ heap'[mnew].ver = heap[mnew].ver
          /\ heap'[mnew].qconf = heap[mnew].qconf
          /\ heap'[mnew] \in RibRecord
      BY <1>4, <3>1, <3>2 DEF RibRecord
    <3> QED
      BY <1>1, <1>4, <3>1, <3>3
  <2>2. CASE heap' = heap
    BY <1>4, <2>2
  <2> QED
    BY <1>3, <2>1, <2>2
<1>6. gptr' = mnew /\ Head(batch).type # "port_get" =>
        heap'[mnew].fib = master
  BY <1>1, <1>3, <1>4 DEF RibRecord
<1> QED
  BY <1>1, <1>2, <1>5, <1>6

LEMMA AssignInfos ==
  ASSUME RibInv, Assign
  PROVE  Infos'
<1>1. mpc' = "assigned" /\ mnew' = mnew /\ mpc = "publish"
  BY DEF Assign
<1>2. \A z \in Addr : pub' # <<z, mnew>>
  BY AssignFacts, TupleFacts
<1> QED
  BY <1>1, <1>2, AssignFacts DEF RibInv, Infos

LEMMA ReclaimInfos ==
  ASSUME RibInv, Reclaim
  PROVE  Infos'
<1> USE DEF Reclaim
<1>1. /\ gptr \in Addr /\ mold # gptr /\ mnew \in Addr
      /\ \/ pub = <<>> /\ gptr = mnew
         \/ pub = <<mnew>> /\ mnew \notin {gptr, mold}
      /\ mspare \notin {gptr, mnew}
  BY NoRibAssumption DEF RibInv, Protocol, Phase
<1>2. \A b \in Addr \ {mold, mspare} : heap'[b] = heap[b]
  BY DEF RibInv, Protocol, TypeOK
<1>3. \A z \in Addr : pub' # <<z, mnew'>>
  <2>1. pub' = pub
    OBVIOUS
  <2> QED
    BY <1>1, <2>1, TupleFacts
<1> QED
  BY <1>1, <1>2, <1>3, TupleFacts DEF RibInv, Infos

LEMMA StepInfos == RibInv /\ [Next]_vars => Infos'
<1> SUFFICES ASSUME RibInv, [Next]_vars PROVE Infos'
  OBVIOUS
<1>1. CASE Manager
  <2>1. CASE RecvBurst
    BY <2>1 DEF RecvBurst, RibInv, Infos
  <2>2. CASE QconfCrash
    BY <2>2 DEF QconfCrash, RibInv, Infos
  <2>3. CASE SyncStart
    BY <2>3 DEF SyncStart, RibInv, Infos
  <2> QED
    BY <1>1, <2>1, <2>2, <2>3, BeginMessageInfos, PortGetInfos,
       CheckFailsInfos, CheckPassesInfos, QconfPassesInfos, AssignInfos, ReclaimInfos
       DEF Manager
<1>2. CASE UNCHANGED mgrVars
  BY <1>2 DEF mgrVars, RibInv, Infos
<1> QED
  BY <1>1, <1>2 DEF Next, vars, SetThreadQueue, SendOther, Start, Stop,
     Worker, Dereference, BeginPoll, SkipStopped, EndPoll, Quiescent

-----------------------------------------------------------------------------
(* Fibs is preserved when no port_get message is sent.                     *)

LEMMA SendFibs ==
  ASSUME RibInv, Fibs, NEW m \in Rebuilding, SendTo(m), UNCHANGED mgrVars
  PROVE  Fibs'
<1>1. ring' \in Seq(Rebuilding)
  BY DEF Fibs, SendTo
<1> QED
  BY <1>1 DEF Fibs, mgrVars

LEMMA SetThreadQueueFibs ==
  ASSUME RibInv, Fibs, NEW l \in Lcore, NEW q \in Queue, SetThreadQueue(l, q)
  PROVE  Fibs'
<1>1. thread_qconf' \in Qconf
  BY ReassignType DEF SetThreadQueue, RibInv, Protocol, TypeOK
<1>2. [type |-> "qconf", qconf |-> thread_qconf', routes |-> {}] \in Rebuilding
  BY <1>1 DEF Message, MsgTypes, Rebuilding
<1> QED
  BY <1>2, SendFibs DEF SetThreadQueue

LEMMA SendOtherFibs ==
  ASSUME RibInv, Fibs, "port_get" \notin MsgType,
         NEW t \in MsgType, NEW r \in SUBSET Route, SendOther(t, r)
  PROVE  Fibs'
<1>1. [type |-> t, qconf |-> NoQueues, routes |-> r] \in Rebuilding
  BY NoQueuesType, MsgTypeAssumption DEF Message, Rebuilding
<1> QED
  BY <1>1, SendFibs DEF SendOther

LEMMA RecvBurstFibs ==
  ASSUME RibInv, Fibs, RecvBurst
  PROVE  Fibs'
<1> USE DEF RecvBurst
<1> DEFINE n == IF Len(ring) < Burst THEN Len(ring) ELSE Burst
<1>1. ring \in Seq(Rebuilding)
  BY DEF Fibs
<1>2. n \in Nat /\ n <= Len(ring)
  BY <1>1, RingAssumption
<1>3. batch' = SubSeq(ring, 1, n) /\ ring' = SubSeq(ring, n + 1, Len(ring))
  OBVIOUS
<1>4. batch' \in Seq(Rebuilding)
  <2>1. \A i \in 1 .. n : ring[i] \in Rebuilding
    BY <1>1, <1>2
  <2> QED
    BY <1>1, <1>2, <1>3, <2>1
<1>5. ring' \in Seq(Rebuilding)
  <2>1. \A i \in (n + 1) .. Len(ring) : ring[i] \in Rebuilding
    BY <1>1, <1>2
  <2> QED
    BY <1>1, <1>2, <1>3, <2>1
<1> QED
  BY <1>4, <1>5 DEF Fibs

LEMMA BeginMessageFibs ==
  ASSUME RibInv, Fibs, NEW a \in Addr, BeginMessage(a)
  PROVE  Fibs'
<1>1. /\ mpc = "idle" /\ batch # <<>> /\ a \in FreeAddr
      /\ UNCHANGED <<ring, batch, gptr>>
  BY DEF BeginMessage
<1>2. gptr # a
  BY <1>1 DEF FreeAddr, RibInv, Protocol, Owned
<1>3. CASE BeginCheck(a, RibCreate(gptr))
  <2>1. gptr \in Addr => heap'[gptr].fib = heap[gptr].fib
    BY <1>1, <1>2, <1>3, BeginCheckContents DEF SameContents
  <2>2. mpc' = "check" /\ master' = master
    BY <1>3 DEF BeginCheck
  <2> QED
    BY <1>1, <2>1, <2>2 DEF Fibs
<1>4. CASE BeginPlain(a, RibCreate(gptr))
  BY <1>1, <1>4 DEF Fibs, BeginPlain
<1> QED
  BY <1>3, <1>4 DEF BeginMessage

LEMMA PortGetFibs ==
  ASSUME RibInv, Fibs, NEW a \in Addr, NEW b \in Addr, PortGet(a, b)
  PROVE  Fibs'
BY DEF Fibs, PortGet

\* Every outcome of rib_check keeps the published FIB.
LEMMA CheckFibs ==
  ASSUME RibInv, Fibs,
         \/ CheckFails \/ CheckPasses \/ QconfPassesNoZero
         \/ \E z \in Addr : QconfPasses(z)
  PROVE  Fibs'
<1>1. CASE CheckFails
  <2> USE DEF CheckFails
  <2>1. mnew \in Addr /\ mnew # gptr /\ batch # <<>>
    BY <1>1 DEF RibInv, Protocol, Phase
  <2>2. \A b \in Addr \ {mnew} : heap'[b].fib = heap[b].fib
    BY <1>1, <2>1, ClearStoppedFacts, ClearStoppedContents DEF RibInv
  <2>3. batch' \in Seq(Rebuilding)
    BY <1>1, <2>1 DEF Fibs
  <2> QED
    BY <1>1, <2>1, <2>2, <2>3 DEF Fibs
<1>2. CASE CheckPasses \/ QconfPassesNoZero \/ \E z \in Addr : QconfPasses(z)
  BY <1>2 DEF Fibs, CheckPasses, QconfPassesNoZero, QconfPasses
<1> QED
  BY <1>1, <1>2

LEMMA AssignFibs ==
  ASSUME RibInv, Fibs, Assign
  PROVE  Fibs'
<1>1. Head(batch).type # "port_get"
  BY AssignFacts DEF Fibs, Rebuilding
<1>2. pub' = <<>> => heap'[gptr'].fib = master
  BY <1>1, AssignFacts, TupleFacts
<1> QED
  BY <1>2 DEF Fibs, Assign

LEMMA ReclaimFibs ==
  ASSUME RibInv, Fibs, Reclaim
  PROVE  Fibs'
<1> USE DEF Reclaim
<1>1. gptr \in Addr /\ gptr \notin {mold, mspare} /\ batch # <<>>
  BY NoRibAssumption DEF RibInv, Protocol, Phase
<1>2. heap'[gptr] = heap[gptr]
  BY <1>1 DEF RibInv, Protocol, TypeOK
<1>3. batch' \in Seq(Rebuilding)
  BY <1>1, SMTT(30) DEF Fibs
<1> QED
  BY <1>1, <1>2, <1>3 DEF Fibs

LEMMA StepFibs ==
  ASSUME RibInv, Fibs, [Next]_vars, "port_get" \notin MsgType
  PROVE  Fibs'
<1>1. CASE Manager
  <2>1. CASE QconfCrash
    BY <2>1 DEF QconfCrash, Fibs
  <2>2. CASE SyncStart
    BY <2>2 DEF SyncStart, Fibs
  <2> QED
    BY <1>1, <2>1, <2>2, RecvBurstFibs, BeginMessageFibs, PortGetFibs,
       CheckFibs, AssignFibs, ReclaimFibs DEF Manager
<1>2. CASE \E l \in Lcore, q \in Queue : SetThreadQueue(l, q)
  BY <1>2, SetThreadQueueFibs
<1>3. CASE \E t \in MsgType, r \in SUBSET Route : SendOther(t, r)
  BY <1>3, SendOtherFibs
<1>4. CASE UNCHANGED <<ring, mgrVars>>
  BY <1>4 DEF mgrVars, Fibs
<1> QED
  BY <1>1, <1>2, <1>3, <1>4 DEF Next, vars, Start, Stop,
     Worker, Dereference, BeginPoll, SkipStopped, EndPoll, Quiescent

-----------------------------------------------------------------------------
(* The invariant and the FIB.                                              *)

\* The inductive invariant of rib_manager and its readers: the protocol,
\* which ribs have contents, and what FIB they carry.
THEOREM InvHolds == Spec => []RibInv
<1>1. RibInv /\ [Next]_vars => RibInv'
  BY StepInv, StepInfos, StepFibs DEF RibInv
<1> QED
  BY InitAll, <1>1, PTL DEF Spec

\* Unless a port_get message is sent, the FIB that rib_manager has published
\* is the routing table whenever it is between two messages.
THEOREM FibFollowsMaster ==
  ASSUME "port_get" \notin MsgType
  PROVE  Spec => []FibMatchesMaster
<1>1. RibInv => FibMatchesMaster
  BY DEF RibInv, Protocol, TypeOK, Fibs, FibMatchesMaster
<1> QED
  BY <1>1, InvHolds, PTL

-----------------------------------------------------------------------------
(* RibRcu implements RibSnapshot.  Publishing a rib is a step Update, Clear *)
(* or Change of the register, a dereference is Take, a quiescent state     *)
(* Release; the rest of the protocol is not seen.                          *)

\* The state of the register that a state of RibRcu stands for.
Register == <<Contents(gptr), [l \in Lcore |-> View(l)]>>

LEMMA RefineInit == Init => Snap!Init
BY DEF Init, Snap!Init, Contents, View

\* A step that keeps the contents of every rib in use is not seen.
LEMMA Unseen ==
  ASSUME gptr' = gptr, gptr # NoRib => SameContents(gptr),
         UNCHANGED <<wpc, wrib>>,
         \A l \in Lcore : wpc[l] \in {"read", "poll"} /\ wrib[l] # NoRib =>
           SameContents(wrib[l])
  PROVE  UNCHANGED Register
<1>1. Contents(gptr)' = Contents(gptr)
  BY DEF Contents, SameContents, NoContents
<1>2. ASSUME NEW l \in Lcore PROVE View(l)' = View(l)
  BY DEF View, Contents, SameContents, NoContents
<1> QED
  BY <1>1, <1>2 DEF Register

\* Outside of a grace period, and at its end, the readers share one rib.
LEMMA OneRibHeld ==
  ASSUME RibInv, mpc # "assigned", mpc = "sync" => waiting = {}
  PROVE  \A l \in Lcore : wpc[l] \in {"read", "poll"} /\ wrib[l] # NoRib =>
           wrib[l] = gptr
BY DEF RibInv, Protocol, Readers

LEMMA ManagerUnseen ==
  ASSUME RibInv, Manager, ~Assign
  PROVE  UNCHANGED Register
<1>1. UNCHANGED <<gptr, wpc, wrib>>
  BY DEF Manager, RecvBurst, QconfCrash, BeginMessage, PortGet, CheckFails,
     CheckPasses, QconfPasses, QconfPassesNoZero, SyncStart, Reclaim,
     workerVars
<1>2. gptr \in Addr \cup {NoRib}
  BY DEF RibInv, Protocol, TypeOK
<1>3. CASE RecvBurst \/ QconfCrash \/ SyncStart
  <2>1. heap' = heap
    BY <1>3 DEF RecvBurst, QconfCrash, SyncStart
  <2> QED
    BY <1>1, <2>1, Unseen DEF SameContents
<1>4. CASE \E a \in Addr : BeginMessage(a)
  <2>1. PICK a \in Addr : BeginMessage(a)
    BY <1>4
  <2>2. mpc = "idle" /\ batch # <<>> /\ a \in FreeAddr
    BY <2>1 DEF BeginMessage
  <2>3. gptr # a
    BY <2>2 DEF FreeAddr, RibInv, Protocol, Owned
  <2>4. gptr # NoRib => SameContents(gptr)
    BY <1>2, <2>1, <2>2, <2>3, BeginCheckContents, BeginPlainContents
       DEF BeginMessage
  <2> QED
    BY <1>1, <2>2, <2>4, OneRibHeld, Unseen
<1>5. CASE \/ CheckFails \/ CheckPasses \/ QconfPassesNoZero
           \/ \E z \in Addr : QconfPasses(z)
  <2>1. mpc = "check" /\ mnew \in Addr /\ mnew # gptr
    BY <1>5 DEF CheckFails, CheckPasses, QconfPassesNoZero, QconfPasses,
       RibInv, Protocol, Phase
  <2>2. gptr # NoRib => heap'[gptr] = ClearStopped[gptr]
    <3>1. CASE CheckFails
      BY <1>2, <2>1, <3>1, ClearStoppedFacts DEF CheckFails, RibInv
    <3>2. CASE CheckPasses \/ QconfPassesNoZero
      BY <3>2 DEF CheckPasses, QconfPassesNoZero
    <3>3. CASE \E z \in Addr : QconfPasses(z)
      <4>1. PICK z \in Addr : QconfPasses(z)
        BY <3>3
      <4>2. z # gptr
        BY <4>1 DEF QconfPasses, FreeAddr, RibInv, Protocol, Owned
      <4> QED
        BY <1>2, <4>1, <4>2, ClearStoppedFacts DEF QconfPasses, RibInv
    <3> QED
      BY <1>5, <3>1, <3>2, <3>3
  <2>3. gptr # NoRib => SameContents(gptr)
    BY <1>2, <2>2, ClearStoppedFacts, ClearStoppedContents
       DEF RibInv, SameContents
  <2> QED
    BY <1>1, <2>1, <2>3, OneRibHeld, Unseen
<1>6. CASE Reclaim
  <2>1. /\ gptr \in Addr /\ gptr \notin {mold, mspare}
        /\ mpc = "sync" /\ waiting = {}
    BY <1>6, NoRibAssumption DEF RibInv, Protocol, Phase, Reclaim
  <2>2. heap'[gptr] = heap[gptr]
    BY <1>6, <2>1 DEF Reclaim, RibInv, Protocol, TypeOK
  <2> QED
    BY <1>1, <2>1, <2>2, OneRibHeld, Unseen DEF SameContents
<1>7. CASE \E a, b \in Addr : PortGet(a, b)
  <2>1. mpc = "idle"
    BY <1>7 DEF PortGet
  <2>2. gptr # NoRib => SameContents(gptr)
    BY <1>2, <1>7, PortGetContents
  <2> QED
    BY <1>1, <2>1, <2>2, OneRibHeld, Unseen
<1> QED
  BY <1>3, <1>4, <1>5, <1>6, <1>7 DEF Manager

\* rcu_assign_pointer moves the register on; nobody's snapshot changes.
LEMMA AssignRefines ==
  ASSUME RibInv, ~MallocMayFail, Assign
  PROVE  Snap!Update \/ Snap!Clear \/ Snap!Change
<1>1. mpc = "publish" /\ UNCHANGED <<wpc, wrib>>
  BY DEF Assign, workerVars
<1>2. heap \in [Addr -> RibRecord] /\ gptr \in Addr \cup {NoRib}
  BY DEF RibInv, Protocol, TypeOK
<1>3. \A l \in Lcore : wpc[l] \in {"read", "poll"} /\ wrib[l] # NoRib =>
        wrib[l] = gptr
  BY <1>1, OneRibHeld
<1>4. gptr # NoRib => gptr \in Addr /\ SameContents(gptr) /\ heap[gptr].live
  BY <1>2, AssignFacts DEF SameContents, RibInv, Protocol, Owned
<1>5. [l \in Lcore |-> View(l)]' = [l \in Lcore |-> View(l)]
  <2>1. ASSUME NEW l \in Lcore PROVE View(l)' = View(l)
    BY <1>1, <1>3, <1>4 DEF View, Contents, SameContents, NoContents
  <2> QED
    BY <2>1
<1>6. CASE pub = <<mnew>> /\ gptr' = mnew /\ pub' = <<>>
  <2>1. heap'[mnew].live = TRUE /\ heap'[mnew].info = TRUE
        /\ heap'[mnew] \in RibRecord
    BY <1>1, <1>2, AssignFacts DEF RibInv, Protocol, Owned, Infos, RibRecord
  <2>2. Contents(gptr)' = [kind |-> "rib", ver |-> heap'[mnew].ver,
                           qconf |-> heap'[mnew].qconf, fib |-> heap'[mnew].fib]
    BY <1>6, <2>1, AssignFacts, NoRibAssumption DEF Contents
  <2>3. Contents(gptr)' \in Snap!Snapshot
    BY <2>1, <2>2 DEF Snap!Snapshot, RibRecord
  <2>4. CASE gptr = NoRib
    BY <1>5, <2>3, <2>4 DEF Snap!Update, Contents, NoContents
  <2>5. CASE gptr # NoRib /\ heap[gptr].info
    <3>1. heap[mnew].qconf = heap[gptr].qconf
      BY <1>1, <1>4, <1>6, <2>1, <2>5, AssignFacts
         DEF RibInv, Protocol, Queues, Compatible
    <3>2. Contents(gptr) = [kind |-> "rib", ver |-> heap[gptr].ver,
                            qconf |-> heap[gptr].qconf, fib |-> heap[gptr].fib]
      BY <1>4, <2>5 DEF Contents
    <3>3. Contents(gptr)'.qconf = Contents(gptr).qconf
      BY <2>2, <3>1, <3>2, AssignFacts
    <3> QED
      BY <1>5, <2>3, <3>2, <3>3 DEF Snap!Update, NoContents
  <2>6. CASE gptr # NoRib /\ ~heap[gptr].info
    <3>1. Contents(gptr) = NoContents("empty")
      BY <1>4, <2>6 DEF Contents
    <3>2. \A l \in Lcore :
            View(l) \in {NoContents("nothing"), NoContents("empty")}
      BY <1>3, <3>1 DEF View, Contents
    <3> QED
      BY <1>5, <2>3, <3>1, <3>2 DEF Snap!Change
  <2> QED
    BY <2>4, <2>5, <2>6
<1>7. CASE \E z \in Addr \ {gptr, mnew} :
             /\ pub = <<z, mnew>> /\ gptr' = z /\ pub' = <<mnew>>
             /\ heap'[z] = ZeroRib
  <2>1. PICK z \in Addr \ {gptr, mnew} :
             pub = <<z, mnew>> /\ gptr' = z /\ heap'[z] = ZeroRib
    BY <1>7
  <2>2. ZeroRib.live = TRUE /\ ZeroRib.info = FALSE
    BY DEF ZeroRib, Unused
  <2>3. Contents(gptr)' = NoContents("empty")
    BY <2>1, <2>2, NoRibAssumption DEF Contents, NoContents
  <2>4. gptr \in Addr /\ heap[gptr].info
    BY <2>1 DEF RibInv, Infos
  <2>5. Contents(gptr) = [kind |-> "rib", ver |-> heap[gptr].ver,
                          qconf |-> heap[gptr].qconf, fib |-> heap[gptr].fib]
    BY <1>4, <2>4, NoRibAssumption DEF Contents
  <2> QED
    BY <1>5, <2>3, <2>5 DEF Snap!Clear, NoContents
<1> QED
  BY <1>6, <1>7, AssignFacts

LEMMA WorkerRefines ==
  ASSUME RibInv, NEW l \in Lcore, Start(l) \/ Stop(l) \/ Worker(l)
  PROVE  Snap!Take(l) \/ Snap!Release(l) \/ UNCHANGED Register
<1>1. heap' = heap /\ gptr' = gptr
  BY DEF Start, Stop, Worker, Dereference, BeginPoll, SkipStopped, EndPoll,
     Quiescent, mgrVars
<1>2. wpc \in [Lcore -> {"off", "top", "read", "poll"}]
      /\ wrib \in [Lcore -> Addr \cup {NoRib}]
  BY DEF RibInv, Protocol, TypeOK
<1>3. Contents(gptr)' = Contents(gptr)
  BY <1>1 DEF Contents, NoContents
<1>4. CASE Dereference(l)
  <2>1. View(l) = NoContents("nothing")
    BY <1>4 DEF Dereference, View
  <2>2. View(l)' = Contents(gptr)
    BY <1>1, <1>2, <1>4 DEF Dereference, View, Contents, NoContents
  <2>3. ASSUME NEW k \in Lcore, k # l PROVE View(k)' = View(k)
    BY <1>1, <1>2, <1>4, <2>3 DEF Dereference, View, Contents, NoContents
  <2> QED
    BY <1>3, <2>1, <2>2, <2>3 DEF Snap!Take
<1>5. CASE Quiescent(l)
  <2>1. View(l)' = NoContents("nothing")
    BY <1>2, <1>5 DEF Quiescent, View, NoContents
  <2>2. ASSUME NEW k \in Lcore, k # l PROVE View(k)' = View(k)
    BY <1>1, <1>2, <1>5, <2>2 DEF Quiescent, View, Contents, NoContents
  <2> QED
    BY <1>3, <2>1, <2>2 DEF Snap!Release
<1>6. CASE \/ Start(l) \/ Stop(l) \/ EndPoll(l)
           \/ \E q \in Queue : BeginPoll(l, q) \/ SkipStopped(l, q)
  <2>1. ASSUME NEW k \in Lcore PROVE View(k)' = View(k)
    BY <1>1, <1>2, <1>6 DEF Start, Stop, EndPoll, BeginPoll, SkipStopped,
       View, Contents, NoContents
  <2> QED
    BY <1>3, <2>1 DEF Register
<1> QED
  BY <1>4, <1>5, <1>6 DEF Worker

LEMMA RefineStep ==
  ASSUME RibInv, ~MallocMayFail, [Next]_vars
  PROVE  [Snap!Next]_Register
<1>1. CASE Manager
  BY <1>1, ManagerUnseen, AssignRefines DEF Snap!Next
<1>2. CASE \E l \in Lcore : Start(l) \/ Stop(l) \/ Worker(l)
  BY <1>2, WorkerRefines DEF Snap!Next
<1>3. CASE UNCHANGED <<mgrVars, workerVars>>
  BY <1>3, Unseen DEF mgrVars, workerVars, SameContents
<1> QED
  BY <1>1, <1>2, <1>3 DEF Next, vars, SetThreadQueue, SendOther

\* If the zero rib can be allocated, the workers cannot tell rib_manager,
\* its copies, grace periods and reclamation from a register of immutable
\* snapshots that changes the queue assignment only when nobody uses it.
THEOREM ImplementsSnapshots ==
  ASSUME ~MallocMayFail
  PROVE  Spec => SnapshotSpec
<1>1. RibInv /\ [Next]_vars => [Snap!Next]_Register
  BY RefineStep
<1> QED
  BY <1>1, RefineInit, InvHolds, PTL
     DEF Spec, SnapshotSpec, Snap!Spec, Register
=============================================================================
