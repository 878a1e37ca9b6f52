------------------------ MODULE SocketTable_proofs -------------------------
(***************************************************************************)
(* Theorems about SocketTable, for every number of sockets, every capacity *)
(* of the reaper's queue and every set of requests.                        *)
(***************************************************************************)
EXTENDS SocketTable, SequenceTheorems, FiniteSetTheorems, TLAPS

-----------------------------------------------------------------------------
(* Types                                                                   *)

\* The values the variables start with and return to have their types.
LEMMA ZeroTypes ==
  /\ ZeroSlot \in SlotType /\ IdleWorker \in WorkerType /\ IdleCloser \in CloserType
  /\ 0 \in Scids /\ NoScid \notin Scids
  BY MaxScidAssumption
  DEF ZeroSlot, SlotType, IdleWorker, WorkerType, NoRequest, Pcs, IdleCloser,
      CloserType, Scids, NoScid

\* The ports of a request are natural numbers.
LEMMA PortsNat == Ports \cup {0} \subseteq Nat
  BY PortsAssumption

\* A request of AT+SCON fills a slot with values of the right type.
LEMMA ListedType ==
  ASSUME NEW slot \in SlotType, NEW r \in RequestType \cup {NoRequest}
  PROVE  ListedSlot(slot, r) \in SlotType
<1>1. r.localPort \in Nat
  BY PortsNat DEF RequestType, NoRequest
<1>2. CASE r \in RequestType
  BY <1>1, <1>2 DEF ListedSlot, SlotType, RequestType
<1>3. CASE r = NoRequest
  BY <1>3 DEF ListedSlot, SlotType, NoRequest
<1>4. QED
  BY <1>2, <1>3

\* Fields of one slot are written with values of their types.
LEMMA SlotFieldTypes ==
  ASSUME NEW w \in [Scids -> SlotType], NEW s \in Scids, NEW p \in Nat, NEW b \in BOOLEAN
  PROVE  /\ [w EXCEPT ![s].localPort = p] \in [Scids -> SlotType]
         /\ [w EXCEPT ![s].remote = b] \in [Scids -> SlotType]
         /\ [w EXCEPT ![s].notRestart = b] \in [Scids -> SlotType]
<1>1. w[s] \in SlotType
  OBVIOUS
<1>2. /\ [w[s] EXCEPT !.localPort = p] \in SlotType
      /\ [w[s] EXCEPT !.remote = b] \in SlotType
      /\ [w[s] EXCEPT !.notRestart = b] \in SlotType
  BY <1>1 DEF SlotType
<1>3. [w EXCEPT ![s].localPort = p] \in [Scids -> SlotType]
  BY <1>2
<1>4. [w EXCEPT ![s].remote = b] \in [Scids -> SlotType]
  BY <1>2
<1>5. [w EXCEPT ![s].notRestart = b] \in [Scids -> SlotType]
  BY <1>2
<1>6. QED
  BY <1>3, <1>4, <1>5

\* The initial state is well typed.
LEMMA InitType == Init => TypeOK
<1> SUFFICES ASSUME Init PROVE TypeOK
  OBVIOUS
<1>1. /\ scList \in [Scids -> SlotType] /\ worker \in [Scids -> WorkerType]
      /\ closer \in [Closers -> CloserType]
      /\ \A c \in Closers :
           closer[c].pc \in {"delete", "disconnect"} => closer[c].next \in Scids
  BY ZeroTypes DEF Init, IdleCloser
<1>2. reapQueue \in Seq(Scids) /\ Len(reapQueue) <= QueueLen
  BY EmptySeq, QueueLenAssumption DEF Init
<1>3. /\ sock \in [Scids -> {"none", "open", "conn"}]
      /\ auto \in BOOLEAN /\ current \in Scids \cup {NoScid} /\ mode \in {"COMMAND", "DATA"}
  BY DEF Init
<1>4. /\ lastPort \in Ports \cup {0} /\ optTS \in BOOLEAN
      /\ sending \in Scids \cup {NoScid} /\ reaper \in Scids \cup {NoScid}
      /\ linked \in BOOLEAN /\ corrupted \in BOOLEAN
  BY DEF Init
<1>5. QED
  BY <1>1, <1>2, <1>3, <1>4 DEF TypeOK

\* A thread's end, or its next turn, fits its locals.
LEMMA TurnType ==
  ASSUME NEW w \in [Scids -> WorkerType], NEW s \in Scids, NEW pc \in Pcs,
         NEW b \in BOOLEAN
  PROVE  [w EXCEPT ![s].pc = pc, ![s].restart = b] \in [Scids -> WorkerType]
<1> DEFINE v == [w[s] EXCEPT !.pc = pc, !.restart = b]
<1>1. w[s] \in WorkerType
  OBVIOUS
<1>2. v \in WorkerType
  BY <1>1 DEF WorkerType
<1>3. [w EXCEPT ![s].pc = pc, ![s].restart = b] = [w EXCEPT ![s] = v]
  BY <1>1 DEF WorkerType
<1> HIDE DEF v
<1>4. QED
  BY <1>2, <1>3

\* The message of an exiting thread fits the queue or is dropped.
LEMMA ExitType ==
  ASSUME TypeOK, NEW s \in Scids, Exit(s)
  PROVE  /\ worker' \in [Scids -> WorkerType]
         /\ reapQueue' \in Seq(Scids) /\ Len(reapQueue') <= QueueLen
<1>1. worker' \in [Scids -> WorkerType]
  <2>1. worker \in [Scids -> WorkerType] /\ "done" \in Pcs
    BY DEF TypeOK, Pcs
  <2>2. worker' = [worker EXCEPT ![s].pc = "done", ![s].restart = FALSE]
    BY DEF Exit
  <2>3. QED
    BY <2>1, <2>2, TurnType
<1>2. reapQueue \in Seq(Scids) /\ Len(reapQueue) <= QueueLen /\ Len(reapQueue) \in Nat
  BY LenProperties DEF TypeOK
<1>3. ASSUME Len(reapQueue) < QueueLen
      PROVE  reapQueue' \in Seq(Scids) /\ Len(reapQueue') <= QueueLen
  <2>1. reapQueue' = Append(reapQueue, s)
    BY <1>3 DEF Exit
  <2>2. reapQueue' \in Seq(Scids) /\ Len(reapQueue') = Len(reapQueue) + 1
    BY <1>2, <2>1, AppendProperties
  <2>3. QED
    BY <1>2, <1>3, <2>2, QueueLenAssumption
<1>4. ASSUME ~(Len(reapQueue) < QueueLen)
      PROVE  reapQueue' \in Seq(Scids) /\ Len(reapQueue') <= QueueLen
  BY <1>2, <1>4 DEF Exit
<1>5. QED
  BY <1>1, <1>3, <1>4

\* Launching a thread leaves well-typed threads and sockets.
LEMMA LaunchType ==
  ASSUME TypeOK, NEW s \in Scids, NEW r \in RequestType, Launch(s, r)
  PROVE  /\ worker' \in [Scids -> WorkerType]
         /\ sock' \in [Scids -> {"none", "open", "conn"}]
         /\ corrupted' \in BOOLEAN
<1>1. [IdleWorker EXCEPT !.pc = "create", !.req = r] \in WorkerType
  BY DEF IdleWorker, WorkerType, Pcs
<1>2. QED
  BY <1>1 DEF Launch, TypeOK

\* A thread's decision on receiving an error fits its locals.
LEMMA DecisionType ==
  ASSUME NEW w \in [Scids -> WorkerType], NEW s \in Scids,
         NEW b \in BOOLEAN, NEW d \in BOOLEAN
  PROVE  [w EXCEPT ![s].pc = "clear", ![s].restart = b, ![s].cmdWhenDisc = d]
           \in [Scids -> WorkerType]
<1> DEFINE v == [w[s] EXCEPT !.pc = "clear", !.restart = b, !.cmdWhenDisc = d]
<1>1. w[s] \in WorkerType
  OBVIOUS
<1>2. v \in WorkerType
  BY <1>1 DEF WorkerType, Pcs
<1>3. [w EXCEPT ![s].pc = "clear", ![s].restart = b, ![s].cmdWhenDisc = d]
        = [w EXCEPT ![s] = v]
  BY <1>1 DEF WorkerType
<1> HIDE DEF v
<1>4. QED
  BY <1>2, <1>3

\* Every step of a socket thread preserves the types.
LEMMA WorkerStepType ==
  ASSUME TypeOK, NEW s \in Scids, WorkerStep(s)
  PROVE  TypeOK'
<1> DEFINE W == worker' \in [Scids -> WorkerType]
           L == scList' \in [Scids -> SlotType]
           S == sock' \in [Scids -> {"none", "open", "conn"}]
           M == /\ auto' \in BOOLEAN /\ current' \in Scids \cup {NoScid}
                /\ mode' \in {"COMMAND", "DATA"}
           Q == reapQueue' \in Seq(Scids) /\ Len(reapQueue') <= QueueLen
<1>0. ASSUME NEW pc \in Pcs, Goto(s, pc) PROVE W
  BY <1>0 DEF Goto, TypeOK, WorkerType
<1>1. CASE WorkerCreate(s)
  <2>1. L
    <3>1. scList[s] \in SlotType /\ worker[s].req \in RequestType \cup {NoRequest}
      BY DEF TypeOK, WorkerType
    <3>2. QED
      BY <1>1, <3>1, ListedType DEF WorkerCreate, TypeOK
  <2>2. S /\ W
    BY <1>1, <1>0 DEF WorkerCreate, TypeOK, Pcs
  <2>3. QED
    BY <1>1, <2>1, <2>2 DEF WorkerCreate, TypeOK, modes, cons, reaping
<1>2. CASE WorkerCreateFails(s)
  <2>1. L
    <3>1. CASE UNCHANGED scList
      BY <3>1 DEF TypeOK
    <3>2. ASSUME NEW p \in Ports \cup {0}, scList' = [scList EXCEPT ![s].localPort = p]
          PROVE  L
      <4>1. p \in Nat
        BY PortsNat
      <4>2. QED
        BY <3>2, <4>1, SlotFieldTypes DEF TypeOK
    <3>3. QED
      BY <1>2, <3>1, <3>2 DEF WorkerCreateFails
  <2>2. W /\ Q
    BY <1>2, ExitType DEF WorkerCreateFails
  <2>3. QED
    BY <1>2, <2>1, <2>2 DEF WorkerCreateFails, TypeOK, modes, cons
<1>3. CASE WorkerAccept(s)
  <2>1. S /\ W
    BY <1>3, <1>0 DEF WorkerAccept, TypeOK, Pcs
  <2>2. L
    BY <1>3, SlotFieldTypes DEF WorkerAccept, TypeOK
  <2>3. QED
    BY <1>3, <2>1, <2>2 DEF WorkerAccept, TypeOK, modes, cons, reaping
<1>4. CASE WorkerConnect(s)
  <2>1. S /\ W
    BY <1>4, <1>0 DEF WorkerConnect, TypeOK, Pcs
  <2>2. QED
    BY <1>4, <2>1 DEF WorkerConnect, TypeOK, modes, cons, reaping
<1>5. CASE WorkerOpenFails(s)
  <2>1. S /\ W
    BY <1>5, <1>0 DEF WorkerOpenFails, TypeOK, Pcs
  <2>2. QED
    BY <1>5, <2>1 DEF WorkerOpenFails, TypeOK, modes, cons, reaping
<1>6. CASE WorkerConnected(s) \/ WorkerTakesScid(s) \/ WorkerEntersData(s)
  <2>1. W
    BY <1>6, <1>0 DEF WorkerConnected, WorkerTakesScid, WorkerEntersData, Pcs
  <2>2. M
    BY <1>6
    DEF WorkerConnected, WorkerTakesScid, WorkerEntersData, TypeOK, WorkerType,
        RequestType, NoRequest
  <2>3. QED
    BY <1>6, <2>1, <2>2
    DEF WorkerConnected, WorkerTakesScid, WorkerEntersData, TypeOK, cons, reaping
<1>7. CASE WorkerReceiveError(s)
  <2>1. W
    <3> DEFINE restart == IsTcpServer(worker[s].req) /\ ~scList[s].notRestart
               escaped == IF worker[s].req.conType = "TCP" THEN mode = "COMMAND"
                                                           ELSE worker[s].cmdWhenDisc
    <3>1. restart \in BOOLEAN /\ escaped \in BOOLEAN
      BY DEF IsTcpServer, TypeOK, WorkerType
    <3>2. worker' = [worker EXCEPT ![s].pc = "clear", ![s].restart = restart,
                                   ![s].cmdWhenDisc = escaped]
      BY <1>7 DEF WorkerReceiveError
    <3> HIDE DEF restart, escaped
    <3>3. QED
      BY <3>1, <3>2, DecisionType DEF TypeOK
  <2>2. S
    BY <1>7 DEF WorkerReceiveError, TypeOK
  <2>3. QED
    BY <1>7, <2>1, <2>2 DEF WorkerReceiveError, TypeOK, modes, cons, reaping
<1>8. CASE WorkerClear(s)
  <2>1. W /\ L /\ M
    BY <1>8, <1>0, ZeroTypes DEF WorkerClear, TypeOK, Pcs
  <2>2. QED
    BY <1>8, <2>1 DEF WorkerClear, TypeOK, cons, reaping
<1>9. CASE WorkerNotify(s)
  <2>1. L
    <3>1. PICK b \in BOOLEAN : scList' = [scList EXCEPT ![s].notRestart = b]
      BY <1>9 DEF WorkerNotify
    <3>2. QED
      BY <3>1, SlotFieldTypes DEF TypeOK
  <2>2. mode' \in {"COMMAND", "DATA"}
    BY <1>9 DEF WorkerNotify, AnnouncedMode, TypeOK
  <2>3. W /\ Q
    <3>1. CASE Exit(s)
      BY <3>1, ExitType
    <3>2. CASE ~Exit(s)
      <4>1. /\ worker' = [worker EXCEPT ![s].pc = "create", ![s].restart = FALSE]
            /\ UNCHANGED reapQueue
        BY <1>9, <3>2 DEF WorkerNotify
      <4>2. worker \in [Scids -> WorkerType] /\ "create" \in Pcs
        BY DEF TypeOK, Pcs
      <4>3. QED
        BY <4>1, <4>2, TurnType DEF TypeOK
    <3>3. QED
      BY <3>1, <3>2
  <2>4. QED
    BY <1>9, <2>1, <2>2, <2>3 DEF WorkerNotify, TypeOK, cons
<1>10. CASE UdpReceive(s)
  <2>1. L
    BY <1>10, SlotFieldTypes DEF UdpReceive, TypeOK
  <2>2. QED
    BY <1>10, <2>1 DEF UdpReceive, TypeOK, modes, cons, reaping
<1>11. CASE WorkerListen(s)
  <2>1. W
    BY <1>11, <1>0 DEF WorkerListen, Pcs
  <2>2. QED
    BY <1>11, <2>1 DEF WorkerListen, TypeOK, modes, cons, reaping
<1>12. QED
  BY <1>1, <1>2, <1>3, <1>4, <1>5, <1>6, <1>7, <1>8, <1>9, <1>10, <1>11
  DEF WorkerStep, WorkerRuns

\* And every step of a closing thread.
LEMMA CloserStepType ==
  ASSUME TypeOK, NEW c \in Closers, CloserStep(c)
  PROVE  TypeOK'
<1> DEFINE C == /\ closer' \in [Closers -> CloserType]
                /\ \A d \in Closers :
                     closer'[d].pc \in {"delete", "disconnect"} => closer'[d].next \in Scids
           S == sock' \in [Scids -> {"none", "open", "conn"}]
<1>1. ASSUME NEW s \in Scids, CloserNext(c, s) PROVE C
  <2>1. s + 1 \in 0 .. MaxScid
    BY MaxScidAssumption DEF Scids
  <2>2. QED
    BY <1>1, <2>1, ZeroTypes DEF CloserNext, TypeOK, CloserType, IdleCloser
<1>2. CASE CloseDisconnect(c)
  <2>1. PICK s \in Scids :
          /\ IF scList[s].conType = "TCP"
               THEN closer' = [closer EXCEPT ![c].pc = "delete", ![c].next = s]
               ELSE CloserNext(c, s)
          /\ sock' \in {sock, [sock EXCEPT ![s] = "none"]}
          /\ corrupted' \in BOOLEAN
    BY <1>2 DEF CloseDisconnect, Lowest, ToClose
  <2>2. s \in 0 .. MaxScid
    BY MaxScidAssumption DEF Scids
  <2>3. CASE scList[s].conType = "TCP"
    <3>1. closer' = [closer EXCEPT ![c].pc = "delete", ![c].next = s]
      BY <2>1, <2>3
    <3> DEFINE v == [closer[c] EXCEPT !.pc = "delete", !.next = s]
    <3>2. closer[c] \in CloserType
      BY DEF TypeOK
    <3>3. v \in CloserType /\ v.next = s /\ closer' = [closer EXCEPT ![c] = v]
      BY <2>2, <3>1, <3>2 DEF CloserType
    <3> HIDE DEF v
    <3>4. C
      BY <3>3 DEF TypeOK
    <3>5. QED
      BY <1>2, <2>1, <3>4 DEF CloseDisconnect, TypeOK, modes, cons, reaping
  <2>4. CASE scList[s].conType # "TCP"
    <3>1. C
      BY <1>1, <2>1, <2>4
    <3>2. QED
      BY <1>2, <2>1, <3>1 DEF CloseDisconnect, TypeOK, modes, cons, reaping
  <2>5. QED
    BY <2>3, <2>4
<1>3. CASE CloseDelete(c)
  <2>1. C
    BY <1>1, <1>3 DEF CloseDelete, TypeOK
  <2>2. S /\ corrupted' \in BOOLEAN
    BY <1>3 DEF CloseDelete, TypeOK
  <2>3. QED
    BY <1>3, <2>1, <2>2 DEF CloseDelete, TypeOK, modes, cons, reaping
<1>4. CASE CloseFinish(c)
  <2>1. C
    BY <1>4, ZeroTypes DEF CloseFinish, TypeOK, IdleCloser
  <2>2. /\ auto' \in BOOLEAN /\ current' \in Scids \cup {NoScid}
        /\ mode' \in {"COMMAND", "DATA"}
    BY <1>4 DEF CloseFinish, TypeOK, modes
  <2>3. QED
    BY <1>4, <2>1, <2>2 DEF CloseFinish, TypeOK, slots, cons, reaping
<1>5. CASE IdleReturn(c)
  <2>1. C
    BY <1>5, ZeroTypes DEF IdleReturn, TypeOK, IdleCloser
  <2>2. corrupted' \in BOOLEAN
    BY <1>5 DEF IdleReturn
  <2>3. QED
    BY <1>5, <2>1, <2>2 DEF IdleReturn, TypeOK, slots, modes, cons, reaping
<1>6. QED
  BY <1>2, <1>3, <1>4, <1>5 DEF CloserStep

\* StartClosing gives a closing thread its work.
LEMMA StartType ==
  ASSUME TypeOK, NEW c \in Closers, NEW s \in Scids, NEW all \in BOOLEAN,
         NEW then \in {"smgmt", "leave", "disassoc"}, StartClosing(c, s, all, then)
  PROVE  /\ closer' \in [Closers -> CloserType]
         /\ \A d \in Closers :
              closer'[d].pc \in {"delete", "disconnect"} => closer'[d].next \in Scids
<1>1. s \in 0 .. MaxScid
  BY MaxScidAssumption DEF Scids
<1>2. QED
  BY <1>1 DEF StartClosing, TypeOK, CloserType

\* AT+SMGMT's marks change only a field of the slots.
LEMMA MarkType ==
  ASSUME TypeOK, NEW S, MarkServers(S)
  PROVE  scList' \in [Scids -> SlotType]
<1>1. ASSUME NEW s \in Scids PROVE scList'[s] \in SlotType
  <2>1. scList[s] \in SlotType
    BY DEF TypeOK
  <2>2. [scList[s] EXCEPT !.notRestart = TRUE] \in SlotType
    BY <2>1 DEF SlotType
  <2>3. QED
    BY <2>1, <2>2 DEF MarkServers
<1>2. QED
  BY <1>1 DEF MarkServers

\* AT+SCON and the listener of option 9.
LEMMA SconType ==
  ASSUME TypeOK, NEW r \in RequestType, Scon(r)
  PROVE  TypeOK'
<1>1. PICK s \in Scids : Launch(s, r)
  BY DEF Scon, ScidGet, Lowest, FreeScids
<1>2. /\ worker' \in [Scids -> WorkerType]
      /\ sock' \in [Scids -> {"none", "open", "conn"}]
      /\ corrupted' \in BOOLEAN
  BY <1>1, LaunchType
<1>3. r.localPort \in Ports \cup {0}
  BY DEF RequestType
<1>4. optTS' \in BOOLEAN /\ lastPort' \in Ports \cup {0}
  BY <1>3 DEF Scon, IsTcpServer, TypeOK
<1>5. QED
  BY <1>2, <1>4 DEF Scon, TypeOK, modes, reaping

\* The listener of option 9 asks for what AT+SCON could ask for, but for the
\* port, which it has from an earlier request.
LEMMA CommandType ==
  ASSUME TypeOK, Command
  PROVE  TypeOK'
<1>1. ASSUME NEW r \in Requests, SconStore(r) PROVE TypeOK'
  BY <1>1 DEF SconStore, IsTcpServer, TypeOK, slots, modes, reaping
<1>2. ASSUME NEW r \in Requests, HostScon(r) PROVE TypeOK'
  BY <1>2, RequestsAssumption, SconType DEF HostScon
<1>3. CASE Relisten
  <2> DEFINE r == [conType |-> "TCP", server |-> TRUE, dataMode |-> FALSE,
                   tlsMode |-> "N", localPort |-> lastPort]
  <2>1. r \in RequestType
    BY <1>3 DEF TypeOK, RequestType
  <2>2. Scon(r)
    BY <1>3 DEF Relisten
  <2>3. QED
    BY <2>1, <2>2, SconType
<1>4. CASE SmgmtAll
  <2>1. scList' \in [Scids -> SlotType]
    BY <1>4, MarkType DEF SmgmtAll
  <2>2. QED
    BY <1>4, <2>1, StartType, ZeroTypes DEF SmgmtAll, TypeOK, modes, cons, reaping, Closers
<1>5. CASE Wleave
  BY <1>5, StartType, ZeroTypes DEF Wleave, TypeOK, slots, modes, cons, reaping, Closers
<1>6. CASE Sdata
  BY <1>6 DEF Sdata, TypeOK, slots, cons, reaping
<1>7. ASSUME NEW s \in Scids, Smgmt(s) PROVE TypeOK'
  <2>1. scList' \in [Scids -> SlotType]
    BY <1>7, MarkType DEF Smgmt
  <2>2. QED
    BY <1>7, <2>1, StartType DEF Smgmt, TypeOK, modes, cons, reaping, Closers
<1>8. ASSUME NEW s \in Scids, SsendStart(s) PROVE TypeOK'
  <2>1. scList' \in [Scids -> SlotType]
    <3>1. scList' = [scList EXCEPT ![s].remote = TRUE]
      BY <1>8 DEF SsendStart
    <3>2. QED
      BY <3>1, SlotFieldTypes DEF TypeOK
  <2>2. QED
    BY <1>8, <2>1 DEF SsendStart, TypeOK, cons, reaping
<1>9. ASSUME NEW s \in Scids, IdleDisconnect(s) PROVE TypeOK'
  <2>1. s \in 0 .. MaxScid
    BY MaxScidAssumption DEF Scids
  <2>2. /\ closer' \in [Closers -> CloserType]
        /\ \A d \in Closers :
             closer'[d].pc \in {"delete", "disconnect"} => closer'[d].next \in Scids
    BY <1>9, <2>1 DEF IdleDisconnect, TypeOK, CloserType, Closers
  <2>3. sock' \in [Scids -> {"none", "open", "conn"}] /\ corrupted' \in BOOLEAN
    BY <1>9 DEF IdleDisconnect, TypeOK
  <2>4. QED
    BY <1>9, <2>2, <2>3 DEF IdleDisconnect, TypeOK, modes, cons, reaping
<1>10. CASE SsendEnd
  BY <1>10 DEF SsendEnd, TypeOK, slots, cons, reaping
<1>11. QED
  BY <1>1, <1>2, <1>3, <1>4, <1>5, <1>6, <1>7, <1>8, <1>9, <1>10 DEF Command

\* Every step of the system preserves the types.
LEMMA NextType == TypeOK /\ [Next]_vars => TypeOK'
<1> SUFFICES ASSUME TypeOK, [Next]_vars PROVE TypeOK'
  OBVIOUS
<1>1. CASE UNCHANGED vars
  BY <1>1 DEF TypeOK, vars
<1>2. CASE Reset
  <2>1. Init'
    BY <1>2 DEF Reset, Init
  <2>2. QED
    BY <2>1, InitType, PTL
<1>3. CASE Command
  BY <1>3, CommandType
<1>4. CASE LinkDown
  BY <1>4, StartType, ZeroTypes DEF LinkDown, TypeOK, slots, modes, cons, reaping, Closers
<1>5. CASE LinkUp
  BY <1>5 DEF LinkUp, TypeOK, slots, modes, cons, reaping
<1>6. CASE Escape \/ TransmitBadCid
  BY <1>6 DEF Escape, TransmitBadCid, TypeOK, slots, cons, reaping
<1>7. ASSUME NEW s \in Scids, PeerCloses(s) PROVE TypeOK'
  BY <1>7 DEF PeerCloses, TypeOK, modes, cons, reaping
<1>8. ASSUME NEW s \in Scids, WorkerStep(s) PROVE TypeOK'
  BY <1>8, WorkerStepType
<1>9. ASSUME NEW c \in Closers, CloserStep(c) PROVE TypeOK'
  BY <1>9, CloserStepType
<1>10. CASE ReaperTake
  <2>1. /\ Head(reapQueue) \in Scids /\ Tail(reapQueue) \in Seq(Scids)
        /\ Len(Tail(reapQueue)) <= QueueLen
    BY <1>10, HeadTailProperties, LenProperties, QueueLenAssumption DEF ReaperTake, TypeOK
  <2>2. QED
    BY <1>10, <2>1 DEF ReaperTake, TypeOK, slots, modes, cons
<1>11. CASE ReaperKill
  BY <1>11, ZeroTypes DEF ReaperKill, TypeOK, modes, cons
<1>12. QED
  BY <1>1, <1>2, <1>3, <1>4, <1>5, <1>6, <1>7, <1>8, <1>9, <1>10, <1>11
  DEF Next, Running, Environment

\* The variables always have their types.
THEOREM TypeCorrect == Spec => []TypeOK
  BY InitType, NextType, PTL DEF Spec

-----------------------------------------------------------------------------
(* Safety.  ListedWhileOpen, DataSocketIsFirst and AutoBacked are          *)
(* inductive only together, and with what an unlisted slot looks like: its *)
(* thread has not listed it yet or has cleared it, and nothing of its last *)
(* socket is left in it.  Only a data-mode socket takes the serial line.   *)

UnlistedIsClean ==
  \A s \in Scids :
    /\ worker[s].pc \in {"create", "notify"} => ~Listed(s)
    /\ ~Listed(s) => ~scList[s].dataMode /\ ~scList[s].notRestart

TakersAreData ==
  \A s \in Scids : worker[s].pc \in {"taken", "named"} => worker[s].req.dataMode

SafetyInv ==
  ListedWhileOpen /\ DataSocketIsFirst /\ UnlistedIsClean /\ TakersAreData /\ AutoBacked

\* The part of it about one scid.
SlotInv(s) ==
  /\ worker[s].pc \notin {"none", "create", "notify", "done"} =>
       /\ Listed(s)
       /\ scList[s].conType = worker[s].req.conType
       /\ scList[s].server = worker[s].req.server
       /\ scList[s].dataMode = worker[s].req.dataMode
  /\ scList[s].dataMode \/ (Alive(s) /\ worker[s].req.dataMode) => s = 0
  /\ worker[s].pc \in {"create", "notify"} => ~Listed(s)
  /\ ~Listed(s) => ~scList[s].dataMode /\ ~scList[s].notRestart
  /\ worker[s].pc \in {"taken", "named"} => worker[s].req.dataMode

\* The invariant is that of every scid, and AutoBacked.
LEMMA SafetySplit == SafetyInv <=> AutoBacked /\ \A s \in Scids : SlotInv(s)
  BY DEF SafetyInv, ListedWhileOpen, DataSocketIsFirst, UnlistedIsClean, TakersAreData, SlotInv

\* The same of the state after a step.
LEMMA SafetySplitNext == SafetyInv' <=> AutoBacked' /\ \A s \in Scids : SlotInv(s)'
  BY DEF SafetyInv, ListedWhileOpen, DataSocketIsFirst, UnlistedIsClean, TakersAreData,
         SlotInv, Listed, Alive

\* What does not touch a scid's slot and thread does not touch its invariant.
LEMMA SlotFrame ==
  ASSUME NEW s \in Scids, SlotInv(s), scList'[s] = scList[s], worker'[s] = worker[s]
  PROVE  SlotInv(s)'
  BY DEF SlotInv, Listed, Alive

\* After a reset nothing is open.
LEMMA InitSafety == Init => SafetyInv
<1> SUFFICES ASSUME Init PROVE SafetyInv
  OBVIOUS
<1>1. AutoBacked
  BY DEF Init, AutoBacked
<1>2. ASSUME NEW s \in Scids PROVE SlotInv(s)
  BY DEF Init, SlotInv, Listed, Alive, ZeroSlot, IdleWorker
<1>3. QED
  BY <1>1, <1>2, SafetySplit

\* A socket thread keeps the invariant of its own scid.
LEMMA WorkerStepSlot ==
  ASSUME TypeOK, NEW s \in Scids, SlotInv(s), WorkerStep(s)
  PROVE  /\ SlotInv(s)'
         /\ \A t \in Scids \ {s} : scList'[t] = scList[t] /\ worker'[t] = worker[t]
<1> USE DEF TypeOK, SlotInv, Listed, Alive, Goto
<1>1. CASE WorkerCreate(s)
  BY <1>1 DEF WorkerCreate, ListedSlot, WorkerType, SlotType
<1>2. CASE WorkerCreateFails(s)
  <2>1. /\ worker'[s].pc = "done"
        /\ \A t \in Scids \ {s} : worker'[t] = worker[t]
    BY <1>2 DEF WorkerCreateFails, Exit, WorkerType
  <2>2. /\ scList'[s].pSocket = scList[s].pSocket
        /\ scList'[s].dataMode = scList[s].dataMode
        /\ scList'[s].notRestart = scList[s].notRestart
        /\ \A t \in Scids \ {s} : scList'[t] = scList[t]
    BY <1>2 DEF WorkerCreateFails, SlotType
  <2>3. QED
    BY <2>1, <2>2
<1>3. CASE WorkerAccept(s)
  BY <1>3 DEF WorkerAccept, WorkerType, SlotType
<1>4. CASE WorkerConnect(s)
  BY <1>4 DEF WorkerConnect, WorkerType, SlotType
<1>5. CASE WorkerOpenFails(s)
  BY <1>5 DEF WorkerOpenFails, WorkerType, SlotType
<1>6. CASE WorkerConnected(s) \/ WorkerTakesScid(s) \/ WorkerEntersData(s)
  BY <1>6 DEF WorkerConnected, WorkerTakesScid, WorkerEntersData, WorkerType
<1>7. CASE WorkerReceiveError(s)
  <2>1. /\ worker'[s].pc = "clear" /\ worker'[s].req = worker[s].req
        /\ \A t \in Scids \ {s} : worker'[t] = worker[t]
    BY <1>7 DEF WorkerReceiveError, WorkerType
  <2>2. scList' = scList /\ worker[s].pc = "recv"
    BY <1>7 DEF WorkerReceiveError
  <2>3. QED
    BY <2>1, <2>2
<1>8. CASE WorkerClear(s)
  <2>1. /\ worker'[s].pc = "notify" /\ worker'[s].req = worker[s].req
        /\ worker[s].pc = "clear"
        /\ \A t \in Scids \ {s} : worker'[t] = worker[t]
    BY <1>8 DEF WorkerClear, WorkerType
  <2>2. /\ scList'[s] = ZeroSlot
        /\ \A t \in Scids \ {s} : scList'[t] = scList[t]
    BY <1>8 DEF WorkerClear
  <2>3. QED
    BY <2>1, <2>2 DEF ZeroSlot
<1>9. CASE WorkerNotify(s)
  <2>1. /\ worker'[s].pc \in {"create", "done"} /\ worker'[s].req = worker[s].req
        /\ \A t \in Scids \ {s} : worker'[t] = worker[t]
    BY <1>9 DEF WorkerNotify, Exit, WorkerType
  <2>2. /\ scList[s] \in SlotType /\ worker[s].pc = "notify"
        /\ scList'[s].pSocket = scList[s].pSocket
        /\ scList'[s].dataMode = scList[s].dataMode
        /\ scList'[s].notRestart => scList[s].notRestart
        /\ \A t \in Scids \ {s} : scList'[t] = scList[t]
    BY <1>9 DEF WorkerNotify, SlotType
  <2>3. QED
    BY <2>1, <2>2
<1>10. CASE UdpReceive(s)
  BY <1>10 DEF UdpReceive, WorkerType, SlotType
<1>11. CASE WorkerListen(s)
  BY <1>11 DEF WorkerListen, WorkerType
<1>12. QED
  BY <1>1, <1>2, <1>3, <1>4, <1>5, <1>6, <1>7, <1>8, <1>9, <1>10, <1>11
  DEF WorkerStep, WorkerRuns

\* A socket thread keeps the invariant: only the data socket's thread sets and
\* resets g_isAutoconnected, and it resets it with its slot.
LEMMA WorkerStepSafety ==
  ASSUME TypeOK, SafetyInv, NEW s \in Scids, WorkerStep(s)
  PROVE  SafetyInv'
<1>1. AutoBacked /\ \A t \in Scids : SlotInv(t)
  BY SafetySplit
<1>2. /\ SlotInv(s)'
      /\ \A t \in Scids \ {s} : scList'[t] = scList[t] /\ worker'[t] = worker[t]
  BY <1>1, WorkerStepSlot
<1>3. \A t \in Scids : SlotInv(t)'
  BY <1>1, <1>2, SlotFrame
<1>4. AutoBacked'
  <2>1. ASSUME auto', s # 0 PROVE Listed(0)' /\ scList'[0].dataMode
    <3>1. auto
      BY <1>1, <2>1
      DEF WorkerStep, WorkerRuns, WorkerCreate, WorkerCreateFails, WorkerAccept,
          WorkerListen, WorkerConnect, WorkerOpenFails, WorkerConnected,
          WorkerTakesScid, WorkerEntersData, WorkerReceiveError,
          WorkerClear, WorkerNotify, UdpReceive, modes, SlotInv, Alive, TypeOK
    <3>2. QED
      BY <1>1, <1>2, <2>1, <3>1, ZeroTypes DEF AutoBacked, Listed
  <2>2. ASSUME auto', s = 0 PROVE Listed(0)' /\ scList'[0].dataMode
    <3> USE DEF Listed
    <3>1. SlotInv(0) /\ (auto => Listed(0) /\ scList[0].dataMode)
      BY <1>1, <2>2 DEF AutoBacked
    <3>2. CASE WorkerCreate(0) \/ WorkerCreateFails(0) \/ WorkerNotify(0)
      BY <2>2, <3>1, <3>2
      DEF WorkerCreate, WorkerCreateFails, WorkerNotify, modes, SlotInv
    <3>3. CASE WorkerAccept(0) \/ UdpReceive(0)
      BY <2>2, <3>1, <3>3 DEF WorkerAccept, UdpReceive, modes, TypeOK, SlotType
    <3>4. CASE WorkerListen(0) \/ WorkerConnect(0) \/ WorkerOpenFails(0)
               \/ WorkerReceiveError(0)
      BY <2>2, <3>1, <3>4
      DEF WorkerListen, WorkerConnect, WorkerOpenFails, WorkerReceiveError, modes
    <3>5. CASE WorkerConnected(0) \/ WorkerTakesScid(0) \/ WorkerEntersData(0)
      BY <2>2, <3>1, <3>5 DEF WorkerConnected, WorkerTakesScid, WorkerEntersData, SlotInv
    <3>6. CASE WorkerClear(0)
      BY <2>2, <3>1, <3>6 DEF WorkerClear, TypeOK
    <3>7. QED
      BY <2>2, <3>2, <3>3, <3>4, <3>5, <3>6 DEF WorkerStep, WorkerRuns
  <2>3. QED
    BY <2>1, <2>2 DEF AutoBacked, Listed
<1>5. QED
  BY <1>3, <1>4, SafetySplitNext

\* AT+SCON launches on a scid whose slot is free, and a data-mode socket only
\* when all slots are.
LEMMA SconSafety ==
  ASSUME TypeOK, SafetyInv, NEW r \in RequestType, Scon(r)
  PROVE  SafetyInv'
<1>1. AutoBacked /\ \A t \in Scids : SlotInv(t)
  BY SafetySplit
<1>2. PICK s \in Scids : /\ ~Listed(s) /\ Launch(s, r)
                         /\ r.dataMode => s = 0
  <2>1. PICK s \in ScidGet : Launch(s, r)
    BY DEF Scon
  <2>2. s \in Scids /\ ~Listed(s)
    BY DEF ScidGet, Lowest, FreeScids
  <2>3. ASSUME r.dataMode PROVE s = 0
    <3>1. 0 \in FreeScids
      BY <2>3, ZeroTypes DEF Scon, SconAllowed, DataAllowed
    <3>2. s <= 0
      BY <3>1 DEF ScidGet, Lowest
    <3>3. QED
      BY <2>2, <3>2 DEF Scids
  <2>4. QED
    BY <2>1, <2>2, <2>3
<1>3. UNCHANGED <<scList, auto>>
  BY DEF Scon, modes
<1>4. ASSUME NEW t \in Scids PROVE SlotInv(t)'
  <2>1. CASE worker'[t] = worker[t]
    BY <1>1, <1>3, <2>1, SlotFrame
  <2>2. CASE worker'[t] # worker[t]
    <3>1. t = s /\ worker'[t].pc = "create" /\ worker'[t].req = r
      BY <1>2, <2>2 DEF Launch, TypeOK, IdleWorker
    <3>2. /\ ~Listed(t) /\ UNCHANGED scList /\ ~scList[t].dataMode /\ ~scList[t].notRestart
          /\ worker'[t].req.dataMode => t = 0
      BY <1>1, <1>2, <1>3, <3>1 DEF SlotInv
    <3>3. QED
      BY <3>1, <3>2 DEF SlotInv, Listed
  <2>3. QED
    BY <2>1, <2>2
<1>5. AutoBacked'
  BY <1>1, <1>3 DEF AutoBacked, Listed
<1>6. QED
  BY <1>4, <1>5, SafetySplitNext

\* A mark of AT+SMGMT goes only to listed slots.
LEMMA MarkSafety ==
  ASSUME TypeOK, SafetyInv, NEW S, MarkServers(S), UNCHANGED <<worker, auto>>
  PROVE  SafetyInv'
<1>1. AutoBacked /\ \A t \in Scids : SlotInv(t)
  BY SafetySplit
<1>2. ASSUME NEW t \in Scids
      PROVE  /\ scList'[t].pSocket = scList[t].pSocket
             /\ scList'[t].conType = scList[t].conType
             /\ scList'[t].server = scList[t].server
             /\ scList'[t].dataMode = scList[t].dataMode
             /\ Listed(t) \/ scList'[t] = scList[t]
  BY DEF MarkServers, TypeOK, SlotType
<1>3. ASSUME NEW t \in Scids PROVE SlotInv(t)'
  BY <1>1, <1>2 DEF SlotInv, Listed, Alive
<1>4. AutoBacked'
  BY <1>1, <1>2, ZeroTypes DEF AutoBacked, Listed
<1>5. QED
  BY <1>3, <1>4, SafetySplitNext

\* Steps that touch neither slots nor threads can only reset g_isAutoconnected.
LEMMA SafetyFrame ==
  ASSUME SafetyInv, UNCHANGED <<scList, worker>>, auto' => auto
  PROVE  SafetyInv'
<1>1. AutoBacked /\ \A t \in Scids : SlotInv(t)
  BY SafetySplit
<1>2. \A t \in Scids : SlotInv(t)'
  BY <1>1, SlotFrame
<1>3. AutoBacked'
  BY <1>1 DEF AutoBacked, Listed
<1>4. QED
  BY <1>2, <1>3, SafetySplitNext

\* Every step of the system keeps the invariant.
LEMMA NextSafety == TypeOK /\ SafetyInv /\ [Next]_vars => SafetyInv'
<1> SUFFICES ASSUME TypeOK, SafetyInv, [Next]_vars PROVE SafetyInv'
  OBVIOUS
<1> USE SafetyFrame
<1>1. CASE UNCHANGED vars
  BY <1>1 DEF vars
<1>2. CASE Reset
  <2>1. Init'
    BY <1>2 DEF Reset, Init
  <2>2. QED
    BY <2>1, InitSafety, PTL
<1>3. ASSUME NEW r \in Requests, SconStore(r) PROVE SafetyInv'
  BY <1>3 DEF SconStore, slots, modes
<1>4. ASSUME NEW r \in Requests, HostScon(r) PROVE SafetyInv'
  BY <1>4, RequestsAssumption, SconSafety DEF HostScon
<1>5. CASE Relisten
  <2> DEFINE r == [conType |-> "TCP", server |-> TRUE, dataMode |-> FALSE,
                   tlsMode |-> "N", localPort |-> lastPort]
  <2>1. r \in RequestType
    BY <1>5 DEF TypeOK, RequestType
  <2>2. Scon(r)
    BY <1>5 DEF Relisten
  <2>3. QED
    BY <2>1, <2>2, SconSafety
<1>6. CASE SmgmtAll
  BY <1>6, MarkSafety DEF SmgmtAll, modes
<1>7. ASSUME NEW s \in Scids, Smgmt(s) PROVE SafetyInv'
  BY <1>7, MarkSafety DEF Smgmt, modes
<1>8. ASSUME NEW s \in Scids, SsendStart(s) PROVE SafetyInv'
  <2>1. AutoBacked /\ \A t \in Scids : SlotInv(t)
    BY SafetySplit
  <2>2. /\ UNCHANGED <<worker, auto>>
        /\ \A t \in Scids : \/ scList'[t] = scList[t]
                           \/ scList'[t] = [scList[t] EXCEPT !.remote = TRUE]
    BY <1>8 DEF SsendStart, TypeOK
  <2>3. ASSUME NEW t \in Scids
        PROVE  /\ scList'[t].pSocket = scList[t].pSocket
               /\ scList'[t].conType = scList[t].conType
               /\ scList'[t].server = scList[t].server
               /\ scList'[t].dataMode = scList[t].dataMode
               /\ scList'[t].notRestart = scList[t].notRestart
    <3>1. scList[t] \in SlotType
      BY DEF TypeOK
    <3>2. CASE scList'[t] = scList[t]
      BY <3>2
    <3>3. CASE scList'[t] = [scList[t] EXCEPT !.remote = TRUE]
      BY <3>1, <3>3 DEF SlotType
    <3>4. QED
      BY <2>2, <3>2, <3>3
  <2>4. \A t \in Scids : SlotInv(t)'
    BY <2>1, <2>2, <2>3 DEF SlotInv, Listed, Alive
  <2>5. AutoBacked'
    BY <2>1, <2>2, <2>3, ZeroTypes DEF AutoBacked, Listed
  <2>6. QED
    BY <2>4, <2>5, SafetySplitNext
<1>9. ASSUME NEW s \in Scids, IdleDisconnect(s) \/ PeerCloses(s) PROVE SafetyInv'
  BY <1>9 DEF IdleDisconnect, PeerCloses, modes
<1>10. CASE Wleave \/ Sdata \/ SsendEnd \/ LinkDown \/ LinkUp \/ Escape \/ TransmitBadCid
  BY <1>10
  DEF Wleave, Sdata, SsendEnd, LinkDown, LinkUp, Escape, TransmitBadCid, slots, modes
<1>11. ASSUME NEW s \in Scids, WorkerStep(s) PROVE SafetyInv'
  BY <1>11, WorkerStepSafety
<1>12. ASSUME NEW c \in Closers, CloserStep(c) PROVE SafetyInv'
  BY <1>12
  DEF CloserStep, CloseDisconnect, CloseDelete, CloseFinish, IdleReturn, slots, modes
<1>13. CASE ReaperTake
  BY <1>13 DEF ReaperTake, slots, modes
<1>14. CASE ReaperKill
  <2>1. AutoBacked /\ \A t \in Scids : SlotInv(t)
    BY SafetySplit
  <2>2. /\ UNCHANGED <<scList, auto>>
        /\ \A t \in Scids : worker'[t] = worker[t] \/ worker'[t] = IdleWorker
    BY <1>14 DEF ReaperKill, modes, TypeOK
  <2>3. \A t \in Scids : SlotInv(t)'
    BY <2>1, <2>2 DEF SlotInv, Listed, Alive, IdleWorker
  <2>4. AutoBacked'
    BY <2>1, <2>2 DEF AutoBacked, Listed
  <2>5. QED
    BY <2>3, <2>4, SafetySplitNext
<1>15. QED
  BY <1>1, <1>2, <1>3, <1>4, <1>5, <1>6, <1>7, <1>8, <1>9, <1>10, <1>11, <1>12, <1>13, <1>14
  DEF Next, Running, Command, Environment

\* The invariant holds in every state.
LEMMA SafetyCorrect == Spec => []SafetyInv
  BY InitType, NextType, InitSafety, NextSafety, PTL DEF Spec

\* The closing threads reach the socket of every thread through its slot, even
\* if threads are deleted or launched over while they run.
THEOREM SocketsAreListed == Spec => []ListedWhileOpen
  BY SafetyCorrect, PTL DEF SafetyInv

\* WXCmd_SCON admits one data-mode socket, and gives it scid 0.
THEOREM OneDataSocket == Spec => []DataSocketIsFirst
  BY SafetyCorrect, PTL DEF SafetyInv

\* g_isAutoconnected never outlives the data-mode socket.
THEOREM AutoHasSocket == Spec => []AutoBacked
  BY SafetyCorrect, PTL DEF SafetyInv

\* The second test of notRestart in SocketOpenProcess is dead code.
THEOREM MarkTestIsDead == Spec => []LateMarkNeverSeen
<1>1. SafetyInv => LateMarkNeverSeen
  BY DEF SafetyInv, UnlistedIsClean, LateMarkNeverSeen
<1>2. QED
  BY <1>1, SafetyCorrect, PTL

-----------------------------------------------------------------------------
(* With a host that waits until the last thread of a scid is deleted, and  *)
(* without option 9, which does not wait.  A thread that returned is in  *)
(* the queue or with the reaper at most once, until it is deleted.         *)

QueuedAreDone ==
  /\ \A i \in 1 .. Len(reapQueue) :
       worker[reapQueue[i]].pc = "done" /\ reapQueue[i] # reaper
  /\ \A i, j \in 1 .. Len(reapQueue) : i # j => reapQueue[i] # reapQueue[j]

ReapInv == QueuedAreDone /\ DeletesTerminated

\* A step that leaves the queue and the reaper alone, and the threads that
\* returned, keeps the reaper's invariant.
LEMMA ReapFrame ==
  ASSUME TypeOK, ReapInv, UNCHANGED reaping,
         \A t \in Scids : worker[t].pc = "done" => worker'[t].pc = "done"
  PROVE  ReapInv'
<1>1. \A i \in 1 .. Len(reapQueue) : reapQueue[i] \in Scids
  BY ElementOfSeq DEF TypeOK
<1>2. QueuedAreDone'
  BY <1>1 DEF ReapInv, QueuedAreDone, reaping
<1>3. DeletesTerminated'
  BY DEF ReapInv, DeletesTerminated, reaping, TypeOK
<1>4. QED
  BY <1>2, <1>3 DEF ReapInv

\* A socket thread that exits is not in the queue yet: its scid was alive.
LEMMA ExitReap ==
  ASSUME TypeOK, ReapInv, NEW s \in Scids, Exit(s), Alive(s), UNCHANGED reaper
  PROVE  ReapInv'
<1>1. /\ worker'[s].pc = "done"
      /\ \A t \in Scids : worker[t].pc = "done" => worker'[t].pc = "done"
  BY DEF Exit, TypeOK, WorkerType
<1>2. CASE reapQueue' = reapQueue
  BY <1>1, <1>2, ReapFrame DEF reaping
<1>3. CASE reapQueue' = Append(reapQueue, s)
  <2>1. reapQueue \in Seq(Scids) /\ Len(reapQueue) \in Nat
    BY LenProperties DEF TypeOK
  <2>2. /\ Len(reapQueue') = Len(reapQueue) + 1
        /\ \A i \in 1 .. Len(reapQueue) : reapQueue'[i] = reapQueue[i]
        /\ reapQueue'[Len(reapQueue) + 1] = s
    BY <1>3, <2>1, AppendProperties
  <2>3. \A i \in 1 .. Len(reapQueue) : reapQueue[i] \in Scids /\ reapQueue[i] # s
    BY <2>1, ElementOfSeq DEF ReapInv, QueuedAreDone, Alive
  <2>4. reaper # s
    BY ZeroTypes DEF ReapInv, DeletesTerminated, Alive
  <2>5. ASSUME NEW i \in 1 .. Len(reapQueue')
        PROVE  worker'[reapQueue'[i]].pc = "done" /\ reapQueue'[i] # reaper'
    <3>1. CASE i \in 1 .. Len(reapQueue)
      BY <1>1, <2>2, <2>3, <3>1 DEF ReapInv, QueuedAreDone
    <3>2. CASE i = Len(reapQueue) + 1
      BY <1>1, <2>2, <2>4, <3>2
    <3>3. QED
      BY <2>1, <2>2, <3>1, <3>2
  <2>6. ASSUME NEW i \in 1 .. Len(reapQueue'), NEW j \in 1 .. Len(reapQueue'), i # j
        PROVE  reapQueue'[i] # reapQueue'[j]
    <3>1. CASE i \in 1 .. Len(reapQueue) /\ j \in 1 .. Len(reapQueue)
      BY <2>2, <2>6, <3>1 DEF ReapInv, QueuedAreDone
    <3>2. CASE i = Len(reapQueue) + 1 /\ j \in 1 .. Len(reapQueue)
      BY <2>2, <2>3, <3>2
    <3>3. CASE i \in 1 .. Len(reapQueue) /\ j = Len(reapQueue) + 1
      BY <2>2, <2>3, <3>3
    <3>4. QED
      BY <2>1, <2>2, <2>6, <3>1, <3>2, <3>3
  <2>7. DeletesTerminated'
    BY <1>1 DEF ReapInv, DeletesTerminated, TypeOK
  <2>8. QED
    BY <2>5, <2>6, <2>7 DEF ReapInv, QueuedAreDone
<1>4. QED
  BY <1>2, <1>3 DEF Exit

\* The reaper takes the message of a thread that returned, and deletes it.
LEMMA ReaperReap ==
  ASSUME TypeOK, ReapInv, ReaperTake \/ ReaperKill
  PROVE  ReapInv'
<1>1. reapQueue \in Seq(Scids) /\ Len(reapQueue) \in Nat
  BY LenProperties DEF TypeOK
<1>2. CASE ReaperTake
  <2>1. /\ worker' = worker /\ reaper' = reapQueue[1] /\ Len(reapQueue) >= 1
        /\ Len(reapQueue') = Len(reapQueue) - 1
        /\ \A i \in 1 .. Len(reapQueue') : reapQueue'[i] = reapQueue[i + 1]
    BY <1>1, <1>2, HeadTailProperties, EmptySeq, LenProperties DEF ReaperTake, slots
  <2>2. \A i \in 1 .. Len(reapQueue') : i + 1 \in 1 .. Len(reapQueue)
    BY <1>1, <2>1
  <2>3. 1 \in 1 .. Len(reapQueue)
    BY <1>1, <2>1
  <2>4. DeletesTerminated'
    BY <2>1, <2>3 DEF ReapInv, QueuedAreDone, DeletesTerminated
  <2>5. QueuedAreDone'
    <3>1. ASSUME NEW i \in 1 .. Len(reapQueue')
          PROVE  worker'[reapQueue'[i]].pc = "done" /\ reapQueue'[i] # reaper'
      BY <2>1, <2>2, <2>3 DEF ReapInv, QueuedAreDone
    <3>2. ASSUME NEW i \in 1 .. Len(reapQueue'), NEW j \in 1 .. Len(reapQueue'), i # j
          PROVE  reapQueue'[i] # reapQueue'[j]
      <4>1. i + 1 # j + 1
        BY <3>2
      <4>2. QED
        BY <2>1, <2>2, <4>1 DEF ReapInv, QueuedAreDone
    <3>3. QED
      BY <3>1, <3>2 DEF QueuedAreDone
  <2>6. QED
    BY <2>4, <2>5 DEF ReapInv
<1>3. CASE ReaperKill
  <2>1. /\ reapQueue' = reapQueue /\ reaper' = NoScid
        /\ \A t \in Scids \ {reaper} : worker'[t] = worker[t]
    BY <1>3 DEF ReaperKill, TypeOK
  <2>2. \A i \in 1 .. Len(reapQueue) :
          reapQueue[i] \in Scids /\ reapQueue[i] # reaper /\ reapQueue[i] # NoScid
    BY <1>1, ElementOfSeq, ZeroTypes DEF ReapInv, QueuedAreDone
  <2>3. QED
    BY <2>1, <2>2 DEF ReapInv, QueuedAreDone, DeletesTerminated
<1>4. QED
  BY <1>2, <1>3

\* g_isAutoconnected is set by the data-mode socket's thread, and reset by it
\* when it clears its slot, if not before.
AutoLive == auto => worker[0].req.dataMode /\ worker[0].pc \in DataPcs \ {"notify"}

\* A listed slot has a live thread: only threads with a cleared slot return, and
\* only threads that returned are deleted.  Data mode is entered by the data
\* socket's thread, or by AT+SDATA with g_isAutoconnected.
ThreadsInv == ReapInv /\ NoDangling /\ AutoLive /\ ModeBacked

\* Steps that list no slot and touch no thread keep the threads' invariant, if
\* they enter data mode only with g_isAutoconnected, and do not set that.
LEMMA ThreadsFrame ==
  ASSUME TypeOK, ThreadsInv, UNCHANGED reaping, UNCHANGED worker,
         \A t \in Scids : Listed(t)' => Listed(t),
         auto' => auto, mode' = "DATA" => auto \/ mode = "DATA"
  PROVE  ThreadsInv'
  BY ReapFrame DEF ThreadsInv, NoDangling, Dangling, Listed, Alive, AutoLive, ModeBacked

\* After a reset there is no thread.
LEMMA InitThreads == Init => ThreadsInv
<1> SUFFICES ASSUME Init PROVE ThreadsInv
  OBVIOUS
<1>1. ReapInv
  BY EmptySeq DEF Init, ReapInv, QueuedAreDone, DeletesTerminated
<1>2. NoDangling /\ AutoLive /\ ModeBacked
  BY DEF Init, NoDangling, Dangling, Listed, ZeroSlot, AutoLive, ModeBacked
<1>3. QED
  BY <1>1, <1>2 DEF ThreadsInv

\* The socket threads keep it: a thread exits only with an unlisted slot.
LEMMA WorkerStepThreads ==
  ASSUME TypeOK, SafetyInv, ThreadsInv, NEW s \in Scids, WorkerStep(s)
  PROVE  ThreadsInv'
<1>1. /\ \A t \in Scids : SlotInv(t)
      /\ AutoBacked
  BY SafetySplit
<1>2. /\ SlotInv(s)'
      /\ \A t \in Scids \ {s} : scList'[t] = scList[t] /\ worker'[t] = worker[t]
  BY <1>1, WorkerStepSlot
<1>3. Alive(s) /\ reaper' = reaper
  BY DEF WorkerStep, WorkerRuns, WorkerCreate, WorkerCreateFails, WorkerAccept,
         WorkerListen, WorkerConnect, WorkerOpenFails, WorkerConnected,
         WorkerTakesScid, WorkerEntersData, WorkerReceiveError,
         WorkerClear, WorkerNotify, UdpReceive, reaping, Alive
<1>4. ReapInv'
  <2>1. CASE Exit(s)
    BY <1>3, <2>1, ExitReap DEF ThreadsInv
  <2>2. CASE UNCHANGED reapQueue
    BY <1>2, <1>3, <2>2, ReapFrame DEF ThreadsInv, Alive, reaping
  <2>3. QED
    BY <2>1, <2>2
    DEF WorkerStep, WorkerRuns, WorkerCreate, WorkerCreateFails, WorkerAccept,
        WorkerListen, WorkerConnect, WorkerOpenFails, WorkerConnected,
        WorkerTakesScid, WorkerEntersData, WorkerReceiveError,
        WorkerClear, WorkerNotify, UdpReceive, reaping
<1>5. NoDangling'
  <2>1. CASE WorkerCreateFails(s) \/ WorkerNotify(s)
    <3>1. ~Listed(s)
      BY <1>1, <2>1 DEF WorkerCreateFails, WorkerNotify, SlotInv
    <3>2. scList'[s].pSocket = scList[s].pSocket
      BY <2>1 DEF WorkerCreateFails, WorkerNotify, TypeOK, SlotType
    <3>3. ~Listed(s)'
      BY <3>1, <3>2 DEF Listed
    <3>4. QED
      BY <1>2, <3>3 DEF ThreadsInv, NoDangling, Dangling, Listed, Alive
  <2>2. CASE ~(WorkerCreateFails(s) \/ WorkerNotify(s))
    <3>1. Alive(s)'
      <4>1. ASSUME NEW pc \in Pcs \ {"none", "done"}, Goto(s, pc) PROVE Alive(s)'
        BY <4>1 DEF Goto, Alive, TypeOK, WorkerType
      <4>2. CASE WorkerReceiveError(s)
        BY <4>2 DEF WorkerReceiveError, Alive, TypeOK, WorkerType
      <4>3. CASE UdpReceive(s)
        BY <1>3, <4>3 DEF UdpReceive, Alive
      <4>4. CASE WorkerCreate(s) \/ WorkerListen(s) \/ WorkerAccept(s) \/ WorkerConnect(s)
        BY <4>1, <4>4 DEF WorkerCreate, WorkerListen, WorkerAccept, WorkerConnect, Pcs
      <4>5. CASE WorkerOpenFails(s) \/ WorkerClear(s)
        BY <4>1, <4>5 DEF WorkerOpenFails, WorkerClear, Pcs
      <4>6. CASE WorkerConnected(s) \/ WorkerTakesScid(s) \/ WorkerEntersData(s)
        BY <4>1, <4>6 DEF WorkerConnected, WorkerTakesScid, WorkerEntersData, Pcs
      <4>7. QED
        BY <2>2, <4>2, <4>3, <4>4, <4>5, <4>6 DEF WorkerStep, WorkerRuns
    <3>2. QED
      BY <1>2, <3>1 DEF ThreadsInv, NoDangling, Dangling, Listed, Alive
  <2>3. QED
    BY <2>1, <2>2
<1>6. AutoLive' /\ ModeBacked'
  <2>1. AutoLive /\ ModeBacked
    BY DEF ThreadsInv
  <2>2. CASE s = 0
    <3>1. SlotInv(0) /\ worker[0] \in WorkerType
      BY <1>1, <2>2 DEF TypeOK
    <3> USE DEF AutoLive, ModeBacked, DataPcs
    <3>2. CASE WorkerCreate(0) \/ WorkerCreateFails(0) \/ WorkerListen(0) \/ WorkerAccept(0)
               \/ WorkerConnect(0) \/ WorkerOpenFails(0)
      BY <2>1, <3>2
      DEF WorkerCreate, WorkerCreateFails, WorkerListen, WorkerAccept, WorkerConnect,
          WorkerOpenFails, modes
    <3>3. CASE WorkerConnected(0) \/ WorkerTakesScid(0) \/ WorkerEntersData(0)
      BY <2>1, <2>2, <3>1, <3>3
      DEF WorkerConnected, WorkerTakesScid, WorkerEntersData, Goto, SlotInv, TypeOK,
          WorkerType
    <3>4. CASE WorkerReceiveError(0)
      BY <2>1, <2>2, <3>4 DEF WorkerReceiveError, modes, TypeOK, WorkerType
    <3>5. CASE UdpReceive(0)
      BY <2>1, <3>5 DEF UdpReceive, modes
    <3>6. CASE WorkerClear(0)
      <4>1. /\ mode' = mode /\ ~auto'
            /\ worker'[0].pc = "notify" /\ worker'[0].req = worker[0].req
            /\ worker[0].pc = "clear"
        BY <2>1, <2>2, <3>1, <3>6 DEF WorkerClear, Goto, SlotInv, Listed, TypeOK, WorkerType
      <4>2. QED
        BY <2>1, <4>1
    <3>7. CASE WorkerNotify(0)
      BY <2>1, <3>7 DEF WorkerNotify, AnnouncedMode
    <3>8. QED
      BY <2>2, <3>2, <3>3, <3>4, <3>5, <3>6, <3>7 DEF WorkerStep, WorkerRuns
  <2>3. CASE s # 0
    <3>1. worker'[0] = worker[0] /\ ~(Alive(s) /\ worker[s].req.dataMode) /\ SlotInv(s)
      BY <1>1, <1>2, <2>3, ZeroTypes DEF SlotInv
    <3>2. (auto' => auto) /\ (mode' = "DATA" => mode = "DATA")
      <4>1. CASE WorkerConnected(s) \/ WorkerTakesScid(s) \/ WorkerEntersData(s)
        BY <3>1, <4>1 DEF WorkerConnected, WorkerTakesScid, WorkerEntersData, SlotInv, Alive
      <4>2. CASE WorkerClear(s)
        <5>1. mode' = mode /\ (auto' = FALSE \/ auto' = auto)
          BY <4>2, Zenon DEF WorkerClear
        <5>2. QED
          BY <5>1
      <4>3. CASE WorkerNotify(s)
        BY <4>3 DEF WorkerNotify, AnnouncedMode
      <4>4. CASE UNCHANGED modes
        BY <4>4 DEF modes
      <4>5. QED
        BY <4>1, <4>2, <4>3, <4>4
        DEF WorkerStep, WorkerRuns, WorkerCreate, WorkerCreateFails, WorkerAccept,
            WorkerListen, WorkerConnect, WorkerOpenFails, WorkerReceiveError, UdpReceive
    <3>3. QED
      BY <2>1, <3>1, <3>2 DEF AutoLive, ModeBacked
  <2>4. QED
    BY <2>2, <2>3
<1>7. QED
  BY <1>4, <1>5, <1>6 DEF ThreadsInv

\* AT+SCON after the deletion of the scid's last thread disturbs no thread.
LEMMA SconThreads ==
  ASSUME Paced, TypeOK, ThreadsInv, NEW r \in RequestType, HostScon(r)
  PROVE  ThreadsInv'
<1>1. PICK s \in Scids : worker[s].pc = "none" /\ Launch(s, r)
  BY DEF HostScon, Scon, ScidGet, Lowest, FreeScids
<1>2. /\ worker'[s].pc \in {"none", "create"}
      /\ \A t \in Scids \ {s} : worker'[t] = worker[t]
  BY <1>1 DEF Launch, TypeOK, IdleWorker
<1>3. UNCHANGED <<scList, reapQueue, reaper, auto, mode>>
  BY DEF HostScon, Scon, modes, reaping
<1>4. ReapInv'
  BY <1>1, <1>2, <1>3, ReapFrame DEF ThreadsInv, reaping
<1>5. NoDangling'
  BY <1>1, <1>2, <1>3 DEF ThreadsInv, NoDangling, Dangling, Listed, Alive
<1>6. AutoLive' /\ ModeBacked'
  BY <1>1, <1>2, <1>3, ZeroTypes DEF ThreadsInv, AutoLive, ModeBacked, DataPcs
<1>7. QED
  BY <1>4, <1>5, <1>6 DEF ThreadsInv

\* Every step of the system keeps the threads' invariant.
LEMMA NextThreads ==
  ASSUME Paced, ~Option9
  PROVE  TypeOK /\ SafetyInv /\ ThreadsInv /\ [Next]_vars => ThreadsInv'
<1> SUFFICES ASSUME TypeOK, SafetyInv, ThreadsInv, [Next]_vars PROVE ThreadsInv'
  OBVIOUS
<1> USE ThreadsFrame
<1>1. CASE UNCHANGED vars
  BY <1>1 DEF vars, reaping, Listed
<1>2. CASE Reset
  <2>1. Init'
    BY <1>2 DEF Reset, Init
  <2>2. QED
    BY <2>1, InitThreads, PTL
<1>3. ASSUME NEW r \in Requests, SconStore(r) PROVE ThreadsInv'
  BY <1>3 DEF SconStore, slots, modes, reaping, Listed
<1>4. ASSUME NEW r \in Requests, HostScon(r) PROVE ThreadsInv'
  BY <1>4, RequestsAssumption, SconThreads
<1>5. CASE Relisten
  BY <1>5 DEF Relisten
<1>6. ASSUME NEW S, MarkServers(S), UNCHANGED <<worker, auto, mode, reapQueue, reaper>>
      PROVE  ThreadsInv'
  <2>1. \A t \in Scids : Listed(t)' => Listed(t)
    BY <1>6 DEF MarkServers, Listed, TypeOK, SlotType
  <2>2. QED
    BY <1>6, <2>1 DEF reaping
<1>7. CASE SmgmtAll
  BY <1>6, <1>7 DEF SmgmtAll, modes, reaping
<1>8. ASSUME NEW s \in Scids, Smgmt(s) PROVE ThreadsInv'
  BY <1>6, <1>8 DEF Smgmt, modes, reaping
<1>9. ASSUME NEW s \in Scids, SsendStart(s) PROVE ThreadsInv'
  <2>1. \A t \in Scids : Listed(t)' => Listed(t)
    BY <1>9 DEF SsendStart, Listed, TypeOK, SlotType
  <2>2. QED
    BY <1>9, <2>1 DEF SsendStart
<1>10. ASSUME NEW s \in Scids, IdleDisconnect(s) \/ PeerCloses(s) PROVE ThreadsInv'
  BY <1>10 DEF IdleDisconnect, PeerCloses, modes, reaping, Listed
<1>11. CASE Wleave \/ LinkDown \/ LinkUp
  BY <1>11 DEF Wleave, LinkDown, LinkUp, slots, modes, reaping, Listed
<1>12. CASE Sdata \/ SsendEnd \/ Escape \/ TransmitBadCid
  BY <1>12 DEF Sdata, SdataAllowed, SsendEnd, Escape, TransmitBadCid, slots, reaping, Listed
<1>13. ASSUME NEW s \in Scids, WorkerStep(s) PROVE ThreadsInv'
  BY <1>13, WorkerStepThreads
<1>14. ASSUME NEW c \in Closers, CloserStep(c) PROVE ThreadsInv'
  BY <1>14
  DEF CloserStep, CloseDisconnect, CloseDelete, CloseFinish, IdleReturn, SdataAllowed,
      slots, modes, reaping, Listed
<1>15. CASE ReaperTake \/ ReaperKill
  <2>1. ReapInv'
    BY <1>15, ReaperReap DEF ThreadsInv
  <2>2. /\ UNCHANGED <<scList, auto, mode>>
        /\ \A t \in Scids : Alive(t) => worker'[t] = worker[t]
    BY <1>15, ZeroTypes
    DEF ReaperTake, ReaperKill, slots, modes, ThreadsInv, ReapInv, DeletesTerminated,
        TypeOK, Alive
  <2>3. QED
    BY <2>1, <2>2, ZeroTypes
    DEF ThreadsInv, NoDangling, Dangling, Listed, Alive, AutoLive, ModeBacked, DataPcs
<1>16. QED
  BY <1>1, <1>2, <1>3, <1>4, <1>5, <1>7, <1>8, <1>9, <1>10, <1>11, <1>12, <1>13, <1>14, <1>15
  DEF Next, Running, Command, Environment

\* The threads' invariant holds in every state.
LEMMA ThreadsCorrect ==
  ASSUME Paced, ~Option9
  PROVE  Spec => []ThreadsInv
  BY InitType, NextType, InitSafety, NextSafety, InitThreads, NextThreads, PTL DEF Spec

\* With such a host, the pSocket of a listed slot can be used.
THEOREM SlotsPointToThreads ==
  ASSUME Paced, ~Option9
  PROVE  Spec => []NoDangling
  BY ThreadsCorrect, PTL DEF ThreadsInv

\* With such a host, ProcessWizFiQueue deletes only threads that returned.
THEOREM OnlyTerminatedDeleted ==
  ASSUME Paced, ~Option9
  PROVE  Spec => []DeletesTerminated
  BY ThreadsCorrect, PTL DEF ThreadsInv, ReapInv

\* With such a host, data mode lasts no longer than the thread of the data-mode
\* socket, from its connection to the announcement of its end, whatever closers
\* come between the thread's writes.
THEOREM DataModeHasConnection ==
  ASSUME Paced, ~Option9
  PROVE  Spec => []ModeBacked
  BY ThreadsCorrect, PTL DEF ThreadsInv

-----------------------------------------------------------------------------
(* Deletion: with room for every scid, no message of an exiting thread is  *)
(* dropped.                                                                *)

\* The messages in the queue name different threads, all of which returned.
\* So there is room for the message of one that has not.
LEMMA RoomForExit ==
  ASSUME TypeOK, ReapInv, NEW s \in Scids, Alive(s), QueueLen >= MaxScid
  PROVE  Len(reapQueue) < QueueLen
<1> DEFINE n == Len(reapQueue)
           others == Scids \ {s}
           queued == [i \in 1 .. n |-> reapQueue[i]]
<1>1. reapQueue \in Seq(Scids) /\ n \in Nat
  BY LenProperties DEF TypeOK
<1>2. queued \in [1 .. n -> others]
  BY <1>1, ElementOfSeq DEF ReapInv, QueuedAreDone, Alive
<1>3. ~ \E i, j \in 1 .. n : i # j /\ queued[i] = queued[j]
  BY DEF ReapInv, QueuedAreDone
<1>4. IsFiniteSet(others) /\ Cardinality(others) = MaxScid - 1
  <2>1. IsFiniteSet(Scids) /\ Cardinality(Scids) = MaxScid
    <3>1. 0 \in Int /\ MaxScid - 1 \in Int /\ ~(0 > MaxScid - 1)
      BY MaxScidAssumption
    <3>2. IsFiniteSet(0 .. MaxScid - 1) /\ Cardinality(0 .. MaxScid - 1) = MaxScid - 1 - 0 + 1
      BY <3>1, FS_Interval
    <3>3. QED
      BY <3>2, MaxScidAssumption DEF Scids
  <2>2. QED
    BY <2>1, FS_RemoveElement
<1>5. IsFiniteSet(1 .. n) /\ Cardinality(1 .. n) = n
  BY <1>1, FS_Interval
<1> HIDE DEF queued, others
<1>6. ~(MaxScid - 1 < n)
  BY <1>2, <1>3, <1>4, <1>5, FS_PigeonHole
<1>7. QED
  BY <1>1, <1>6, MaxScidAssumption, QueueLenAssumption

\* A step that leaves the queue and the reaper alone, and lets no thread
\* return, loses no message.
LEMMA QueuedFrame ==
  ASSUME TypeOK, ReturnedIsQueued, UNCHANGED reaping,
         \A t \in Scids : worker'[t].pc = "done" => worker[t].pc = "done"
  PROVE  ReturnedIsQueued'
  BY DEF ReturnedIsQueued, reaping

\* The message of an exiting thread is queued, behind those that were.
LEMMA ExitQueued ==
  ASSUME TypeOK, ReapInv, ReturnedIsQueued, NEW s \in Scids, Exit(s), Alive(s),
         UNCHANGED reaper, QueueLen >= MaxScid
  PROVE  ReturnedIsQueued'
<1>1. reapQueue \in Seq(Scids) /\ Len(reapQueue) \in Nat
  BY LenProperties DEF TypeOK
<1>2. reapQueue' = Append(reapQueue, s)
  BY RoomForExit DEF Exit
<1>3. /\ DOMAIN reapQueue = 1 .. Len(reapQueue)
      /\ DOMAIN reapQueue' = 1 .. Len(reapQueue) + 1
      /\ \A i \in 1 .. Len(reapQueue) : reapQueue'[i] = reapQueue[i]
      /\ reapQueue'[Len(reapQueue) + 1] = s
  BY <1>1, <1>2, AppendProperties, LenProperties
<1>4. \A t \in Scids \ {s} : worker'[t] = worker[t]
  BY DEF Exit, TypeOK
<1>5. ASSUME NEW t \in Scids, worker'[t].pc = "done"
      PROVE  reaper' = t \/ \E i \in DOMAIN reapQueue' : reapQueue'[i] = t
  <2>1. CASE t = s
    BY <1>1, <1>3, <2>1
  <2>2. CASE t # s
    BY <1>1, <1>3, <1>4, <1>5, <2>2 DEF ReturnedIsQueued
  <2>3. QED
    BY <2>1, <2>2
<1>6. QED
  BY <1>5 DEF ReturnedIsQueued

\* The reaper takes the message of one thread, and deletes the one it took.
LEMMA ReaperQueued ==
  ASSUME TypeOK, ReturnedIsQueued, ReaperTake \/ ReaperKill
  PROVE  ReturnedIsQueued'
<1>1. reapQueue \in Seq(Scids) /\ Len(reapQueue) \in Nat
  BY LenProperties DEF TypeOK
<1>2. CASE ReaperTake
  <2>1. /\ worker' = worker /\ reaper = NoScid /\ reaper' = reapQueue[1]
        /\ Len(reapQueue) >= 1
        /\ DOMAIN reapQueue = 1 .. Len(reapQueue)
        /\ DOMAIN reapQueue' = 1 .. Len(reapQueue) - 1
        /\ \A i \in 1 .. Len(reapQueue) - 1 : reapQueue'[i] = reapQueue[i + 1]
    BY <1>1, <1>2, HeadTailProperties, EmptySeq, LenProperties DEF ReaperTake, slots
  <2>2. ASSUME NEW t \in Scids, worker'[t].pc = "done", reaper' # t
        PROVE  \E i \in DOMAIN reapQueue' : reapQueue'[i] = t
    <3>1. PICK i \in 1 .. Len(reapQueue) : reapQueue[i] = t
      BY <2>1, <2>2, ZeroTypes DEF ReturnedIsQueued
    <3>2. i - 1 \in 1 .. Len(reapQueue) - 1 /\ (i - 1) + 1 = i
      BY <1>1, <2>1, <2>2, <3>1
    <3>3. QED
      BY <2>1, <3>1, <3>2
  <2>3. QED
    BY <2>2 DEF ReturnedIsQueued
<1>3. CASE ReaperKill
  <2>1. /\ reapQueue' = reapQueue
        /\ worker'[reaper].pc # "done" \/ reaper \notin Scids
        /\ \A t \in Scids \ {reaper} : worker'[t] = worker[t]
    BY <1>3 DEF ReaperKill, TypeOK, IdleWorker
  <2>2. QED
    BY <2>1 DEF ReturnedIsQueued
<1>4. QED
  BY <1>2, <1>3

\* A socket thread's step is its return, with a message to the reaper, or
\* leaves it alive and the queue alone; other threads are not touched.
LEMMA WorkerStepThread ==
  ASSUME TypeOK, NEW s \in Scids, WorkerStep(s)
  PROVE  /\ Alive(s) /\ reaper' = reaper
         /\ \A t \in Scids \ {s} : worker'[t] = worker[t]
         /\ Exit(s) \/ (Alive(s)' /\ reapQueue' = reapQueue)
<1>1. Alive(s) /\ reaper' = reaper
  BY DEF WorkerStep, WorkerRuns, WorkerCreate, WorkerCreateFails, WorkerAccept,
         WorkerListen, WorkerConnect, WorkerOpenFails, WorkerConnected,
         WorkerTakesScid, WorkerEntersData, WorkerReceiveError,
         WorkerClear, WorkerNotify, UdpReceive, reaping, Alive
<1>2. ASSUME NEW pc \in Pcs \ {"none", "done"}, Goto(s, pc)
      PROVE  Alive(s)' /\ \A t \in Scids \ {s} : worker'[t] = worker[t]
  BY <1>2 DEF Goto, Alive, TypeOK, WorkerType
<1>3. CASE Exit(s)
  BY <1>1, <1>3 DEF Exit, TypeOK
<1>4. CASE WorkerCreate(s) \/ WorkerListen(s) \/ WorkerAccept(s) \/ WorkerConnect(s)
  BY <1>1, <1>2, <1>4
  DEF WorkerCreate, WorkerListen, WorkerAccept, WorkerConnect, Pcs, reaping
<1>5. CASE WorkerOpenFails(s) \/ WorkerClear(s)
  BY <1>1, <1>2, <1>5 DEF WorkerOpenFails, WorkerClear, Pcs, reaping
<1>6. CASE WorkerReceiveError(s)
  BY <1>1, <1>6 DEF WorkerReceiveError, Alive, TypeOK, WorkerType, reaping
<1>7. CASE UdpReceive(s)
  BY <1>1, <1>7 DEF UdpReceive, Alive, reaping
<1>8. CASE WorkerNotify(s) /\ ~Exit(s)
  BY <1>1, <1>8 DEF WorkerNotify, Alive, TypeOK, WorkerType
<1>9. CASE WorkerConnected(s) \/ WorkerTakesScid(s) \/ WorkerEntersData(s)
  BY <1>1, <1>2, <1>9
  DEF WorkerConnected, WorkerTakesScid, WorkerEntersData, Pcs, reaping
<1>10. QED
  BY <1>3, <1>4, <1>5, <1>6, <1>7, <1>8, <1>9 DEF WorkerStep, WorkerRuns, WorkerCreateFails

\* Only these steps touch threads, the queue or the reaper: an AT+SCON that
\* finds a free control block, a socket thread, the reaper, and a reset.
LEMMA ThreadSteps ==
  ASSUME Paced, ~Option9, TypeOK, [Next]_vars
  PROVE  \/ UNCHANGED <<worker, reaping>>
         \/ \E s \in Scids : \E r \in RequestType :
              worker[s].pc = "none" /\ Launch(s, r) /\ UNCHANGED reaping
         \/ \E s \in Scids : WorkerStep(s)
         \/ ReaperTake \/ ReaperKill
         \/ Init'
<1>1. CASE UNCHANGED vars
  BY <1>1 DEF vars, reaping
<1>2. CASE Reset
  BY <1>2 DEF Reset, Init
<1>3. ASSUME NEW r \in Requests, HostScon(r)
      PROVE  \E s \in Scids : worker[s].pc = "none" /\ Launch(s, r) /\ UNCHANGED reaping
  BY <1>3 DEF HostScon, Scon, ScidGet, Lowest, FreeScids
<1>4. CASE Relisten
  BY <1>4 DEF Relisten
<1>5. ASSUME NEW r \in Requests, SconStore(r) PROVE UNCHANGED <<worker, reaping>>
  BY <1>5 DEF SconStore, slots
<1>6. CASE SmgmtAll \/ Wleave \/ Sdata \/ SsendEnd
  BY <1>6 DEF SmgmtAll, Wleave, Sdata, SsendEnd, slots
<1>7. ASSUME NEW s \in Scids, Smgmt(s) \/ SsendStart(s) \/ IdleDisconnect(s)
      PROVE  UNCHANGED <<worker, reaping>>
  BY <1>7 DEF Smgmt, SsendStart, IdleDisconnect
<1>8. CASE Environment
  BY <1>8 DEF Environment, LinkDown, LinkUp, Escape, TransmitBadCid, PeerCloses, slots
<1>9. ASSUME NEW c \in Closers, CloserStep(c) PROVE UNCHANGED <<worker, reaping>>
  BY <1>9 DEF CloserStep, CloseDisconnect, CloseDelete, CloseFinish, IdleReturn, slots
<1>10. QED
  BY <1>1, <1>2, <1>3, <1>4, <1>5, <1>6, <1>7, <1>8, <1>9, RequestsAssumption
  DEF Next, Running, Command

\* Every step of the system keeps the messages of the threads that returned.
LEMMA NextQueued ==
  ASSUME Paced, ~Option9, QueueLen >= MaxScid
  PROVE  TypeOK /\ ReapInv /\ ReturnedIsQueued /\ [Next]_vars => ReturnedIsQueued'
<1> SUFFICES ASSUME TypeOK, ReapInv, ReturnedIsQueued, [Next]_vars
             PROVE  ReturnedIsQueued'
  OBVIOUS
<1>1. CASE UNCHANGED <<worker, reaping>>
  BY <1>1, QueuedFrame
<1>2. ASSUME NEW s \in Scids, NEW r \in RequestType,
             worker[s].pc = "none", Launch(s, r), UNCHANGED reaping
      PROVE  ReturnedIsQueued'
  <2>1. \A t \in Scids : worker'[t].pc = "done" => worker[t].pc = "done"
    BY <1>2 DEF Launch, TypeOK, IdleWorker
  <2>2. QED
    BY <1>2, <2>1, QueuedFrame
<1>3. ASSUME NEW s \in Scids, WorkerStep(s) PROVE ReturnedIsQueued'
  <2>1. CASE Exit(s)
    BY <1>3, <2>1, WorkerStepThread, ExitQueued
  <2>2. CASE Alive(s)' /\ reapQueue' = reapQueue
    BY <1>3, <2>2, WorkerStepThread, QueuedFrame DEF Alive, reaping
  <2>3. QED
    BY <1>3, <2>1, <2>2, WorkerStepThread
<1>4. CASE ReaperTake \/ ReaperKill
  BY <1>4, ReaperQueued
<1>5. CASE Init'
  BY <1>5, ZeroTypes DEF Init, ReturnedIsQueued, IdleWorker
<1>6. QED
  BY <1>1, <1>2, <1>3, <1>4, <1>5, ThreadSteps

\* With such a host, and 20 places for 8 scids as in the firmware, no thread
\* that returned is forgotten: the push without waiting never finds the queue
\* full.
THEOREM ReturnedThreadsAreQueued ==
  ASSUME Paced, ~Option9, QueueLen >= MaxScid
  PROVE  Spec => []ReturnedIsQueued
<1>1. Init => ReturnedIsQueued
  BY DEF Init, ReturnedIsQueued, IdleWorker
<1>2. Spec => [](TypeOK /\ ReapInv)
  BY TypeCorrect, ThreadsCorrect, PTL DEF ThreadsInv
<1>3. QED
  BY <1>1, <1>2, NextQueued, PTL DEF Spec

-----------------------------------------------------------------------------
(* Marks of AT+SMGMT, and the scid of AT+SSEND, for every host.            *)

\* The loop of the main thread is still to come to scid s.
Pending(s) == /\ closer["main"].pc \in {"scan", "delete"} /\ closer["main"].next <= s
              /\ closer["main"].all \/ closer["main"].next = s

MarkInv(s) == scList[s].notRestart => sock[s] = "none" \/ Pending(s)

\* The property, scid by scid.
LEMMA MarkSplit == MarkedIsClosing <=> \A s \in Scids : MarkInv(s)
  BY DEF MarkedIsClosing, MarkInv, Pending

\* The same of the state after a step.
LEMMA MarkSplitNext == MarkedIsClosing' <=> \A s \in Scids : MarkInv(s)'
  BY DEF MarkedIsClosing, MarkInv, Pending

\* A step that marks nothing, opens no marked socket and leaves the main
\* thread's loop alone keeps the property.
LEMMA MarkFrame ==
  ASSUME NEW s \in Scids, MarkInv(s), closer'["main"] = closer["main"],
         scList'[s].notRestart => scList[s].notRestart,
         sock[s] = "none" => sock'[s] = "none" \/ ~scList[s].notRestart
  PROVE  MarkInv(s)'
  BY DEF MarkInv, Pending

\* A socket thread opens its socket with an unlisted slot only, which has no
\* mark, and connects only a socket that is open.
LEMMA WorkerStepMark ==
  ASSUME TypeOK, SafetyInv, MarkedIsClosing, NEW s \in Scids, WorkerStep(s)
  PROVE  MarkedIsClosing'
<1>1. \A t \in Scids : MarkInv(t)
  BY MarkSplit
<1>2. SlotInv(s)
  BY SafetySplit
<1>3. closer' = closer
  BY DEF WorkerStep, WorkerRuns, WorkerCreate, WorkerCreateFails, WorkerAccept,
         WorkerListen, WorkerConnect, WorkerOpenFails, WorkerConnected,
         WorkerTakesScid, WorkerEntersData, WorkerReceiveError,
         WorkerClear, WorkerNotify, UdpReceive
<1>4. \A t \in Scids \ {s} : scList'[t] = scList[t] /\ sock'[t] = sock[t]
  BY DEF WorkerStep, WorkerRuns, WorkerCreate, WorkerCreateFails, WorkerAccept,
         WorkerListen, WorkerConnect, WorkerOpenFails, WorkerConnected,
         WorkerTakesScid, WorkerEntersData, WorkerReceiveError,
         WorkerClear, WorkerNotify, UdpReceive, TypeOK
<1>5. /\ scList'[s].notRestart => scList[s].notRestart
      /\ sock[s] = "none" => sock'[s] = "none" \/ ~scList[s].notRestart
  <2> USE DEF TypeOK, SlotType
  <2>1. CASE WorkerCreate(s)
    BY <1>2, <2>1 DEF WorkerCreate, SlotInv, ListedSlot
  <2>2. CASE WorkerListen(s) \/ WorkerConnect(s)
    BY <2>2 DEF WorkerListen, WorkerConnect
  <2>3. CASE WorkerCreateFails(s)
    BY <2>3 DEF WorkerCreateFails
  <2>4. CASE WorkerOpenFails(s) \/ WorkerReceiveError(s)
    BY <2>4 DEF WorkerOpenFails, WorkerReceiveError
  <2>5. CASE WorkerClear(s)
    <3>1. sock' = sock /\ (scList' = scList \/ scList' = [scList EXCEPT ![s] = ZeroSlot])
      BY <2>5, Zenon DEF WorkerClear
    <3>2. QED
      BY <3>1 DEF ZeroSlot
  <2>6. CASE WorkerNotify(s)
    BY <2>6 DEF WorkerNotify
  <2>7. CASE UdpReceive(s)
    BY <2>7 DEF UdpReceive
  <2>8. CASE WorkerConnected(s) \/ WorkerTakesScid(s) \/ WorkerEntersData(s)
    BY <2>8 DEF WorkerConnected, WorkerTakesScid, WorkerEntersData
  <2>9. CASE WorkerAccept(s)
    <3>1. scList' = [scList EXCEPT ![s].remote = TRUE] /\ sock[s] = "open"
      BY <2>9 DEF WorkerAccept
    <3>2. scList'[s].notRestart = scList[s].notRestart
      BY <3>1
    <3>3. QED
      BY <3>1, <3>2
  <2>10. QED
    BY <2>1, <2>2, <2>3, <2>4, <2>5, <2>6, <2>7, <2>8, <2>9 DEF WorkerStep, WorkerRuns
<1>6. ASSUME NEW t \in Scids PROVE MarkInv(t)'
  <2>1. CASE t = s
    BY <1>1, <1>3, <1>5, <2>1, MarkFrame
  <2>2. CASE t # s
    BY <1>1, <1>3, <1>4, <2>2, MarkFrame
  <2>3. QED
    BY <2>1, <2>2
<1>7. QED
  BY <1>6, MarkSplitNext

\* The loop of the main thread passes a scid only after closing its socket,
\* and ends only when no marked one is left: marked slots are listed.
LEMMA CloserStepMark ==
  ASSUME TypeOK, SafetyInv, MarkedIsClosing, NEW c \in Closers, CloserStep(c)
  PROVE  MarkedIsClosing'
<1>1. \A t \in Scids : MarkInv(t) /\ SlotInv(t)
  BY MarkSplit, SafetySplit
<1>2. UNCHANGED scList /\ \A t \in Scids : sock[t] = "none" => sock'[t] = "none"
  BY DEF CloserStep, CloseDisconnect, CloseDelete, CloseFinish, IdleReturn, slots, TypeOK
<1>3. CASE c = "net"
  <2>1. closer'["main"] = closer["main"]
    <3>1. /\ closer \in [Closers -> CloserType] /\ "main" \in Closers
          /\ c \in Closers /\ c # "main"
      BY <1>3 DEF TypeOK, Closers
    <3>2. ASSUME NEW s, CloserNext(c, s) PROVE closer'["main"] = closer["main"]
      BY <3>1, <3>2 DEF CloserNext
    <3>3. CASE CloseDisconnect(c)
      BY <3>1, <3>2, <3>3 DEF CloseDisconnect
    <3>4. CASE CloseDelete(c)
      BY <3>2, <3>4 DEF CloseDelete
    <3>5. CASE CloseFinish(c)
      BY <3>1, <3>5 DEF CloseFinish
    <3>6. CASE IdleReturn(c)
      BY <3>1, <3>6 DEF IdleReturn
    <3>7. QED
      BY <3>3, <3>4, <3>5, <3>6 DEF CloserStep
  <2>2. QED
    BY <1>1, <1>2, <2>1, MarkFrame, MarkSplitNext
<1>4. CASE c = "main"
  <2> DEFINE main == closer["main"]
  <2> main \in CloserType
    BY DEF TypeOK, Closers
  <2>1. ASSUME NEW s \in Scids, CloserNext("main", s),
               \A t \in Scids : Pending(t) /\ scList[t].notRestart =>
                 IF main.all THEN t = s \/ s + 1 <= t ELSE t = s,
               scList[s].notRestart => sock'[s] = "none"
        PROVE  MarkedIsClosing'
    <3>1. ASSUME NEW t \in Scids, scList[t].notRestart, sock'[t] # "none"
          PROVE  Pending(t)'
      <4>1. Pending(t) /\ t # s
        BY <1>1, <1>2, <2>1, <3>1 DEF MarkInv
      <4>2. main.all /\ s + 1 <= t
        BY <2>1, <3>1, <4>1
      <4>3. closer' = [closer EXCEPT !["main"] = [@ EXCEPT !.pc = "scan", !.next = s + 1]]
        BY <2>1, <4>2 DEF CloserNext
      <4>4. /\ closer'["main"].pc = "scan" /\ closer'["main"].next = s + 1
            /\ closer'["main"].all = main.all
        BY <4>3 DEF TypeOK, CloserType, Closers
      <4>5. QED
        BY <4>2, <4>4 DEF Pending
    <3>2. QED
      BY <1>2, <3>1, MarkSplitNext DEF MarkInv
  <2>2. CASE CloseDisconnect("main")
    <3>1. PICK s \in Lowest(ToClose("main")) :
            /\ IF scList[s].conType = "TCP"
                 THEN closer' = [closer EXCEPT !["main"].pc = "delete", !["main"].next = s]
                 ELSE CloserNext("main", s)
            /\ sock' = IF scList[s].conType = "TCP" /\ ~linked
                         THEN sock ELSE [sock EXCEPT ![s] = "none"]
      BY <2>2 DEF CloseDisconnect
    <3>2. s \in Scids /\ s \in Nat /\ s \in ToClose("main")
      BY MaxScidAssumption DEF Lowest, ToClose, Scids
    <3>3. ASSUME NEW t \in Scids, Pending(t), scList[t].notRestart
          PROVE  s <= t /\ t \in Nat /\ (main.all \/ t = s)
      <4>1. t \in ToClose("main")
        BY <1>1, <3>3 DEF ToClose, Pending, SlotInv, Closers
      <4>2. s <= t
        BY <4>1 DEF Lowest
      <4>3. main.all \/ t = s
        BY <3>2, <3>3 DEF Pending, ToClose
      <4>4. QED
        BY <4>2, <4>3, MaxScidAssumption DEF Scids
    <3>4. CASE scList[s].conType = "TCP"
      <4>1. /\ closer'["main"].pc = "delete" /\ closer'["main"].next = s
            /\ closer'["main"].all = main.all
        BY <3>1, <3>4 DEF TypeOK, CloserType, Closers
      <4>2. ASSUME NEW t \in Scids PROVE MarkInv(t)'
        BY <1>1, <1>2, <3>3, <4>1 DEF MarkInv, Pending
      <4>3. QED
        BY <4>2, MarkSplitNext
    <3>5. CASE scList[s].conType # "TCP"
      <4>1. sock'[s] = "none"
        BY <3>1, <3>2, <3>5 DEF TypeOK
      <4>2. \A t \in Scids : Pending(t) /\ scList[t].notRestart =>
              IF main.all THEN t = s \/ s + 1 <= t ELSE t = s
        BY <3>2, <3>3
      <4>3. QED
        BY <2>1, <3>1, <3>2, <3>5, <4>1, <4>2
    <3>6. QED
      BY <3>4, <3>5
  <2>3. CASE CloseDelete("main")
    <3> DEFINE s == main.next
    <3>1. s \in Scids /\ s \in Nat /\ CloserNext("main", s)
      BY <2>3, MaxScidAssumption DEF CloseDelete, TypeOK, Closers, Scids
    <3>2. scList[s].notRestart => sock'[s] = "none"
      BY <1>1, <2>3, <3>1 DEF CloseDelete, SlotInv, TypeOK
    <3>3. ASSUME NEW t \in Scids, Pending(t)
          PROVE  IF main.all THEN t = s \/ s + 1 <= t ELSE t = s
      BY <3>1, <3>3, MaxScidAssumption DEF Pending, Scids
    <3>4. QED
      BY <2>1, <3>1, <3>2, <3>3
  <2>4. CASE CloseFinish("main")
    <3>1. ASSUME NEW t \in Scids, Pending(t), scList[t].notRestart PROVE FALSE
      <4>1. t \in ToClose("main")
        BY <1>1, <3>1 DEF ToClose, Pending, SlotInv, Closers
      <4>2. QED
        BY <2>4, <4>1 DEF CloseFinish
    <3>2. QED
      BY <1>1, <1>2, <3>1, MarkSplitNext DEF MarkInv
  <2>5. CASE IdleReturn("main")
    BY <1>1, <1>2, <2>5, MarkSplitNext DEF IdleReturn, MarkInv, Pending
  <2>6. QED
    BY <1>4, <2>2, <2>3, <2>4, <2>5 DEF CloserStep
<1>5. QED
  BY <1>3, <1>4 DEF Closers

\* AT+SMGMT starts the loop at the scids it marks; the marks it finds belong to
\* sockets that an earlier loop has closed.
LEMMA SmgmtMark ==
  ASSUME TypeOK, MarkedIsClosing, MainIdle, NEW S \in SUBSET Scids, MarkServers(S),
         NEW s \in Scids, NEW all \in BOOLEAN, StartClosing("main", s, all, "smgmt"),
         \A t \in S : s <= t /\ (all \/ t = s), UNCHANGED sock
  PROVE  MarkedIsClosing'
<1>1. \A t \in Scids : scList[t].notRestart => sock[t] = "none"
  BY MarkSplit DEF MarkInv, Pending, MainIdle
<1>2. closer'["main"] = [pc |-> "scan", next |-> s, all |-> all, then |-> "smgmt"]
  BY DEF StartClosing, TypeOK, Closers
<1>3. ASSUME NEW t \in S PROVE Pending(t)'
  BY <1>2 DEF Pending
<1>4. ASSUME NEW t \in Scids \ S PROVE scList'[t] = scList[t]
  BY DEF MarkServers
<1>5. ASSUME NEW t \in Scids PROVE MarkInv(t)'
  BY <1>1, <1>3, <1>4 DEF MarkInv
<1>6. QED
  BY <1>5, MarkSplitNext

\* Every step of the system keeps the property.
LEMMA NextMark == TypeOK /\ SafetyInv /\ MarkedIsClosing /\ [Next]_vars => MarkedIsClosing'
<1> SUFFICES ASSUME TypeOK, SafetyInv, MarkedIsClosing, [Next]_vars PROVE MarkedIsClosing'
  OBVIOUS
<1>1. \A t \in Scids : MarkInv(t)
  BY MarkSplit
<1>2. ASSUME closer'["main"] = closer["main"],
             \A t \in Scids : /\ scList'[t].notRestart = scList[t].notRestart
                              /\ sock[t] = "none" => sock'[t] = "none"
      PROVE  MarkedIsClosing'
  BY <1>1, <1>2, MarkFrame, MarkSplitNext
<1>3. CASE UNCHANGED vars
  BY <1>2, <1>3 DEF vars
<1>4. CASE Reset
  BY <1>4 DEF Reset, MarkedIsClosing
<1>5. ASSUME NEW r, Scon(r) PROVE MarkedIsClosing'
  <2>1. PICK s \in Scids : Launch(s, r)
    BY <1>5 DEF Scon, ScidGet, Lowest, FreeScids
  <2>2. sock \in [Scids -> {"none", "open", "conn"}]
    BY DEF TypeOK
  <2>3. sock' = sock \/ sock' = [sock EXCEPT ![s] = "none"]
    BY <2>1 DEF Launch
  <2>4. \A t \in Scids : sock'[t] = sock[t] \/ sock'[t] = "none"
    BY <2>2, <2>3
  <2>5. QED
    BY <1>2, <1>5, <2>4 DEF Scon
<1>6. ASSUME NEW r, SconStore(r) PROVE MarkedIsClosing'
  BY <1>2, <1>6 DEF SconStore, slots
<1>7. CASE SmgmtAll
  <2>1. /\ MainIdle /\ MarkServers(Scids) /\ UNCHANGED sock
        /\ StartClosing("main", 0, TRUE, "smgmt")
    BY <1>7 DEF SmgmtAll
  <2>2. 0 \in Scids /\ \A t \in Scids : 0 <= t
    BY MaxScidAssumption DEF Scids
  <2>3. QED
    BY <2>1, <2>2, SmgmtMark
<1>8. ASSUME NEW s \in Scids, Smgmt(s) PROVE MarkedIsClosing'
  <2>1. /\ MainIdle /\ MarkServers({s}) /\ UNCHANGED sock
        /\ StartClosing("main", s, FALSE, "smgmt")
    BY <1>8 DEF Smgmt
  <2>2. {s} \in SUBSET Scids /\ FALSE \in BOOLEAN
    OBVIOUS
  <2>3. \A t \in {s} : s <= t /\ (FALSE \/ t = s)
    BY MaxScidAssumption DEF Scids
  <2>4. QED
    BY <2>1, <2>2, <2>3, SmgmtMark, Zenon
<1>9. CASE Wleave
  <2>1. MainIdle /\ UNCHANGED slots
    BY <1>9 DEF Wleave
  <2>2. QED
    BY <1>1, <2>1, MarkSplitNext DEF MainIdle, MarkInv, Pending, slots
<1>10. CASE LinkDown
  BY <1>2, <1>10 DEF LinkDown, StartClosing, slots, TypeOK, Closers
<1>11. ASSUME NEW s \in Scids, SsendStart(s) PROVE MarkedIsClosing'
  BY <1>2, <1>11 DEF SsendStart, TypeOK, SlotType
<1>12. ASSUME NEW s \in Scids, IdleDisconnect(s) \/ PeerCloses(s) PROVE MarkedIsClosing'
  <2>1. CASE PeerCloses(s)
    BY <1>2, <2>1 DEF PeerCloses, TypeOK
  <2>2. CASE IdleDisconnect(s)
    <3>1. /\ MainIdle /\ scList' = scList
          /\ \A t \in Scids : sock[t] = "none" => sock'[t] = "none"
      BY <2>2 DEF IdleDisconnect, TypeOK
    <3>2. QED
      BY <1>1, <3>1, MarkSplitNext DEF MainIdle, MarkInv, Pending
  <2>3. QED
    BY <1>12, <2>1, <2>2
<1>13. CASE Sdata \/ SsendEnd \/ LinkUp \/ Escape \/ TransmitBadCid \/ ReaperTake
  BY <1>2, <1>13 DEF Sdata, SsendEnd, LinkUp, Escape, TransmitBadCid, ReaperTake, slots
<1>14. CASE ReaperKill
  BY <1>2, <1>14 DEF ReaperKill, TypeOK
<1>15. QED
  BY <1>3, <1>4, <1>5, <1>6, <1>7, <1>8, <1>9, <1>10, <1>11, <1>12, <1>13, <1>14,
     WorkerStepMark, CloserStepMark
  DEF Next, Running, Command, Environment, HostScon, Relisten

\* Whatever the host and the network do, the mark of AT+SMGMT never rests on a
\* server that its loop has passed and that listens on.
THEOREM MarkedServersAreClosing == Spec => []MarkedIsClosing
<1>1. Init => MarkedIsClosing
  BY DEF Init, MarkedIsClosing, ZeroSlot
<1>2. QED
  BY <1>1, TypeCorrect, SafetyCorrect, NextMark, PTL DEF Spec

\* Only a data-mode socket, which has scid 0, takes g_currentScid for itself.
LEMMA NextSsend == TypeOK /\ SafetyInv /\ SsendMissesToData /\ [Next]_vars => SsendMissesToData'
<1> SUFFICES ASSUME TypeOK, SafetyInv, SsendMissesToData, [Next]_vars
             PROVE  SsendMissesToData'
  OBVIOUS
<1> USE DEF SsendMissesToData
<1>1. ASSUME sending' = sending, current' \in {current, 0, NoScid} PROVE SsendMissesToData'
  BY <1>1
<1>2. CASE UNCHANGED vars
  BY <1>1, <1>2 DEF vars
<1>3. CASE Reset \/ SsendEnd
  BY <1>3 DEF Reset, SsendEnd
<1>4. ASSUME NEW r, SconStore(r) \/ Scon(r) PROVE SsendMissesToData'
  BY <1>1, <1>4 DEF SconStore, Scon, modes
<1>5. CASE SmgmtAll \/ Wleave \/ Sdata \/ Environment
  BY <1>1, <1>5 DEF SmgmtAll, Wleave, Sdata, Environment, LinkDown, LinkUp, Escape,
                    TransmitBadCid, PeerCloses, modes
<1>6. ASSUME NEW s \in Scids, Smgmt(s) \/ IdleDisconnect(s) PROVE SsendMissesToData'
  BY <1>1, <1>6 DEF Smgmt, IdleDisconnect, modes
<1>7. ASSUME NEW s \in Scids, SsendStart(s) PROVE SsendMissesToData'
  BY <1>7 DEF SsendStart
<1>8. ASSUME NEW s \in Scids, WorkerStep(s) PROVE SsendMissesToData'
  <2>1. SlotInv(s)
    BY SafetySplit
  <2>2. CASE WorkerConnected(s) \/ WorkerTakesScid(s) \/ WorkerEntersData(s)
    BY <1>1, <2>1, <2>2 DEF WorkerConnected, WorkerTakesScid, WorkerEntersData, SlotInv, Alive
  <2>3. CASE WorkerClear(s)
    <3>1. sending' = sending /\ (current' = current \/ current' = NoScid)
      BY <2>3, Zenon DEF WorkerClear
    <3>2. QED
      BY <1>1, <3>1
  <2>4. CASE WorkerCreate(s) \/ WorkerCreateFails(s) \/ WorkerNotify(s) \/ UdpReceive(s)
    BY <1>1, <2>4 DEF WorkerCreate, WorkerCreateFails, WorkerNotify, UdpReceive, modes
  <2>5. CASE WorkerListen(s) \/ WorkerAccept(s) \/ WorkerConnect(s) \/ WorkerOpenFails(s)
             \/ WorkerReceiveError(s)
    BY <1>1, <2>5
    DEF WorkerListen, WorkerAccept, WorkerConnect, WorkerOpenFails, WorkerReceiveError, modes
  <2>6. QED
    BY <1>8, <2>2, <2>3, <2>4, <2>5 DEF WorkerStep, WorkerRuns
<1>9. ASSUME NEW c \in Closers, CloserStep(c) PROVE SsendMissesToData'
  <2>1. CASE CloseDisconnect(c) \/ CloseDelete(c) \/ IdleReturn(c)
    BY <1>1, <2>1 DEF CloseDisconnect, CloseDelete, IdleReturn, modes
  <2>2. CASE CloseFinish(c)
    BY <1>1, <2>2 DEF CloseFinish, modes
  <2>3. QED
    BY <1>9, <2>1, <2>2 DEF CloserStep
<1>10. CASE ReaperTake \/ ReaperKill
  BY <1>1, <1>10 DEF ReaperTake, ReaperKill, modes
<1>11. QED
  BY <1>2, <1>3, <1>4, <1>5, <1>6, <1>7, <1>8, <1>9, <1>10
  DEF Next, Running, Command, HostScon, Relisten

\* The most that an overwritten g_currentScid does to AT+SSEND is to send its
\* data into the data-mode connection, or to drop them.
THEOREM SsendGoesNowhereElse == Spec => []SsendMissesToData
<1>1. Init => SsendMissesToData
  BY DEF Init, SsendMissesToData
<1>2. QED
  BY <1>1, TypeCorrect, SafetyCorrect, NextSsend, PTL DEF Spec
=============================================================================
