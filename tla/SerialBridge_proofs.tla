------------------------ MODULE SerialBridge_proofs -------------------------
(***************************************************************************)
(* Theorems about SerialBridge, for every packet size, every capacity of   *)
(* the two queues and every alphabet of the host.                          *)
(***************************************************************************)
EXTENDS SerialBridge, SequenceTheorems, TLAPS

-----------------------------------------------------------------------------
(* Types, and the threads' use of the mutex                                *)

\* What the threads rely on beyond the types: the mutex belongs to the
\* thread that transmits, a buffer with more than a packet is being
\* transmitted, and a fourth plus is not counted.
SharingInv ==
  /\ OneTransmits
  /\ Len(txBuf) > PktMax => mutex # "none"
  /\ at["main"] = "count" => idx["main"] \in 0 .. 2

Inv == TypeOK /\ SharingInv

\* The initial state.
LEMMA InitInv == Init => Inv
<1> SUFFICES ASSUME Init PROVE Inv
  OBVIOUS
<1>1. Plus \in Bytes
  BY DEF Bytes
<1>2. Len(txBuf) = 0 /\ txBuf \in Seq(Bytes) /\ owed \in Seq(Bytes) /\ net \in Seq(Bytes)
      /\ events \in Seq({"nagle", "esc"}) /\ Len(events) = 0
  BY EmptySeq DEF Init
<1>3. /\ escBuf \in [0 .. 3 -> Bytes] /\ byte \in [Callers -> Bytes]
      /\ idx \in [Callers -> 0 .. 4] /\ at \in [Threads -> Labels]
      /\ at["worker"] \notin {"count", "mark"}
      /\ at["queue"] \in {"idle", "lock", "flush"}
  BY <1>1 DEF Init, Labels, Threads, Callers
<1>4. TypeOK
  <2>1. Len(txBuf) <= PktMax + 1 /\ Len(events) <= EventLen /\ flushes \in 0 .. FlushLen
    BY <1>2, SizesAssumption DEF Init
  <2>2. /\ mode \in {"COMMAND", "DATA"} /\ esc \in 0 .. 3
        /\ mutex \in Threads \cup {"none"} /\ opening \in {"no", "listed", "named"}
    BY DEF Init
  <2>4. /\ many \in BOOLEAN
        /\ current \in BOOLEAN /\ open \in BOOLEAN /\ closing \in BOOLEAN
        /\ escaped \in BOOLEAN /\ nagle \in BOOLEAN /\ autoesc \in BOOLEAN
    BY Zenon DEF Init
  <2>3. QED
    BY <1>2, <1>3, <2>1, <2>2, <2>4 DEF TypeOK
<1>5. SharingInv
  BY <1>2, SizesAssumption DEF Init, SharingInv, OneTransmits, Threads, Callers
<1>6. QED
  BY <1>4, <1>5 DEF Inv

\* A typed byte keeps the history well typed.
LEMMA OweType ==
  ASSUME TypeOK, NEW b \in Bytes, Owe(b)
  PROVE  owed' \in Seq(Bytes) /\ net' \in Seq(Bytes)
  BY AppendProperties DEF Owe, TypeOK

\* A byte that the host types.
LEMMA HostInv == ASSUME Inv, Host PROVE Inv'
<1> USE DEF Inv, SharingInv, OneTransmits, conn, escape, timers, Threads, Callers
<1>1. CASE TypeEscape
  <2>1. Plus \in Bytes
    BY DEF Bytes
  <2>2. owed' \in Seq(Bytes) /\ net' \in Seq(Bytes)
    BY <1>1, <2>1, OweType DEF TypeEscape
  <2>3. idx' \in [Callers -> 0 .. 4] /\ at' \in [Threads -> Labels]
    BY <1>1 DEF TypeEscape, TypeOK, Goto, Labels
  <2>4. QED
    BY <1>1, <2>2, <2>3 DEF TypeEscape, TypeOK, Goto, HostTypes, MainIdle
<1>2. ASSUME NEW b \in Bytes, TypeAfterPluses(b) PROVE Inv'
  <2>1. owed' \in Seq(Bytes) /\ net' \in Seq(Bytes)
    BY <1>2, OweType DEF TypeAfterPluses
  <2>2. byte' \in [Callers -> Bytes] /\ at' \in [Threads -> Labels]
    BY <1>2 DEF TypeAfterPluses, TypeOK, Goto, Labels
  <2>3. QED
    BY <1>2, <2>1, <2>2 DEF TypeAfterPluses, TypeOK, Goto, HostTypes, MainIdle
<1>3. ASSUME NEW b \in Bytes, TypePlain(b) PROVE Inv'
  <2>1. owed' \in Seq(Bytes) /\ net' \in Seq(Bytes)
    BY <1>3, OweType DEF TypePlain
  <2>2. byte' \in [Callers -> Bytes] /\ at' \in [Threads -> Labels]
    BY <1>3 DEF TypePlain, TypeOK, Goto, Labels
  <2>3. QED
    BY <1>3, <2>1, <2>2 DEF TypePlain, TypeOK, Goto, HostTypes, MainIdle
<1>4. QED
  BY <1>1, <1>2, <1>3 DEF Host

\* The steps of the main thread between its calls.
LEMMA MainInv ==
  ASSUME Inv, Count \/ Mark \/ MainLoop \/ MainLoopEnd
  PROVE  Inv'
<1> USE DEF Inv, SharingInv, OneTransmits, conn, escape, timers, history, Threads, Callers
<1>1. CASE Count
  <2>1. /\ idx' \in [Callers -> 0 .. 4] /\ at' \in [Threads -> Labels]
        /\ esc' \in 0 .. 3
    BY <1>1 DEF Count, TypeOK, Goto, Labels
  <2>2. QED
    BY <1>1, <2>1 DEF Count, TypeOK, Goto
<1>2. CASE Mark
  <2>1. /\ idx' \in [Callers -> 0 .. 4] /\ at' \in [Threads -> Labels]
        /\ escBuf' \in [0 .. 3 -> Bytes]
    BY <1>2 DEF Mark, TypeOK, Goto, Labels
  <2>2. QED
    BY <1>2, <2>1 DEF Mark, TypeOK, Goto
<1>3. CASE MainLoop
  <2>1. escBuf[idx["main"]] \in Bytes /\ idx["main"] + 1 \in 0 .. 4
    BY <1>3 DEF MainLoop, TypeOK
  <2>2. /\ idx' \in [Callers -> 0 .. 4] /\ at' \in [Threads -> Labels]
        /\ byte' \in [Callers -> Bytes]
    BY <1>3, <2>1 DEF MainLoop, Fetch, TypeOK, Goto, Labels
  <2>3. QED
    BY <1>3, <2>2 DEF MainLoop, Fetch, TypeOK, Goto
<1>4. CASE MainLoopEnd
  <2>1. Plus \in Bytes
    BY DEF Bytes
  <2>2. /\ idx' \in [Callers -> 0 .. 4] /\ at' \in [Threads -> Labels]
        /\ escBuf' \in [0 .. 3 -> Bytes]
    BY <1>4, <2>1 DEF MainLoopEnd, TypeOK, Goto, Labels
  <2>3. many' \in BOOLEAN
    BY <1>4, Zenon DEF MainLoopEnd
  <2>4. TypeOK'
    <3>1. esc' \in 0 .. 3
      BY <1>4 DEF MainLoopEnd
    <3>2. QED
      BY <1>4, <2>2, <2>3, <3>1 DEF MainLoopEnd, TypeOK, Goto
  <2>5. SharingInv'
    BY <1>4 DEF MainLoopEnd, TypeOK, Goto
  <2>6. QED
    BY <2>4, <2>5
<1>5. QED
  BY <1>1, <1>2, <1>3, <1>4

\* The steps of WXS2w_DataCharProcess that do not transmit.
LEMMA CallInv ==
  ASSUME Inv, NEW t \in Callers, Check(t) \/ Store(t)
  PROVE  Inv'
<1> USE DEF Inv, SharingInv, OneTransmits, conn, escape, timers, history, Threads, Callers
<1>1. CASE Check(t)
  <2>1. at' \in [Threads -> Labels]
    BY <1>1 DEF Check, Return, TypeOK, Goto, Labels
  <2>2. QED
    BY <1>1, <2>1 DEF Check, Return, TypeOK, Goto
<1>2. CASE Store(t)
  <2>1. byte[t] \in Bytes /\ Len(txBuf) \in Nat /\ Len(txBuf) <= PktMax
    BY <1>2, LenProperties, SizesAssumption DEF Store, TypeOK
  <2>2. txBuf' \in Seq(Bytes) /\ Len(txBuf') = Len(txBuf) + 1
    BY <1>2, <2>1, AppendProperties DEF Store, TypeOK
  <2>3. at' \in [Threads -> Labels]
    BY <1>2 DEF Store, Return, TypeOK, Goto, Labels
  <2>4. nagle' \in BOOLEAN
    BY <1>2 DEF Store, TypeOK
  <2>5. CASE Len(txBuf') > PktMax
    <3>1. mutex = "none" /\ mutex' = t /\ at' = [at EXCEPT ![t] = "flush"]
      BY <1>2, <2>5 DEF Store, Goto
    <3>2. SharingInv'
      BY <1>2, <3>1 DEF Store, TypeOK
    <3>3. TypeOK'
      BY <1>2, <2>1, <2>2, <2>3, <2>4, <3>1, SizesAssumption DEF Store, TypeOK
    <3>4. QED
      BY <3>2, <3>3
  <2>6. CASE ~(Len(txBuf') > PktMax)
    <3>1. mutex' = mutex /\ Return(t)
      BY <1>2, <2>6 DEF Store
    <3>2. SharingInv'
      BY <1>2, <2>6, <3>1 DEF Store, TypeOK, Return, Goto
    <3>3. TypeOK'
      BY <1>2, <2>1, <2>2, <2>3, <2>4, <3>1, SizesAssumption
      DEF Store, TypeOK, Return, Goto
    <3>4. QED
      BY <3>2, <3>3
  <2>7. QED
    BY <2>5, <2>6
<1>3. QED
  BY <1>1, <1>2

\* Transmitting, by any of the three threads.
LEMMA FlushInv ==
  ASSUME Inv, NEW t \in Threads, Flush(t)
  PROVE  Inv'
<1> USE DEF Inv, SharingInv, OneTransmits, conn, escape, timers, history, Threads, Callers
<1>1. owed' \in Seq(Bytes) /\ net' \in Seq(Bytes) /\ mode' \in {"COMMAND", "DATA"}
  <2>1. CASE UNCHANGED history
    BY <2>1 DEF Flush, Transmit, TypeOK
  <2>2. CASE /\ owed' = DropFirst(owed, Len(txBuf)) /\ UNCHANGED mode
             /\ \E sent \in 0 .. Len(txBuf) : net' = net \o SubSeq(txBuf, 1, sent)
    <3>1. Len(txBuf) \in Nat /\ Len(owed) \in Nat
      BY LenProperties DEF TypeOK
    <3>2. owed' \in Seq(Bytes)
      <4>1. \A k \in Len(txBuf) + 1 .. Len(owed) : owed[k] \in Bytes
        BY <3>1, ElementOfSeq DEF TypeOK
      <4>2. QED
        BY <2>2, <3>1, <4>1, SubSeqProperties DEF DropFirst, TypeOK
    <3>3. net' \in Seq(Bytes)
      <4>1. PICK sent \in 0 .. Len(txBuf) : net' = net \o SubSeq(txBuf, 1, sent)
        BY <2>2
      <4>2. \A k \in 1 .. sent : txBuf[k] \in Bytes
        BY <3>1, <4>1, ElementOfSeq DEF TypeOK
      <4>3. SubSeq(txBuf, 1, sent) \in Seq(Bytes)
        BY <3>1, <4>1, <4>2, SubSeqProperties
      <4>4. QED
        BY <4>1, <4>3, ConcatProperties DEF TypeOK
    <3>4. QED
      BY <2>2, <3>2, <3>3 DEF TypeOK
  <2>3. QED
    BY <2>1, <2>2 DEF Flush, Transmit
<1>2. at' \in [Threads -> Labels]
  BY DEF Flush, Return, TypeOK, Goto, Labels
<1>3. txBuf' \in Seq(Bytes) /\ Len(txBuf') = 0
  BY EmptySeq DEF Flush
<1>4. mutex = t /\ mutex' = "none"
  BY DEF Flush
<1>5. SharingInv'
  BY <1>3, <1>4, SizesAssumption DEF Flush, Return, TypeOK, Goto
<1>6. TypeOK'
  BY <1>1, <1>2, <1>3, <1>4, SizesAssumption DEF Flush, Return, TypeOK, Goto
<1>7. QED
  BY <1>5, <1>6

\* The timers, and the worker's steps other than its calls.
LEMMA WorkerInv ==
  ASSUME Inv, \/ NagleExpires \/ EscExpires \/ NagleHandler \/ EscHandlerEscapes
              \/ EscHandlerReturns \/ WorkerLoop \/ WorkerLoopEnd
  PROVE  Inv'
<1> USE DEF Inv, SharingInv, OneTransmits, conn, escape, thread, history, Threads, Callers
<1>1. ASSUME NEW e \in {"nagle", "esc"}, Expires(e) PROVE Inv'
  <2>1. events' \in Seq({"nagle", "esc"}) /\ Len(events') <= EventLen
    BY <1>1, AppendProperties, LenProperties, SizesAssumption DEF Expires, TypeOK
  <2>2. QED
    BY <1>1, <2>1 DEF Expires, TypeOK
<1>2. ASSUME NEW e, Event(e)
      PROVE  Tail(events) \in Seq({"nagle", "esc"}) /\ Len(Tail(events)) <= EventLen
  BY <1>2, HeadTailProperties, LenProperties, SizesAssumption DEF Event, TypeOK
<1>3. CASE NagleHandler
  <2>1. events' \in Seq({"nagle", "esc"}) /\ Len(events') <= EventLen
    BY <1>2, <1>3 DEF NagleHandler
  <2>2. nagle' \in BOOLEAN
    BY <1>3, Zenon DEF NagleHandler
  <2>3. flushes' \in 0 .. FlushLen
    BY <1>3, SizesAssumption DEF NagleHandler, TypeOK
  <2>4. QED
    BY <1>3, <2>1, <2>2, <2>3 DEF NagleHandler, TypeOK
<1>4. CASE EscHandlerEscapes
  <2>1. events' \in Seq({"nagle", "esc"}) /\ Len(events') <= EventLen
    BY <1>2, <1>4 DEF EscHandlerEscapes
  <2>2. autoesc' \in BOOLEAN
    BY <1>4, Zenon DEF EscHandlerEscapes
  <2>3. owed' \in Seq(Bytes)
    <3>1. Len(owed) \in Nat
      BY LenProperties DEF TypeOK
    <3>2. \A k \in 1 .. Len(owed) - 3 : owed[k] \in Bytes
      BY <3>1, ElementOfSeq DEF TypeOK
    <3>3. QED
      BY <1>4, <3>1, <3>2, SubSeqProperties DEF EscHandlerEscapes, DropLast
  <2>4. QED
    BY <1>4, <2>1, <2>2, <2>3 DEF EscHandlerEscapes, TypeOK
<1>5. CASE EscHandlerReturns
  <2>1. events' \in Seq({"nagle", "esc"}) /\ Len(events') <= EventLen
    BY <1>2, <1>5 DEF EscHandlerReturns
  <2>2. autoesc' \in BOOLEAN /\ nagle' \in BOOLEAN
    BY <1>5, Zenon DEF EscHandlerReturns
  <2>3. at' \in [Threads -> Labels] /\ idx' \in [Callers -> 0 .. 4]
    BY <1>5 DEF EscHandlerReturns, TypeOK, Goto, Labels
  <2>4. QED
    BY <1>5, <2>1, <2>2, <2>3 DEF EscHandlerReturns, TypeOK, Event, Goto
<1>6. CASE WorkerLoop
  <2>1. Plus \in Bytes
    BY DEF Bytes
  <2>2. /\ at' \in [Threads -> Labels] /\ idx' \in [Callers -> 0 .. 4]
        /\ byte' \in [Callers -> Bytes]
    BY <1>6, <2>1 DEF WorkerLoop, Fetch, TypeOK, Goto, Labels
  <2>3. QED
    BY <1>6, <2>2 DEF WorkerLoop, Fetch, TypeOK, Goto, timers
<1>7. CASE WorkerLoopEnd
  <2>1. at' \in [Threads -> Labels] /\ idx' \in [Callers -> 0 .. 4]
    BY <1>7 DEF WorkerLoopEnd, TypeOK, Goto, Labels
  <2>2. QED
    BY <1>7, <2>1 DEF WorkerLoopEnd, TypeOK, Goto, timers
<1>8. QED
  BY <1>1, <1>3, <1>4, <1>5, <1>6, <1>7 DEF NagleExpires, EscExpires

\* The queue thread, the network, and the commands.
LEMMA OtherInv ==
  ASSUME Inv, QueueTake \/ QueueLock \/ Network \/ Disassociate \/ Sdata
  PROVE  Inv'
<1> USE DEF Inv, SharingInv, OneTransmits, conn, escape, thread, timers, history,
            Threads, Callers
<1>1. CASE QueueTake
  <2>1. at' \in [Threads -> Labels] /\ flushes' \in 0 .. FlushLen
    BY <1>1, SizesAssumption DEF QueueTake, TypeOK, Goto, Labels
  <2>2. QED
    BY <1>1, <2>1 DEF QueueTake, TypeOK, Goto
<1>2. CASE QueueLock
  <2>1. at' \in [Threads -> Labels]
    BY <1>2 DEF QueueLock, TypeOK, Goto, Labels
  <2>2. QED
    BY <1>2, <2>1 DEF QueueLock, TypeOK, Goto
<1>3. <<>> \in Seq(Bytes) /\ Len(<<>>) = 0
  BY EmptySeq
<1>4. CASE Opening
  <2>1. CASE OpenList
    <3>1. open' \in BOOLEAN
      BY <2>1, Zenon DEF OpenList
    <3>2. QED
      BY <1>3, <2>1, <3>1 DEF OpenList, TypeOK
  <2>2. CASE OpenFails
    <3>1. open' \in BOOLEAN
      BY <2>2, Zenon DEF OpenFails
    <3>2. QED
      BY <1>3, <2>2, <3>1 DEF OpenFails, TypeOK
  <2>3. CASE Connect
    <3>1. current' \in BOOLEAN
      BY <2>3, Zenon DEF Connect
    <3>2. QED
      BY <2>3, <3>1 DEF Connect, TypeOK
  <2>4. CASE EnterData
    <3>1. mode' \in {"COMMAND", "DATA"}
      BY <2>4 DEF EnterData, TypeOK
    <3>2. QED
      BY <2>4, <3>1 DEF EnterData, TypeOK
  <2>5. QED
    BY <1>4, <2>1, <2>2, <2>3, <2>4 DEF Opening
<1>5. CASE CloseClear
  <2>1. open' \in BOOLEAN /\ closing' \in BOOLEAN /\ escaped' \in BOOLEAN
    BY <1>5, Zenon DEF CloseClear
  <2>2. QED
    BY <1>3, <1>5, <2>1 DEF CloseClear, TypeOK
<1>6. CASE CloseNotify
  <2>1. closing' \in BOOLEAN
    BY <1>6, Zenon DEF CloseNotify
  <2>2. QED
    BY <1>3, <1>6, <2>1, SizesAssumption DEF CloseNotify, TypeOK
<1>7. CASE Disassociate
  <2>1. current' \in BOOLEAN
    BY <1>7, Zenon DEF Disassociate
  <2>2. QED
    BY <1>3, <1>7, <2>1, SizesAssumption DEF Disassociate, TypeOK
<1>8. CASE Sdata
  BY <1>8 DEF Sdata, TypeOK
<1>9. QED
  BY <1>1, <1>2, <1>4, <1>5, <1>6, <1>7, <1>8 DEF Network

\* Inv is inductive.
LEMMA StepInv == Inv /\ [Next]_vars => Inv'
<1> SUFFICES ASSUME Inv, [Next]_vars PROVE Inv'
  OBVIOUS
<1>1. CASE Next
  <2>1. CASE Host
    BY <2>1, HostInv
  <2>2. CASE MainRuns
    BY <2>2, MainInv, CallInv, FlushInv DEF MainRuns, Calls, Callers, Threads
  <2>3. CASE WorkerRuns
    BY <2>3, WorkerInv, CallInv, FlushInv DEF WorkerRuns, Calls, Callers, Threads
  <2>4. CASE QueueRuns
    BY <2>4, OtherInv, FlushInv DEF QueueRuns, Threads
  <2>5. CASE TimerRuns
    BY <2>5, WorkerInv DEF TimerRuns
  <2>6. CASE Network \/ Disassociate \/ Sdata
    BY <2>6, OtherInv
  <2>7. QED
    BY <1>1, <2>1, <2>2, <2>3, <2>4, <2>5, <2>6 DEF Next
<1>2. CASE UNCHANGED vars
  BY <1>2 DEF vars, conn, escape, thread, timers, history, Inv, TypeOK, SharingInv,
              OneTransmits
<1>3. QED
  BY <1>1, <1>2

LEMMA AlwaysInv == Spec => []Inv
<1>1. QED
  BY InitInv, StepInv, PTL DEF Spec

\* Every reachable state is well typed: g_auto_esc never leaves the array esc
\* and g_scTxIndex never leaves g_scTxBuffer, for any overlap of the threads.
THEOREM BridgeTypeCorrect == Spec => []TypeOK
<1>1. Inv => TypeOK
  BY DEF Inv
<1>2. QED
  BY <1>1, AlwaysInv, PTL

\* g_s2w_wizmutex is held exactly while its owner transmits.
THEOREM MutexGuardsTransmission == Spec => []OneTransmits
<1>1. Inv => OneTransmits
  BY DEF Inv, SharingInv
<1>2. QED
  BY <1>1, AlwaysInv, PTL

-----------------------------------------------------------------------------
(* A transmission is on its way.  The invariant is inductive beside the    *)
(* types: each of its alternatives is replaced by the next one, down to    *)
(* the transmission that empties the buffer.                               *)

\* What keeps an expired Nagle timer among the worker's events.
LEMMA NagleEventKept ==
  ASSUME TypeOK, NEW k \in 1 .. Len(events), events[k] = "nagle"
  PROVE  /\ \A e : \E j \in 1 .. Len(Append(events, e)) : Append(events, e)[j] = "nagle"
         /\ Head(events) = "esc" =>
              \E j \in 1 .. Len(Tail(events)) : Tail(events)[j] = "nagle"
<1>1. Len(events) \in Nat /\ events \in Seq({"nagle", "esc"})
  BY LenProperties DEF TypeOK
<1>2. ASSUME NEW e PROVE \E j \in 1 .. Len(Append(events, e)) : Append(events, e)[j] = "nagle"
  <2>1. Len(Append(events, e)) = Len(events) + 1 /\ Append(events, e)[k] = events[k]
    BY <1>1
  <2>2. QED
    BY <1>1, <2>1
<1>3. ASSUME Head(events) = "esc"
      PROVE  \E j \in 1 .. Len(Tail(events)) : Tail(events)[j] = "nagle"
  <2>1. events # <<>> /\ Head(events) = events[1]
    BY <1>1
  <2>2. k > 1
    BY <1>3, <2>1
  <2>3. Len(Tail(events)) = Len(events) - 1 /\ Tail(events)[k - 1] = events[k]
    BY <1>1, <2>1, <2>2, HeadTailProperties
  <2>4. QED
    BY <1>1, <2>2, <2>3
<1>4. QED
  BY <1>2, <1>3

LEMMA StepFlush ==
  Inv /\ FlushOnTheWay /\ [Next]_vars => FlushOnTheWay'
<1> SUFFICES ASSUME Inv, FlushOnTheWay, [Next]_vars, txBuf' # <<>>
             PROVE  FlushOnTheWay'
  BY DEF FlushOnTheWay
<1> USE DEF FlushOnTheWay, conn, escape, thread, timers, history, Threads, Callers
<1>1. TypeOK
  BY DEF Inv
<1>2. ASSUME txBuf' = txBuf, nagle' = nagle, events' = events, flushes' = flushes,
             \A t \in Threads : at[t] = "flush" => at'[t] = at[t],
             at["queue"] # "idle" => at'["queue"] # "idle"
      PROVE  FlushOnTheWay'
  BY <1>2, Zenon
<1>3. CASE Host
  BY <1>1, <1>2, <1>3
  DEF Host, TypeEscape, TypeAfterPluses, TypePlain, HostTypes, MainIdle, Goto, TypeOK
<1>4. CASE Count \/ Mark \/ MainLoop \/ MainLoopEnd
  BY <1>1, <1>2, <1>4 DEF Count, Mark, MainLoop, MainLoopEnd, Fetch, Goto, TypeOK
<1>5. ASSUME NEW t \in Callers, Check(t) PROVE FlushOnTheWay'
  BY <1>1, <1>2, <1>5 DEF Check, Return, Goto, TypeOK
<1>6. ASSUME NEW t \in Callers, Store(t) PROVE FlushOnTheWay'
  <2>1. Len(txBuf) \in Nat /\ txBuf \in Seq(Bytes) /\ byte[t] \in Bytes
    BY <1>1, LenProperties DEF TypeOK
  <2>2. Len(txBuf') = Len(txBuf) + 1
    BY <1>6, <2>1, AppendProperties DEF Store
  <2>3. CASE Len(txBuf') > PktMax
    BY <1>1, <1>6, <2>3 DEF Store, Goto, TypeOK
  <2>4. CASE ~(Len(txBuf') > PktMax) /\ txBuf = <<>>
    <3>1. Len(txBuf') = 1
      BY <2>2, <2>4
    <3>2. nagle'
      BY <1>6, <2>4, <3>1 DEF Store
    <3>3. QED
      BY <3>2
  <2>5. CASE ~(Len(txBuf') > PktMax) /\ txBuf # <<>>
    <3>1. nagle => nagle'
      BY <1>6, <2>5 DEF Store
    <3>2. events' = events /\ flushes' = flushes /\ at[t] = "lock"
      BY <1>6 DEF Store
    <3>3. at'["queue"] = at["queue"] /\ \A u \in Callers : at[u] = "flush" => at'[u] = "flush"
      BY <1>1, <1>6, <2>5, <3>2 DEF Store, Return, Goto, TypeOK
    <3>4. QED
      BY <2>5, <3>1, <3>2, <3>3
  <2>6. QED
    BY <2>3, <2>4, <2>5
<1>7. ASSUME NEW t \in Threads, Flush(t) PROVE FlushOnTheWay'
  BY <1>7 DEF Flush
<1>8. CASE NagleExpires \/ EscExpires
  <2>1. PICK e : events' = Append(events, e) /\ Expires(e)
    BY <1>8 DEF NagleExpires, EscExpires, Expires
  <2>2. /\ nagle' = nagle /\ flushes' = flushes /\ at' = at /\ txBuf' = txBuf
    BY <2>1 DEF Expires
  <2>3. CASE \E k \in 1 .. Len(events) : events[k] = "nagle"
    BY <1>1, <2>1, <2>3, NagleEventKept
  <2>4. QED
    BY <2>2, <2>3
<1>9. CASE NagleHandler
  <2>1. flushes' > 0
    BY <1>1, <1>9, SizesAssumption DEF NagleHandler, TypeOK
  <2>2. QED
    BY <2>1
<1>10. CASE EscHandlerEscapes
  <2>1. /\ events' = Tail(events) /\ Head(events) = "esc" /\ nagle' = nagle
        /\ flushes' = flushes /\ at' = at /\ txBuf' = txBuf
    BY <1>10 DEF EscHandlerEscapes, Event
  <2>2. CASE \E k \in 1 .. Len(events) : events[k] = "nagle"
    BY <1>1, <2>1, <2>2, NagleEventKept
  <2>3. QED
    BY <2>1, <2>2
<1>11. CASE EscHandlerReturns
  BY <1>11 DEF EscHandlerReturns
<1>12. CASE WorkerLoop \/ WorkerLoopEnd
  BY <1>1, <1>2, <1>12 DEF WorkerLoop, WorkerLoopEnd, Fetch, Goto, TypeOK
<1>13. CASE QueueTake \/ QueueLock
  <2>1. at'["queue"] # "idle"
    BY <1>1, <1>13 DEF QueueTake, QueueLock, Goto, TypeOK
  <2>2. QED
    BY <2>1
<1>14. CASE Network \/ Disassociate \/ Sdata
  <2>1. CASE CloseNotify \/ Disassociate
    BY <2>1 DEF CloseNotify, Disassociate
  <2>2. CASE Opening \/ CloseClear \/ Sdata
    BY <1>2, <2>2 DEF Opening, OpenList, OpenFails, Connect, EnterData, CloseClear, Sdata
  <2>3. QED
    BY <1>14, <2>1, <2>2 DEF Network
<1>15. CASE UNCHANGED vars
  BY <1>2, <1>15 DEF vars
<1>16. QED
  <2>1. CASE MainRuns
    BY <2>1, <1>4, <1>5, <1>6, <1>7 DEF MainRuns, Calls
  <2>2. CASE WorkerRuns
    BY <2>2, <1>5, <1>6, <1>7, <1>9, <1>10, <1>11, <1>12 DEF WorkerRuns, Calls
  <2>3. CASE QueueRuns \/ TimerRuns
    BY <2>3, <1>7, <1>8, <1>13 DEF QueueRuns, TimerRuns
  <2>4. QED
    BY <2>1, <2>2, <2>3, <1>3, <1>14, <1>15 DEF Next

\* Buffered bytes always have a transmission coming, however the threads and
\* the timers interleave and whatever the queues lose.
THEOREM TransmissionComes == Spec => []FlushOnTheWay
<1>1. Init => FlushOnTheWay
  BY DEF Init, FlushOnTheWay
<1>2. QED
  BY <1>1, AlwaysInv, StepFlush, PTL DEF Spec

-----------------------------------------------------------------------------
(* Pluses that are held back                                               *)

\* The timer stops only when its handler decides, or begins to pass the
\* pluses on, and that handler ends by resetting the count.
LEMMA StepPluses ==
  Inv /\ PlusesWatched /\ [Next]_vars => PlusesWatched'
<1> SUFFICES ASSUME Inv, PlusesWatched, [Next]_vars
             PROVE  PlusesWatched'
  OBVIOUS
<1> USE DEF PlusesWatched, conn, escape, thread, timers, history, Threads, Callers
<1>1. /\ TypeOK
      /\ at \in [Threads -> Labels]
  BY DEF Inv, TypeOK
<1>2. ASSUME esc' = esc, autoesc => autoesc', at["worker"] # "idle" => at'["worker"] # "idle"
      PROVE  PlusesWatched'
  BY <1>2
<1>3. ASSUME esc' = 0 PROVE PlusesWatched'
  BY <1>3
<1>4. CASE Host
  BY <1>1, <1>2, <1>4
  DEF Host, TypeEscape, TypeAfterPluses, TypePlain, HostTypes, MainIdle, Goto
<1>5. CASE Count
  BY <1>5 DEF Count
<1>6. CASE Mark \/ MainLoop
  BY <1>1, <1>2, <1>6 DEF Mark, MainLoop, Fetch, Goto
<1>7. CASE MainLoopEnd \/ EscHandlerEscapes \/ WorkerLoopEnd
  BY <1>3, <1>7 DEF MainLoopEnd, EscHandlerEscapes, WorkerLoopEnd
<1>8. ASSUME NEW t \in Threads, Return(t) \/ Goto(t, "lock") \/ Goto(t, "flush")
      PROVE  at["worker"] # "idle" => at'["worker"] # "idle"
  BY <1>1, <1>8 DEF Return, Goto
<1>9. ASSUME NEW t \in Callers, Check(t) \/ Store(t) PROVE PlusesWatched'
  <2>1. Return(t) \/ Goto(t, "lock") \/ Goto(t, "flush")
    BY <1>9 DEF Check, Store
  <2>2. esc' = esc /\ autoesc' = autoesc
    BY <1>9 DEF Check, Store
  <2>3. QED
    BY <1>2, <1>8, <2>1, <2>2
<1>10. ASSUME NEW t \in Threads, Flush(t) PROVE PlusesWatched'
  BY <1>2, <1>8, <1>10 DEF Flush
<1>11. CASE NagleExpires \/ EscExpires \/ NagleHandler
  BY <1>2, <1>11 DEF NagleExpires, EscExpires, Expires, NagleHandler
<1>12. CASE EscHandlerReturns
  BY <1>1, <1>12 DEF EscHandlerReturns, Goto
<1>13. CASE WorkerLoop
  BY <1>1, <1>2, <1>13 DEF WorkerLoop, Fetch, Goto
<1>14. CASE QueueTake \/ QueueLock
  BY <1>2, <1>8, <1>14 DEF QueueTake, QueueLock
<1>15. CASE Network \/ Disassociate \/ Sdata
  BY <1>2, <1>15 DEF Network, Opening, OpenList, OpenFails, Connect, EnterData,
                     CloseClear, CloseNotify, Disassociate, Sdata
<1>16. CASE UNCHANGED vars
  BY <1>2, <1>16 DEF vars
<1>17. QED
  <2>1. CASE MainRuns
    BY <2>1, <1>5, <1>6, <1>7, <1>9, <1>10 DEF MainRuns, Calls
  <2>2. CASE WorkerRuns
    BY <2>2, <1>7, <1>9, <1>10, <1>11, <1>12, <1>13 DEF WorkerRuns, Calls
  <2>3. CASE QueueRuns \/ TimerRuns
    BY <2>3, <1>10, <1>11, <1>14 DEF QueueRuns, TimerRuns
  <2>4. QED
    BY <2>1, <2>2, <2>3, <1>4, <1>15, <1>16 DEF Next

\* However the main thread's counting and the timer's handler interleave, no
\* plus is held back with nobody left to decide about it.
THEOREM PlusesNotForgotten == Spec => []PlusesWatched
<1>1. Init => PlusesWatched
  BY DEF Init, PlusesWatched
<1>2. QED
  BY <1>1, AlwaysInv, StepPluses, PTL DEF Spec
=============================================================================
