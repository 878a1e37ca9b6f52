---------------------------- MODULE SerialBridge ----------------------------
(***************************************************************************)
(* The serial line in data mode (wx_s2w_process.c).                        *)
(*                                                                         *)
(* Three threads share g_auto_esc, g_scTxBuffer and g_scTxIndex.  The main *)
(* thread (WXS2w_SerialInput) counts the pluses of the escape sequence and *)
(* buffers all other bytes.  The networking worker runs the handlers of    *)
(* two timers: f_autoesc_timer ends an escape sequence or gives its pluses *)
(* back to the data, f_nagle_timer asks the queue thread                   *)
(* (ProcessWizFiQueue, message 101) to transmit the buffer.  The buffer is *)
(* guarded by g_s2w_wizmutex, g_auto_esc by nothing.  The socket thread of *)
(* the connection ends data mode and empties the buffer when the           *)
(* connection closes, without the mutex.                                   *)
(*                                                                         *)
(* SocketTable shows that a data-mode socket has scid 0, so that there is  *)
(* one of them at a time: the state of one connection is enough here.      *)
(* Command-mode sockets may be listed beside it; that AT+SSEND makes one   *)
(* of them the current scid is left out.                                   *)
(***************************************************************************)
EXTENDS Naturals, Sequences

CONSTANTS
  Plain, Plus,   \* what the host types: ordinary bytes, and '+'
  PktMax,        \* WX_MAX_PACKET_SIZE (1460 in the firmware)
  BufSize,       \* WX_DATABUFFER_SIZE (1500)
  NagleStep,     \* the Nagle timer restarts every NagleStep bytes (100)
  EventLen,      \* capacity of the networking worker's queue (15)
  FlushLen,      \* room for 101 messages in g_queue_handle_wizfiqueue: its
                 \* 20 places less the at most 8 that 111 messages take
  MaxTyped,      \* bound: bytes typed for one connection
  Overlap,       \* the escape timer may expire while a byte is processed
  Reuse          \* a connection may open before the bytes typed for the
                 \* previous one are dealt with

Bytes == Plain \cup {Plus}

ASSUME BytesAssumption == Plus \notin Plain
ASSUME SizesAssumption ==
  /\ PktMax \in Nat \ {0} /\ BufSize \in Nat /\ PktMax < BufSize
  /\ NagleStep \in Nat \ {0} /\ MaxTyped \in Nat
  /\ EventLen \in Nat \ {0} /\ FlushLen \in Nat \ {0}
ASSUME FlagsAssumption == Overlap \in BOOLEAN /\ Reuse \in BOOLEAN

VARIABLES
  mode,        \* g_wxModeState
  current,     \* g_currentScid is not WX_INVALID_SCID
  open,        \* g_scList[0].pSocket
  opening,     \* how far the socket thread is with opening: "listed", or
               \* "named" when it has written g_currentScid, or "no"
  closing,     \* the slot is cleared, the end not announced yet
  escaped,     \* command_mode_when_disconnected
  esc,         \* g_auto_esc
  escBuf,      \* the static array esc of WXS2w_SerialInput
  at,          \* where each thread is
  byte,        \* the argument of its WXS2w_DataCharProcess
  idx,         \* its loop variable, or the g_auto_esc it has read
  many,        \* the main thread is in its loop over escBuf
  txBuf,       \* g_scTxBuffer[0 .. g_scTxIndex - 1]
  mutex,       \* the owner of g_s2w_wizmutex
  nagle,       \* g_nagle_timer is running
  autoesc,     \* g_autoesc_timer is running
  events,      \* expired timers waiting for the networking worker
  flushes,     \* number of 101 messages in g_queue_handle_wizfiqueue
  owed,        \* history: typed for this connection, not transmitted
  net          \* history: transmitted on this connection

conn == <<current, open, opening, closing, escaped>>
escape == <<esc, escBuf>>
thread == <<at, byte, idx, many>>
timers == <<nagle, autoesc, events>>
history == <<owed, net>>
vars == <<mode, conn, escape, thread, txBuf, mutex, timers, flushes, history>>

Callers == {"main", "worker"}            \* of WXS2w_DataCharProcess
Threads == Callers \cup {"queue"}

Init ==
  /\ mode = "COMMAND"
  /\ current = FALSE /\ open = FALSE /\ opening = "no"
  /\ closing = FALSE /\ escaped = FALSE
  /\ esc = 0 /\ escBuf = [k \in 0 .. 3 |-> Plus]
  /\ at = [t \in Threads |-> "idle"]
  /\ byte = [t \in Callers |-> Plus]
  /\ idx = [t \in Callers |-> 0]
  /\ many = FALSE
  /\ txBuf = <<>> /\ mutex = "none"
  /\ nagle = FALSE /\ autoesc = FALSE /\ events = <<>> /\ flushes = 0
  /\ owed = <<>> /\ net = <<>>

Goto(t, label) == at' = [at EXCEPT ![t] = label]

(***************************************************************************)
(* Scheduling is by fixed priorities: 3 for the networking worker, 7 for   *)
(* the main thread, 9 for the queue thread, and less for socket threads.   *)
(* A thread runs when all above it wait: for work, for the mutex, or in a  *)
(* send.  The worker may leave an event waiting for any time, since it     *)
(* also runs the callbacks of the network.                                 *)
(***************************************************************************)
Waits(t) == at[t] \in {"idle", "flush"} \/ (at[t] = "lock" /\ mutex # "none")
Above == [worker |-> {}, main |-> {"worker"}, queue |-> Callers, socket |-> Threads]
Turn(t) == \A u \in Above[t] : Waits(u)

DropFirst(s, n) == SubSeq(s, n + 1, Len(s))
DropLast(s, n) == SubSeq(s, 1, Len(s) - n)

-----------------------------------------------------------------------------
(* WXS2w_SerialInput: one byte from the host                               *)

\* The main thread waits for a byte.
MainIdle == at["main"] = "idle" /\ Turn("main")
HostTypes == MainIdle /\ mode = "DATA" /\ (Overlap \/ at["worker"] = "idle")

\* A byte counts as owed if there is a connection to carry it.
Owe(b) ==
  /\ Len(owed) + Len(net) < MaxTyped
  /\ owed' = IF open /\ current THEN Append(owed, b) ELSE owed
  /\ UNCHANGED net

\* mutant: every plus is counted
CountAnyPlus ==
  /\ HostTypes
  /\ Owe(Plus)
  /\ idx' = [idx EXCEPT !["main"] = esc]
  /\ Goto("main", "count")
  /\ UNCHANGED <<mode, conn, escape, byte, many, txBuf, mutex, timers, flushes>>

\* One of the first three pluses is held back: g_auto_esc is read here and
\* written in Count.
TypeEscape ==
  /\ HostTypes
  /\ esc < 3
  /\ Owe(Plus)
  /\ idx' = [idx EXCEPT !["main"] = esc]
  /\ Goto("main", "count")
  /\ UNCHANGED <<mode, conn, escape, byte, many, txBuf, mutex, timers, flushes>>

\* mutant: the timer is not restarted
CountOnly ==
  /\ at["main"] = "count" /\ Turn("main")
  /\ esc' = idx["main"] + 1
  /\ Goto("main", "idle")
  /\ idx' = [idx EXCEPT !["main"] = 0]
  /\ UNCHANGED <<mode, conn, escBuf, byte, many, txBuf, mutex, timers, flushes, history>>

Count ==
  /\ at["main"] = "count" /\ Turn("main")
  /\ esc' = idx["main"] + 1
  /\ autoesc' = TRUE
  /\ Goto("main", "idle")
  /\ idx' = [idx EXCEPT !["main"] = 0]
  /\ UNCHANGED <<mode, conn, escBuf, byte, many, txBuf, mutex, nagle, events,
                 flushes, history>>

\* Any other byte after pluses: they become data again, with it at the end.
TypeAfterPluses(b) ==
  /\ HostTypes
  /\ esc > 0 /\ (b = Plus => esc = 3)
  /\ Owe(b)
  /\ byte' = [byte EXCEPT !["main"] = b]
  /\ Goto("main", "mark")
  /\ UNCHANGED <<mode, conn, escape, idx, many, txBuf, mutex, timers, flushes>>

Mark ==
  /\ at["main"] = "mark" /\ Turn("main")
  /\ escBuf' = [escBuf EXCEPT ![esc] = byte["main"]]
  /\ idx' = [idx EXCEPT !["main"] = 0]
  /\ many' = TRUE
  /\ Goto("main", "loop")
  /\ UNCHANGED <<mode, conn, esc, byte, txBuf, mutex, timers, flushes, history>>

TypePlain(b) ==
  /\ HostTypes
  /\ esc = 0 /\ b # Plus
  /\ Owe(b)
  /\ byte' = [byte EXCEPT !["main"] = b]
  /\ Goto("main", "check")
  /\ UNCHANGED <<mode, conn, escape, idx, many, txBuf, mutex, timers, flushes>>

\* Call WXS2w_DataCharProcess from a loop, for its element b.
Fetch(t, b) ==
  /\ byte' = [byte EXCEPT ![t] = b]
  /\ idx' = [idx EXCEPT ![t] = @ + 1]
  /\ Goto(t, "check")
  /\ UNCHANGED <<mode, conn, escape, many, txBuf, mutex, timers, flushes, history>>

\* while (i <= g_auto_esc): g_auto_esc is read in every round
MainLoop ==
  /\ at["main"] = "loop" /\ Turn("main")
  /\ idx["main"] <= esc
  /\ Fetch("main", escBuf[idx["main"]])

\* mutant: g_auto_esc keeps its value
MainLoopEndKeepsCount ==
  /\ at["main"] = "loop" /\ Turn("main")
  /\ idx["main"] > esc
  /\ escBuf' = [escBuf EXCEPT ![esc] = Plus]
  /\ many' = FALSE
  /\ Goto("main", "idle")
  /\ idx' = [idx EXCEPT !["main"] = 0]
  /\ UNCHANGED <<mode, conn, esc, byte, txBuf, mutex, timers, flushes, history>>

MainLoopEnd ==
  /\ at["main"] = "loop" /\ Turn("main")
  /\ idx["main"] > esc
  /\ escBuf' = [escBuf EXCEPT ![esc] = Plus]
  /\ esc' = 0
  /\ many' = FALSE
  /\ Goto("main", "idle")
  /\ idx' = [idx EXCEPT !["main"] = 0]
  /\ UNCHANGED <<mode, conn, byte, txBuf, mutex, timers, flushes, history>>

-----------------------------------------------------------------------------
(* WXS2w_DataCharProcess                                                   *)

\* Where thread t goes on after its call: the queue thread to its next
\* message, the worker and a main thread with pluses to their loops.
Return(t) ==
  Goto(t, IF t = "worker" \/ (t = "main" /\ many) THEN "loop" ELSE "idle")

\* Out of data mode, or without a current scid, the byte is dropped.
Check(t) ==
  /\ at[t] = "check" /\ Turn(t)
  /\ IF mode = "DATA" /\ current THEN Goto(t, "lock") ELSE Return(t)
  /\ UNCHANGED <<mode, conn, escape, byte, idx, many, txBuf, mutex, timers,
                 flushes, history>>

\* mutant: the first byte does not start the timer
StoreLateTimer(t) ==
  /\ at[t] = "lock" /\ mutex = "none" /\ Turn(t)
  /\ txBuf' = Append(txBuf, byte[t])
  /\ IF Len(txBuf') > PktMax
       THEN Goto(t, "flush") /\ mutex' = t /\ UNCHANGED nagle
       ELSE /\ nagle' = (nagle \/ Len(txBuf') % NagleStep = 0)
            /\ Return(t) /\ UNCHANGED mutex
  /\ UNCHANGED <<mode, conn, escape, byte, idx, many, autoesc, events, flushes, history>>

\* With the mutex, the byte is stored.  More than a packet is transmitted at
\* once; otherwise the first byte and every NagleStep-th restart the Nagle
\* timer.
Store(t) ==
  /\ at[t] = "lock" /\ mutex = "none" /\ Turn(t)
  /\ txBuf' = Append(txBuf, byte[t])
  /\ IF Len(txBuf') > PktMax
       THEN Goto(t, "flush") /\ mutex' = t /\ UNCHANGED nagle
       ELSE /\ nagle' = (nagle \/ Len(txBuf') = 1 \/ Len(txBuf') % NagleStep = 0)
            /\ Return(t) /\ UNCHANGED mutex
  /\ UNCHANGED <<mode, conn, escape, byte, idx, many, autoesc, events, flushes, history>>

(***************************************************************************)
(* WXS2w_DataBufferTransmit and the notification of its status, with the   *)
(* mutex held.  WXNetwork_NetTx transmits, or fails (TCPSENDERROR, which   *)
(* may come after a part, or FAILURE for UDP) and the rest is gone, or     *)
(* finds no such scid: EBADCID ends data mode.  The buffer is empty        *)
(* afterwards in each case.  (A slot that listens again takes the bytes    *)
(* without an error, but then data mode has ended already.)                *)
(***************************************************************************)
Transmit ==
  \/ /\ txBuf = <<>>
     /\ UNCHANGED <<mode, history>>
  \/ /\ txBuf # <<>> /\ open /\ current
     /\ owed' = DropFirst(owed, Len(txBuf))
     /\ \E sent \in 0 .. Len(txBuf) : net' = net \o SubSeq(txBuf, 1, sent)
     /\ UNCHANGED mode
  \/ /\ txBuf # <<>> /\ ~(open /\ current)
     /\ mode' = "COMMAND"
     /\ UNCHANGED history

Flush(t) ==
  /\ at[t] = "flush" /\ Turn(t)
  /\ Transmit
  /\ txBuf' = <<>>
  /\ mutex' = "none"
  /\ Return(t)
  /\ UNCHANGED <<conn, escape, byte, idx, many, timers, flushes>>

-----------------------------------------------------------------------------
(* The two timers and the networking worker                                *)

\* Timers are periodic: one that finds the worker's queue full expires again.
Expires(event) ==
  /\ Len(events) < EventLen
  /\ events' = Append(events, event)
  /\ UNCHANGED <<mode, conn, escape, thread, txBuf, mutex, nagle, autoesc, flushes, history>>

NagleExpires == nagle /\ Expires("nagle")
EscExpires == autoesc /\ Expires("esc")

Event(e) == at["worker"] = "idle" /\ events # <<>> /\ Head(events) = e

\* mutant: the message is not sent
NagleStopsOnly ==
  /\ Event("nagle")
  /\ events' = Tail(events)
  /\ nagle' = FALSE
  /\ UNCHANGED <<mode, conn, escape, thread, txBuf, mutex, autoesc, flushes, history>>

\* f_nagle_timer: a 101 message, unless there is no room for it
NagleHandler ==
  /\ Event("nagle")
  /\ events' = Tail(events)
  /\ nagle' = FALSE
  /\ flushes' = IF flushes < FlushLen THEN flushes + 1 ELSE flushes
  /\ UNCHANGED <<mode, conn, escape, thread, txBuf, mutex, autoesc, history>>

\* mutant: two pluses are enough
EscHandlerEscapesEarly ==
  /\ Event("esc") /\ esc >= 2
  /\ Overlap \/ at["main"] = "idle"
  /\ events' = Tail(events)
  /\ autoesc' = FALSE
  /\ mode' = "COMMAND"
  /\ esc' = 0
  /\ owed' = DropLast(owed, 3)
  /\ UNCHANGED <<conn, escBuf, thread, txBuf, mutex, nagle, flushes, net>>

\* f_autoesc_timer after three pluses and silence: command mode.  What is in
\* the buffer stays there for the Nagle timer.
EscHandlerEscapes ==
  /\ Event("esc") /\ esc = 3
  /\ Overlap \/ at["main"] = "idle"
  /\ events' = Tail(events)
  /\ autoesc' = FALSE
  /\ mode' = "COMMAND"
  /\ esc' = 0
  /\ owed' = DropLast(owed, 3)
  /\ UNCHANGED <<conn, escBuf, thread, txBuf, mutex, nagle, flushes, net>>

\* Otherwise the pluses were data.
EscHandlerReturns ==
  /\ Event("esc") /\ esc < 3
  /\ Overlap \/ at["main"] = "idle"
  /\ events' = Tail(events)
  /\ autoesc' = FALSE
  /\ nagle' = TRUE
  /\ idx' = [idx EXCEPT !["worker"] = 0]
  /\ Goto("worker", "loop")
  /\ UNCHANGED <<mode, conn, escape, byte, many, txBuf, mutex, flushes, history>>

WorkerLoop ==
  /\ at["worker"] = "loop"
  /\ idx["worker"] < esc
  /\ Fetch("worker", Plus)

WorkerLoopEnd ==
  /\ at["worker"] = "loop"
  /\ idx["worker"] >= esc
  /\ esc' = 0
  /\ Goto("worker", "idle")
  /\ idx' = [idx EXCEPT !["worker"] = 0]
  /\ UNCHANGED <<mode, conn, escBuf, byte, many, txBuf, mutex, timers, flushes, history>>

\* ProcessWizFiQueue takes message 101.
QueueTake ==
  /\ at["queue"] = "idle" /\ flushes > 0 /\ Turn("queue")
  /\ flushes' = flushes - 1
  /\ Goto("queue", "lock")
  /\ UNCHANGED <<mode, conn, escape, byte, idx, many, txBuf, mutex, timers, history>>

\* mutant: the mutex is not waited for
QueueLockTries ==
  /\ at["queue"] = "lock" /\ Turn("queue")
  /\ mutex' = "queue"
  /\ Goto("queue", "flush")
  /\ UNCHANGED <<mode, conn, escape, byte, idx, many, txBuf, timers, flushes, history>>

QueueLock ==
  /\ at["queue"] = "lock" /\ mutex = "none" /\ Turn("queue")
  /\ mutex' = "queue"
  /\ Goto("queue", "flush")
  /\ UNCHANGED <<mode, conn, escape, byte, idx, many, txBuf, timers, flushes, history>>

-----------------------------------------------------------------------------
(* The connection: its socket thread, and the commands of the main thread  *)

Settled == txBuf = <<>> /\ esc = 0 /\ \A t \in Threads : at[t] = "idle"

\* A socket for data mode is listed; it may never get a connection.
\* g_currentScid may still be that of the connection before.
OpenList ==
  /\ ~open /\ ~closing /\ Turn("socket")
  /\ Reuse \/ Settled
  /\ open' = TRUE /\ opening' = "listed"
  /\ owed' = <<>> /\ net' = <<>>
  /\ UNCHANGED <<mode, current, closing, escaped, escape, thread, txBuf, mutex,
                 timers, flushes>>

OpenFails ==
  /\ opening = "listed" /\ Turn("socket")
  /\ open' = FALSE /\ opening' = "no"
  /\ owed' = <<>>
  /\ UNCHANGED <<mode, current, closing, escaped, escape, thread, txBuf, mutex,
                 timers, flushes, net>>

\* It has a connection: first g_currentScid is written ...
Connect ==
  /\ opening = "listed" /\ Turn("socket")
  /\ Reuse \/ Settled
  /\ current' = TRUE /\ opening' = "named"
  /\ UNCHANGED <<mode, open, closing, escaped, escape, thread, txBuf, mutex,
                 timers, flushes, history>>

\* ... then the mode, whatever happened between.  A TCP server that listens
\* again stays in command mode if the host had escaped to it.
EnterData ==
  /\ opening = "named" /\ Turn("socket")
  /\ opening' = "no"
  /\ mode' \in IF escaped THEN {mode, "DATA"} ELSE {"DATA"}
  /\ UNCHANGED <<current, open, closing, escaped, escape, thread, txBuf, mutex,
                 timers, flushes, history>>

\* The connection ends: its slot is cleared ...
CloseClear ==
  /\ open /\ opening = "no" /\ Turn("socket")
  /\ open' = FALSE /\ closing' = TRUE
  /\ escaped' = (mode = "COMMAND")
  /\ owed' = <<>>
  /\ UNCHANGED <<mode, current, opening, escape, thread, txBuf, mutex, timers,
                 flushes, net>>

\* ... and WXS2w_StatusNotify(ECIDCLOSE) ends data mode and sets g_scTxIndex
\* to 0, without the mutex.
CloseNotify ==
  /\ closing /\ Turn("socket")
  /\ closing' = FALSE
  /\ mode' = "COMMAND"
  /\ txBuf' = <<>>
  /\ UNCHANGED <<current, open, opening, escaped, escape, thread, mutex, timers,
                 flushes, history>>

\* WXLink_Disassociate; the socket thread notices later.
Disassociate ==
  /\ MainIdle
  /\ current' = FALSE
  /\ mode' = "COMMAND"
  /\ txBuf' = <<>>
  /\ owed' = <<>>
  /\ UNCHANGED <<open, opening, closing, escaped, escape, thread, mutex, timers,
                 flushes, net>>

\* AT+SDATA: a data connection (g_isAutoconnected, which is cleared with the
\* slot and written just before g_currentScid) that is the current one
Sdata ==
  /\ MainIdle
  /\ mode = "COMMAND" /\ open /\ opening # "listed" /\ current
  /\ mode' = "DATA"
  /\ UNCHANGED <<conn, escape, thread, txBuf, mutex, timers, flushes, history>>

-----------------------------------------------------------------------------
Host == TypeEscape \/ \E b \in Bytes : TypeAfterPluses(b) \/ TypePlain(b)

Calls(t) == Check(t) \/ Store(t) \/ Flush(t)
MainRuns == Count \/ Mark \/ MainLoop \/ MainLoopEnd \/ Calls("main")
WorkerRuns == NagleHandler \/ EscHandlerEscapes \/ EscHandlerReturns
                \/ WorkerLoop \/ WorkerLoopEnd \/ Calls("worker")
QueueRuns == QueueTake \/ QueueLock \/ Flush("queue")
TimerRuns == NagleExpires \/ EscExpires
Opening == OpenList \/ OpenFails \/ Connect \/ EnterData
Network == Opening \/ CloseClear \/ CloseNotify

Next == Host \/ MainRuns \/ WorkerRuns \/ QueueRuns \/ TimerRuns \/ Network
          \/ Disassociate \/ Sdata

Spec == Init /\ [][Next]_vars

\* No thread is kept from running for ever: sends return, the mutex has a
\* FIFO of waiting threads, and each thread of a higher priority waits again
\* and again.  Running timers expire.  Nothing is assumed of the host or of
\* the network.
Fairness ==
  /\ SF_vars(MainRuns) /\ SF_vars(WorkerRuns) /\ SF_vars(QueueRuns)
  /\ SF_vars(NagleExpires) /\ SF_vars(EscExpires)

FairSpec == Spec /\ Fairness

-----------------------------------------------------------------------------
(* Properties                                                              *)

Labels == {"idle", "count", "mark", "loop", "check", "lock", "flush"}

\* At most three pluses are counted, so that the indices into the array esc
\* are in it; the buffer holds one byte more than a packet, and only until
\* the thread that stored it has transmitted.
TypeOK ==
  /\ mode \in {"COMMAND", "DATA"}
  /\ current \in BOOLEAN /\ open \in BOOLEAN /\ closing \in BOOLEAN /\ escaped \in BOOLEAN
  /\ opening \in {"no", "listed", "named"}
  /\ esc \in 0 .. 3 /\ escBuf \in [0 .. 3 -> Bytes]
  /\ at \in [Threads -> Labels] /\ at["worker"] \notin {"count", "mark"}
  /\ at["queue"] \in {"idle", "lock", "flush"}
  /\ byte \in [Callers -> Bytes] /\ idx \in [Callers -> 0 .. 4] /\ many \in BOOLEAN
  /\ txBuf \in Seq(Bytes) /\ Len(txBuf) <= PktMax + 1
  /\ mutex \in Threads \cup {"none"}
  /\ nagle \in BOOLEAN /\ autoesc \in BOOLEAN
  /\ events \in Seq({"nagle", "esc"}) /\ Len(events) <= EventLen
  /\ flushes \in 0 .. FlushLen
  /\ owed \in Seq(Bytes) /\ net \in Seq(Bytes)

\* Whatever the threads do, buffered bytes have a transmission coming: the
\* Nagle timer runs, or has expired and waits for the worker, or its message
\* is queued, or a thread is about to transmit.  (Only the first byte starts
\* the timer, and the timer stops itself before it sends the message, which
\* a full queue would drop.)
FlushOnTheWay ==
  txBuf # <<>> =>
    \/ nagle
    \/ \E k \in 1 .. Len(events) : events[k] = "nagle"
    \/ flushes > 0
    \/ at["queue"] # "idle"
    \/ \E t \in Callers : at[t] = "flush"

\* Whatever the threads do, pluses that are held back are not forgotten: the
\* escape timer runs, or its handler is giving them back to the data.  (The
\* main thread counts a plus and starts the timer without any lock, the
\* handler stops the timer before it passes the pluses on, and only then is
\* the count reset.)
PlusesWatched == esc # 0 => autoesc \/ at["worker"] # "idle"

\* The mutex is held by the thread that transmits and by no other, so that
\* two threads never transmit the same bytes.
OneTransmits == \A t \in Threads : at[t] = "flush" <=> mutex = t

\* The host's bytes reach the connection in order, once each, except for an
\* escape sequence and the bytes of a failed send.
Stream == INSTANCE ByteStream WITH Bytes <- Bytes, Plus <- Plus,
                                 owed <- owed, net <- net
StreamKept == Stream!Spec

\* Only an escape sequence, a closing connection or a missing scid ends data
\* mode: while the connection stays, the host typed three pluses last.
LeavesOnEscape ==
  [][mode = "DATA" /\ mode' = "COMMAND" /\ open /\ current /\ open' /\ current' =>
       Len(owed) >= 3 /\ \A k \in Len(owed) - 2 .. Len(owed) : owed[k] = Plus]_vars

\* Buffered bytes leave the buffer without any help of the host, also when a
\* full queue dropped a message of the Nagle timer.
BytesLeave == txBuf # <<>> ~> txBuf = <<>>

\* Held-back pluses are passed on or taken for an escape, without any help of
\* the host.
PlusesDecided == esc # 0 ~> esc = 0
=============================================================================
