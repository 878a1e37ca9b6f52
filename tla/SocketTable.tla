---------------------------- MODULE SocketTable ----------------------------
(***************************************************************************)
(* The socket table of the WizFi250 firmware                               *)
(* (Apps/wizfi_wiced/wizfimain/wx_platform_rtos_socket.c and the commands  *)
(* of wx_commands_s.c and wx_commands_w.c that drive it).                  *)
(*                                                                         *)
(* Every open socket has an identifier, its scid, which indexes g_scList.  *)
(* AT+SCON takes the lowest free scid and creates a thread for it, running *)
(* SocketOpenProcess: the thread creates the socket, lists it in g_scList, *)
(* accepts or connects, receives until an error, clears its slot, and asks *)
(* the thread of ProcessWizFiQueue (the reaper) to delete it.  A TCP       *)
(* server goes back to listening instead, unless its slot is marked.       *)
(* Sockets are closed from two other threads: the main one (AT+SMGMT,      *)
(* AT+WLEAVE) and the networking worker (the link-down callback).          *)
(*                                                                         *)
(* The slots are shared by all these threads without any lock.  Threads    *)
(* are scheduled by fixed priorities without time slices.  A socket thread *)
(* has the lowest one, so that each of its writes that another thread can  *)
(* come between is a step.  Code of the main thread between two blocking   *)
(* calls is one step; only the networking worker preempts it, and where    *)
(* that makes a difference (AT+SDATA), CloseFinish says so.                *)
(***************************************************************************)
EXTENDS Naturals, Sequences, FiniteSets

CONSTANTS
  MaxScid,    \* WX_MAX_SCID_RANGE (8 in the firmware)
  QueueLen,   \* capacity of g_queue_handle_wizfiqueue (20 in the firmware)
  Ports,      \* local ports the host uses
  Requests,   \* the parameters of AT+SCON the host uses
  Option9,    \* socket_ext_option9: one listener plus many connections
  Paced       \* the host opens a socket only when the thread that had its
              \* scid before has been deleted

Scids == 0 .. MaxScid - 1
NoScid == 255                       \* WX_INVALID_SCID
Closers == {"main", "net"}          \* threads that run WXNetwork_CloseSCList

\* What AT+SCON asks for.  A client names a remote port, a server does not;
\* localPort 0 lets the stack choose a port that the host does not use.
RequestType == [conType : {"TCP", "UDP"}, server : BOOLEAN, dataMode : BOOLEAN,
                tlsMode : {"N", "S"}, localPort : Ports \cup {0}]

ASSUME MaxScidAssumption == MaxScid \in 1 .. 255
ASSUME QueueLenAssumption == QueueLen \in Nat \ {0}
ASSUME PortsAssumption == Ports \subseteq Nat \ {0}
ASSUME RequestsAssumption == Requests \subseteq RequestType
ASSUME OptionsAssumption == Option9 \in BOOLEAN /\ Paced \in BOOLEAN

VARIABLES
  scList,     \* g_scList: one slot for each scid
  worker,     \* the thread of each scid, with the locals of SocketOpenProcess
  sock,       \* the socket of that thread: "open", "conn" or unusable
  auto,       \* g_isAutoconnected
  current,    \* g_currentScid
  mode,       \* g_wxModeState
  optTS,      \* g_wxProfile.scon_opt2 starts with "TS"
  lastPort,   \* g_last_TSN_localport
  sending,    \* the scid that a running AT+SSEND named, or NoScid
  closer,     \* progress of the closing threads
  reapQueue,  \* the 111 messages of g_queue_handle_wizfiqueue
  reaper,     \* the scid ProcessWizFiQueue is about to delete, or NoScid
  linked,     \* WXLink_IsWiFiLinked
  corrupted   \* memory of the kernel or of the stack has been overwritten

slots == <<scList, worker, sock>>
modes == <<auto, current, mode>>
cons == <<optTS, lastPort>>
reaping == <<reapQueue, reaper>>
vars == <<scList, worker, sock, auto, current, mode, optTS, lastPort, sending,
          closer, reapQueue, reaper, linked, corrupted>>

-----------------------------------------------------------------------------
(* Slots.  ZeroSlot is what the memset of WXNetwork_ClearSCList leaves.    *)

ZeroSlot == [pSocket |-> FALSE, conType |-> "none", server |-> FALSE,
             dataMode |-> FALSE, tlsMode |-> "none", localPort |-> 0,
             remote |-> FALSE, notRestart |-> FALSE]

\* lines 399-411: the fields the thread fills once its socket exists.  remote
\* says that the slot has a remote port.
ListedSlot(slot, r) ==
  [pSocket |-> TRUE, conType |-> r.conType, server |-> r.server,
   dataMode |-> r.dataMode, tlsMode |-> r.tlsMode, localPort |-> r.localPort,
   remote |-> ~r.server, notRestart |-> slot.notRestart]

Listed(s) == scList[s].pSocket                    \* WXNetwork_NetIsCidOpen
FreeScids == {s \in Scids : ~Listed(s)}
Lowest(S) == {s \in S : \A t \in S : s <= t}     \* empty if S is
ScidGet == Lowest(FreeScids)

IsTcpServer(x) == x.conType = "TCP" /\ x.server

\* "none": control block free; "done": returned but not deleted yet.
Pcs == {"none", "create", "listen", "accept", "connect", "connected", "taken", "named",
        "recv", "clear", "notify", "done"}
Alive(s) == worker[s].pc \notin {"none", "done"}

NoRequest == [conType |-> "none", server |-> FALSE, dataMode |-> FALSE,
              tlsMode |-> "none", localPort |-> 0]
IdleWorker == [pc |-> "none", req |-> NoRequest, restart |-> FALSE,
               cmdWhenDisc |-> FALSE]
IdleCloser == [pc |-> "idle", next |-> 0, all |-> FALSE, then |-> "smgmt"]

MainIdle == closer["main"].pc = "idle" /\ sending = NoScid

Init ==
  /\ scList = [s \in Scids |-> ZeroSlot]
  /\ worker = [s \in Scids |-> IdleWorker]
  /\ sock = [s \in Scids |-> "none"]
  /\ auto = FALSE /\ current = NoScid /\ mode = "COMMAND"
  /\ optTS = FALSE /\ lastPort = 0
  /\ sending = NoScid
  /\ closer = [c \in Closers |-> IdleCloser]
  /\ reapQueue = <<>> /\ reaper = NoScid
  /\ linked = FALSE
  /\ corrupted = FALSE

-----------------------------------------------------------------------------
(* AT+SCON.  The main thread runs it for the serial line, for air commands *)
(* (so in data mode too), for the stored connection after a link-up, and   *)
(* for option 9.                                                           *)

\* lines 203-217: a secure socket needs an empty table, any other socket a
\* table without a secure one.  The slots' tlsMode is read, not pSocket.
TlsAllowed(r) ==
  IF r.tlsMode = "S" THEN \A s \in Scids : scList[s].tlsMode = "none"
                     ELSE \A s \in Scids : scList[s].tlsMode # "S"

\* mutant: only another data-mode socket is in the way
DataAllowedBesideOthers(r) == r.dataMode => \A s \in Scids : ~scList[s].dataMode

\* lines 186-195: a data-mode socket needs an empty table.
DataAllowed(r) == r.dataMode => FreeScids = Scids

\* WXCmd_SCON's checks for a request that opens (<OpenType> has an O).
SconAllowed(r) == ~auto /\ linked /\ DataAllowed(r) /\ TlsAllowed(r)

(***************************************************************************)
(* LaunchSocketOpen creates the thread in g_socketopen_thread[s].  Nothing *)
(* checks that this control block is free.  The block of a thread that     *)
(* returned but is not deleted yet is linked into the kernel's list once   *)
(* more; creating over a live thread loses that thread's state.  Creation  *)
(* can also fail for lack of memory, which SCON does not report.           *)
(***************************************************************************)
Launch(s, r) ==
  \/ /\ ~Alive(s)
     /\ worker' = [worker EXCEPT ![s] = [IdleWorker EXCEPT !.pc = "create", !.req = r]]
     /\ sock' = [sock EXCEPT ![s] = "none"]
     /\ corrupted' \in IF worker[s].pc = "done" THEN BOOLEAN ELSE {FALSE}
  \/ /\ ~Alive(s)
     /\ UNCHANGED <<worker, sock, corrupted>>
  \/ /\ Alive(s)
     /\ corrupted' = TRUE
     /\ UNCHANGED <<worker, sock>>

Scon(r) ==
  /\ MainIdle
  /\ SconAllowed(r)
  /\ optTS' = IsTcpServer(r)
  /\ lastPort' = IF IsTcpServer(r) THEN r.localPort ELSE lastPort
  /\ \E s \in ScidGet : Launch(s, r)
  /\ UNCHANGED <<scList, modes, sending, closer, reaping, linked>>

\* Paced is about the host, so it does not bind the firmware's own SCON.
HostScon(r) ==
  /\ Paced => \A s \in ScidGet : worker[s].pc = "none"
  /\ Scon(r)

\* lines 172-179: the profile keeps the request, whether or not it is opened
SconStore(r) ==
  /\ MainIdle /\ ~auto
  /\ optTS' = IsTcpServer(r)
  /\ UNCHANGED <<slots, modes, lastPort, sending, closer, reaping, linked, corrupted>>

\* check_tcp_idle_time, option 9: listen again when no slot is listening on
\* the last server port.
Relisten ==
  LET r == [conType |-> "TCP", server |-> TRUE, dataMode |-> FALSE,
            tlsMode |-> "N", localPort |-> lastPort]
  IN /\ Option9
     /\ lastPort # 0
     /\ \A s \in Scids : scList[s].localPort = lastPort => scList[s].remote
     /\ Scon(r)

-----------------------------------------------------------------------------
(* SocketOpenProcess, the thread of one scid                               *)

Goto(s, pc) == worker' = [worker EXCEPT ![s].pc = pc]

\* lines 343-411: the name lookup, the creation of the socket and its listing
WorkerCreate(s) ==
  LET r == worker[s].req IN
  /\ worker[s].pc = "create"
  /\ r.conType = "UDP" => linked
  /\ scList' = [scList EXCEPT ![s] = ListedSlot(scList[s], r)]
  /\ sock' = [sock EXCEPT ![s] = IF r.conType = "TCP" THEN "open" ELSE "conn"]
  /\ Goto(s, IF r.conType = "UDP" THEN "connected"
             ELSE IF r.server THEN "listen" ELSE "connect")
  /\ UNCHANGED <<modes, cons, sending, closer, reaping, linked, corrupted>>

\* mutant: the queue is taken for full one message too early
ExitOffByOne(s) ==
  /\ worker' = [worker EXCEPT ![s].pc = "done", ![s].restart = FALSE]
  /\ reapQueue' = IF Len(reapQueue) + 1 < QueueLen THEN Append(reapQueue, s) ELSE reapQueue

\* ClearSocketOpenThread and the return: a full queue loses the message
Exit(s) ==
  /\ worker' = [worker EXCEPT ![s].pc = "done", ![s].restart = FALSE]
  /\ reapQueue' = IF Len(reapQueue) < QueueLen THEN Append(reapQueue, s) ELSE reapQueue

\* lines 380-397: creation fails.  A UDP slot has got its local port from the
\* uninitialised socket by then, and ClearSCList does nothing on a slot
\* without pSocket.
WorkerCreateFails(s) ==
  /\ worker[s].pc = "create"
  /\ IF worker[s].req.conType = "UDP"
       THEN \E p \in Ports \cup {0} : scList' = [scList EXCEPT ![s].localPort = p]
       ELSE UNCHANGED scList
  /\ Exit(s)
  /\ UNCHANGED <<sock, modes, cons, sending, closer, reaper, linked, corrupted>>

\* line 433; a failure is a case of WorkerOpenFails
WorkerListen(s) ==
  /\ worker[s].pc = "listen"
  /\ sock[s] = "open" /\ linked
  /\ Goto(s, "accept")
  /\ UNCHANGED <<scList, sock, modes, cons, sending, closer, reaping, linked, corrupted>>

\* lines 469-504: a client is accepted; its port becomes the remote port
WorkerAccept(s) ==
  /\ worker[s].pc = "accept"
  /\ sock[s] = "open" /\ linked
  /\ sock' = [sock EXCEPT ![s] = "conn"]
  /\ scList' = [scList EXCEPT ![s].remote = TRUE]
  /\ Goto(s, "connected")
  /\ UNCHANGED <<modes, cons, sending, closer, reaping, linked, corrupted>>

WorkerConnect(s) ==
  /\ worker[s].pc = "connect"
  /\ sock[s] = "open" /\ linked
  /\ sock' = [sock EXCEPT ![s] = "conn"]
  /\ Goto(s, "connected")
  /\ UNCHANGED <<scList, modes, cons, sending, closer, reaping, linked, corrupted>>

\* mutant: the error path calls ClearSocketOpenThread as well
WorkerOpenFailsReports(s) ==
  /\ worker[s].pc \in {"listen", "accept", "connect"}
  /\ sock[s] # "open" \/ ~linked
  /\ sock' = [sock EXCEPT ![s] = "none"]
  /\ Goto(s, "clear")
  /\ reapQueue' = IF Len(reapQueue) < QueueLen THEN Append(reapQueue, s) ELSE reapQueue
  /\ UNCHANGED <<scList, modes, cons, sending, closer, reaper, linked, corrupted>>

\* Listening, accepting and connecting have the same error path: delete the
\* socket, clear the slot, exit.  Listening and connecting can fail at any
\* time.  An accept without a result in time is tried again, so that it fails
\* only on a socket that is no longer listening, without link, or in the TLS
\* handshake.
WorkerOpenFails(s) ==
  /\ worker[s].pc \in {"listen", "accept", "connect"}
  /\ worker[s].pc = "accept" =>
       sock[s] # "open" \/ ~linked \/ worker[s].req.tlsMode = "S"
  /\ sock' = [sock EXCEPT ![s] = "none"]
  /\ Goto(s, "clear")
  /\ UNCHANGED <<scList, modes, cons, sending, closer, reaping, linked, corrupted>>

\* mutant: any socket that connects becomes the current one
WorkerConnectedTakesLine(s) ==
  LET data == worker[s].req.dataMode IN
  /\ worker[s].pc = "connected"
  /\ current' = s
  /\ auto' = (auto \/ data)
  /\ Goto(s, IF data THEN "taken" ELSE "recv")
  /\ UNCHANGED <<scList, sock, mode, cons, sending, closer, reaping, linked, corrupted>>

(***************************************************************************)
(* Lines 572-583 and 662-673, then the [CONNECT] notification: a data-mode *)
(* socket takes over the serial line, in three writes without a lock.      *)
(***************************************************************************)
WorkerConnected(s) ==
  LET data == worker[s].req.dataMode IN
  /\ worker[s].pc = "connected"
  /\ auto' = (auto \/ data)
  /\ Goto(s, IF data THEN "taken" ELSE "recv")
  /\ UNCHANGED <<scList, sock, current, mode, cons, sending, closer, reaping, linked,
                 corrupted>>

\* If the user had escaped from data mode, the thread leaves the mode alone.
WorkerTakesScid(s) ==
  /\ worker[s].pc = "taken"
  /\ current' = s
  /\ Goto(s, IF worker[s].cmdWhenDisc THEN "recv" ELSE "named")
  /\ UNCHANGED <<scList, sock, auto, mode, cons, sending, closer, reaping, linked, corrupted>>

WorkerEntersData(s) ==
  /\ worker[s].pc = "named"
  /\ mode' = "DATA"
  /\ Goto(s, "recv")
  /\ UNCHANGED <<scList, sock, auto, current, cons, sending, closer, reaping, linked,
                 corrupted>>

\* A UDP server takes the port of the last sender as its remote port.
UdpReceive(s) ==
  /\ worker[s].pc = "recv" /\ sock[s] = "conn" /\ linked
  /\ worker[s].req.conType = "UDP" /\ worker[s].req.server
  /\ scList' = [scList EXCEPT ![s].remote = TRUE]
  /\ UNCHANGED <<worker, sock, modes, cons, sending, closer, reaping, linked, corrupted>>

\* mutant: the slot is zeroed before the disconnect
WorkerReceiveErrorZeroes(s) ==
  /\ worker[s].pc = "recv" /\ (sock[s] = "none" \/ ~linked)
  /\ Goto(s, "clear")
  /\ scList' = [scList EXCEPT ![s] = ZeroSlot]
  /\ sock' = [sock EXCEPT ![s] = "none"]
  /\ UNCHANGED <<modes, cons, sending, closer, reaping, linked, corrupted>>

\* lines 598-640: receiving ends with an error, of the socket or for lack of a
\* link; a TCP thread decides from its slot whether to listen again, remembers
\* whether the user had escaped to command mode, disconnects, which blocks,
\* and deletes the socket.
WorkerReceiveError(s) ==
  LET r == worker[s].req IN
  /\ worker[s].pc = "recv" /\ (sock[s] = "none" \/ ~linked)
  /\ worker' = [worker EXCEPT
       ![s].pc = "clear",
       ![s].restart = IsTcpServer(r) /\ ~scList[s].notRestart,
       ![s].cmdWhenDisc = IF r.conType = "TCP" THEN mode = "COMMAND" ELSE @]
  /\ sock' = [sock EXCEPT ![s] = "none"]
  /\ UNCHANGED <<scList, modes, cons, sending, closer, reaping, linked, corrupted>>

\* mutant: the mark of AT+SMGMT survives
WorkerClearKeepsMark(s) ==
  /\ worker[s].pc = "clear"
  /\ auto' = (auto /\ ~scList[s].dataMode)
  /\ scList' = [scList EXCEPT ![s] = [ZeroSlot EXCEPT !.notRestart = scList[s].notRestart]]
  /\ Goto(s, "notify")
  /\ UNCHANGED <<sock, current, mode, cons, sending, closer, reaping, linked, corrupted>>

\* WXNetwork_ClearSCList and the start of WXS2w_StatusNotify(ECIDCLOSE)
WorkerClear(s) ==
  /\ worker[s].pc = "clear"
  /\ IF Listed(s)
       THEN /\ auto' = IF scList[s].dataMode THEN FALSE ELSE auto
            /\ scList' = [scList EXCEPT ![s] = ZeroSlot]
            /\ current' = IF auto' /\ current = s THEN NoScid ELSE current
       ELSE UNCHANGED <<auto, scList, current>>
  /\ Goto(s, "notify")
  /\ UNCHANGED <<sock, mode, cons, sending, closer, reaping, linked, corrupted>>

\* mutant: the announcement leaves the mode alone
AnnouncedKeepsMode == UNCHANGED mode

\* The end of WXS2w_StatusNotify(ECIDCLOSE), after the message is printed
AnnouncedMode == mode' = IF auto THEN mode ELSE "COMMAND"

\* The end is announced; lines 711-731: the thread listens again or exits.
WorkerNotify(s) ==
  LET w == worker[s]
      marked == w.restart /\ scList[s].notRestart          \* line 715
  IN /\ w.pc = "notify"
     /\ AnnouncedMode
     /\ scList' = [scList EXCEPT ![s].notRestart = @ /\ ~marked]
     /\ IF w.restart /\ ~marked /\ ~Option9
          THEN /\ worker' = [worker EXCEPT ![s].pc = "create", ![s].restart = FALSE]
               /\ UNCHANGED reapQueue
          ELSE Exit(s)
     /\ UNCHANGED <<sock, auto, current, cons, sending, closer, reaper, linked, corrupted>>

\* every step of the thread that does not wait for a peer
WorkerRuns(s) ==
  \/ WorkerCreate(s) \/ WorkerCreateFails(s) \/ WorkerListen(s) \/ WorkerOpenFails(s)
  \/ WorkerConnected(s) \/ WorkerTakesScid(s) \/ WorkerEntersData(s)
  \/ WorkerReceiveError(s) \/ WorkerClear(s) \/ WorkerNotify(s)

WorkerStep(s) ==
  WorkerRuns(s) \/ WorkerAccept(s) \/ WorkerConnect(s) \/ UdpReceive(s)

-----------------------------------------------------------------------------
(* ProcessWizFiQueue, message 111                                          *)

ReaperTake ==
  /\ reaper = NoScid /\ reapQueue # <<>>
  /\ reaper' = Head(reapQueue)
  /\ reapQueue' = Tail(reapQueue)
  /\ UNCHANGED <<slots, modes, cons, sending, closer, linked, corrupted>>

\* The thread in the scid's control block, whichever it is by now, is
\* terminated and deleted, 10 ms after the message was taken.  Deleting a
\* control block twice unlinks it twice from the kernel's list.
ReaperKill ==
  /\ reaper # NoScid
  /\ worker' = [worker EXCEPT ![reaper] = IdleWorker]
  /\ sock' = [sock EXCEPT ![reaper] = "none"]
  /\ corrupted' \in IF worker[reaper].pc = "none" THEN BOOLEAN ELSE {FALSE}
  /\ reaper' = NoScid
  /\ UNCHANGED <<scList, modes, cons, sending, closer, reapQueue, linked>>

-----------------------------------------------------------------------------
(* Closing from another thread                                             *)

StartClosing(c, s, all, then) ==
  closer' = [closer EXCEPT ![c] = [pc |-> "scan", next |-> s, all |-> all, then |-> then]]

\* AT+SMGMT marks the servers it closes: they must not listen again.
MarkServers(S) ==
  scList' = [s \in Scids |-> IF s \in S /\ Listed(s) /\ IsTcpServer(scList[s])
                               THEN [scList[s] EXCEPT !.notRestart = TRUE]
                               ELSE scList[s]]

SmgmtAll ==
  /\ MainIdle
  /\ MarkServers(Scids)
  /\ StartClosing("main", 0, TRUE, "smgmt")
  /\ UNCHANGED <<worker, sock, modes, cons, sending, reaping, linked, corrupted>>

Smgmt(s) ==
  /\ MainIdle
  /\ Listed(s)
  /\ MarkServers({s})
  /\ StartClosing("main", s, FALSE, "smgmt")
  /\ UNCHANGED <<worker, sock, modes, cons, sending, reaping, linked, corrupted>>

\* AT+WLEAVE of a joined module: WXLink_Disassociate(1, 1, interface)
Wleave ==
  /\ MainIdle /\ linked
  /\ StartClosing("main", 0, TRUE, "leave")
  /\ UNCHANGED <<slots, modes, cons, sending, reaping, linked, corrupted>>

\* wifi_link_down_callback, on the networking worker
LinkDown ==
  /\ closer["net"].pc = "idle" /\ linked
  /\ linked' = FALSE
  /\ StartClosing("net", 0, TRUE, "disassoc")
  /\ UNCHANGED <<slots, modes, cons, sending, reaping, corrupted>>

LinkUp ==
  /\ closer["net"].pc = "idle" /\ ~linked
  /\ linked' = TRUE
  /\ UNCHANGED <<slots, modes, cons, sending, closer, reaping, corrupted>>

\* the scids that CloseSCAllList still finds open, or the one of CloseSCList
ToClose(c) == {s \in Scids : /\ Listed(s) /\ closer[c].next <= s
                             /\ closer[c].all \/ s = closer[c].next}

\* mutant: the loop skips a scid
CloserSkips(c, s) ==
  closer' = [closer EXCEPT ![c] = IF @.all THEN [@ EXCEPT !.pc = "scan", !.next = s + 2]
                                           ELSE IdleCloser]

CloserNext(c, s) ==
  closer' = [closer EXCEPT ![c] = IF @.all THEN [@ EXCEPT !.pc = "scan", !.next = s + 1]
                                           ELSE IdleCloser]

\* A slot whose thread was deleted points into freed memory.
Dangling(s) == Listed(s) /\ ~Alive(s)

\* WXNetwork_CloseSCList, first part: TCP sockets are disconnected, which
\* blocks and does nothing without link; UDP sockets are deleted at once.
CloseDisconnect(c) ==
  /\ closer[c].pc = "scan"
  /\ \E s \in Lowest(ToClose(c)) :
       LET tcp == scList[s].conType = "TCP" IN
         /\ IF tcp THEN closer' = [closer EXCEPT ![c].pc = "delete", ![c].next = s]
                   ELSE CloserNext(c, s)
         /\ sock' = IF tcp /\ ~linked THEN sock ELSE [sock EXCEPT ![s] = "none"]
         /\ corrupted' \in IF Dangling(s) THEN BOOLEAN ELSE {FALSE}
  /\ UNCHANGED <<scList, worker, modes, cons, sending, reaping, linked>>

\* mutant: deleting does nothing without link, as disconnecting does
CloseDeleteNeedsLink(c) ==
  /\ closer[c].pc = "delete"
  /\ sock' = IF Listed(closer[c].next) /\ linked THEN [sock EXCEPT ![closer[c].next] = "none"]
                                                 ELSE sock
  /\ CloserNext(c, closer[c].next)
  /\ UNCHANGED <<scList, worker, modes, cons, sending, reaping, linked, corrupted>>

\* Second part: wiced_tcp_delete_socket on pSocket, read again after the
\* disconnect: its thread may have cleared it to zero in the meantime.
CloseDelete(c) ==
  LET s == closer[c].next IN
  /\ closer[c].pc = "delete"
  /\ sock' = IF Listed(s) THEN [sock EXCEPT ![s] = "none"] ELSE sock
  /\ corrupted' \in IF ~Listed(s) \/ Dangling(s) THEN BOOLEAN ELSE {FALSE}
  /\ CloserNext(c, s)
  /\ UNCHANGED <<scList, worker, modes, cons, sending, reaping, linked>>

ScidOpen(s) == s \in Scids /\ Listed(s)

\* AT+SDATA's checks
SdataAllowed == MainIdle /\ auto /\ (ScidOpen(current) \/ optTS)

\* The loop ends; WXLink_Disassociate then leaves data mode, and for AT+WLEAVE
\* takes the network down: the stack refuses to delete an IP instance that
\* has sockets, and its memory is zeroed all the same (wiced_ip_down).  The
\* networking worker may do this while the main thread is between the checks
\* of AT+SDATA and its write, which then comes last.
CloseFinish(c) ==
  LET leave == closer[c].then = "leave" IN
  /\ closer[c].pc = "scan" /\ ToClose(c) = {}
  /\ closer' = [closer EXCEPT ![c] = IdleCloser]
  /\ IF closer[c].then = "smgmt" THEN UNCHANGED modes
       ELSE /\ auto' = FALSE /\ current' = NoScid
            /\ mode' \in {"COMMAND"} \cup IF SdataAllowed THEN {"DATA"} ELSE {}
  /\ linked' = (linked /\ ~leave)
  /\ corrupted' \in IF leave /\ \E s \in Scids : sock[s] # "none" THEN BOOLEAN ELSE {FALSE}
  /\ UNCHANGED <<slots, cons, sending, reaping>>

\* check_tcp_idle_time, option 5: the main thread disconnects a socket that
\* has been idle, and waits for the end of the connection.
IdleDisconnect(s) ==
  /\ MainIdle
  /\ Listed(s) /\ scList[s].conType = "TCP" /\ scList[s].remote
  /\ linked
  /\ sock' = [sock EXCEPT ![s] = "none"]
  /\ closer' = [closer EXCEPT !["main"].pc = "disconnect", !["main"].next = s]
  /\ corrupted' \in IF Dangling(s) THEN BOOLEAN ELSE {FALSE}
  /\ UNCHANGED <<scList, worker, modes, cons, sending, reaping, linked>>

\* The socket is on the stack of its thread, which may be deleted meanwhile.
\* (No new one is created: only the main thread does that.)
IdleReturn(c) ==
  /\ closer[c].pc = "disconnect"
  /\ closer' = [closer EXCEPT ![c] = IdleCloser]
  /\ corrupted' \in IF worker[closer[c].next].pc = "none" THEN BOOLEAN ELSE {FALSE}
  /\ UNCHANGED <<slots, modes, cons, sending, reaping, linked>>

CloserStep(c) ==
  CloseDisconnect(c) \/ CloseDelete(c) \/ CloseFinish(c) \/ IdleReturn(c)

-----------------------------------------------------------------------------
(* Data and command mode                                                   *)

\* "+++" followed by silence: f_autoesc_timer
Escape ==
  /\ mode = "DATA"
  /\ mode' = "COMMAND"
  /\ UNCHANGED <<slots, auto, current, cons, sending, closer, reaping, linked, corrupted>>

\* AT+SDATA
Sdata ==
  /\ SdataAllowed
  /\ mode' = "DATA"
  /\ UNCHANGED <<slots, auto, current, cons, sending, closer, reaping, linked, corrupted>>

\* Serial data for a scid that is not open: WXNetwork_NetTx answers EBADCID,
\* and WXS2w_StatusNotify(EBADCID) leaves data mode.  Without a current scid
\* the data is dropped before.
TransmitBadCid ==
  /\ mode = "DATA" /\ current # NoScid /\ ~ScidOpen(current)
  /\ mode' = "COMMAND"
  /\ UNCHANGED <<slots, auto, current, cons, sending, closer, reaping, linked, corrupted>>

\* AT+SSEND makes the scid it names the current one, waits for the host's
\* data, and transmits it to whichever scid is current then.  The port it may
\* give of a UDP socket stays in the slot.
SsendStart(s) ==
  /\ MainIdle
  /\ Listed(s)
  /\ scList[s].remote \/ scList[s].conType = "UDP"
  /\ scList' = [scList EXCEPT ![s].remote = TRUE]
  /\ current' = s
  /\ sending' = s
  /\ UNCHANGED <<worker, sock, auto, mode, cons, closer, reaping, linked, corrupted>>

SsendEnd ==
  /\ sending # NoScid
  /\ sending' = NoScid
  /\ mode' \in IF ScidOpen(current) THEN {mode} ELSE {mode, "COMMAND"}
  /\ UNCHANGED <<slots, auto, current, cons, closer, reaping, linked, corrupted>>

PeerCloses(s) ==
  /\ sock[s] = "conn" /\ worker[s].req.conType = "TCP"
  /\ sock' = [sock EXCEPT ![s] = "none"]
  /\ UNCHANGED <<scList, worker, modes, cons, sending, closer, reaping, linked, corrupted>>

\* A corrupted module faults or hangs, and the watchdog resets it.
Reset ==
  /\ corrupted
  /\ scList' = [s \in Scids |-> ZeroSlot]
  /\ worker' = [s \in Scids |-> IdleWorker]
  /\ sock' = [s \in Scids |-> "none"]
  /\ auto' = FALSE /\ current' = NoScid /\ mode' = "COMMAND"
  /\ optTS' = FALSE /\ lastPort' = 0
  /\ sending' = NoScid
  /\ closer' = [c \in Closers |-> IdleCloser]
  /\ reapQueue' = <<>> /\ reaper' = NoScid
  /\ linked' = FALSE
  /\ corrupted' = FALSE

-----------------------------------------------------------------------------
Command ==
  \/ \E r \in Requests : SconStore(r) \/ HostScon(r)
  \/ Relisten
  \/ SmgmtAll \/ Wleave \/ Sdata
  \/ \E s \in Scids : Smgmt(s) \/ SsendStart(s) \/ IdleDisconnect(s)
  \/ SsendEnd

Environment ==
  LinkDown \/ LinkUp \/ Escape \/ TransmitBadCid \/ \E s \in Scids : PeerCloses(s)

Running ==
  \/ Command \/ Environment
  \/ \E s \in Scids : WorkerStep(s)
  \/ \E c \in Closers : CloserStep(c)
  \/ ReaperTake \/ ReaperKill

Next == Reset \/ (~corrupted /\ Running)

Spec == Init /\ [][Next]_vars

\* Threads that can run do: priorities are fixed, but every thread of a
\* higher priority than the socket threads blocks in its loop.
Fairness ==
  /\ \A s \in Scids : WF_vars(~corrupted /\ WorkerRuns(s))
  /\ \A c \in Closers : WF_vars(~corrupted /\ CloserStep(c))
  /\ WF_vars(~corrupted /\ (ReaperTake \/ ReaperKill))
  /\ WF_vars(Reset)

FairSpec == Spec /\ Fairness

-----------------------------------------------------------------------------
(* Properties                                                              *)

SlotType == [pSocket : BOOLEAN, conType : {"none", "TCP", "UDP"}, server : BOOLEAN,
             dataMode : BOOLEAN, tlsMode : {"none", "N", "S"},
             localPort : Nat, remote : BOOLEAN, notRestart : BOOLEAN]
WorkerType == [pc : Pcs, req : RequestType \cup {NoRequest}, restart : BOOLEAN,
               cmdWhenDisc : BOOLEAN]
CloserType == [pc : {"idle", "scan", "delete", "disconnect"}, next : 0 .. MaxScid,
               all : BOOLEAN, then : {"smgmt", "leave", "disassoc"}]

\* The types of the variables.
TypeOK ==
  /\ scList \in [Scids -> SlotType]
  /\ worker \in [Scids -> WorkerType]
  /\ sock \in [Scids -> {"none", "open", "conn"}]
  /\ auto \in BOOLEAN /\ current \in Scids \cup {NoScid} /\ mode \in {"COMMAND", "DATA"}
  /\ optTS \in BOOLEAN /\ lastPort \in Ports \cup {0}
  /\ sending \in Scids \cup {NoScid}
  /\ closer \in [Closers -> CloserType]
  /\ \A c \in Closers :
       closer[c].pc \in {"delete", "disconnect"} => closer[c].next \in Scids
  /\ reapQueue \in Seq(Scids) /\ Len(reapQueue) <= QueueLen
  /\ reaper \in Scids \cup {NoScid}
  /\ linked \in BOOLEAN /\ corrupted \in BOOLEAN

\* A socket thread's slot is listed, with the parameters the thread was
\* launched with, for as long as its socket exists: the closing threads, which
\* find sockets only through their slots, close this socket and no other.
ListedWhileOpen ==
  \A s \in Scids :
    worker[s].pc \notin {"none", "create", "notify", "done"} =>
      /\ Listed(s)
      /\ scList[s].conType = worker[s].req.conType
      /\ scList[s].server = worker[s].req.server
      /\ scList[s].dataMode = worker[s].req.dataMode

\* At most one socket is in data mode, and its scid is 0.  The serial line's
\* state (g_isAutoconnected, g_currentScid, g_wxModeState) is kept once and
\* not per socket; WXCmd_SCON's test at lines 186-195 must ensure this.
DataSocketIsFirst ==
  \A s \in Scids :
    scList[s].dataMode \/ (Alive(s) /\ worker[s].req.dataMode) => s = 0

\* g_isAutoconnected is set only while a data-mode socket is listed: AT+SCON,
\* which refuses to work when it is set, is never refused for a dead socket.
AutoBacked == auto => Listed(0) /\ scList[0].dataMode

\* The test for a mark at lines 713-720 of SocketOpenProcess, meant to stop a
\* server that AT+SMGMT closes, never finds one: a mark that comes too late
\* for line 632 is erased with the slot at line 641.
LateMarkNeverSeen ==
  \A s \in Scids : worker[s].pc = "notify" => ~scList[s].notRestart

\* If the host waits for deletions: the module is in data mode only while the
\* thread of the data-mode socket is between its connection and the
\* announcement of its end, which leaves data mode again.  (g_isAutoconnected
\* need not be set: the end of a link-down callback or of AT+WLEAVE may come
\* between the thread's write of it and that of the mode.)
DataPcs == {"taken", "named", "recv", "clear", "notify"}
ModeBacked == mode = "DATA" => worker[0].req.dataMode /\ worker[0].pc \in DataPcs

\* If the host waits for deletions: a listed slot has a live thread, so that
\* pSocket, which points into the thread's stack, can be used.
NoDangling == \A s \in Scids : ~Dangling(s)

\* If the host waits for deletions: the thread that message 111 has deleted
\* has returned ("Deletes a terminated thread", include/wiced_rtos.h:89).
DeletesTerminated == reaper # NoScid => worker[reaper].pc = "done"

\* If the host waits for deletions, and the queue has room for a message of
\* each scid: a thread that returned is queued for deletion or with the
\* reaper.  ClearSocketOpenThread pushes its message without waiting, and
\* nothing else would ever free the control block.
ReturnedIsQueued ==
  \A s \in Scids : worker[s].pc = "done" =>
    reaper = s \/ \E i \in DOMAIN reapQueue : reapQueue[i] = s

\* A server that AT+SMGMT has marked is closing: its socket is gone, so that
\* its thread will find an error, or the main thread's loop is still to come
\* to it; so the mark, which only a thread with an error reads and erases,
\* never stays on a socket that goes on.
MarkedIsClosing ==
  \A s \in Scids : scList[s].notRestart =>
    \/ sock[s] = "none"
    \/ LET main == closer["main"]
       IN main.pc \in {"scan", "delete"} /\ main.next <= s /\ (main.all \/ main.next = s)

\* What AT+SSEND transmits goes to the socket the command names, or, when
\* g_currentScid was overwritten while it waited for the data, to the
\* data-mode socket or nowhere; never to another command-mode socket.
SsendMissesToData ==
  sending # NoScid => current \in {sending, 0, NoScid}

\* A server that AT+SMGMT closed does not listen again ("if Socket Close by
\* AT Command, don't restart <TCP Server>", wx_commands_s.c:303): a thread
\* that clears a marked slot has not decided to go on.
CommandCloseIsFinal ==
  [][\A s \in Scids :
       worker[s].pc = "clear" /\ worker'[s].pc = "notify" /\ scList[s].notRestart
         => ~worker'[s].restart]_vars

\* The data of AT+SSEND goes to the socket the command names ("+SSEND=", "Send
\* Data", "=<SocketID>,...", wx_s2w_process.c:145).  The code does not keep
\* this: a data-mode socket that connects meanwhile takes g_currentScid.
SsendReachesItsSocket == sending # NoScid => current = sending

\* A thread that returned is deleted in the end: its message is not lost.
ThreadDeleted == \A s \in Scids : worker[s].pc = "done" ~> worker[s].pc = "none"

\* AT+SMGMT of a server frees its scid in the end, with or without a link and
\* whatever the thread was doing.
MarkedIsFreed == \A s \in Scids : scList[s].notRestart ~> ~Listed(s)

=============================================================================
