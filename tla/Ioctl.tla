------------------------------- MODULE Ioctl -------------------------------
(***************************************************************************)
(* IOCTLs to the Wi-Fi chip: wiced_send_ioctl, and the control channel of  *)
(* wiced_process_sdpcm (SDPCM.c).                                          *)
(*                                                                         *)
(* One caller at a time sends a request and waits 400 ms on a semaphore    *)
(* for the reply, which the WICED thread leaves in a global variable.  A   *)
(* caller that gives up counts its reply as one to ignore.  Requests and   *)
(* replies travel in order (Sdpcm): the send queue, the chip, and the      *)
(* frames it has for the host are one channel here.  It loses them when a  *)
(* transfer fails or no receive buffer is free.                            *)
(***************************************************************************)
EXTENDS Naturals, Sequences

CONSTANTS
  Caller,      \* the threads that call wiced_send_ioctl
  MaxInFlight, \* bound: requests and replies in the channel
  MaxAbort     \* bound: replies to ignore when a call starts

ASSUME BoundsAssumption == MaxInFlight \in Nat /\ MaxAbort \in Nat

VARIABLES
  at,          \* where each caller is in wiced_send_ioctl
  inFlight,    \* requests and replies in the channel
  response,    \* the reply that wiced_ioctl_response points to
  sleep,       \* wiced_ioctl_sleep
  abortCount,  \* ioctl_abort_count
  lost,        \* history: the channel has lost something
  raced        \* history: a reply came between a timeout and its count

vars == <<at, inFlight, response, sleep, abortCount, lost, raced>>

(***************************************************************************)
(* A request or reply is "own" if its identifier is requested_ioctl_id,    *)
(* the last one given, and "old" otherwise.  The identifiers have 16 bits  *)
(* and are only compared with the last, so this loses nothing as long as   *)
(* fewer than 65536 are in flight.                                         *)
(***************************************************************************)
Ids == {"own", "old"}
Older(id) == IF id = "own" THEN "old" ELSE id

\* Who is in wiced_send_ioctl holds wiced_sdpcm_ioctl_mutex.
Calling == {c \in Caller : at[c] # "idle"}

\* wiced_init_sdpcm
Init ==
  /\ at = [c \in Caller |-> "idle"]
  /\ inFlight = <<>> /\ response = "none" /\ sleep = 0 /\ abortCount = 0
  /\ lost = FALSE /\ raced = FALSE

\* The mutex is taken, and a request with the next identifier sent.
Start(c) ==
  /\ Calling = {}
  /\ Len(inFlight) < MaxInFlight /\ abortCount <= MaxAbort
  /\ at' = [at EXCEPT ![c] = "wait"]
  /\ inFlight' = Append([i \in DOMAIN inFlight |-> "old"], "own")
  /\ response' = Older(response)
  /\ UNCHANGED <<sleep, abortCount, lost, raced>>

Woken(c) ==
  /\ at[c] = "wait" /\ sleep > 0
  /\ sleep' = sleep - 1
  /\ at' = [at EXCEPT ![c] = "woken"]
  /\ UNCHANGED <<inFlight, response, abortCount, lost, raced>>

\* The reply is the caller's, or that of an earlier call and released.
Read(c) ==
  /\ at[c] = "woken"
  /\ IF response = "own"
       THEN response' = "none" /\ at' = [at EXCEPT ![c] = "idle"]
       ELSE response' = "released" /\ at' = [at EXCEPT ![c] = "wait"]
  /\ UNCHANGED <<inFlight, sleep, abortCount, lost, raced>>

\* mutant: the call is counted here, and once more in Abort
TimeoutCounts(c) ==
  /\ at[c] = "wait" /\ sleep = 0
  /\ at' = [at EXCEPT ![c] = "late"]
  /\ abortCount' = abortCount + 1
  /\ UNCHANGED <<inFlight, response, sleep, lost, raced>>

\* host_rtos_get_semaphore times out; then the call is counted as aborted.
Timeout(c) ==
  /\ at[c] = "wait" /\ sleep = 0
  /\ at' = [at EXCEPT ![c] = "late"]
  /\ UNCHANGED <<inFlight, response, sleep, abortCount, lost, raced>>

\* mutant: the reply to come is not counted
AbortUncounted(c) ==
  /\ at[c] = "late"
  /\ at' = [at EXCEPT ![c] = "idle"]
  /\ UNCHANGED <<inFlight, response, sleep, abortCount, lost, raced>>

Abort(c) ==
  /\ at[c] = "late"
  /\ abortCount' = abortCount + 1
  /\ at' = [at EXCEPT ![c] = "idle"]
  /\ UNCHANGED <<inFlight, response, sleep, lost, raced>>

\* mutant: the count is lowered without a test
IgnoreUntested ==
  /\ abortCount' = abortCount - 1
  /\ UNCHANGED <<response, sleep, raced>>

\* mutant: the count is not lowered
IgnoreForever ==
  /\ abortCount # 0
  /\ UNCHANGED <<response, sleep, raced, abortCount>>

\* The WICED thread takes the reply to the first request.
Ignore ==
  /\ abortCount # 0
  /\ abortCount' = abortCount - 1
  /\ UNCHANGED <<response, sleep, raced>>

Accept ==
  /\ abortCount = 0
  /\ response' = Head(inFlight)
  /\ sleep' = sleep + 1
  /\ raced' = (raced \/ \E c \in Caller : at[c] = "late")
  /\ UNCHANGED abortCount

Reply ==
  /\ inFlight # <<>>
  /\ inFlight' = Tail(inFlight)
  /\ Ignore \/ Accept
  /\ UNCHANGED <<at, lost>>

\* A request or a reply does not get through.
Lose ==
  /\ \E i \in DOMAIN inFlight :
       inFlight' = [j \in 1 .. Len(inFlight) - 1 |->
                      IF j < i THEN inFlight[j] ELSE inFlight[j + 1]]
  /\ lost' = TRUE
  /\ UNCHANGED <<at, response, sleep, abortCount, raced>>

Next ==
  \/ \E c \in Caller :
       Start(c) \/ Woken(c) \/ Read(c) \/ Timeout(c) \/ Abort(c)
  \/ Reply \/ Lose

Spec == Init /\ [][Next]_vars

\* The caller that waits runs again, and the chip answers: "The I/O control
\* will always respond" (SDPCM.c, line 778).  A timeout may come or not.
FairSpec ==
  /\ Spec
  /\ WF_vars(Reply)
  /\ \A c \in Caller : WF_vars(Woken(c) \/ Read(c) \/ Abort(c))

-----------------------------------------------------------------------------
TypeOK ==
  /\ at \in [Caller -> {"idle", "wait", "woken", "late"}]
  /\ inFlight \in Seq(Ids)
  /\ response \in Ids \cup {"none", "released"}
  /\ sleep \in Nat /\ abortCount \in Nat
  /\ lost \in BOOLEAN /\ raced \in BOOLEAN

(***************************************************************************)
(* wiced_send_ioctl uses wiced_ioctl_response after taking the semaphore   *)
(* (lines 857 to 885): the buffer was not released before, and no reply    *)
(* that is still to come can replace it before the caller has read it,     *)
(* whatever was lost or late.                                              *)
(***************************************************************************)
ResponseLive ==
  \A c \in Caller : at[c] = "woken" =>
    /\ response \in Ids
    /\ sleep = 0
    /\ abortCount >= Len(inFlight)

(***************************************************************************)
(* The comment at line 607 of SDPCM.c: "Ignore a reply for each aborted    *)
(* ioctl attempt to ensure wiced_ioctl_sleep semaphore does not get out of *)
(* sync".  So the reply that the waiting caller needs is not ignored.      *)
(* After a lost reply the code does not keep this.                         *)
(***************************************************************************)
OwnReplyKept ==
  [][abortCount' < abortCount /\ Head(inFlight) = "own"
       => \A c \in Caller : at[c] # "wait"]_vars

(***************************************************************************)
(* It holds as long as the channel loses nothing and no reply comes        *)
(* between a timeout and its count.                                        *)
(***************************************************************************)
OwnReplyKeptInStep ==
  [][abortCount' < abortCount /\ Head(inFlight) = "own" /\ ~lost /\ ~raced
       => \A c \in Caller : at[c] # "wait"]_vars

(***************************************************************************)
(* What the comment means by "in sync", under the same conditions: between *)
(* calls the semaphore is down, and as many replies are ignored as are to  *)
(* come; during a call there is exactly one more, in the channel or behind *)
(* the semaphore; and the reply that wakes the caller is its own.          *)
(***************************************************************************)
InSync ==
  ~lost /\ ~raced =>
    /\ Calling = {} => sleep = 0 /\ Len(inFlight) = abortCount
    /\ \A c \in Calling :
         IF at[c] = "woken" THEN response = "own"
                            ELSE Len(inFlight) + sleep = abortCount + 1

(***************************************************************************)
(* Under the same conditions a slow chip does no lasting harm: once calls  *)
(* stop timing out, each call is answered, after any number of aborted     *)
(* ones.                                                                   *)
(***************************************************************************)
CallsAnswered ==
  [](~lost /\ ~raced) /\ <>[](\A c \in Caller : at[c] # "late")
    => \A c \in Caller : at[c] = "wait" ~> at[c] = "idle"
=============================================================================
