------------------------------- MODULE Sdpcm -------------------------------
(***************************************************************************)
(* The frames between host and Wi-Fi chip: SDPCM.c (send queue, sequence   *)
(* numbers, credits), wwd_thread.c (the WICED thread) and the SDIO bus's   *)
(* wiced_read_frame.                                                       *)
(*                                                                         *)
(* Any thread may queue a frame.  The WICED thread alone moves frames: it  *)
(* reads what the chip has when an interrupt says so, then sends the queue *)
(* as far as the chip's credits and flow control allow it, then sleeps on  *)
(* a semaphore that interrupts and senders raise.  Transfers fail, and     *)
(* receive buffers run out.  What a frame carries is left out; Ioctl       *)
(* models the control frames.                                              *)
(***************************************************************************)
EXTENDS Naturals, Sequences

CONSTANTS
  SeqMod,      \* sequence numbers and credits are modulo SeqMod (256)
  MaxDiff,     \* CHIP_MAX_BUS_DATA_CREDIT_DIFF (7)
  Window,      \* transmit buffers of the chip
  QueueLen,    \* bound: frames in the send queue (packet pool)
  HostLen,     \* bound: frames the chip holds for the host
  MaxWake,     \* bound: count of the semaphore when a frame is queued
  MaxFaults    \* bound: transfers that fail, buffers that are missing

ASSUME WindowAssumption ==
  /\ SeqMod \in Nat /\ MaxDiff \in Nat /\ Window \in Nat \ {0}
  /\ Window <= MaxDiff
  /\ MaxDiff < SeqMod
ASSUME BoundsAssumption ==
  /\ QueueLen \in Nat /\ HostLen \in Nat /\ MaxWake \in Nat
  /\ MaxFaults \in Nat

VARIABLES
  queued,      \* length of wiced_sdpcm_send_queue
  seq,         \* sdpcm_packet_transmit_sequence_number
  credit,      \* last_bus_data_credit
  flow,        \* wiced_bus_flow_controlled
  thread,      \* where the WICED thread is
  interrupt,   \* wiced_bus_interrupt
  wake,        \* wiced_transceive_semaphore
  chipSeq,     \* the chip: the number after the last frame it received,
  chipFree,    \*   its free transmit buffers,
  toHost,      \*   the frames that the host has not read,
  intStatus,   \*   FRAME_AVAILABLE in its interrupt status
  faults,      \* faults that may still happen
  lostTx,      \* history: a frame to the chip was lost
  lostRx,      \* history: a frame from the chip was lost
  garbled      \* history: a credit was read from the wrong place

sendVars == <<queued, seq, credit, flow>>
threadVars == <<thread, interrupt, wake>>
chipVars == <<chipSeq, chipFree, toHost, intStatus>>
faultVars == <<faults, lostTx, lostRx, garbled>>
vars == <<sendVars, threadVars, chipVars, faultVars>>

\* A frame of the chip is 12 bytes long and only a header, or it has data.
Numbers == 0 .. SeqMod - 1
Frames == [size : {"header", "data"}, credit : Numbers, flow : BOOLEAN]

\* mutant: a counter wider than the chip's
AddWide(x, n) == x + n

\* Arithmetic modulo SeqMod on numbers below it.
Add(x, n) == IF x + n < SeqMod THEN x + n ELSE x + n - SeqMod
Diff(x, y) == IF x >= y THEN x - y ELSE x + SeqMod - y

\* wiced_init_sdpcm; the chip grants more than one frame with its first.
Init ==
  /\ queued = 0 /\ seq = 0 /\ credit = 1 /\ flow = FALSE
  /\ thread = "send" /\ interrupt = FALSE /\ wake = 0
  /\ chipSeq = 0 /\ chipFree = Window /\ toHost = <<>> /\ intStatus = FALSE
  /\ faults = MaxFaults
  /\ lostTx = FALSE /\ lostRx = FALSE /\ garbled = FALSE

\* mutant: the thread is not notified
EnqueueSilently ==
  /\ queued < QueueLen /\ wake < MaxWake
  /\ queued' = queued + 1
  /\ UNCHANGED <<seq, credit, flow, thread, interrupt, wake, chipVars, faultVars>>

\* wiced_send_sdpcm_common: the frame is queued, the WICED thread notified.
Enqueue ==
  /\ queued < QueueLen /\ wake < MaxWake
  /\ queued' = queued + 1
  /\ wake' = wake + 1
  /\ UNCHANGED <<seq, credit, flow, thread, interrupt, chipVars, faultVars>>

-----------------------------------------------------------------------------
(* The WICED thread. *)

\* The semaphore is taken, or 100 ms pass without credits; then the top of
\* the loop clears the flag of the interrupt.
Wakes ==
  /\ \/ thread \in {"sleep", "poll"} /\ wake > 0 /\ wake' = wake - 1
     \/ thread = "poll" /\ wake = 0 /\ UNCHANGED wake
  /\ thread' = IF interrupt THEN "status" ELSE "send"
  /\ interrupt' = FALSE
  /\ UNCHANGED <<sendVars, chipVars, faultVars>>

\* wiced_bus_process_interrupt reads and clears the status.
ReadStatus ==
  /\ thread = "status"
  /\ thread' = IF intStatus THEN "receive" ELSE "send"
  /\ intStatus' = FALSE
  /\ UNCHANGED <<interrupt, wake, sendVars, chipSeq, chipFree, toHost,
                 faultVars>>

\* mutant: numbers are compared as if they never wrapped
CreditUpdateUpwards(c, stop) ==
  /\ credit' = IF c >= credit THEN c ELSE credit
  /\ flow' = stop

\* wiced_process_bus_credit_update
CreditUpdate(c, stop) ==
  /\ credit' = IF Diff(c, credit) <= MaxDiff THEN c ELSE credit
  /\ flow' = stop

TakeFrame ==
  /\ thread = "receive" /\ toHost # <<>>
  /\ toHost' = Tail(toHost)
  /\ UNCHANGED <<queued, seq, interrupt, wake, chipSeq, chipFree, intStatus,
                 lostTx>>

Receive ==
  /\ TakeFrame
  /\ CreditUpdate(Head(toHost).credit, Head(toHost).flow)
  /\ UNCHANGED <<thread, faults, lostRx, garbled>>

NothingToRead ==
  /\ thread = "receive" /\ toHost = <<>>
  /\ thread' = "send"
  /\ UNCHANGED <<interrupt, wake, sendVars, chipVars, faultVars>>

Fault == faults > 0 /\ faults' = faults - 1

\* A transfer fails: the frame is given up (wiced_abort_read without a
\* retry).  The loop over the chip's frames ends, unless it was a header.
ReadFails ==
  /\ TakeFrame /\ Fault
  /\ lostRx' = TRUE
  /\ thread' = IF Head(toHost).size = "header" THEN "receive" ELSE "send"
  /\ UNCHANGED <<credit, flow, garbled>>

\* host_buffer_get finds no buffer.  The header of the frame is read, but
\* from the fifth byte on, while wiced_process_bus_credit_update expects the
\* first: the credit field is taken for the channel, and what follows the
\* header for credit and flow control.
NoBuffer ==
  /\ TakeFrame /\ Fault
  /\ Head(toHost).size = "data"
  /\ lostRx' = TRUE /\ garbled' = TRUE
  /\ \E stop \in BOOLEAN :
       \/ flow' = stop /\ UNCHANGED credit
       \/ \E c \in Numbers : CreditUpdate(c, stop)
  /\ thread' = "send"

\* mutant: flow control alone decides
MaySendUncredited == queued > 0 /\ ~flow

MaySend == queued > 0 /\ ~flow /\ seq # credit

\* mutant: the number is not advanced
PopFrameUnnumbered ==
  /\ thread = "send" /\ MaySend
  /\ queued' = queued - 1
  /\ UNCHANGED <<seq, credit, flow, interrupt, wake, toHost, intStatus, lostRx,
                 garbled>>

\* wiced_get_packet_to_send pops and numbers the head of the queue, then the
\* transfer succeeds or fails; the frame is released in both cases.
PopFrame ==
  /\ thread = "send" /\ MaySend
  /\ queued' = queued - 1
  /\ seq' = Add(seq, 1)
  /\ UNCHANGED <<credit, flow, interrupt, wake, toHost, intStatus, lostRx,
                 garbled>>

\* The chip takes the frame if it has room.
SendOne ==
  /\ PopFrame
  /\ IF chipFree > 0
       THEN /\ chipSeq' = Add(seq, 1) /\ chipFree' = chipFree - 1
            /\ UNCHANGED lostTx
       ELSE lostTx' = TRUE /\ UNCHANGED <<chipSeq, chipFree>>
  /\ UNCHANGED <<thread, faults>>

\* mutant: the last credit counts for none
EndLoopEarly(sequence) ==
  thread' = IF Diff(credit, sequence) <= 1 THEN "poll" ELSE "sleep"

\* The end of the loop: without credits the chip is poked and the sleep
\* limited to 100 ms.
EndLoop(sequence) ==
  thread' = IF Diff(credit, sequence) = 0 THEN "poll" ELSE "sleep"

\* wiced_send_one_packet returns 0, which ends the loop over the queue.
SendFails ==
  /\ PopFrame /\ Fault
  /\ lostTx' = TRUE
  /\ EndLoop(Add(seq, 1))
  /\ UNCHANGED <<chipSeq, chipFree>>

NothingToSend ==
  /\ thread = "send" /\ ~MaySend
  /\ EndLoop(seq)
  /\ UNCHANGED <<interrupt, wake, sendVars, chipVars, faultVars>>

-----------------------------------------------------------------------------
(* The chip, and the interrupt that it raises (wiced_platform_notify_irq). *)

Grant == Add(chipSeq, chipFree)

Offer(size, stop) ==
  /\ Len(toHost) < HostLen
  /\ toHost' = Append(toHost, [size |-> size, credit |-> Grant,
                               flow |-> stop])
  /\ intStatus' = TRUE
  /\ interrupt' = TRUE
  /\ wake' = IF intStatus THEN wake ELSE wake + 1
  /\ UNCHANGED <<sendVars, thread, chipSeq, chipFree, faultVars>>

\* What the chip has last said about flow control.
Stopped == IF toHost = <<>> THEN flow ELSE toHost[Len(toHost)].flow

ChipData == Offer("data", Stopped)

\* The answer to wiced_bus_poke_wlan.
ChipCredit == thread = "poll" /\ Offer("header", Stopped)

\* Flow control begins and ends with a frame that says so.
ChipStops == ~Stopped /\ Offer("header", TRUE)
ChipStarts == Stopped /\ Offer("header", FALSE)

ChipFrees ==
  /\ chipFree < Window
  /\ chipFree' = chipFree + 1
  /\ UNCHANGED <<sendVars, threadVars, chipSeq, toHost, intStatus, faultVars>>

-----------------------------------------------------------------------------
ThreadStep ==
  \/ Wakes \/ ReadStatus
  \/ Receive \/ NothingToRead \/ ReadFails \/ NoBuffer
  \/ SendOne \/ SendFails \/ NothingToSend

ChipStep == ChipData \/ ChipCredit \/ ChipStops \/ ChipStarts \/ ChipFrees

Next == Enqueue \/ ThreadStep \/ ChipStep

Spec == Init /\ [][Next]_vars

(***************************************************************************)
(* The WICED thread has the highest priority of all, so it runs whenever   *)
(* it can.  Of the chip we assume that it sends what it buffers and        *)
(* answers pokes.                                                          *)
(***************************************************************************)
FairSpec ==
  /\ Spec
  /\ WF_vars(ThreadStep)
  /\ WF_vars(ChipFrees) /\ SF_vars(ChipCredit)

-----------------------------------------------------------------------------
TypeOK ==
  /\ queued \in Nat /\ seq \in Numbers /\ credit \in Numbers
  /\ flow \in BOOLEAN
  /\ thread \in {"status", "receive", "send", "sleep", "poll"}
  /\ interrupt \in BOOLEAN /\ wake \in Nat
  /\ chipSeq \in Numbers /\ chipFree \in 0 .. Window
  /\ toHost \in Seq(Frames) /\ intStatus \in BOOLEAN
  /\ faults \in 0 .. MaxFaults
  /\ lostTx \in BOOLEAN /\ lostRx \in BOOLEAN /\ garbled \in BOOLEAN

(***************************************************************************)
(* While credits are read from where they are, the host never sends a      *)
(* frame that the chip did not grant, also after failed transfers and when *)
(* the numbers wrap around: a frame that may be sent finds a free buffer.  *)
(***************************************************************************)
ChipHasRoom == ~garbled /\ MaySend => chipFree > 0

(***************************************************************************)
(* While credits are read from where they are, none is taken for stale: a  *)
(* frame read next is within CHIP_MAX_BUS_DATA_CREDIT_DIFF of the last.    *)
(***************************************************************************)
CreditsAccepted ==
  ~garbled /\ toHost # <<>> => Diff(Head(toHost).credit, credit) <= MaxDiff

(***************************************************************************)
(* The comment of the WICED thread (wwd_thread.c, lines 263 to 265): it    *)
(* "goes to sleep.  The sleep has a 100ms timeout, causing the             *)
(* send/receive queues to be checked 10 times per second in case an        *)
(* interrupt is missed".  So it never sleeps without a limit on a frame    *)
(* that it may send or receive.  The code does not keep this, as its poll  *)
(* timeout is infinite; SleepsIdle is what it keeps.                       *)
(***************************************************************************)
NeverSleepsOnWork ==
  thread = "sleep" /\ wake = 0 => ~MaySend /\ toHost = <<>>

(***************************************************************************)
(* No wake-up is lost: without a failed transfer, sleeping without a limit *)
(* means that nothing is left to do.                                       *)
(***************************************************************************)
SleepsIdle ==
  thread = "sleep" /\ wake = 0 =>
    (lostTx \/ ~MaySend) /\ (lostRx \/ toHost = <<>>)

(***************************************************************************)
(* As long as no frame to the chip was lost, a thread that waits for       *)
(* credits, with the 100 ms limit, needs only one frame of a chip that has *)
(* a free buffer, the answer to its poke: the credit in it is a new one    *)
(* and is not taken for stale, also after a credit from the wrong place.   *)
(***************************************************************************)
PokeHelps ==
  thread = "poll" /\ ~lostTx /\ chipFree > 0 =>
    Grant # credit /\ Diff(Grant, credit) <= MaxDiff

(***************************************************************************)
(* As long as no transfer fails, the send queue moves, also out of         *)
(* credits: the frame at its head gets its turn.  This needs a chip that   *)
(* does not keep the loop over its frames going for ever, and in the end   *)
(* leaves flow control.                                                    *)
(***************************************************************************)
QueueMoves ==
  [](~lostRx /\ ~lostTx) /\ []<>(thread # "receive") /\ <>[](~Stopped) =>
    \A n \in Numbers : (queued > 0 /\ seq = n) ~> (queued = 0 \/ seq # n)
=============================================================================
