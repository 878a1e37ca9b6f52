---------------------------- MODULE Sdpcm_proofs ----------------------------
(***************************************************************************)
(* Theorems about Sdpcm, for every size of the chip's buffers and of the   *)
(* sequence numbers.  Numbers are compared by their distance from chipSeq, *)
(* which the chip advances: seq, credit and the credits on their way to    *)
(* the host are in this order, and the chip's free buffers bound them all. *)
(***************************************************************************)
EXTENDS Sdpcm, TLAPS

\* Arithmetic modulo SeqMod.
LEMMA Modulo ==
  ASSUME NEW k \in Numbers, NEW x \in Numbers, NEW y \in Numbers
  PROVE  /\ Diff(x, y) \in Nat
         /\ Diff(x, x) = 0
         /\ Diff(x, y) = 0 => x = y
         /\ Add(x, 1) \in Numbers
         /\ Diff(x, k) <= Diff(y, k) => Diff(y, x) = Diff(y, k) - Diff(x, k)
         /\ Diff(x, k) < Diff(y, k) =>
              /\ Diff(Add(x, 1), k) = Diff(x, k) + 1
              /\ Diff(y, Add(x, 1)) = Diff(y, k) - Diff(x, k) - 1
  BY WindowAssumption DEF Diff, Add, Numbers

LEMMA Ahead ==
  ASSUME NEW k \in Numbers, NEW n \in 0 .. Window
  PROVE  Add(k, n) \in Numbers /\ Diff(Add(k, n), k) = n
  BY WindowAssumption DEF Diff, Add, Numbers

\* The frames for the host: the first is taken, or one added at the end.
LEMMA HostTail ==
  ASSUME NEW s \in Seq(Frames), s # <<>>
  PROVE  /\ Tail(s) \in Seq(Frames) /\ Head(s) \in Frames /\ Head(s) = s[1]
         /\ Len(s) \in Nat /\ Len(s) > 0 /\ Len(Tail(s)) = Len(s) - 1
         /\ \A i \in 1 .. Len(s) : s[i] \in Frames
         /\ \A i \in 1 .. Len(Tail(s)) :
              i + 1 \in 1 .. Len(s) /\ Tail(s)[i] = s[i + 1]
  OBVIOUS

LEMMA HostAppend ==
  ASSUME NEW s \in Seq(Frames), NEW f \in Frames
  PROVE  /\ Append(s, f) \in Seq(Frames) /\ Append(s, f) # <<>>
         /\ Len(s) \in Nat /\ Len(Append(s, f)) = Len(s) + 1
         /\ \A i \in 1 .. Len(s) : Append(s, f)[i] = s[i]
         /\ Append(s, f)[Len(s) + 1] = f
  OBVIOUS

-----------------------------------------------------------------------------
(***************************************************************************)
(* Type correctness.                                                       *)
(***************************************************************************)
LEMMA FramesForm == \A f \in Frames : f.size \in {"header", "data"}
                                      /\ f.credit \in Numbers
                                      /\ f.flow \in BOOLEAN
  BY DEF Frames

LEMMA OfferType ==
  ASSUME TypeOK, NEW size \in {"header", "data"}, NEW stop \in BOOLEAN,
         Offer(size, stop)
  PROVE  TypeOK' /\ toHost' = Append(toHost, [size |-> size, credit |-> Grant,
                                               flow |-> stop])
         /\ [size |-> size, credit |-> Grant, flow |-> stop] \in Frames
<1>1. Grant \in Numbers
  BY Ahead DEF TypeOK, Grant
<1>2. [size |-> size, credit |-> Grant, flow |-> stop] \in Frames
  BY <1>1 DEF Frames
<1>3. toHost' \in Seq(Frames)
  BY <1>2, HostAppend DEF Offer, TypeOK
<1> QED
  BY <1>2, <1>3 DEF Offer, TypeOK, sendVars, faultVars

LEMMA StoppedType == TypeOK => Stopped \in BOOLEAN
<1> SUFFICES ASSUME TypeOK, toHost # <<>> PROVE toHost[Len(toHost)].flow \in BOOLEAN
  BY DEF Stopped, TypeOK
<1>1. Len(toHost) \in 1 .. Len(toHost)
  BY HostTail DEF TypeOK
<1> QED
  BY <1>1, HostTail, FramesForm DEF TypeOK

\* The chip's frames come from Offer, with a size and a flow of their types.
LEMMA Offers ==
  ASSUME TypeOK, ChipData \/ ChipCredit \/ ChipStops \/ ChipStarts
  PROVE  \E size \in {"header", "data"}, stop \in BOOLEAN : Offer(size, stop)
  BY StoppedType DEF ChipData, ChipCredit, ChipStops, ChipStarts

LEMMA TakeFrameType ==
  ASSUME TypeOK, TakeFrame
  PROVE  /\ toHost' \in Seq(Frames) /\ toHost' = Tail(toHost)
         /\ Head(toHost).credit \in Numbers /\ Head(toHost).flow \in BOOLEAN
  BY HostTail, FramesForm DEF TypeOK, TakeFrame

LEMMA TypeInit == Init => TypeOK
<1> SUFFICES ASSUME Init PROVE TypeOK
  OBVIOUS
<1>1. 0 \in Numbers /\ 1 \in Numbers /\ Window \in 0 .. Window
      /\ MaxFaults \in 0 .. MaxFaults
  BY WindowAssumption, BoundsAssumption DEF Numbers
<1>2. toHost \in Seq(Frames)
  BY DEF Init
<1> QED
  BY <1>1, <1>2 DEF Init, TypeOK

LEMMA TypeNext == TypeOK /\ [Next]_vars => TypeOK'
<1> SUFFICES ASSUME TypeOK, [Next]_vars PROVE TypeOK'
  OBVIOUS
<1> USE DEF sendVars, threadVars, chipVars, faultVars
<1>1. CASE Enqueue
  BY <1>1 DEF TypeOK, Enqueue
<1>2. CASE Wakes
  <2>1. wake' \in Nat
    BY <1>2 DEF TypeOK, Wakes
  <2>2. thread' \in {"status", "send"}
    BY <1>2, Zenon DEF Wakes
  <2> QED
    BY <1>2, <2>1, <2>2 DEF TypeOK, Wakes
<1>3. CASE ReadStatus
  BY <1>3 DEF TypeOK, ReadStatus
<1>4. CASE Receive
  BY <1>4, TakeFrameType DEF TypeOK, Receive, TakeFrame, CreditUpdate
<1>5. CASE NothingToRead
  BY <1>5 DEF TypeOK, NothingToRead
<1>6. CASE ReadFails
  BY <1>6, TakeFrameType, BoundsAssumption
     DEF TypeOK, ReadFails, TakeFrame, Fault
<1>7. CASE NoBuffer
  BY <1>7, TakeFrameType, BoundsAssumption
     DEF TypeOK, NoBuffer, TakeFrame, Fault, CreditUpdate
<1>8. ASSUME PopFrame PROVE Add(seq, 1) \in Numbers /\ queued' \in Nat
  BY <1>8, Modulo DEF TypeOK, PopFrame, MaySend
<1>9. CASE SendOne
  <2>1. chipSeq' \in Numbers /\ chipFree' \in 0 .. Window
    BY <1>8, <1>9, WindowAssumption DEF TypeOK, SendOne
  <2> QED
    BY <1>8, <1>9, <2>1 DEF TypeOK, SendOne, PopFrame
<1>10. CASE SendFails
  <2>1. faults' \in 0 .. MaxFaults
    BY <1>10, BoundsAssumption DEF TypeOK, SendFails, Fault
  <2> QED
    BY <1>8, <1>10, <2>1 DEF TypeOK, SendFails, PopFrame, EndLoop
<1>11. CASE NothingToSend
  BY <1>11 DEF TypeOK, NothingToSend, EndLoop
<1>12. CASE ChipData \/ ChipCredit \/ ChipStops \/ ChipStarts
  BY <1>12, Offers, OfferType
<1>13. CASE ChipFrees
  BY <1>13, WindowAssumption DEF TypeOK, ChipFrees
<1>14. CASE UNCHANGED vars
  BY <1>14 DEF TypeOK, vars
<1> QED
  BY <1>1, <1>2, <1>3, <1>4, <1>5, <1>6, <1>7, <1>9, <1>10, <1>11, <1>12,
     <1>13, <1>14 DEF Next, ThreadStep, ChipStep

(***************************************************************************)
(* The counters of the bus have their types.                               *)
(***************************************************************************)
THEOREM SdpcmTypeCorrect == Spec => []TypeOK
  BY TypeInit, TypeNext, PTL DEF Spec
-----------------------------------------------------------------------------
(***************************************************************************)
(* Credits: seq, credit and the credits in the chip's frames, seen from    *)
(* chipSeq, are in this order, and the free buffers bound them.            *)
(***************************************************************************)
Ahd(x) == Diff(x, chipSeq)

CreditOrder ==
  /\ Ahd(seq) <= Ahd(credit) /\ Ahd(credit) <= chipFree
  /\ \A i \in 1 .. Len(toHost) :
       /\ Ahd(credit) <= Ahd(toHost[i].credit)
       /\ Ahd(toHost[i].credit) <= chipFree
       /\ \A j \in 1 .. i : Ahd(toHost[j].credit) <= Ahd(toHost[i].credit)

CreditInv == TypeOK /\ (~garbled => CreditOrder)

LEMMA CreditInit == Init => CreditInv
<1> SUFFICES ASSUME Init PROVE CreditOrder
  BY TypeInit DEF CreditInv
<1>1. Len(toHost) = 0
  BY DEF Init
<1>2. Ahd(seq) = 0 /\ Ahd(credit) = 1 /\ chipFree >= 1
  BY WindowAssumption DEF Init, Ahd, Diff
<1> QED
  BY <1>1, <1>2 DEF CreditOrder, Init

\* The host's numbers, seen from chipSeq, are natural numbers.
LEMMA Distances ==
  ASSUME TypeOK
  PROVE  /\ Ahd(seq) \in Nat /\ Ahd(credit) \in Nat /\ chipFree \in Nat
         /\ Len(toHost) \in Nat
         /\ \A i \in 1 .. Len(toHost) : /\ toHost[i].credit \in Numbers
                                       /\ Ahd(toHost[i].credit) \in Nat
<1>1. \A i \in 1 .. Len(toHost) : toHost[i] \in Frames
  BY DEF TypeOK
<1>2. \A i \in 1 .. Len(toHost) : toHost[i].credit \in Numbers
  BY <1>1, FramesForm
<1>3. chipFree \in Nat /\ Len(toHost) \in Nat
  BY WindowAssumption DEF TypeOK
<1> QED
  BY <1>2, <1>3, Modulo DEF TypeOK, Ahd

\* A credit read next is accepted; so is it in order for the rest.
LEMMA HeadAccepted ==
  ASSUME TypeOK, CreditOrder, toHost # <<>>
  PROVE  /\ Head(toHost) = toHost[1] /\ 1 \in 1 .. Len(toHost)
         /\ Diff(Head(toHost).credit, credit) <= MaxDiff
<1>1. Head(toHost) = toHost[1] /\ 1 \in 1 .. Len(toHost)
  BY HostTail DEF TypeOK
<1> DEFINE c == toHost[1].credit
<1>2. /\ c \in Numbers /\ Ahd(c) \in Nat /\ Ahd(credit) <= Ahd(c)
      /\ Ahd(c) <= chipFree /\ Ahd(credit) \in Nat /\ chipFree \in Nat
  BY <1>1, Distances DEF CreditOrder
<1>3. Diff(c, credit) = Ahd(c) - Ahd(credit)
  BY <1>2, Modulo DEF Ahd, TypeOK
<1>4. chipFree <= MaxDiff
  BY WindowAssumption DEF TypeOK
<1> HIDE DEF c
<1>5. Diff(c, credit) <= MaxDiff
  BY <1>2, <1>3, <1>4, WindowAssumption
<1> QED
  BY <1>1, <1>5 DEF c

\* Taking the first frame leaves the order, with the old or the new credit.
LEMMA TailOrder ==
  ASSUME TypeOK, CreditOrder, TakeFrame,
         credit' = credit \/ credit' = Head(toHost).credit
  PROVE  CreditOrder'
<1>1. /\ toHost # <<>> /\ toHost' = Tail(toHost) /\ chipSeq' = chipSeq
      /\ chipFree' = chipFree /\ seq' = seq
  BY DEF TakeFrame
<1>2. Head(toHost) = toHost[1] /\ 1 \in 1 .. Len(toHost)
  BY <1>1, HeadAccepted
<1>3. /\ Len(toHost') = Len(toHost) - 1
      /\ \A i \in 1 .. Len(toHost') : i + 1 \in 1 .. Len(toHost)
                                      /\ toHost'[i] = toHost[i + 1]
  BY <1>1, HostTail DEF TypeOK
<1>5. /\ Ahd(seq)' = Ahd(seq)
      /\ Ahd(credit)' = Ahd(credit) \/ Ahd(credit)' = Ahd(toHost[1].credit)
      /\ \A i \in 1 .. Len(toHost') :
           Diff(toHost'[i].credit, chipSeq') = Ahd(toHost[i + 1].credit)
  BY <1>1, <1>2, <1>3 DEF Ahd
<1>6. /\ Ahd(seq) <= Ahd(credit)' /\ Ahd(credit)' <= chipFree
      /\ \A i \in 1 .. Len(toHost) : Ahd(credit)' <= Ahd(toHost[i].credit)
  BY <1>2, <1>5, Distances DEF CreditOrder
<1>7. ASSUME NEW i \in 1 .. Len(toHost')
      PROVE  /\ Ahd(credit)' <= Diff(toHost'[i].credit, chipSeq')
             /\ Diff(toHost'[i].credit, chipSeq') <= chipFree'
             /\ \A j \in 1 .. i : Diff(toHost'[j].credit, chipSeq')
                                   <= Diff(toHost'[i].credit, chipSeq')
  <2>1. i + 1 \in 1 .. Len(toHost)
    BY <1>3
  <2>2. \A j \in 1 .. i : j \in 1 .. Len(toHost') /\ j + 1 \in 1 .. i + 1
    BY <1>3, Distances
  <2> QED
    BY <1>1, <1>5, <1>6, <1>7, <2>1, <2>2 DEF CreditOrder
<1> QED
  BY <1>1, <1>5, <1>6, <1>7 DEF CreditOrder, Ahd

LEMMA AppendOrder ==
  ASSUME TypeOK, CreditOrder, NEW size \in {"header", "data"},
         NEW stop \in BOOLEAN, Offer(size, stop)
  PROVE  CreditOrder'
<1> DEFINE f == [size |-> size, credit |-> Grant, flow |-> stop]
<1>1. /\ toHost' = Append(toHost, f) /\ f \in Frames
      /\ seq' = seq /\ credit' = credit /\ chipSeq' = chipSeq
      /\ chipFree' = chipFree
  BY OfferType DEF Offer, sendVars
<1>2. Diff(f.credit, chipSeq) = chipFree
  BY Ahead DEF Grant, TypeOK
<1> HIDE DEF f
<1>3. /\ Len(toHost) \in Nat /\ Len(toHost') = Len(toHost) + 1
      /\ \A i \in 1 .. Len(toHost) : toHost'[i] = toHost[i]
      /\ toHost'[Len(toHost) + 1] = f
  BY <1>1, HostAppend DEF TypeOK
<1>4. /\ \A i \in 1 .. Len(toHost) :
           Diff(toHost'[i].credit, chipSeq') = Ahd(toHost[i].credit)
      /\ Diff(toHost'[Len(toHost) + 1].credit, chipSeq') = chipFree
      /\ Ahd(seq)' = Ahd(seq) /\ Ahd(credit)' = Ahd(credit)
  BY <1>1, <1>2, <1>3 DEF Ahd
<1>5. ASSUME NEW i \in 1 .. Len(toHost')
      PROVE  /\ Ahd(credit)' <= Diff(toHost'[i].credit, chipSeq')
             /\ Diff(toHost'[i].credit, chipSeq') <= chipFree'
             /\ \A j \in 1 .. i : Diff(toHost'[j].credit, chipSeq')
                                   <= Diff(toHost'[i].credit, chipSeq')
  <2>1. CASE i \in 1 .. Len(toHost)
    <3>1. \A j \in 1 .. i : j \in 1 .. Len(toHost)
      BY <1>3, <2>1
    <3> QED
      BY <1>1, <1>4, <2>1, <3>1 DEF CreditOrder
  <2>2. CASE i = Len(toHost) + 1
    <3>1. \A j \in 1 .. i : j \in 1 .. Len(toHost) \/ j = i
      BY <1>3, <2>2
    <3> QED
      BY <1>1, <1>4, <2>2, <3>1, Distances DEF CreditOrder
  <2> QED
    BY <1>3, <2>1, <2>2
<1> QED
  BY <1>1, <1>4, <1>5 DEF CreditOrder, Ahd

LEMMA SendOrder ==
  ASSUME TypeOK, CreditOrder, SendOne
  PROVE  CreditOrder'
<1>1. /\ seq # credit /\ seq' = Add(seq, 1) /\ credit' = credit
      /\ toHost' = toHost
  BY DEF SendOne, PopFrame, MaySend
<1>2. Ahd(seq) < Ahd(credit) /\ Ahd(seq) \in Nat /\ Ahd(credit) \in Nat
  <2>1. Diff(credit, seq) = Ahd(credit) - Ahd(seq)
        /\ (Diff(credit, seq) = 0 => credit = seq)
    BY Modulo DEF TypeOK, CreditOrder, Ahd
  <2> QED
    BY <1>1, <2>1, Distances DEF CreditOrder
<1>3. /\ chipSeq' = Add(seq, 1) /\ chipFree' = chipFree - 1 /\ chipFree > 0
      /\ chipFree \in Nat
  BY <1>2, Distances DEF SendOne, CreditOrder
<1>4. ASSUME NEW x \in Numbers, Ahd(credit) <= Ahd(x)
      PROVE  Diff(x, chipSeq') = Ahd(x) - Ahd(seq) - 1
  <2>1. Ahd(x) \in Nat
    BY Modulo DEF Ahd, TypeOK
  <2>2. Ahd(seq) < Ahd(x)
    BY <1>2, <1>4, <2>1
  <2> QED
    BY <1>3, <2>2, Modulo DEF Ahd, TypeOK
<1>5. Ahd(seq)' = 0
  BY <1>1, <1>3, Modulo DEF Ahd, TypeOK
<1>6. Ahd(credit)' = Ahd(credit) - Ahd(seq) - 1
  BY <1>1, <1>2, <1>4 DEF Ahd, TypeOK
<1>7. \A i \in 1 .. Len(toHost) :
        Diff(toHost[i].credit, chipSeq') = Ahd(toHost[i].credit) - Ahd(seq) - 1
  BY <1>4, Distances DEF CreditOrder
<1>8. ASSUME NEW i \in 1 .. Len(toHost)
      PROVE  /\ Ahd(credit)' <= Diff(toHost[i].credit, chipSeq')
             /\ Diff(toHost[i].credit, chipSeq') <= chipFree'
             /\ \A j \in 1 .. i : Diff(toHost[j].credit, chipSeq')
                                   <= Diff(toHost[i].credit, chipSeq')
  <2>1. \A j \in 1 .. i : j \in 1 .. Len(toHost)
    BY Distances
  <2> QED
    BY <1>2, <1>3, <1>6, <1>7, <2>1, Distances DEF CreditOrder
<1>9. Ahd(seq)' <= Ahd(credit)' /\ Ahd(credit)' <= chipFree'
  BY <1>2, <1>3, <1>5, <1>6, Distances DEF CreditOrder
<1> QED
  BY <1>1, <1>8, <1>9 DEF CreditOrder, Ahd

LEMMA FailOrder ==
  ASSUME TypeOK, CreditOrder, SendFails
  PROVE  CreditOrder'
<1>1. /\ seq # credit /\ seq' = Add(seq, 1) /\ credit' = credit
      /\ toHost' = toHost /\ chipSeq' = chipSeq /\ chipFree' = chipFree
  BY DEF SendFails, PopFrame, MaySend
<1>2. Ahd(seq) < Ahd(credit) /\ Ahd(seq) \in Nat /\ Ahd(credit) \in Nat
  <2>1. Diff(credit, seq) = Ahd(credit) - Ahd(seq)
        /\ (Diff(credit, seq) = 0 => credit = seq)
    BY Modulo DEF TypeOK, CreditOrder, Ahd
  <2> QED
    BY <1>1, <2>1, Distances DEF CreditOrder
<1>3. Ahd(seq)' = Ahd(seq) + 1 /\ Ahd(credit)' = Ahd(credit)
  BY <1>1, <1>2, Modulo DEF Ahd, TypeOK
<1>4. Ahd(seq)' <= Ahd(credit)'
  BY <1>2, <1>3
<1> QED
  BY <1>1, <1>3, <1>4 DEF CreditOrder, Ahd

LEMMA CreditNext == CreditInv /\ [Next]_vars => CreditInv'
<1> SUFFICES ASSUME TypeOK, ~garbled => CreditOrder, [Next]_vars, ~garbled'
             PROVE  CreditOrder'
  BY TypeNext DEF CreditInv
<1>1. CASE \/ Enqueue \/ Wakes \/ ReadStatus \/ NothingToRead
           \/ NothingToSend \/ UNCHANGED vars
  <2>1. UNCHANGED <<seq, credit, chipSeq, chipFree, toHost, garbled>>
    BY <1>1 DEF Enqueue, Wakes, ReadStatus, NothingToRead, NothingToSend,
                vars, sendVars, chipVars, faultVars
  <2> QED
    BY <2>1 DEF CreditOrder, Ahd
<1>2. CASE Receive \/ ReadFails
  <2>1. ~garbled /\ TakeFrame
    BY <1>2 DEF Receive, ReadFails
  <2>2. credit' = credit \/ credit' = Head(toHost).credit
    BY <1>2 DEF Receive, ReadFails, CreditUpdate
  <2> QED
    BY <2>1, <2>2, TailOrder
<1>3. CASE NoBuffer
  BY <1>3 DEF NoBuffer
<1>4. CASE SendOne
  BY <1>4, SendOrder DEF SendOne, PopFrame
<1>5. CASE SendFails
  BY <1>5, FailOrder DEF SendFails, PopFrame
<1>6. CASE ChipData \/ ChipCredit \/ ChipStops \/ ChipStarts
  <2>1. PICK size \in {"header", "data"}, stop \in BOOLEAN : Offer(size, stop)
    BY <1>6, Offers
  <2>2. ~garbled
    BY <2>1 DEF Offer, faultVars
  <2> QED
    BY <2>1, <2>2, AppendOrder
<1>7. CASE ChipFrees
  <2>1. /\ UNCHANGED <<seq, credit, chipSeq, toHost, garbled>>
        /\ chipFree' = chipFree + 1
    BY <1>7 DEF ChipFrees, sendVars, faultVars
  <2>2. CreditOrder
    BY <2>1
  <2>3. \A i \in 1 .. Len(toHost) : Ahd(toHost[i].credit) <= chipFree + 1
    BY <2>2, Distances DEF CreditOrder
  <2>4. Ahd(credit) <= chipFree + 1
    BY <2>2, Distances DEF CreditOrder
  <2> QED
    BY <2>1, <2>2, <2>3, <2>4 DEF CreditOrder, Ahd
<1> QED
  BY <1>1, <1>2, <1>3, <1>4, <1>5, <1>6, <1>7 DEF Next, ThreadStep, ChipStep

LEMMA CreditInvariant == Spec => []CreditInv
  BY CreditInit, CreditNext, PTL DEF Spec

(***************************************************************************)
(* A frame that the host may send finds a free buffer in the chip.         *)
(***************************************************************************)
THEOREM ChipAlwaysHasRoom == Spec => []ChipHasRoom
<1>1. CreditInv => ChipHasRoom
  <2> SUFFICES ASSUME CreditInv, ~garbled, seq # credit PROVE chipFree > 0
    BY DEF ChipHasRoom, MaySend
  <2>1. TypeOK /\ CreditOrder
    BY DEF CreditInv
  <2>2. /\ Diff(credit, seq) = Ahd(credit) - Ahd(seq)
        /\ Diff(credit, seq) = 0 => credit = seq
        /\ Diff(credit, seq) \in Nat
    BY <2>1, Modulo DEF TypeOK, CreditOrder, Ahd
  <2> QED
    BY <2>1, <2>2, Distances DEF CreditOrder
<1> QED
  BY <1>1, CreditInvariant, PTL

(***************************************************************************)
(* No credit of the chip is taken for stale.                               *)
(***************************************************************************)
THEOREM CreditsAreAccepted == Spec => []CreditsAccepted
<1>1. CreditInv => CreditsAccepted
  BY HeadAccepted DEF CreditInv, CreditsAccepted
<1> QED
  BY <1>1, CreditInvariant, PTL
-----------------------------------------------------------------------------
(***************************************************************************)
(* Wake-ups: what the status register holds will be looked at, frames of   *)
(* the chip are announced there, and a frame to send was notified.         *)
(***************************************************************************)
StatusWatched == intStatus => thread = "status" \/ (interrupt /\ wake > 0)
FramesAnnounced ==
  toHost # <<>> => lostRx \/ thread = "receive" \/ intStatus
SendersNotified == thread = "sleep" => lostTx \/ ~MaySend \/ wake > 0

WakeInv == TypeOK /\ StatusWatched /\ FramesAnnounced /\ SendersNotified

LEMMA WakeInit == Init => WakeInv
  BY TypeInit
     DEF Init, WakeInv, StatusWatched, FramesAnnounced, SendersNotified

LEMMA WakeNext == WakeInv /\ [Next]_vars => WakeInv'
<1> SUFFICES ASSUME WakeInv, [Next]_vars
             PROVE  (StatusWatched /\ FramesAnnounced /\ SendersNotified)'
  BY TypeNext DEF WakeInv
<1>0. wake \in Nat /\ toHost \in Seq(Frames)
  BY DEF WakeInv, TypeOK
<1> USE DEF sendVars, threadVars, chipVars, faultVars
<1>1. CASE Enqueue
  BY <1>0, <1>1
     DEF Enqueue, WakeInv, StatusWatched, FramesAnnounced, SendersNotified
<1>2. CASE Wakes
  <2>1. StatusWatched' /\ SendersNotified'
    BY <1>0, <1>2 DEF Wakes, WakeInv, StatusWatched, SendersNotified
  <2>2. FramesAnnounced'
    BY <1>2 DEF Wakes, WakeInv, FramesAnnounced
  <2> QED
    BY <2>1, <2>2
<1>3. CASE ReadStatus
  BY <1>3 DEF ReadStatus, WakeInv, StatusWatched, FramesAnnounced,
              SendersNotified
<1>4. CASE Receive \/ ReadFails \/ NoBuffer
  <2>1. /\ UNCHANGED <<intStatus, interrupt, wake>>
        /\ thread = "receive" /\ thread' \in {"receive", "send"}
        /\ lostRx' \/ thread' = "receive"
    BY <1>4 DEF Receive, ReadFails, NoBuffer, TakeFrame
  <2> QED
    BY <2>1 DEF WakeInv, StatusWatched, FramesAnnounced, SendersNotified
<1>5. CASE NothingToRead
  BY <1>5 DEF NothingToRead, WakeInv, StatusWatched, FramesAnnounced,
              SendersNotified
<1>6. CASE SendOne
  BY <1>6 DEF SendOne, PopFrame, WakeInv, StatusWatched, FramesAnnounced,
              SendersNotified
<1>7. CASE SendFails
  BY <1>7 DEF SendFails, PopFrame, EndLoop, WakeInv, StatusWatched,
              FramesAnnounced, SendersNotified
<1>8. CASE NothingToSend
  BY <1>8 DEF NothingToSend, EndLoop, MaySend, WakeInv, StatusWatched,
              FramesAnnounced, SendersNotified
<1>9. CASE ChipData \/ ChipCredit \/ ChipStops \/ ChipStarts
  <2>1. PICK size \in {"header", "data"}, stop \in BOOLEAN : Offer(size, stop)
    BY <1>9, Offers DEF WakeInv
  <2>2. /\ UNCHANGED <<thread, lostTx, queued, flow, seq, credit>>
        /\ intStatus' /\ interrupt'
        /\ wake' = IF intStatus THEN wake ELSE wake + 1
    BY <2>1 DEF Offer
  <2>3. wake' >= wake /\ (~intStatus => wake' > 0)
    BY <1>0, <2>2
  <2> QED
    BY <1>0, <2>2, <2>3 DEF WakeInv, StatusWatched, FramesAnnounced,
                            SendersNotified, MaySend
<1>10. CASE ChipFrees
  BY <1>10 DEF ChipFrees, MaySend, WakeInv, StatusWatched, FramesAnnounced,
               SendersNotified
<1>11. CASE UNCHANGED vars
  BY <1>11 DEF vars, MaySend, WakeInv, StatusWatched, FramesAnnounced,
               SendersNotified
<1> QED
  BY <1>1, <1>2, <1>3, <1>4, <1>5, <1>6, <1>7, <1>8, <1>9, <1>10, <1>11
     DEF Next, ThreadStep, ChipStep

(***************************************************************************)
(* No wake-up is lost: without a failed transfer, the WICED thread does    *)
(* not sleep on a frame to send or to receive.                             *)
(***************************************************************************)
THEOREM SleepsOnlyIdle == Spec => []SleepsIdle
<1>1. WakeInv => SleepsIdle
  BY DEF WakeInv, TypeOK, StatusWatched, FramesAnnounced, SendersNotified,
         SleepsIdle
<1>2. Spec => []WakeInv
  BY WakeInit, WakeNext, PTL DEF Spec
<1> QED
  BY <1>1, <1>2, PTL
-----------------------------------------------------------------------------
(***************************************************************************)
(* Pokes: while no frame was lost, the chip expects the host's next number *)
(* (whatever credits the host has read), and the thread polls only when    *)
(* that number and the credit are equal.                                   *)
(***************************************************************************)
PokeInv == TypeOK /\ (lostTx \/ seq = chipSeq) /\ (thread = "poll" => credit = seq)

LEMMA PokeInit == Init => PokeInv
  BY TypeInit DEF Init, PokeInv

LEMMA PokeNext == PokeInv /\ [Next]_vars => PokeInv'
<1> SUFFICES ASSUME PokeInv, [Next]_vars
             PROVE  (lostTx' \/ seq' = chipSeq') /\ (thread' = "poll" => credit' = seq')
  BY TypeNext DEF PokeInv
<1> USE DEF PokeInv, sendVars, threadVars, chipVars, faultVars
<1>1. CASE Enqueue \/ ReadStatus \/ NothingToRead \/ ChipFrees \/ UNCHANGED vars
  BY <1>1 DEF Enqueue, ReadStatus, NothingToRead, ChipFrees, vars
<1>2. CASE Wakes
  BY <1>2 DEF Wakes
<1>3. CASE Receive \/ ReadFails \/ NoBuffer
  <2>1. UNCHANGED <<seq, chipSeq, lostTx>> /\ thread' \in {"receive", "send"}
    BY <1>3 DEF Receive, ReadFails, NoBuffer, TakeFrame
  <2> QED
    BY <2>1
<1>4. CASE SendOne
  BY <1>4 DEF SendOne, PopFrame
<1>5. CASE SendFails
  <2>1. lostTx' /\ seq' = Add(seq, 1) /\ credit' = credit /\ EndLoop(Add(seq, 1))
    BY <1>5 DEF SendFails, PopFrame
  <2>2. credit \in Numbers /\ seq' \in Numbers
    BY TypeNext, <2>1 DEF TypeOK
  <2> QED
    BY <2>1, <2>2, Modulo DEF EndLoop
<1>6. CASE NothingToSend
  <2>1. UNCHANGED <<seq, credit, chipSeq, lostTx>> /\ EndLoop(seq)
    BY <1>6 DEF NothingToSend
  <2> QED
    BY <2>1, Modulo DEF EndLoop, TypeOK
<1>7. CASE ChipData \/ ChipCredit \/ ChipStops \/ ChipStarts
  <2>1. PICK size \in {"header", "data"}, stop \in BOOLEAN : Offer(size, stop)
    BY <1>7, Offers
  <2> QED
    BY <2>1 DEF Offer
<1> QED
  BY <1>1, <1>2, <1>3, <1>4, <1>5, <1>6, <1>7 DEF Next, ThreadStep, ChipStep

(***************************************************************************)
(* Waiting for credits ends with the first frame of a chip that has a free *)
(* buffer: for every modulus, and every window up to the limit of the      *)
(* stale test.                                                             *)
(***************************************************************************)
THEOREM PokesBringCredits == Spec => []PokeHelps
<1>1. PokeInv => PokeHelps
  <2> SUFFICES ASSUME PokeInv, thread = "poll", ~lostTx, chipFree > 0
               PROVE  Grant # credit /\ Diff(Grant, credit) <= MaxDiff
    BY DEF PokeHelps
  <2>1. credit = chipSeq /\ credit \in Numbers /\ chipFree \in 0 .. Window
    BY DEF PokeInv, TypeOK
  <2>2. Diff(Grant, credit) = chipFree
    BY <2>1, Ahead DEF Grant
  <2>3. Grant # credit
    BY <2>1, <2>2, Modulo
  <2> QED
    BY <2>1, <2>2, <2>3, WindowAssumption
<1>2. Spec => []PokeInv
  BY PokeInit, PokeNext, PTL DEF Spec
<1> QED
  BY <1>1, <1>2, PTL
=============================================================================
