---------------------------- MODULE Ioctl_proofs ----------------------------
(***************************************************************************)
(* Theorems about Ioctl, for any set of callers.  The invariant counts:    *)
(* what is in flight, plus the semaphore, is at most the replies to ignore *)
(* plus the one that the running call still waits for.                     *)
(***************************************************************************)
EXTENDS Ioctl, TLAPS

OneCaller == \A c, d \in Calling : c = d

Balance ==
  /\ Len(inFlight) + sleep <= abortCount + 1
  /\ Calling = {} => Len(inFlight) + sleep <= abortCount
  /\ \A c \in Caller : at[c] = "woken" => Len(inFlight) <= abortCount

Semaphore ==
  /\ sleep <= 1
  /\ sleep = 1 => response \in Ids
  /\ \A c \in Caller : at[c] = "woken" => sleep = 0 /\ response \in Ids

SafeInv == TypeOK /\ OneCaller /\ Balance /\ Semaphore

\* A sequence stays one when an element is removed, appended or renamed.
LEMMA SeqFacts ==
  ASSUME NEW s \in Seq(Ids)
  PROVE  /\ Len(s) \in Nat
         /\ Append([i \in DOMAIN s |-> "old"], "own") \in Seq(Ids)
         /\ Len(Append([i \in DOMAIN s |-> "old"], "own")) = Len(s) + 1
         /\ s # <<>> => /\ Tail(s) \in Seq(Ids) /\ Head(s) \in Ids
                        /\ Len(s) > 0 /\ Len(Tail(s)) = Len(s) - 1
                        /\ Head(s) = s[1]
                        /\ \A i \in 1 .. Len(s) - 1 : Tail(s)[i] = s[i + 1]
<1>1. [i \in DOMAIN s |-> "old"] \in Seq(Ids)
           /\ Len([i \in DOMAIN s |-> "old"]) = Len(s)
  BY DEF Ids
<1>2. QED
  BY <1>1 DEF Ids

LEMMA RemoveFacts ==
  ASSUME NEW s \in Seq(Ids), NEW k \in DOMAIN s
  PROVE  LET r == [j \in 1 .. Len(s) - 1 |-> IF j < k THEN s[j] ELSE s[j + 1]]
         IN  r \in Seq(Ids) /\ Len(r) = Len(s) - 1
<1> DEFINE r == [j \in 1 .. Len(s) - 1 |-> IF j < k THEN s[j] ELSE s[j + 1]]
<1>1. Len(s) \in Nat /\ k \in 1 .. Len(s) /\ Len(s) - 1 \in Nat
  OBVIOUS
<1>2. \A j \in 1 .. Len(s) - 1 : r[j] \in Ids
  <2> SUFFICES ASSUME NEW j \in 1 .. Len(s) - 1
               PROVE  s[j] \in Ids /\ s[j + 1] \in Ids
    OBVIOUS
  <2> QED
    BY <1>1
<1>3. r \in [1 .. Len(s) - 1 -> Ids]
  BY <1>2
<1>4. r \in Seq(Ids) /\ Len(r) = Len(s) - 1
  BY <1>1, <1>3
<1> QED
  BY <1>4

(***************************************************************************)
(* Type correctness and the count, in one induction: the semaphore's range *)
(* needs both.                                                             *)
(***************************************************************************)
LEMMA InitSafe == Init => SafeInv
<1> SUFFICES ASSUME Init PROVE SafeInv
  OBVIOUS
<1>1. TypeOK
  <2>1. inFlight \in Seq(Ids)
    BY DEF Init
  <2>2. at \in [Caller -> {"idle", "wait", "woken", "late"}]
    BY DEF Init
  <2> QED
    BY <2>1, <2>2 DEF Init, TypeOK
<1>2. Calling = {} /\ Len(inFlight) = 0 /\ sleep = 0 /\ abortCount = 0
        /\ \A c \in Caller : at[c] = "idle"
  BY DEF Init, Calling
<1> QED
  BY <1>1, <1>2 DEF SafeInv, OneCaller, Balance, Semaphore

LEMMA NextSafe == SafeInv /\ [Next]_vars => SafeInv'
<1> SUFFICES ASSUME SafeInv, [Next]_vars PROVE SafeInv'
  OBVIOUS
<1> USE DEF SafeInv, TypeOK
<1>0. /\ Len(inFlight) \in Nat /\ sleep \in Nat /\ abortCount \in Nat
  BY SeqFacts
<1>1. ASSUME NEW c \in Caller, Start(c) PROVE SafeInv'
  <2>1. inFlight' \in Seq(Ids) /\ Len(inFlight') = Len(inFlight) + 1
    BY <1>1, SeqFacts DEF Start
  <2>2. TypeOK'
    BY <1>1, <2>1 DEF Start, Older, Ids
  <2>3. OneCaller' /\ Balance'
    BY <1>0, <1>1, <2>1 DEF Start, OneCaller, Balance, Calling
  <2>4. Semaphore'
    BY <1>0, <1>1 DEF Start, Semaphore, Calling, Older, Ids
  <2> QED
    BY <2>2, <2>3, <2>4
<1>2. ASSUME NEW c \in Caller, Woken(c) PROVE SafeInv'
  BY <1>0, <1>2 DEF Woken, OneCaller, Balance, Semaphore, Calling
<1>3. ASSUME NEW c \in Caller, Read(c) PROVE SafeInv'
  <2>1. TypeOK' /\ inFlight' = inFlight /\ sleep' = sleep /\ sleep = 0
        /\ abortCount' = abortCount
    BY <1>3 DEF Read, Ids, Semaphore
  <2>2. OneCaller' /\ Semaphore'
    BY <1>0, <1>3, <2>1 DEF Read, OneCaller, Semaphore, Calling
  <2>3. Balance'
    BY <1>0, <1>3, <2>1 DEF Read, OneCaller, Balance, Calling
  <2> QED
    BY <2>1, <2>2, <2>3
<1>4. ASSUME NEW c \in Caller, Timeout(c) PROVE SafeInv'
  BY <1>0, <1>4 DEF Timeout, OneCaller, Balance, Semaphore, Calling
<1>5. ASSUME NEW c \in Caller, Abort(c) PROVE SafeInv'
  BY <1>0, <1>5 DEF Abort, OneCaller, Balance, Semaphore, Calling
<1>6. ASSUME Reply PROVE SafeInv'
  <2>1. /\ inFlight' \in Seq(Ids) /\ Len(inFlight') = Len(inFlight) - 1
        /\ Len(inFlight) > 0 /\ Head(inFlight) \in Ids /\ at' = at
    BY <1>6, SeqFacts DEF Reply
  <2>2. CASE Ignore
    BY <1>0, <1>6, <2>1, <2>2
       DEF Reply, Ignore, OneCaller, Balance, Semaphore, Calling
  <2>3. CASE Accept
    <3>1. sleep = 0 /\ \A c \in Caller : at[c] # "woken"
      BY <1>0, <2>1, <2>3 DEF Accept, Balance
    <3>2. TypeOK' /\ OneCaller'
      BY <1>6, <2>1, <2>3 DEF Reply, Accept, OneCaller, Calling, Ids
    <3>3. Balance'
      BY <1>0, <2>1, <2>3, <3>1 DEF Accept, Balance, Calling
    <3>4. Semaphore'
      BY <1>0, <2>1, <2>3, <3>1 DEF Accept, Semaphore
    <3> QED
      BY <3>2, <3>3, <3>4
  <2> QED
    BY <1>6, <2>2, <2>3 DEF Reply
<1>7. ASSUME Lose PROVE SafeInv'
  <2>1. inFlight' \in Seq(Ids) /\ Len(inFlight') = Len(inFlight) - 1
    BY <1>7, RemoveFacts DEF Lose
  <2> QED
    BY <1>0, <1>7, <2>1 DEF Lose, OneCaller, Balance, Semaphore, Calling
<1>8. ASSUME UNCHANGED vars PROVE SafeInv'
  BY <1>8 DEF vars, OneCaller, Balance, Semaphore, Calling
<1> QED
  BY <1>1, <1>2, <1>3, <1>4, <1>5, <1>6, <1>7, <1>8 DEF Next

LEMMA SafeInvariant == Spec => []SafeInv
  BY InitSafe, NextSafe, PTL DEF Spec

(***************************************************************************)
(* The counters of wiced_send_ioctl have their types.                      *)
(***************************************************************************)
THEOREM IoctlTypeCorrect == Spec => []TypeOK
  BY SafeInvariant, PTL DEF SafeInv

(***************************************************************************)
(* Whatever is lost or late, a woken caller reads a reply that was not     *)
(* released and that nobody replaces.                                      *)
(***************************************************************************)
THEOREM ResponsesAreLive == Spec => []ResponseLive
<1>1. SafeInv => ResponseLive
  BY DEF SafeInv, TypeOK, Balance, Semaphore, ResponseLive
<1> QED
  BY <1>1, SafeInvariant, PTL
-----------------------------------------------------------------------------
(***************************************************************************)
(* As long as nothing was lost and no reply came between a timeout and its *)
(* count, the count is exact, and the last place of the channel is the     *)
(* only one that may hold the reply of the running call.                   *)
(***************************************************************************)
OwnIsLast ==
  ~lost => \A i \in 1 .. Len(inFlight) - 1 : inFlight[i] = "old"

Count ==
  /\ (\A c \in Caller : at[c] = "idle")
       => Len(inFlight) = abortCount /\ sleep = 0
  /\ \A c \in Caller : at[c] = "wait" \/ at[c] = "late" =>
       Len(inFlight) + sleep = abortCount + 1
  /\ \A c \in Caller : at[c] = "late" => sleep = 0
  /\ \A c \in Caller : at[c] = "wait" /\ sleep = 0 =>
       inFlight[Len(inFlight)] = "own"
  /\ sleep = 1 => response = "own" /\ abortCount = 0
  /\ \A c \in Caller : at[c] = "woken" => response = "own" /\ abortCount = 0

Exact == ~lost /\ ~raced => Count

StepInv == SafeInv /\ OwnIsLast /\ Exact

LEMMA InitStep == Init => StepInv
<1> SUFFICES ASSUME Init PROVE StepInv
  OBVIOUS
<1>1. \A c \in Caller : at[c] = "idle"
  BY DEF Init
<1> QED
  BY <1>1, InitSafe DEF Init, StepInv, OwnIsLast, Exact, Count

LEMMA NextStep == StepInv /\ [Next]_vars => StepInv'
<1> SUFFICES ASSUME StepInv, [Next]_vars PROVE (OwnIsLast /\ Exact)'
  BY NextSafe DEF StepInv
<1>0. Len(inFlight) \in Nat /\ sleep \in Nat /\ abortCount \in Nat
  BY SeqFacts DEF StepInv, SafeInv, TypeOK
<1>b. inFlight \in Seq(Ids) /\ at \in [Caller -> {"idle", "wait", "woken", "late"}]
  BY DEF StepInv, SafeInv, TypeOK
<1> USE DEF StepInv, SafeInv
<1>a. \A c, d \in Caller : at[c] # "idle" /\ at[d] # "idle" => c = d
  BY DEF OneCaller, Calling
<1>1. ASSUME NEW c \in Caller, Start(c) PROVE (OwnIsLast /\ Exact)'
  <2>1. inFlight' \in Seq(Ids) /\ Len(inFlight') = Len(inFlight) + 1
    BY <1>1, <1>b, SeqFacts DEF Start
  <2>2. \A i \in 1 .. Len(inFlight) : inFlight'[i] = "old"
    BY <1>0, <1>b, <1>1 DEF Start
  <2>3. OwnIsLast'
    BY <1>0, <2>1, <2>2 DEF OwnIsLast
  <2>4. \A d \in Caller : at[d] = "idle"
    BY <1>1 DEF Start, Calling
  <2>5. /\ sleep' = sleep /\ abortCount' = abortCount
        /\ lost' = lost /\ raced' = raced
        /\ at' = [at EXCEPT ![c] = "wait"]
    BY <1>1 DEF Start
  <2>6. /\ \A d \in Caller : at'[d] = IF d = c THEN "wait" ELSE "idle"
        /\ inFlight'[Len(inFlight')] = "own"
    BY <1>0, <1>b, <1>1, <2>4, <2>5 DEF Start
  <2>7. ASSUME Count PROVE Count'
    <3>1. sleep' = 0 /\ Len(inFlight') = abortCount' + 1
      BY <1>0, <2>1, <2>4, <2>5, <2>7 DEF Count
    <3>2. /\ at'[c] # "idle"
          /\ \A d \in Caller : at'[d] # "woken" /\ at'[d] # "late"
      BY <2>6
    <3> QED
      BY <2>6, <3>1, <3>2 DEF Count
  <2>8. Exact'
    BY <2>5, <2>7 DEF Exact
  <2> QED
    BY <2>3, <2>8
<1>2. ASSUME NEW c \in Caller, Woken(c) PROVE (OwnIsLast /\ Exact)'
  <2>1. OwnIsLast'
    BY <1>2 DEF Woken, OwnIsLast
  <2>2. sleep = 1 /\ sleep' = 0 /\ at' = [at EXCEPT ![c] = "woken"]
    BY <1>0, <1>2 DEF Woken, Semaphore
  <2>3. Count => Count'
    BY <1>0, <1>a, <1>b, <1>2, <2>2 DEF Woken, Count
  <2>4. Exact'
    BY <1>2, <2>3 DEF Woken, Exact
  <2> QED
    BY <2>1, <2>4
<1>3. ASSUME NEW c \in Caller, Read(c) PROVE (OwnIsLast /\ Exact)'
  <2>1. sleep = 0 /\ (Count => Len(inFlight) = 0 /\ abortCount = 0)
    <3>1. at[c] = "woken" /\ sleep = 0 /\ Len(inFlight) <= abortCount
      BY <1>3 DEF Read, Semaphore, Balance
    <3>2. Count => abortCount = 0
      BY <3>1 DEF Count
    <3> QED
      BY <1>0, <3>1, <3>2
  <2>2. Count => response = "own"
    BY <1>3 DEF Read, Count
  <2>3. response = "own" => \A d \in Caller : at'[d] = "idle"
    BY <1>a, <1>b, <1>3 DEF Read
  <2>4. ASSUME Count PROVE Count'
    <3>1. \A d \in Caller : at'[d] = "idle"
      BY <2>2, <2>3, <2>4
    <3>2. sleep' = 0 /\ Len(inFlight') = 0 /\ abortCount' = 0
      BY <1>3, <2>1, <2>4 DEF Read
    <3> QED
      BY <3>1, <3>2 DEF Count
  <2> QED
    BY <1>3, <2>4 DEF Read, OwnIsLast, Exact
<1>4. ASSUME NEW c \in Caller, Timeout(c) PROVE (OwnIsLast /\ Exact)'
  <2>1. OwnIsLast'
    BY <1>4 DEF Timeout, OwnIsLast
  <2>2. ASSUME Count PROVE Count'
    <3>1. /\ Len(inFlight) = abortCount + 1 /\ sleep = 0
          /\ UNCHANGED <<inFlight, sleep, abortCount>>
      BY <1>0, <1>4, <2>2 DEF Timeout, Count
    <3>2. \A d \in Caller : at'[d] = IF d = c THEN "late" ELSE "idle"
      BY <1>a, <1>b, <1>4 DEF Timeout
    <3>3. at'[c] # "idle"
      BY <3>2
    <3>4. (\A d \in Caller : at[d] = "wait" \/ at[d] = "late" =>
             Len(inFlight) + sleep = abortCount + 1)'
      BY <1>0, <3>1
    <3> QED
      BY <3>1, <3>2, <3>3, <3>4 DEF Count
  <2> QED
    BY <1>4, <2>1, <2>2 DEF Timeout, Exact
<1>5. ASSUME NEW c \in Caller, Abort(c) PROVE (OwnIsLast /\ Exact)'
  <2>1. OwnIsLast'
    BY <1>5 DEF Abort, OwnIsLast
  <2>2. at' = [at EXCEPT ![c] = "idle"] /\ \A d \in Caller : at'[d] = "idle"
    BY <1>a, <1>b, <1>5 DEF Abort
  <2>3. ASSUME Count PROVE Count'
    <3>1. Len(inFlight') = abortCount' /\ sleep' = 0
      BY <1>0, <1>5, <2>3 DEF Abort, Count
    <3> QED
      BY <2>2, <3>1 DEF Count
  <2> QED
    BY <1>5, <2>1, <2>3 DEF Abort, Exact
<1>6. ASSUME Reply PROVE (OwnIsLast /\ Exact)'
  <2>1. /\ inFlight' \in Seq(Ids) /\ Len(inFlight') = Len(inFlight) - 1
        /\ Len(inFlight) > 0 /\ at' = at /\ lost' = lost
        /\ Head(inFlight) = inFlight[1]
        /\ \A i \in 1 .. Len(inFlight) - 1 : inFlight'[i] = inFlight[i + 1]
    BY <1>6, <1>b, SeqFacts DEF Reply
  <2>2. OwnIsLast'
    <3> SUFFICES ASSUME ~lost, NEW i \in 1 .. Len(inFlight) - 2
                 PROVE  inFlight'[i] = "old"
      BY <1>0, <2>1 DEF OwnIsLast
    <3>1. i \in 1 .. Len(inFlight) - 1 /\ i + 1 \in 1 .. Len(inFlight) - 1
      BY <1>0
    <3> QED
      BY <2>1, <3>1 DEF OwnIsLast
  <2>3. CASE Ignore
    <3>1. abortCount # 0 /\ abortCount' = abortCount - 1 /\ sleep' = sleep
          /\ response' = response /\ raced' = raced
      BY <2>3 DEF Ignore
    <3>2. Len(inFlight) >= 2 => inFlight'[Len(inFlight')] = inFlight[Len(inFlight)]
      BY <1>0, <2>1
    <3>3. ASSUME Count PROVE Count'
      <4>1. Len(inFlight) - 1 + sleep = abortCount - 1 + 1 =>
              Len(inFlight') + sleep' = abortCount' + 1
        BY <1>0, <2>1, <3>1
      <4>2. (\A c \in Caller : at[c] = "wait" \/ at[c] = "late" =>
               Len(inFlight) + sleep = abortCount + 1)'
        BY <1>0, <2>1, <3>1, <3>3, <4>1 DEF Count
      <4>3. (\A c \in Caller : at[c] = "wait" /\ sleep = 0 =>
               inFlight[Len(inFlight)] = "own")'
        BY <1>0, <2>1, <3>1, <3>2, <3>3 DEF Count
      <4>4. ((\A c \in Caller : at[c] = "idle")
               => Len(inFlight) = abortCount /\ sleep = 0)'
        BY <1>0, <2>1, <3>1, <3>3 DEF Count
      <4>5. sleep # 1 /\ \A c \in Caller : at[c] # "woken"
        BY <1>0, <3>1, <3>3 DEF Count
      <4> QED
        BY <2>1, <3>1, <3>3, <4>2, <4>3, <4>4, <4>5 DEF Count
    <3> QED
      BY <2>1, <2>2, <3>1, <3>3 DEF Exact
  <2>4. CASE Accept
    <3>1. /\ abortCount = 0 /\ abortCount' = 0 /\ sleep = 0 /\ sleep' = 1
          /\ Len(inFlight) = 1 /\ response' = inFlight[1]
          /\ raced' = (raced \/ \E c \in Caller : at[c] = "late")
      BY <1>0, <2>1, <2>4 DEF Accept, Balance
    <3>2. ASSUME Count, \A c \in Caller : at[c] # "late" PROVE Count'
      <4>1. \A c \in Caller : at[c] # "woken"
        BY <1>0, <3>1 DEF Balance
      <4>5. ~ \A c \in Caller : at[c] = "idle"
        BY <3>1, <3>2 DEF Count
      <4>2. PICK c \in Caller : at[c] = "wait"
        BY <1>b, <3>2, <4>1, <4>5
      <4>3. response' = "own"
        BY <3>1, <3>2, <4>2 DEF Count
      <4>4. Len(inFlight') + sleep' = abortCount' + 1 /\ sleep' # 0
        BY <2>1, <3>1
      <4> QED
        BY <2>1, <3>1, <3>2, <4>1, <4>2, <4>3, <4>4 DEF Count
    <3>3. Exact'
      BY <2>1, <3>1, <3>2 DEF Exact
    <3> QED
      BY <2>2, <3>3
  <2> QED
    BY <1>6, <2>3, <2>4 DEF Reply
<1>7. ASSUME Lose PROVE (OwnIsLast /\ Exact)'
  BY <1>7 DEF Lose, OwnIsLast, Exact
<1>8. ASSUME UNCHANGED vars PROVE (OwnIsLast /\ Exact)'
  BY <1>8 DEF vars, OwnIsLast, Exact, Count
<1> QED
  BY <1>1, <1>2, <1>3, <1>4, <1>5, <1>6, <1>7, <1>8 DEF Next

LEMMA StepInvariant == Spec => []StepInv
  BY InitStep, NextStep, PTL DEF Spec

(***************************************************************************)
(* As long as the channel loses nothing and no reply comes between a       *)
(* timeout and its count, a caller's own reply is never ignored.           *)
(***************************************************************************)
THEOREM OwnRepliesAreKept == Spec => OwnReplyKeptInStep
<1>1. StepInv /\ [Next]_vars =>
        [abortCount' < abortCount /\ Head(inFlight) = "own" /\ ~lost /\ ~raced
           => \A c \in Caller : at[c] # "wait"]_vars
  <2> SUFFICES ASSUME StepInv, [Next]_vars, abortCount' < abortCount,
                      Head(inFlight) = "own", ~lost, ~raced,
                      NEW c \in Caller, at[c] = "wait"
               PROVE  FALSE
    OBVIOUS
  <2>1. /\ Len(inFlight) \in Nat /\ sleep \in Nat /\ abortCount \in Nat
        /\ inFlight \in Seq(Ids)
    BY SeqFacts DEF StepInv, SafeInv, TypeOK
  <2>2. inFlight # <<>> /\ abortCount # 0
    BY <2>1 DEF Next, Start, Woken, Read, Timeout, Abort, Reply, Ignore,
                Accept, Lose, vars
  <2>3. Len(inFlight) > 0 /\ inFlight[1] = "own"
    BY <2>1, <2>2, SeqFacts
  <2>4. Len(inFlight) = 1
    <3>1. \A i \in 1 .. Len(inFlight) - 1 : inFlight[i] = "old"
      BY DEF StepInv, OwnIsLast
    <3>2. Len(inFlight) > 1 => 1 \in 1 .. Len(inFlight) - 1
      BY <2>1
    <3>3. ~(Len(inFlight) > 1)
      BY <2>3, <3>1, <3>2
    <3>4. Len(inFlight) \in Nat /\ Len(inFlight) > 0
      BY <2>1, <2>3
    <3> QED
      BY <3>3, <3>4
  <2>5. Len(inFlight) + sleep = abortCount + 1 /\ (sleep = 1 => abortCount = 0)
    BY DEF StepInv, Exact, Count
  <2>6. sleep <= 1
    BY DEF StepInv, SafeInv, Semaphore
  <2> QED
    BY <2>1, <2>2, <2>4, <2>5, <2>6
<1> QED
  BY <1>1, StepInvariant, PTL DEF Spec, OwnReplyKeptInStep

(***************************************************************************)
(* Under the same conditions the semaphore, the count and the channel stay *)
(* in step, for any number of calls that give up.                          *)
(***************************************************************************)
THEOREM SemaphoreInSync == Spec => []InSync
<1>1. StepInv => InSync
  <2> SUFFICES ASSUME StepInv, ~lost, ~raced
               PROVE  /\ Calling = {} => sleep = 0 /\ Len(inFlight) = abortCount
                      /\ \A c \in Calling :
                           IF at[c] = "woken" THEN response = "own"
                             ELSE Len(inFlight) + sleep = abortCount + 1
    BY DEF InSync
  <2>1. Count /\ at \in [Caller -> {"idle", "wait", "woken", "late"}]
    BY DEF StepInv, SafeInv, TypeOK, Exact
  <2>2. Calling = {} => \A c \in Caller : at[c] = "idle"
    BY DEF Calling
  <2>3. \A c \in Calling : c \in Caller /\ at[c] \in {"wait", "woken", "late"}
    BY <2>1 DEF Calling
  <2> QED
    BY <2>1, <2>2, <2>3 DEF Count
<1> QED
  BY <1>1, StepInvariant, PTL
=============================================================================
