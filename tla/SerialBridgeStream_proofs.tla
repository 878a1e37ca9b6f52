--------------------- MODULE SerialBridgeStream_proofs ----------------------
(***************************************************************************)
(* SerialBridge implements ByteStream, for every packet size, as long as   *)
(* the escape timer does not expire while a byte is processed, and a       *)
(* connection opens when the bytes for the previous one are dealt with.    *)
(***************************************************************************)
EXTENDS SerialBridge_proofs

-----------------------------------------------------------------------------
(* The bytes that are owed are those in the buffer, then those that a      *)
(* thread holds: pluses, of which the last may be the byte that ended them.*)

Live == open /\ current

\* The byte that thread t carries through WXS2w_DataCharProcess.
Carried(t) == IF at[t] \in {"check", "lock"} THEN 1 ELSE 0

Held ==
  IF at["main"] \in {"count", "mark"} THEN esc + 1
  ELSE IF many THEN Carried("main") + esc + 1 - idx["main"]
  ELSE IF at["main"] # "idle" THEN Carried("main")
  ELSE Carried("worker") + esc - idx["worker"]

LastHeld ==
  IF many THEN escBuf[esc]
  ELSE IF at["main"] \in {"mark", "check", "lock"} THEN byte["main"]
  ELSE Plus

\* Where the threads are, and what their loops have left to do.
LoopInv ==
  /\ at["main"] # "idle" => at["worker"] = "idle"
  /\ at["worker"] = "idle" => idx["worker"] = 0
  /\ idx["worker"] <= esc
  /\ at["worker"] \in {"check", "lock"} => byte["worker"] = Plus /\ idx["worker"] >= 1
  /\ many => at["main"] \in {"loop", "check", "lock", "flush"} /\ idx["main"] <= esc + 1
  /\ many /\ at["main"] \in {"check", "lock"} =>
       idx["main"] >= 1 /\ byte["main"] = escBuf[idx["main"] - 1]
  /\ at["main"] = "loop" => many
  /\ ~many /\ at["main"] \notin {"idle", "count", "mark"} => esc = 0
  /\ at["main"] = "count" => idx["main"] = esc
  /\ \A k \in 0 .. 3 : (many /\ k = esc) \/ escBuf[k] = Plus

\* While a thread holds bytes of a connection, the line is in data mode.
ModeInv ==
  /\ closing => ~open
  /\ Live /\ (at["main"] # "idle" \/ esc > 0) => mode = "DATA"

OwedInv ==
  /\ ~Live => owed = <<>>
  /\ Live => Len(owed) = Len(txBuf) + Held
  /\ Live => \A k \in 1 .. Len(txBuf) : owed[k] = txBuf[k]
  /\ Live => \A k \in Len(txBuf) + 1 .. Len(owed) - 1 : owed[k] = Plus
  /\ Live /\ Held > 0 => owed[Len(owed)] = LastHeld

StreamInv == Inv /\ LoopInv /\ ModeInv /\ OwedInv

LEMMA HeldNat == ASSUME TypeOK, LoopInv PROVE Held \in Nat
<1>1. /\ esc \in Nat /\ idx["main"] \in Nat /\ idx["worker"] \in Nat
      /\ idx["worker"] <= esc /\ (many => idx["main"] <= esc + 1)
  BY DEF TypeOK, LoopInv, Callers
<1>2. \A t \in Callers : Carried(t) \in {0, 1}
  BY DEF Carried
<1>3. esc + 1 - idx["main"] \in Int /\ esc - idx["worker"] \in Nat
  BY <1>1
<1>4. CASE at["main"] \in {"count", "mark"}
  BY <1>1, <1>4 DEF Held
<1>5. CASE at["main"] \notin {"count", "mark"} /\ many
  <2>1. Held = Carried("main") + esc + 1 - idx["main"]
    BY <1>5 DEF Held
  <2>2. QED
    BY <1>1, <1>2, <1>5, <2>1 DEF Callers
<1>6. CASE at["main"] \notin {"count", "mark"} /\ ~many
  <2>1. Held = Carried("main") \/ Held = Carried("worker") + esc - idx["worker"]
    BY <1>6 DEF Held
  <2>2. QED
    BY <1>1, <1>2, <2>1 DEF Callers
<1>7. QED
  BY <1>4, <1>5, <1>6

\* A step that moves bytes between threads only.
LEMMA OwedFrame ==
  ASSUME OwedInv, owed' = owed, txBuf' = txBuf, open' = open, current' = current,
         Live => Held' = Held, Live /\ Held > 0 => LastHeld' = LastHeld
  PROVE  OwedInv'
<1>1. Live' = Live
  BY DEF Live
<1>2. QED
  BY <1>1 DEF OwedInv

\* A byte that the host types is owed at the end, and held by the main
\* thread.
LEMMA HostStream ==
  ASSUME StreamInv, Host, Inv', ~Overlap
  PROVE  LoopInv' /\ ModeInv' /\ OwedInv'
<1> USE DEF StreamInv, conn, escape, timers, Threads, Callers
<1>1. TypeOK /\ TypeOK'
  BY DEF Inv
<1>2. at["main"] = "idle" /\ at["worker"] = "idle" /\ mode = "DATA" /\ ~many
  BY DEF Host, TypeEscape, TypeAfterPluses, TypePlain, HostTypes, MainIdle, LoopInv
<1>3. Held = esc /\ LastHeld = Plus
  BY <1>1, <1>2 DEF Held, LastHeld, LoopInv, Carried, TypeOK
<1>4. ASSUME NEW b \in Bytes, Owe(b), txBuf' = txBuf, UNCHANGED conn,
             Held' = Held + 1, LastHeld' = b
      PROVE  OwedInv'
  <2>1. Live' = Live
    BY <1>4 DEF Live
  <2>2. Len(txBuf) \in Nat /\ Len(owed) \in Nat /\ esc \in Nat
    BY <1>1, LenProperties DEF TypeOK
  <2>3. CASE ~Live
    BY <1>4, <2>1, <2>3 DEF OwedInv, Owe, Live
  <2>4. CASE Live
    <3>1. owed' = Append(owed, b)
      BY <1>4, <2>4 DEF Owe, Live
    <3>2. /\ Len(owed') = Len(owed) + 1
          /\ owed'[Len(owed) + 1] = b
          /\ \A k \in 1 .. Len(owed) : owed'[k] = owed[k]
      BY <1>1, <1>4, <3>1, AppendProperties DEF TypeOK
    <3>3. \A k \in Len(txBuf) + 1 .. Len(owed) : owed[k] = Plus
      BY <1>3, <2>2, <2>4 DEF OwedInv
    <3>4. QED
      BY <1>3, <1>4, <2>1, <2>2, <2>4, <3>2, <3>3 DEF OwedInv
  <2>5. QED
    BY <2>3, <2>4
<1>5. CASE TypeEscape
  <2>1. LoopInv'
    BY <1>1, <1>2, <1>5 DEF TypeEscape, LoopInv, Goto, TypeOK
  <2>2. ModeInv'
    BY <1>2, <1>5 DEF TypeEscape, ModeInv, Live
  <2>3. Held' = Held + 1 /\ LastHeld' = Plus
    BY <1>1, <1>2, <1>3, <1>5 DEF TypeEscape, Goto, Held, LastHeld, TypeOK
  <2>4. OwedInv'
    BY <1>4, <1>5, <2>3 DEF TypeEscape, Bytes
  <2>5. QED
    BY <2>1, <2>2, <2>4
<1>6. ASSUME NEW b \in Bytes, TypeAfterPluses(b) PROVE LoopInv' /\ ModeInv' /\ OwedInv'
  <2>1. LoopInv'
    BY <1>1, <1>2, <1>6 DEF TypeAfterPluses, LoopInv, Goto, TypeOK
  <2>2. ModeInv'
    BY <1>2, <1>6 DEF TypeAfterPluses, ModeInv, Live
  <2>3. Held' = Held + 1 /\ LastHeld' = b
    BY <1>1, <1>2, <1>3, <1>6 DEF TypeAfterPluses, Goto, Held, LastHeld, TypeOK
  <2>4. OwedInv'
    BY <1>4, <1>6, <2>3 DEF TypeAfterPluses
  <2>5. QED
    BY <2>1, <2>2, <2>4
<1>7. ASSUME NEW b \in Bytes, TypePlain(b) PROVE LoopInv' /\ ModeInv' /\ OwedInv'
  <2>1. LoopInv'
    BY <1>1, <1>2, <1>7 DEF TypePlain, LoopInv, Goto, TypeOK
  <2>2. ModeInv'
    BY <1>2, <1>7 DEF TypePlain, ModeInv, Live
  <2>3. Held' = Held + 1 /\ LastHeld' = b
    BY <1>1, <1>2, <1>3, <1>7 DEF TypePlain, Goto, Held, LastHeld, TypeOK, Carried
  <2>4. OwedInv'
    BY <1>4, <1>7, <2>3 DEF TypePlain
  <2>5. QED
    BY <2>1, <2>2, <2>4
<1>8. QED
  BY <1>5, <1>6, <1>7 DEF Host

\* The main thread's own steps hand the held bytes on, one after the other.
LEMMA MainStream ==
  ASSUME StreamInv, Count \/ Mark \/ MainLoop \/ MainLoopEnd, Inv'
  PROVE  LoopInv' /\ ModeInv' /\ OwedInv'
<1> USE DEF StreamInv, conn, escape, timers, history, Threads, Callers
<1>1. TypeOK /\ TypeOK'
  BY DEF Inv
<1>2. at["worker"] = "idle" /\ idx["worker"] = 0 /\ at["main"] # "idle"
  BY DEF Count, Mark, MainLoop, MainLoopEnd, LoopInv
<1>3. /\ UNCHANGED <<mode, conn, txBuf, history>>
      /\ at'["worker"] = "idle" /\ idx'["worker"] = 0
  BY <1>1, <1>2 DEF Count, Mark, MainLoop, MainLoopEnd, Fetch, Goto, TypeOK
<1>4. CASE Count
  <2>1. LoopInv'
    BY <1>1, <1>2, <1>3, <1>4 DEF Count, LoopInv, Goto, TypeOK
  <2>2. Held' = Held /\ LastHeld' = LastHeld
    BY <1>1, <1>2, <1>3, <1>4 DEF Count, LoopInv, Goto, TypeOK, Held, LastHeld, Carried
  <2>3. QED
    BY <1>2, <1>3, <2>1, <2>2, OwedFrame DEF ModeInv, Live
<1>5. CASE Mark
  <2>1. /\ at'["main"] = "loop" /\ many' /\ idx'["main"] = 0 /\ esc' = esc
        /\ escBuf' = [escBuf EXCEPT ![esc] = byte["main"]] /\ ~many
    BY <1>1, <1>5 DEF Mark, LoopInv, Goto, TypeOK
  <2>2. LoopInv'
    BY <1>1, <1>3, <2>1 DEF LoopInv, TypeOK
  <2>3. Held' = Held /\ LastHeld' = LastHeld
    BY <1>1, <1>3, <1>5, <2>1 DEF Mark, TypeOK, Held, LastHeld, Carried
  <2>4. QED
    BY <1>2, <1>3, <2>1, <2>2, <2>3, OwedFrame DEF ModeInv, Live
<1>6. CASE MainLoop
  <2>1. /\ many /\ many' = many /\ esc' = esc /\ escBuf' = escBuf
        /\ at["main"] = "loop" /\ at'["main"] = "check" /\ idx["main"] <= esc
        /\ idx'["main"] = idx["main"] + 1 /\ byte'["main"] = escBuf[idx["main"]]
    BY <1>1, <1>6 DEF MainLoop, Fetch, LoopInv, Goto, TypeOK
  <2>2. LoopInv'
    BY <1>1, <1>3, <2>1 DEF LoopInv, TypeOK
  <2>3. Held' = Held /\ LastHeld' = LastHeld
    BY <1>1, <1>3, <2>1 DEF TypeOK, Held, LastHeld, Carried
  <2>4. QED
    BY <1>2, <1>3, <2>1, <2>2, <2>3, OwedFrame DEF ModeInv, Live
<1>7. CASE MainLoopEnd
  <2>1. /\ many /\ ~many' /\ esc' = 0 /\ idx["main"] = esc + 1
        /\ at["main"] = "loop" /\ at'["main"] = "idle"
        /\ escBuf' = [escBuf EXCEPT ![esc] = Plus]
    BY <1>1, <1>7 DEF MainLoopEnd, LoopInv, Goto, TypeOK
  <2>2. LoopInv'
    BY <1>1, <1>3, <2>1 DEF LoopInv, TypeOK
  <2>3. Held' = 0 /\ Held = 0
    BY <1>1, <1>3, <2>1 DEF TypeOK, Held, Carried
  <2>4. QED
    BY <1>2, <1>3, <2>1, <2>2, <2>3, OwedFrame DEF ModeInv, Live
<1>8. QED
  BY <1>4, <1>5, <1>6, <1>7

\* In WXS2w_DataCharProcess nothing of a connection is dropped, and the byte
\* that is stored is the first of the held ones.
LEMMA CallStream ==
  ASSUME StreamInv, NEW t \in Callers, Check(t) \/ Store(t), Inv'
  PROVE  LoopInv' /\ ModeInv' /\ OwedInv'
<1> USE DEF StreamInv, conn, escape, timers, history, Threads, Callers
<1>1. TypeOK /\ TypeOK'
  BY DEF Inv
<1>2. /\ UNCHANGED <<mode, conn, esc, escBuf, byte, idx, many, owed, net>>
      /\ at[t] \in {"check", "lock"} /\ at' = [at EXCEPT ![t] = at'[t]]
      /\ at'[t] \in {"lock", "flush", "loop", "idle"}
      /\ t = "worker" => at["main"] = "idle" /\ at'[t] # "idle"
      /\ t = "main" => (at'[t] = "idle" => ~many) /\ (at'[t] = "loop" => many)
  BY <1>1 DEF Check, Store, Return, Goto, LoopInv, TypeOK
<1>3. LoopInv'
  BY <1>1, <1>2 DEF LoopInv, TypeOK
<1>4. ModeInv'
  BY <1>1, <1>2 DEF ModeInv, LoopInv, Live, TypeOK
<1>5. Live => mode = "DATA" /\ current
  BY <1>1, <1>2 DEF ModeInv, LoopInv, Live, TypeOK
<1>6. CASE Check(t)
  <2>1. Live => at'[t] = "lock" /\ at[t] = "check"
    BY <1>1, <1>5, <1>6 DEF Check, Goto, TypeOK
  <2>2. Live => Held' = Held /\ LastHeld' = LastHeld
    BY <1>1, <1>2, <2>1 DEF Held, LastHeld, Carried, TypeOK
  <2>3. txBuf' = txBuf
    BY <1>6 DEF Check
  <2>4. QED
    BY <1>2, <1>3, <1>4, <2>2, <2>3, OwedFrame
<1>7. CASE Store(t)
  <2>1. at[t] = "lock" /\ at'[t] \in {"flush", "loop", "idle"} /\ txBuf' = Append(txBuf, byte[t])
    BY <1>1, <1>7 DEF Store, Return, Goto, TypeOK
  <2>2. /\ Held' = Held - 1 /\ Held > 0
        /\ byte[t] = IF Held = 1 THEN LastHeld ELSE Plus
        /\ Held' > 0 => LastHeld' = LastHeld
    <3>1. CASE t = "main" /\ many
      <4>1. /\ Held = esc + 2 - idx["main"] /\ Held' = esc + 1 - idx["main"]
            /\ LastHeld = escBuf[esc] /\ LastHeld' = escBuf[esc]
        BY <1>1, <1>2, <2>1, <3>1 DEF Held, LastHeld, Carried, LoopInv, TypeOK
      <4>2. /\ idx["main"] \in 1 .. esc + 1 /\ esc \in 0 .. 3
            /\ byte["main"] = escBuf[idx["main"] - 1]
        BY <1>1, <2>1, <3>1 DEF LoopInv, TypeOK
      <4>3. idx["main"] # esc + 1 => escBuf[idx["main"] - 1] = Plus
        <5>1. idx["main"] - 1 \in 0 .. 3
          BY <4>2
        <5>2. idx["main"] # esc + 1 => idx["main"] - 1 # esc
          BY <4>2
        <5>3. QED
          BY <5>1, <5>2 DEF LoopInv
      <4>4. idx["main"] = esc + 1 <=> Held = 1
        BY <4>1, <4>2
      <4>5. idx["main"] = esc + 1 => escBuf[idx["main"] - 1] = escBuf[esc]
        BY <4>2
      <4>6. Held' = Held - 1 /\ Held > 0
        BY <4>1, <4>2
      <4>7. QED
        BY <3>1, <4>1, <4>2, <4>3, <4>4, <4>5, <4>6
    <3>2. CASE t = "main" /\ ~many
      <4>1. Held = 1 /\ LastHeld = byte["main"]
        BY <1>1, <2>1, <3>2 DEF Held, LastHeld, Carried, TypeOK
      <4>2. Held' = 0
        BY <1>1, <1>2, <2>1, <3>2 DEF Held, Carried, LoopInv, TypeOK
      <4>3. QED
        BY <3>2, <4>1, <4>2
    <3>3. CASE t = "worker"
      <4>1. at["main"] = "idle" /\ at'["main"] = "idle" /\ ~many
        BY <1>1, <1>2, <3>3 DEF LoopInv, TypeOK
      <4>2. Held = 1 + esc - idx["worker"] /\ Held' = 0 + esc - idx["worker"]
        BY <1>1, <1>2, <2>1, <3>3, <4>1 DEF Held, Carried, TypeOK
      <4>3. LastHeld = Plus /\ LastHeld' = Plus /\ byte[t] = Plus
        BY <1>2, <2>1, <3>3, <4>1 DEF LastHeld, LoopInv
      <4>4. esc \in Nat /\ idx["worker"] \in Nat /\ idx["worker"] <= esc
        BY <1>1 DEF LoopInv, TypeOK
      <4>5. QED
        BY <4>2, <4>3, <4>4
    <3>4. QED
      BY <3>1, <3>2, <3>3
  <2>5. /\ Len(txBuf) \in Nat /\ Len(owed) \in Nat /\ Held \in Int
        /\ Held' \in Int
        /\ Len(txBuf') = Len(txBuf) + 1 /\ txBuf'[Len(txBuf) + 1] = byte[t]
        /\ \A k \in 1 .. Len(txBuf) : txBuf'[k] = txBuf[k]
    <3>1. byte[t] \in Bytes /\ txBuf \in Seq(Bytes)
      BY <1>1 DEF TypeOK
    <3>2. Held \in Int /\ Held' \in Int
      BY <1>1, <2>2, HeldNat
    <3>3. Len(owed) \in Nat
      BY <1>1, LenProperties DEF TypeOK
    <3>4. QED
      BY <2>1, <3>1, <3>2, <3>3, AppendProperties, LenProperties
  <2>6. Live' = Live
    BY <1>2 DEF Live
  <2>7. ASSUME Live
        PROVE  /\ Len(owed) = Len(txBuf') + Held'
               /\ \A k \in 1 .. Len(txBuf') : owed[k] = txBuf'[k]
               /\ \A k \in Len(txBuf') + 1 .. Len(owed) - 1 : owed[k] = Plus
               /\ Held' > 0 => owed[Len(owed)] = LastHeld'
    <3>1. owed[Len(txBuf) + 1] = byte[t]
      BY <2>2, <2>5, <2>7 DEF OwedInv
    <3>2. Len(owed) = Len(txBuf') + Held'
      BY <2>2, <2>5, <2>7 DEF OwedInv
    <3>3. \A k \in 1 .. Len(txBuf') : owed[k] = txBuf'[k]
      <4>1. ASSUME NEW k \in 1 .. Len(txBuf') PROVE owed[k] = txBuf'[k]
        <5>1. CASE k = Len(txBuf) + 1
          BY <2>5, <3>1, <5>1
        <5>2. CASE k # Len(txBuf) + 1
          <6>1. k \in 1 .. Len(txBuf)
            BY <2>5, <5>2
          <6>2. QED
            BY <2>5, <2>7, <6>1 DEF OwedInv
        <5>3. QED
          BY <5>1, <5>2
      <4>2. QED
        BY <4>1
    <3>4. \A k \in Len(txBuf') + 1 .. Len(owed) - 1 : owed[k] = Plus
      BY <2>5, <2>7 DEF OwedInv
    <3>5. Held' > 0 => owed[Len(owed)] = LastHeld'
      BY <2>2, <2>5, <2>7 DEF OwedInv
    <3>6. QED
      BY <3>2, <3>3, <3>4, <3>5
  <2>8. OwedInv'
    BY <1>2, <2>6, <2>7 DEF OwedInv
  <2>9. QED
    BY <1>3, <1>4, <2>8
<1>8. QED
  BY <1>6, <1>7

\* A transmission takes exactly the bytes in the buffer from the owed ones.
LEMMA FlushStream ==
  ASSUME StreamInv, NEW t \in Threads, Flush(t), Inv'
  PROVE  LoopInv' /\ ModeInv' /\ OwedInv'
<1> USE DEF StreamInv, conn, escape, timers, Threads, Callers
<1>1. TypeOK /\ TypeOK'
  BY DEF Inv
<1>2. /\ UNCHANGED <<conn, esc, escBuf, byte, idx, many>>
      /\ at[t] = "flush" /\ at' = [at EXCEPT ![t] = at'[t]]
      /\ at'[t] \in {"loop", "idle"}
      /\ t = "worker" => at["main"] = "idle" /\ at'[t] # "idle"
      /\ t = "main" => (at'[t] = "idle" => ~many) /\ (at'[t] = "loop" => many)
      /\ Live' = Live
  BY <1>1 DEF Flush, Return, Goto, LoopInv, TypeOK, Live
<1>3. LoopInv'
  BY <1>1, <1>2 DEF LoopInv, TypeOK
<1>4. Live => mode' = mode
  BY DEF Flush, Transmit, Live
<1>5. ModeInv'
  BY <1>1, <1>2, <1>4 DEF ModeInv, LoopInv, Live, TypeOK
<1>6. Held' = Held /\ LastHeld' = LastHeld
  BY <1>1, <1>2 DEF Held, LastHeld, Carried, LoopInv, TypeOK
<1>7. /\ Len(txBuf) \in Nat /\ Len(owed) \in Nat /\ Held \in Int
      /\ txBuf' = <<>> /\ Len(txBuf') = 0
  <2>1. Held \in Int
    BY <1>1, HeldNat
  <2>2. QED
    BY <1>1, <2>1, LenProperties, EmptySeq DEF TypeOK, Flush
<1>8. OwedInv'
  <2>1. CASE ~Live
    <3>1. owed' = owed
      BY <2>1 DEF Flush, Transmit, Live, history
    <3>2. QED
      BY <1>2, <2>1, <3>1 DEF OwedInv
  <2>2. CASE Live /\ txBuf = <<>>
    <3>1. owed' = owed
      BY <2>2 DEF Flush, Transmit, Live, history
    <3>2. QED
      BY <1>2, <1>6, <1>7, <2>2, <3>1, OwedFrame
  <2>3. CASE Live /\ txBuf # <<>>
    <3>1. owed' = SubSeq(owed, Len(txBuf) + 1, Len(owed))
      BY <2>3 DEF Flush, Transmit, Live, DropFirst
    <3>2. Held >= 0
      BY <1>1, HeldNat
    <3>3. Len(owed) = Len(txBuf) + Held
      BY <2>3 DEF OwedInv
    <3>4. /\ Len(owed') = Held
          /\ \A k \in 1 .. Held : owed'[k] = owed[Len(txBuf) + k]
      <4>1. \A k \in Len(txBuf) + 1 .. Len(owed) : owed[k] \in Bytes
        BY <1>1, <1>7, ElementOfSeq DEF TypeOK
      <4>2. /\ Len(txBuf) + 1 \in Int /\ Len(owed) - (Len(txBuf) + 1) + 1 = Held
            /\ Len(txBuf) + 1 <= Len(owed) <=> Held # 0
        BY <1>7, <3>2, <3>3
      <4>3. /\ Len(owed') = IF Len(txBuf) + 1 <= Len(owed) THEN Held ELSE 0
            /\ \A k \in 1 .. Held : owed'[k] = owed[Len(txBuf) + 1 + k - 1]
        BY <1>7, <3>1, <4>1, <4>2, SubSeqProperties
      <4>4. QED
        BY <1>7, <3>2, <4>2, <4>3
    <3>5. \A k \in 1 .. Held - 1 : owed'[k] = Plus
      <4>1. ASSUME NEW k \in 1 .. Held - 1 PROVE owed'[k] = Plus
        <5>1. Len(txBuf) + k \in Len(txBuf) + 1 .. Len(owed) - 1 /\ k \in 1 .. Held
          BY <1>7, <3>2, <3>3
        <5>2. QED
          BY <2>3, <3>4, <5>1 DEF OwedInv
      <4>2. QED
        BY <4>1
    <3>6. Held > 0 => owed'[Held] = LastHeld
      BY <1>7, <2>3, <3>3, <3>4 DEF OwedInv
    <3>7. QED
      BY <1>2, <1>6, <1>7, <2>3, <3>4, <3>5, <3>6 DEF OwedInv
  <2>4. QED
    BY <2>1, <2>2, <2>3
<1>9. QED
  BY <1>3, <1>5, <1>8

\* The timers, and the worker's steps other than its calls.
LEMMA WorkerStream ==
  ASSUME StreamInv, Inv', ~Overlap,
         \/ NagleExpires \/ EscExpires \/ NagleHandler \/ EscHandlerEscapes
         \/ EscHandlerReturns \/ WorkerLoop \/ WorkerLoopEnd
  PROVE  LoopInv' /\ ModeInv' /\ OwedInv'
<1> USE DEF StreamInv, conn, escape, thread, history, Threads, Callers
<1>1. TypeOK /\ TypeOK'
  BY DEF Inv
<1>2. CASE NagleExpires \/ EscExpires \/ NagleHandler
  <2>1. UNCHANGED <<mode, conn, escape, thread, txBuf, history>>
    BY <1>2 DEF NagleExpires, EscExpires, Expires, NagleHandler
  <2>2. LoopInv' /\ ModeInv'
    BY <2>1 DEF LoopInv, ModeInv, Live
  <2>3. Held' = Held /\ LastHeld' = LastHeld
    BY <2>1 DEF Held, LastHeld, Carried
  <2>4. QED
    BY <2>1, <2>2, <2>3, OwedFrame
<1>3. CASE EscHandlerEscapes
  <2>1. /\ at["main"] = "idle" /\ at["worker"] = "idle" /\ esc = 3 /\ ~many
        /\ idx["worker"] = 0
    BY <1>1, <1>3 DEF EscHandlerEscapes, Event, LoopInv, TypeOK
  <2>2. UNCHANGED <<conn, escBuf, thread, txBuf>> /\ esc' = 0 /\ owed' = DropLast(owed, 3)
    BY <1>3 DEF EscHandlerEscapes
  <2>3. LoopInv' /\ ModeInv'
    BY <1>1, <2>1, <2>2 DEF LoopInv, ModeInv, Live
  <2>4. Held = 3 /\ Held' = 0
    BY <1>1, <2>1, <2>2 DEF Held, Carried
  <2>5. Len(owed) \in Nat /\ Len(txBuf) \in Nat
    BY <1>1, LenProperties DEF TypeOK
  <2>6. owed' = SubSeq(owed, 1, Len(owed) - 3)
    BY <2>2 DEF DropLast
  <2>7. CASE ~Live
    <3>1. owed = <<>> /\ Len(owed) = 0
      BY <2>7, EmptySeq DEF OwedInv
    <3>2. owed' = <<>>
      BY <2>6, <3>1, SubSeqProperties, EmptySeq
    <3>3. QED
      BY <2>2, <2>3, <2>7, <3>2 DEF OwedInv, Live
  <2>8. CASE Live
    <3>1. Len(owed) = Len(txBuf) + 3
      BY <2>4, <2>8 DEF OwedInv
    <3>2. \A k \in 1 .. Len(txBuf) : owed[k] \in Bytes
      BY <1>1, <2>5, <3>1, ElementOfSeq DEF TypeOK
    <3>3. owed' = SubSeq(owed, 1, Len(txBuf))
      <4>1. Len(owed) - 3 = Len(txBuf)
        BY <2>5, <3>1
      <4>2. QED
        BY <2>6, <4>1
    <3>4. Len(owed') = Len(txBuf) /\ \A k \in 1 .. Len(txBuf) : owed'[k] = owed[k]
      BY <2>5, <3>1, <3>2, <3>3, SubSeqProperties
    <3>5. QED
      BY <2>2, <2>3, <2>4, <2>5, <2>8, <3>4 DEF OwedInv, Live
  <2>9. QED
    BY <2>7, <2>8
<1>4. CASE EscHandlerReturns
  <2>1. /\ at["main"] = "idle" /\ at["worker"] = "idle" /\ idx["worker"] = 0 /\ ~many
        /\ UNCHANGED <<mode, conn, escape, many, txBuf, history>> /\ byte' = byte
        /\ idx'["worker"] = 0 /\ idx'["main"] = idx["main"]
        /\ at'["worker"] = "loop" /\ at'["main"] = "idle"
    BY <1>1, <1>4 DEF EscHandlerReturns, Event, LoopInv, Goto, TypeOK
  <2>2. LoopInv' /\ ModeInv'
    BY <1>1, <2>1 DEF LoopInv, ModeInv, Live
  <2>3. Held' = Held /\ LastHeld' = LastHeld
    BY <1>1, <2>1 DEF Held, LastHeld, Carried
  <2>4. QED
    BY <2>1, <2>2, <2>3, OwedFrame
<1>5. CASE WorkerLoop
  <2>1. /\ at["main"] = "idle" /\ at["worker"] = "loop" /\ idx["worker"] < esc /\ ~many
        /\ UNCHANGED <<mode, conn, escape, many, txBuf, history>>
        /\ byte'["worker"] = Plus /\ byte'["main"] = byte["main"]
        /\ idx'["worker"] = idx["worker"] + 1 /\ idx'["main"] = idx["main"]
        /\ at'["worker"] = "check" /\ at'["main"] = "idle"
    BY <1>1, <1>5 DEF WorkerLoop, Fetch, LoopInv, Goto, TypeOK, timers
  <2>2. LoopInv' /\ ModeInv'
    BY <1>1, <2>1 DEF LoopInv, ModeInv, Live, TypeOK
  <2>3. Held' = Held /\ LastHeld' = LastHeld
    <3>1. /\ Held = 0 + esc - idx["worker"]
          /\ Held' = 1 + esc - (idx["worker"] + 1)
      BY <2>1 DEF Held, Carried
    <3>2. esc \in Nat /\ idx["worker"] \in Nat
      BY <1>1 DEF TypeOK
    <3>3. QED
      BY <2>1, <3>1, <3>2 DEF LastHeld
  <2>4. QED
    BY <2>1, <2>2, <2>3, OwedFrame
<1>6. CASE WorkerLoopEnd
  <2>1. /\ at["main"] = "idle" /\ at["worker"] = "loop" /\ idx["worker"] >= esc /\ ~many
        /\ UNCHANGED <<mode, conn, escBuf, many, txBuf, history>> /\ byte' = byte
        /\ idx'["worker"] = 0 /\ idx'["main"] = idx["main"] /\ esc' = 0
        /\ at'["worker"] = "idle" /\ at'["main"] = "idle"
    BY <1>1, <1>6 DEF WorkerLoopEnd, LoopInv, Goto, TypeOK
  <2>2. idx["worker"] = esc
    BY <1>1, <2>1 DEF LoopInv, TypeOK
  <2>3. LoopInv' /\ ModeInv'
    BY <1>1, <2>1 DEF LoopInv, ModeInv, Live, TypeOK
  <2>4. Held' = Held /\ LastHeld' = LastHeld
    <3>1. Held = 0 + esc - idx["worker"] /\ Held' = 0 + 0 - 0
      BY <2>1 DEF Held, Carried
    <3>2. esc \in Nat /\ idx["worker"] \in Nat
      BY <1>1 DEF TypeOK
    <3>3. QED
      BY <2>1, <2>2, <3>1, <3>2 DEF LastHeld
  <2>5. QED
    BY <2>1, <2>3, <2>4, OwedFrame
<1>7. QED
  BY <1>2, <1>3, <1>4, <1>5, <1>6

\* The queue thread, the network, and the commands.
LEMMA OtherStream ==
  ASSUME StreamInv, Inv', ~Reuse,
         QueueTake \/ QueueLock \/ Network \/ Disassociate \/ Sdata
  PROVE  LoopInv' /\ ModeInv' /\ OwedInv'
<1> USE DEF StreamInv, conn, escape, thread, timers, history, Threads, Callers
<1>1. TypeOK /\ TypeOK'
  BY DEF Inv
<1>2. CASE QueueTake \/ QueueLock
  <2>1. /\ UNCHANGED <<mode, conn, escape, byte, idx, many, txBuf, history>>
        /\ at'["main"] = at["main"] /\ at'["worker"] = at["worker"]
    BY <1>1, <1>2 DEF QueueTake, QueueLock, Goto, TypeOK
  <2>2. LoopInv' /\ ModeInv'
    BY <2>1 DEF LoopInv, ModeInv, Live
  <2>3. Held' = Held /\ LastHeld' = LastHeld
    BY <2>1 DEF Held, LastHeld, Carried
  <2>4. QED
    BY <2>1, <2>2, <2>3, OwedFrame
<1>3. CASE Network \/ Disassociate \/ Sdata
  <2>1. UNCHANGED <<escape, thread>>
    BY <1>3 DEF Network, Opening, OpenList, OpenFails, Connect, EnterData, CloseClear,
                CloseNotify, Disassociate, Sdata
  <2>2. LoopInv'
    BY <2>1 DEF LoopInv
  <2>3. Held' = Held /\ LastHeld' = LastHeld
    BY <2>1 DEF Held, LastHeld, Carried
  <2>4. CASE OpenList \/ Connect
    <3>1. /\ txBuf = <<>> /\ txBuf' = txBuf
          /\ esc = 0 /\ at["main"] = "idle" /\ at["worker"] = "idle"
      BY <1>1, <2>4 DEF OpenList, Connect, Settled
    <3>2. Held' = 0 /\ Held = 0
      BY <2>1, <2>3, <3>1 DEF Held, LoopInv, Carried
    <3>3. closing' => ~open'
      BY <2>4 DEF OpenList, Connect, ModeInv
    <3>4. ModeInv'
      BY <2>1, <3>1, <3>3 DEF ModeInv
    <3>5. owed' = <<>>
      <4>1. CASE OpenList
        BY <4>1 DEF OpenList
      <4>2. CASE Connect
        <5>1. owed' = owed /\ Len(txBuf) = 0
          BY <3>1, <4>2, EmptySeq DEF Connect
        <5>2. Live => Len(owed) = 0
          BY <3>2, <5>1 DEF OwedInv
        <5>3. QED
          BY <1>1, <5>1, <5>2, EmptySeq DEF OwedInv, TypeOK
      <4>3. QED
        BY <2>4, <4>1, <4>2
    <3>6. Len(txBuf') = 0 /\ Len(owed') = 0
      BY <3>1, <3>5, EmptySeq
    <3>7. OwedInv'
      BY <3>1, <3>2, <3>5, <3>6 DEF OwedInv
    <3>8. QED
      BY <2>2, <3>4, <3>7
  <2>10. CASE OpenFails
    BY <2>2, <2>10 DEF OpenFails, ModeInv, OwedInv, Live
  <2>11. CASE EnterData
    <3>1. /\ UNCHANGED <<current, open, closing, txBuf, history>>
          /\ mode = "DATA" => mode' = "DATA"
      BY <2>11 DEF EnterData
    <3>2. ModeInv'
      BY <2>1, <3>1 DEF ModeInv, Live
    <3>3. QED
      BY <2>2, <2>3, <3>1, <3>2, OwedFrame
  <2>5. CASE CloseClear
    BY <2>2, <2>5 DEF CloseClear, ModeInv, OwedInv, Live
  <2>6. CASE CloseNotify
    BY <2>2, <2>6 DEF CloseNotify, ModeInv, OwedInv, Live
  <2>7. CASE Disassociate
    BY <2>2, <2>7 DEF Disassociate, ModeInv, OwedInv, Live
  <2>8. CASE Sdata
    <3>1. UNCHANGED <<conn, txBuf, history>> /\ mode' = "DATA"
      BY <2>8 DEF Sdata
    <3>2. ModeInv'
      BY <3>1 DEF ModeInv
    <3>3. QED
      BY <2>2, <2>3, <3>1, <3>2, OwedFrame
  <2>9. QED
    BY <1>3, <2>4, <2>5, <2>6, <2>7, <2>8, <2>10, <2>11 DEF Network, Opening
<1>4. QED
  BY <1>2, <1>3

LEMMA InitStream == Init => StreamInv
<1> SUFFICES ASSUME Init PROVE StreamInv
  OBVIOUS
<1>1. LoopInv
  BY DEF Init, LoopInv, Threads, Callers
<1>2. ModeInv /\ OwedInv
  BY DEF Init, ModeInv, OwedInv, Live
<1>3. QED
  BY <1>1, <1>2, InitInv DEF StreamInv

\* StreamInv is inductive under the two assumptions on timing.
LEMMA StepStream ==
  ASSUME ~Overlap, ~Reuse
  PROVE  StreamInv /\ [Next]_vars => StreamInv'
<1> SUFFICES ASSUME StreamInv, [Next]_vars PROVE StreamInv'
  OBVIOUS
<1>1. Inv'
  BY StepInv DEF StreamInv
<1>2. CASE Next
  <2>1. CASE Host
    BY <1>1, <2>1, HostStream DEF StreamInv
  <2>2. CASE MainRuns
    BY <1>1, <2>2, MainStream, CallStream, FlushStream
    DEF StreamInv, MainRuns, Calls, Callers, Threads
  <2>3. CASE WorkerRuns
    BY <1>1, <2>3, WorkerStream, CallStream, FlushStream
    DEF StreamInv, WorkerRuns, Calls, Callers, Threads
  <2>4. CASE QueueRuns
    BY <1>1, <2>4, OtherStream, FlushStream DEF StreamInv, QueueRuns, Threads
  <2>5. CASE TimerRuns
    BY <1>1, <2>5, WorkerStream DEF StreamInv, TimerRuns
  <2>6. CASE Network \/ Disassociate \/ Sdata
    BY <1>1, <2>6, OtherStream DEF StreamInv
  <2>7. QED
    BY <1>2, <2>1, <2>2, <2>3, <2>4, <2>5, <2>6 DEF Next
<1>3. CASE UNCHANGED vars
  <2>1. UNCHANGED <<mode, conn, escape, thread, txBuf, history>>
    BY <1>3 DEF vars
  <2>2. LoopInv' /\ ModeInv'
    BY <2>1 DEF StreamInv, LoopInv, ModeInv, Live, conn, escape, thread
  <2>3. Held' = Held /\ LastHeld' = LastHeld
    BY <2>1 DEF Held, LastHeld, Carried, escape, thread
  <2>4. OwedInv'
    BY <2>1, <2>3, OwedFrame DEF StreamInv, conn, history
  <2>5. QED
    BY <1>1, <2>2, <2>4 DEF StreamInv
<1>4. QED
  BY <1>2, <1>3

-----------------------------------------------------------------------------
(* The refinement                                                          *)

\* The bytes that leave the buffer are the first of the owed ones.
LEMMA FlushSends ==
  ASSUME StreamInv, NEW t \in Threads, Flush(t)
  PROVE  [Stream!Next]_<<owed, net>>
<1>1. TypeOK /\ OwedInv /\ LoopInv
  BY DEF StreamInv, Inv
<1>2. Len(txBuf) \in Nat /\ Len(owed) \in Nat /\ Held \in Nat
  BY <1>1, LenProperties, HeldNat DEF TypeOK
<1>3. CASE UNCHANGED history
  BY <1>3 DEF history
<1>4. CASE /\ txBuf # <<>> /\ Live /\ owed' = DropFirst(owed, Len(txBuf))
           /\ \E sent \in 0 .. Len(txBuf) : net' = net \o SubSeq(txBuf, 1, sent)
  <2>1. PICK sent \in 0 .. Len(txBuf) : net' = net \o SubSeq(txBuf, 1, sent)
    BY <1>4
  <2>2. Len(txBuf) \in 1 .. Len(owed)
    <3>1. Len(owed) = Len(txBuf) + Held
      BY <1>1, <1>4 DEF OwedInv
    <3>2. Len(txBuf) # 0
      BY <1>1, <1>4, EmptySeq DEF TypeOK
    <3>3. QED
      BY <1>2, <3>1, <3>2
  <2>3. SubSeq(txBuf, 1, sent) = SubSeq(owed, 1, sent)
    <3>1. \A k \in 1 .. Len(txBuf) : owed[k] = txBuf[k]
      BY <1>1, <1>4 DEF OwedInv
    <3>2. \A k \in 1 .. sent : owed[k] = txBuf[k]
      BY <1>2, <2>1, <3>1
    <3>3. SubSeq(txBuf, 1, sent) = [k \in 1 .. sent |-> txBuf[k]]
          /\ SubSeq(owed, 1, sent) = [k \in 1 .. sent |-> owed[k]]
      BY <1>2, <2>1
    <3>4. QED
      BY <3>2, <3>3
  <2>4. Stream!Send(Len(txBuf), sent)
    BY <1>4, <2>1, <2>3 DEF Stream!Send, DropFirst
  <2>5. QED
    BY <2>1, <2>2, <2>4 DEF Stream!Next
<1>5. QED
  BY <1>3, <1>4 DEF Flush, Transmit, Live

\* The escape timer ends data mode after three pluses only, which are the
\* last bytes owed.
LEMMA EscapeAfterPluses ==
  ASSUME StreamInv, EscHandlerEscapes, Live, ~Overlap
  PROVE  Len(owed) >= 3 /\ \A k \in Len(owed) - 2 .. Len(owed) : owed[k] = Plus
<1>1. TypeOK /\ OwedInv /\ LoopInv
  BY DEF StreamInv, Inv
<1>2. Len(owed) \in Nat /\ Len(txBuf) \in Nat
  BY <1>1, LenProperties DEF TypeOK
<1>3. /\ at["main"] = "idle" /\ at["worker"] = "idle" /\ esc = 3 /\ ~many
      /\ idx["worker"] = 0
  BY <1>1 DEF EscHandlerEscapes, Event, LoopInv, TypeOK
<1>4. Held = 3 /\ LastHeld = Plus
  BY <1>3 DEF Held, LastHeld, Carried
<1>5. Len(owed) = Len(txBuf) + 3
  BY <1>1, <1>4 DEF OwedInv
<1>6. owed[Len(owed)] = Plus
  BY <1>1, <1>4 DEF OwedInv
<1>7. \A k \in Len(txBuf) + 1 .. Len(owed) - 1 : owed[k] = Plus
  BY <1>1 DEF OwedInv
<1>8. QED
  BY <1>2, <1>5, <1>6, <1>7

\* Each step is a step of ByteStream, or leaves its variables alone.
LEMMA StepRefines ==
  ASSUME ~Overlap, ~Reuse
  PROVE  StreamInv /\ [Next]_vars => [Stream!Next]_<<owed, net>>
<1> SUFFICES ASSUME StreamInv, [Next]_vars PROVE [Stream!Next]_<<owed, net>>
  OBVIOUS
<1>1. TypeOK /\ OwedInv /\ LoopInv
  BY DEF StreamInv, Inv
<1>2. ASSUME UNCHANGED history PROVE [Stream!Next]_<<owed, net>>
  BY <1>2 DEF history
<1>3. CASE Host
  <2>1. PICK b \in Bytes : Owe(b)
    <3>1. Plus \in Bytes
      BY DEF Bytes
    <3>2. QED
      BY <1>3, <3>1 DEF Host, TypeEscape, TypeAfterPluses, TypePlain
  <2>2. Stream!Type(b) \/ UNCHANGED history
    BY <2>1 DEF Owe, Stream!Type, history
  <2>3. QED
    BY <1>2, <2>2 DEF Stream!Next
<1>4. CASE Count \/ Mark \/ MainLoop \/ MainLoopEnd \/ (\E t \in Callers : Check(t) \/ Store(t))
  BY <1>2, <1>4 DEF Count, Mark, MainLoop, MainLoopEnd, Fetch, Check, Store, history
<1>5. CASE TimerRuns \/ NagleHandler \/ EscHandlerReturns \/ WorkerLoop \/ WorkerLoopEnd
  BY <1>2, <1>5 DEF TimerRuns, NagleExpires, EscExpires, Expires, NagleHandler,
                    EscHandlerReturns, WorkerLoop, WorkerLoopEnd, Fetch, history
<1>6. CASE EscHandlerEscapes
  <2>1. owed' = SubSeq(owed, 1, Len(owed) - 3) /\ net' = net
    BY <1>6 DEF EscHandlerEscapes, DropLast
  <2>2. Len(owed) \in Nat /\ Len(txBuf) \in Nat
    BY <1>1, LenProperties DEF TypeOK
  <2>3. CASE ~Live
    <3>1. owed = <<>> /\ Len(owed) = 0
      BY <1>1, <2>3, EmptySeq DEF OwedInv
    <3>2. owed' = <<>>
      BY <2>1, <3>1, SubSeqProperties, EmptySeq
    <3>3. QED
      BY <2>1, <3>1, <3>2
  <2>4. CASE Live
    <3>1. Stream!Escape
      BY <1>6, <2>1, <2>4, EscapeAfterPluses DEF Stream!Escape
    <3>2. QED
      BY <3>1 DEF Stream!Next
  <2>5. QED
    BY <2>3, <2>4
<1>7. CASE QueueTake \/ QueueLock \/ Sdata \/ Connect \/ EnterData \/ CloseNotify
  BY <1>2, <1>7 DEF QueueTake, QueueLock, Sdata, Connect, EnterData, CloseNotify, history
<1>8. CASE OpenList \/ OpenFails \/ CloseClear \/ Disassociate
  BY <1>8 DEF OpenList, OpenFails, CloseClear, Disassociate, Stream!Next, Stream!Discard
<1>9. CASE \E t \in Threads : Flush(t)
  BY <1>9, FlushSends
<1>10. CASE UNCHANGED vars
  BY <1>2, <1>10 DEF vars
<1>11. QED
  <2>1. CASE MainRuns
    BY <2>1, <1>4, <1>9 DEF MainRuns, Calls, Callers, Threads
  <2>2. CASE WorkerRuns
    BY <2>2, <1>4, <1>5, <1>6, <1>9 DEF WorkerRuns, Calls, Callers, Threads
  <2>3. CASE QueueRuns \/ TimerRuns
    BY <2>3, <1>5, <1>7, <1>9 DEF QueueRuns, Threads
  <2>4. CASE Network \/ Disassociate \/ Sdata
    BY <2>4, <1>7, <1>8 DEF Network, Opening
  <2>5. QED
    BY <2>1, <2>2, <2>3, <2>4, <1>3, <1>10 DEF Next

\* The host's bytes reach the connection in order and once each, although two
\* threads store them, three transmit them and three pluses may be held back:
\* provided that the escape timer does not expire while a byte is processed
\* and that connections do not follow each other too closely.
THEOREM BridgeKeepsStream ==
  ASSUME ~Overlap, ~Reuse
  PROVE  Spec => StreamKept
<1>1. Init => Stream!Init
  BY DEF Init, Stream!Init
<1>2. Spec => []StreamInv
  BY InitStream, StepStream, PTL DEF Spec
<1>3. QED
  BY <1>1, <1>2, StepRefines, PTL DEF Spec, StreamKept, Stream!Spec

\* While a connection stays, data mode ends by an escape sequence only.
THEOREM DataModeEndsByEscape ==
  ASSUME ~Overlap, ~Reuse
  PROVE  Spec => LeavesOnEscape
<1> DEFINE Leaves == mode = "DATA" /\ mode' = "COMMAND" /\ open /\ current /\ open' /\ current'
           Escaped == Len(owed) >= 3 /\ \A k \in Len(owed) - 2 .. Len(owed) : owed[k] = Plus
<1>1. ASSUME StreamInv, Next, Leaves PROVE Escaped
  <2>1. Live /\ ~closing /\ mode' # mode /\ current'
    BY <1>1 DEF StreamInv, ModeInv, Live
  <2>2. EscHandlerEscapes
    <3>1. ~Host /\ ~Sdata
      BY <2>1, <1>1 DEF Host, TypeEscape, TypeAfterPluses, TypePlain, Sdata
    <3>2. \A t \in Threads : ~Check(t) /\ ~Store(t) /\ ~Flush(t)
      BY <2>1 DEF Check, Store, Flush, Transmit, Live
    <3>3. ~Count /\ ~Mark /\ ~MainLoop /\ ~MainLoopEnd /\ ~WorkerLoop /\ ~WorkerLoopEnd
      BY <2>1 DEF Count, Mark, MainLoop, MainLoopEnd, WorkerLoop, WorkerLoopEnd, Fetch
    <3>4. ~TimerRuns /\ ~NagleHandler /\ ~EscHandlerReturns /\ ~QueueTake /\ ~QueueLock
      BY <2>1 DEF TimerRuns, NagleExpires, EscExpires, Expires, NagleHandler,
                  EscHandlerReturns, QueueTake, QueueLock
    <3>5. ~Network /\ ~Disassociate
      BY <1>1, <2>1 DEF Network, Opening, OpenList, OpenFails, Connect, EnterData,
                  CloseClear, CloseNotify, Disassociate, Live
    <3>6. QED
      BY <1>1, <3>1, <3>2, <3>3, <3>4, <3>5
      DEF Next, MainRuns, WorkerRuns, QueueRuns, Calls, Callers, Threads
  <2>3. QED
    BY <1>1, <2>1, <2>2, EscapeAfterPluses
<1>2. ASSUME StreamInv, [Next]_vars PROVE [Leaves => Escaped]_vars
  <2>1. CASE Next
    <3>1. Leaves => Escaped
      BY <1>1, <1>2, <2>1
    <3>2. QED
      BY <3>1
  <2>2. CASE UNCHANGED vars
    BY <2>2
  <2>3. QED
    BY <1>2, <2>1, <2>2
<1>3. Spec => []StreamInv
  BY InitStream, StepStream, PTL DEF Spec
<1>4. QED
  BY <1>2, <1>3, PTL DEF Spec, LeavesOnEscape
=============================================================================
