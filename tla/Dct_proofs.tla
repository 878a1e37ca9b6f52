----------------------------- MODULE Dct_proofs -----------------------------
(***************************************************************************)
(* Theorems about Dct, for any writers, sections and values: the table is  *)
(* never lost, and it is an atomic store.                                  *)
(***************************************************************************)
EXTENDS Dct, TLAPS

LEMMA Types ==
  /\ IdleRequest \in Request /\ IdleOp \in Op /\ FactoryValue \in Value
  /\ ErasedCopy \in Copy /\ \A v \in Value : FactoryCopy(v) \in Copy
  /\ \A c \in Copies : Other(c) \in Copies /\ Other(c) # c
<1>1. IdleRequest \in Request /\ FactoryValue \in Value
  BY SectionsAssumption, ValueAssumption, FuncAssumption
     DEF IdleRequest, Request, FactoryValue
<1>2. IdleOp \in Op
  BY <1>1, SectionsAssumption DEF IdleOp, Op, Phases, Copies
<1>3. ErasedCopy \in Copy /\ \A v \in Value : FactoryCopy(v) \in Copy
  BY FuncAssumption DEF ErasedCopy, FactoryCopy, Copy, Flash, Marks
<1> QED
  BY <1>1, <1>2, <1>3 DEF Other, Copies

LEMMA ProgramTypes ==
  /\ \A S : \A old, new \in Flash(S) : Program(old, new) \in Flash(S)
  /\ \A old, new \in Marks : ProgramMark(old, new) \in Marks
<1>1. ASSUME NEW S, NEW old \in Flash(S), NEW new \in Flash(S)
      PROVE  Program(old, new) \in Flash(S)
  <2>1. CASE old = "erased"
    BY <2>1 DEF Program
  <2>2. CASE old # "erased" /\ new \in {old, "erased"}
    BY <2>2 DEF Program
  <2>3. CASE old # "erased" /\ new \notin {old, "erased"}
    BY <2>3 DEF Program, Flash
  <2> QED
    BY <2>1, <2>2, <2>3
<1> QED
  BY <1>1 DEF ProgramMark, Marks

\* The records of the steps, field by field.
LEMMA OpFields ==
  ASSUME TypeOK, NEW w \in Writer
  PROVE  /\ op[w] \in Op /\ op[w].at \in Phases /\ op[w].request \in Request
         /\ op[w].old \in Copies /\ op[w].next \in 1 .. Sections + 1
         /\ op[w].request.section \in 0 .. Sections
         /\ op[w].request.value \in Value /\ op[w].request.func \in Func
         /\ New(w) \in Copies /\ New(w) # op[w].old
<1>1. op[w] \in Op
  BY DEF TypeOK
<1>2. op[w].request \in Request
  BY <1>1 DEF Op
<1> QED
  BY <1>1, <1>2, Types DEF Op, Request, New

LEMMA CopyFields ==
  ASSUME TypeOK, NEW c \in Copies
  PROVE  /\ copy[c] \in Copy /\ copy[c].cell \in [Section -> Flash(Value)]
         /\ copy[c].func \in Flash(Func) /\ copy[c].incomplete \in Marks
         /\ copy[c].current \in Marks /\ copy[c].magic \in BOOLEAN
<1>1. copy[c] \in Copy
  BY DEF TypeOK
<1> QED
  BY <1>1 DEF Copy

LEMMA WantedType ==
  ASSUME TypeOK, NEW w \in Writer, op[w].next <= Sections
  PROVE  Wanted(w) \in Flash(Value) /\ op[w].next \in Section
<1>1. op[w].next \in Section
  BY OpFields, SectionsAssumption DEF Section
<1>2. copy[op[w].old].cell[op[w].next] \in Flash(Value)
  BY <1>1, OpFields, CopyFields
<1> QED
  BY <1>1, <1>2, OpFields DEF Wanted, Flash

\* Steps that change one copy, or one writer, keep the types of the others.
LEMMA CopyUpdate ==
  ASSUME TypeOK, NEW c \in Copies, NEW x \in Copy,
         copy' = [copy EXCEPT ![c] = x]
  PROVE  copy' \in [Copies -> Copy]
  BY DEF TypeOK

LEMMA OpUpdate ==
  ASSUME TypeOK, NEW w \in Writer, NEW x \in Op, op' = [op EXCEPT ![w] = x]
  PROVE  op' \in [Writer -> Op]
  BY DEF TypeOK

LEMMA GotoType ==
  ASSUME TypeOK, NEW w \in Writer, NEW phase \in Phases, Goto(w, phase)
  PROVE  op' \in [Writer -> Op]
<1>1. [op[w] EXCEPT !.at = phase] \in Op
  BY OpFields DEF Op
<1>2. op' = [op EXCEPT ![w] = [op[w] EXCEPT !.at = phase]]
  BY DEF Goto
<1> QED
  BY <1>1, <1>2, OpUpdate

LEMMA TypeInit == Init => TypeOK
<1> SUFFICES ASSUME Init PROVE TypeOK
  OBVIOUS
<1>1. copy \in [Copies -> Copy]
  BY Types DEF Init
<1>2. op \in [Writer -> Op]
  BY Types DEF Init
<1> QED
  BY <1>1, <1>2 DEF Init, TypeOK

LEMMA TypeNext == TypeOK /\ [Next]_vars => TypeOK'
<1> SUFFICES ASSUME TypeOK, [Next]_vars PROVE TypeOK'
  OBVIOUS
<1>0. /\ unsafe \in BOOLEAN /\ copy \in [Copies -> Copy]
      /\ op \in [Writer -> Op]
  BY DEF TypeOK
<1>1. ASSUME NEW w \in Writer, NEW r \in Request, Ask(w, r) PROVE TypeOK'
  <2>1. [at |-> "erase", request |-> r, old |-> Current, next |-> 1] \in Op
    BY SectionsAssumption DEF Op, Phases, Current, Copies
  <2>2. op' \in [Writer -> Op]
    BY <1>1, <2>1, OpUpdate DEF Ask
  <2>3. unsafe' \in BOOLEAN
    BY <1>0, <1>1, Zenon DEF Ask
  <2> QED
    BY <1>0, <1>1, <2>2, <2>3 DEF Ask, TypeOK
<1>2. ASSUME NEW w \in Writer, Erase(w) PROVE TypeOK'
  <2>1. copy' \in [Copies -> Copy]
    BY <1>2, CopyUpdate, OpFields, Types DEF Erase
  <2>2. op' \in [Writer -> Op]
    BY <1>2, GotoType DEF Erase, Phases
  <2> QED
    BY <1>0, <1>2, <2>1, <2>2 DEF Erase, TypeOK
<1>3. ASSUME NEW w \in Writer, NEW x \in Flash(Value), op[w].next <= Sections,
             copy' = [copy EXCEPT ![New(w)].cell[op[w].next] = x]
      PROVE  copy' \in [Copies -> Copy]
  <2>1. op[w].next \in Section
    BY <1>3, WantedType
  <2> DEFINE y == [copy[New(w)] EXCEPT !.cell = [@ EXCEPT ![op[w].next] = x]]
  <2>2. [copy[New(w)].cell EXCEPT ![op[w].next] = x] \in [Section -> Flash(Value)]
    BY <2>1, OpFields, CopyFields
  <2>3. y \in Copy
    BY <2>2, OpFields, CopyFields DEF Copy
  <2>4. copy' = [copy EXCEPT ![New(w)] = y]
    BY <1>3
  <2> QED
    BY <2>3, <2>4, OpFields, CopyUpdate
<1>4. ASSUME NEW w \in Writer, CopySection(w) PROVE TypeOK'
  <2> DEFINE cell == Program(copy[New(w)].cell[op[w].next], Wanted(w))
  <2>1. op[w].next \in Section /\ Wanted(w) \in Flash(Value)
    BY <1>4, WantedType DEF CopySection
  <2>2. copy[New(w)].cell[op[w].next] \in Flash(Value)
    BY <2>1, OpFields, CopyFields
  <2>3. cell \in Flash(Value)
    BY <2>1, <2>2, ProgramTypes
  <2>4. copy' \in [Copies -> Copy]
    BY <1>3, <1>4, <2>3 DEF CopySection
  <2>5. [op[w] EXCEPT !.next = @ + 1] \in Op
    BY <1>4, OpFields, SectionsAssumption DEF CopySection, Op
  <2>6. op' \in [Writer -> Op]
    <3>1. \/ op' = [op EXCEPT ![w] = [op[w] EXCEPT !.next = @ + 1]]
          \/ op' = [op EXCEPT ![w] = IdleOp]
      BY <1>4 DEF CopySection
    <3> QED
      BY <2>5, <3>1, OpUpdate, Types
  <2> QED
    BY <1>0, <1>4, <2>4, <2>6 DEF CopySection, TypeOK
<1>5. ASSUME NEW w \in Writer, WriteHeader(w) PROVE TypeOK'
  <2> DEFINE new == copy[New(w)]
             header == [new EXCEPT !.func = Program(@, op[w].request.func),
                                   !.incomplete = ProgramMark(@, 1),
                                   !.current = ProgramMark(@, 1),
                                   !.magic = TRUE]
  <2>1. /\ Program(new.func, op[w].request.func) \in Flash(Func)
        /\ ProgramMark(new.incomplete, 1) \in Marks
        /\ ProgramMark(new.current, 1) \in Marks
    <3>1. op[w].request.func \in Flash(Func) /\ 1 \in Marks
      BY OpFields DEF Flash, Marks
    <3> QED
      BY <3>1, ProgramTypes, OpFields, CopyFields
  <2>2. header \in Copy
    BY <2>1, OpFields, CopyFields DEF Copy
  <2>3. copy' \in [Copies -> Copy]
    BY <1>5, <2>2, OpFields, CopyUpdate DEF WriteHeader
  <2>4. Goto(w, "complete") \/ op' = [op EXCEPT ![w] = IdleOp]
    BY <1>5 DEF WriteHeader
  <2>5. op' \in [Writer -> Op]
    BY <2>4, GotoType, OpUpdate, Types DEF Phases
  <2> QED
    BY <1>0, <1>5, <2>3, <2>5 DEF WriteHeader, TypeOK
<1>6. ASSUME NEW w \in Writer, WriteFails(w) PROVE TypeOK'
  <2>1. copy' \in [Copies -> Copy]
    BY <1>0, <1>3, <1>6 DEF WriteFails, Flash
  <2>2. op' \in [Writer -> Op]
    BY <1>6, OpUpdate, Types DEF WriteFails
  <2> QED
    BY <1>0, <1>6, <2>1, <2>2 DEF WriteFails, TypeOK
<1>7. ASSUME NEW w \in Writer, Complete(w) PROVE TypeOK'
  <2>1. [copy[New(w)] EXCEPT !.incomplete = 0] \in Copy
    BY OpFields, CopyFields DEF Copy, Marks
  <2>2. \/ copy' = [copy EXCEPT ![New(w)] = [copy[New(w)] EXCEPT !.incomplete = 0]]
        \/ copy' = copy
    BY <1>7 DEF Complete
  <2>3. copy' \in [Copies -> Copy]
    BY <1>0, <2>1, <2>2, OpFields, CopyUpdate
  <2>4. op' \in [Writer -> Op]
    BY <1>7, GotoType DEF Complete, Phases
  <2> QED
    BY <1>0, <1>7, <2>3, <2>4 DEF Complete, TypeOK
<1>8. ASSUME NEW w \in Writer, Retire(w) PROVE TypeOK'
  <2>1. [copy[op[w].old] EXCEPT !.current = 0] \in Copy
    BY OpFields, CopyFields DEF Copy, Marks
  <2>2. \/ copy' = [copy EXCEPT ![op[w].old] = [copy[op[w].old] EXCEPT !.current = 0]]
        \/ copy' = copy
    BY <1>8 DEF Retire
  <2>3. copy' \in [Copies -> Copy]
    BY <1>0, <2>1, <2>2, OpFields, CopyUpdate
  <2>4. op' \in [Writer -> Op]
    BY <1>8, OpUpdate, Types DEF Retire
  <2> QED
    BY <1>0, <1>8, <2>3, <2>4 DEF Retire, TypeOK
<1>9. CASE Reinit
  <2> DEFINE x == [ErasedCopy EXCEPT !.func = "none", !.incomplete = 0,
                                     !.current = 1, !.magic = TRUE]
  <2>1. x \in Copy
    <3>1. "none" \in Flash(Func) /\ 0 \in Marks /\ 1 \in Marks
      BY FuncAssumption DEF Flash, Marks
    <3> QED
      BY <3>1, Types DEF Copy
  <2>2. copy' \in [Copies -> Copy]
    BY <1>9, <2>1, CopyUpdate DEF Reinit, Copies
  <2> QED
    BY <1>0, <1>9, <2>2 DEF Reinit, TypeOK
<1>10. CASE Reset
  BY <1>0, <1>10, Types DEF Reset, TypeOK
<1>11. CASE UNCHANGED vars
  BY <1>0, <1>11 DEF vars, TypeOK
<1> QED
  BY <1>1, <1>2, <1>4, <1>5, <1>6, <1>7, <1>8, <1>9, <1>10, <1>11
     DEF Next, WriteStep

(***************************************************************************)
(* Flash and the running writes have their types, whatever happens.        *)
(***************************************************************************)
THEOREM DctTypeCorrect == Spec => []TypeOK
  BY TypeInit, TypeNext, PTL DEF Spec
-----------------------------------------------------------------------------
(***************************************************************************)
(* While nothing unsafe happened one writer runs at most.  It fills the    *)
(* copy that is not read, from the valid one, in order; the copy is        *)
(* complete with its header, and only then do the marks move.              *)
(***************************************************************************)
OneWriter == \A u, w \in Writer : Busy(u) /\ Busy(w) => u = w

\* What the new copy will hold.
Result(w) ==
  [cell |-> [s \in Section |-> IF s = op[w].request.section
                                 THEN op[w].request.value
                                 ELSE copy[op[w].old].cell[s]],
   func |-> op[w].request.func]

Blank(w) ==
  /\ copy[New(w)].func = "erased" /\ copy[New(w)].incomplete = 255
  /\ copy[New(w)].current = 255 /\ ~copy[New(w)].magic
  /\ \A i \in Section : op[w].next <= i => copy[New(w)].cell[i] = "erased"
  /\ \A i \in Section :
       i < op[w].next => copy[New(w)].cell[i] = Result(w).cell[i]

Written(w) ==
  /\ copy[New(w)].cell = Result(w).cell /\ copy[New(w)].func = Result(w).func
  /\ copy[New(w)].current = 1 /\ copy[New(w)].magic

InOrder(w) ==
  /\ Busy(w) => Valid(op[w].old)
  /\ op[w].at = "erase" => Current = op[w].old /\ op[w].next = 1
  /\ op[w].at = "copy" => Blank(w)
  /\ op[w].at = "complete" => Written(w) /\ copy[New(w)].incomplete = 1
  /\ op[w].at = "retire" => Written(w) /\ copy[New(w)].incomplete = 0

Safe == OneWriter /\ (\E c \in Copies : Valid(c)) /\ \A w \in Writer : InOrder(w)

DctInv == TypeOK /\ (~unsafe => Safe)

LEMMA SafeInit == Init => DctInv
<1> SUFFICES ASSUME Init PROVE Safe
  BY TypeInit DEF DctInv
<1>1. \A w \in Writer : op[w].at = "idle"
  BY DEF Init, IdleOp
<1>2. Valid(1) /\ 1 \in Copies
  BY DEF Init, Valid, FactoryCopy, Copies
<1> QED
  BY <1>1, <1>2 DEF Safe, OneWriter, InOrder, Busy

LEMMA CurrentValid ==
  ASSUME NEW c \in Copies, Valid(c)
  PROVE  Current \in Copies /\ Valid(Current)
  BY DEF Current, Copies

\* A step of a writer, while it is safe, is the step of the only one.
LEMMA Alone ==
  ASSUME DctInv, NEW w \in Writer, WriteStep(w), ~unsafe'
  PROVE  /\ ~unsafe /\ Safe /\ Busy(w)
         /\ \A u \in Writer : u # w => op[u].at = "idle" /\ op'[u] = op[u]
<1>1. ~unsafe /\ Busy(w)
  BY DEF WriteStep, Erase, CopySection, WriteHeader, WriteFails, Complete,
         Retire, Busy
<1>2. \A u \in Writer : u # w => op'[u] = op[u]
  BY DEF WriteStep, Erase, CopySection, WriteHeader, WriteFails, Complete,
         Retire, Goto, DctInv, TypeOK
<1> QED
  BY <1>1, <1>2 DEF DctInv, Safe, OneWriter, Busy

\* After it, the order of the others is as it was: they are idle.
LEMMA OthersIdle ==
  ASSUME NEW w \in Writer, InOrder(w)', \E c \in Copies : Valid(c)',
         \A u \in Writer : u # w => op'[u].at = "idle"
  PROVE  Safe'
<1>1. \A u \in Writer : u # w => InOrder(u)'
  BY DEF InOrder, Busy
<1>2. OneWriter'
  BY DEF OneWriter, Busy
<1> QED
  BY <1>1, <1>2 DEF Safe

LEMMA SafeAsk ==
  ASSUME DctInv, NEW w \in Writer, NEW r \in Request, Ask(w, r), ~unsafe'
  PROVE  Safe'
<1>1. ~unsafe /\ copy' = copy /\ \A u \in Writer : ~Busy(u)
  BY Zenon DEF Ask
<1>2. op'[w] = [at |-> "erase", request |-> r, old |-> Current, next |-> 1]
      /\ \A u \in Writer : u # w => op'[u] = op[u]
  BY DEF Ask, DctInv, TypeOK
<1>3. Current \in Copies /\ Valid(Current)
  BY CurrentValid DEF Ask
<1>4. Valid(Current)' /\ Current' = Current
  BY <1>1, <1>3 DEF Valid, Current
<1>5. InOrder(w)'
  BY <1>1, <1>2, <1>3, <1>4 DEF InOrder, Busy, Valid, Current
<1> QED
  BY <1>1, <1>2, <1>3, <1>4, <1>5, OthersIdle DEF Busy

\* What a step of the only writer starts from.
LEMMA Before ==
  ASSUME DctInv, NEW w \in Writer, WriteStep(w), ~unsafe'
  PROVE  /\ TypeOK /\ InOrder(w) /\ Valid(op[w].old)
         /\ op[w].old \in Copies /\ New(w) \in Copies /\ New(w) # op[w].old
         /\ op[w].next \in Nat /\ op[w] \in Op
         /\ copy \in [Copies -> Copy] /\ op \in [Writer -> Op]
<1>1. Safe /\ Busy(w)
  BY Alone
<1>2. InOrder(w)
  BY <1>1 DEF Safe
<1>3. Valid(op[w].old)
  BY <1>1, <1>2 DEF InOrder
<1> QED
  BY <1>2, <1>3, OpFields, SectionsAssumption DEF DctInv, TypeOK

\* The writer's new copy and its record change; it goes on.
LEMMA After ==
  ASSUME DctInv, NEW w \in Writer, WriteStep(w), ~unsafe', InOrder(w)',
         NEW c \in Copies, Valid(c)'
  PROVE  Safe'
<1>1. \A u \in Writer : u # w => op'[u].at = "idle"
  BY Alone
<1> QED
  BY <1>1, OthersIdle

LEMMA SafeErase ==
  ASSUME DctInv, NEW w \in Writer, Erase(w), ~unsafe'
  PROVE  Safe'
<1>0. WriteStep(w)
  BY DEF WriteStep
<1>1. /\ op'[w] = [op[w] EXCEPT !.at = "copy"] /\ op[w].next = 1
      /\ copy'[New(w)] = ErasedCopy /\ copy'[op[w].old] = copy[op[w].old]
  BY <1>0, Before DEF Erase, Goto, InOrder
<1>2. /\ op'[w].at = "copy" /\ op'[w].old = op[w].old
      /\ op'[w].next = 1 /\ New(w)' = New(w)
  BY <1>0, <1>1, Before DEF New, Op
<1>3. Valid(op[w].old)'
  BY <1>0, <1>1, <1>2, Before DEF Valid
<1>4. Blank(w)'
  <2>1. ~(\E i \in Section : i < 1)
    BY SectionsAssumption DEF Section
  <2> QED
    BY <1>1, <1>2, <2>1 DEF Blank, ErasedCopy
<1>5. InOrder(w)'
  BY <1>2, <1>3, <1>4 DEF InOrder
<1> QED
  BY <1>0, <1>2, <1>3, <1>5, After, Before

LEMMA SafeCopySection ==
  ASSUME DctInv, NEW w \in Writer, CopySection(w), ~unsafe'
  PROVE  /\ Safe' /\ op'[w].at = "copy"
         /\ copy'[op[w].old] = copy[op[w].old]
<1> DEFINE n == op[w].next
<1>0. WriteStep(w)
  BY DEF WriteStep
<1>1. n \in Section /\ Blank(w) /\ op[w].at = "copy"
  BY <1>0, Before, WantedType DEF CopySection, InOrder
<1>2. copy[New(w)].cell[n] = "erased"
  BY <1>1 DEF Blank, Section
<1>3. Program(copy[New(w)].cell[n], Wanted(w)) = Wanted(w)
  BY <1>2 DEF Program
<1>4. /\ op' = [op EXCEPT ![w].next = @ + 1]
      /\ copy' = [copy EXCEPT ![New(w)].cell[n] = Wanted(w)]
  BY <1>3 DEF CopySection
<1>5. /\ op'[w] = [op[w] EXCEPT !.next = n + 1]
      /\ copy'[New(w)] = [copy[New(w)] EXCEPT !.cell = [@ EXCEPT ![n] = Wanted(w)]]
      /\ copy'[op[w].old] = copy[op[w].old]
  BY <1>0, <1>4, Before
<1>6. /\ op'[w].at = "copy" /\ op'[w].old = op[w].old
      /\ op'[w].request = op[w].request
      /\ op'[w].next = n + 1 /\ New(w)' = New(w)
  BY <1>0, <1>1, <1>5, Before DEF New, Op
<1>7. Valid(op[w].old)'
  BY <1>0, <1>5, <1>6, Before DEF Valid
<1>8. Result(w)' = Result(w)
  BY <1>5, <1>6 DEF Result
<1>9. /\ copy'[New(w)].func = copy[New(w)].func
      /\ copy'[New(w)].incomplete = copy[New(w)].incomplete
      /\ copy'[New(w)].current = copy[New(w)].current
      /\ copy'[New(w)].magic = copy[New(w)].magic
      /\ \A i \in Section : copy'[New(w)].cell[i] =
                               IF i = n THEN Wanted(w) ELSE copy[New(w)].cell[i]
  <2>1. copy[New(w)] \in Copy /\ copy[New(w)].cell \in [Section -> Flash(Value)]
    BY <1>0, Before, CopyFields
  <2> QED
    BY <1>1, <1>5, <2>1 DEF Copy
<1>10. Wanted(w) = Result(w).cell[n]
  BY <1>1 DEF Wanted, Result
<1>11. Blank(w)'
  <2>1. \A i \in Section : i \in Nat /\ n \in Nat
    BY <1>1, SectionsAssumption DEF Section
  <2>2. \A i \in Section : n + 1 <= i => n <= i /\ i # n
    BY <2>1
  <2>3. \A i \in Section : i < n + 1 => i < n \/ i = n
    BY <2>1
  <2> QED
    BY <1>1, <1>6, <1>8, <1>9, <1>10, <2>2, <2>3 DEF Blank
<1>12. InOrder(w)'
  BY <1>6, <1>7, <1>11 DEF InOrder
<1> QED
  BY <1>0, <1>5, <1>6, <1>7, <1>12, After, Before

LEMMA SafeHeader ==
  ASSUME DctInv, NEW w \in Writer, WriteHeader(w), ~unsafe'
  PROVE  /\ Safe' /\ op'[w].at = "complete"
         /\ copy'[op[w].old] = copy[op[w].old]
<1> DEFINE new == copy[New(w)]
           header == [new EXCEPT !.func = Program(@, op[w].request.func),
                                 !.incomplete = ProgramMark(@, 1),
                                 !.current = ProgramMark(@, 1),
                                 !.magic = TRUE]
<1>0. WriteStep(w)
  BY DEF WriteStep
<1>1. Blank(w) /\ op[w].at = "copy" /\ op[w].next > Sections
  BY <1>0, Before DEF WriteHeader, InOrder
<1>2. /\ Program(new.func, op[w].request.func) = op[w].request.func
      /\ ProgramMark(new.incomplete, 1) = 1 /\ ProgramMark(new.current, 1) = 1
  BY <1>1 DEF Blank, Program, ProgramMark
<1>3. new \in Copy /\ new.cell \in [Section -> Flash(Value)]
  BY <1>0, Before, CopyFields
<1>4. /\ header.func = op[w].request.func /\ header.incomplete = 1
      /\ header.current = 1 /\ header.magic /\ header.cell = new.cell
  BY <1>2, <1>3 DEF Copy
<1>5. /\ copy' = [copy EXCEPT ![New(w)] = header]
      /\ op' = [op EXCEPT ![w].at = "complete"]
  BY <1>4 DEF WriteHeader, Goto
<1> HIDE DEF header
<1>6. /\ copy'[New(w)] = header /\ copy'[op[w].old] = copy[op[w].old]
      /\ op'[w] = [op[w] EXCEPT !.at = "complete"]
  BY <1>0, <1>5, Before
<1>7. /\ op'[w].at = "complete" /\ op'[w].old = op[w].old
      /\ op'[w].request = op[w].request /\ New(w)' = New(w)
  BY <1>0, <1>6, Before DEF New, Op
<1>8. Valid(op[w].old)'
  BY <1>0, <1>6, <1>7, Before DEF Valid
<1>9. Result(w)' = Result(w)
  BY <1>6, <1>7 DEF Result
<1>10. new.cell = Result(w).cell
  <2>1. \A i \in Section : i < op[w].next
    BY <1>0, <1>1, Before, SectionsAssumption DEF Section
  <2>2. \A i \in Section : new.cell[i] = Result(w).cell[i]
    BY <1>1, <2>1 DEF Blank
  <2> QED
    BY <1>3, <2>2 DEF Result
<1>11. Written(w)' /\ copy'[New(w)'].incomplete = 1
  BY <1>4, <1>6, <1>7, <1>9, <1>10 DEF Written, Result
<1>12. InOrder(w)'
  BY <1>7, <1>8, <1>11 DEF InOrder
<1> QED
  BY <1>0, <1>6, <1>7, <1>8, <1>12, After, Before

LEMMA SafeFails ==
  ASSUME DctInv, NEW w \in Writer, WriteFails(w), ~unsafe'
  PROVE  /\ Safe' /\ op'[w].at = "idle"
         /\ copy'[op[w].old] = copy[op[w].old] /\ ~copy'[New(w)].magic
<1>0. WriteStep(w)
  BY DEF WriteStep
<1>1. Blank(w) /\ op[w].at = "copy"
  BY <1>0, Before DEF WriteFails, InOrder
<1>2. op'[w] = IdleOp
  BY <1>0, Before DEF WriteFails
<1>3. \/ copy' = copy
      \/ copy' = [copy EXCEPT ![New(w)].cell[op[w].next] = "garbage"]
  BY DEF WriteFails
<1>4. /\ copy'[op[w].old] = copy[op[w].old]
      /\ copy'[New(w)].magic = copy[New(w)].magic
  <2>1. copy[New(w)] \in Copy
    BY <1>0, Before, CopyFields
  <2> QED
    BY <1>0, <1>3, <2>1, Before DEF Copy
<1>5. \E c \in Copies : Valid(c)'
  <2>1. op[w].old \in Copies /\ Valid(op[w].old)
    BY <1>0, Before
  <2>2. ASSUME NEW c \in Copies, c = op[w].old PROVE Valid(c)'
    BY <1>4, <2>1, <2>2 DEF Valid
  <2> QED
    BY <2>1, <2>2
<1>6. InOrder(w)'
  BY <1>2 DEF InOrder, IdleOp, Busy
<1>7. \A u \in Writer : u # w => op'[u].at = "idle"
  BY <1>0, Alone
<1> QED
  BY <1>1, <1>2, <1>4, <1>5, <1>6, <1>7, OthersIdle DEF Blank, IdleOp

LEMMA SafeComplete ==
  ASSUME DctInv, NEW w \in Writer, Complete(w), ~unsafe'
  PROVE  /\ Safe' /\ op'[w].at = "retire" /\ op'[w].old = op[w].old
         /\ copy'[op[w].old] = copy[op[w].old]
         /\ copy'[New(w)].cell = Result(w).cell
         /\ copy'[New(w)].func = Result(w).func
<1>0. WriteStep(w)
  BY DEF WriteStep
<1>1. Written(w)
  BY <1>0, Before DEF Complete, InOrder
<1>2. /\ copy' = [copy EXCEPT ![New(w)].incomplete = 0]
      /\ op' = [op EXCEPT ![w].at = "retire"]
  BY DEF Complete, Goto
<1>3. /\ copy'[New(w)] = [copy[New(w)] EXCEPT !.incomplete = 0]
      /\ copy'[op[w].old] = copy[op[w].old]
      /\ op'[w] = [op[w] EXCEPT !.at = "retire"]
  BY <1>0, <1>2, Before
<1>4. /\ op'[w].at = "retire" /\ op'[w].old = op[w].old
      /\ op'[w].request = op[w].request /\ New(w)' = New(w)
  BY <1>0, <1>3, Before DEF New, Op
<1>5. Valid(op[w].old)'
  BY <1>0, <1>3, <1>4, Before DEF Valid
<1>6. Result(w)' = Result(w)
  BY <1>3, <1>4 DEF Result
<1>7. /\ copy'[New(w)].cell = copy[New(w)].cell
      /\ copy'[New(w)].func = copy[New(w)].func
      /\ copy'[New(w)].current = copy[New(w)].current
      /\ copy'[New(w)].magic = copy[New(w)].magic
      /\ copy'[New(w)].incomplete = 0
  <2>1. copy[New(w)] \in Copy
    BY <1>0, Before, CopyFields
  <2> QED
    BY <1>3, <2>1 DEF Copy
<1>8. Written(w)' /\ copy'[New(w)'].incomplete = 0
  BY <1>1, <1>4, <1>6, <1>7 DEF Written
<1>9. InOrder(w)'
  BY <1>4, <1>5, <1>8 DEF InOrder
<1> QED
  BY <1>0, <1>1, <1>3, <1>4, <1>5, <1>7, <1>9, After, Before DEF Written

LEMMA SafeRetire ==
  ASSUME DctInv, NEW w \in Writer, Retire(w), ~unsafe'
  PROVE  /\ Safe' /\ op'[w].at = "idle" /\ copy'[New(w)] = copy[New(w)]
         /\ Valid(New(w)) /\ copy'[op[w].old].current = 0
         /\ copy[New(w)].cell = Result(w).cell
         /\ copy[New(w)].func = Result(w).func
<1>0. WriteStep(w)
  BY DEF WriteStep
<1>1. Written(w) /\ copy[New(w)].incomplete = 0
  BY <1>0, Before DEF Retire, InOrder
<1>2. /\ copy' = [copy EXCEPT ![op[w].old].current = 0]
      /\ op' = [op EXCEPT ![w] = IdleOp]
  BY DEF Retire
<1>3. /\ copy'[op[w].old] = [copy[op[w].old] EXCEPT !.current = 0]
      /\ copy'[New(w)] = copy[New(w)] /\ op'[w] = IdleOp
  BY <1>0, <1>2, Before
<1>4. copy'[op[w].old].current = 0
  BY <1>0, <1>3, Before, CopyFields DEF Copy
<1>5. Valid(New(w))
  BY <1>1 DEF Written, Valid
<1>6. \E c \in Copies : Valid(c)'
  <2>1. ASSUME NEW c \in Copies, c = New(w) PROVE Valid(c)'
    BY <1>3, <1>5, <2>1 DEF Valid
  <2> QED
    BY <1>0, <2>1, Before
<1>7. InOrder(w)'
  BY <1>3 DEF InOrder, IdleOp, Busy
<1>8. \A u \in Writer : u # w => op'[u].at = "idle"
  BY <1>0, Alone
<1> QED
  BY <1>1, <1>3, <1>4, <1>5, <1>6, <1>7, <1>8, OthersIdle
     DEF Written, IdleOp

LEMMA SafeReset ==
  ASSUME DctInv, Reset, ~unsafe'
  PROVE  Safe' /\ copy' = copy /\ \A w \in Writer : op'[w].at = "idle"
<1>1. ~unsafe /\ copy' = copy /\ \A w \in Writer : op'[w].at = "idle"
  BY DEF Reset, IdleOp
<1>2. \E c \in Copies : Valid(c)'
  BY <1>1 DEF DctInv, Safe, Valid
<1> QED
  BY <1>1, <1>2 DEF Safe, OneWriter, InOrder, Busy

LEMMA SafeNext == DctInv /\ [Next]_vars => DctInv'
<1> SUFFICES ASSUME DctInv, [Next]_vars, ~unsafe' PROVE Safe'
  BY TypeNext DEF DctInv
<1>1. CASE \E w \in Writer, r \in Request : Ask(w, r)
  BY <1>1, SafeAsk
<1>2. CASE \E w \in Writer : WriteStep(w)
  BY <1>2, SafeErase, SafeCopySection, SafeHeader, SafeFails, SafeComplete,
     SafeRetire DEF WriteStep
<1>3. CASE Reinit
  BY <1>3 DEF Reinit, DctInv, Safe
<1>4. CASE Reset
  BY <1>4, SafeReset
<1>5. CASE UNCHANGED vars
  BY <1>5 DEF vars, DctInv, Safe, OneWriter, InOrder, Busy, Valid, Current,
              Blank, Written, Result, New
<1> QED
  BY <1>1, <1>2, <1>3, <1>4, <1>5 DEF Next

LEMMA DctInvariant == Spec => []DctInv
  BY SafeInit, SafeNext, PTL DEF Spec

(***************************************************************************)
(* A valid copy is left, whenever the power fails.                         *)
(***************************************************************************)
THEOREM TableIsNeverLost == Spec => []NeverLost
<1>1. DctInv => NeverLost
  BY DEF DctInv, Safe, NeverLost
<1> QED
  BY <1>1, DctInvariant, PTL
-----------------------------------------------------------------------------
(***************************************************************************)
(* The refinement: each step is a step of the atomic store, or none.       *)
(***************************************************************************)
\* Only the request of the writer that moves may change.
LEMMA AskedStep ==
  ASSUME NEW w \in Writer, \A u \in Writer : u # w => op'[u] = op[u]
  PROVE  Asked' = [Asked EXCEPT ![w] = IF Effective(w)' THEN NoRequest
                                                       ELSE op'[w].request]
<1>1. \A u \in Writer : u # w => (Effective(u)' <=> Effective(u))
  BY DEF Effective, New
<1>2. NoRequest' = NoRequest
  BY DEF NoRequest, IdleRequest
<1> QED
  BY <1>1, <1>2 DEF Asked

\* What is read before and after a step.
LEMMA ReadsOld ==
  ASSUME NEW w \in Writer, op[w].old \in Copies, Valid(op[w].old),
         ~Valid(New(w))
  PROVE  Current = op[w].old
  BY DEF New, Other, Copies, Current

LEMMA InitStore == Init => Store!Init
<1> SUFFICES ASSUME Init PROVE Store!Init
  OBVIOUS
<1>1. Current = 1 /\ 1 \in Copies
  BY DEF Init, Current, Valid, FactoryCopy, Copies
<1>2. copy[1] = FactoryCopy(FactoryValue)
  BY <1>1 DEF Init
<1>3. Stored = FactoryContents
  BY <1>1, <1>2 DEF Stored, FactoryContents, FactoryCopy
<1>4. Asked = [w \in Writer |-> NoRequest]
  BY DEF Init, Asked, Effective, IdleOp
<1> QED
  BY <1>3, <1>4 DEF Init, Store!Init

LEMMA StoreAsk ==
  ASSUME DctInv, NEW w \in Writer, NEW r \in Request, Ask(w, r), ~unsafe'
  PROVE  /\ ~unsafe /\ Store!Ask(w)
         /\ Asked' = [Asked EXCEPT ![w] = r] /\ Stored' = Stored
<1>1. ~unsafe /\ copy' = copy /\ ~Busy(w)
  BY Zenon DEF Ask
<1>2. op'[w] = [at |-> "erase", request |-> r, old |-> Current, next |-> 1]
      /\ \A u \in Writer : u # w => op'[u] = op[u]
  BY DEF Ask, DctInv, TypeOK
<1>3. ~Effective(w)' /\ Asked[w] = NoRequest
  BY <1>1, <1>2 DEF Effective, Busy, Asked
<1>4. Asked' = [Asked EXCEPT ![w] = r]
  BY <1>2, <1>3, AskedStep
<1>5. Stored' = Stored
  BY <1>1 DEF Stored, Current, Valid
<1> QED
  BY <1>1, <1>3, <1>4, <1>5 DEF Store!Ask

\* The steps up to the marks, which change nothing that is read.
LEMMA StorePrepare ==
  ASSUME DctInv, NEW w \in Writer, ~unsafe', WriteStep(w),
         op[w].at \in {"erase", "copy"},
         op'[w].at \in {"copy", "complete"},
         op'[w].old = op[w].old, op'[w].request = op[w].request,
         copy'[op[w].old] = copy[op[w].old]
  PROVE  UNCHANGED <<Stored, Asked, unsafe>>
<1>1. ~unsafe /\ Safe' /\ \A u \in Writer : u # w => op'[u] = op[u]
  BY Alone, SafeNext DEF Next, DctInv
<1>2. Current = op[w].old
  <2>1. CASE op[w].at = "erase"
    BY <2>1, Before DEF InOrder
  <2>2. CASE op[w].at = "copy"
    <3>1. ~Valid(New(w))
      BY <2>2, Before DEF InOrder, Blank, Valid
    <3> QED
      BY <3>1, Before, ReadsOld
  <2> QED
    BY <2>1, <2>2
<1>3. Current' = op[w].old
  <2>1. InOrder(w)' /\ New(w)' = New(w)
    BY <1>1 DEF Safe, New
  <2>2. Valid(op[w].old)' /\ ~Valid(New(w))'
    BY <2>1 DEF InOrder, Busy, Blank, Written, Valid
  <2> QED
    BY <2>1, <2>2, Before DEF New, Other, Copies, Current
<1>4. Stored' = Stored
  BY <1>2, <1>3 DEF Stored
<1>5. Asked' = Asked
  <2>1. ~Effective(w) /\ ~Effective(w)'
    BY DEF Effective
  <2>2. Asked[w] = op[w].request
    BY <2>1 DEF Asked
  <2> QED
    BY <1>1, <2>1, <2>2, AskedStep DEF Asked
<1>6. unsafe' = unsafe
  <2>1. unsafe \in BOOLEAN /\ unsafe' \in BOOLEAN
    BY TypeNext DEF DctInv, TypeOK, Next
  <2> QED
    BY <1>1, <2>1, Zenon
<1> QED
  BY <1>4, <1>5, <1>6

LEMMA TwoCopies ==
  ASSUME DctInv, NEW w \in Writer
  PROVE  \/ op[w].old = 1 /\ New(w) = 2
         \/ op[w].old = 2 /\ New(w) = 1
<1>1. op[w].old \in {1, 2}
  BY OpFields DEF DctInv, Copies
<1> QED
  BY <1>1 DEF New, Other

LEMMA StoreFails ==
  ASSUME DctInv, NEW w \in Writer, ~unsafe', WriteFails(w)
  PROVE  ~unsafe /\ Store!Refuse(w)
<1>0. WriteStep(w)
  BY DEF WriteStep
<1>1. ~unsafe /\ \A u \in Writer : u # w => op'[u] = op[u]
  BY <1>0, Alone
<1>2. Current = op[w].old
  <2>1. ~Valid(New(w))
    BY <1>0, Before DEF WriteFails, InOrder, Blank, Valid
  <2> QED
    BY <1>0, <2>1, Before, ReadsOld
<1>3. Current' = op[w].old
  <2>1. \A c \in Copies : c = op[w].old => Valid(c)'
    BY <1>0, SafeFails, Before DEF Valid
  <2>2. \A c \in Copies : c = New(w) => ~Valid(c)'
    BY <1>0, SafeFails DEF Valid
  <2> QED
    BY <2>1, <2>2, TwoCopies DEF Current, Copies
<1>4. Stored' = Stored
  BY <1>2, <1>3, SafeFails DEF Stored
<1>5. Asked' = [Asked EXCEPT ![w] = NoRequest]
  BY <1>1, SafeFails, AskedStep DEF Effective
<1> QED
  BY <1>1, <1>4, <1>5 DEF Store!Refuse

\* The step by which the new copy becomes the one that is read.
LEMMA Commits ==
  ASSUME DctInv, NEW w \in Writer, ~unsafe', WriteStep(w), ~Effective(w),
         Effective(w)', Current = op[w].old, Current' = New(w),
         copy'[New(w)].cell = Result(w).cell,
         copy'[New(w)].func = Result(w).func
  PROVE  ~unsafe /\ Store!Commit(w)
<1>1. ~unsafe /\ \A u \in Writer : u # w => op'[u] = op[u]
  BY Alone
<1>2. Asked' = [Asked EXCEPT ![w] = NoRequest] /\ Asked[w] = op[w].request
  BY <1>1, AskedStep DEF Asked
<1>3. Asked[w] # NoRequest
  <2>1. op[w].request.section \in 0 .. Sections
    BY OpFields DEF DctInv
  <2>2. NoRequest.section = Sections + 1
    BY DEF NoRequest, IdleRequest
  <2> QED
    BY <1>2, <2>1, <2>2, SectionsAssumption
<1>4. Stored' = [cell |-> Result(w).cell, func |-> Result(w).func]
  BY DEF Stored
<1>5. Stored.cell = copy[op[w].old].cell
  BY DEF Stored
<1>6. Stored' = Store!Apply(Stored, Asked[w])
  BY <1>2, <1>4, <1>5 DEF Store!Apply, Result
<1> QED
  BY <1>1, <1>2, <1>3, <1>6 DEF Store!Commit

LEMMA StoreComplete ==
  ASSUME DctInv, NEW w \in Writer, ~unsafe', Complete(w)
  PROVE  (~unsafe /\ Store!Commit(w)) \/ UNCHANGED <<Stored, Asked, unsafe>>
<1>0. WriteStep(w)
  BY DEF WriteStep
<1>1. ~unsafe /\ \A u \in Writer : u # w => op'[u] = op[u]
  BY <1>0, Alone
<1>2. Current = op[w].old
  <2>1. ~Valid(New(w))
    BY <1>0, Before DEF Complete, InOrder, Valid
  <2> QED
    BY <1>0, <2>1, Before, ReadsOld
<1>3. /\ op'[w].at = "retire" /\ op'[w].old = op[w].old /\ New(w)' = New(w)
      /\ op'[w].request = op[w].request
  BY <1>0, SafeComplete, Before DEF New, Complete, Goto, Op
<1>4. Valid(1)'
  <2>1. InOrder(w)'
    BY SafeComplete DEF Safe
  <2>2. Valid(op[w].old)' /\ Valid(New(w))'
    BY <1>3, <2>1 DEF InOrder, Busy, Written, Valid
  <2> QED
    BY <1>3, <2>2, TwoCopies DEF Valid
<1>5. Current' = 1
  BY <1>4 DEF Current
<1>6. CASE New(w) = 1
  <2>1. ~Effective(w) /\ Effective(w)'
    BY <1>3, <1>6 DEF Effective, Complete
  <2> QED
    BY <1>0, <1>2, <1>5, <1>6, <2>1, SafeComplete, Commits
<1>7. CASE op[w].old = 1
  <2>1. Stored' = Stored
    BY <1>2, <1>5, <1>7, SafeComplete DEF Stored
  <2>2. ~Effective(w) /\ ~Effective(w)'
    BY <1>3, <1>7, TwoCopies DEF Effective, Complete
  <2>3. Asked' = Asked
    BY <1>1, <1>3, <2>2, AskedStep DEF Asked
  <2>4. unsafe' = unsafe
    BY DEF Complete
  <2> QED
    BY <2>1, <2>3, <2>4
<1> QED
  BY <1>6, <1>7, TwoCopies

LEMMA StoreRetire ==
  ASSUME DctInv, NEW w \in Writer, ~unsafe', Retire(w)
  PROVE  (~unsafe /\ Store!Commit(w)) \/ UNCHANGED <<Stored, Asked, unsafe>>
<1>0. WriteStep(w)
  BY DEF WriteStep
<1>1. ~unsafe /\ \A u \in Writer : u # w => op'[u] = op[u]
  BY <1>0, Alone
<1>2. Current = 1
  BY <1>0, SafeRetire, Before, TwoCopies DEF Current
<1>3. Current' = New(w)
  <2>1. \A c \in Copies : c = New(w) => Valid(c)'
    BY SafeRetire DEF Valid
  <2>2. \A c \in Copies : c = op[w].old => ~Valid(c)'
    BY SafeRetire DEF Valid
  <2> QED
    BY <2>1, <2>2, TwoCopies DEF Current, Copies
<1>4. op'[w].at = "idle" /\ Effective(w)'
  BY SafeRetire DEF Effective
<1>5. CASE New(w) = 1
  <2>1. Stored' = Stored
    BY <1>2, <1>3, <1>5, SafeRetire DEF Stored
  <2>2. Effective(w)
    BY <1>5 DEF Effective, Retire
  <2>3. Asked' = Asked
    BY <1>1, <1>4, <2>2, AskedStep DEF Asked
  <2>4. unsafe' = unsafe
    BY DEF Retire
  <2> QED
    BY <2>1, <2>3, <2>4
<1>6. CASE op[w].old = 1
  <2>1. ~Effective(w)
    BY <1>6, TwoCopies DEF Effective, Retire
  <2> QED
    BY <1>0, <1>2, <1>3, <1>4, <1>6, <2>1, SafeRetire, Commits
<1> QED
  BY <1>5, <1>6, TwoCopies

\* Until it is complete, a write changes nothing that is read.
LEMMA Prepares ==
  ASSUME DctInv, NEW w \in Writer, ~unsafe',
         Erase(w) \/ CopySection(w) \/ WriteHeader(w)
  PROVE  UNCHANGED <<Stored, Asked, unsafe>>
<1>1. WriteStep(w) /\ op[w].at \in {"erase", "copy"}
  BY DEF WriteStep, Erase, CopySection, WriteHeader
<1>2. /\ op'[w].at \in {"copy", "complete"} /\ op'[w].old = op[w].old
      /\ op'[w].request = op[w].request /\ copy'[op[w].old] = copy[op[w].old]
  <2>1. op[w] \in Op /\ op \in [Writer -> Op] /\ copy \in [Copies -> Copy]
        /\ New(w) # op[w].old /\ op[w].old \in Copies
    BY <1>1, Before
  <2>2. CASE Erase(w)
    BY <2>1, <2>2 DEF Erase, Goto, Op
  <2>3. CASE CopySection(w)
    <3>1. op'[w].at = "copy" /\ copy'[op[w].old] = copy[op[w].old]
      BY <2>3, SafeCopySection
    <3>2. \/ op' = [op EXCEPT ![w].next = @ + 1]
          \/ op' = [op EXCEPT ![w] = IdleOp]
      BY <2>3 DEF CopySection
    <3>3. op' = [op EXCEPT ![w].next = @ + 1]
      BY <2>1, <3>1, <3>2 DEF IdleOp
    <3> QED
      BY <2>1, <3>1, <3>3 DEF Op
  <2>4. CASE WriteHeader(w)
    <3>1. op'[w].at = "complete" /\ copy'[op[w].old] = copy[op[w].old]
      BY <2>4, SafeHeader
    <3>2. \/ op' = [op EXCEPT ![w].at = "complete"]
          \/ op' = [op EXCEPT ![w] = IdleOp]
      BY <2>4 DEF WriteHeader, Goto
    <3>3. op' = [op EXCEPT ![w].at = "complete"]
      BY <2>1, <3>1, <3>2 DEF IdleOp
    <3> QED
      BY <2>1, <3>1, <3>3 DEF Op
  <2> QED
    BY <2>2, <2>3, <2>4
<1> QED
  BY <1>1, <1>2, StorePrepare

LEMMA StoreStep == DctInv /\ [Next]_vars => [Store!Next]_(Store!vars)
<1> SUFFICES ASSUME DctInv, [Next]_vars, ~unsafe' PROVE [Store!Next]_(Store!vars)
  BY DEF Store!Next
<1>1. ASSUME NEW w \in Writer, NEW r \in Request, Ask(w, r)
      PROVE  [Store!Next]_(Store!vars)
  BY <1>1, StoreAsk DEF Store!Next
<1>2. ASSUME NEW w \in Writer, Erase(w) \/ CopySection(w) \/ WriteHeader(w)
      PROVE  [Store!Next]_(Store!vars)
  BY <1>2, Prepares DEF Store!vars
<1>3. ASSUME NEW w \in Writer, WriteFails(w) PROVE [Store!Next]_(Store!vars)
  BY <1>3, StoreFails DEF Store!Next
<1>4. ASSUME NEW w \in Writer, Complete(w) PROVE [Store!Next]_(Store!vars)
  BY <1>4, StoreComplete DEF Store!Next, Store!vars
<1>5. ASSUME NEW w \in Writer, Retire(w) PROVE [Store!Next]_(Store!vars)
  BY <1>5, StoreRetire DEF Store!Next, Store!vars
<1>6. CASE Reinit
  BY <1>6 DEF Reinit, DctInv, Safe
<1>7. CASE Reset
  <2>1. ~unsafe /\ copy' = copy /\ \A w \in Writer : op'[w].at = "idle"
    BY <1>7, SafeReset DEF Reset
  <2>2. Stored' = Stored
    BY <2>1 DEF Stored, Current, Valid
  <2>3. Asked' = [w \in Writer |-> NoRequest]
    BY <2>1 DEF Asked, Effective, NoRequest, IdleRequest
  <2> QED
    BY <2>1, <2>2, <2>3 DEF Store!Next, Store!Reset
<1>8. CASE UNCHANGED vars
  <2>1. Stored' = Stored /\ Asked' = Asked
    BY <1>8 DEF vars, Stored, Current, Valid, Asked, Effective, New,
                NoRequest, IdleRequest
  <2> QED
    BY <1>8, <2>1 DEF vars, Store!vars
<1> QED
  BY <1>1, <1>2, <1>3, <1>4, <1>5, <1>6, <1>7, <1>8 DEF Next, WriteStep

(***************************************************************************)
(* The two copies in flash implement the atomic store.                     *)
(***************************************************************************)
THEOREM TableIsAtomic == Spec => Atomic
<1>1. Init => Store!Init
  BY InitStore
<1> QED
  BY <1>1, StoreStep, DctInvariant, PTL DEF Spec, Atomic, Store!Spec
=============================================================================
