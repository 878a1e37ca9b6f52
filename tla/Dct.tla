-------------------------------- MODULE Dct --------------------------------
(***************************************************************************)
(* The device configuration table in flash: platform_get_dct and           *)
(* platform_write_dct of stm32f2xx_platform.c.                             *)
(*                                                                         *)
(* Two copies take turns.  A write erases the copy that is not current,    *)
(* fills it from the current one with the new data in its place, verifying *)
(* each part, writes the header, and moves the marks with two more writes. *)
(* The power may fail between any two of these.  Programming flash clears  *)
(* bits and never sets any.  There is no lock: writers may overlap.        *)
(***************************************************************************)
EXTENDS Naturals

CONSTANTS
  Writer,     \* the threads that write
  Sections,   \* number of sections: of Wi-Fi, of the application, ...
  Value,      \* what a section may hold
  Func        \* functions that the bootloader may have to call

ASSUME SectionsAssumption == Sections \in Nat
ASSUME ValueAssumption ==
  /\ "erased" \notin Value /\ "garbage" \notin Value /\ Value # {}
ASSUME FuncAssumption ==
  /\ "erased" \notin Func /\ "garbage" \notin Func /\ "none" \in Func

VARIABLES
  copy,       \* the two copies
  op,         \* where each writer is in platform_write_dct
  unsafe      \* history: writers overlapped, or a mark was not written

vars == <<copy, op, unsafe>>

Section == 1 .. Sections
Copies == {1, 2}
Other(c) == 3 - c

\* What flash may hold in place of a value of S.
Flash(S) == S \cup {"erased", "garbage"}

\* A byte of 0xFF is erased; the marks take the values 255, 1 and 0.
Marks == {255, 1, 0}

Copy == [cell : [Section -> Flash(Value)], func : Flash(Func),
         incomplete : Marks, current : Marks, magic : BOOLEAN]

ErasedCopy ==
  [cell |-> [s \in Section |-> "erased"], func |-> "erased",
   incomplete |-> 255, current |-> 255, magic |-> FALSE]

\* Bits are only cleared.
Program(old, new) ==
  CASE old = "erased" -> new
    [] old # "erased" /\ new \in {old, "erased"} -> old
    [] OTHER -> "garbage"
ProgramMark(old, new) == IF old <= new THEN old ELSE new

\* platform_get_dct: the copy that is read, if any is valid.
Valid(c) ==
  copy[c].current = 1 /\ copy[c].incomplete = 0 /\ copy[c].magic
Current == IF Valid(1) THEN 1 ELSE 2
Stored == [cell |-> copy[Current].cell, func |-> copy[Current].func]

Request == [section : 0 .. Sections, value : Value, func : Func]
Phases == {"idle", "erase", "copy", "complete", "retire"}
Op == [at : Phases, request : Request, old : Copies, next : 1 .. Sections + 1]

IdleRequest ==
  [section |-> 0, value |-> CHOOSE v \in Value : TRUE, func |-> "none"]
IdleOp == [at |-> "idle", request |-> IdleRequest, old |-> 1, next |-> 1]

Busy(w) == op[w].at # "idle"

\* As the module is shipped: copy 1 holds the same value everywhere.
FactoryCopy(v) ==
  [cell |-> [s \in Section |-> v], func |-> "none",
   incomplete |-> 0, current |-> 1, magic |-> TRUE]

FactoryValue == CHOOSE v \in Value : TRUE
FactoryContents == [cell |-> [s \in Section |-> FactoryValue], func |-> "none"]

Init ==
  /\ copy = [c \in Copies |-> IF c = 1 THEN FactoryCopy(FactoryValue)
                                       ELSE ErasedCopy]
  /\ op = [w \in Writer |-> IdleOp]
  /\ unsafe = FALSE

-----------------------------------------------------------------------------
(* platform_write_dct *)

Goto(w, phase) == op' = [op EXCEPT ![w].at = phase]

\* The current copy is found; a section of 0 stands for no data at all.
Ask(w, request) ==
  /\ ~Busy(w)
  /\ \E c \in Copies : Valid(c)
  /\ op' = [op EXCEPT ![w] = [at |-> "erase", request |-> request,
                              old |-> Current, next |-> 1]]
  /\ unsafe' = (unsafe \/ \E u \in Writer : Busy(u))
  /\ UNCHANGED copy

New(w) == Other(op[w].old)

\* mutant: the copy that is current is erased
EraseOld(w) ==
  /\ op[w].at = "erase"
  /\ copy' = [copy EXCEPT ![op[w].old] = ErasedCopy]
  /\ Goto(w, "copy")
  /\ UNCHANGED unsafe

Erase(w) ==
  /\ op[w].at = "erase"
  /\ copy' = [copy EXCEPT ![New(w)] = ErasedCopy]
  /\ Goto(w, "copy")
  /\ UNCHANGED unsafe

\* The next section of the new copy is to hold this.
Wanted(w) ==
  IF op[w].next = op[w].request.section
    THEN op[w].request.value
    ELSE copy[op[w].old].cell[op[w].next]

CopySection(w) ==
  /\ op[w].at = "copy" /\ op[w].next <= Sections
  /\ LET cell == Program(copy[New(w)].cell[op[w].next], Wanted(w)) IN
       /\ copy' = [copy EXCEPT ![New(w)].cell[op[w].next] = cell]
       /\ IF cell = Wanted(w)
            THEN op' = [op EXCEPT ![w].next = @ + 1]
            ELSE op' = [op EXCEPT ![w] = IdleOp]
  /\ UNCHANGED unsafe

\* The header that is written last, with the mark that it is incomplete.
WriteHeader(w) ==
  /\ op[w].at = "copy" /\ op[w].next > Sections
  /\ LET new == copy[New(w)]
         header == [new EXCEPT !.func = Program(@, op[w].request.func),
                               !.incomplete = ProgramMark(@, 1),
                               !.current = ProgramMark(@, 1),
                               !.magic = TRUE]
     IN /\ copy' = [copy EXCEPT ![New(w)] = header]
        /\ IF /\ header.func = op[w].request.func
              /\ header.incomplete = 1 /\ header.current = 1
             THEN Goto(w, "complete")
             ELSE op' = [op EXCEPT ![w] = IdleOp]
  /\ UNCHANGED unsafe

\* mutant: a section is not verified
WriteFailsUnseen(w) ==
  /\ op[w].at = "copy" /\ op[w].next <= Sections
  /\ copy' = [copy EXCEPT ![New(w)].cell[op[w].next] = "garbage"]
  /\ op' = [op EXCEPT ![w].next = @ + 1]
  /\ UNCHANGED unsafe

\* Flash does not take a section or the header: -2, -3, -4 or -5.
WriteFails(w) ==
  /\ \/ /\ op[w].at = "copy" /\ op[w].next <= Sections
        /\ copy' = [copy EXCEPT ![New(w)].cell[op[w].next] = "garbage"]
     \/ /\ op[w].at = "copy" /\ op[w].next > Sections
        /\ UNCHANGED copy
  /\ op' = [op EXCEPT ![w] = IdleOp]
  /\ UNCHANGED unsafe

\* The last two writes are not verified.
Complete(w) ==
  /\ op[w].at = "complete"
  /\ \/ /\ copy' = [copy EXCEPT ![New(w)].incomplete = 0]
        /\ UNCHANGED unsafe
     \/ unsafe' = TRUE /\ UNCHANGED copy
  /\ Goto(w, "retire")

Retire(w) ==
  /\ op[w].at = "retire"
  /\ \/ /\ copy' = [copy EXCEPT ![op[w].old].current = 0]
        /\ UNCHANGED unsafe
     \/ unsafe' = TRUE /\ UNCHANGED copy
  /\ op' = [op EXCEPT ![w] = IdleOp]

WriteStep(w) ==
  \/ Erase(w) \/ CopySection(w) \/ WriteHeader(w)
  \/ WriteFails(w) \/ Complete(w) \/ Retire(w)

\* platform_get_dct without a valid copy starts with an empty one.
Reinit ==
  /\ \A c \in Copies : ~Valid(c)
  /\ copy' = [copy EXCEPT ![1] = [ErasedCopy EXCEPT !.func = "none",
                                    !.incomplete = 0, !.current = 1,
                                    !.magic = TRUE]]
  /\ UNCHANGED <<op, unsafe>>

\* The power fails, or the module is reset.
Reset ==
  /\ op' = [w \in Writer |-> IdleOp]
  /\ UNCHANGED <<copy, unsafe>>

Next ==
  \/ \E w \in Writer : (\E r \in Request : Ask(w, r)) \/ WriteStep(w)
  \/ Reinit \/ Reset

Spec == Init /\ [][Next]_vars

-----------------------------------------------------------------------------
TypeOK ==
  /\ copy \in [Copies -> Copy]
  /\ op \in [Writer -> Op]
  /\ unsafe \in BOOLEAN

(***************************************************************************)
(* Whenever the power fails and whatever data flash refuses, a valid copy  *)
(* is left: platform_get_dct never erases the settings (line 2672), as     *)
(* long as writers do not overlap and the two marks are written.           *)
(***************************************************************************)
NeverLost == ~unsafe => \E c \in Copies : Valid(c)

(***************************************************************************)
(* And so the table is an atomic store.  A write takes effect when its     *)
(* copy becomes the one that is read: copy 1 does when it is complete,     *)
(* copy 2 not before copy 1 is retired.                                    *)
(***************************************************************************)
NoRequest == [IdleRequest EXCEPT !.section = Sections + 1]
Effective(w) == op[w].at = "idle" \/ (op[w].at = "retire" /\ New(w) = 1)

Asked ==
  [w \in Writer |-> IF Effective(w) THEN NoRequest ELSE op[w].request]

Store ==
  INSTANCE AtomicStore WITH
    stored <- Stored, asked <- Asked, Factory <- FactoryContents
Atomic == Store!Spec
=============================================================================
