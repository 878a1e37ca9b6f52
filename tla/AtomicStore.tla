---------------------------- MODULE AtomicStore ----------------------------
(***************************************************************************)
(* What the device configuration table (DCT) promises its callers: a write *)
(* replaces one section and the function to call at the next start, all at *)
(* once or not at all, whenever the power fails.                           *)
(*                                                                         *)
(* The promise ends with "unsafe", which says that something happened that *)
(* the store does not cope with.                                           *)
(***************************************************************************)
CONSTANTS
  Writer,    \* the callers
  Section,   \* the sections of the table
  Request,   \* what they may ask for
  Factory,   \* the contents that the module is shipped with
  NoRequest  \* says that a caller waits for nothing

VARIABLES
  stored,    \* the contents that are read
  asked,     \* the request of each caller, or NoRequest
  unsafe

vars == <<stored, asked, unsafe>>

Init ==
  /\ stored = Factory
  /\ asked = [w \in Writer |-> NoRequest]
  /\ unsafe = FALSE

Apply(contents, request) ==
  [cell |-> [s \in Section |-> IF s = request.section THEN request.value
                                                      ELSE contents.cell[s]],
   func |-> request.func]

Ask(w) ==
  /\ asked[w] = NoRequest
  /\ \E request \in Request : asked' = [asked EXCEPT ![w] = request]
  /\ UNCHANGED stored

Commit(w) ==
  /\ asked[w] # NoRequest
  /\ stored' = Apply(stored, asked[w])
  /\ asked' = [asked EXCEPT ![w] = NoRequest]

Refuse(w) ==
  /\ asked' = [asked EXCEPT ![w] = NoRequest]
  /\ UNCHANGED stored

\* The power fails, or the module resets.
Reset ==
  /\ asked' = [w \in Writer |-> NoRequest]
  /\ UNCHANGED stored

Next ==
  \/ ~unsafe' /\ ~unsafe /\ \/ \E w \in Writer : Ask(w) \/ Commit(w) \/ Refuse(w)
                            \/ Reset
  \/ unsafe'

Spec == Init /\ [][Next]_vars
=============================================================================
