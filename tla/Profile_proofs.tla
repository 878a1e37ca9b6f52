--------------------------- MODULE Profile_proofs ---------------------------
(***************************************************************************)
(* Theorems about Profile.  The threads only see the table as the atomic   *)
(* store that Dct_proofs shows it to be: Stored and Asked.                 *)
(***************************************************************************)
EXTENDS Profile, Dct_proofs

allVars == <<vars, profileVars>>

LEMMA Requests ==
  /\ \A s \in 1 .. 2, v \in Value : Write(s, v) \in Request
  /\ Call("none") \in Request /\ Call("ota") \in Request
<1>1. /\ \A s \in 1 .. 2 : s \in 0 .. Sections
      /\ "none" \in Func /\ "ota" \in Func
  BY ProfileAssumption, FuncAssumption, SectionsAssumption
<1>2. IdleRequest \in Request
  BY Types
<1>3. \A s \in 1 .. 2, v \in Value : Write(s, v) \in Request
  <2>1. ASSUME NEW s \in 1 .. 2, NEW v \in Value
        PROVE  [section |-> s, value |-> v, func |-> "none"] \in Request
    BY <1>1 DEF Request
  <2> QED
    BY <2>1 DEF Write
<1>4. \A f \in Func : [IdleRequest EXCEPT !.func = f] \in Request
  BY <1>2 DEF Request
<1> QED
  BY <1>1, <1>3, <1>4 DEF Call

LEMMA ProfileTypeInit == ProfileInit => ProfileTypeOK
  BY TypeInit, Types DEF ProfileInit, ProfileTypeOK

\* Each step asks for a write, or is one of the table, or leaves it alone.
LEMMA TableStep ==
  ASSUME ProfileTypeOK, [ProfileNext]_allVars
  PROVE  [Next]_vars
<1> USE DEF ProfileTypeOK
<1>0. main \in Writer /\ web \in Writer
  BY ProfileAssumption
<1>1. CASE ClearCall \/ AskUpgrade
  BY <1>0, <1>1, Requests DEF ClearCall, AskUpgrade, Next
<1>2. CASE Load \/ LoadDefault \/ SaveDefaults
  <2>1. ram' \in Value
    BY <1>2, Types DEF Load, LoadDefault, SaveDefaults
  <2>2. \E s \in 1 .. 2 : Ask(main, Write(s, ram'))
    BY <1>2 DEF Load, LoadDefault, SaveDefaults, Wifi, App
  <2> QED
    BY <1>0, <2>1, <2>2, Requests DEF Next
<1>3. CASE ApplyToWifi \/ SaveProfile \/ SaveNetwork
  <2>1. \E s \in 1 .. 2 : Ask(main, Write(s, ram))
    BY <1>3 DEF ApplyToWifi, SaveProfile, SaveNetwork, Wifi, App
  <2> QED
    BY <1>0, <2>1, Requests DEF Next
<1>4. CASE SetNetwork
  BY <1>0, <1>4, Requests DEF SetNetwork, Next, Wifi
<1>5. CASE WebSaves
  BY <1>0, <1>5, Requests DEF WebSaves, Next, App
<1>6. CASE StartUpgrade \/ Applied \/ Set
  BY <1>6 DEF StartUpgrade, Applied, Set
<1>7. CASE Flashes \/ Reinits \/ Resets
  BY <1>7 DEF Flashes, Reinits, Resets, Next
<1>8. CASE UNCHANGED allVars
  BY <1>8 DEF allVars
<1> QED
  BY <1>1, <1>2, <1>3, <1>4, <1>5, <1>6, <1>7, <1>8 DEF ProfileNext, Main

LEMMA ProfileTypeNext == ProfileTypeOK /\ [ProfileNext]_allVars => ProfileTypeOK'
<1> SUFFICES ASSUME ProfileTypeOK, [ProfileNext]_allVars PROVE ProfileTypeOK'
  OBVIOUS
<1>0. TypeOK'
  BY TableStep, TypeNext DEF ProfileTypeOK
<1> USE DEF ProfileTypeOK
<1>1. CASE Main
  <2>1. ram' \in Value
    BY <1>1, Types DEF Main, ClearCall, StartUpgrade, Load, LoadDefault,
       ApplyToWifi, Applied, Set, SaveProfile, SetNetwork, SaveNetwork,
       SaveDefaults, AskUpgrade
  <2>2. /\ saving' = saving /\ failed' = failed
        /\ due' = due \/ due' = failed \/ due' = TRUE
        /\ at' \in {"boot", "clear", "upgrade", "save", "apply", "ready",
                    "set", "reset"}
    BY <1>1 DEF Main, MainRuns, ClearCall, StartUpgrade, Load, LoadDefault,
       ApplyToWifi, Applied, Set, SaveProfile, SetNetwork, SaveNetwork,
       SaveDefaults, AskUpgrade
  <2> QED
    BY <1>0, <2>1, <2>2
<1>2. CASE Flashes
  <2>1. failed' \in BOOLEAN
    BY <1>2, Zenon DEF Flashes
  <2> QED
    BY <1>0, <1>2, <2>1 DEF Flashes
<1>3. CASE WebSaves \/ Reinits \/ Resets
  BY <1>0, <1>3, Types DEF WebSaves, Reinits, Resets, profileVars
<1>4. CASE UNCHANGED allVars
  BY <1>0, <1>4 DEF allVars, profileVars
<1> QED
  BY <1>1, <1>2, <1>3, <1>4 DEF ProfileNext

LEMMA ProfileTyped == ProfileSpec => []ProfileTypeOK
  BY ProfileTypeInit, ProfileTypeNext, PTL DEF ProfileSpec, allVars

(***************************************************************************)
(* The state of the threads has its type.                                  *)
(***************************************************************************)
THEOREM ProfileTypeCorrect == ProfileSpec => []ProfileTypeOK
  BY ProfileTyped

(***************************************************************************)
(* What is shown of the table holds under the threads that use it here.    *)
(***************************************************************************)
THEOREM ProfileUsesTable == ProfileSpec => Spec
<1>1. ProfileInit => Init
  BY DEF ProfileInit
<1>2. ProfileTypeOK /\ [ProfileNext]_allVars => [Next]_vars
  BY TableStep
<1> QED
  BY <1>1, <1>2, ProfileTyped, PTL DEF ProfileSpec, Spec, allVars

-----------------------------------------------------------------------------
(***************************************************************************)
(* What the threads know of the table: Stored and Asked.                   *)
(***************************************************************************)
LEMMA ProfileInvariant == ProfileSpec => [](ProfileTypeOK /\ DctInv)
  BY ProfileUsesTable, DctInvariant, ProfileTyped, PTL

\* A thread asks for a write.
LEMMA Asks ==
  ASSUME DctInv, NEW w \in Writer, NEW r \in Request, Ask(w, r), ~unsafe'
  PROVE  /\ ~unsafe /\ Stored' = Stored /\ Asked[w] = NoRequest
         /\ Asked'[w] = r /\ \A u \in Writer : u # w => Asked'[u] = Asked[u]
<1>1. ~unsafe /\ Asked' = [Asked EXCEPT ![w] = r] /\ Stored' = Stored
  BY StoreAsk
<1>2. Asked \in [Writer -> {Asked[u] : u \in Writer}]
  BY DEF Asked
<1>3. Asked[w] = NoRequest
  BY DEF Ask, Busy, Effective, Asked
<1> QED
  BY <1>1, <1>2, <1>3

\* A step of a write: it shows nothing, takes effect, or is refused.
LEMMA Writes ==
  ASSUME DctInv, Flashes, ~unsafe'
  PROVE  /\ ~unsafe
         /\ failed => failed'
         /\ \E w \in Writer :
              \/ UNCHANGED <<Stored, Asked>>
              \/ /\ Asked[w] # NoRequest
                 /\ Stored' = Store!Apply(Stored, Asked[w])
                 /\ Asked' = [Asked EXCEPT ![w] = NoRequest]
              \/ /\ Stored' = Stored /\ failed'
                 /\ Asked' = [Asked EXCEPT ![w] = NoRequest]
<1>0. PICK w \in Writer :
        WriteStep(w) /\ failed' = (failed \/ (op'[w].at = "idle" /\ op[w].at # "retire"))
  BY Zenon DEF Flashes
<1>1. ~unsafe
  BY <1>0, Alone
<1>2. failed => failed'
  BY <1>0, Zenon
<1>3. CASE Erase(w) \/ CopySection(w) \/ WriteHeader(w)
  BY <1>1, <1>2, <1>3, Prepares
<1>4. CASE WriteFails(w)
  <2>1. op'[w].at = "idle" /\ op[w].at # "retire"
    <3>1. op \in [Writer -> Op]
      BY DEF DctInv, TypeOK
    <3> QED
      BY <1>4, <3>1 DEF WriteFails, IdleOp
  <2>2. failed'
    BY <1>0, <2>1, Zenon
  <2> QED
    BY <1>1, <1>4, <2>2, StoreFails DEF Store!Refuse
<1>5. CASE Complete(w)
  BY <1>1, <1>2, <1>5, StoreComplete DEF Store!Commit
<1>6. CASE Retire(w)
  BY <1>1, <1>2, <1>6, StoreRetire DEF Store!Commit
<1> QED
  BY <1>0, <1>3, <1>4, <1>5, <1>6 DEF WriteStep

LEMMA AllIdle ==
  ASSUME Reset
  PROVE  Stored' = Stored /\ \A w \in Writer : Asked'[w] = NoRequest
<1>1. copy' = copy /\ \A w \in Writer : op'[w].at = "idle"
  BY DEF Reset, IdleOp
<1> QED
  BY <1>1 DEF Stored, Current, Valid, Asked, Effective, NoRequest, IdleRequest

LEMMA NothingRuns ==
  ASSUME UNCHANGED vars
  PROVE  Stored' = Stored /\ Asked' = Asked
  BY DEF vars, Stored, Current, Valid, Asked, Effective, New, NoRequest,
         IdleRequest

LEMMA NoReinit == DctInv /\ ~unsafe => ~Reinit
  BY DEF Reinit, DctInv, Safe

LEMMA NotBusy == \A w \in Writer : ~Busy(w) => Asked[w] = NoRequest
  BY DEF Busy, Asked, Effective

-----------------------------------------------------------------------------
(***************************************************************************)
(* The two places agree.  What has to be known in between is how far the   *)
(* main thread is with its two writes, and that nobody else has asked.     *)
(***************************************************************************)
Agreed(section) ==
  \/ Asked[main] = Write(section, ram)
  \/ Asked[main] = NoRequest /\ Stored.cell[section] = ram

Halfway ==
  /\ \A w \in Writer : w # main => Asked[w] = NoRequest
  /\ at = "save" => Agreed(App)
  /\ at = "set" => Agreed(Wifi)
  /\ at = "apply" =>
       \/ Agreed(Wifi) /\ Stored.cell[App] = ram
       \/ Agreed(App) /\ Stored.cell[Wifi] = ram
  /\ at = "ready" =>
       Asked[main] = NoRequest /\ Stored.cell[Wifi] = Stored.cell[App]

AgreeInv == ~unsafe /\ ~failed /\ ~saving => Halfway

LEMMA AgreeInit == ProfileInit => AgreeInv
<1> SUFFICES ASSUME ProfileInit PROVE Halfway
  BY DEF AgreeInv
<1>1. \A w \in Writer : Asked[w] = NoRequest
  BY NotBusy DEF ProfileInit, Init, IdleOp, Busy
<1> QED
  BY <1>1 DEF ProfileInit, Halfway

LEMMA Applies ==
  ASSUME NEW s \in {Wifi, App}, NEW r, Stored' = Store!Apply(Stored, r)
  PROVE  Stored'.cell[s] = IF s = r.section THEN r.value ELSE Stored.cell[s]
<1>1. s \in Section
  BY ProfileAssumption, SectionsAssumption DEF Wifi, App, Section
<1> QED
  BY <1>1 DEF Store!Apply

LEMMA WriteIsRequest ==
  \A s \in 1 .. 2 : \A v : Write(s, v) # NoRequest
<1>1. \A s \in 1 .. 2 : s # Sections + 1
  BY ProfileAssumption, SectionsAssumption
<1>2. NoRequest.section = Sections + 1
  BY DEF NoRequest, IdleRequest
<1> QED
  BY <1>1, <1>2 DEF Write

\* The main thread asks for a write.
LEMMA MainAsks ==
  ASSUME DctInv, AgreeInv, NEW r \in Request, Ask(main, r),
         UNCHANGED <<saving, failed>>, ~unsafe', ~failed', ~saving'
  PROVE  /\ Halfway /\ Stored' = Stored
         /\ Asked[main] = NoRequest /\ Asked'[main] = r
         /\ \A w \in Writer : w # main => Asked'[w] = NoRequest
<1>1. main \in Writer
  BY ProfileAssumption
<1>2. /\ ~unsafe /\ Stored' = Stored /\ Asked[main] = NoRequest
      /\ Asked'[main] = r
      /\ \A w \in Writer : w # main => Asked'[w] = Asked[w]
  BY <1>1, Asks
<1>3. Halfway
  BY <1>2 DEF AgreeInv
<1>4. \A w \in Writer : w # main => Asked[w] = NoRequest
  BY <1>3 DEF Halfway
<1> QED
  BY <1>2, <1>3, <1>4

LEMMA AgreeNext ==
  ProfileTypeOK /\ DctInv /\ AgreeInv /\ [ProfileNext]_allVars => AgreeInv'
<1> SUFFICES ASSUME ProfileTypeOK, DctInv, AgreeInv, [ProfileNext]_allVars,
                    ~unsafe', ~failed', ~saving'
             PROVE  Halfway'
  BY DEF AgreeInv
<1>0. main \in Writer /\ ram \in Value /\ App # Wifi
  BY ProfileAssumption DEF ProfileTypeOK, App, Wifi
<1>1. NoRequest' = NoRequest /\ \A v : v = ram' =>
        Write(App, ram)' = Write(App, v) /\ Write(Wifi, ram)' = Write(Wifi, v)
  BY DEF NoRequest, IdleRequest, Write, App, Wifi
<1>2. CASE Load
  <2>1. /\ ram' \in Value /\ Ask(main, Write(Wifi, ram')) /\ at' = "apply"
        /\ Stored.cell[App] = ram' /\ UNCHANGED <<saving, failed>>
    BY <1>2 DEF Load, MainRuns
  <2>2. Write(Wifi, ram') \in Request
    BY <2>1, Requests DEF Wifi
  <2> QED
    BY <1>1, <2>1, <2>2, MainAsks DEF Halfway, Agreed
<1>3. CASE LoadDefault \/ SaveDefaults
  <2>1. /\ ram' \in Value /\ Ask(main, Write(App, ram'))
        /\ at' = "save" \/ at' = "reset"
    BY <1>3, Types DEF LoadDefault, SaveDefaults, MainRuns
  <2>2. UNCHANGED <<saving, failed>>
    BY <1>3 DEF LoadDefault, SaveDefaults, MainRuns
  <2>3. Write(App, ram') \in Request
    BY <2>1, Requests DEF App
  <2>4. /\ Asked'[main] = Write(App, ram')
        /\ \A w \in Writer : w # main => Asked'[w] = NoRequest
    BY <2>1, <2>2, <2>3, MainAsks
  <2> QED
    BY <1>1, <2>1, <2>4 DEF Halfway, Agreed
<1>4. CASE ApplyToWifi
  <2>1. /\ Ask(main, Write(Wifi, ram)) /\ at = "save" /\ at' = "apply"
        /\ ram' = ram /\ UNCHANGED <<saving, failed>>
    BY <1>4 DEF ApplyToWifi, MainRuns
  <2>2. Write(Wifi, ram) \in Request
    BY <1>0, Requests DEF Wifi
  <2>3. /\ Halfway /\ Stored' = Stored
        /\ Asked[main] = NoRequest /\ Asked'[main] = Write(Wifi, ram)
        /\ \A w \in Writer : w # main => Asked'[w] = NoRequest
    BY <2>1, <2>2, MainAsks
  <2>4. Stored.cell[App] = ram
    BY <2>1, <2>3, WriteIsRequest DEF Halfway, Agreed, App
  <2> QED
    BY <1>1, <2>1, <2>3, <2>4 DEF Halfway, Agreed
<1>5. CASE SaveProfile
  <2>1. /\ Ask(main, Write(App, ram)) /\ at' = "save"
        /\ ram' = ram /\ UNCHANGED <<saving, failed>>
    BY <1>5 DEF SaveProfile, MainRuns
  <2>2. Write(App, ram) \in Request
    BY <1>0, Requests DEF App
  <2> QED
    BY <1>1, <2>1, <2>2, MainAsks DEF Halfway, Agreed
<1>6. CASE SetNetwork
  <2>1. /\ ram' \in Value /\ Ask(main, Write(Wifi, ram')) /\ at' = "set"
        /\ UNCHANGED <<saving, failed>>
    BY <1>6 DEF SetNetwork, MainRuns
  <2>2. Write(Wifi, ram') \in Request
    BY <2>1, Requests DEF Wifi
  <2> QED
    BY <1>1, <2>1, <2>2, MainAsks DEF Halfway, Agreed
<1>7. CASE SaveNetwork
  <2>1. /\ Ask(main, Write(App, ram)) /\ at = "set" /\ at' = "apply"
        /\ ram' = ram /\ UNCHANGED <<saving, failed>>
    BY <1>7 DEF SaveNetwork, MainRuns
  <2>2. Write(App, ram) \in Request
    BY <1>0, Requests DEF App
  <2>3. /\ Halfway /\ Stored' = Stored
        /\ Asked[main] = NoRequest /\ Asked'[main] = Write(App, ram)
        /\ \A w \in Writer : w # main => Asked'[w] = NoRequest
    BY <2>1, <2>2, MainAsks
  <2>4. Stored.cell[Wifi] = ram
    BY <2>1, <2>3, WriteIsRequest DEF Halfway, Agreed, Wifi
  <2> QED
    BY <1>1, <2>1, <2>3, <2>4 DEF Halfway, Agreed
<1>8. CASE ClearCall \/ AskUpgrade
  <2>1. /\ \E r \in Request : Ask(main, r)
        /\ at' \in {"clear", "reset"} /\ UNCHANGED <<saving, failed>>
    BY <1>8, Requests DEF ClearCall, AskUpgrade, MainRuns
  <2>2. \A w \in Writer : w # main => Asked'[w] = NoRequest
    BY <2>1, MainAsks
  <2> QED
    BY <1>1, <2>1, <2>2 DEF Halfway
<1>9. CASE Set \/ Applied \/ StartUpgrade
  <2>1. /\ UNCHANGED <<vars, saving, failed>> /\ ~Busy(main)
        /\ \/ at = "apply" /\ at' = "ready" /\ ram' = ram
           \/ at = "ready" /\ at' = "ready"
           \/ at' = "upgrade"
    BY <1>9 DEF Set, Applied, StartUpgrade, MainRuns
  <2>2. Stored' = Stored /\ Asked' = Asked /\ Halfway
    BY <2>1, NothingRuns DEF AgreeInv, vars
  <2>3. Asked[main] = NoRequest
    BY <1>0, <2>1, NotBusy
  <2>4. at = "apply" => Stored.cell[Wifi] = Stored.cell[App]
    BY <2>2, <2>3, WriteIsRequest DEF Halfway, Agreed, Wifi, App
  <2> QED
    BY <1>1, <2>1, <2>2, <2>3, <2>4 DEF Halfway
<1>10. CASE Flashes
  <2>1. UNCHANGED <<at, ram, saving>>
    BY <1>10 DEF Flashes
  <2>2. Halfway
    BY <1>10, <2>1, Writes DEF AgreeInv
  <2>3. CASE UNCHANGED <<Stored, Asked>>
    BY <1>1, <2>1, <2>2, <2>3 DEF Halfway, Agreed
  <2>4. CASE \E w \in Writer :
               /\ Asked[w] # NoRequest
               /\ Stored' = Store!Apply(Stored, Asked[w])
               /\ Asked' = [Asked EXCEPT ![w] = NoRequest]
    <3>1. /\ Asked[main] # NoRequest
          /\ Stored' = Store!Apply(Stored, Asked[main])
          /\ Asked' = [Asked EXCEPT ![main] = NoRequest]
      BY <2>2, <2>4 DEF Halfway
    <3>2. \A w \in Writer : Asked'[w] = NoRequest
      BY <2>2, <3>1 DEF Halfway, Asked
    <3>3. ASSUME NEW s \in {Wifi, App}, Asked[main] = Write(s, ram)
          PROVE  /\ Stored'.cell[s] = ram
                 /\ \A t \in {Wifi, App} : t # s => Stored'.cell[t] = Stored.cell[t]
      BY <3>1, <3>3, Applies DEF Write
    <3> QED
      BY <1>0, <1>1, <2>1, <2>2, <3>1, <3>2, <3>3 DEF Halfway, Agreed
  <2> QED
    BY <1>10, <2>3, <2>4, Writes
<1>11. CASE Resets
  <2>1. at' = "boot" /\ \A w \in Writer : Asked'[w] = NoRequest
    BY <1>11, AllIdle DEF Resets
  <2> QED
    BY <1>1, <2>1 DEF Halfway
<1>12. CASE UNCHANGED allVars
  <2>1. Stored' = Stored /\ Asked' = Asked
    BY <1>12, NothingRuns DEF allVars
  <2>2. Halfway /\ UNCHANGED <<at, ram>>
    BY <1>12 DEF AgreeInv, allVars, vars, profileVars
  <2> QED
    BY <1>1, <2>1, <2>2 DEF Halfway, Agreed
<1>13. ~WebSaves /\ ~Reinits
  <2>1. ~WebSaves
    BY DEF WebSaves
  <2>2. ~Reinits
    BY NoReinit DEF Reinits, Reinit
  <2> QED
    BY <2>1, <2>2
<1> QED
  BY <1>2, <1>3, <1>4, <1>5, <1>6, <1>7, <1>8, <1>9, <1>10, <1>11, <1>12,
     <1>13 DEF ProfileNext, Main

LEMMA AgreeInvariant == ProfileSpec => []AgreeInv
<1>1. ProfileInit => AgreeInv
  BY AgreeInit
<1>2. ProfileTypeOK /\ DctInv /\ AgreeInv /\ [ProfileNext]_allVars => AgreeInv'
  BY AgreeNext
<1> QED
  BY <1>1, <1>2, ProfileInvariant, PTL DEF ProfileSpec, allVars

(***************************************************************************)
(* Between commands the profile and the Wi-Fi section agree, unless a      *)
(* write returned an error since the start.                                *)
(***************************************************************************)
THEOREM SettingsAlwaysAgree == ProfileSpec => []SettingsAgree
<1>1. AgreeInv => SettingsAgree
  BY DEF AgreeInv, Halfway, SettingsAgree
<1> QED
  BY <1>1, AgreeInvariant, PTL
-----------------------------------------------------------------------------
(***************************************************************************)
(* The upgrade starts once.  A call in the table, or on its way there, is  *)
(* due; when the bootloader has cleared it without an error it is gone.    *)
(***************************************************************************)
Cleared ==
  \/ Asked[main] = Call("none")
  \/ Asked[main] = NoRequest /\ Stored.func = "none"

CallsAreDue ==
  /\ Stored.func # "none" => due
  /\ Asked[main].func # "none" => due
  /\ \A w \in Writer : w # main => Asked[w].func = "none"
  /\ at = "clear" => due /\ (failed \/ Cleared)

OnceInv == ~unsafe => CallsAreDue

LEMMA NoFunc ==
  NoRequest.func = "none" /\ Call("none").func = "none"
  BY DEF NoRequest, Call, IdleRequest

LEMMA OnceInit == ProfileInit => OnceInv
<1> SUFFICES ASSUME ProfileInit PROVE CallsAreDue
  BY DEF OnceInv
<1>1. main \in Writer /\ \A w \in Writer : Asked[w] = NoRequest
  BY NotBusy, ProfileAssumption DEF ProfileInit, Init, IdleOp, Busy
<1>2. Stored = FactoryContents
  BY InitStore DEF ProfileInit, Store!Init
<1> QED
  BY <1>1, <1>2, NoFunc DEF ProfileInit, CallsAreDue, FactoryContents

LEMMA OnceNext ==
  ProfileTypeOK /\ DctInv /\ OnceInv /\ [ProfileNext]_allVars => OnceInv'
<1> SUFFICES ASSUME ProfileTypeOK, DctInv, OnceInv, [ProfileNext]_allVars, ~unsafe'
             PROVE  CallsAreDue'
  BY DEF OnceInv
<1>0. main \in Writer /\ web \in Writer /\ main # web /\ ram \in Value
  BY ProfileAssumption DEF ProfileTypeOK
<1>1. NoRequest' = NoRequest /\ Call("none")' = Call("none")
  BY DEF NoRequest, Call, IdleRequest
\* What the main thread asks for, other than to start an upgrade.
<1>2. ASSUME NEW r \in Request, Ask(main, r), r.func = "none", due' = due,
             at' # "clear"
      PROVE  CallsAreDue'
  <2>1. /\ ~unsafe /\ Stored' = Stored /\ Asked'[main] = r
        /\ \A w \in Writer : w # main => Asked'[w] = Asked[w]
    BY <1>0, <1>2, Asks
  <2> QED
    BY <1>2, <2>1 DEF OnceInv, CallsAreDue
<1>3. CASE Load \/ LoadDefault \/ SaveDefaults
  <2>1. /\ ram' \in Value /\ \E s \in 1 .. 2 : Ask(main, Write(s, ram'))
        /\ due' = due /\ at' # "clear"
    BY <1>3, Types DEF Load, LoadDefault, SaveDefaults, MainRuns, Wifi, App
  <2>2. PICK s \in 1 .. 2 : Ask(main, Write(s, ram'))
    BY <2>1
  <2>3. Write(s, ram') \in Request /\ Write(s, ram').func = "none"
    BY <2>1, Requests DEF Write
  <2> QED
    BY <1>2, <2>1, <2>2, <2>3
<1>4. CASE ApplyToWifi \/ SaveProfile \/ SaveNetwork
  <2>1. /\ \E s \in 1 .. 2 : Ask(main, Write(s, ram))
        /\ due' = due /\ at' # "clear"
    BY <1>4 DEF ApplyToWifi, SaveProfile, SaveNetwork, MainRuns, Wifi, App
  <2>2. PICK s \in 1 .. 2 : Ask(main, Write(s, ram))
    BY <2>1
  <2>3. Write(s, ram) \in Request /\ Write(s, ram).func = "none"
    BY <1>0, Requests DEF Write
  <2> QED
    BY <1>2, <2>1, <2>2, <2>3
<1>5. CASE SetNetwork
  <2>1. PICK v \in Value : Ask(main, Write(Wifi, v))
    BY <1>5 DEF SetNetwork
  <2>2. Write(Wifi, v) \in Request /\ Write(Wifi, v).func = "none"
    BY Requests DEF Write, Wifi
  <2>3. due' = due /\ at' # "clear"
    BY <1>5 DEF SetNetwork, MainRuns
  <2> QED
    BY <1>2, <2>1, <2>2, <2>3
<1>6. CASE ClearCall
  <2>1. /\ Ask(main, Call("none")) /\ Stored.func # "none" /\ due' = due
        /\ failed' = failed
    BY <1>6 DEF ClearCall, MainRuns
  <2>2. /\ ~unsafe /\ Stored' = Stored /\ Asked'[main] = Call("none")
        /\ \A w \in Writer : w # main => Asked'[w] = Asked[w]
    BY <1>0, <2>1, Asks, Requests
  <2> QED
    BY <1>1, <2>1, <2>2, NoFunc DEF OnceInv, CallsAreDue, Cleared
<1>7. CASE AskUpgrade
  <2>1. Ask(main, Call("ota")) /\ due' = TRUE /\ at' # "clear"
    BY <1>7 DEF AskUpgrade, MainRuns
  <2>2. /\ ~unsafe
        /\ \A w \in Writer : w # main => Asked'[w] = Asked[w]
    BY <1>0, <2>1, Asks, Requests
  <2> QED
    BY <2>1, <2>2 DEF OnceInv, CallsAreDue
<1>8. CASE WebSaves
  <2>1. PICK v \in Value : Ask(web, Write(App, v))
    BY <1>8 DEF WebSaves
  <2>2. Write(App, v) \in Request /\ Write(App, v).func = "none"
    BY Requests DEF Write, App
  <2>3. due' = due /\ at' = at /\ at = "ready"
    BY <1>8 DEF WebSaves
  <2>4. /\ ~unsafe /\ Stored' = Stored /\ Asked'[web] = Write(App, v)
        /\ \A w \in Writer : w # web => Asked'[w] = Asked[w]
    BY <1>0, <2>1, <2>2, Asks
  <2> QED
    BY <1>0, <2>2, <2>3, <2>4 DEF OnceInv, CallsAreDue
<1>9. CASE StartUpgrade
  <2>1. /\ UNCHANGED vars /\ due' = failed /\ at = "clear" /\ at' = "upgrade"
        /\ ~Busy(main)
    BY <1>9 DEF StartUpgrade, MainRuns
  <2>2. Stored' = Stored /\ Asked' = Asked /\ CallsAreDue
    BY <2>1, NothingRuns DEF OnceInv, vars
  <2>3. Asked[main] = NoRequest
    BY <1>0, <2>1, NotBusy
  <2>4. failed \/ Cleared
    BY <2>1, <2>2 DEF CallsAreDue
  <2>5. NoRequest # Call("none")
    <3>1. NoRequest.section = Sections + 1
      BY DEF NoRequest, IdleRequest
    <3>2. Call("none").section = 0
      BY DEF Call, IdleRequest
    <3> QED
      BY <3>1, <3>2, SectionsAssumption
  <2>6. failed \/ Stored.func = "none"
    BY <2>3, <2>4, <2>5 DEF Cleared
  <2> QED
    BY <2>1, <2>2, <2>3, <2>6, NoFunc DEF CallsAreDue
<1>10. CASE Applied \/ Set
  <2>1. UNCHANGED <<vars, due>> /\ at' # "clear"
    BY <1>10 DEF Applied, Set, MainRuns
  <2>2. Stored' = Stored /\ Asked' = Asked /\ CallsAreDue
    BY <2>1, NothingRuns DEF OnceInv, vars
  <2> QED
    BY <2>1, <2>2 DEF CallsAreDue
<1>11. CASE Flashes
  <2>1. UNCHANGED <<at, due>>
    BY <1>11 DEF Flashes
  <2>2. CallsAreDue /\ (failed => failed')
    BY <1>11, Writes DEF OnceInv
  <2>3. PICK w \in Writer :
           \/ UNCHANGED <<Stored, Asked>>
           \/ /\ Asked[w] # NoRequest
              /\ Stored' = Store!Apply(Stored, Asked[w])
              /\ Asked' = [Asked EXCEPT ![w] = NoRequest]
           \/ /\ Stored' = Stored /\ failed'
              /\ Asked' = [Asked EXCEPT ![w] = NoRequest]
    BY <1>11, Writes
  <2>4. CASE UNCHANGED <<Stored, Asked>>
    BY <1>1, <2>1, <2>2, <2>4 DEF CallsAreDue, Cleared
  <2>5. CASE Stored' = Stored /\ failed' /\ Asked' = [Asked EXCEPT ![w] = NoRequest]
    BY <1>0, <2>1, <2>2, <2>5, NoFunc DEF CallsAreDue, Asked
  <2>6. CASE /\ Asked[w] # NoRequest
             /\ Stored' = Store!Apply(Stored, Asked[w])
             /\ Asked' = [Asked EXCEPT ![w] = NoRequest]
    <3>1. Stored'.func = Asked[w].func
      BY <2>6 DEF Store!Apply
    <3>2. /\ Asked'[w] = NoRequest
          /\ \A u \in Writer : u # w => Asked'[u] = Asked[u]
      BY <2>6 DEF Asked
    <3>3. at = "clear" => (failed' \/ Cleared')
      <4>1. CASE w = main
        BY <1>1, <2>2, <2>6, <3>1, <3>2, <4>1, NoFunc DEF CallsAreDue, Cleared
      <4>2. CASE w # main
        BY <1>0, <1>1, <2>2, <3>1, <3>2, <4>2 DEF CallsAreDue, Cleared
      <4> QED
        BY <4>1, <4>2
    <3> QED
      BY <1>0, <2>1, <2>2, <3>1, <3>2, <3>3, NoFunc DEF CallsAreDue
  <2> QED
    BY <2>3, <2>4, <2>5, <2>6
<1>12. CASE Resets
  <2>1. /\ at' = "boot" /\ due' = due /\ unsafe' = unsafe /\ Stored' = Stored
        /\ \A w \in Writer : Asked'[w] = NoRequest
    BY <1>12, AllIdle DEF Resets, Reset
  <2> QED
    BY <1>0, <2>1, NoFunc DEF OnceInv, CallsAreDue
<1>13. CASE UNCHANGED allVars
  <2>1. Stored' = Stored /\ Asked' = Asked
    BY <1>13, NothingRuns DEF allVars
  <2>2. CallsAreDue /\ UNCHANGED <<at, due, failed>>
    BY <1>13 DEF OnceInv, allVars, vars, profileVars
  <2> QED
    BY <1>1, <2>1, <2>2 DEF CallsAreDue, Cleared
<1>14. ~Reinits
  BY NoReinit DEF Reinits, Reinit
<1> QED
  BY <1>3, <1>4, <1>5, <1>6, <1>7, <1>8, <1>9, <1>10, <1>11, <1>12, <1>13,
     <1>14 DEF ProfileNext, Main

LEMMA OnceInvariant == ProfileSpec => []OnceInv
<1>1. ProfileInit => OnceInv
  BY OnceInit
<1>2. ProfileTypeOK /\ DctInv /\ OnceInv /\ [ProfileNext]_allVars => OnceInv'
  BY OnceNext
<1> QED
  BY <1>1, <1>2, ProfileInvariant, PTL DEF ProfileSpec, allVars

(***************************************************************************)
(* The upgrade is started only when it was asked for and not started       *)
(* since, or its call could not be cleared.                                *)
(***************************************************************************)
THEOREM UpgradeStartsOnce == ProfileSpec => UpgradesOnce
<1>1. OnceInv /\ [ProfileNext]_allVars
        => [at' = "upgrade" /\ at # "upgrade" /\ ~unsafe => due]_at
  <2> SUFFICES ASSUME OnceInv, ProfileNext, at' = "upgrade", at # "upgrade",
                      ~unsafe
               PROVE  due
    BY DEF allVars, profileVars
  <2>1. at = "clear"
    BY DEF ProfileNext, Main, MainRuns, ClearCall, StartUpgrade, Load,
       LoadDefault, ApplyToWifi, Applied, Set, SaveProfile, SetNetwork,
       SaveNetwork, SaveDefaults, AskUpgrade, WebSaves, Flashes, Reinits,
       Resets, profileVars
  <2> QED
    BY <2>1 DEF OnceInv, CallsAreDue
<1> QED
  BY <1>1, OnceInvariant, PTL DEF ProfileSpec, UpgradesOnce, allVars
=============================================================================
