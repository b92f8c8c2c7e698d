-------------------------- MODULE ParamStore_proofs --------------------------
(***************************************************************************)
(* Proofs about ParamStore, for any number of keys and any sequence of     *)
(* commands, failed writes and resets.                                     *)
(***************************************************************************)
EXTENDS ParamStore, TLAPS

ParameterCommands == {"boot", "query", "default", "put"}
ParameterSteps == {"construct", "erase", "default", "put", "load"}
RestSteps == {"idle", "wifiSsid", "wifiPass"}

\* What is known of a command from the step it is at.
ControlInv ==
    /\ step \in ParameterSteps => command \in ParameterCommands
    /\ command = "put" => arg \in TokenLists
    /\ step \in {"wifiSsid", "wifiPass"} =>
           arg \in Credentials /\ command \in {"ssid", "password"}
    /\ step = "put" => command = "put" /\ arg # <<>> /\ constructed
    /\ step = "construct" => ~constructed
    /\ step \in {"erase", "default"} /\ constructed => command = "default"

\* The keys before index are written; after the last one the store is full.
FilledInv ==
    ~writeFailed =>
        /\ step = "default" => \A k \in Keys : k < index => flash[k] = Default
        /\ step \in {"put", "load"} \cup RestSteps =>
               \A k \in Keys : flash[k] # Missing
        /\ \A k \in Keys : ram[k] # Missing

\* A command that is about to load has stored what it was asked to.
WrittenInv ==
    ~writeFailed =>
        /\ step = "load" /\ constructed /\ command = "default" =>
               flash = [k \in Keys |-> Default]
        /\ step = "put" /\ arg \in [Keys -> Value] =>
               \A k \in Keys : k < index => flash[k] = arg[k]
        /\ step = "load" /\ constructed /\ command = "put" /\ arg \in [Keys -> Value] =>
               flash = arg

StoreInv ==
    TypeOK /\ ControlInv /\ FilledInv /\ WrittenInv /\ RamIsFlash /\ CommandTakesEffect

-----------------------------------------------------------------------------
LEMMA KeyFacts ==
    /\ 1 \in Keys /\ KeyCount \in Keys
    /\ \A k \in Keys : k # KeyCount => k + 1 \in Keys
    /\ \A i, k \in Keys : k < i + 1 => k < i \/ k = i
    /\ \A k \in Keys : k < KeyCount \/ k = KeyCount
    /\ \A k \in Keys : ~(k < 1)
BY KeyCountAssumption DEF Keys

\* Storing one key keeps the types, whatever becomes of the write.
LEMMA PutTypes ==
    ASSUME TypeOK, NEW v \in Value, putParameterToFlash(v)
    PROVE  /\ flash' \in [Keys -> Value \cup {Missing}]
           /\ index' \in Keys /\ writeFailed' \in BOOLEAN
           /\ step' \in {step, "load"}
           /\ UNCHANGED <<command, arg, constructed>>
<1>1. flash' \in [Keys -> Value \cup {Missing}] /\ writeFailed' \in BOOLEAN
  BY DEF TypeOK, putParameterToFlash, nvs_put_float
<1>2. CASE index = KeyCount
  BY <1>1, <1>2, KeyFacts DEF putParameterToFlash, nvs_put_float, GoTo
<1>3. CASE index # KeyCount
  BY <1>1, <1>3, KeyFacts DEF TypeOK, putParameterToFlash, nvs_put_float
<1> QED  BY <1>2, <1>3

\* What a step knows of its command.
LEMMA ControlStep ==
    ASSUME TypeOK, ControlInv, [Next]_vars
    PROVE  ControlInv'
<1> USE DEF ControlInv, GoTo, ParameterSteps, ParameterCommands
<1>1. CASE Construct
  BY <1>1 DEF Construct
<1>2. CASE EraseAll
  BY <1>2 DEF EraseAll
<1>3. CASE PutDefault
  BY <1>3 DEF PutDefault, putParameterToFlash, nvs_put_float
<1>4. CASE PutToken
  BY <1>4 DEF PutToken, putParameterToFlash, nvs_put_float
<1>5. CASE Load
  BY <1>5 DEF Load, AfterConstruct
<1>6. CASE ParameterQuery \/ ParameterDefault
  BY <1>6 DEF ParameterQuery, ParameterDefault, Command
<1>7. ASSUME NEW tokens \in TokenLists, ParameterPut(tokens) PROVE ControlInv'
  BY <1>7 DEF ParameterPut, Command
<1>8. ASSUME NEW s \in Ssid, SetSsid(s) PROVE ControlInv'
  <2>1. [ssid |-> s, pass |-> StoredPass] \in Credentials
    BY DEF TypeOK, StoredPass, Credentials
  <2> QED  BY <1>8, <2>1 DEF SetSsid, Command
<1>9. ASSUME NEW p \in Pass, SetPassword(p) PROVE ControlInv'
  <2>1. [ssid |-> StoredSsid, pass |-> p] \in Credentials
    BY DEF TypeOK, StoredSsid, Credentials
  <2> QED  BY <1>9, <2>1 DEF SetPassword, Command
<1>10. CASE WriteSsid
  BY <1>10 DEF WriteSsid
<1>11. CASE WritePass
  BY <1>11 DEF WritePass
<1>12. ASSUME NEW c, HttpSsid(c) PROVE ControlInv'
  BY <1>12 DEF HttpSsid, storeVars
<1>13. CASE HttpPass
  BY <1>13 DEF HttpPass, storeVars
<1>14. CASE Crash
  BY <1>14 DEF Crash
<1>15. CASE UNCHANGED vars
  BY <1>15 DEF vars, storeVars
<1> QED
  BY <1>1, <1>2, <1>3, <1>4, <1>5, <1>6, <1>7, <1>8, <1>9, <1>10, <1>11,
     <1>12, <1>13, <1>14, <1>15 DEF Next

\* Storage, command and RAM keep their types.
LEMMA TypeStep ==
    ASSUME TypeOK, ControlInv, [Next]_vars
    PROVE  TypeOK'
<1> USE KeyFacts, ValueAssumption DEF TypeOK, GoTo
<1>1. CASE Construct
  BY <1>1 DEF Construct
<1>2. CASE EraseAll
  <2>1. flash' \in [Keys -> Value \cup {Missing}] /\ writeFailed' \in BOOLEAN
    BY <1>2 DEF EraseAll
  <2>2. wifi' \in [ssid : Ssid \cup {Empty, Missing}, pass : Pass \cup {Empty, Missing}]
    BY <1>2 DEF EraseAll
  <2> QED  BY <1>2, <2>1, <2>2 DEF EraseAll
<1>3. CASE PutDefault
  BY <1>3, PutTypes DEF PutDefault
<1>4. CASE PutToken
  <2>1. arg \in [Keys -> Value \cup {NotANumber}]
    BY <1>4 DEF PutToken, ControlInv, TokenLists
  <2>2. CASE arg[index] = NotANumber
    BY <1>4, <2>2 DEF PutToken
  <2>3. CASE arg[index] # NotANumber
    <3>1. arg[index] \in Value /\ putParameterToFlash(arg[index])
      BY <1>4, <2>1, <2>3 DEF PutToken
    <3> QED  BY <1>4, <3>1, PutTypes DEF PutToken
  <2> QED  BY <2>2, <2>3
<1>5. CASE Load
  <2>1. step' \in {"idle", "load", "erase", "put"}
    BY <1>5 DEF Load, AfterConstruct, ControlInv, ParameterSteps, ParameterCommands
  <2> QED  BY <1>5, <2>1 DEF Load
<1>6. CASE ParameterQuery \/ ParameterDefault
  BY <1>6 DEF ParameterQuery, ParameterDefault, Command, TokenLists
<1>7. ASSUME NEW tokens \in TokenLists, ParameterPut(tokens) PROVE TypeOK'
  BY <1>7 DEF ParameterPut, Command
<1>8. ASSUME NEW s \in Ssid, SetSsid(s) PROVE TypeOK'
  <2>1. [ssid |-> s, pass |-> StoredPass] \in Credentials
    BY DEF StoredPass, Credentials
  <2> QED  BY <1>8, <2>1 DEF SetSsid, Command
<1>9. ASSUME NEW p \in Pass, SetPassword(p) PROVE TypeOK'
  <2>1. [ssid |-> StoredSsid, pass |-> p] \in Credentials
    BY DEF StoredSsid, Credentials
  <2> QED  BY <1>9, <2>1 DEF SetPassword, Command
<1>10. CASE WriteSsid \/ WritePass
  <2>1. arg.ssid \in Ssid \cup {Empty} /\ arg.pass \in Pass \cup {Empty}
    BY <1>10 DEF WriteSsid, WritePass, ControlInv, Credentials
  <2> QED  BY <1>10, <2>1 DEF WriteSsid, WritePass
<1>11. ASSUME NEW s \in Ssid, NEW p \in Pass, HttpSsid([ssid |-> s, pass |-> p])
       PROVE  TypeOK'
  BY <1>11 DEF HttpSsid, storeVars
<1>12. CASE HttpPass
  BY <1>12 DEF HttpPass, storeVars
<1>13. CASE Crash
  BY <1>13 DEF Crash, TokenLists
<1>14. CASE UNCHANGED vars
  BY <1>14 DEF vars, storeVars
<1> QED
  BY <1>1, <1>2, <1>3, <1>4, <1>5, <1>6, <1>7, <1>8, <1>9, <1>10, <1>11,
     <1>12, <1>13, <1>14 DEF Next

\* The store is full whenever it is loaded.
LEMMA FilledStep ==
    ASSUME TypeOK, ControlInv, FilledInv, [Next]_vars
    PROVE  FilledInv'
<1> USE KeyFacts, ValueAssumption DEF FilledInv, RestSteps, GoTo
<1>1. CASE Construct
  BY <1>1 DEF Construct, parametersAreValid, nvs_is_key
<1>2. CASE EraseAll
  BY <1>2 DEF EraseAll
<1>3. CASE PutDefault
  <2> SUFFICES ASSUME ~writeFailed' PROVE FilledInv'
    OBVIOUS
  <2>1. flash' = [flash EXCEPT ![index] = Default] /\ ~writeFailed
    BY <1>3 DEF PutDefault, putParameterToFlash, nvs_put_float, TypeOK
  <2>2. \A k \in Keys : k < index \/ k = index => flash'[k] = Default
    BY <1>3, <2>1 DEF PutDefault, TypeOK
  <2> QED  BY <1>3, <2>1, <2>2 DEF PutDefault, putParameterToFlash, nvs_put_float, TypeOK
<1>4. CASE PutToken
  <2>1. arg \in [Keys -> Value \cup {NotANumber}] /\ index \in Keys
    BY <1>4 DEF PutToken, ControlInv, TokenLists, TypeOK
  <2>2. CASE arg[index] = NotANumber
    BY <1>4, <2>2 DEF PutToken
  <2>3. CASE arg[index] # NotANumber
    <3>1. arg[index] # Missing
      BY <2>1, <2>3
    <3>2. ~writeFailed' => ~writeFailed /\ \A k \in Keys : flash'[k] # Missing
      BY <1>4, <2>3, <3>1 DEF PutToken, putParameterToFlash, nvs_put_float, TypeOK
    <3>3. step' \in {"put", "load"} /\ UNCHANGED ram
      BY <1>4, <2>3 DEF PutToken, putParameterToFlash, nvs_put_float
    <3> QED  BY <3>2, <3>3
  <2> QED  BY <2>2, <2>3
<1>5. CASE Load
  <2>1. step' # "default"
    BY <1>5 DEF Load, AfterConstruct, ControlInv, ParameterSteps, ParameterCommands
  <2> QED  BY <1>5, <2>1 DEF Load
<1>6. ASSUME NEW c, NEW a, NEW s, Command(c, a, s), s # "default" PROVE FilledInv'
  BY <1>6 DEF Command
<1>7. CASE WriteSsid \/ WritePass
  BY <1>7 DEF WriteSsid, WritePass
<1>8. ASSUME NEW c, HttpSsid(c) PROVE FilledInv'
  BY <1>8 DEF HttpSsid, storeVars
<1>9. CASE HttpPass
  BY <1>9 DEF HttpPass, storeVars
<1>10. CASE Crash
  BY <1>10 DEF Crash
<1>11. CASE UNCHANGED vars
  BY <1>11 DEF vars, storeVars
<1> QED
  BY <1>1, <1>2, <1>3, <1>4, <1>5, <1>6, <1>7, <1>8, <1>9, <1>10, <1>11
  DEF Next, ParameterQuery, ParameterDefault, ParameterPut, SetSsid, SetPassword

LEMMA NoTokens == <<>> \notin [Keys -> Value]
<1>1. 1 \in Keys /\ 1 \notin DOMAIN <<>>
  BY KeyFacts
<1> QED  BY <1>1

\* When a command loads, the store holds what it was asked to set.
LEMMA WrittenStep ==
    ASSUME TypeOK, ControlInv, WrittenInv, FilledInv, [Next]_vars
    PROVE  WrittenInv'
<1> USE KeyFacts, ValueAssumption DEF WrittenInv, GoTo
<1>1. CASE Construct
  BY <1>1 DEF Construct, ControlInv
<1>2. CASE EraseAll
  BY <1>2 DEF EraseAll
<1>3. CASE PutDefault
  <2> SUFFICES ASSUME ~writeFailed' PROVE WrittenInv'
    OBVIOUS
  <2>1. flash' = [flash EXCEPT ![index] = Default] /\ ~writeFailed
    BY <1>3 DEF PutDefault, putParameterToFlash, nvs_put_float, TypeOK
  <2>2. step' = "load" => index = KeyCount
    BY <1>3 DEF PutDefault, putParameterToFlash, nvs_put_float
  <2>3. step' = "load" => flash' = [k \in Keys |-> Default]
    <3> SUFFICES ASSUME step' = "load" PROVE \A k \in Keys : flash'[k] = Default
      BY <2>1 DEF TypeOK
    <3> QED  BY <1>3, <2>1, <2>2 DEF PutDefault, FilledInv, TypeOK
  <2>4. step' # "put" /\ UNCHANGED <<command, arg, constructed>>
    BY <1>3 DEF PutDefault, putParameterToFlash, nvs_put_float
  <2>5. constructed => command = "default"
    BY <1>3 DEF PutDefault, ControlInv
  <2> QED  BY <2>3, <2>4, <2>5
<1>4. CASE PutToken
  <2> SUFFICES ASSUME ~writeFailed', arg \in [Keys -> Value]
               PROVE  /\ step' = "put" => \A k \in Keys : k < index' => flash'[k] = arg[k]
                      /\ step' = "load" => flash' = arg
    BY <1>4 DEF PutToken, putParameterToFlash, nvs_put_float, ControlInv
  <2>1. arg[index] # NotANumber
    BY DEF TypeOK
  <2>2. flash' = [flash EXCEPT ![index] = arg[index]] /\ ~writeFailed
    BY <1>4, <2>1 DEF PutToken, putParameterToFlash, nvs_put_float, TypeOK
  <2>3. \A k \in Keys : k < index \/ k = index => flash'[k] = arg[k]
    BY <1>4, <2>2 DEF PutToken, TypeOK
  <2>4. CASE index = KeyCount
    <3>1. \A k \in Keys : flash'[k] = arg[k]
      BY <2>3, <2>4
    <3>2. flash' = arg
      BY <3>1, <2>2 DEF TypeOK
    <3> QED  BY <1>4, <2>1, <2>4, <3>2 DEF PutToken, putParameterToFlash, nvs_put_float
  <2>5. CASE index # KeyCount
    BY <1>4, <2>1, <2>3, <2>5 DEF PutToken, putParameterToFlash, nvs_put_float, TypeOK
  <2> QED  BY <2>4, <2>5
<1>5. CASE Load
  <2>1. CASE constructed
    BY <1>5, <2>1 DEF Load
  <2>2. CASE ~constructed
    <3>1. step' = "put" \/ step' = "load" => index' = 1
      BY <1>5 DEF Load
    <3>2. step' = "load" => command # "default" /\ (command = "put" => arg = <<>>)
      BY <1>5, <2>2 DEF Load, AfterConstruct, ControlInv, ParameterSteps, ParameterCommands
    <3> QED  BY <1>5, <3>1, <3>2, NoTokens DEF Load
  <2> QED  BY <2>1, <2>2
<1>6. ASSUME NEW c, NEW a, NEW s, Command(c, a, s), s # "load", s # "put"
      PROVE  WrittenInv'
  BY <1>6 DEF Command
<1>7. CASE WriteSsid \/ WritePass
  BY <1>7 DEF WriteSsid, WritePass
<1>8. ASSUME NEW c, HttpSsid(c) PROVE WrittenInv'
  BY <1>8 DEF HttpSsid, storeVars
<1>9. CASE HttpPass
  BY <1>9 DEF HttpPass, storeVars
<1>10. CASE Crash
  BY <1>10 DEF Crash
<1>11. CASE UNCHANGED vars
  BY <1>11 DEF vars, storeVars
<1> QED
  BY <1>1, <1>2, <1>3, <1>4, <1>5, <1>6, <1>7, <1>8, <1>9, <1>10, <1>11
  DEF Next, ParameterQuery, ParameterDefault, ParameterPut, SetSsid, SetPassword

\* At rest the RAM is the store and shows the effect of the last command.
LEMMA RestStep ==
    ASSUME TypeOK, ControlInv, WrittenInv, RamIsFlash, CommandTakesEffect, [Next]_vars
    PROVE  RamIsFlash' /\ CommandTakesEffect'
<1> USE DEF RamIsFlash, CommandTakesEffect, GoTo
<1>1. CASE Construct \/ EraseAll \/ PutDefault
  BY <1>1 DEF Construct, EraseAll, PutDefault, putParameterToFlash, nvs_put_float
<1>2. CASE PutToken
  BY <1>2 DEF PutToken, putParameterToFlash, nvs_put_float
<1>3. CASE Load
  <2>1. CASE constructed
    BY <1>3, <2>1 DEF Load, WrittenInv
  <2>2. CASE ~constructed
    <3>1. step' \in {"load", "erase", "put"} \/ (step' = "idle" /\ command = "boot")
      BY <1>3, <2>2 DEF Load, AfterConstruct, ControlInv, ParameterSteps, ParameterCommands
    <3> QED  BY <1>3, <3>1 DEF Load
  <2> QED  BY <2>1, <2>2
<1>4. ASSUME NEW c, NEW a, NEW s, Command(c, a, s), s # "idle"
      PROVE  RamIsFlash' /\ CommandTakesEffect'
  BY <1>4 DEF Command
<1>5. CASE WriteSsid \/ WritePass
  BY <1>5 DEF WriteSsid, WritePass, ControlInv
<1>6. ASSUME NEW c, HttpSsid(c) PROVE RamIsFlash' /\ CommandTakesEffect'
  BY <1>6 DEF HttpSsid, storeVars
<1>7. CASE HttpPass
  BY <1>7 DEF HttpPass, storeVars, TypeOK
<1>8. CASE Crash
  BY <1>8 DEF Crash
<1>9. CASE UNCHANGED vars
  BY <1>9 DEF vars, storeVars
<1> QED
  BY <1>1, <1>2, <1>3, <1>4, <1>5, <1>6, <1>7, <1>8, <1>9
  DEF Next, ParameterQuery, ParameterDefault, ParameterPut, SetSsid, SetPassword

LEMMA InitStore == Init => StoreInv
<1> SUFFICES ASSUME Init PROVE StoreInv
  OBVIOUS
<1> USE KeyFacts, ValueAssumption DEF Init
<1>1. flash \in [Keys -> Value \cup {Missing}] /\ ram \in [Keys -> Value \cup {Missing, Unset}]
  OBVIOUS
<1>2. wifi \in [ssid : Ssid \cup {Empty, Missing}, pass : Pass \cup {Empty, Missing}]
  OBVIOUS
<1>3. TypeOK
  BY <1>1, <1>2 DEF TypeOK, TokenLists
<1>4. ControlInv
  BY DEF ControlInv, ParameterCommands, ParameterSteps
<1>5. FilledInv /\ WrittenInv /\ RamIsFlash /\ CommandTakesEffect
  BY DEF FilledInv, WrittenInv, RamIsFlash, CommandTakesEffect, RestSteps
<1> QED  BY <1>3, <1>4, <1>5 DEF StoreInv

LEMMA StoreInvariant == Spec => []StoreInv
<1>1. StoreInv /\ [Next]_vars => StoreInv'
  BY ControlStep, TypeStep, FilledStep, WrittenStep, RestStep DEF StoreInv
<1> QED  BY InitStore, <1>1, PTL DEF Spec

-----------------------------------------------------------------------------
\* The keys, the credentials, the RAM and the control state have their types.
THEOREM StoreTypeCorrect == Spec => []TypeOK
<1>1. StoreInv => TypeOK
  BY DEF StoreInv
<1> QED  BY <1>1, StoreInvariant, PTL

\* No parameter is loaded from a missing key, whenever resets come, unless
\* a write has failed (getParametersFromFlash, ParameterSetter.cpp).
THEOREM NothingMissingLoaded == Spec => []NothingMissing
<1>1. StoreInv => NothingMissing
  BY DEF StoreInv, NothingMissing, FilledInv, TypeOK
<1> QED  BY <1>1, StoreInvariant, PTL

\* Between commands the RAM holds what the next boot would load.
THEOREM RunsOnTheStore == Spec => []RamIsFlash
<1>1. StoreInv => RamIsFlash
  BY DEF StoreInv
<1> QED  BY <1>1, StoreInvariant, PTL

\* PARAMETER with numbers and PARAMETER,DEFAULT set every parameter.
THEOREM CommandsTakeEffect == Spec => []CommandTakesEffect
<1>1. StoreInv => CommandTakesEffect
  BY DEF StoreInv
<1> QED  BY <1>1, StoreInvariant, PTL

-----------------------------------------------------------------------------
(* The credentials.                                                        *)

\* A SET_ command that has not been overtaken by /setwifi is about to write
\* an SSID where one is stored.
SsidInv ==
    step = "wifiSsid" /\ ~overtaken => arg.ssid \in Ssid \/ wifi.ssid \notin Ssid

LEMMA SsidInvStep == TypeOK /\ ControlInv /\ SsidInv /\ [Next]_vars => SsidInv'
<1> SUFFICES ASSUME TypeOK, ControlInv, SsidInv, [Next]_vars PROVE SsidInv'
  OBVIOUS
<1> USE DEF SsidInv
<1>1. CASE Construct \/ EraseAll \/ PutDefault \/ PutToken \/ Load
  <2>1. CASE Construct \/ EraseAll \/ PutDefault \/ PutToken
    BY <2>1 DEF Construct, EraseAll, PutDefault, PutToken, GoTo, putParameterToFlash
  <2>2. CASE Load
    BY <2>2
    DEF Load, AfterConstruct, ControlInv, ParameterSteps, ParameterCommands
  <2> QED  BY <1>1, <2>1, <2>2
<1>2. CASE ParameterQuery \/ ParameterDefault
           \/ \E tokens \in TokenLists : ParameterPut(tokens)
  BY <1>2 DEF ParameterQuery, ParameterDefault, ParameterPut, Command
<1>3. ASSUME NEW s \in Ssid, SetSsid(s) PROVE SsidInv'
  BY <1>3 DEF SetSsid, Command
<1>4. ASSUME NEW p \in Pass, SetPassword(p) PROVE SsidInv'
  <2>1. arg' = [ssid |-> StoredSsid, pass |-> p] /\ wifi' = wifi
    BY <1>4 DEF SetPassword, Command
  <2>2. arg'.ssid = StoredSsid
    BY <2>1
  <2>3. wifi.ssid \in Ssid => StoredSsid = wifi.ssid
    BY SsidAssumption DEF StoredSsid
  <2> QED  BY <2>1, <2>2, <2>3
<1>5. CASE WriteSsid \/ WritePass \/ Crash
  BY <1>5 DEF WriteSsid, WritePass, Crash, GoTo
<1>6. ASSUME NEW c, HttpSsid(c) PROVE SsidInv'
  BY <1>6 DEF HttpSsid, storeVars
<1>7. CASE HttpPass
  BY <1>7 DEF HttpPass, storeVars, TypeOK
<1>8. CASE UNCHANGED vars
  BY <1>8 DEF vars, storeVars
<1> QED
  BY <1>1, <1>2, <1>3, <1>4, <1>5, <1>6, <1>7, <1>8 DEF Next

LEMMA SsidStep ==
    ASSUME TypeOK, SsidInv, [Next]_vars, wifi.ssid \in Ssid, ~overtaken, ~EraseAll
    PROVE  wifi'.ssid \in Ssid
<1>1. CASE WriteSsid
  <2>1. arg.ssid \in Ssid
    BY <1>1 DEF WriteSsid, SsidInv
  <2> QED  BY <1>1, <2>1 DEF WriteSsid, TypeOK
<1>2. ASSUME NEW s \in Ssid, NEW p \in Pass, HttpSsid([ssid |-> s, pass |-> p])
      PROVE  wifi'.ssid \in Ssid
  <2>1. wifi' = [wifi EXCEPT !.ssid = s]
    BY <1>2 DEF HttpSsid
  <2> QED  BY <2>1 DEF TypeOK
<1>3. CASE WritePass \/ HttpPass
  <2>1. wifi' = wifi \/ \E p : wifi' = [wifi EXCEPT !.pass = p]
    BY <1>3 DEF WritePass, HttpPass
  <2> QED  BY <2>1 DEF TypeOK
<1>4. CASE \/ Construct \/ PutDefault \/ PutToken \/ Load \/ Crash
           \/ ParameterQuery \/ ParameterDefault
           \/ \E tokens \in TokenLists : ParameterPut(tokens)
           \/ \E s \in Ssid : SetSsid(s)
           \/ \E p \in Pass : SetPassword(p)
           \/ UNCHANGED vars
  <2>1. wifi' = wifi
    BY <1>4
    DEF Construct, PutDefault, PutToken, Load, Crash, ParameterQuery,
        ParameterDefault, ParameterPut, SetSsid, SetPassword, Command, vars
  <2> QED  BY <2>1
<1> QED  BY <1>1, <1>2, <1>3, <1>4 DEF Next

\* Once an SSID is stored, only PARAMETER,DEFAULT makes it disappear, resets
\* between the two writes of a command included, as long as /setwifi does not
\* come between the reading and the writing of a SET_ command.
THEOREM SsidStays == Spec => SsidKept
<1> DEFINE Kept == wifi.ssid \in Ssid /\ ~overtaken => wifi'.ssid \in Ssid \/ EraseAll
<1>1. StoreInv => TypeOK /\ ControlInv
  BY DEF StoreInv
<1>2. Init => SsidInv
  BY DEF Init, SsidInv
<1>3. TypeOK /\ SsidInv /\ [Next]_vars => [Kept]_vars
  BY SsidStep
<1> HIDE DEF Kept
<1>4. Spec => [][Kept]_vars
  BY <1>1, <1>2, <1>3, SsidInvStep, StoreInvariant, PTL DEF Spec
<1> QED  BY <1>4 DEF SsidKept, Kept
=============================================================================
