------------------------------ MODULE ParamStore ------------------------------
(***************************************************************************)
(* What survives a reset: the scan parameters and the WiFi credentials,    *)
(* both in the NVS namespace "nvsparam" (ParameterSetter.cpp,              *)
(* nvs_helpers.cpp, the PARAMETER and SET_ commands of controller.cpp and  *)
(* the /setwifi handler of WifiPcInterface.cpp).                           *)
(*                                                                         *)
(* app_main and then dispatcherTask are one thread, which executes command *)
(* step by step; a step is one write to the flash.  A write is durable     *)
(* once made.  ScanGrid's GetParametersFromFlash is Load seen from the     *)
(* scan grid.                                                              *)
(***************************************************************************)
EXTENDS Integers, Sequences

CONSTANTS
    KeyCount,    \* size_keys: 12 in the code
    Value,       \* numbers a parameter can have
    Default,     \* the number in defaultParameters
    NotANumber,  \* a token that convertStoFloat rejects
    Missing,     \* no such key; loaded as FLT_MAX
    Unset,       \* a global before the first load
    Ssid, Pass,  \* non-empty SSIDs and passwords
    Empty        \* ""

ASSUME KeyCountAssumption == KeyCount \in Nat \ {0}
ASSUME ValueAssumption ==
    Default \in Value /\ Missing \notin Value /\ NotANumber \notin Value
        /\ Unset \notin Value /\ Unset # Missing
ASSUME SsidAssumption == Missing \notin Ssid /\ Empty \notin Ssid

VARIABLES
    flash,        \* the parameter keys
    wifi,         \* the keys wifi_ssid and wifi_pass
    ram,          \* the globals the parameters are loaded into
    command, arg, \* the command executed last, and its tokens or credentials
    step, index,  \* where it is, and the key it is at
    constructed,  \* the constructor of ParameterSetting has returned
    http          \* password post_setwifi_handler has yet to store, or Empty

VARIABLES          \* history
    writeFailed,  \* a write has failed since the last boot
    overtaken     \* /setwifi stored credentials during the SET_ command

storeVars == <<command, arg, step, index, constructed>>
vars == <<flash, wifi, ram, storeVars, http, writeFailed, overtaken>>

Keys == 1 .. KeyCount
Credentials == [ssid : Ssid \cup {Empty}, pass : Pass \cup {Empty}]
\* Tokens of a PARAMETER command; <<>> stands for a wrong number of them.
TokenLists == {<<>>} \cup [Keys -> Value \cup {NotANumber}]

Init ==
    /\ flash = [k \in Keys |-> Missing]
    /\ wifi = [ssid |-> Missing, pass |-> Missing]
    /\ ram = [k \in Keys |-> Unset]
    /\ command = "boot" /\ arg = <<>>
    /\ step = "construct" /\ index = 1 /\ constructed = FALSE
    /\ http = Empty
    /\ writeFailed = FALSE /\ overtaken = FALSE

GoTo(s) == step' = s /\ index' = 1 /\ UNCHANGED <<command, arg, constructed>>

-----------------------------------------------------------------------------
(* ParameterSetting.                                                       *)

nvs_is_key(k) == flash[k] # Missing

\* One write, which may fail (a full or worn flash).
nvs_put_float(k, v) ==
    \/ flash' = [flash EXCEPT ![k] = v] /\ UNCHANGED writeFailed
    \/ writeFailed' = TRUE /\ UNCHANGED flash

\* Mutant: the last key is not looked at.
parametersAreValidShort == \A k \in Keys \ {KeyCount} : nvs_is_key(k)

parametersAreValid == \A k \in Keys : nvs_is_key(k)

\* The constructor, up to its decision about the defaults.
Construct ==
    /\ step = "construct"
    /\ GoTo(IF parametersAreValid THEN "load" ELSE "erase")
    /\ UNCHANGED <<flash, wifi, ram, http, writeFailed, overtaken>>

\* nvs_clear_all at the start of putParametersToFlash: the whole namespace.
EraseAll ==
    /\ step = "erase"
    /\ \/ /\ flash' = [k \in Keys |-> Missing]
          /\ wifi' = [ssid |-> Missing, pass |-> Missing]
          /\ UNCHANGED writeFailed
       \/ writeFailed' = TRUE /\ UNCHANGED <<flash, wifi>>
    /\ GoTo("default")
    /\ UNCHANGED <<ram, http, overtaken>>

\* Mutants: one key too many; the next key is written.
putParameterToFlashOver(v) ==
    /\ nvs_put_float(index, v)
    /\ IF index > KeyCount THEN GoTo("load")
       ELSE index' = index + 1 /\ UNCHANGED <<command, arg, step, constructed>>
putParameterToFlashNext(v) ==
    /\ nvs_put_float(index + 1, v)
    /\ IF index = KeyCount THEN GoTo("load")
       ELSE index' = index + 1 /\ UNCHANGED <<command, arg, step, constructed>>

\* One key; a failed write is reported and ignored.
putParameterToFlash(v) ==
    /\ nvs_put_float(index, v)
    /\ IF index = KeyCount THEN GoTo("load")
       ELSE index' = index + 1 /\ UNCHANGED <<command, arg, step, constructed>>

PutDefault ==
    /\ step = "default"
    /\ putParameterToFlash(Default)
    /\ UNCHANGED <<wifi, ram, http, overtaken>>

\* A token that is not a number ends the command, after the writes before it.
PutToken ==
    /\ step = "put"
    /\ IF arg[index] = NotANumber THEN GoTo("load") /\ UNCHANGED <<flash, writeFailed>>
       ELSE putParameterToFlash(arg[index])
    /\ UNCHANGED <<wifi, ram, http, overtaken>>

\* What the command does once its ParameterSetting is constructed.
AfterConstruct ==
    CASE command = "boot"    -> "idle"
      [] command = "query"   -> "load"
      [] command = "default" -> "erase"
      [] command = "put"     -> IF arg = <<>> THEN "load" ELSE "put"

\* Mutant: the parameters of a command are stored but not loaded.
LoadOnce ==
    /\ step = "load"
    /\ ram' = IF constructed THEN ram ELSE flash
    /\ step' = IF constructed THEN "idle" ELSE AfterConstruct
    /\ constructed' = TRUE /\ index' = 1
    /\ UNCHANGED <<flash, wifi, command, arg, http, writeFailed, overtaken>>

\* getParametersFromFlash, in the constructor and at the end of a command.
Load ==
    /\ step = "load"
    /\ ram' = flash
    /\ step' = IF constructed THEN "idle" ELSE AfterConstruct
    /\ constructed' = TRUE /\ index' = 1
    /\ UNCHANGED <<flash, wifi, command, arg, http, writeFailed, overtaken>>

-----------------------------------------------------------------------------
(* The commands.                                                           *)

Command(c, a, s) ==
    /\ step = "idle"
    /\ command' = c /\ arg' = a /\ step' = s /\ index' = 1
    /\ constructed' = FALSE /\ overtaken' = FALSE
    /\ UNCHANGED <<flash, wifi, ram, http, writeFailed>>

ParameterQuery == Command("query", <<>>, "construct")
ParameterDefault == Command("default", <<>>, "construct")
ParameterPut(tokens) == Command("put", tokens, "construct")

\* Mutant: a missing password hides the SSID.
StoredSsidOfPair ==
    IF wifi.ssid = Missing \/ wifi.pass = Missing THEN Empty ELSE wifi.ssid

\* nvs_read_wifi_credentials: an SSID is delivered even if the password is
\* missing and the call fails.
StoredSsid == IF wifi.ssid = Missing THEN Empty ELSE wifi.ssid
StoredPass ==
    IF wifi.ssid = Missing \/ wifi.pass = Missing THEN Empty ELSE wifi.pass

SetSsid(s) == Command("ssid", [ssid |-> s, pass |-> StoredPass], "wifiSsid")
SetPassword(p) == Command("password", [ssid |-> StoredSsid, pass |-> p], "wifiSsid")

\* nvs_write_wifi_credentials: two writes; the second is left out when the
\* first fails.
WriteSsid ==
    /\ step = "wifiSsid"
    /\ \/ wifi' = [wifi EXCEPT !.ssid = arg.ssid] /\ GoTo("wifiPass") /\ UNCHANGED writeFailed
       \/ writeFailed' = TRUE /\ GoTo("idle") /\ UNCHANGED wifi
    /\ UNCHANGED <<flash, ram, http, overtaken>>

WritePass ==
    /\ step = "wifiPass"
    /\ \/ wifi' = [wifi EXCEPT !.pass = arg.pass] /\ UNCHANGED writeFailed
       \/ writeFailed' = TRUE /\ UNCHANGED wifi
    /\ GoTo("idle")
    /\ UNCHANGED <<flash, ram, http, overtaken>>

-----------------------------------------------------------------------------
(* post_setwifi_handler, in the task of the HTTP server, after it has      *)
(* connected with the credentials.                                         *)

HttpSsid(c) ==
    /\ http = Empty
    /\ wifi' = [wifi EXCEPT !.ssid = c.ssid]
    /\ http' = c.pass
    /\ overtaken' = (overtaken \/ step \in {"wifiSsid", "wifiPass"})
    /\ UNCHANGED <<flash, ram, storeVars, writeFailed>>

HttpPass ==
    /\ http # Empty
    /\ \/ wifi' = [wifi EXCEPT !.pass = http] /\ UNCHANGED writeFailed
       \/ writeFailed' = TRUE /\ UNCHANGED wifi
    /\ http' = Empty
    /\ overtaken' = (overtaken \/ step \in {"wifiSsid", "wifiPass"})
    /\ UNCHANGED <<flash, ram, storeVars>>

\* Power loss, reset, or an abort.
Crash ==
    /\ ram' = [k \in Keys |-> Unset]
    /\ command' = "boot" /\ arg' = <<>>
    /\ step' = "construct" /\ index' = 1 /\ constructed' = FALSE
    /\ http' = Empty /\ writeFailed' = FALSE /\ overtaken' = FALSE
    /\ UNCHANGED <<flash, wifi>>

Next ==
    \/ Construct \/ EraseAll \/ PutDefault \/ PutToken \/ Load
    \/ ParameterQuery \/ ParameterDefault
    \/ \E tokens \in TokenLists : ParameterPut(tokens)
    \/ \E s \in Ssid : SetSsid(s)
    \/ \E p \in Pass : SetPassword(p)
    \/ WriteSsid \/ WritePass
    \/ \E s \in Ssid, p \in Pass : HttpSsid([ssid |-> s, pass |-> p])
    \/ HttpPass
    \/ Crash

Spec == Init /\ [][Next]_vars

-----------------------------------------------------------------------------
TypeOK ==
    /\ flash \in [Keys -> Value \cup {Missing}]
    /\ wifi \in [ssid : Ssid \cup {Empty, Missing}, pass : Pass \cup {Empty, Missing}]
    /\ ram \in [Keys -> Value \cup {Missing, Unset}]
    /\ command \in {"boot", "query", "default", "put", "ssid", "password"}
    /\ arg \in TokenLists \cup Credentials
    /\ step \in {"idle", "construct", "erase", "default", "put", "load",
                 "wifiSsid", "wifiPass"}
    /\ index \in Keys /\ constructed \in BOOLEAN
    /\ http \in Pass \cup {Empty}
    /\ writeFailed \in BOOLEAN /\ overtaken \in BOOLEAN

\* No global is ever loaded from a missing key (it would be FLT_MAX cast to
\* uint16_t), whenever the last reset came: the constructor repairs a store
\* that an interrupted PARAMETER,DEFAULT has left incomplete.  Only a write
\* that fails without being noticed can break this.
NothingMissing == (\E k \in Keys : ram[k] = Missing) => writeFailed

\* Between two commands the device runs with what it would load at the next
\* boot: every way through a command, also a rejected one, ends with a load.
RamIsFlash == step \in {"idle", "wifiSsid", "wifiPass"} => ram = flash

\* A PARAMETER command whose tokens are numbers, and PARAMETER,DEFAULT, set
\* every parameter.
CommandTakesEffect ==
    step = "idle" /\ ~writeFailed =>
        /\ command = "default" => ram = [k \in Keys |-> Default]
        /\ command = "put" /\ arg \in [Keys -> Value] => ram = arg

\* A stored SSID is not lost by SET_PASSWORD (controller.cpp: "preserving
\* SSID"), also when a reset has separated the two writes of an earlier
\* SET_ command; unless /setwifi comes between its reading and its writing.
SsidKept ==
    [][wifi.ssid \in Ssid /\ ~overtaken => wifi'.ssid \in Ssid \/ EraseAll]_vars
=============================================================================
