----------------------------- MODULE WifiStation -----------------------------
(***************************************************************************)
(* WifiPcInterface.cpp: how the device gets on the network.  startStation  *)
(* runs once in the task wifi_init, post_setwifi_handler in the httpd      *)
(* task, wifi_event_handler in the event task of ESP-IDF, which reconnects *)
(* for ever.  The driver and the access point are the environment.         *)
(***************************************************************************)
CONSTANTS
    Credential,   \* pairs of SSID and password
    Good,         \* those some access point accepts
    NoCredential

ASSUME StationAssumption == Good \subseteq Credential /\ NoCredential \notin Credential

VARIABLES
    saved,            \* the credentials in NVS
    config,           \* the credentials the driver has
    mode,             \* "off", "AP", "APSTA" or "STA"
    station,          \* "down", "connecting" or "up"
    connectedBit,     \* WIFI_CONNECTED_BIT
    boot,             \* startStation: "init", "waiting" or "done"
    attempt,          \* the credentials /setwifi tries, or NoCredential
    proven            \* history: the credentials an address was got with

stationVars == <<saved, config, mode, station, connectedBit, boot, attempt, proven>>

StationInit(credential) ==
    /\ saved = credential
    /\ config = NoCredential /\ mode = "off" /\ station = "down"
    /\ connectedBit = FALSE /\ boot = "init"
    /\ attempt = NoCredential /\ proven = {}

\* With credentials the device is access point and station at once, without
\* them it is an access point only (start).
ConfigureBoot ==
    /\ boot = "init"
    /\ \/ /\ saved # NoCredential
          /\ mode' = "APSTA" /\ station' = "connecting" /\ config' = saved
          /\ boot' = "waiting"
       \/ /\ saved = NoCredential
          /\ mode' = "AP" /\ boot' = "serve"
          /\ UNCHANGED <<station, config>>
    /\ UNCHANGED <<saved, connectedBit, attempt, proven>>

\* Connected, or 10 s have passed: the server is started all the same.
WaitBoot ==
    /\ boot = "waiting"
    /\ boot' = "serve"
    /\ UNCHANGED <<saved, config, mode, station, connectedBit, attempt, proven>>

StartServer ==
    /\ boot = "serve"
    /\ boot' = "done"
    /\ UNCHANGED <<saved, config, mode, station, connectedBit, attempt, proven>>

GotIp ==
    /\ station = "connecting" /\ config \in Good
    /\ station' = "up" /\ connectedBit' = TRUE
    /\ proven' = proven \cup {config}
    /\ UNCHANGED <<saved, config, mode, boot, attempt>>

\* The event handler connects again; the bit stays set.
Disconnected ==
    /\ station = "up"
    /\ station' = "connecting"
    /\ UNCHANGED <<saved, config, mode, connectedBit, boot, attempt, proven>>

-----------------------------------------------------------------------------
(* post_setwifi_handler and try_connect_sta_once.                          *)

\* The driver refuses new credentials while it connects; the result of
\* esp_wifi_set_config is ignored.  A connection may end or go on.
TryConnect(c) ==
    /\ attempt = NoCredential
    /\ attempt' = c
    /\ mode' = "APSTA"
    /\ config' \in {c} \cup {d \in {config} : station = "connecting"}
    /\ station' \in {"connecting"} \cup {s \in {"up"} : station = "up"}
    /\ UNCHANGED <<saved, connectedBit, boot, proven>>

\* The bit is set, by this connection or an earlier one: the credentials are
\* stored, unless the write fails, and the access point is switched off.
Provision ==
    /\ attempt # NoCredential /\ connectedBit
    /\ saved' \in {attempt, saved}
    /\ mode' = "STA"
    /\ attempt' = NoCredential
    /\ UNCHANGED <<config, station, connectedBit, boot, proven>>

\* The bit is still clear after 10 s: answered with 500.
AttemptFails ==
    /\ attempt # NoCredential /\ ~connectedBit
    /\ attempt' = NoCredential
    /\ UNCHANGED <<saved, config, mode, station, connectedBit, boot, proven>>

StationEvent == GotIp \/ Disconnected

-----------------------------------------------------------------------------
StationTypeOK ==
    /\ saved \in Credential \cup {NoCredential}
    /\ config \in Credential \cup {NoCredential}
    /\ mode \in {"off", "AP", "APSTA", "STA"}
    /\ station \in {"down", "connecting", "up"}
    /\ connectedBit \in BOOLEAN /\ proven \subseteq Credential
    /\ boot \in {"init", "waiting", "serve", "done"}
    /\ attempt \in Credential \cup {NoCredential}

\* /setwifi validates the credentials it receives before it stores them: the
\* station has got an address with them.  The code does not keep this: it
\* waits for a bit that a connection with other credentials may have set.
CredentialsValidated == [][saved' # saved => saved' \in proven]_stationVars
=============================================================================
