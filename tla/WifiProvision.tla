---------------------------- MODULE WifiProvision ----------------------------
(***************************************************************************)
(* 10-wifi-provision.cpp: how the board finds its WiFi network, and when   *)
(* it turns into an access point that asks for one.  netCheck runs on      *)
(* every round of loop(); its wait of 20 seconds for the network is the    *)
(* only place where it stops.                                              *)
(*                                                                         *)
(* A credential stands for an SSID and a password: that of a network, or   *)
(* "typo", which no network accepts, "long", an SSID of 32 characters or   *)
(* more, and "none", an empty one.                                         *)
(***************************************************************************)
EXTENDS Naturals

CONSTANTS
  Networks,              \* the networks there are
  MaxRestarts            \* bound on losses of power

ASSUME RestartsAssumption == MaxRestarts \in Nat

VARIABLES
  mode,                  \* WiFi.getMode(): "STA" or "AP"
  joined,                \* the network the station is connected to, or "no"
  trying,                \* what the station was last told to connect to
  sdk,                   \* the credentials the WiFi library remembers
  eeprom,                \* those in the EEPROM
  eepromBegun,           \* has EEPROM.begin been called since the restart
  wifiConfig,            \* the copy in memory
  up,                    \* the networks in reach
  stage,                 \* "loop", "wait" for the network, "saved": about to restart
  restarts,
  looked,                \* history: has netCheck looked for a network since power up
  asked                  \* history: what form or command last asked for after that

asking == <<looked, asked>>
stored == <<eeprom, eepromBegun, wifiConfig>>
station == <<mode, joined, trying>>
wifiVars == <<station, sdk, stored, up, stage, restarts, asking>>

Credentials == Networks \cup {"typo", "long", "none"}

(* netInit: the station connects with what the library remembers.          *)
WifiInit ==
  /\ mode = "STA" /\ joined = "no" /\ sdk \in Networks \cup {"none"} /\ trying = sdk
  /\ eeprom \in Networks \cup {"none"} /\ eepromBegun = FALSE /\ wifiConfig = "none"
  /\ up \in SUBSET Networks /\ stage = "loop" /\ restarts = 0
  /\ looked = FALSE /\ asked = "unknown"

Boot ==
  /\ mode' = "STA" /\ joined' = "no" /\ trying' = sdk
  /\ eepromBegun' = FALSE /\ wifiConfig' = "none" /\ stage' = "loop"
  /\ looked' = FALSE
  /\ UNCHANGED <<sdk, eeprom, up, asked>>

startProvisioningMode == mode' = "AP" /\ joined' = "no" /\ trying' = "none"

(* What is asked of a board that came up with the network the library      *)
(* remembers, and has not looked for one itself, is not counted: it is not *)
(* stored.                                                                 *)
Asks(c) == asked' = (IF looked THEN c ELSE "unknown") /\ UNCHANGED looked

(* Mutant: EEPROM.put without commit. *)
PutOnly(c) == wifiConfig' = c /\ UNCHANGED <<eeprom, eepromBegun>>

(* EEPROM.put and commit write nothing before EEPROM.begin.                *)
Save(c) ==
  /\ wifiConfig' = c
  /\ eeprom' = IF eepromBegun THEN c ELSE eeprom
  /\ UNCHANGED eepromBegun

-----------------------------------------------------------------------------
(* netCheck, by its returns.                                               *)

Valid(c) == c \notin {"none", "long"}

(* In provisioning mode only the web server runs; it may find a form.      *)
handleProvision(c) ==
  /\ stage = "loop" /\ mode = "AP"
  /\ Save(c) /\ Asks(c) /\ stage' = "saved"
  /\ UNCHANGED <<station, sdk, up, restarts>>

NoCredentials ==
  /\ stage = "loop" /\ mode = "STA" /\ joined = "no" /\ ~Valid(eeprom)
  /\ wifiConfig' = eeprom /\ eepromBegun' = TRUE
  /\ startProvisioningMode /\ looked' = TRUE
  /\ UNCHANGED <<sdk, eeprom, up, stage, restarts, asked>>

(* Whether the library remembers what it connects with depends on its      *)
(* version.                                                                *)
BeginConnecting ==
  /\ stage = "loop" /\ mode = "STA" /\ joined = "no" /\ Valid(eeprom)
  /\ wifiConfig' = eeprom /\ eepromBegun' = TRUE
  /\ trying' = wifiConfig' /\ sdk' \in {sdk, trying'}
  /\ stage' = "wait" /\ looked' = TRUE
  /\ UNCHANGED <<mode, joined, eeprom, up, restarts, asked>>

Connected ==
  /\ stage = "wait" /\ joined # "no"
  /\ stage' = "loop"
  /\ UNCHANGED <<station, sdk, stored, up, restarts, asking>>

(* Mutant: after the wait, netCheck will try again on the next round. *)
TriesAgain ==
  /\ stage = "wait" /\ joined = "no"
  /\ stage' = "loop"
  /\ UNCHANGED <<station, sdk, stored, up, restarts, asking>>

(* The 20 seconds may end before a network in reach answers.               *)
WaitExpires ==
  /\ stage = "wait" /\ joined = "no"
  /\ startProvisioningMode /\ stage' = "loop"
  /\ UNCHANGED <<sdk, stored, up, restarts, asking>>

netCheck == NoCredentials \/ BeginConnecting \/ Connected \/ WaitExpires

-----------------------------------------------------------------------------
(* Commands that come over MQTT while netCheck returns TRUE.               *)

(* The SSID the command scans has 1 to 31 characters.                      *)
wifiSetup(c) ==
  /\ stage = "loop" /\ joined # "no" /\ Valid(c)
  /\ Save(c) /\ Asks(c) /\ startProvisioningMode
  /\ UNCHANGED <<sdk, up, stage, restarts>>

wifiReset ==
  /\ stage = "loop" /\ joined # "no"
  /\ Save("none") /\ Asks("none") /\ startProvisioningMode
  /\ UNCHANGED <<sdk, up, stage, restarts>>

-----------------------------------------------------------------------------
(* The end of handleProvision, the loss of power, and the networks.        *)

Restart == stage = "saved" /\ Boot /\ UNCHANGED restarts

PowerLoss == restarts < MaxRestarts /\ restarts' = restarts + 1 /\ Boot

Join ==
  /\ mode = "STA" /\ joined = "no" /\ trying \in up
  /\ joined' = trying
  /\ UNCHANGED <<mode, trying, sdk, stored, up, stage, restarts, asking>>

NetworkChange ==
  /\ up' \in SUBSET Networks
  /\ joined' = IF joined \in up' THEN joined ELSE "no"
  /\ UNCHANGED <<mode, trying, sdk, stored, stage, restarts, asking>>

WifiNext ==
  \/ netCheck \/ wifiReset \/ Restart
  \/ \E c \in Credentials : handleProvision(c) \/ wifiSetup(c)
  \/ PowerLoss \/ Join \/ NetworkChange

WifiSpec == WifiInit /\ [][WifiNext]_wifiVars

(* loop() calls netCheck again and again, the wait is bounded, and a       *)
(* network that stays in reach answers.  Nobody has to fill in the form.   *)
WifiFairSpec == WifiSpec /\ WF_wifiVars(netCheck) /\ WF_wifiVars(Restart) /\ WF_wifiVars(Join)

-----------------------------------------------------------------------------
WifiTypeOK ==
  /\ mode \in {"STA", "AP"} /\ joined \in Networks \cup {"no"}
  /\ trying \in Credentials /\ sdk \in Credentials
  /\ eeprom \in Credentials /\ wifiConfig \in Credentials /\ eepromBegun \in BOOLEAN
  /\ up \subseteq Networks /\ stage \in {"loop", "wait", "saved"}
  /\ restarts \in 0..MaxRestarts
  /\ looked \in BOOLEAN /\ asked \in Credentials \cup {"unknown"}
  /\ joined # "no" => mode = "STA" /\ joined = trying

(* What the form or a command asked for last is what the board waits for,  *)
(* whatever restarts and other networks came between asking and waiting,   *)
(* and however often it gave up meanwhile; a form offered because no       *)
(* network was found is always such a request (lines 56-73, 111-163).      *)
WaitsForWhatWasAsked == stage = "wait" /\ asked # "unknown" => trying = asked

(* The owner can always get at the board: over and over it is on a network *)
(* or offers the form (lines 136-183), whatever its credentials.           *)
OwnerReachesBoard == []<>(joined # "no" \/ mode = "AP" \/ stage = "saved")

=============================================================================
