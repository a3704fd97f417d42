----------------------------- MODULE SystemMode -----------------------------
(***************************************************************************)
(* How hkRTOS decides between normal operation and configuration mode:     *)
(* the system manager task (manager.c), the WiFi manager task and the CGI  *)
(* handler of the setup page (wifi.c), the ICMP heartbeat (ping.h) and the *)
(* mode gate at the top of every sensor and pipeline task, all of them     *)
(* talking through the event group xSystemStateEventGroup.                 *)
(*                                                                         *)
(* Timeouts are untimed: the manager's 30 s wait may expire at any moment  *)
(* at which the bit is not set.  The WiFi task starts its own 30 s connect *)
(* after chip initialisation and an EEPROM read, so either may end first.  *)
(***************************************************************************)
EXTENDS Naturals

CONSTANTS
  Task,      \* the tasks that wait for BIT_MODE_NORMAL_OPERATION
  Submit,    \* credentials a user may submit on the setup page
  Default,   \* the credentials of arm.h
  Blank,     \* content of an EEPROM that was never written
  Torn,      \* an EEPROM blob of which only some pages are written
  NONE,      \* no submission is being handled
  RawPcbs    \* size of the lwIP raw PCB pool

ASSUME ModeAssumption ==
  /\ RawPcbs \in Nat \ {0}
  /\ NONE \notin Submit

VARIABLES
  bits,       \* xSystemStateEventGroup
  mgr,        \* vSystemManagerTask
  gate,       \* each task's position relative to its mode gate
  wifi,       \* vWifiManagerTask
  creds,      \* the credentials the WiFi task starts with
  store,      \* the credential blob in the EEPROM
  handler,    \* the submission configHandler is writing
  beats,      \* raw PCBs (and timer chains) initHeartbeat has claimed
  everUp,     \* history: a connection succeeded since boot
  submitted   \* history: configHandler completed since boot

vars == <<bits, mgr, gate, wifi, creds, store, handler, beats, everUp,
          submitted>>

\* Bit numbers of the event group.  The two names of bit 0 are the code's.
BIT_MODE_NORMAL_OPERATION == 0
BIT_MODE_CONFIG           == 1
WIFI_CONNECTED_BIT        == 0

(***************************************************************************)
(* xEventGroupSetBits releases, in the same call, every task already       *)
(* blocked on a bit that is now set; clearing the bit later does not take  *)
(* that back.  The manager's wait returns the bits of that moment.         *)
(***************************************************************************)
SetBits(b) ==
  /\ bits' = bits \cup {b}
  /\ gate' = [t \in Task |-> IF gate[t] = "blocked" /\ BIT_MODE_NORMAL_OPERATION \in bits'
                             THEN "open" ELSE gate[t]]

ManagerWoken ==
  mgr' = IF mgr = "waiting" /\ WIFI_CONNECTED_BIT \in bits' THEN "connected" ELSE mgr

ClearBits(b) == bits' = bits \ {b} /\ UNCHANGED gate

\* main() up to the scheduler: the event group is new, every task unstarted.
Init ==
  /\ bits = {}
  /\ mgr = "boot"
  /\ gate = [t \in Task |-> "boot"]
  /\ wifi = "boot"
  /\ creds = Default
  /\ store \in Submit \cup {Blank}
  /\ handler = NONE
  /\ beats = 0
  /\ everUp = FALSE
  /\ submitted = FALSE

\* A reset forgets everything but the content of the EEPROM.
Restart ==
  /\ bits' = {}
  /\ mgr' = "boot"
  /\ gate' = [t \in Task |-> "boot"]
  /\ wifi' = "boot"
  /\ creds' = Default
  /\ handler' = NONE
  /\ beats' = 0
  /\ everUp' = FALSE
  /\ submitted' = FALSE
  /\ UNCHANGED store

-----------------------------------------------------------------------------
(* vSystemManagerTask *)

ManagerStart ==
  /\ mgr = "boot"
  /\ mgr' = IF WIFI_CONNECTED_BIT \in bits THEN "connected" ELSE "waiting"
  /\ UNCHANGED <<bits, gate, wifi, creds, store, handler, beats, everUp,
                 submitted>>

\* Mutant: the wait uses portMAX_DELAY.
ManagerWaitsForever ==
  /\ mgr = "waiting"
  /\ WIFI_CONNECTED_BIT \in bits
  /\ mgr' = "timedout"
  /\ UNCHANGED <<bits, gate, wifi, creds, store, handler, beats, everUp,
                 submitted>>

ManagerTimeout ==
  /\ mgr = "waiting"
  /\ WIFI_CONNECTED_BIT \notin bits
  /\ mgr' = "timedout"
  /\ UNCHANGED <<bits, gate, wifi, creds, store, handler, beats, everUp,
                 submitted>>

\* Mutant: the result of the wait is not looked at.
ManagerAlwaysNormal ==
  /\ mgr \in {"connected", "timedout"}
  /\ SetBits(BIT_MODE_NORMAL_OPERATION)
  /\ mgr' = "normal"
  /\ UNCHANGED <<wifi, creds, store, handler, beats, everUp, submitted>>

\* The decision, on the bits the wait returned, and vTaskDelete.
ManagerDecide ==
  /\ \/ /\ mgr = "connected"
        /\ SetBits(BIT_MODE_NORMAL_OPERATION)
        /\ mgr' = "normal"
     \/ /\ mgr = "timedout"
        /\ SetBits(BIT_MODE_CONFIG)
        /\ mgr' = "config"
  /\ UNCHANGED <<wifi, creds, store, handler, beats, everUp, submitted>>

Manager == ManagerStart \/ ManagerTimeout \/ ManagerDecide

-----------------------------------------------------------------------------
\* xEventGroupWaitBits(..., BIT_MODE_NORMAL_OPERATION, ..., portMAX_DELAY)
ReachGate(t) ==
  /\ gate[t] = "boot"
  /\ gate' = [gate EXCEPT ![t] = IF BIT_MODE_NORMAL_OPERATION \in bits
                                 THEN "open" ELSE "blocked"]
  /\ UNCHANGED <<bits, mgr, wifi, creds, store, handler, beats, everUp,
                 submitted>>

-----------------------------------------------------------------------------
(* vWifiManagerTask *)

\* cyw43 initialisation; on failure the task suspends itself for good.
WifiInit ==
  /\ wifi = "boot"
  /\ wifi' \in {"creds", "suspended"}
  /\ UNCHANGED <<bits, mgr, gate, creds, store, handler, beats, everUp,
                 submitted>>

\* What EEPROM_ReadBlob leaves in creds: whatever is stored, or, when the bus
\* refuses, what was there.
EEPROM_ReadBlob == {store, creds}

\* EEPROM_ReadBlob over the default credentials; only an I2C error keeps them.
ReadCreds ==
  /\ wifi = "creds"
  /\ creds' \in EEPROM_ReadBlob
  /\ wifi'  = "connecting"
  /\ UNCHANGED <<bits, mgr, gate, store, handler, beats, everUp, submitted>>

ConnectFail ==
  /\ wifi = "connecting"
  /\ ClearBits(WIFI_CONNECTED_BIT)
  /\ wifi' = "loop"
  /\ UNCHANGED <<mgr, creds, store, handler, beats, everUp, submitted>>

\* raw_new fails when the pool is exhausted, and raw_recv then faults.
InitHeartbeat ==
  \/ beats < RawPcbs /\ beats' = beats + 1 /\ wifi' = "loop"
  \/ beats = RawPcbs /\ beats' = beats     /\ wifi' = "fault"

\* The first connection of this boot: the PCB pool is still whole.
ConnectOk ==
  /\ wifi = "connecting"
  /\ everUp' = TRUE
  /\ InitHeartbeat
  /\ SetBits(WIFI_CONNECTED_BIT)
  /\ ManagerWoken
  /\ UNCHANGED <<creds, store, handler, submitted>>

\* CONFIG seen at the top of the loop: access point, HTTP server, CGI handler.
EnterConfig ==
  /\ wifi = "loop"
  /\ BIT_MODE_CONFIG \in bits
  /\ wifi' = "ap"
  /\ UNCHANGED <<bits, mgr, gate, creds, store, handler, beats, everUp,
                 submitted>>

\* The driver's link state: down, joined or a failure code.  CYW43_LINK_UP belongs
\* to another call, cyw43_tcpip_link_status, and is never among them.
CYW43_LINK_UP == "up"
cyw43_wifi_link_status == {"down", "join", "fail", "nonet", "badauth"}

\* The link test of every round in normal mode.  No status passes it, so the
\* round always ends in the reconnect branch, the link intact or not: the LED
\* blinks for half a second ...
PollLink ==
  /\ wifi = "loop"
  /\ BIT_MODE_CONFIG \notin bits
  /\ \E linkStatus \in cyw43_wifi_link_status :
       IF linkStatus = CYW43_LINK_UP
         THEN SetBits(WIFI_CONNECTED_BIT) /\ ManagerWoken /\ UNCHANGED wifi
         ELSE wifi' = "blink" /\ UNCHANGED <<bits, mgr, gate>>
  /\ UNCHANGED <<creds, store, handler, beats, everUp, submitted>>

\* ... then the bit is cleared and the task tries to reconnect for 10 s, with
\* the credentials in params->wifi, not with creds; it succeeds or not.
ClearAndRetry ==
  /\ wifi = "blink"
  /\ ClearBits(WIFI_CONNECTED_BIT)
  /\ wifi' = "reconnecting"
  /\ UNCHANGED <<mgr, creds, store, handler, beats, everUp, submitted>>

\* Success registers another heartbeat and leaves the bit to its replies.  It
\* needs the station mode, which ConnectFail disabled for good.
Reconnect ==
  /\ wifi = "reconnecting"
  /\ \/ wifi' = "loop" /\ UNCHANGED beats
     \/ everUp /\ InitHeartbeat
  /\ UNCHANGED <<bits, mgr, gate, creds, store, handler, everUp, submitted>>

\* The blink loop of configuration mode ends when CONFIG is cleared.
LeaveConfig ==
  /\ wifi = "ap"
  /\ BIT_MODE_CONFIG \notin bits
  /\ wifi' = "exit"
  /\ UNCHANGED <<bits, mgr, gate, creds, store, handler, beats, everUp,
                 submitted>>

\* watchdog_reboot
Reboot ==
  /\ wifi = "exit"
  /\ Restart

Wifi == \/ WifiInit \/ ReadCreds \/ ConnectFail \/ ConnectOk \/ EnterConfig
        \/ PollLink \/ ClearAndRetry \/ Reconnect \/ LeaveConfig \/ Reboot

-----------------------------------------------------------------------------
(* configHandler, in the lwIP thread, while the HTTP server is up *)

\* Mutant: CONFIG is cleared before the credentials are saved.
HandlerClearsFirst(c) ==
  /\ wifi \in {"ap", "exit"}
  /\ handler = NONE
  /\ handler' = c
  /\ ClearBits(BIT_MODE_CONFIG)
  /\ UNCHANGED <<mgr, wifi, creds, store, beats, everUp, submitted>>

HandlerStart(c) ==
  /\ wifi \in {"ap", "exit"}
  /\ handler = NONE
  /\ handler' = c
  /\ UNCHANGED <<bits, mgr, gate, wifi, creds, store, beats, everUp,
                 submitted>>

\* EEPROM_WriteBlob has written a page and has pages to go.
HandlerPage ==
  /\ handler # NONE
  /\ store' = Torn
  /\ UNCHANGED <<bits, mgr, gate, wifi, creds, handler, beats, everUp,
                 submitted>>

\* Mutant: configuration mode is left only when every page was written.
HandlerEndIfSaved ==
  /\ handler # NONE
  /\ store' \in {handler, store}
  /\ IF store' = handler THEN ClearBits(BIT_MODE_CONFIG) ELSE UNCHANGED <<bits, gate>>
  /\ handler'   = NONE
  /\ submitted' = TRUE
  /\ UNCHANGED <<mgr, wifi, creds, beats, everUp>>

\* The blob is complete, or a page failed and the rest was skipped; the result
\* is ignored and CONFIG is cleared either way.
HandlerEnd ==
  /\ handler # NONE
  /\ store' \in {handler, store}
  /\ ClearBits(BIT_MODE_CONFIG)
  /\ handler'   = NONE
  /\ submitted' = TRUE
  /\ UNCHANGED <<mgr, wifi, creds, beats, everUp>>

-----------------------------------------------------------------------------
(* Environment *)

\* Mutant: the reply is compared with the next sequence number and never matches.
ReplyUnmatched == beats > 0 /\ UNCHANGED vars

\* pingRecvCallback with a matching id and sequence number.
HeartbeatReply ==
  /\ beats > 0
  /\ SetBits(WIFI_CONNECTED_BIT)
  /\ ManagerWoken
  /\ UNCHANGED <<wifi, creds, store, handler, beats, everUp, submitted>>

PowerLoss == wifi # "boot" /\ Restart

-----------------------------------------------------------------------------
Next ==
  \/ Manager
  \/ \E t \in Task : ReachGate(t)
  \/ Wifi
  \/ \E c \in Submit : HandlerStart(c)
  \/ HandlerPage
  \/ HandlerEnd
  \/ HeartbeatReply
  \/ PowerLoss

Spec == Init /\ [][Next]_vars

\* The two manager tasks have the highest application priority and block only
\* with timeouts, so the tasks below them run too; the lwIP thread is above them.
Fairness ==
  /\ WF_vars(Manager) /\ WF_vars(Wifi) /\ WF_vars(HandlerEnd)
  /\ \A t \in Task : WF_vars(ReachGate(t))

FairSpec == Spec /\ Fairness

-----------------------------------------------------------------------------
TypeOK ==
  /\ bits \in SUBSET {BIT_MODE_NORMAL_OPERATION, BIT_MODE_CONFIG}
  /\ mgr  \in {"boot", "waiting", "connected", "timedout", "normal", "config"}
  /\ gate \in [Task -> {"boot", "blocked", "open"}]
  /\ wifi \in {"boot", "suspended", "creds", "connecting", "loop", "blink",
               "reconnecting", "ap", "exit", "fault"}
  /\ creds \in Submit \cup {Default, Blank, Torn}
  /\ store \in Submit \cup {Blank, Torn}
  /\ handler \in Submit \cup {NONE}
  /\ beats \in 0 .. RawPcbs
  /\ everUp \in BOOLEAN /\ submitted \in BOOLEAN

(***************************************************************************)
(* No sensor or pipeline task runs before the station has been connected   *)
(* in this boot: the manager grants NORMAL only on WIFI_CONNECTED_BIT, and *)
(* whoever sets that bit (first connect or heartbeat reply), even under    *)
(* its other name, has seen a connection.                                  *)
(***************************************************************************)
StartedOnlyAfterWifi ==
  (mgr = "normal" \/ \E t \in Task : gate[t] = "open") => everUp

(***************************************************************************)
(* The manager's choice is final until the next boot: the setup access     *)
(* point comes up only if the manager chose CONFIGURATION, never because   *)
(* of a reconnect or a late connection in normal mode.                     *)
(***************************************************************************)
AccessPointOnlyInConfig ==
  (BIT_MODE_CONFIG \in bits \/ wifi \in {"ap", "exit"}) => mgr = "config"

(***************************************************************************)
(* "Rebooting to apply settings" happens only after configHandler has run  *)
(* to its end: nothing else that touches the event group (connection loss, *)
(* heartbeat, failed connect) can end configuration mode.                  *)
(***************************************************************************)
RebootNeedsSubmission == wifi = "exit" => submitted

(***************************************************************************)
(* The inductive strengthening of the three: bit 0 under either name, the  *)
(* manager's pending answer and the heartbeat all presuppose a             *)
(* connection, and configuration mode without its bit a finished handler.  *)
(***************************************************************************)
ModeInv ==
  /\ (\/ WIFI_CONNECTED_BIT \in bits
      \/ mgr \in {"connected", "normal"}
      \/ \E t \in Task : gate[t] = "open"
      \/ beats > 0) => everUp
  /\ AccessPointOnlyInConfig
  /\ wifi = "ap" /\ BIT_MODE_CONFIG \notin bits => submitted
  /\ RebootNeedsSubmission

(***************************************************************************)
(* Unless the power keeps failing, the manager reaches a decision after    *)
(* every boot, although the WiFi task may have suspended itself, may clear *)
(* the bit the manager waits for, and never signals a failure.  (A hard    *)
(* fault in the heartbeat registration is excluded here.)                  *)
(***************************************************************************)
ModeIsDecided ==
  <>[][~PowerLoss]_vars /\ [](wifi # "fault") =>
    ((mgr = "boot") ~> (mgr \in {"normal", "config"}))

(***************************************************************************)
(* A submission takes effect: once configHandler has completed, the device *)
(* restarts, whatever heartbeat and reconnects do to the event group.      *)
(***************************************************************************)
SubmissionReboots == submitted ~> (wifi = "boot")

(***************************************************************************)
(* Once NORMAL is granted every task passes its gate, however late it gets *)
(* there, as long as the gateway answers the heartbeat.  The WiFi task     *)
(* takes the bit back in every round and its link test never sets it       *)
(* again: a late task gets through on a heartbeat reply alone, if it finds *)
(* the bit of the last one or is blocked when the next one comes.          *)
(***************************************************************************)
GatesOpen ==
  <>[][~PowerLoss]_vars /\ [](wifi # "fault") /\ WF_vars(HeartbeatReply) =>
    \A t \in Task : (mgr = "normal") ~> (gate[t] = "open" \/ mgr = "boot")

(***************************************************************************)
(* wifi.c: the configuration loop blinks "to indicate we're not operating  *)
(* normally"; manager.c starts either NORMAL or CONFIGURATION mode.        *)
(***************************************************************************)
ConfigExcludesNormal == wifi = "ap" => \A t \in Task : gate[t] # "open"

=============================================================================
