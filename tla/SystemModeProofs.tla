-------------------------- MODULE SystemModeProofs --------------------------
(***************************************************************************)
(* Proofs about the mode decision, for any set of gated tasks, any set of  *)
(* credentials and any PCB pool.                                           *)
(***************************************************************************)
EXTENDS SystemMode, TLAPS

(***************************************************************************)
(* Type correctness of the mode logic of manager.c and wifi.c.             *)
(***************************************************************************)
THEOREM TypeCorrect == Spec => []TypeOK
<1> USE DEF BIT_MODE_NORMAL_OPERATION, BIT_MODE_CONFIG, WIFI_CONNECTED_BIT
<1>1. Init => TypeOK
  <2> SUFFICES ASSUME Init PROVE TypeOK
    OBVIOUS
  <2>1. beats \in 0 .. RawPcbs
    BY ModeAssumption DEF Init
  <2>2. gate \in [Task -> {"boot", "blocked", "open"}]
    BY DEF Init
  <2>3. everUp \in BOOLEAN /\ submitted \in BOOLEAN
    BY DEF Init
  <2> QED BY <2>1, <2>2, <2>3 DEF Init, TypeOK
<1>2. TypeOK /\ [Next]_vars => TypeOK'
  <2> SUFFICES ASSUME TypeOK, [Next]_vars PROVE TypeOK'
    OBVIOUS
  <2> USE DEF TypeOK
  <2>s. ASSUME NEW b \in {0, 1}, SetBits(b)
        PROVE  /\ bits' \in SUBSET {0, 1}
               /\ gate' \in [Task -> {"boot", "blocked", "open"}]
    BY <2>s DEF SetBits
  <2>c. ASSUME NEW b \in {0, 1}, ClearBits(b)
        PROVE  /\ bits' \in SUBSET {0, 1}
               /\ gate' \in [Task -> {"boot", "blocked", "open"}]
    BY <2>c DEF ClearBits
  <2>m. ManagerWoken => mgr' \in {"boot", "waiting", "connected", "timedout",
                                  "normal", "config"}
    BY DEF ManagerWoken
  <2>h. InitHeartbeat => beats' \in 0 .. RawPcbs /\ wifi' \in {"loop", "fault"}
    BY ModeAssumption DEF InitHeartbeat
  <2>r. Restart => TypeOK'
    <3> SUFFICES ASSUME Restart PROVE TypeOK'
      OBVIOUS
    <3>1. beats' \in 0 .. RawPcbs
      BY ModeAssumption DEF Restart
    <3>2. gate' \in [Task -> {"boot", "blocked", "open"}]
      BY DEF Restart
    <3>3. everUp' \in BOOLEAN /\ submitted' \in BOOLEAN
      BY DEF Restart
    <3> QED BY <3>1, <3>2, <3>3 DEF Restart
  <2>1. ASSUME Manager PROVE TypeOK'
    BY <2>1, <2>s DEF Manager, ManagerStart, ManagerTimeout, ManagerDecide
  <2>2. ASSUME NEW t \in Task, ReachGate(t) PROVE TypeOK'
    BY <2>2 DEF ReachGate
  <2>3. ASSUME Wifi PROVE TypeOK'
    <3>1. CASE WifiInit \/ ReadCreds \/ EnterConfig \/ LeaveConfig
      BY <3>1 DEF WifiInit, ReadCreds, EEPROM_ReadBlob, EnterConfig, LeaveConfig
    <3>2. CASE ConnectFail
      BY <3>2, <2>c DEF ConnectFail
    <3>3. CASE ConnectOk
      BY <3>3, <2>s, <2>m, <2>h DEF ConnectOk
    <3>4. CASE PollLink
      BY <3>4, <2>s, <2>m DEF PollLink
    <3>5. CASE ClearAndRetry
      BY <3>5, <2>c DEF ClearAndRetry
    <3>6. CASE Reconnect
      BY <3>6, <2>h DEF Reconnect
    <3>7. CASE Reboot
      BY <3>7, <2>r DEF Reboot
    <3> QED BY <2>3, <3>1, <3>2, <3>3, <3>4, <3>5, <3>6, <3>7 DEF Wifi
  <2>4. ASSUME NEW c \in Submit, HandlerStart(c) PROVE TypeOK'
    BY <2>4 DEF HandlerStart
  <2>5. ASSUME HandlerPage PROVE TypeOK'
    BY <2>5 DEF HandlerPage
  <2>6. ASSUME HandlerEnd PROVE TypeOK'
    BY <2>6, <2>c DEF HandlerEnd
  <2>7. ASSUME HeartbeatReply PROVE TypeOK'
    BY <2>7, <2>s, <2>m DEF HeartbeatReply
  <2>8. ASSUME PowerLoss PROVE TypeOK'
    BY <2>8, <2>r DEF PowerLoss
  <2>9. CASE UNCHANGED vars
    BY <2>9 DEF vars
  <2> QED
    BY <2>1, <2>2, <2>3, <2>4, <2>5, <2>6, <2>7, <2>8, <2>9 DEF Next
<1> QED BY <1>1, <1>2, PTL DEF Spec

-----------------------------------------------------------------------------
(***************************************************************************)
(* The strengthened invariant of the mode decision holds in every state.   *)
(***************************************************************************)
THEOREM ModeInvariant == Spec => []ModeInv
<1> USE DEF BIT_MODE_NORMAL_OPERATION, BIT_MODE_CONFIG, WIFI_CONNECTED_BIT,
            AccessPointOnlyInConfig, RebootNeedsSubmission
<1>1. Init => ModeInv
  BY DEF Init, ModeInv
<1>2. TypeOK /\ ModeInv /\ [Next]_vars => ModeInv'
  <2> SUFFICES ASSUME TypeOK, ModeInv, [Next]_vars PROVE ModeInv'
    OBVIOUS
  <2>r. Restart => ModeInv'
    BY DEF Restart, ModeInv
  <2>1. ASSUME Manager PROVE ModeInv'
    BY <2>1 DEF Manager, ManagerStart, ManagerTimeout, ManagerDecide, SetBits,
                ModeInv, TypeOK
  <2>2. ASSUME NEW t \in Task, ReachGate(t) PROVE ModeInv'
    BY <2>2 DEF ReachGate, ModeInv, TypeOK
  <2>3. ASSUME Wifi PROVE ModeInv'
    <3>1. CASE WifiInit \/ ReadCreds
      BY <3>1 DEF WifiInit, ReadCreds, ModeInv
    <3>2. CASE EnterConfig \/ LeaveConfig
      BY <3>2 DEF EnterConfig, LeaveConfig, ModeInv
    <3>3. CASE ConnectFail \/ ClearAndRetry
      BY <3>3 DEF ConnectFail, ClearAndRetry, ClearBits, ModeInv
    <3>4. CASE ConnectOk
      BY <3>4 DEF ConnectOk, InitHeartbeat, SetBits, ManagerWoken, ModeInv
    <3>5. CASE PollLink
      <4> PICK linkStatus \in cyw43_wifi_link_status :
             IF linkStatus = CYW43_LINK_UP
               THEN SetBits(WIFI_CONNECTED_BIT) /\ ManagerWoken /\ UNCHANGED wifi
               ELSE wifi' = "blink" /\ UNCHANGED <<bits, mgr, gate>>
        BY <3>5 DEF PollLink
      <4>1. linkStatus # CYW43_LINK_UP
        BY DEF cyw43_wifi_link_status, CYW43_LINK_UP
      <4> QED BY <3>5, <4>1 DEF PollLink, ModeInv
    <3>6. CASE Reconnect
      BY <3>6 DEF Reconnect, InitHeartbeat, ModeInv
    <3>7. CASE Reboot
      BY <3>7, <2>r DEF Reboot
    <3> QED BY <2>3, <3>1, <3>2, <3>3, <3>4, <3>5, <3>6, <3>7 DEF Wifi
  <2>4. ASSUME NEW c \in Submit, HandlerStart(c) PROVE ModeInv'
    BY <2>4 DEF HandlerStart, ModeInv
  <2>5. ASSUME HandlerPage PROVE ModeInv'
    BY <2>5 DEF HandlerPage, ModeInv
  <2>6. ASSUME HandlerEnd PROVE ModeInv'
    BY <2>6 DEF HandlerEnd, ClearBits, ModeInv
  <2>7. ASSUME HeartbeatReply PROVE ModeInv'
    BY <2>7 DEF HeartbeatReply, SetBits, ManagerWoken, ModeInv
  <2>8. ASSUME PowerLoss PROVE ModeInv'
    BY <2>8, <2>r DEF PowerLoss
  <2>9. CASE UNCHANGED vars
    BY <2>9 DEF vars, ModeInv
  <2> QED
    BY <2>1, <2>2, <2>3, <2>4, <2>5, <2>6, <2>7, <2>8, <2>9 DEF Next
<1> QED BY <1>1, <1>2, TypeCorrect, PTL DEF Spec

(***************************************************************************)
(* No gated task starts, and the manager does not grant NORMAL, before the *)
(* station has connected in this boot (manager.c:24-34, wifi.c:67-79).     *)
(***************************************************************************)
THEOREM NormalOnlyAfterWifi == Spec => []StartedOnlyAfterWifi
<1>1. ModeInv => StartedOnlyAfterWifi
  BY DEF ModeInv, StartedOnlyAfterWifi
<1> QED BY <1>1, ModeInvariant, PTL

(***************************************************************************)
(* The setup access point appears only after the manager chose             *)
(* CONFIGURATION mode (manager.c:36-37, wifi.c:84-102).                    *)
(***************************************************************************)
THEOREM ManagerChoiceIsFinal == Spec => []AccessPointOnlyInConfig
<1>1. ModeInv => AccessPointOnlyInConfig
  BY DEF ModeInv
<1> QED BY <1>1, ModeInvariant, PTL

(***************************************************************************)
(* Configuration mode ends in a reboot only after configHandler has run to *)
(* its end (wifi.c:105-119, 183-187).                                      *)
(***************************************************************************)
THEOREM RebootFollowsSubmission == Spec => []RebootNeedsSubmission
<1>1. ModeInv => RebootNeedsSubmission
  BY DEF ModeInv
<1> QED BY <1>1, ModeInvariant, PTL

=============================================================================
