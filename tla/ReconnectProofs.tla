-------------------------- MODULE ReconnectProofs --------------------------
(***************************************************************************)
(* For any number of faults and pending signals: types, no connect carried *)
(* into a sleep that was cancelled for, and no paired session that serves  *)
(* a lost link without being told.                                         *)
(***************************************************************************)
EXTENDS Reconnect, SequenceTheorems, TLAPS

(* The monitor cancels only while the flag is up, and a cancel that has    *)
(* returned stays the last word until the resume is heard.  A driver that  *)
(* looked before the flag went up is the race; any other is not past its   *)
(* look while the flag is up.                                              *)
Calm ==
  /\ monitor \in {"look", "cut"} \/ quiet => suspending
  /\ suspending /\ ~Raced => driver \notin {"check", "dial"}
  /\ quiet /\ ~Raced => link # "pending"

(* A helper that is gone is news; an answered GET_STATUS is of a link that *)
(* is up, or whose loss the helper, by then subscribed, has told.          *)
News ==
  /\ helper = "gone" => told
  /\ heard => pc \in {"challenge", "serve"} /\ (link = "up" \/ told)
  /\ LostLinkIsTold

IInv == Places /\ Flags /\ Counts /\ Lifetimes /\ Calm /\ News

-----------------------------------------------------------------------------
LEMMA HeadOfSignals ==
  ASSUME NEW s \in Seq(BOOLEAN), s # <<>>
  PROVE  Head(s) \in BOOLEAN /\ Tail(s) \in Seq(BOOLEAN)
OBVIOUS

LEMMA SignalsAppended ==
  ASSUME Counts, NEW b \in BOOLEAN, Signal(b) PROVE signals' \in Seq(BOOLEAN)
<1>1. CASE monitor = "deaf" BY <1>1 DEF Counts, Signal
<1>2. CASE monitor # "deaf"
  <2>1. signals \in Seq(BOOLEAN) /\ signals' = Append(signals, b) BY <1>2 DEF Counts, Signal
  <2> QED BY <2>1, Zenon, AppendProperties
<1> QED BY <1>1, <1>2

LEMMA InitHolds == Init => IInv
<1> SUFFICES ASSUME Init PROVE IInv OBVIOUS
<1>1. Places BY DEF Init, Places, Drivers
<1>2. Flags BY DEF Init, Flags
<1>3. Counts BY ReconnectAssumption DEF Init, Counts
<1>4. Lifetimes BY DEF Init, Lifetimes
<1>5. Calm BY DEF Init, Calm, Raced
<1>6. News BY DEF Init, News, LostLinkIsTold
<1> QED BY <1>1, <1>2, <1>3, <1>4, <1>5, <1>6 DEF IInv

LEMMA WorldKeeps == IInv /\ World => IInv'
<1> SUFFICES ASSUME IInv, World PROVE IInv' OBVIOUS
<1> USE ReconnectAssumption
    DEF IInv, Places, Flags, Counts, Lifetimes, Calm, News, LostLinkIsTold, Drivers, Raced, bluez, sleep,
        watch, session, Fault, Unlink, Linked, Signal
<1>1. CASE Arrive BY <1>1 DEF Arrive
<1>2. CASE Leave
  <2>1. Places' BY <1>2 DEF Leave
  <2>2. Flags' BY <1>2 DEF Leave
  <2>3. Counts' BY <1>2 DEF Leave
  <2>4. Lifetimes' BY <1>2 DEF Leave
  <2>5. Calm' BY <1>2 DEF Leave
  <2>6. News' BY <1>2 DEF Leave
  <2> QED BY <2>1, <2>2, <2>3, <2>4, <2>5, <2>6
<1>3. CASE Drop
  <2>1. Places' BY <1>3 DEF Drop
  <2>2. Flags' BY <1>3 DEF Drop
  <2>3. Counts' BY <1>3 DEF Drop
  <2>4. Lifetimes' BY <1>3 DEF Drop
  <2>5. Calm' BY <1>3 DEF Drop
  <2>6. News' BY <1>3 DEF Drop
  <2> QED BY <2>1, <2>2, <2>3, <2>4, <2>5, <2>6
<1>4. CASE Establish BY <1>4 DEF Establish
<1>5. CASE Rebind BY <1>5 DEF Rebind
<1>6. CASE Resolve BY <1>6 DEF Resolve
<1>7. CASE Prepare
  <2>1. Places' BY <1>7 DEF Prepare
  <2>2. Flags' BY <1>7 DEF Prepare
  <2>3. Counts'
    <3>1. signals' \in Seq(BOOLEAN) BY <1>7, SignalsAppended DEF Prepare
    <3>2. faults' = faults BY <1>7 DEF Prepare
    <3> HIDE DEF Signal
    <3> QED BY <3>1, <3>2
  <2>4. Lifetimes' BY <1>7 DEF Prepare
  <2>5. Calm' BY <1>7 DEF Prepare
  <2>6. News' BY <1>7 DEF Prepare
  <2> QED BY <2>1, <2>2, <2>3, <2>4, <2>5, <2>6
<1>8. CASE Sleep
  <2>1. Places' BY <1>8 DEF Sleep
  <2>2. Flags' BY <1>8 DEF Sleep
  <2>3. Counts' BY <1>8 DEF Sleep
  <2>4. Lifetimes' BY <1>8 DEF Sleep
  <2>5. Calm' BY <1>8 DEF Sleep
  <2>6. News' BY <1>8 DEF Sleep
  <2> QED BY <2>1, <2>2, <2>3, <2>4, <2>5, <2>6
<1>9. CASE Wake
  <2>1. Places' BY <1>9 DEF Wake
  <2>2. Flags' BY <1>9 DEF Wake
  <2>3. Counts'
    <3>1. signals' \in Seq(BOOLEAN) BY <1>9, SignalsAppended DEF Wake
    <3>2. faults' = faults BY <1>9 DEF Wake
    <3> HIDE DEF Signal
    <3> QED BY <3>1, <3>2
  <2>4. Lifetimes' BY <1>9 DEF Wake
  <2>5. Calm' BY <1>9 DEF Wake
  <2>6. News' BY <1>9 DEF Wake
  <2> QED BY <2>1, <2>2, <2>3, <2>4, <2>5, <2>6
<1> QED BY <1>1, <1>2, <1>3, <1>4, <1>5, <1>6, <1>7, <1>8, <1>9 DEF World

LEMMA MonitorKeeps == IInv /\ Monitor => IInv'
<1> SUFFICES ASSUME IInv, Monitor PROVE IInv' OBVIOUS
<1> USE ReconnectAssumption
    DEF IInv, Places, Flags, Counts, Lifetimes, Calm, News, LostLinkIsTold, Drivers, Raced, bluez, sleep,
        watch, session, Fault, Unlink
<1>1. CASE Hear
  <2> Head(signals) \in BOOLEAN /\ Tail(signals) \in Seq(BOOLEAN)
    <3> signals \in Seq(BOOLEAN) /\ signals # <<>> BY <1>1 DEF Hear
    <3> QED BY HeadOfSignals
  <2>1. Places' BY <1>1 DEF Hear
  <2>2. Flags' BY <1>1 DEF Hear
  <2>3. Counts' BY <1>1 DEF Hear
  <2>4. Lifetimes' BY <1>1 DEF Hear
  <2>5. Calm' BY <1>1 DEF Hear
  <2>6. News' BY <1>1 DEF Hear
  <2> QED BY <2>1, <2>2, <2>3, <2>4, <2>5, <2>6
<1>2. CASE CancelLook
  <2>1. Places' BY <1>2 DEF CancelLook
  <2>2. Flags' BY <1>2 DEF CancelLook
  <2>3. Counts' BY <1>2 DEF CancelLook
  <2>4. Lifetimes' BY <1>2 DEF CancelLook
  <2>5. Calm' BY <1>2 DEF CancelLook
  <2>6. News' BY <1>2 DEF CancelLook
  <2> QED BY <2>1, <2>2, <2>3, <2>4, <2>5, <2>6
<1>3. CASE CancelCut
  <2>1. Places' BY <1>3 DEF CancelCut
  <2>2. Flags' BY <1>3 DEF CancelCut
  <2>3. Counts' BY <1>3 DEF CancelCut
  <2>4. Lifetimes' BY <1>3 DEF CancelCut
  <2>5. Calm' BY <1>3 DEF CancelCut
  <2>6. News' BY <1>3 DEF CancelCut
  <2> QED BY <2>1, <2>2, <2>3, <2>4, <2>5, <2>6
<1>4. CASE CancelLate BY <1>4 DEF CancelLate
<1>5. CASE StreamEnds BY <1>5 DEF StreamEnds
<1>6. CASE Resubscribe BY <1>6 DEF Resubscribe
<1> QED BY <1>1, <1>2, <1>3, <1>4, <1>5, <1>6 DEF Monitor

LEMMA SessionKeeps == IInv /\ (Helper \/ Session) => IInv'
<1> SUFFICES ASSUME IInv, Helper \/ Session PROVE IInv' OBVIOUS
<1> USE ReconnectAssumption
    DEF IInv, Places, Flags, Counts, Lifetimes, Calm, News, LostLinkIsTold, Drivers, Raced, bluez, sleep,
        watch, session, Fault, Goto, EndSession
<1>1. CASE HelperReady BY <1>1 DEF HelperReady
<1>2. CASE HelperEarly BY <1>2 DEF HelperEarly
<1>3. CASE HelperDies
  <2>1. Places' BY <1>3 DEF HelperDies
  <2>2. Flags' BY <1>3 DEF HelperDies
  <2>3. Counts' BY <1>3 DEF HelperDies
  <2>4. Lifetimes' BY <1>3 DEF HelperDies
  <2>5. Calm' BY <1>3 DEF HelperDies
  <2>6. News' BY <1>3 DEF HelperDies
  <2> QED BY <2>1, <2>2, <2>3, <2>4, <2>5, <2>6
<1>4. CASE Find
  <2>1. Places' BY <1>4 DEF Find
  <2>2. Flags' BY <1>4 DEF Find
  <2>3. Counts' BY <1>4 DEF Find
  <2>4. Lifetimes' BY <1>4 DEF Find
  <2>5. Calm' BY <1>4 DEF Find
  <2>6. News' BY <1>4 DEF Find
  <2> QED BY <2>1, <2>2, <2>3, <2>4, <2>5, <2>6
<1>5. CASE Discover
  <2>1. Places' BY <1>5 DEF Discover
  <2>2. Flags' BY <1>5 DEF Discover
  <2>3. Counts' BY <1>5 DEF Discover
  <2>4. Lifetimes' BY <1>5 DEF Discover
  <2>5. Calm' BY <1>5 DEF Discover
  <2>6. News' BY <1>5 DEF Discover
  <2> QED BY <2>1, <2>2, <2>3, <2>4, <2>5, <2>6
<1>6. CASE Start
  <2>1. Places' BY <1>6 DEF Start
  <2>2. Flags' BY <1>6 DEF Start
  <2>3. Counts' BY <1>6 DEF Start
  <2>4. Lifetimes' BY <1>6 DEF Start
  <2>5. Calm' BY <1>6 DEF Start
  <2>6. News' BY <1>6 DEF Start
  <2> QED BY <2>1, <2>2, <2>3, <2>4, <2>5, <2>6
<1>7. CASE Status
  <2>1. Places' BY <1>7 DEF Status
  <2>2. Flags' BY <1>7 DEF Status
  <2>3. Counts' BY <1>7 DEF Status
  <2>4. Lifetimes' BY <1>7 DEF Status
  <2>5. Calm' BY <1>7 DEF Status
  <2>6. News' BY <1>7 DEF Status
  <2> QED BY <2>1, <2>2, <2>3, <2>4, <2>5, <2>6
<1>8. CASE Challenge
  <2>1. Places' BY <1>8 DEF Challenge
  <2>2. Flags' BY <1>8 DEF Challenge
  <2>3. Counts' BY <1>8 DEF Challenge
  <2>4. Lifetimes' BY <1>8 DEF Challenge
  <2>5. Calm' BY <1>8 DEF Challenge
  <2>6. News' BY <1>8 DEF Challenge
  <2> QED BY <2>1, <2>2, <2>3, <2>4, <2>5, <2>6
<1>9. CASE Disconnected
  <2>1. Places' BY <1>9 DEF Disconnected
  <2>2. Flags' BY <1>9 DEF Disconnected
  <2>3. Counts' BY <1>9 DEF Disconnected
  <2>4. Lifetimes' BY <1>9 DEF Disconnected
  <2>5. Calm' BY <1>9 DEF Disconnected
  <2>6. News' BY <1>9 DEF Disconnected
  <2> QED BY <2>1, <2>2, <2>3, <2>4, <2>5, <2>6
<1>10. CASE Backoff BY <1>10 DEF Backoff
<1> QED BY <1>1, <1>2, <1>3, <1>4, <1>5, <1>6, <1>7, <1>8, <1>9, <1>10 DEF Helper, Session

LEMMA WaitKeeps == IInv /\ Wait => IInv'
<1> SUFFICES ASSUME IInv, Wait PROVE IInv' OBVIOUS
<1> USE ReconnectAssumption
    DEF IInv, Places, Flags, Counts, Lifetimes, Calm, News, LostLinkIsTold, Drivers, Raced, bluez, sleep,
        watch, session, Fault, Unlink, Waits, Drive, Found, Kicked
<1>1. CASE Quick BY <1>1 DEF Quick
<1>2. CASE Watch BY <1>2 DEF Watch
<1>3. CASE Look BY <1>3 DEF Look
<1>4. CASE Held
  <2>1. Places' BY <1>4 DEF Held
  <2>2. Flags' BY <1>4 DEF Held
  <2>3. Counts' BY <1>4 DEF Held
  <2>4. Lifetimes' BY <1>4 DEF Held
  <2>5. Calm' BY <1>4 DEF Held
  <2>6. News' BY <1>4 DEF Held
  <2> QED BY <2>1, <2>2, <2>3, <2>4, <2>5, <2>6
<1>5. CASE Check BY <1>5 DEF Check
<1>6. CASE Dial BY <1>6 DEF Dial, Ready
<1>7. CASE Called BY <1>7 DEF Called
<1>8. CASE CallFails BY <1>8 DEF CallFails
<1>9. CASE Settle BY <1>9 DEF Settle
<1>10. CASE Unsure BY <1>10 DEF Unsure
<1>11. CASE HangUp
  <2>1. Places' BY <1>11 DEF HangUp
  <2>2. Flags' BY <1>11 DEF HangUp
  <2>3. Counts' BY <1>11 DEF HangUp
  <2>4. Lifetimes' BY <1>11 DEF HangUp
  <2>5. Calm' BY <1>11 DEF HangUp
  <2>6. News' BY <1>11 DEF HangUp
  <2> QED BY <2>1, <2>2, <2>3, <2>4, <2>5, <2>6
<1>12. CASE HangUpLate BY <1>12 DEF HangUpLate
<1>13. CASE Pause
  <2>1. Places' BY <1>13 DEF Pause
  <2>2. Flags' BY <1>13 DEF Pause
  <2>3. Counts' BY <1>13 DEF Pause
  <2>4. Lifetimes' BY <1>13 DEF Pause
  <2>5. Calm' BY <1>13 DEF Pause
  <2>6. News' BY <1>13 DEF Pause
  <2> QED BY <2>1, <2>2, <2>3, <2>4, <2>5, <2>6
<1> QED
  BY <1>1, <1>2, <1>3, <1>4, <1>5, <1>6, <1>7, <1>8, <1>9, <1>10, <1>11, <1>12, <1>13 DEF Wait

LEMMA StutterKeeps == IInv /\ UNCHANGED vars => IInv'
<1> USE DEF vars, bluez, sleep, watch, session
<1> SUFFICES ASSUME IInv, UNCHANGED vars PROVE IInv' OBVIOUS
<1>1. Places' /\ Counts' BY DEF IInv, Places, Counts
<1>2. Flags' BY DEF IInv, Flags
<1>3. Lifetimes' BY DEF IInv, Lifetimes
<1>4. Calm' /\ News' BY DEF IInv, Calm, Raced, News, LostLinkIsTold
<1> QED BY <1>1, <1>2, <1>3, <1>4 DEF IInv

LEMMA Inductive == Spec => []IInv
<1>1. IInv /\ [Next]_vars => IInv'
  BY WorldKeeps, MonitorKeeps, SessionKeeps, WaitKeeps, StutterKeeps DEF Next
<1> QED BY InitHolds, <1>1, PTL DEF Spec

-----------------------------------------------------------------------------
(* Every variable keeps its type, and a helper lives only in its session.  *)
THEOREM TypeCorrect == Spec => []TypeOK
<1>1. IInv => TypeOK BY DEF IInv, TypeOK
<1> QED BY <1>1, Inductive, PTL

(* No create-connection is carried into a sleep that was cancelled for     *)
(* (suspend.rs, cancel_pending_connect and the loop on is_suspending).     *)
THEOREM SleepIsQuiet == Spec => []QuietSleep
<1>1. IInv => QuietSleep BY DEF IInv, Calm, QuietSleep
<1> QED BY <1>1, Inductive, PTL

(* A paired session serves no lost link untold (connect_and_serve).        *)
THEOREM LossesAreTold == Spec => []LostLinkIsTold
<1>1. IInv => LostLinkIsTold BY DEF IInv, News
<1> QED BY <1>1, Inductive, PTL
=============================================================================
