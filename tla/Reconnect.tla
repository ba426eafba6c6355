----------------------------- MODULE Reconnect -----------------------------
(***************************************************************************)
(* The session loop of the daemon (ble.rs: run, connect_and_serve,         *)
(* wait_for_device_connected, try_active_connect), the start of its helper *)
(* (ble-notify-helper.py) and the sleep monitor (suspend.rs), with BlueZ,  *)
(* logind and the device around them.  What a session does once it serves  *)
(* is GateWorker's; what the challenge decides is Pairing's.               *)
(***************************************************************************)
EXTENDS Naturals, Sequences

CONSTANTS
  Paired,      \* TRUE: pairing.json is there, so the session ends on a failed challenge
  MaxFaults,   \* bound: lost links, silent commands, early notifications, dead helpers,
               \* broken connections to D-Bus, calls to BlueZ that time out
  MaxSignals   \* bound: PrepareForSleep signals the monitor has not read

ASSUME ReconnectAssumption ==
  /\ Paired \in BOOLEAN
  /\ MaxFaults \in Nat /\ MaxSignals \in Nat

VARIABLES
  near,        \* the device is awake and in reach
  link,        \* BlueZ's connection: "down", "pending" (create-connection), "up"
  resolved,    \* ServicesResolved of this connection
  host,        \* "awake", "preparing" (signalled), "asleep" (nothing runs)
  signals,     \* PrepareForSleep(b) on their way to the monitor
  monitor,     \* "listen", "look" and "cut" (cancelling), "deaf" (no stream, 5 s)
  suspending,  \* coordinator.is_suspending
  kick,        \* coordinator.resume_notify holds a permit
  pc,          \* where the session loop is
  driver,      \* where connect_driver is while pc = "wait"
  helper,      \* "none", "init", "early" (a NOTIFY line before READY), "ready", "gone"
  told,        \* disconnect_rx has something: DISCONNECT, or the end of the pipe
  heard,       \* GET_STATUS of this session was answered
  faults,      \* faults so far
  quiet,       \* history: the monitor's cancel for this sleep has returned in time
  caught       \* history: where the driver was when the flag went up last

bluez   == <<near, link, resolved>>
sleep   == <<host, signals>>
watch   == <<monitor, suspending, kick, quiet, caught>>
session == <<pc, driver, helper, told, heard>>
vars == <<bluez, sleep, watch, session, faults>>

Runs == host # "asleep"
Ready == link = "up" /\ resolved                     \* check_immurok_connected

Fault == faults < MaxFaults /\ faults' = faults + 1

Init ==
  /\ near \in BOOLEAN /\ link = "down" /\ resolved = FALSE
  /\ host = "awake" /\ signals = <<>>
  /\ monitor = "listen" /\ suspending = FALSE /\ kick = FALSE
  /\ pc = "find" /\ driver = "quick" /\ helper = "none" /\ told = FALSE /\ heard = FALSE
  /\ faults = 0 /\ quiet = FALSE /\ caught = "quick"

-----------------------------------------------------------------------------
(* The device, BlueZ and logind.  Only a helper that has subscribed to the *)
(* device's Connected property says DISCONNECT.                            *)

Unlink ==
  /\ link' = "down" /\ resolved' = FALSE
  /\ told' = (told \/ (link = "up" /\ helper = "ready"))

Arrive == ~near /\ near' = TRUE /\ UNCHANGED <<link, resolved, sleep, watch, session, faults>>

Leave ==
  /\ near /\ near' = FALSE
  /\ IF link = "up" THEN Unlink ELSE UNCHANGED <<link, resolved, told>>
  /\ UNCHANGED <<sleep, watch, pc, driver, helper, heard, faults>>

Drop ==                                              \* a link lost with the device in reach
  /\ link = "up" /\ Runs /\ Fault /\ Unlink
  /\ UNCHANGED <<near, sleep, watch, pc, driver, helper, heard>>

Linked ==
  /\ near /\ Runs /\ link' = "up"
  /\ UNCHANGED <<near, resolved, sleep, watch, session, faults>>

Establish == link = "pending" /\ Linked              \* a Connect() is answered
Answered  == driver = "calling" /\ Establish         \* ... while its caller waits for it
Rebind    == link = "down" /\ Linked                 \* the user, or BlueZ, reconnects

Resolve ==
  /\ link = "up" /\ ~resolved /\ Runs /\ resolved' = TRUE
  /\ UNCHANGED <<near, link, sleep, watch, session, faults>>

Signal(b) == signals' = IF monitor = "deaf" THEN signals ELSE Append(signals, b)

Prepare ==
  /\ host = "awake" /\ Len(signals) + 1 < MaxSignals
  /\ host' = "preparing" /\ Signal(TRUE)
  /\ UNCHANGED <<bluez, watch, session, faults>>

(* The kernel closes the links and carries a pending connect along; the    *)
(* daemon holds no inhibitor, so this may come before it has heard.        *)
Sleep ==
  /\ host = "preparing" /\ host' = "asleep"
  /\ IF link = "up" THEN Unlink ELSE UNCHANGED <<link, resolved, told>>
  /\ UNCHANGED <<near, signals, watch, pc, driver, helper, heard, faults>>

Wake ==                                              \* or the sleep is called off
  /\ host # "awake" /\ host' = "awake" /\ Signal(FALSE)
  /\ UNCHANGED <<bluez, watch, session, faults>>

-----------------------------------------------------------------------------
(* suspend.rs: the sleep monitor.                                          *)

(* (mutation: the resume clears the flag and kicks nobody)                 *)
HearNoKick ==
  /\ Runs /\ monitor = "listen" /\ signals # <<>>
  /\ signals' = Tail(signals) /\ suspending' = Head(signals) /\ quiet' = FALSE
  /\ IF Head(signals)
       THEN /\ monitor' = "look"
            /\ caught' = driver
       ELSE UNCHANGED <<monitor, caught>>
  /\ UNCHANGED <<bluez, host, kick, session, faults>>

Hear ==
  /\ Runs /\ monitor = "listen" /\ signals # <<>>
  /\ signals' = Tail(signals) /\ suspending' = Head(signals) /\ quiet' = FALSE
  /\ IF Head(signals)
       THEN /\ monitor' = "look" /\ UNCHANGED kick
            /\ caught' = driver
       ELSE kick' = TRUE /\ UNCHANGED <<monitor, caught>>
  /\ UNCHANGED <<bluez, host, session, faults>>

(* cancel_pending_connect: is_connected, then Disconnect.                  *)
CancelLook ==
  /\ Runs /\ monitor = "look"
  /\ IF link = "up" THEN monitor' = "listen" /\ quiet' = TRUE
                    ELSE monitor' = "cut" /\ UNCHANGED quiet
  /\ UNCHANGED <<bluez, sleep, suspending, kick, caught, session, faults>>

CancelCut ==
  /\ Runs /\ monitor = "cut" /\ monitor' = "listen" /\ quiet' = TRUE /\ Unlink
  /\ UNCHANGED <<near, sleep, suspending, kick, caught, pc, driver, helper, heard, faults>>

CancelLate ==                                        \* the bus is gone, or 3 s are over
  /\ Fault /\ Runs /\ monitor \in {"look", "cut"} /\ monitor' = "listen"
  /\ UNCHANGED <<bluez, sleep, suspending, kick, quiet, caught, session>>

StreamEnds ==                                        \* what was not read is lost
  /\ Fault /\ Runs /\ monitor = "listen" /\ monitor' = "deaf" /\ signals' = <<>>
  /\ UNCHANGED <<bluez, host, suspending, kick, quiet, caught, session>>

Resubscribe ==
  /\ Runs /\ monitor = "deaf" /\ monitor' = "listen"
  /\ UNCHANGED <<bluez, sleep, suspending, kick, quiet, caught, session, faults>>

-----------------------------------------------------------------------------
(* ble.rs: run and connect_and_serve.                                      *)

Goto(p) == pc' = p /\ UNCHANGED <<driver, helper, told, heard>>

(* (mutation: the session's end leaves its helper behind)                  *)
EndKeepsHelper ==
  /\ pc' = "backoff" /\ told' = FALSE /\ heard' = FALSE
  /\ UNCHANGED <<driver, helper>>

EndSession ==
  /\ pc' = "backoff" /\ helper' = "none" /\ told' = FALSE /\ heard' = FALSE
  /\ UNCHANGED driver

Find ==                                              \* resolved, or 5 s are over
  /\ Runs /\ pc = "find"
  /\ \/ (IF link = "up" THEN Goto("discover") ELSE EndSession) /\ UNCHANGED faults
     \/ EndSession /\ Fault
  /\ UNCHANGED <<bluez, sleep, watch>>

(* The characteristics are there when services are resolved; without, they *)
(* may be (from an earlier connection) or not.                             *)
Discover ==
  /\ Runs /\ pc = "discover"
  /\ \/ pc' = "starting" /\ helper' = "init" /\ UNCHANGED <<driver, told, heard, faults>>
     \/ ~resolved /\ EndSession /\ UNCHANGED faults
     \/ resolved /\ EndSession /\ Fault
  /\ UNCHANGED <<bluez, sleep, watch>>

HelperReady ==                                       \* subscribed, READY printed
  /\ Runs /\ helper = "init" /\ helper' = "ready"
  /\ UNCHANGED <<bluez, sleep, watch, pc, driver, told, heard, faults>>

HelperEarly ==                                       \* the device notifies before READY
  /\ Fault /\ Runs /\ helper = "init" /\ link = "up" /\ helper' = "early"
  /\ UNCHANGED <<bluez, sleep, watch, pc, driver, told, heard>>

HelperDies ==
  /\ Fault /\ Runs /\ helper \in {"init", "early", "ready"} /\ helper' = "gone" /\ told' = TRUE
  /\ UNCHANGED <<bluez, sleep, watch, pc, driver, heard>>

(* READY counts as the first line only; without it 5 s go by.              *)
Start ==
  /\ Runs /\ pc = "starting"
  /\ \/ helper = "ready" /\ Goto("status")
     \/ helper \in {"early", "gone"} /\ EndSession
  /\ UNCHANGED <<bluez, sleep, watch, faults>>

Status ==                                            \* GET_STATUS, whatever comes of it
  /\ Runs /\ pc = "status" /\ pc' = "challenge"
  /\ \/ heard' = (link = "up" /\ ~told) /\ UNCHANGED faults
     \/ heard' = FALSE /\ Fault
  /\ UNCHANGED <<bluez, sleep, watch, driver, helper, told>>

(* An error after an answered GET_STATUS passes for old firmware.          *)
Challenge ==
  /\ Runs /\ pc = "challenge"
  /\ \/ (~Paired \/ heard \/ (link = "up" /\ ~told)) /\ Goto("serve") /\ UNCHANGED faults
     \/ Paired /\ ~heard /\ (link # "up" \/ told) /\ EndSession /\ UNCHANGED faults
     \/ Paired /\ ~heard /\ EndSession /\ Fault
  /\ UNCHANGED <<bluez, sleep, watch>>

Disconnected ==
  /\ Runs /\ pc = "serve" /\ told /\ EndSession
  /\ UNCHANGED <<bluez, sleep, watch, faults>>

Backoff ==                                           \* 1 s to the ceiling, then wait
  /\ Runs /\ pc = "backoff" /\ Goto("wait")
  /\ UNCHANGED <<bluez, sleep, watch, faults>>

-----------------------------------------------------------------------------
(* wait_for_device_connected: a first look, then connect_driver against    *)
(* the watcher of BlueZ's events.                                          *)

Waits(d) == Runs /\ pc = "wait" /\ driver = d
Drive(d) == driver' = d /\ UNCHANGED <<pc, helper, told, heard>>
Found == pc' = "find" /\ driver' = "quick" /\ UNCHANGED <<helper, told, heard>>

Quick ==
  /\ Waits("quick") /\ (IF Ready THEN Found ELSE Drive("look"))
  /\ UNCHANGED <<bluez, sleep, watch, faults>>

Watch ==                                             \* or the stream breaks: no device
  /\ Runs /\ pc = "wait" /\ driver # "quick" /\ Found
  /\ \/ Ready /\ UNCHANGED faults
     \/ Fault
  /\ UNCHANGED <<bluez, sleep, watch>>

Look ==                                              \* while is_suspending
  /\ Waits("look") /\ Drive(IF suspending THEN "held" ELSE "check")
  /\ UNCHANGED <<bluez, sleep, watch, faults>>

Kicked(next) == kick /\ kick' = FALSE /\ Drive(next)

(* (mutation: `if is_suspending` instead of `while`)                       *)
HeldOnce ==
  /\ Waits("held") /\ Kicked("check")
  /\ UNCHANGED <<bluez, sleep, monitor, suspending, quiet, caught, faults>>

Held ==
  /\ Waits("held") /\ Kicked("look")
  /\ UNCHANGED <<bluez, sleep, monitor, suspending, quiet, caught, faults>>

Check ==
  /\ Waits("check") /\ (IF Ready THEN Found ELSE Drive("dial"))
  /\ UNCHANGED <<bluez, sleep, watch, faults>>

Dial ==                                              \* try_active_connect: Connect()
  /\ Waits("dial")
  /\ CASE Ready            -> Found /\ UNCHANGED link
       [] link = "pending" -> Drive("unsure") /\ UNCHANGED link        \* In Progress
       [] link = "down"    -> Drive("calling") /\ link' = "pending"
       [] OTHER            -> Drive("calling") /\ UNCHANGED link
  /\ UNCHANGED <<near, resolved, sleep, watch, faults>>

Called ==                                            \* Connect() returns
  /\ Waits("calling") /\ link = "up" /\ Drive("settle")
  /\ UNCHANGED <<bluez, sleep, watch, faults>>

CallFails ==                                         \* an error, or 12 s
  /\ Waits("calling") /\ Drive("unsure")
  /\ UNCHANGED <<bluez, sleep, watch, faults>>

Settle ==                                            \* resolved, or 5 s are over
  /\ Waits("settle") /\ (IF link = "up" THEN Found ELSE Drive("pause"))
  /\ UNCHANGED <<bluez, sleep, watch, faults>>

(* cancel_connect_on: is_connected, then Disconnect.                       *)
Unsure ==
  /\ Waits("unsure") /\ Drive(IF link = "up" THEN "pause" ELSE "hangup")
  /\ UNCHANGED <<bluez, sleep, watch, faults>>

HangUp ==
  /\ Waits("hangup") /\ driver' = "pause" /\ Unlink
  /\ UNCHANGED <<near, sleep, watch, pc, helper, heard, faults>>

HangUpLate ==                                        \* 2 s are over
  /\ Fault /\ Waits("hangup") /\ Drive("pause")
  /\ UNCHANGED <<bluez, sleep, watch>>

Pause ==                                             \* the burst or the decayed interval
  /\ Waits("pause")
  /\ \/ Drive("look") /\ UNCHANGED kick
     \/ Kicked("look")
  /\ UNCHANGED <<bluez, sleep, monitor, suspending, quiet, caught, faults>>

-----------------------------------------------------------------------------
World == Arrive \/ Leave \/ Drop \/ Establish \/ Rebind \/ Resolve \/ Prepare \/ Sleep \/ Wake
Monitor == Hear \/ CancelLook \/ CancelCut \/ CancelLate \/ StreamEnds \/ Resubscribe
Helper == HelperReady \/ HelperEarly \/ HelperDies
Session == Find \/ Discover \/ Start \/ Status \/ Challenge \/ Disconnected \/ Backoff
Wait == Quick \/ Watch \/ Look \/ Held \/ Check \/ Dial \/ Called \/ CallFails \/ Settle
        \/ Unsure \/ HangUp \/ HangUpLate \/ Pause

Next == World \/ Monitor \/ Helper \/ Session \/ Wait

Spec == Init /\ [][Next]_vars

(* The runtime polls the daemon's tasks, timers and calls to BlueZ end,    *)
(* BlueZ resolves services, the helper gets ready, and a device in reach   *)
(* answers one of the Connect() calls made to it.                          *)
Fairness ==
  /\ WF_vars(Hear) /\ WF_vars(CancelLook) /\ WF_vars(CancelCut) /\ WF_vars(Resubscribe)
  /\ WF_vars(HelperReady) /\ WF_vars(Session)
  /\ WF_vars(Quick \/ Look \/ Held \/ Check \/ Dial \/ Called \/ CallFails \/ Settle
             \/ Unsure \/ HangUp \/ Pause)
  /\ WF_vars(Resolve) /\ SF_vars(Answered)

FairSpec == Spec /\ Fairness

-----------------------------------------------------------------------------
Drivers == {"quick", "look", "held", "check", "dial", "calling", "settle", "unsure",
            "hangup", "pause"}

Places ==
  /\ link \in {"down", "pending", "up"} /\ host \in {"awake", "preparing", "asleep"}
  /\ monitor \in {"listen", "look", "cut", "deaf"}
  /\ pc \in {"find", "discover", "starting", "status", "challenge", "serve", "backoff", "wait"}
  /\ driver \in Drivers /\ caught \in Drivers
  /\ helper \in {"none", "init", "early", "ready", "gone"}

Flags ==
  /\ near \in BOOLEAN /\ resolved \in BOOLEAN /\ suspending \in BOOLEAN /\ kick \in BOOLEAN
  /\ told \in BOOLEAN /\ heard \in BOOLEAN /\ quiet \in BOOLEAN

Counts == signals \in Seq(BOOLEAN) /\ faults \in 0..MaxFaults

Lifetimes ==
  /\ helper = "none" <=> pc \in {"find", "discover", "backoff", "wait"}
  /\ pc \in {"status", "challenge", "serve"} => helper \in {"ready", "gone"}
  /\ told => helper \in {"ready", "gone"}
  /\ resolved => link = "up"
  /\ pc # "wait" => driver = "quick"

(* Types; a helper lives only in a session that has started one, serves    *)
(* only once it has been ready, and a session without one has no news.     *)
TypeOK == Places /\ Flags /\ Counts /\ Lifetimes

Raced == caught \in {"check", "dial"}

(* ble.rs:267-281, suspend.rs:6-15: no create-connection is carried into a *)
(* sleep the monitor has heard of and cancelled for, whatever the driver   *)
(* was doing and whatever kick of an earlier resume is still stored; save  *)
(* when the flag went up between the driver's look at it and its call.     *)
QuietSleep == host = "asleep" /\ quiet /\ ~Raced => link # "pending"

(* ble.rs:607-612, 813-826: a session of a paired host that serves over a  *)
(* link it has lost has been told so, though the helper may have           *)
(* subscribed too late to see the loss: then GET_STATUS and the challenge  *)
(* both fail, and the session ends before it serves.                       *)
LostLinkIsTold == Paired /\ pc = "serve" /\ link # "up" => told

(* suspend.rs:16 and ble.rs:233: once the device stays in reach of a host  *)
(* that stays awake, a session comes up over a live link and stays,        *)
(* however links, helpers, buses and sleeps came and went before; save     *)
(* where the bus broke in a sleep and the signal of its end is lost.       *)
Stuck == suspending /\ signals = <<>>
Served == pc = "serve" /\ link = "up"
Reconnects == <>[](near /\ host = "awake" /\ ~Stuck) => <>[]Served

(* suspend.rs:22, "D-Bus connection retries on disconnect": the same       *)
(* without that exception.  The new stream does not set the flag anew.     *)
AlwaysReconnects == <>[](near /\ host = "awake") => <>[]Served

(* What ble.rs:267 says, "suspend window: no connects at all": no          *)
(* create-connection starts while is_suspending is set.  The driver's      *)
(* check and call are not one step.                                        *)
NoConnectInSuspend == [][link # "pending" /\ link' = "pending" => ~suspending]_vars

=============================================================================
