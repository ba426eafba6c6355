----------------------------- MODULE GateWorker -----------------------------
(***************************************************************************)
(* The single BLE worker of immurok-daemon and the requests that meet in   *)
(* its command queue.                                                      *)
(*                                                                         *)
(* Every socket handler that needs the device sends a BleCommand carrying  *)
(* a oneshot reply channel down one bounded mpsc queue; one worker takes   *)
(* the commands in order and serves each to its end.  A fingerprint-gated  *)
(* command parks the worker until the user touches the sensor, so a cancel *)
(* cannot travel by the queue: it goes through a tokio Notify, which keeps *)
(* at most one permit when nobody is waiting.                              *)
(*                                                                         *)
(* The device is the environment: it answers, late or never, and resolves  *)
(* a gate by a match, a mismatch or its own timeout.  The queue and the    *)
(* two Notify permits outlive a BLE session; everything else of the worker *)
(* is created afresh with it.                                              *)
(***************************************************************************)
EXTENDS Naturals, Sequences

CONSTANTS
  Clients,      \* connection handlers; each serves one request at a time
  None,         \* nobody: a command whose reply channel has been dropped
  Kinds,        \* the requests the clients of this instance make
  QueueCap,     \* capacity of the BleCommand channel (main.rs: 32)
  MaxFailures,  \* FP_GATE_MAX_FAILURES
  MaxAir,       \* bound: notifications in flight between device and worker
  Marks,        \* TRUE: keep the history marks AnswersMatch needs
  CancelAnswered, \* TRUE: the firmware answers GATE_CANCEL with a frame
  Reliable      \* TRUE: with the link up every write lands and is answered
                \* before the worker's deadline; FALSE: either may fail

AllKinds == {"plain", "keep", "enroll", "sign", "auth", "gateCancel", "enrollCancel"}

ASSUME ConstantsAssumption ==
  /\ None \notin Clients \cup {"ok", "err", "fail"}
  /\ Kinds \subseteq AllKinds
  /\ QueueCap \in Nat \ {0}
  /\ MaxFailures \in Nat \ {0}
  /\ MaxAir \in Nat \ {0}
  /\ Reliable \in BOOLEAN /\ Marks \in BOOLEAN /\ CancelAnswered \in BOOLEAN

\* FP-gated commands: "enroll" stands for ENROLL_START and DELETE_FP, "sign"
\* for KEY_SIGN, "keep" for those whose handler does not watch its socket
\* (FP:VERIFY, SLOT:CLEAR of the other slot, FACTORY_RESET, the KEY:* ones).
Gated == {"enroll", "sign", "keep"}
Touch == Gated \cup {"auth"}

\* First byte of a notification: RSP_OK, RSP_WAIT_FP, RSP_FP_GATE_APPROVED,
\* RSP_ERR_FP_NOT_MATCH, and the errors (0x06, 0xFE, 0xFF).
Codes == {"ok", "wait", "appr", "miss", "err"}

Phases == {"down", "idle", "await", "gate", "auth", "cancel"}

Cmds  == [kind : AllKinds, who : Clients \cup {None}]
NoCmd == [kind |-> "none", who |-> None]

\* fresh is a history mark: FALSE once the worker has moved on to another
\* command, or when the frame answers no queued command at all.
Frames == [code : Codes, fresh : BOOLEAN]

VARIABLES
  st,           \* client -> "idle" | "sending" (queue full) | "waiting"
  kind,         \* client -> the request it is making
  reply,        \* client -> what its oneshot holds: None | "ok" | "err"
  queue,        \* the BleCommand channel
  cur,          \* the command the worker is serving
  phase,        \* where the worker is parked
  rsp,          \* BleState.pending_response: "off" | "armed" | a code
  gatePending,  \* BleState.gate_pending
  authPending,  \* BleState.auth_pending
  verdict,      \* what gate_tx / auth_tx has sent: None | "ok" | "fail"
  failures,     \* BleState.auth_failures
  gateActive,   \* Coordinator.gate_active
  gatePermit,   \* permit stored in Coordinator.gate_cancel
  authPermit,   \* permit stored in Coordinator.auth_dialog_cancel
  link,         \* the BLE connection is up
  armed,        \* the device's fingerprint gate is armed
  tries,        \* mismatches the device has counted for that gate
  air,          \* notifications sent by the device, not yet routed
  mixed         \* history: a command was resolved by a frame of another

clientVars == <<st, kind, reply>>
workerVars == <<cur, phase, rsp, gatePending, authPending, verdict, failures>>
cancelVars == <<gateActive, gatePermit, authPermit>>
deviceVars == <<armed, tries>>
vars == <<clientVars, queue, workerVars, cancelVars, link, deviceVars, air, mixed>>

TypeOK ==
  /\ st \in [Clients -> {"idle", "sending", "waiting"}]
  /\ kind \in [Clients -> AllKinds]
  /\ reply \in [Clients -> {None, "ok", "err"}]
  /\ queue \in Seq(Cmds) /\ Len(queue) <= QueueCap
  /\ cur \in Cmds \cup {NoCmd}
  /\ phase \in Phases
  /\ rsp \in {"off", "armed"} \cup Codes
  /\ gatePending \in BOOLEAN /\ authPending \in BOOLEAN
  /\ verdict \in {None, "ok", "fail"}
  /\ failures \in 0..MaxFailures
  /\ gateActive \in BOOLEAN /\ gatePermit \in BOOLEAN /\ authPermit \in BOOLEAN
  /\ link \in BOOLEAN /\ armed \in BOOLEAN /\ mixed \in BOOLEAN
  /\ tries \in 0..MaxFailures
  /\ air \in Seq(Frames)

Init ==
  /\ st = [c \in Clients |-> "idle"]
  /\ kind \in [Clients -> {"plain"}]
  /\ reply = [c \in Clients |-> None]
  /\ queue = <<>> /\ cur = NoCmd
  /\ phase = "down" /\ rsp = "off"
  /\ gatePending = FALSE /\ authPending = FALSE /\ verdict = None /\ failures = 0
  /\ gateActive = FALSE /\ gatePermit = FALSE /\ authPermit = FALSE
  /\ link = FALSE /\ armed = FALSE /\ tries = 0 /\ air = <<>> /\ mixed = FALSE

-----------------------------------------------------------------------------
(* Socket handlers *)

\* A handler that found is_connected set sends its BleCommand.  FP:ENROLL_CANCEL
\* first wakes a parked gate, then queues ENROLL_CANCEL either way.
Request(c, k) ==
  /\ st[c] = "idle" /\ phase # "down"
  /\ k # "gateCancel" \/ ~gateActive
  /\ st' = [st EXCEPT ![c] = "sending"]
  /\ kind' = [kind EXCEPT ![c] = k]
  /\ gatePermit' = (gatePermit \/ (k = "enrollCancel" /\ gateActive))
  /\ UNCHANGED <<reply, queue, workerVars, gateActive, authPermit, link, deviceVars, air, mixed>>

\* GATE:CANCEL while a gate runs: notify the worker and send nothing.
CancelActiveGate(c) ==
  /\ st[c] = "idle" /\ phase # "down" /\ "gateCancel" \in Kinds
  /\ gateActive
  /\ gatePermit' = TRUE
  /\ UNCHANGED <<clientVars, queue, workerVars, gateActive, authPermit, link, deviceVars, air, mixed>>

\* (mutation: an unbounded channel)
NoLimit == TRUE
HasRoom == Len(queue) < QueueCap

Enqueue(c) ==
  /\ st[c] = "sending" /\ HasRoom
  /\ queue' = Append(queue, [kind |-> kind[c], who |-> c])
  /\ st' = [st EXCEPT ![c] = "waiting"]
  /\ UNCHANGED <<kind, reply, workerVars, cancelVars, link, deviceVars, air, mixed>>

TakeReply(c) ==
  /\ st[c] = "waiting" /\ reply[c] # None
  /\ st' = [st EXCEPT ![c] = "idle"]
  /\ kind' = [kind EXCEPT ![c] = "plain"]
  /\ reply' = [reply EXCEPT ![c] = None]
  /\ UNCHANGED <<queue, workerVars, cancelVars, link, deviceVars, air, mixed>>

\* The handler stops waiting: its oneshot receiver is dropped, the command it
\* queued is not.
Disown(cmd, c) == IF cmd.who = c THEN [cmd EXCEPT !.who = None] ELSE cmd

Abandon(c) ==
  /\ st[c] # "idle"
  /\ st' = [st EXCEPT ![c] = "idle"]
  /\ kind' = [kind EXCEPT ![c] = "plain"]
  /\ reply' = [reply EXCEPT ![c] = None]
  /\ queue' = [i \in 1..Len(queue) |-> Disown(queue[i], c)]
  /\ cur' = Disown(cur, c)
  /\ UNCHANGED <<phase, rsp, gatePending, authPending, verdict, failures,
                 gateActive, link, deviceVars, air, mixed>>

\* The peer of ENROLL, DELETE or an ssh signature closes its socket.
HangUp(c) ==
  /\ kind[c] \in {"enroll", "sign"}
  /\ Abandon(c)
  /\ gatePermit' = TRUE
  /\ UNCHANGED authPermit

\* AUTH or AGENT_APPROVE ends by Cancel, socket close or the 35 s limit.
AuthCancel(c) ==
  /\ kind[c] = "auth"
  /\ Abandon(c)
  /\ authPermit' = TRUE
  /\ UNCHANGED gatePermit

\* The 50 s deadline of an ssh signature drops the gated future, nothing else.
SignDeadline(c) ==
  /\ kind[c] = "sign"
  /\ Abandon(c)
  /\ UNCHANGED <<gatePermit, authPermit>>

\* A signed match routed outside any gate or auth wait approves AUTH through
\* the pending slot; the AuthRequest it had queued stays behind.
MatchApproves(c) ==
  /\ kind[c] = "auth" /\ phase \in {"idle", "await", "gate", "auth"}
  /\ ~gatePending /\ ~authPending
  /\ Abandon(c)
  /\ UNCHANGED <<gatePermit, authPermit>>

-----------------------------------------------------------------------------
(* The device: what the worker's handlers expect of the firmware.          *)

Sent(f, c) == Append(f, [code |-> c, fresh |-> TRUE])
Aged(f) == IF Marks THEN [i \in 1..Len(f) |-> [f[i] EXCEPT !.fresh = FALSE]] ELSE f

\* The device receives a command and answers at once, or not at all; whatever
\* was still in flight answers something earlier.
DeviceTakes(k) ==
  /\ \/ /\ k \in {"plain", "gateCancel", "enrollCancel"}
        /\ armed' = (armed /\ k = "plain")
        /\ \E c \in {"ok", "err"} : air' = Sent(Aged(air), c)
        /\ tries' = IF armed' THEN tries ELSE 0
     \/ /\ k \in Touch                          \* touch needed
        /\ armed' = TRUE /\ tries' = 0
        /\ air' = Sent(Aged(air), "wait")
     \/ /\ k \in Touch                          \* ran at once, or refused
        /\ \E c \in {"ok", "err"} : air' = Sent(Aged(air), c)
        /\ UNCHANGED <<armed, tries>>
     \/ /\ k \in Gated                          \* cooldown: approved, result follows
        /\ \E c \in {"ok", "err"} : air' = Sent(Sent(Aged(air), "appr"), c)
        /\ UNCHANGED <<armed, tries>>
     \/ /\ ~Reliable                            \* the answer never comes
        /\ armed' = (k \in Touch \/ (armed /\ k = "plain"))
        /\ tries' = IF k = "plain" THEN tries ELSE 0
        /\ air' = Aged(air)
  /\ Len(air') <= MaxAir

TouchMatch ==
  /\ armed /\ link
  /\ armed' = FALSE
  /\ \/ \E c \in {"ok", "err"} : air' = Sent(Sent(air, "appr"), c)
     \/ air' = Sent(air, "ok")
  /\ Len(air') <= MaxAir
  /\ tries' = 0
  /\ UNCHANGED <<clientVars, queue, workerVars, cancelVars, link, mixed>>

TouchMiss ==
  /\ armed /\ link /\ Len(air) < MaxAir
  /\ armed' = (tries + 1 < MaxFailures)
  /\ tries' = IF armed' THEN tries + 1 ELSE 0
  /\ air' = Sent(air, "miss")
  /\ UNCHANGED <<clientVars, queue, workerVars, cancelVars, link, mixed>>

\* The device's own gate timeout (25 s, before the worker's 30 s).
DeviceTimeout ==
  /\ armed /\ link /\ Len(air) < MaxAir
  /\ armed' = FALSE /\ tries' = 0
  /\ air' = Sent(air, "err")
  /\ UNCHANGED <<clientVars, queue, workerVars, cancelVars, link, mixed>>

LinkLost ==
  /\ link /\ link' = FALSE
  /\ armed' = FALSE /\ tries' = 0
  /\ UNCHANGED <<clientVars, queue, workerVars, cancelVars, air, mixed>>

-----------------------------------------------------------------------------
(* The worker *)

\* oneshot send: nobody is told when the receiver has been dropped.
\* (mutation: the error path returns without answering)
AnswerOkOnly(cmd, r) ==
  reply' = IF cmd.who = None \/ r = "err" THEN reply ELSE [reply EXCEPT ![cmd.who] = r]
Answer(cmd, r) ==
  reply' = IF cmd.who = None THEN reply ELSE [reply EXCEPT ![cmd.who] = r]

Finish(r) ==
  /\ Answer(cur, r)
  /\ cur' = NoCmd /\ phase' = "idle"

\* The main loop takes the next command; send_command_inner arms a fresh
\* pending_response and writes the request.
TakeCommand ==
  /\ phase = "idle" /\ queue # <<>> /\ link
  /\ cur' = Head(queue) /\ queue' = Tail(queue)
  /\ phase' = "await" /\ rsp' = "armed"
  /\ DeviceTakes(Head(queue).kind)
  /\ UNCHANGED <<clientVars, gatePending, authPending, verdict, failures,
                 cancelVars, link, mixed>>

\* The write fails and the command ends with its error at once; the response
\* slot it leaves armed has lost its receiver, so it counts as off.
TakeCommandFails ==
  /\ phase = "idle" /\ queue # <<>> /\ (Reliable => ~link)
  /\ Answer(Head(queue), "err")
  /\ queue' = Tail(queue)
  /\ UNCHANGED <<st, kind, workerVars, cancelVars, link, deviceVars, air, mixed>>

AnswerArrived ==
  /\ phase = "await" /\ rsp \in Codes
  /\ rsp' = "off"
  /\ \/ /\ cur.kind \in Gated /\ rsp \in {"wait", "appr"}
        /\ phase' = "gate" /\ gatePending' = TRUE
        /\ verdict' = None /\ failures' = 0 /\ gateActive' = TRUE
        /\ UNCHANGED <<reply, cur, authPending>>
     \/ /\ cur.kind = "auth" /\ rsp = "wait"
        /\ phase' = "auth" /\ authPending' = TRUE
        /\ verdict' = None /\ failures' = 0
        /\ UNCHANGED <<reply, cur, gatePending, gateActive>>
     \/ /\ \/ cur.kind \notin Touch
           \/ cur.kind \in Gated /\ rsp \notin {"wait", "appr"}
           \/ cur.kind = "auth" /\ rsp # "wait"
        /\ Finish(IF rsp = "ok" \/ cur.kind \notin Touch THEN "ok" ELSE "err")
        /\ UNCHANGED <<gatePending, authPending, verdict, failures, gateActive>>
  /\ UNCHANGED <<st, kind, queue, gatePermit, authPermit, link, deviceVars, air, mixed>>

\* BLE_COMMAND_TIMEOUT_SECS: forget the pending response, fail the command.
\* (mutations: the slot stays armed; a dead link is waited out for ever)
KeepResponse   == rsp' = rsp
ForgetResponse == rsp' = "off"
LiveDeadline   == phase = "await" /\ link /\ ~Reliable
AnswerDeadline == phase = "await" /\ (Reliable => ~link /\ air = <<>>)

AnswerTimeout ==
  /\ AnswerDeadline
  /\ ForgetResponse
  /\ Finish("err")
  /\ UNCHANGED <<st, kind, queue, gatePending, authPending, verdict, failures,
                 cancelVars, link, deviceVars, air, mixed>>

\* The wait loop finds the oneshot resolved by route_notification.
VerdictArrived ==
  /\ phase \in {"gate", "auth"} /\ verdict # None
  /\ Finish(IF verdict = "ok" THEN "ok" ELSE "err")
  /\ gatePending' = (gatePending /\ phase # "gate")
  /\ authPending' = (authPending /\ phase # "auth")
  /\ verdict' = None
  /\ gateActive' = FALSE
  /\ UNCHANGED <<st, kind, queue, rsp, failures, gatePermit, authPermit, link,
                 deviceVars, air, mixed>>

\* 30 s without a verdict.
WaitTimeout ==
  /\ phase \in {"gate", "auth"} /\ (Reliable => ~armed /\ air = <<>> /\ verdict = None)
  /\ gatePending' = (gatePending /\ phase # "gate")
  /\ authPending' = (authPending /\ phase # "auth")
  /\ verdict' = None
  /\ gateActive' = FALSE
  /\ Finish("err")
  /\ UNCHANGED <<st, kind, queue, rsp, failures, gatePermit, authPermit, link,
                 deviceVars, air, mixed>>

\* The wait loop consumes a cancel permit and starts writing GATE_CANCEL; the
\* gate's drop guard has not run yet.
GateCancelled ==
  /\ phase = "gate" /\ gatePermit
  /\ gatePermit' = FALSE
  /\ gatePending' = FALSE /\ verdict' = None
  /\ phase' = "cancel"
  /\ UNCHANGED <<clientVars, queue, cur, rsp, authPending, failures, gateActive,
                 authPermit, link, deviceVars, air, mixed>>

AuthCancelled ==
  /\ phase = "auth" /\ authPermit
  /\ authPermit' = FALSE
  /\ authPending' = FALSE /\ verdict' = None
  /\ phase' = "cancel"
  /\ UNCHANGED <<clientVars, queue, cur, rsp, gatePending, failures, gateActive,
                 gatePermit, link, deviceVars, air, mixed>>

\* The GATE_CANCEL write has returned; its result is ignored.
\* (mutation: the cancel never reaches the device)
CancelUnsent  == UNCHANGED <<armed, tries>>
CancelReaches == armed' = FALSE /\ tries' = 0

CancelWritten ==
  /\ phase = "cancel"
  /\ \/ /\ link /\ Len(air) < MaxAir
        /\ CancelReaches
        /\ air' = IF CancelAnswered
                  THEN Append(air, [code |-> "ok", fresh |-> ~Marks]) ELSE air
     \/ /\ Reliable => ~link
        /\ UNCHANGED <<armed, tries, air>>
  /\ gateActive' = FALSE
  /\ Finish("err")
  /\ UNCHANGED <<st, kind, queue, rsp, gatePending, authPending, verdict, failures,
                 gatePermit, authPermit, link, mixed>>

-----------------------------------------------------------------------------
(* route_notification: run by whichever select loop the worker is in.      *)

Routing(code) ==
  /\ phase \in {"idle", "await", "gate", "auth"}
  /\ air # <<>> /\ Head(air).code = code
  /\ air' = Tail(air)

\* gate_pending is looked at before auth_pending.
Resolve(v) ==
  /\ verdict' = v
  /\ gatePending' = FALSE
  /\ authPending' = (authPending /\ gatePending)
  /\ mixed' = (mixed \/ ~Head(air).fresh)

\* FP_GATE_MAX_FAILURES.saturating_sub(auth_failures) = 0 after this mismatch.
\* (mutations: one mismatch too many, one too few)
LateLimit   == failures >= MaxFailures
EarlyLimit  == failures + 2 >= MaxFailures
LastFailure == failures + 1 >= MaxFailures

RouteMismatch ==
  /\ Routing("miss") /\ (gatePending \/ authPending)
  /\ failures' = failures + 1
  /\ IF LastFailure
     THEN Resolve("fail")
     ELSE UNCHANGED <<gatePending, authPending, verdict, mixed>>
  /\ UNCHANGED <<clientVars, queue, cur, phase, rsp, cancelVars, link, deviceVars>>

RouteOk ==
  /\ Routing("ok") /\ (gatePending \/ authPending)
  /\ Resolve("ok")
  /\ UNCHANGED <<clientVars, queue, cur, phase, rsp, failures, cancelVars, link, deviceVars>>

RouteError ==
  /\ Routing("err") /\ (gatePending \/ authPending)
  /\ Resolve("fail")
  /\ UNCHANGED <<clientVars, queue, cur, phase, rsp, failures, cancelVars, link, deviceVars>>

\* Approved inside a gate: swallowed, the result follows.
RouteApproved ==
  /\ Routing("appr") /\ gatePending
  /\ UNCHANGED <<clientVars, queue, workerVars, cancelVars, link, deviceVars, mixed>>

\* Everything else answers the pending command, or nobody.
RouteResponse ==
  /\ \E code \in Codes :
       /\ Routing(code)
       /\ code \in {"miss", "ok", "err"} => ~gatePending /\ ~authPending
       /\ code = "appr" => ~gatePending
       /\ rsp' = IF rsp = "armed" THEN code ELSE rsp
  /\ mixed' = (mixed \/ (rsp = "armed" /\ ~Head(air).fresh))
  /\ UNCHANGED <<clientVars, queue, cur, phase, gatePending, authPending, verdict,
                 failures, cancelVars, link, deviceVars>>

-----------------------------------------------------------------------------
(* BLE sessions *)

\* connect_and_serve up to its main loop; the device gets no gated command
\* there, so the session's own exchanges are left out.
Connect ==
  /\ phase = "down"
  /\ phase' = "idle" /\ link' = TRUE
  /\ rsp' = "off" /\ gatePending' = FALSE /\ authPending' = FALSE
  /\ verdict' = None /\ failures' = 0
  /\ air' = <<>>
  /\ UNCHANGED <<clientVars, queue, cur, cancelVars, deviceVars, mixed>>

\* DISCONNECT is noticed by the main loop only: abort_pending, then the
\* session's state is dropped and run() clears is_connected.
SessionEnds ==
  /\ phase = "idle" /\ ~link
  /\ phase' = "down"
  /\ rsp' = "off" /\ gatePending' = FALSE /\ authPending' = FALSE
  /\ verdict' = None /\ air' = <<>>
  /\ UNCHANGED <<clientVars, queue, cur, failures, cancelVars, link, deviceVars, mixed>>

Worker ==
  \/ TakeCommand \/ TakeCommandFails \/ AnswerArrived \/ AnswerTimeout
  \/ VerdictArrived \/ WaitTimeout \/ GateCancelled \/ AuthCancelled \/ CancelWritten
  \/ RouteMismatch \/ RouteOk \/ RouteError \/ RouteApproved \/ RouteResponse
  \/ SessionEnds

Handler(c) ==
  \/ \E k \in Kinds : Request(c, k)
  \/ CancelActiveGate(c)
  \/ Enqueue(c) \/ TakeReply(c)
  \/ HangUp(c) \/ AuthCancel(c) \/ SignDeadline(c) \/ MatchApproves(c)

Device == TouchMatch \/ TouchMiss \/ DeviceTimeout

Next ==
  \/ \E c \in Clients : Handler(c)
  \/ Worker
  \/ Device
  \/ LinkLost
  \/ Connect

\* The runtime keeps polling the worker and every handler; tokio hands channel
\* slots to blocked senders in order (strong fairness of Enqueue) and select!
\* draws among the ready branches of the main loop (strong fairness of taking a
\* command); the device's gate times out by itself.  Requests, touches, hang-ups,
\* the loss of the link and the device's return are nobody's duty.
Fairness ==
  /\ WF_vars(Worker)
  /\ SF_vars(TakeCommand \/ TakeCommandFails)
  /\ WF_vars(DeviceTimeout)
  /\ \A c \in Clients : SF_vars(Enqueue(c)) /\ WF_vars(TakeReply(c))

Spec     == Init /\ [][Next]_vars
FairSpec == Spec /\ Fairness

-----------------------------------------------------------------------------
(* Properties *)

\* No command is lost and none is answered twice: a waiting handler's command
\* is in exactly one place - queued once, being served, or answered - and a
\* handler that is not waiting owns nothing.  (mpsc + oneshot, handle_ble_command)
Queued(c) == {i \in 1..Len(queue) : queue[i].who = c}

OneReply ==
  \A c \in Clients :
    IF st[c] = "waiting"
    THEN \/ reply[c] # None /\ cur.who # c /\ Queued(c) = {}
         \/ reply[c] = None /\ cur.who = c /\ Queued(c) = {}
         \/ reply[c] = None /\ cur.who # c /\ \E i \in Queued(c) : Queued(c) = {i}
    ELSE reply[c] = None /\ cur.who # c /\ Queued(c) = {}

\* A notification can resolve a wait only while the worker is in that wait:
\* the BleState slots, gate_active and the command in hand are exactly as the
\* worker's position says, whatever exit the previous wait took.
\* (send_command_inner, send_fp_gated_inner, do_auth_request)
WaitsMatchPhase ==
  /\ rsp # "off" => phase = "await"
  /\ gatePending <=> phase = "gate" /\ verdict = None
  /\ authPending <=> phase = "auth" /\ verdict = None
  /\ verdict # None => phase \in {"gate", "auth"}
  /\ gateActive <=> \/ phase = "gate"
                    \/ phase = "cancel" /\ cur.kind \in Gated
  /\ cur = NoCmd <=> phase \in {"idle", "down"}
  /\ phase = "gate" => cur.kind \in Gated
  /\ phase = "auth" => cur.kind = "auth"
  /\ phase = "cancel" => cur.kind \in Touch

\* A wait that can still be resolved has mismatches left to spend: the counter
\* shared by gates and AUTH never reaches its limit with the wait still open.
FailureBudget ==
  gatePending \/ authPending => failures < MaxFailures

\* A command is resolved by frames that answer it, never by a leftover.
AnswersMatch == ~mixed

\* As long as no frame was taken for another's, the device's gate never
\* outlives the command that armed it, whichever way that command ended: the
\* next touch cannot run an operation nobody waits for.  (GATE_CANCEL written by
\* every cancel exit; needs Reliable)
IdleDisarmed ==
  AnswersMatch /\ phase = "idle" /\ link => ~armed

\* coordinator.rs:176 - gate_active holds while there IS a waiter on gate_cancel.
GateActiveMeansWaiter == gateActive => phase = "gate"

\* coordinator.rs:178 - no permit is stored for a gate that does not exist.
NoStoredPermit == gatePermit => gateActive

\* socket.rs:903 - when the peer of a gated command has gone, the gate it left
\* behind is being cancelled.
OrphanGateIsCancelled ==
  phase = "gate" /\ cur.kind = "enroll" /\ cur.who = None /\ verdict = None => gatePermit

\* socket.rs:1371 - the permit of a cancelled AUTH reaches the in-flight AuthRequest:
\* it never meets the AUTH of somebody who is still waiting.
CancelSparesOthers == phase = "auth" /\ authPermit => cur.who = None

\* Every accepted request ends, provided sessions keep coming back.
RequestsEnd ==
  []<>(phase # "down") => \A c \in Clients : st[c] # "idle" ~> st[c] = "idle"
=============================================================================
