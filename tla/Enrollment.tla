----------------------------- MODULE Enrollment -----------------------------
(***************************************************************************)
(* Enrolling and deleting fingers: the desktop's guided dialog            *)
(* (client/enroll_session.rs, gui/enroll_dialog.rs), the terminal          *)
(* interface (App::action_enroll) and `immurok-cli fp`, over the handlers  *)
(* FP:ENROLL, FP:ENROLL_CANCEL, FP:STATUS, FP:LIST and FP:DELETE.          *)
(*                                                                         *)
(* FP:ENROLL returns once capture has begun; after that the daemon only    *)
(* keeps the last progress notification, which carries no slot, and the    *)
(* clients poll it.  The worker serves its queue in order and waits at the *)
(* head for the touch that authorises a gated command; GateWorker has that *)
(* wait in full.  The device is external.                                  *)
(***************************************************************************)
EXTENDS Naturals, Sequences

CONSTANTS
  Clients,   \* programs; each runs one operation at a time
  Kind,      \* client -> "gui" | "tui" | "cli"
  Slots,     \* fingerprint slots the users enrol and delete
  Kept,      \* slots whose fingers, if any, stay
  Ops,       \* what the users of this instance do: "enroll", "delete"
  HangUps,   \* whether clients may exit, or give up their socket
  Drops,     \* whether the link may be lost
  MaxAir,    \* bound: notifications on their way to the daemon
  MaxJobs,   \* bound: jobs queued for the worker
  None       \* nobody, nothing

ASSUME EnrollmentAssumption ==
  /\ None \notin Clients /\ None \notin {"ok", "error", "complete", "failed"}
  /\ Slots \subseteq Nat /\ Kept \subseteq Nat
  /\ Kind \in [Clients -> {"gui", "tui", "cli"}]
  /\ MaxAir \in Nat \ {0} /\ MaxJobs \in Nat \ {0}
  /\ Ops \subseteq {"enroll", "delete"} /\ HangUps \in BOOLEAN /\ Drops \in BOOLEAN

VARIABLES
  link,      \* is_connected
  fingers,   \* slots with a finger on the device
  armed,     \* the gated command the device holds until a touch, or None
  capture,   \* the enrolment the device is capturing: slot, for whom
  air,       \* the device's notifications, oldest first
  last,      \* last_enroll_event
  bitmap,    \* device_status.fp_bitmap
  stale,     \* fp_bitmap_stale
  queue,     \* the worker's jobs, the head being served
  gating,    \* gate_active: the head job waits for its touch
  permit,    \* permit stored in gate_cancel
  pc, op, slot,  \* client -> where it is, its operation, its slot
  reply,     \* client -> answer of its handler's job, or None
  found,     \* client -> the bitmap in the answer of a list job
  result,    \* client -> what it told its user
  cancelled, \* client -> the user pressed Cancel
  thread,    \* client -> the cancel of its button is still to be sent
  own,       \* history: the device completed this client's capture
  solo,      \* history: its enrolment began at rest, on a free slot, alone
  known      \* history: it was told its capture began, or its cancel came after FP:ENROLL

deviceVars == <<link, fingers, armed, capture, air>>
daemonVars == <<last, bitmap, stale, queue, gating, permit>>
userVars   == <<pc, op, slot, reply, found, result, cancelled, thread>>
marks      == <<own, solo, known>>
vars       == <<deviceVars, daemonVars, userVars, marks>>

Job(c, cmd) == [who |-> c, cmd |-> cmd, slot |-> slot[c]]
Set(f, c, x) == [f EXCEPT ![c] = x]
AtRest == queue = <<>> /\ air = <<>> /\ armed = None /\ capture = None

Init ==
  /\ link = TRUE /\ fingers \in {{}, Kept} /\ armed = None /\ capture = None /\ air = <<>>
  /\ last = None /\ bitmap = fingers /\ stale = FALSE /\ queue = <<>> /\ gating = FALSE
  /\ permit = FALSE
  /\ pc = [c \in Clients |-> "idle"] /\ op = [c \in Clients |-> None]
  /\ slot = [c \in Clients |-> 0]
  /\ reply = [c \in Clients |-> None] /\ found = [c \in Clients |-> {}]
  /\ result = [c \in Clients |-> None]
  /\ cancelled = [c \in Clients |-> FALSE] /\ thread = [c \in Clients |-> FALSE]
  /\ own = [c \in Clients |-> FALSE] /\ solo = [c \in Clients |-> FALSE]
  /\ known = [c \in Clients |-> FALSE]

Enqueue(job) == Len(queue) < MaxJobs /\ queue' = Append(queue, job)

\* The handler takes the answer of its job.
Taken(c) == reply[c] # None /\ reply' = Set(reply, c, None) /\ found' = Set(found, c, {})

Tells(c, what) == pc' = Set(pc, c, "told") /\ result' = Set(result, c, what)

\* The operation is over, and what was its own is gone.
Ends(c) ==
  /\ pc' = Set(pc, c, "idle") /\ slot' = Set(slot, c, 0) /\ result' = Set(result, c, None)
  /\ own' = Set(own, c, FALSE) /\ solo' = Set(solo, c, FALSE)

-----------------------------------------------------------------------------
(* Looking at the slots: FP:LIST *)

\* A bitmap that is marked stale is asked for by a job; any other is the answer.
List(c, from, to) ==
  /\ pc[c] = from /\ stale /\ link
  /\ pc' = Set(pc, c, to) /\ Enqueue([Job(c, "list") EXCEPT !.slot = 0])

\* The worker's answer, once the handler runs again.
Listed(c, from, to) ==
  /\ pc[c] = from /\ Taken(c)
  /\ pc' = Set(pc, c, to)
  /\ IF reply[c] = "error" THEN UNCHANGED <<bitmap, stale>>
     ELSE bitmap' = found[c] /\ stale' = FALSE

Load(c) ==
  /\ List(c, "idle", "list")
  /\ UNCHANGED <<deviceVars, last, bitmap, stale, gating, permit, op, slot, reply, found, result,
                 cancelled, thread, marks>>

Loaded(c) ==
  /\ Listed(c, "list", "idle")
  /\ UNCHANGED <<deviceVars, last, queue, gating, permit, op, slot, result, cancelled, thread,
                 marks>>

-----------------------------------------------------------------------------
(* Starting an operation *)

\* The desktop and the terminal interface take the lowest slot that was free when
\* they looked, which may be long ago; `fp` takes the slot it is given.
Begins(c, what, s) ==
  /\ pc[c] = "idle" /\ what \in Ops
  /\ pc' = Set(pc, c, "begin") /\ op' = Set(op, c, what) /\ slot' = Set(slot, c, s)
  /\ cancelled' = Set(cancelled, c, FALSE) /\ known' = Set(known, c, FALSE)
  /\ UNCHANGED <<deviceVars, daemonVars, reply, found, result, thread, own, solo>>

ChooseEnroll(c) == \E s \in Slots : Begins(c, "enroll", s)

ChooseDelete(c) == \E s \in Slots : Begins(c, "delete", s)

\* (mutation: the event of the enrolment before stays)
KeepEvent == UNCHANGED last
ClearEvent == last' = None

\* run_enrollment looks at the flag before FP:ENROLL is sent.
StopsBefore(c) ==
  /\ pc[c] = "begin" /\ op[c] = "enroll" /\ Kind[c] = "gui" /\ cancelled[c]
  /\ Ends(c)
  /\ UNCHANGED <<deviceVars, daemonVars, op, reply, found, cancelled, thread, known>>

\* handle_fp_enroll, up to its wait: the event is cleared before the gate.
FpEnroll(c) ==
  /\ pc[c] = "begin" /\ op[c] = "enroll"
  /\ IF link
     THEN /\ ClearEvent /\ Enqueue(Job(c, "enroll"))
          /\ pc' = Set(pc, c, "wait") /\ UNCHANGED result
     ELSE Tells(c, "failed") /\ UNCHANGED <<last, queue>>
  /\ solo' = [d \in Clients |->
                IF d # c THEN FALSE
                ELSE AtRest /\ slot[c] \notin fingers \cup bitmap
                     /\ \A e \in Clients \ {c} : pc[e] \in {"idle", "told"} /\ ~thread[e]]
  /\ UNCHANGED <<deviceVars, bitmap, stale, gating, permit, op, slot, reply, found, cancelled, thread, own,
                 known>>

FpDelete(c) ==
  /\ pc[c] = "begin" /\ op[c] = "delete"
  /\ IF link
     THEN /\ Enqueue(Job(c, "delete"))
          /\ pc' = Set(pc, c, "wait") /\ UNCHANGED result
     ELSE Tells(c, "failed") /\ UNCHANGED queue
  /\ UNCHANGED <<deviceVars, last, bitmap, stale, gating, permit, op, slot, reply, found, cancelled, thread,
                 marks>>

\* The gate is over: capture has begun, or the request failed.  A cancelled
\* dialog takes no interest in a failure.
EnrollAnswered(c) ==
  /\ pc[c] = "wait" /\ op[c] = "enroll" /\ Taken(c)
  /\ IF reply[c] = "ok" THEN pc' = Set(pc, c, "poll") /\ UNCHANGED result
     ELSE Tells(c, "failed")
  /\ known' = Set(known, c, known[c] \/ reply[c] = "ok")
  /\ UNCHANGED <<deviceVars, daemonVars, op, slot, cancelled, thread, own, solo>>

DeleteAnswered(c) ==
  /\ pc[c] = "wait" /\ op[c] = "delete" /\ Taken(c)
  /\ IF reply[c] = "ok" THEN Tells(c, "deleted") /\ stale' = TRUE
     ELSE Tells(c, "failed") /\ UNCHANGED stale
  /\ UNCHANGED <<deviceVars, last, bitmap, queue, gating, permit, op, slot, cancelled,
                 thread, marks>>

-----------------------------------------------------------------------------
(* Polling FP:STATUS, which answers whether or not a device is connected *)

\* (mutation: the flag is looked at before FP:ENROLL only)
NeverStops(c) == FALSE
Stops(c) == Kind[c] = "gui" /\ cancelled[c]

\* drive() leaves, and run_enrollment sends its own FP:ENROLL_CANCEL.
Stop(c) ==
  /\ pc[c] = "poll" /\ Stops(c)
  /\ pc' = Set(pc, c, "leave")
  /\ UNCHANGED <<deviceVars, daemonVars, op, slot, reply, found, result, cancelled, thread, marks>>

\* COMPLETE or FAILED; what is neither is shown, and the poll goes on.
Final == {"complete", "failed"}

PollEnds(c) ==
  /\ pc[c] = "poll" /\ ~Stops(c) /\ last \in Final
  /\ Tells(c, last)
  /\ UNCHANGED <<deviceVars, daemonVars, op, slot, reply, found, cancelled, thread, marks>>

\* IDLE for 3 s: the terminal interface and the desktop look at the bitmap.
PollIdle(c) ==
  /\ pc[c] = "poll" /\ ~Stops(c) /\ last = None /\ Kind[c] # "cli"
  /\ \/ link /\ ~stale /\ slot[c] \in bitmap /\ Tells(c, "complete") /\ UNCHANGED queue
     \/ List(c, "poll", "check") /\ UNCHANGED result
  /\ UNCHANGED <<deviceVars, last, bitmap, stale, gating, permit, op, slot, reply, found, cancelled,
                 thread, marks>>

PollListed(c) ==
  /\ IF reply[c] = "ok" /\ slot[c] \in found[c]
     THEN /\ pc[c] = "check" /\ Taken(c) /\ Tells(c, "complete")
          /\ bitmap' = found[c] /\ stale' = FALSE
     ELSE Listed(c, "check", "poll") /\ UNCHANGED result
  /\ UNCHANGED <<deviceVars, last, queue, gating, permit, op, slot, cancelled, thread, marks>>

\* 360 s without an end, longer than any gate, than the captures of an enrolment
\* and than a cancel takes.
Settled == AtRest /\ ~\E c \in Clients : thread[c]

PollTimeout(c) ==
  /\ pc[c] = "poll" /\ ~Stops(c) /\ Settled
  /\ last \notin Final
  /\ ~(last = None /\ link /\ Kind[c] # "cli" /\ (stale \/ slot[c] \in bitmap))
  /\ Tells(c, "timeout")
  /\ UNCHANGED <<deviceVars, daemonVars, op, slot, reply, found, cancelled, thread, marks>>

Polls(c) == Stop(c) \/ PollEnds(c) \/ PollIdle(c) \/ PollListed(c) \/ PollTimeout(c)

Dismiss(c) ==
  /\ pc[c] = "told"
  /\ Ends(c)
  /\ UNCHANGED <<deviceVars, daemonVars, op, reply, found, cancelled, thread, known>>

-----------------------------------------------------------------------------
(* Cancelling *)

\* The terminal interface has no cancel for a deletion, `fp` none but Ctrl-C.
Cancellable(c) == Kind[c] = "gui" \/ (Kind[c] = "tui" /\ op[c] = "enroll")

\* The button or the window: a flag, and a thread that sends the cancel.  The
\* terminal interface has the thread only.
Cancel(c) ==
  /\ ~cancelled[c] /\ Cancellable(c) /\ pc[c] \in {"begin", "wait", "poll", "check"}
  /\ cancelled' = Set(cancelled, c, TRUE) /\ thread' = Set(thread, c, TRUE)
  /\ UNCHANGED <<deviceVars, daemonVars, pc, op, slot, reply, found, result, marks>>

\* handle_fp_enroll_cancel: the gate that is active is told, whoever's it is, and
\* an ENROLL_CANCEL is queued.
EnrollCancel(c) ==
  IF link
  THEN /\ last' = None /\ permit' = (permit \/ gating)
       /\ Enqueue([who |-> None, cmd |-> "enrollCancel", slot |-> 0])
  ELSE UNCHANGED <<last, permit, queue>>

\* handle_gate_cancel: the active gate is told, or else a GATE_CANCEL is queued.
GateCancel(c) ==
  /\ UNCHANGED last
  /\ IF link /\ ~gating
     THEN Enqueue([who |-> None, cmd |-> "gateCancel", slot |-> 0]) /\ UNCHANGED permit
     ELSE permit' = (permit \/ (link /\ gating)) /\ UNCHANGED queue

ThreadCancels(c) ==
  /\ thread[c] /\ thread' = Set(thread, c, FALSE)
  /\ IF op[c] = "enroll" THEN EnrollCancel(c) ELSE GateCancel(c)
  /\ known' = Set(known, c, known[c] \/ (link /\ pc[c] # "begin"))
  /\ UNCHANGED <<deviceVars, bitmap, stale, gating, pc, op, slot, reply, found, result,
                 cancelled, own, solo>>

\* (mutation: the button's cancel is thought enough)
LeaveSilently(c) ==
  /\ pc[c] = "leave"
  /\ Ends(c)
  /\ UNCHANGED <<deviceVars, daemonVars, op, reply, found, cancelled, thread, known>>

Leave(c) ==
  /\ pc[c] = "leave"
  /\ Ends(c) /\ EnrollCancel(c)
  /\ UNCHANGED <<deviceVars, bitmap, stale, gating, op, reply, found, cancelled, thread, known>>

\* The program is left: handle_fp_enroll and handle_fp_delete see their socket
\* close and notify gate_cancel, active or not.  The job stays queued for nobody.
HangUp(c) ==
  /\ HangUps /\ pc[c] \in {"wait", "poll"}
  /\ Ends(c) /\ op' = Set(op, c, None) /\ thread' = Set(thread, c, FALSE)
  /\ IF pc[c] = "wait" /\ reply[c] = None
     THEN /\ permit' = TRUE
          /\ queue' = [i \in DOMAIN queue |->
                         IF queue[i].who = c /\ queue[i].cmd \in {"enroll", "delete"}
                         THEN [queue[i] EXCEPT !.who = None] ELSE queue[i]]
     ELSE UNCHANGED <<permit, queue>>
  /\ reply' = Set(reply, c, None) /\ found' = Set(found, c, {})
  /\ cancelled' = Set(cancelled, c, FALSE)
  /\ UNCHANGED <<deviceVars, last, bitmap, stale, gating, known>>

-----------------------------------------------------------------------------
(* The worker *)

Answer(job, what) ==
  IF job.who # None /\ job.cmd \in {"list", "enroll", "delete"}
  THEN reply' = Set(reply, job.who, what) ELSE UNCHANGED reply

WorkerFrame == UNCHANGED <<bitmap, stale, pc, op, slot, result, cancelled, thread, marks>>

\* A command without a gate: the device's notifications before it come first.
Serve ==
  /\ link /\ queue # <<>> /\ air = <<>> /\ Head(queue).cmd \in {"list", "enrollCancel", "gateCancel"}
  /\ LET job == Head(queue) IN
     /\ Answer(job, "ok")
     /\ found' = IF job.cmd = "list" THEN Set(found, job.who, fingers) ELSE found
     /\ capture' = IF job.cmd = "enrollCancel" THEN None ELSE capture
     /\ armed' = IF job.cmd = "gateCancel" THEN None ELSE armed
  /\ queue' = Tail(queue)
  /\ UNCHANGED <<link, fingers, air, last, gating, permit>> /\ WorkerFrame

\* What the device does once a gated command is authorised.
Executes(job) ==
  /\ fingers' = IF job.cmd = "delete" THEN fingers \ {job.slot} ELSE fingers
  /\ capture' = IF job.cmd = "enroll" THEN [slot |-> job.slot, who |-> job.who]
                ELSE capture

\* Without a finger on it the device asks for no touch.
ServeGated ==
  /\ link /\ queue # <<>> /\ air = <<>> /\ ~gating /\ Head(queue).cmd \in {"enroll", "delete"}
  /\ IF fingers = {}
     THEN /\ Executes(Head(queue)) /\ Answer(Head(queue), "ok") /\ queue' = Tail(queue)
          /\ UNCHANGED <<gating, armed>>
     ELSE /\ gating' = TRUE /\ armed' = Head(queue)
          /\ UNCHANGED <<fingers, capture, reply, queue>>
  /\ UNCHANGED <<link, air, last, permit, found>> /\ WorkerFrame

\* (mutation: gate_active stays set when the wait is over)
GateStays(what) == queue' = Tail(queue) /\ Answer(Head(queue), what) /\ UNCHANGED gating
GateEnds(what) == gating' = FALSE /\ queue' = Tail(queue) /\ Answer(Head(queue), what)

\* gate_cancel.notified(): GATE_CANCEL may find that the touch came first.
GateIsCancelled ==
  /\ gating /\ permit /\ permit' = FALSE
  /\ GateEnds("error") /\ armed' = None
  /\ UNCHANGED <<link, fingers, capture, air, last, found>> /\ WorkerFrame

\* The device gives up on the touch, and the worker hears of it or not.
GateTimesOut ==
  /\ gating /\ armed # None
  /\ GateEnds("error") /\ armed' = None
  /\ UNCHANGED <<link, fingers, capture, air, last, permit, found>> /\ WorkerFrame

\* route_notification.
Route ==
  /\ link /\ air # <<>> /\ air' = Tail(air)
  /\ LET n == Head(air) IN
     IF n = "approved"
     THEN /\ IF gating THEN GateEnds("ok") ELSE UNCHANGED <<gating, queue, reply>>
          /\ UNCHANGED <<last, stale>>
     ELSE /\ last' = n /\ stale' = (stale \/ n = "complete")
          /\ UNCHANGED <<gating, queue, reply>>
  /\ UNCHANGED <<link, fingers, armed, capture, permit, bitmap, pc, op, slot, found, result, cancelled,
                 thread, marks>>

-----------------------------------------------------------------------------
(* The device and its link *)

DeviceFrame == UNCHANGED <<link, daemonVars, userVars, solo, known>>

Notifies(n) == Len(air) < MaxAir /\ air' = Append(air, n)

\* An enrolled finger authorises the command.
Touch ==
  /\ armed # None /\ armed' = None
  /\ Executes(armed) /\ Notifies("approved")
  /\ UNCHANGED own /\ DeviceFrame

\* A press of the finger that is enrolled, any but the last; a person is slow.
Press ==
  /\ capture # None /\ air = <<>> /\ Notifies("captured")
  /\ UNCHANGED <<fingers, armed, capture, own>> /\ DeviceFrame

\* The last one: stored, or given up.
Store ==
  /\ capture # None /\ capture' = None
  /\ \/ /\ Notifies("complete") /\ fingers' = fingers \cup {capture.slot}
        /\ own' = IF capture.who = None THEN own ELSE Set(own, capture.who, TRUE)
     \/ Notifies("failed") /\ UNCHANGED <<fingers, own>>
  /\ UNCHANGED armed /\ DeviceFrame

\* The session ends: its jobs fail, its status is gone, and the device drops what
\* it was doing.  The last enrolment event stays.
LinkLost ==
  /\ Drops /\ link /\ link' = FALSE
  /\ armed' = None /\ capture' = None /\ air' = <<>>
  /\ queue' = <<>> /\ gating' = FALSE
  /\ reply' = [c \in Clients |->
                 IF pc[c] \in {"wait", "list", "check"} /\ reply[c] = None THEN "error"
                 ELSE reply[c]]
  /\ UNCHANGED <<fingers, last, bitmap, stale, permit, pc, op, slot, found, result, cancelled,
                 thread, marks>>

\* GET_STATUS at the start of a session.
Connect ==
  /\ ~link /\ link' = TRUE
  /\ bitmap' = fingers
  /\ UNCHANGED <<fingers, armed, capture, air, last, stale, queue, gating, permit, userVars, marks>>

Client(c) ==
  \/ Load(c) \/ Loaded(c)
  \/ ChooseEnroll(c) \/ ChooseDelete(c) \/ StopsBefore(c) \/ FpEnroll(c) \/ FpDelete(c)
  \/ EnrollAnswered(c) \/ DeleteAnswered(c)
  \/ Polls(c) \/ Dismiss(c)
  \/ Cancel(c) \/ ThreadCancels(c) \/ Leave(c) \/ HangUp(c)

Worker == Serve \/ ServeGated \/ GateIsCancelled \/ GateTimesOut \/ Route

Device == Touch \/ Press \/ Store

Next == Worker \/ Device \/ LinkLost \/ Connect \/ \E c \in Clients : Client(c)

\* The daemon and the programs run on, a gate ends, and the device comes back.
\* Nobody has to press, to wait for 360 s, or to hang up.  What waits for
\* room in the queue is let in, as tokio serves senders in their order.
Continues(c) ==
  \/ Loaded(c) \/ StopsBefore(c) \/ FpEnroll(c) \/ FpDelete(c) \/ EnrollAnswered(c)
  \/ DeleteAnswered(c) \/ Stop(c) \/ PollListed(c) \/ Leave(c)

Fairness ==
  /\ WF_vars(Connect) /\ WF_vars(Route) /\ SF_vars(Serve \/ ServeGated \/ GateTimesOut)
  /\ \A c \in Clients : SF_vars(Continues(c))

Spec     == Init /\ [][Next]_vars
FairSpec == Spec /\ Fairness

-----------------------------------------------------------------------------
(* Properties *)

Jobs == [who : Clients \cup {None}, cmd : {"list", "enroll", "delete", "enrollCancel", "gateCancel"},
         slot : Slots \cup {0}]

TypeOK ==
  /\ link \in BOOLEAN /\ fingers \subseteq Slots \cup Kept /\ bitmap \subseteq Slots \cup Kept
  /\ armed \in Jobs \cup {None} /\ (armed # None => armed.cmd \in {"enroll", "delete"})
  /\ capture \in [slot : Slots, who : Clients \cup {None}] \cup {None}
  /\ air \in Seq({"approved", "captured", "complete", "failed"}) /\ Len(air) <= MaxAir
  /\ last \in {None, "captured", "complete", "failed"}
  /\ stale \in BOOLEAN /\ gating \in BOOLEAN /\ permit \in BOOLEAN
  /\ queue \in Seq(Jobs) /\ Len(queue) <= MaxJobs
  /\ gating => link /\ queue # <<>> /\ Head(queue).cmd \in {"enroll", "delete"}
  /\ pc \in [Clients -> {"idle", "list", "begin", "wait", "poll", "check", "leave", "told"}]
  /\ op \in [Clients -> {"enroll", "delete", None}]
  /\ \A c \in Clients : slot[c] \in Slots \cup {0}
  /\ reply \in [Clients -> {None, "ok", "error"}] /\ found \in [Clients -> SUBSET (Slots \cup Kept)]
  /\ result \in [Clients -> {None, "failed", "deleted", "complete", "timeout"}]
  /\ {cancelled, thread, own, solo, known} \subseteq [Clients -> BOOLEAN]

\* Progress carries no slot and no name: still, an enrolment begun at rest, on a
\* free slot, and overlapped by no other, says Complete only of its own capture.
\* (FP:ENROLL clears last_enroll_event, socket.rs:827)
CompleteIsOwn ==
  \A c \in Clients :
    pc[c] = "told" /\ result[c] = "complete" /\ solo[c] => own[c]

\* Once a cancelled enrolment's worker has left and its cancels are done, the
\* device holds no gate and no capture of it, however its FP:ENROLL and its two
\* FP:ENROLL_CANCEL crossed.  (enroll_session.rs:196)
Gone(c) == pc[c] = "idle" /\ ~thread[c] /\ \A i \in DOMAIN queue : queue[i].cmd # "enrollCancel"

CancelReleases ==
  \A c \in Clients :
    Kind[c] = "gui" /\ op[c] = "enroll" /\ cancelled[c] /\ known[c] /\ Gone(c) =>
      (armed # None => armed.who # c) /\ (capture # None => capture.who # c)

\* The same for a deletion, whose dialog sends one GATE:CANCEL: the next touch
\* does not delete the finger.  (socket.rs:985)
CancelledDeleteIsOff ==
  \A c \in Clients :
    op[c] = "delete" /\ cancelled[c] /\ ~thread[c] /\ (\A i \in DOMAIN queue : queue[i].cmd # "gateCancel")
      => (armed # None => armed.who # c)

\* A cancelled dialog's worker ends, though the device falls silent and nobody
\* waits for the 360 s.  (enroll_session.rs:82)
CancelledLeaves ==
  \A c \in Clients :
    (Kind[c] = "gui" /\ cancelled[c]) ~> (pc[c] \in {"idle", "told"} \/ ~cancelled[c])

\* With nothing on its way, the bitmap that clients are shown is the device's, or
\* marked stale.  (handle_fp_list, socket.rs:776)
BitmapCurrent ==
  link /\ queue = <<>> /\ air = <<>> /\ (\A c \in Clients : reply[c] = None)
    => stale \/ bitmap = fingers

\* Spec, docs 2026-09-18-gui-fingerprint-hosts-design.md:86: FP:STATUS answers
\* NOT_CONNECTED, which ends the enrolment; it does not wait for its 360 s.
DisconnectIsTold ==
  [][\A c \in Clients : pc[c] = "poll" /\ result'[c] = "timeout" => link]_vars

\* app.rs:1475 - the polling thread of a cancelled enrolment notices IDLE and ends.
CancelEndsByItself ==
  \A c \in Clients : result[c] = "timeout" => ~cancelled[c]
=============================================================================
