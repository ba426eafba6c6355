------------------------------ MODULE AuthSlot ------------------------------
(***************************************************************************)
(* The authentication slot of immurok-daemon: who a fingerprint match      *)
(* speaks for.                                                             *)
(*                                                                         *)
(* AUTH (the PAM module), AGENT_APPROVE (imk run --agent) and the gated    *)
(* key reads claim one slot, Coordinator.pending_pam.  A request that      *)
(* holds it also queues an AUTH_REQUEST for the BLE worker and waits for   *)
(* whichever speaks first: the worker's reply, the slot's channel (a       *)
(* signed match routed to on_fp_match), the dialog's Cancel, its socket or *)
(* its deadline.  A match nobody claims may unlock the screen, and an      *)
(* unlock or an approval may open a pre-auth window for follow-up requests.*)
(*                                                                         *)
(* The worker is reduced to what the slot can see: it serves its jobs in   *)
(* order, and routes notifications except while it unlocks the screen.     *)
(* GateWorker has it in full.                                              *)
(***************************************************************************)
EXTENDS Naturals, Sequences

CONSTANTS
  Clients,    \* connection handlers; each serves one request at a time
  None,       \* nobody, nothing
  Requests,   \* the requests the clients of this instance make
  UnlockWindow, \* ticks the window of an unlock lasts (3 s)
  AgentWindow,  \* ticks the window of an approved agent command lasts (10 s)
  Suppress,   \* ticks lock requests are ignored after an auth flow
  LockScreen, \* settings.lock_screen
  Unlock,     \* settings.unlock_screen
  MaxJobs,    \* bound: jobs queued for the worker
  Marks       \* TRUE: keep the history marks WindowIsEarned and NoRelock need

\* A graphical PAM service (polkit-1, gdm), any other one, imk run --agent, and
\* the key reads, which hold the slot without listening to it.
AllRequests == {"polkit", "sudo", "agent", "key"}

ASSUME ConstantsAssumption ==
  /\ None \notin Clients \cup {"yes", "no", "unlock", "agent"}
  /\ Requests \subseteq AllRequests
  /\ UnlockWindow \in Nat \ {0} /\ AgentWindow \in Nat \ {0}
  /\ Suppress \in Nat \ {0} /\ MaxJobs \in Nat \ {0}
  /\ LockScreen \in BOOLEAN /\ Unlock \in BOOLEAN /\ Marks \in BOOLEAN

VARIABLES
  pc,        \* client -> "idle" | "claiming" | "waiting" | "leaving"
  req,       \* client -> its request
  verdict,   \* client -> None | "yes" | "no", decided by its select
  rx,        \* client -> what its pending_rx holds
  reply,     \* client -> what its worker reply channel holds
  ui,        \* client -> "none" | "shown" (showing_ui) | "cancel" (and cancelled)
  slot,      \* pending_pam: the client whose sender it holds, or None
  jobs,      \* the worker's jobs in order, the head being served
  wphase,    \* where the head job is: "idle" (untouched) | "ask" | "touch"
  unlocking, \* the worker is inside loginctl unlock-session
  permit,    \* permit stored in auth_dialog_cancel
  agentUp,   \* a session agent is subscribed
  dialog,    \* the client whose dialog the agent shows, or None
  click,     \* a UI:CANCEL line is on its way to the daemon
  session,   \* the session is locked
  locked,    \* Coordinator.screen_locked: the monitor's last look at it
  preAuth,   \* pre_auth: [for, left]; for = None when there is no window
  flow,      \* ticks left of the suppression since last_auth_flow
  recent,    \* history: the same, since a request was last approved by touch
  swept,     \* history: a lock request was acted on and no match came since
  earned     \* history: the unlock window was armed for a request that was
             \* listening, or for a screen that was unlocked

clientVars == <<pc, req, verdict, rx, reply, ui>>
workerVars == <<jobs, wphase, unlocking>>
uiVars     == <<agentUp, dialog, click>>
screenVars == <<session, locked>>
windowVars == <<preAuth, flow, recent, swept, earned>>
vars == <<clientVars, slot, workerVars, permit, uiVars, screenVars, windowVars>>

Jobs     == [who : Clients \cup {None}, auth : BOOLEAN]
NoWindow == [for |-> None, left |-> 0]

\* What set_pre_auth stores; it replaces any prior window.
\* (mutation: windows add up)
Lasts(what)   == IF what = "unlock" THEN UnlockWindow ELSE AgentWindow
Stacked(what) == [for |-> what, left |-> preAuth.left + Lasts(what)]
Armed(what)   == [for |-> what, left |-> Lasts(what)]

TypeOK ==
  /\ pc \in [Clients -> {"idle", "claiming", "waiting", "leaving"}]
  /\ req \in [Clients -> AllRequests]
  /\ verdict \in [Clients -> {None, "yes", "no"}]
  /\ rx \in [Clients -> {None, "yes", "no"}]
  /\ reply \in [Clients -> {None, "yes", "no"}]
  /\ ui \in [Clients -> {"none", "shown", "cancel"}]
  /\ slot \in Clients \cup {None}
  /\ jobs \in Seq(Jobs)
  /\ wphase \in {"idle", "ask", "touch"}
  /\ unlocking \in BOOLEAN /\ permit \in BOOLEAN
  /\ agentUp \in BOOLEAN /\ dialog \in Clients \cup {None} /\ click \in BOOLEAN
  /\ session \in BOOLEAN /\ locked \in BOOLEAN
  /\ preAuth \in [for : {None, "unlock", "agent"}, left : Nat]
  /\ preAuth.for # None => preAuth.left <= Lasts(preAuth.for)
  /\ flow \in 0..Suppress /\ recent \in 0..Suppress
  /\ swept \in BOOLEAN /\ earned \in BOOLEAN

Init ==
  /\ pc = [c \in Clients |-> "idle"]
  /\ req = [c \in Clients |-> "sudo"]
  /\ verdict = [c \in Clients |-> None]
  /\ rx = [c \in Clients |-> None]
  /\ reply = [c \in Clients |-> None]
  /\ ui = [c \in Clients |-> "none"]
  /\ slot = None
  /\ jobs = <<>> /\ wphase = "idle" /\ unlocking = FALSE /\ permit = FALSE
  /\ agentUp = FALSE /\ dialog = None /\ click = FALSE
  /\ session \in BOOLEAN /\ locked = session
  /\ preAuth = NoWindow /\ flow = 0 /\ recent = 0 /\ swept = FALSE /\ earned = FALSE

-----------------------------------------------------------------------------
(* Request handlers *)

\* UI:DIALOG replaces whatever dialog is up; UI:DISMISS takes down any.
Show(c, asked) ==
  /\ ui' = [ui EXCEPT ![c] = IF asked /\ agentUp THEN "shown" ELSE @]
  /\ dialog' = IF asked /\ agentUp THEN c ELSE dialog
Dismiss(c) ==
  /\ ui' = [ui EXCEPT ![c] = "none"]
  /\ dialog' = IF ui[c] # "none" /\ agentUp THEN None ELSE dialog

\* consume_pre_auth: an open window for this service answers AUTH at once; the
\* window is not consumed.
RidesWindow(r) ==
  \/ r = "polkit" /\ preAuth.for = "unlock"
  \/ r = "sudo" /\ preAuth.for = "agent"

\* A graphical service subscribes to cancels and asks for its dialog before it
\* tries the slot.
Arrive(c, r) ==
  /\ pc[c] = "idle" /\ ~RidesWindow(r)
  /\ pc' = [pc EXCEPT ![c] = "claiming"]
  /\ req' = [req EXCEPT ![c] = r]
  /\ Show(c, r = "polkit")
  /\ UNCHANGED <<verdict, rx, reply, slot, workerVars, permit, agentUp, click,
                 screenVars, windowVars>>

\* try_set_pending_pam's check.  (mutation: overwrite the previous channel)
Overwrite == TRUE
SlotFree  == slot = None

\* try_set_pending_pam succeeds: the agent dialog is shown, the device command
\* is queued.
Claim(c) ==
  /\ pc[c] = "claiming" /\ SlotFree /\ Len(jobs) < MaxJobs
  /\ slot' = c
  /\ pc' = [pc EXCEPT ![c] = "waiting"]
  /\ Show(c, req[c] = "agent")
  /\ jobs' = Append(jobs, [who |-> c, auth |-> req[c] # "key"])
  /\ UNCHANGED <<req, verdict, rx, reply, wphase, unlocking, permit, agentUp, click,
                 screenVars, windowVars>>

Busy(c) ==
  /\ pc[c] = "claiming" /\ slot # None
  /\ pc' = [pc EXCEPT ![c] = "idle"]
  /\ Dismiss(c)
  /\ UNCHANGED <<req, verdict, rx, reply, slot, workerVars, permit, agentUp, click,
                 screenVars, windowVars>>

Listens(c) == req[c] # "key"

Disown(job, c) == IF job.who = c THEN [job EXCEPT !.who = None] ELSE job

\* The select of a waiting handler completes with verdict v; its channels are
\* dropped with it, the job it queued is not.
Decide(c, v) ==
  /\ pc[c] = "waiting"
  /\ pc' = [pc EXCEPT ![c] = "leaving"]
  /\ verdict' = [verdict EXCEPT ![c] = v]
  /\ rx' = [rx EXCEPT ![c] = None]
  /\ reply' = [reply EXCEPT ![c] = None]
  /\ jobs' = [i \in 1..Len(jobs) |-> Disown(jobs[i], c)]
  /\ UNCHANGED <<req, ui, slot, wphase, unlocking, uiVars, screenVars, windowVars>>

WorkerReplied(c) ==
  /\ reply[c] # None
  /\ Decide(c, reply[c])
  /\ UNCHANGED permit

SlotSpoke(c) ==
  /\ Listens(c) /\ rx[c] # None
  /\ Decide(c, rx[c])
  /\ UNCHANGED permit

\* A closed or talking socket, the 35 s of AGENT_APPROVE.
GiveUp(c) ==
  /\ Listens(c)
  /\ Decide(c, "no")
  /\ permit' = TRUE

\* The Cancel of the dialog this request asked for.
CancelSeen(c) ==
  /\ ui[c] = "cancel"
  /\ Decide(c, "no")
  /\ permit' = TRUE

\* (mutation: the slot is left to the next match)
SlotKept    == slot
SlotCleared == None

\* Dismiss the dialog, deny_pending_pam - whoever is in the slot - and, for an
\* approved agent command, arm the sudo window.  A key read has let the slot go
\* by the time it fetches the rest of its entry.
Leave(c) ==
  /\ pc[c] = "leaving"
  /\ pc' = [pc EXCEPT ![c] = "idle"]
  /\ verdict' = [verdict EXCEPT ![c] = None]
  /\ Dismiss(c)
  /\ slot' = SlotCleared
  /\ rx' = [d \in Clients |-> IF d = slot /\ pc[d] = "waiting" THEN "no" ELSE rx[d]]
  /\ preAuth' = IF req[c] = "agent" /\ verdict[c] = "yes"
                THEN Armed("agent") ELSE preAuth
  /\ UNCHANGED <<req, reply, workerVars, permit, agentUp, click, screenVars,
                 flow, recent, swept, earned>>

-----------------------------------------------------------------------------
(* The worker, as far as the slot can see it *)

TakeJob ==
  /\ wphase = "idle" /\ jobs # <<>> /\ ~unlocking
  /\ wphase' = "ask"
  /\ UNCHANGED <<clientVars, slot, jobs, unlocking, permit, uiVars, screenVars, windowVars>>

TouchNeeded ==
  /\ wphase = "ask" /\ ~unlocking
  /\ wphase' = "touch"
  /\ UNCHANGED <<clientVars, slot, jobs, unlocking, permit, uiVars, screenVars, windowVars>>

\* handle_ble_command sends the outcome, unless the receiver is gone.
\* (mutation: only a success is sent)
ReplyYesOnly(job, v) ==
  reply' = IF job.who = None \/ v = "no" THEN reply ELSE [reply EXCEPT ![job.who] = v]
Reply(job, v) ==
  reply' = IF job.who = None THEN reply ELSE [reply EXCEPT ![job.who] = v]

\* The job ends, by the device's word, an error or a deadline.
JobEnds(v) ==
  /\ wphase \in {"ask", "touch"} /\ ~unlocking
  /\ wphase' = "idle" /\ jobs' = Tail(jobs)
  /\ Reply(Head(jobs), v)
  /\ recent' = IF v = "yes" /\ Head(jobs).auth /\ Head(jobs).who # None /\ Marks
               THEN Suppress ELSE recent
  /\ UNCHANGED <<pc, req, verdict, rx, ui, slot, unlocking, uiVars, screenVars,
                 preAuth, flow, swept, earned>>

JobServed == (\E v \in {"yes", "no"} : JobEnds(v)) /\ UNCHANGED permit

AuthCancelled ==
  /\ wphase = "touch" /\ Head(jobs).auth /\ permit
  /\ permit' = FALSE
  /\ JobEnds("no")

\* on_fp_match, for a signed match routed outside a gate or AUTH wait.
MatchApproves ==
  /\ wphase # "touch" /\ ~unlocking /\ slot # None
  /\ slot' = None
  /\ LET heard == pc[slot] = "waiting" IN
     /\ rx' = IF heard THEN [rx EXCEPT ![slot] = "yes"] ELSE rx
     /\ recent' = IF heard /\ Listens(slot) /\ Marks THEN Suppress ELSE recent
     /\ IF locked
        THEN /\ preAuth' = Armed("unlock")
             /\ earned' = (heard /\ Listens(slot) /\ Marks)
        ELSE UNCHANGED <<preAuth, earned>>
  /\ flow' = Suppress /\ swept' = FALSE
  /\ UNCHANGED <<pc, req, verdict, reply, ui, workerVars, permit, uiVars, screenVars>>

MatchUnlocks ==
  /\ wphase # "touch" /\ ~unlocking /\ slot = None
  /\ locked /\ Unlock
  /\ unlocking' = TRUE
  /\ flow' = Suppress /\ swept' = FALSE
  /\ UNCHANGED <<clientVars, slot, jobs, wphase, permit, uiVars, screenVars, preAuth,
                 recent, earned>>

\* loginctl unlock-session has returned.
UnlockEnds ==
  /\ unlocking
  /\ unlocking' = FALSE
  /\ \/ /\ session' = FALSE
        /\ preAuth' = Armed("unlock") /\ earned' = Marks
     \/ UNCHANGED <<session, preAuth, earned>>
  /\ UNCHANGED <<clientVars, slot, jobs, wphase, permit, uiVars, locked, flow, recent, swept>>

\* (mutation: the window survives the lock)
WindowStays == preAuth
WindowShut  == NoWindow

\* The long-press notification, handled by the worker wherever it routes.
LockRequested ==
  /\ ~unlocking /\ LockScreen /\ ~locked /\ flow = 0
  /\ preAuth' = WindowShut
  /\ session' \in {TRUE, session}
  /\ swept' = TRUE
  /\ UNCHANGED <<clientVars, slot, workerVars, permit, uiVars, locked, flow, recent, earned>>

-----------------------------------------------------------------------------
(* The session agent, the screen and time *)

AgentSubscribes ==
  /\ ~agentUp /\ agentUp' = TRUE
  /\ UNCHANGED <<clientVars, slot, workerVars, permit, dialog, click, screenVars, windowVars>>

AgentLost ==
  /\ agentUp /\ agentUp' = FALSE
  /\ dialog' = None /\ click' = FALSE
  /\ UNCHANGED <<clientVars, slot, workerVars, permit, screenVars, windowVars>>

\* The user closes the dialog: the agent writes UI:CANCEL ...
UserCloses ==
  /\ dialog # None /\ ~click
  /\ dialog' = None /\ click' = TRUE
  /\ UNCHANGED <<clientVars, slot, workerVars, permit, agentUp, screenVars, windowVars>>

\* ... which the daemon broadcasts to every request that is showing a dialog.
CancelBroadcast ==
  /\ click /\ click' = FALSE
  /\ ui' = [c \in Clients |-> IF ui[c] = "shown" THEN "cancel" ELSE ui[c]]
  /\ UNCHANGED <<pc, req, verdict, rx, reply, slot, workerVars, permit, agentUp,
                 dialog, screenVars, windowVars>>

UserLocksOrUnlocks ==
  /\ session' = ~session
  /\ UNCHANGED <<clientVars, slot, workerVars, permit, uiVars, locked, windowVars>>

\* screen.rs refresh: logind is asked for the state.
ScreenRefreshed ==
  /\ locked # session /\ locked' = session
  /\ UNCHANGED <<clientVars, slot, workerVars, permit, uiVars, session, windowVars>>

Less(n) == IF n = 0 THEN 0 ELSE n - 1

Tick ==
  /\ preAuth.left > 0 \/ flow > 0 \/ recent > 0
  /\ preAuth' = IF preAuth.left <= 1 THEN NoWindow ELSE [preAuth EXCEPT !.left = @ - 1]
  /\ flow' = Less(flow) /\ recent' = Less(recent)
  /\ UNCHANGED <<clientVars, slot, workerVars, permit, uiVars, screenVars, swept, earned>>

Progress(c) ==
  \/ Claim(c) \/ Busy(c)
  \/ WorkerReplied(c) \/ SlotSpoke(c) \/ CancelSeen(c)
  \/ Leave(c)

Handler(c) ==
  \/ \E r \in Requests : Arrive(c, r)
  \/ Progress(c)
  \/ GiveUp(c)

Serve == TakeJob \/ TouchNeeded \/ JobServed \/ AuthCancelled

Environment ==
  \/ AgentSubscribes \/ AgentLost \/ UserCloses \/ CancelBroadcast
  \/ UserLocksOrUnlocks \/ ScreenRefreshed \/ Tick

Next ==
  \/ \E c \in Clients : Handler(c)
  \/ Serve \/ MatchApproves \/ MatchUnlocks \/ UnlockEnds \/ LockRequested
  \/ Environment

\* A handler whose channel has spoken is polled; the worker gets to its jobs
\* however often matches interrupt it (select! draws among ready branches) and
\* ends each of them (GateWorker!RequestsEnd: it always answers).
Fairness ==
  /\ SF_vars(TakeJob) /\ SF_vars(JobServed) /\ WF_vars(UnlockEnds)
  /\ \A c \in Clients : WF_vars(Progress(c))

Spec     == Init /\ [][Next]_vars
FairSpec == Spec /\ Fairness

-----------------------------------------------------------------------------
(* Properties *)

\* The slot never outlives the request that claimed it: no exit of a handler
\* leaves a dead sender behind that would answer BUSY for ever.
\* (try_set_pending_pam, deny_pending_pam)
SlotHeldByRequest ==
  \A c \in Clients : slot = c => pc[c] \in {"waiting", "leaving"}

\* A waiting request is the one the next match speaks for, unless it has already
\* been spoken to; so no two requests wait for the same touch.  (coordinator.rs:333)
WaitingIsReachable ==
  \A c \in Clients : pc[c] = "waiting" => slot = c \/ rx[c] # None

\* Once a lock request has been acted on, no follow-up of an earlier unlock or
\* approval rides its window: the worker finishes arming it first.
LockEndsUnlockWindow == swept => preAuth.for # "unlock"

\* Every request ends, whatever matches, cancels and locks come in between.
RequestsLeave == \A c \in Clients : pc[c] = "waiting" ~> pc[c] = "idle"

\* socket.rs:1317 - overlapping requests must not race: the cleanup of one request
\* finds its own sender in the slot, or nothing.
CleanupSparesOthers ==
  \A c \in Clients : pc[c] = "leaving" => slot \in {c, None}

\* coordinator.rs:62 - an unlock window is granted after a real auth flow: an
\* approved request or an unlocked screen.
WindowIsEarned == preAuth.for = "unlock" => earned

\* coordinator.rs:139 - a successful auth where the user lingers on the pad does
\* not lock the screen.
NoRelock == [][LockRequested => recent = 0]_vars

\* session-agent main.rs:68 - a dialog is taken down for a request that is already
\* resolved, if the user has not closed it.
DismissMeansResolved ==
  [][\A c \in Clients :
       dialog = c /\ dialog' # c /\ pc[c] = "waiting" /\ rx[c] = None /\ reply[c] = None
         => UserCloses \/ AgentLost]_vars
=============================================================================
