------------------------------ MODULE Pairing ------------------------------
(***************************************************************************)
(* Whether this host and the device know each other.                       *)
(*                                                                         *)
(* The daemon holds one pairing key, in memory and in pairing.json, and    *)
(* flags that say how far the device on the link has been verified.  A     *)
(* session starts with GET_STATUS and a challenge; later the worker serves *)
(* pairing attempts, slot queries, slot clears and factory resets, whose   *)
(* handlers change the key when their answer comes.  The device has two    *)
(* slots, one of them active, which other hosts and its user change while  *)
(* the link is down.                                                       *)
(*                                                                         *)
(* Commands and answers are first in, first out and carry no number: the   *)
(* next response on the link is the answer of the command that waits.      *)
(***************************************************************************)
EXTENDS Naturals, Sequences

CONSTANTS
  Clients,    \* connection handlers
  Ops,        \* the requests they make, see Requests
  Retries,    \* how often PAIR_INIT is repeated for connection parameters
  DiskFails,  \* TRUE: writing or removing pairing.json may fail
  MaxAsks,    \* bound: requests
  MaxLost,    \* bound: commands the device does not answer
  MaxLate,    \* bound: answers that come after their command's timeout
  MaxEvents   \* bound: link losses, restarts and changes made elsewhere

Requests == {"pair", "owner", "clear", "clear 1", "clear 2", "reset"}

ASSUME ConstantsAssumption ==
  /\ Ops \subseteq Requests
  /\ DiskFails \in BOOLEAN
  /\ {Retries, MaxLost, MaxLate, MaxEvents} \subseteq Nat /\ MaxAsks \in Nat \ {0}

VARIABLES
  key, disk,  \* this host's pairing key in memory and in pairing.json
  verified,   \* is_device_verified
  proven,     \* challenge_verified
  unpaired,   \* device_reports_unpaired
  progress,   \* pair_progress
  phase,      \* what the worker waits for; "down": there is no session
  heard,      \* device_reported_paired: "paired", "unpaired" or "none"
  second,     \* second_host of the attempt
  retries,    \* attempts at PAIR_INIT left
  job, queue, \* the command being served and those behind it
  client,     \* client -> [op, at, ans, own]: own, the slot it takes for its own
  slots,      \* device: slot -> key it holds
  active,     \* device: the slot it talks through
  step,       \* device: where its side of a pairing is
  gate,       \* device: the command that waits for a finger, or Nothing
  boot,       \* device: it is about to restart
  link,       \* device and host are connected
  wire, air,  \* commands to the device, frames from it
  made, asks, lost, late, events  \* counters of the bounds

hostVars   == <<key, disk, verified, proven, unpaired>>
pairVars   == <<progress, second, retries>>
workerVars == <<phase, heard, job, queue>>
deviceVars == <<slots, active, step, gate, boot, link>>
counters   == <<made, asks, lost, late, events>>
vars == <<hostVars, pairVars, workerVars, client, deviceVars, wire, air, counters>>

\* Keys: NoKey, those this host makes, and another host's.
NoKey  == 0
Ours   == 1..MaxAsks
Theirs == MaxAsks + 1
Values == 0..MaxAsks + 1
Slots  == {1, 2}
Other(s) == 3 - s

\* Frames and commands.  n: a key, a slot or a flag; nonce of a challenge; occ:
\* the occupied slots.
Frame(k)   == [kind |-> k, n |-> 0, nonce |-> 0, occ |-> {}]
With(k, n) == [Frame(k) EXCEPT !.n = n]
Silence    == Frame("silence")
Nothing    == Frame("nothing")
Cmds       == {"status?", "challenge", "slots?", "init", "confirm", "clear", "reset", "other"}
Answers    == {"status", "hmac", "slots", "wait", "needs reset", "params", "pubkey", "confirmed",
               "not confirmed", "cleared", "not paired", "refused", "ok", "no", "wait fp", "other"}
Buttons    == {"fp ok", "pressed", "button timeout", "button cancelled"}
Frames     == [kind : Cmds \cup Answers \cup Buttons \cup {"silence", "nothing"},
               n : Values \cup Slots, nonce : 0..2, occ : SUBSET Slots]

Waits    == {"status", "challenge", "retry", "sync", "slots", "init", "button", "confirm",
             "plain", "gated", "gate"}
InFlight == {"WaitFp", "WaitButton", "Ecdh"}

Jobs == [who : Clients, cmd : {"pair", "plain", "gated"},
         frame : {f \in Frames : f.kind \in {"nothing", "slots?", "clear", "reset"}}]
Handlers == [op : Ops \cup {"none"},
             at : {"idle", "query", "act", "query answered", "answered"},
             ans : Frames, own : Slots \cup {0}]
GateFrames == {f \in Frames : f.kind \in {"nothing", "clear", "reset"}}
NoJob == [who |-> "nobody", cmd |-> "none", frame |-> Nothing]
Calm == [op |-> "none", at |-> "idle", ans |-> Nothing, own |-> 0]

TypeOK ==
  /\ key \in Values /\ disk \in Values
  /\ verified \in BOOLEAN /\ proven \in BOOLEAN /\ unpaired \in BOOLEAN
  /\ progress \in InFlight \cup {"Idle", "Done", "Failed"}
  /\ phase \in Waits \cup {"down", "serve", "pause"}
  /\ heard \in {"paired", "unpaired", "none"}
  /\ second \in BOOLEAN /\ retries \in 0..Retries
  /\ job \in Jobs \cup {NoJob} /\ queue \in Seq(Jobs)
  /\ client \in [Clients -> Handlers]
  /\ slots \in [Slots -> Values] /\ active \in Slots
  /\ step \in {"idle", "fp", "button", "ecdh", "confirm"}
  /\ gate \in GateFrames /\ boot \in BOOLEAN /\ link \in BOOLEAN
  /\ wire \in Seq(Frames) /\ air \in Seq(Frames)
  /\ made \in 0..MaxAsks /\ asks \in 0..MaxAsks
  /\ lost \in 0..MaxLost /\ late \in 0..MaxLate /\ events \in 0..MaxEvents

Init ==
  /\ key = NoKey /\ disk = NoKey
  /\ verified = FALSE /\ proven = FALSE /\ unpaired = FALSE
  /\ progress = "Idle" /\ phase = "down" /\ heard = "none"
  /\ second = FALSE /\ retries = 0
  /\ job = NoJob /\ queue = <<>>
  /\ client = [c \in Clients |-> Calm]
  /\ slots \in [Slots -> {NoKey, Theirs}] /\ active \in Slots
  /\ step = "idle" /\ gate = Nothing /\ boot = FALSE /\ link = FALSE
  /\ wire = <<>> /\ air = <<>>
  /\ made = 0 /\ asks = 0 /\ lost = 0 /\ late = 0 /\ events = 0

-----------------------------------------------------------------------------
(* Handlers *)

\* A request is claimed, its first command queued.
Queued(c, cmd, frame) == queue' = Append(queue, [who |-> c, cmd |-> cmd, frame |-> frame])
Online == phase # "down"

TryBeginPairing == progress \notin InFlight

Target(op) == CASE op = "clear 1" -> 1 [] op = "clear 2" -> 2 [] OTHER -> 0

\* clear_local_pairing: the file may stay where it is.
ClearLocal ==
  /\ key' = NoKey /\ disk' \in {NoKey} \cup (IF DiskFails THEN {disk} ELSE {})
  /\ verified' = FALSE /\ proven' = FALSE /\ UNCHANGED unpaired

PairStart(c) ==
  /\ client[c].at = "idle" /\ "pair" \in Ops /\ asks < MaxAsks /\ Online
  /\ TryBeginPairing /\ progress' = "Idle"
  /\ client' = [client EXCEPT ![c] = [Calm EXCEPT !.op = "pair", !.at = "act"]]
  /\ Queued(c, "pair", Nothing)
  /\ asks' = asks + 1
  /\ UNCHANGED <<hostVars, second, retries, phase, heard, job, deviceVars, wire, air,
                 made, lost, late, events>>

\* What the first command of a request is; a named slot is looked up first.
FirstCommand(op) ==
  CASE op = "reset" -> [at |-> "act", cmd |-> "gated", frame |-> Frame("reset")]
    [] op = "clear" -> [at |-> "act", cmd |-> "plain", frame |-> Frame("clear")]
    [] OTHER        -> [at |-> "query", cmd |-> "plain", frame |-> Frame("slots?")]

Ask(c, op) ==
  /\ client[c].at = "idle" /\ op # "pair" /\ asks < MaxAsks /\ Online
  /\ LET first == FirstCommand(op)
     IN /\ client' = [client EXCEPT ![c] = [Calm EXCEPT !.op = op, !.at = first.at]]
        /\ Queued(c, first.cmd, first.frame)
  /\ asks' = asks + 1
  /\ UNCHANGED <<hostVars, pairVars, phase, heard, job, deviceVars, wire, air,
                 made, lost, late, events>>

\* Without a session a bare clear drops the local pairing.
ClearOffline(c) ==
  /\ client[c].at = "idle" /\ "clear" \in Ops /\ asks < MaxAsks /\ ~Online
  /\ ClearLocal
  /\ asks' = asks + 1
  /\ UNCHANGED <<pairVars, workerVars, client, deviceVars, wire, air, made, lost, late, events>>

Leaves(c) == client' = [client EXCEPT ![c] = Calm]

\* SLOT:STATUS names the slot that is this host's, or none.
\* (mutation: any verification will do)
MineIfVerified(f) == IF f.n \in f.occ /\ verified /\ key # NoKey THEN f.n ELSE 0
Mine(f) == IF f.n \in f.occ /\ proven /\ key # NoKey THEN f.n ELSE 0

OwnerAnswered(c) ==
  /\ client[c].at = "query answered" /\ client[c].op = "owner"
  /\ client' = [client EXCEPT ![c] =
       [Calm EXCEPT !.own = IF client[c].ans.kind = "slots" THEN Mine(client[c].ans) ELSE 0]]
  /\ UNCHANGED <<hostVars, pairVars, workerVars, deviceVars, wire, air, counters>>

\* A named slot is cleared as our own if it is the active one, else behind a gate.
PathKnown(c) ==
  /\ client[c].at = "query answered" /\ client[c].op \in {"clear 1", "clear 2"}
  /\ LET f == client[c].ans
         s == Target(client[c].op)
     IN IF f.kind = "slots"
        THEN /\ Queued(c, IF s = f.n THEN "plain" ELSE "gated", With("clear", s))
             /\ client' = [client EXCEPT ![c] =
                  [@ EXCEPT !.at = "act", !.ans = Nothing, !.own = IF s = f.n THEN s ELSE 0]]
        ELSE Leaves(c) /\ UNCHANGED queue
  /\ UNCHANGED <<hostVars, pairVars, phase, heard, job, deviceVars, wire, air, counters>>

\* The answers after which clear_own_slot and handle_factory_reset keep the key.
\* (mutation: whatever is answered, the local pairing goes)
Drops(op, f) == op = "reset" /\ f.kind # "ok"
Keeps(op, f) == IF op = "reset" THEN f.kind # "ok" ELSE f.kind = "refused"

OwnClear(c) == client[c].op = "clear" \/ client[c].own # 0

Answered(c) ==
  /\ client[c].at = "answered"
  /\ IF \/ client[c].op = "pair"
        \/ client[c].op # "reset" /\ ~OwnClear(c)
        \/ Keeps(client[c].op, client[c].ans)
     THEN UNCHANGED hostVars
     ELSE ClearLocal
  /\ Leaves(c)
  /\ UNCHANGED <<pairVars, workerVars, deviceVars, wire, air, counters>>

-----------------------------------------------------------------------------
(* What reaches the worker *)

\* A handler woken by a reply runs before the device says anything more.
Prompt == \A c \in Clients : client[c].at \notin {"query answered", "answered"}

\* Nothing can come any more: the link is gone, or no command is unanswered.
Quiet == wire = <<>> /\ air = <<>>
         /\ (phase = "button" => step \notin {"fp", "button", "ecdh"})
         /\ (phase = "gate" => gate = Nothing)

\* The response the worker waited for, or the end of its patience.
Incoming == {Silence} \cup (IF air = <<>> THEN {} ELSE {Head(air)})
Takes(f) ==
  /\ Prompt /\ UNCHANGED <<asks, lost, events>>
  /\ \/ /\ air # <<>> /\ f = Head(air) /\ f.kind \notin Buttons
        /\ air' = Tail(air) /\ UNCHANGED late
     \/ /\ f = Silence /\ UNCHANGED air
        /\ IF Quiet THEN UNCHANGED late ELSE late < MaxLate /\ late' = late + 1
Hears(f) == Takes(f) /\ UNCHANGED made

Sends(cmd, to) == phase' = to /\ wire' = IF link THEN Append(wire, cmd) ELSE wire

-----------------------------------------------------------------------------
(* The start of a session *)

Forgotten == verified' = FALSE /\ proven' = FALSE

Connect ==
  /\ phase = "down" /\ ~boot
  /\ link' = TRUE /\ Forgotten
  /\ phase' = "status" /\ wire' = Append(wire, Frame("status?")) /\ heard' = "none"
  /\ UNCHANGED <<key, disk, unpaired, pairVars, job, queue, client, slots, active, step,
                 gate, boot, air, counters>>

SessionOver == phase' = "down" /\ Forgotten /\ heard' = "none"

\* With the device verified the key cache is read, which stands here for one
\* command of its own; else the worker starts to serve.
Serves(ok) == IF ok THEN Sends(Frame("other"), "sync")
                    ELSE phase' = "serve" /\ UNCHANGED wire

Challenge(nonce, to) == Sends([Frame("challenge") EXCEPT !.nonce = nonce], to)

\* (mutation: the device's word is not heeded)
NeverDisowns(paired) == FALSE
Disowns(paired) == key # NoKey /\ paired = "unpaired"

StatusKnown ==
  /\ phase = "status"
  /\ \E f \in Incoming :
       /\ Hears(f)
       /\ heard' = IF f.kind # "status" THEN "none" ELSE IF f.n = 1 THEN "paired" ELSE "unpaired"
  /\ unpaired' = Disowns(heard')
  /\ verified' = (key = NoKey)
  /\ CASE unpaired'    -> Serves(FALSE)
       [] key = NoKey  -> Serves(TRUE)
       [] OTHER        -> Challenge(1, "challenge")
  /\ UNCHANGED <<key, disk, proven, pairVars, job, queue, client, deviceVars>>

\* (mutation: any device that answers this nonce)
Replayed(f, nonce) == f.nonce = nonce
Verifies(f, nonce) == f.n = key /\ f.nonce = nonce

\* The first answer to a challenge: proof, mismatch, anything else, or none.
Challenged ==
  /\ phase = "challenge"
  /\ \E f \in Incoming :
       /\ Hears(f)
       /\ CASE f.kind = "hmac" -> /\ verified' = Verifies(f, 1) /\ proven' = verified'
                                  /\ Serves(verified') /\ UNCHANGED heard
            [] f = Silence /\ heard = "none" -> SessionOver /\ UNCHANGED wire
            [] f = Silence /\ heard # "none" -> /\ verified' = TRUE /\ UNCHANGED <<proven, heard>>
                                                /\ Serves(TRUE)
            [] OTHER -> Challenge(2, "retry") /\ UNCHANGED <<verified, proven, heard>>
  /\ UNCHANGED <<key, disk, unpaired, pairVars, job, queue, client, deviceVars>>

ChallengedAgain ==
  /\ phase = "retry"
  /\ \E f \in Incoming :
       /\ Hears(f)
       /\ verified' = (f.kind = "hmac" => Verifies(f, 2))
       /\ proven' = (f.kind = "hmac" /\ Verifies(f, 2))
       /\ Serves(verified')
  /\ UNCHANGED <<key, disk, unpaired, pairVars, heard, job, queue, client, deviceVars>>

Synced ==
  /\ phase = "sync"
  /\ \E f \in Incoming : Hears(f)
  /\ phase' = "serve"
  /\ UNCHANGED <<hostVars, pairVars, heard, job, queue, client, deviceVars, wire>>

SessionEnds ==
  /\ phase = "serve" /\ ~link
  /\ SessionOver
  /\ UNCHANGED <<key, disk, unpaired, pairVars, job, queue, client, deviceVars, wire, air, counters>>

-----------------------------------------------------------------------------
(* Serving commands *)

TakeJob ==
  /\ phase = "serve" /\ queue # <<>> /\ Prompt
  /\ job' = Head(queue) /\ queue' = Tail(queue)
  /\ CASE job'.cmd = "pair"  -> Sends(Frame("slots?"), "slots")
       [] job'.cmd = "plain" -> Sends(job'.frame, "plain")
       [] job'.cmd = "gated" -> Sends(job'.frame, "gated")
  /\ UNCHANGED <<hostVars, pairVars, heard, client, deviceVars, air, counters>>

\* The reply goes to the job's handler.
Replies(f) ==
  /\ client' = [client EXCEPT ![job.who] =
       [@ EXCEPT !.ans = f,
                 !.at = IF client[job.who].at = "query" THEN "query answered" ELSE "answered"]]
  /\ job' = NoJob /\ phase' = "serve"

PlainAnswered ==
  /\ phase = "plain"
  /\ \E f \in Incoming : Hears(f) /\ Replies(f)
  /\ UNCHANGED <<hostVars, pairVars, heard, queue, deviceVars, wire>>

\* First byte 0x00, which a status has too.
IsOk(f) == f.kind \in {"ok", "status", "other"}

GatedAnswered ==
  /\ phase = "gated"
  /\ \E f \in Incoming :
       /\ Hears(f)
       /\ CASE IsOk(f)            -> Replies(Frame("ok"))
            [] f.kind = "wait fp" -> phase' = "gate" /\ UNCHANGED <<job, client>>
            [] OTHER              -> Replies(Silence)
  /\ UNCHANGED <<hostVars, pairVars, heard, queue, deviceVars, wire>>

Verdict ==
  /\ phase = "gate"
  /\ \E f \in Incoming :
       /\ Hears(f)
       /\ IF IsOk(f) THEN Replies(Frame("ok"))
          ELSE IF f.kind \in {"no", "silence"} THEN Replies(Silence)
          ELSE UNCHANGED <<phase, job, client>>
  /\ UNCHANGED <<hostVars, pairVars, heard, queue, deviceVars, wire>>

\* A response nobody waits for.
Dropped ==
  /\ phase = "serve" /\ Prompt /\ air # <<>> /\ Head(air).kind \notin Buttons
  /\ air' = Tail(air)
  /\ UNCHANGED <<hostVars, pairVars, workerVars, client, deviceVars, wire, counters>>

-----------------------------------------------------------------------------
(* A pairing attempt *)

PairOver(result) == progress' = result /\ Replies(Nothing) /\ UNCHANGED wire

IsSecondHost(f) == f.kind = "slots" /\ f.occ # {} /\ f.n \notin f.occ

PairSlots ==
  /\ phase = "slots"
  /\ \E f \in Incoming : Hears(f) /\ second' = IsSecondHost(f)
  /\ retries' = Retries /\ Sends(Frame("init"), "init")
  /\ UNCHANGED <<hostVars, progress, heard, job, queue, client, deviceVars>>

\* What PAIR_INIT brought, at once or after the button.
Confirms       == made < MaxAsks /\ made' = made + 1 /\ Sends(With("confirm", made'), "confirm")
\* (mutation: no end to it)
AlwaysAgain(f) == f.kind = "params"
Again(f)       == f.kind = "params" /\ retries > 0

PairGoesOn(f) ==
  \/ /\ Again(f)
     /\ retries' = retries - 1 /\ phase' = "pause"
     /\ UNCHANGED <<progress, made, job, client, wire>>
  \/ f.kind = "pubkey" /\ Confirms /\ UNCHANGED <<progress, retries, job, client>>
  \/ /\ ~Again(f) /\ f.kind # "pubkey"
     /\ PairOver("Failed") /\ UNCHANGED <<retries, made>>

\* WAIT_BUTTON opens the wait for the person at the device.
PairInit ==
  /\ phase = "init"
  /\ \E f \in Incoming :
       /\ Takes(f)
       /\ IF f.kind = "wait"
          THEN /\ progress' = IF second THEN "WaitFp" ELSE "WaitButton"
               /\ phase' = "button" /\ UNCHANGED <<retries, made, job, client, wire>>
          ELSE PairGoesOn(f)
  /\ UNCHANGED <<hostVars, second, heard, queue, deviceVars>>

PairAgain ==
  /\ phase = "pause"
  /\ Sends(Frame("init"), "init")
  /\ UNCHANGED <<hostVars, pairVars, heard, job, queue, client, deviceVars, air, counters>>

PairButton ==
  /\ phase = "button"
  /\ \E f \in Incoming : Takes(f) /\ PairGoesOn(f)
  /\ UNCHANGED <<hostVars, second, heard, queue, deviceVars>>

\* [0x34, status] in any phase that reads notifications.
\* (mutation: believed with no attempt waiting)
Believed      == TRUE
ButtonPending == phase = "button"
Shown(k) == CASE k = "pressed" -> "Ecdh" [] k = "fp ok" -> "WaitButton" [] OTHER -> progress

ButtonNotified ==
  /\ phase \notin {"down", "pause"} /\ Prompt
  /\ air # <<>> /\ Head(air).kind \in Buttons /\ air' = Tail(air)
  /\ LET k == Head(air).kind
     IN IF phase = "button" /\ k \in {"button timeout", "button cancelled"}
        THEN PairOver("Failed")
        ELSE /\ progress' = IF ButtonPending THEN Shown(k) ELSE progress
             /\ UNCHANGED <<phase, job, client, wire>>
  /\ UNCHANGED <<hostVars, second, retries, heard, queue, deviceVars, counters>>

PairConfirm ==
  /\ phase = "confirm"
  /\ \E f \in Incoming :
       /\ Hears(f)
       /\ IF f.kind = "confirmed"
          THEN /\ key' = made /\ disk' \in {made} \cup (IF DiskFails THEN {disk} ELSE {})
               /\ unpaired' = FALSE /\ verified' = TRUE /\ UNCHANGED proven
               /\ PairOver("Done")
          ELSE PairOver("Failed") /\ UNCHANGED hostVars
  /\ UNCHANGED <<second, retries, heard, queue, deviceVars>>

-----------------------------------------------------------------------------
(* The device *)

Paired  == slots[active] # NoKey
Says(f) == air' = Append(air, f)
Rests   == UNCHANGED <<slots, step, gate, boot>>

\* Without a pairing in its slot the device refuses all but a few commands.
AllowedUnpaired == {"status?", "slots?", "init", "confirm"}
Refuses(f) == ~Paired /\ f.kind \notin AllowedUnpaired

Answer(f) ==
  CASE f.kind = "status?"   -> With("status", IF Paired THEN 1 ELSE 0)
    [] f.kind = "challenge" -> [With("hmac", slots[active]) EXCEPT !.nonce = f.nonce]
    [] f.kind = "slots?"    -> [With("slots", active) EXCEPT !.occ = {s \in Slots : slots[s] # NoKey}]
    [] OTHER                -> Frame("other")

Enrolls == ~Paired /\ slots[Other(active)] # NoKey

\* A pairing takes the device's only gate from whatever waited for it.
DevicePairs ==
  \/ Says(Frame("params")) /\ Rests
  \/ Says(Frame("needs reset")) /\ ~Enrolls /\ Rests
  \/ /\ Says(Frame("wait")) /\ step' = IF Enrolls THEN "fp" ELSE "button"
     /\ gate' = Nothing /\ UNCHANGED <<slots, boot>>

DeviceConfirms(f) ==
  IF step = "confirm"
  THEN /\ slots' = [slots EXCEPT ![active] = f.n] /\ step' = "idle"
       /\ Says(Frame("confirmed")) /\ UNCHANGED <<gate, boot>>
  ELSE Says(Frame("not confirmed")) /\ Rests

Cleared(f) == IF f.kind = "reset" THEN [s \in Slots |-> NoKey] ELSE [slots EXCEPT ![f.n] = NoKey]

\* Its own slot the device clears at once and restarts; all else waits for a finger,
\* if one is enrolled.
DeviceClears(f) ==
  \/ Says(Frame("refused")) /\ Rests
  \/ /\ f.kind = "clear" /\ f.n \in {0, active}
     /\ slots' = [slots EXCEPT ![active] = NoKey] /\ boot' = TRUE
     /\ Says(Frame("cleared")) /\ UNCHANGED <<step, gate>>
  \/ /\ f.kind = "reset" /\ slots' = Cleared(f) /\ boot' = TRUE
     /\ Says(Frame("ok")) /\ UNCHANGED <<step, gate>>
  \/ /\ f.kind = "reset" \/ f.n = Other(active)
     /\ gate' = f /\ Says(Frame("wait fp")) /\ UNCHANGED <<slots, step, boot>>

DeviceHandles ==
  /\ link /\ ~boot /\ wire # <<>> /\ wire' = Tail(wire)
  /\ LET f == Head(wire)
     IN \/ Refuses(f) /\ Says(Frame("not paired")) /\ Rests
        \/ f.kind = "init" /\ DevicePairs
        \/ f.kind = "confirm" /\ DeviceConfirms(f)
        \/ ~Refuses(f) /\ f.kind \in {"clear", "reset"} /\ DeviceClears(f)
        \/ /\ ~Refuses(f) /\ f.kind \notin {"init", "confirm", "clear", "reset"}
           /\ Says(Answer(f)) /\ Rests
  /\ UNCHANGED <<hostVars, pairVars, workerVars, client, active, link, counters>>

DeviceSilent ==
  /\ link /\ wire # <<>> /\ lost < MaxLost
  /\ wire' = Tail(wire) /\ lost' = lost + 1
  /\ UNCHANGED <<hostVars, pairVars, workerVars, client, deviceVars, air, made, asks, late, events>>

\* The person at the device: finger, button, neither, or a long press.
DeviceButton ==
  /\ link /\ ~boot
  /\ \/ step = "fp" /\ step' = "button" /\ Says(Frame("fp ok"))
     \/ step = "button" /\ step' = "ecdh" /\ Says(Frame("pressed"))
     \/ step = "ecdh" /\ step' = "confirm" /\ Says(Frame("pubkey"))
     \/ step = "ecdh" /\ step' = "idle" /\ Says(Frame("params"))
     \/ step \in {"fp", "button"} /\ step' = "idle" /\ Says(Frame("button timeout"))
     \/ step \in {"fp", "button"} /\ step' = "idle" /\ Says(Frame("button cancelled"))
  /\ UNCHANGED <<hostVars, pairVars, workerVars, client, slots, active, gate, boot, link,
                 wire, counters>>

DeviceGate ==
  /\ link /\ ~boot /\ gate # Nothing
  /\ \/ Says(Frame("no")) /\ UNCHANGED <<slots, boot>>
     \/ /\ Says(Frame("ok")) /\ slots' = Cleared(gate)
        /\ boot' = (gate.kind = "reset")
  /\ gate' = Nothing
  /\ UNCHANGED <<hostVars, pairVars, workerVars, client, active, step, link, wire, counters>>

-----------------------------------------------------------------------------
(* The world *)

Parted == /\ link' = FALSE /\ boot' = FALSE /\ step' = "idle" /\ gate' = Nothing
          /\ wire' = <<>> /\ air' = <<>>

Rebooted ==
  /\ boot /\ Parted
  /\ UNCHANGED <<hostVars, pairVars, workerVars, client, slots, active, counters>>

Happens == events < MaxEvents /\ events' = events + 1 /\ UNCHANGED <<made, asks, lost, late>>

LinkLost ==
  /\ link /\ Happens /\ Parted
  /\ UNCHANGED <<hostVars, pairVars, workerVars, client, slots, active>>

\* While the device is away: the switch finger, another host, a long press.
Elsewhere ==
  /\ ~link /\ Happens
  /\ \/ active' = Other(active) /\ UNCHANGED slots
     \/ \E s \in Slots : slots[s] = NoKey /\ slots' = [slots EXCEPT ![s] = Theirs] /\ UNCHANGED active
     \/ \E s \in Slots : slots[s] # NoKey /\ slots' = [slots EXCEPT ![s] = NoKey] /\ UNCHANGED active
     \/ slots' = [s \in Slots |-> NoKey] /\ UNCHANGED active
  /\ UNCHANGED <<hostVars, pairVars, workerVars, client, step, gate, boot, link, wire, air>>

\* The daemon dies and starts again with the pairing of the file.
Restart ==
  /\ Happens /\ Parted
  /\ key' = disk /\ UNCHANGED disk
  /\ Forgotten /\ unpaired' = FALSE /\ progress' = "Idle"
  /\ phase' = "down" /\ heard' = "none" /\ second' = FALSE /\ retries' = 0
  /\ job' = NoJob /\ queue' = <<>> /\ client' = [c \in Clients |-> Calm]
  /\ UNCHANGED <<slots, active>>

Worker ==
  \/ Connect \/ StatusKnown \/ Challenged \/ ChallengedAgain \/ Synced \/ SessionEnds
  \/ TakeJob \/ PlainAnswered \/ GatedAnswered \/ Verdict \/ Dropped
  \/ PairSlots \/ PairInit \/ PairAgain \/ PairButton \/ ButtonNotified \/ PairConfirm

Next ==
  \/ Worker
  \/ \E c \in Clients : \/ PairStart(c) \/ ClearOffline(c)
                        \/ OwnerAnswered(c) \/ PathKnown(c) \/ Answered(c)
                        \/ \E op \in Ops : Ask(c, op)
  \/ DeviceHandles \/ DeviceSilent \/ DeviceButton \/ DeviceGate
  \/ Rebooted \/ LinkLost \/ Elsewhere \/ Restart

Spec == Init /\ [][Next]_vars

-----------------------------------------------------------------------------
(* Properties *)

\* The session has started, the device is there and no request is under way.
Settled == /\ phase \notin {"down", "status", "challenge", "retry"} /\ link /\ ~boot
           /\ \A c \in Clients : client[c].at = "idle"

\* A progress that shuts out PAIR:START stands for an attempt the worker is in:
\* no notification, failure, retry or lost session leaves it behind, after which
\* no attempt could begin.  (try_begin_pairing, route_notification, do_pair)
ProgressMeansAttempt == progress \in InFlight => phase \in {"init", "pause", "button", "confirm"}

\* A host that holds a key for a device whose slot is empty says so and does not
\* call it verified, as long as the device answered GET_STATUS - whatever clears,
\* resets and attempts of the session and changes made elsewhere led there.
\* (connect_and_serve, clear_local_pairing)
EmptyIsTold == Settled /\ heard # "none" /\ key # NoKey /\ ~Paired => unpaired /\ ~verified

\* Unless a command went unanswered, a device called verified holds this host's
\* key in the slot it talks through.  (connect_and_serve, do_pair)
VerifiedKnowsUs == Settled /\ lost = 0 /\ key # NoKey /\ verified => slots[active] = key

\* SLOT:STATUS never names another host's slot as this host's, even when answers
\* were lost and the session is verified by assumption.  (handle_slot_status)
MineIsOurs ==
  [][\A c \in Clients : OwnerAnswered(c) /\ link /\ ~boot /\ client'[c].own # 0
                          => slots[client'[c].own] \in Ours]_vars

\* An unpair or a reset that a proven device answers drops the key only when no
\* slot holds it any more: no slot is left behind that its host has forgotten.
\* Lost answers and 0xF2 are the exceptions the code names.  (clear_own_slot,
\* handle_factory_reset)
DroppedForCause ==
  [][\A c \in Clients :
       /\ Answered(c) /\ key' # key /\ proven /\ client[c].op \in {"clear", "reset"}
       /\ client[c].ans.kind \notin {"silence", "not paired"}
       => \A s \in Slots : slots[s] # key]_vars

\* socket.rs:1128 - nor is a zombie slot, one its host has forgotten, left by an
\* unpair that names the slot.
NamedKeepsOwn ==
  [][\A c \in Clients :
       /\ Answered(c) /\ key' # key /\ proven /\ client[c].op \in {"clear 1", "clear 2"}
       /\ client[c].ans.kind \notin {"silence", "not paired"}
       => \A s \in Slots : slots[s] # key]_vars

\* coordinator.rs:251 - an attempt is claimed only when none is in flight.
OnePairingAttempt ==
  [][\A c \in Clients : PairStart(c) =>
       job.cmd # "pair" /\ \A i \in DOMAIN queue : queue[i].cmd # "pair"]_vars

\* ble.rs:780 - one retry recovers from answers out of step: a device that holds
\* this host's key and answers every command is verified.
RetryRecovers == Settled /\ lost = 0 /\ key # NoKey /\ slots[active] = key => verified

\* socket.rs:1175 - a bare clear clears the slot this host uses, and no other's.
ClearSparesOthers ==
  [][DeviceHandles /\ Head(wire).kind = "clear" /\ slots' # slots => slots[active] # Theirs]_vars

\* ble.rs:719 - a device that does not know us is not called verified, whatever
\* was lost.
RefusedIsNotVerified == Settled /\ key # NoKey /\ ~Paired => ~verified
=============================================================================
