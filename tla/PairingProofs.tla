--------------------------- MODULE PairingProofs ---------------------------
(***************************************************************************)
(* Theorems about Pairing, for any number of clients, requests and faults. *)
(*                                                                         *)
(* ProgressSafe stands alone.  KnownSafe says what is known of the keys    *)
(* whatever is lost or late; OwnSlotNamed and EmptySlotsAreTold follow     *)
(* from it.  The last two theorems are for answers that are in time or     *)
(* never come: then commands and answers are in step (InTime), at the      *)
(* start of a session, in a proven one, and always where no slot is named  *)
(* to be cleared; DropsHaveCause and VerifiedHoldsOurs follow from what    *)
(* the answers say.                                                        *)
(***************************************************************************)
EXTENDS Pairing, SequenceTheorems, TLAPS

-----------------------------------------------------------------------------
(* Frames and what carries them *)

Kinds == Cmds \cup Answers \cup Buttons \cup {"silence", "nothing"}

\* What the constructors of frames return.
LEMMA FrameType ==
  ASSUME NEW k \in Kinds, NEW n \in Values \cup Slots
  PROVE  /\ Frame(k) \in Frames /\ With(k, n) \in Frames
         /\ Frame(k).kind = k /\ With(k, n).kind = k
         /\ Frame(k).n = 0 /\ With(k, n).n = n
BY ConstantsAssumption DEF Frame, With, Frames, Kinds, Values

LEMMA FixedFrames ==
  /\ Silence \in Frames /\ Silence.kind = "silence"
  /\ Nothing \in Frames /\ Nothing.kind = "nothing"
BY ConstantsAssumption DEF Silence, Nothing, Frame, Frames, Kinds, Values

\* Taking a response leaves a sequence of frames and a counted late answer.
LEMMA TakesType ==
  ASSUME TypeOK, NEW f \in Incoming, Takes(f)
  PROVE  /\ f \in Frames /\ air' \in Seq(Frames) /\ late' \in 0..MaxLate
         /\ UNCHANGED <<asks, lost, events>>
<1>0. air \in Seq(Frames) /\ late \in 0..MaxLate
  BY DEF TypeOK
<1>1. air # <<>> => Head(air) \in Frames /\ Tail(air) \in Seq(Frames)
  BY <1>0, HeadTailProperties
<1>2. f = Silence \/ (air # <<>> /\ f = Head(air))
  BY DEF Incoming
<1>3. f \in Frames
  BY <1>1, <1>2, FixedFrames
<1>4. air' = air \/ (air # <<>> /\ air' = Tail(air))
  BY DEF Takes
<1>5. late' = late \/ (late < MaxLate /\ late' = late + 1)
  BY DEF Takes
<1>6. late' \in 0..MaxLate
  BY <1>0, <1>5, ConstantsAssumption
<1> QED BY <1>0, <1>1, <1>2, <1>3, <1>4, <1>6 DEF Takes

\* A command sent is one more frame on the wire, or lost with the link.
LEMMA SendsType ==
  ASSUME TypeOK, NEW cmd \in Frames, NEW to, Sends(cmd, to)
  PROVE  wire' \in Seq(Frames) /\ phase' = to
<1>1. wire \in Seq(Frames)
  BY DEF TypeOK
<1>2. Append(wire, cmd) \in Seq(Frames)
  BY <1>1, AppendProperties
<1> QED BY <1>1, <1>2 DEF Sends

\* A reply is kept with the client it is for.
LEMMA RepliesType ==
  ASSUME TypeOK, NEW f \in Frames, Replies(f)
  PROVE  client' \in [Clients -> Handlers] /\ job' = NoJob /\ phase' = "serve"
<1> DEFINE h == [client[job.who] EXCEPT !.ans = f,
                   !.at = IF client[job.who].at = "query" THEN "query answered" ELSE "answered"]
<1>1. client \in [Clients -> Handlers]
  BY DEF TypeOK
<1>2. client' = [client EXCEPT ![job.who] = h] /\ job' = NoJob /\ phase' = "serve"
  BY DEF Replies
<1>3. job.who \in Clients => h \in Handlers
  BY <1>1 DEF Handlers
<1> HIDE DEF h
<1> QED BY <1>1, <1>2, <1>3

\* Dropping the pairing leaves keys and flags what they are.
LEMMA ClearType ==
  ASSUME TypeOK, ClearLocal
  PROVE  /\ key' \in Values /\ disk' \in Values /\ verified' \in BOOLEAN
         /\ proven' \in BOOLEAN /\ unpaired' \in BOOLEAN
<1>1. key' \in Values
  BY ConstantsAssumption DEF ClearLocal, Values, NoKey
<1>2. disk' = NoKey \/ disk' = disk
  BY DEF ClearLocal
<1>3. disk' \in Values
  BY <1>2, ConstantsAssumption DEF TypeOK, Values, NoKey
<1>4. verified' \in BOOLEAN /\ proven' \in BOOLEAN /\ unpaired' \in BOOLEAN
  BY DEF ClearLocal, TypeOK
<1> QED BY <1>1, <1>3, <1>4

\* A handler's next command is a job of its own.
LEMMA QueuedType ==
  ASSUME TypeOK, NEW c \in Clients, NEW cmd \in {"pair", "plain", "gated"}, NEW f \in Frames,
         f.kind \in {"nothing", "slots?", "clear", "reset"}, Queued(c, cmd, f)
  PROVE  queue' \in Seq(Jobs)
<1>1. [who |-> c, cmd |-> cmd, frame |-> f] \in Jobs
  BY DEF Jobs
<1>2. queue \in Seq(Jobs)
  BY DEF TypeOK
<1> QED BY <1>1, <1>2, AppendProperties DEF Queued

\* One handler changes.
LEMMA HandlerType ==
  ASSUME TypeOK, NEW c \in Clients, NEW h \in Handlers
  PROVE  [client EXCEPT ![c] = h] \in [Clients -> Handlers]
BY DEF TypeOK

\* A handler that has left, and one whose request has begun.
LEMMA CalmType ==
  ASSUME NEW op \in Ops, NEW at \in {"act", "query"}, NEW s \in Slots \cup {0}
  PROVE  /\ Calm \in Handlers
         /\ [Calm EXCEPT !.op = op, !.at = at] \in Handlers
         /\ [Calm EXCEPT !.own = s] \in Handlers
BY FixedFrames DEF Calm, Handlers

-----------------------------------------------------------------------------
(* Type correctness *)

LEMMA TypeInit == Init => TypeOK
<1> SUFFICES ASSUME Init PROVE TypeOK
  OBVIOUS
<1>1. slots \in [Slots -> Values]
  BY ConstantsAssumption DEF Init, Values, NoKey, Theirs
<1>2. client \in [Clients -> Handlers]
  BY FixedFrames DEF Init, Calm, Handlers
<1>3. /\ wire \in Seq(Frames) /\ air \in Seq(Frames) /\ queue \in Seq(Jobs)
  BY EmptySeq DEF Init
<1>4. /\ key \in Values /\ disk \in Values /\ made \in 0..MaxAsks /\ asks \in 0..MaxAsks
      /\ retries \in 0..Retries
      /\ lost \in 0..MaxLost /\ late \in 0..MaxLate /\ events \in 0..MaxEvents
  BY ConstantsAssumption DEF Init, Values, NoKey
<1>5. gate \in GateFrames
  BY FixedFrames DEF Init, GateFrames
<1> QED BY <1>1, <1>2, <1>3, <1>4, <1>5 DEF Init, TypeOK

\* The handlers' steps.
LEMMA TypeHandler ==
  ASSUME TypeOK, NEW c \in Clients,
         \/ PairStart(c) \/ ClearOffline(c) \/ OwnerAnswered(c) \/ PathKnown(c) \/ Answered(c)
         \/ \E op \in Ops : Ask(c, op)
  PROVE  TypeOK'
<1> USE DEF hostVars, pairVars, workerVars, deviceVars, counters
<1>a. asks < MaxAsks => asks + 1 \in 0..MaxAsks
  BY ConstantsAssumption DEF TypeOK
<1>b. client[c] \in Handlers
  BY DEF TypeOK
<1>1. CASE PairStart(c)
  <2>1. queue' \in Seq(Jobs)
    BY <1>1, QueuedType, FixedFrames DEF PairStart
  <2>2. client' \in [Clients -> Handlers]
    <3>1. /\ "pair" \in Ops
          /\ client' = [client EXCEPT ![c] = [Calm EXCEPT !.op = "pair", !.at = "act"]]
      BY <1>1 DEF PairStart
    <3>2. [Calm EXCEPT !.op = "pair", !.at = "act"] \in Handlers
      BY <3>1, CalmType
    <3> QED BY <3>1, <3>2, HandlerType
  <2> QED BY <1>1, <1>a, <2>1, <2>2 DEF PairStart, TypeOK
<1>2. CASE ClearOffline(c)
  <2>1. asks' \in 0..MaxAsks
    BY <1>2, <1>a DEF ClearOffline
  <2>2. /\ key' \in Values /\ disk' \in Values /\ verified' \in BOOLEAN
        /\ proven' \in BOOLEAN /\ unpaired' \in BOOLEAN
    BY <1>2, ClearType DEF ClearOffline
  <2> QED BY <1>2, <2>1, <2>2 DEF ClearOffline, TypeOK
<1>3. CASE OwnerAnswered(c)
  <2> DEFINE s == IF client[c].ans.kind = "slots" THEN Mine(client[c].ans) ELSE 0
  <2>1. s \in Slots \cup {0}
    BY <1>b DEF Mine, Handlers, Frames
  <2>2. client' = [client EXCEPT ![c] = [Calm EXCEPT !.own = s]]
    BY <1>3 DEF OwnerAnswered
  <2> HIDE DEF s
  <2>3. [Calm EXCEPT !.own = s] \in Handlers
    BY <2>1, FixedFrames DEF Calm, Handlers
  <2>4. client' \in [Clients -> Handlers]
    BY <2>2, <2>3, HandlerType
  <2>5. UNCHANGED <<hostVars, pairVars, workerVars, deviceVars, wire, air, counters>>
    BY <1>3 DEF OwnerAnswered
  <2> QED BY <2>4, <2>5 DEF TypeOK
<1>4. CASE PathKnown(c)
  <2> DEFINE s == Target(client[c].op)
             f == client[c].ans
  <2>1. s \in Slots
    BY <1>4 DEF PathKnown, Target, Slots
  <2>2. With("clear", s) \in Frames /\ With("clear", s).kind = "clear"
    BY <2>1, FrameType DEF Kinds, Cmds
  <2>3. queue' \in Seq(Jobs)
    <3>1. CASE f.kind = "slots"
      <4>1. Queued(c, IF s = f.n THEN "plain" ELSE "gated", With("clear", s))
        BY <1>4, <3>1 DEF PathKnown
      <4> QED BY <4>1, <2>2, QueuedType
    <3>2. CASE f.kind # "slots"
      BY <1>4, <3>2 DEF PathKnown, TypeOK
    <3> QED BY <3>1, <3>2
  <2>4. client' \in [Clients -> Handlers]
    <3> DEFINE own == IF s = f.n THEN s ELSE 0
               h   == [client[c] EXCEPT !.at = "act", !.ans = Nothing, !.own = own]
    <3>1. client' = [client EXCEPT ![c] = h] \/ client' = [client EXCEPT ![c] = Calm]
      BY <1>4 DEF PathKnown, Leaves
    <3>2. own \in Slots \cup {0}
      BY <2>1
    <3> HIDE DEF own
    <3>3. h \in Handlers /\ Calm \in Handlers
      BY <1>b, <3>2, FixedFrames DEF Calm, Handlers
    <3> HIDE DEF h
    <3> QED BY <3>1, <3>3, HandlerType
  <2>5. UNCHANGED <<hostVars, pairVars, phase, heard, job, deviceVars, wire, air, counters>>
    BY <1>4 DEF PathKnown
  <2> HIDE DEF s, f
  <2> QED BY <2>3, <2>4, <2>5 DEF TypeOK
<1>5. CASE Answered(c)
  <2>1. /\ key' \in Values /\ disk' \in Values /\ verified' \in BOOLEAN
        /\ proven' \in BOOLEAN /\ unpaired' \in BOOLEAN
    <3>1. ClearLocal \/ UNCHANGED hostVars
      BY <1>5 DEF Answered
    <3> QED BY <3>1, ClearType DEF TypeOK
  <2>2. client' \in [Clients -> Handlers]
    <3>1. client' = [client EXCEPT ![c] = Calm] /\ client \in [Clients -> Handlers]
      BY <1>5 DEF Answered, Leaves, TypeOK
    <3> QED BY <3>1, FixedFrames DEF Calm, Handlers
  <2> QED BY <1>5, <2>1, <2>2 DEF Answered, TypeOK
<1>6. ASSUME NEW op \in Ops, Ask(c, op)
      PROVE  TypeOK'
  <2> DEFINE first == FirstCommand(op)
  <2>1. \E k \in {"reset", "clear", "slots?"} : first.frame = Frame(k)
    BY DEF FirstCommand
  <2>2. first.frame \in Frames /\ first.frame.kind \in {"nothing", "slots?", "clear", "reset"}
    BY <2>1, FrameType DEF Kinds, Cmds, Slots
  <2>3. first.at \in {"act", "query"} /\ first.cmd \in {"pair", "plain", "gated"}
    BY DEF FirstCommand
  <2>4. /\ client' = [client EXCEPT ![c] = [Calm EXCEPT !.op = op, !.at = first.at]]
        /\ Queued(c, first.cmd, first.frame) /\ asks < MaxAsks /\ asks' = asks + 1
        /\ UNCHANGED <<hostVars, pairVars, phase, heard, job, deviceVars, wire, air,
                       made, lost, late, events>>
    BY <1>6 DEF Ask
  <2> HIDE DEF first
  <2>5. queue' \in Seq(Jobs)
    BY <2>2, <2>3, <2>4, QueuedType
  <2>6. [Calm EXCEPT !.op = op, !.at = first.at] \in Handlers
    BY <2>3, CalmType
  <2>7. client' \in [Clients -> Handlers]
    BY <2>4, <2>6, HandlerType
  <2>8. asks' \in 0..MaxAsks
    BY <2>4, <1>a
  <2> QED BY <2>4, <2>5, <2>7, <2>8 DEF TypeOK
<1> QED BY <1>1, <1>2, <1>3, <1>4, <1>5, <1>6

\* What Incoming and Takes give the worker, as used below.
LEMMA ServesType ==
  ASSUME TypeOK, NEW ok \in BOOLEAN, Serves(ok)
  PROVE  wire' \in Seq(Frames) /\ phase' \in {"sync", "serve"}
<1>1. CASE ok
  <2>1. Sends(Frame("other"), "sync")
    BY <1>1 DEF Serves
  <2>2. Frame("other") \in Frames
    BY FrameType DEF Kinds, Cmds, Slots
  <2> QED BY <2>1, <2>2, SendsType
<1>2. CASE ~ok
  BY <1>2 DEF Serves, TypeOK
<1> QED BY <1>1, <1>2

LEMMA ChallengeType ==
  ASSUME TypeOK, NEW nonce \in {1, 2}, NEW to, Challenge(nonce, to)
  PROVE  wire' \in Seq(Frames) /\ phase' = to
<1>1. Frame("challenge") \in Frames
  BY FrameType DEF Kinds, Cmds, Slots
<1>2. [Frame("challenge") EXCEPT !.nonce = nonce] \in Frames
  BY <1>1 DEF Frames
<1> QED BY <1>2, SendsType DEF Challenge

\* The start and the end of a session.
LEMMA TypeSession ==
  ASSUME TypeOK,
         Connect \/ StatusKnown \/ Challenged \/ ChallengedAgain \/ Synced \/ SessionEnds
  PROVE  TypeOK'
<1> USE DEF hostVars, pairVars, workerVars, deviceVars, counters
<1>1. CASE Connect
  <2>1. Frame("status?") \in Frames
    BY FrameType DEF Kinds, Cmds, Slots
  <2>2. wire' \in Seq(Frames)
    BY <1>1, <2>1, AppendProperties DEF Connect, TypeOK
  <2>3. /\ link' = TRUE /\ verified' = FALSE /\ proven' = FALSE /\ phase' = "status" /\ heard' = "none"
        /\ UNCHANGED <<key, disk, unpaired, pairVars, job, queue, client, slots, active, step,
                       gate, boot, air, counters>>
    BY <1>1 DEF Connect, Forgotten
  <2> QED BY <2>2, <2>3 DEF TypeOK, Waits
<1>2. CASE StatusKnown
  <2>1. PICK f \in Incoming :
          /\ Hears(f)
          /\ heard' = IF f.kind # "status" THEN "none" ELSE IF f.n = 1 THEN "paired" ELSE "unpaired"
    BY <1>2 DEF StatusKnown
  <2>2. /\ air' \in Seq(Frames) /\ late' \in 0..MaxLate /\ UNCHANGED <<made, asks, lost, events>>
    BY <2>1, TakesType DEF Hears
  <2>3. heard' \in {"paired", "unpaired", "none"}
    BY <2>1
  <2>4. unpaired' \in BOOLEAN /\ verified' \in BOOLEAN
    BY <1>2 DEF StatusKnown, Disowns
  <2>5. Serves(FALSE) \/ Serves(TRUE) \/ Challenge(1, "challenge")
    BY <1>2 DEF StatusKnown
  <2>6. wire' \in Seq(Frames) /\ phase' \in {"sync", "serve", "challenge"}
    BY <2>5, ServesType, ChallengeType
  <2>7. UNCHANGED <<key, disk, proven, pairVars, job, queue, client, deviceVars>>
    BY <1>2 DEF StatusKnown
  <2> QED BY <2>2, <2>3, <2>4, <2>6, <2>7 DEF TypeOK, Waits
<1>3. CASE Challenged
  <2>1. PICK f \in Incoming :
          /\ Hears(f)
          /\ \/ /\ verified' = Verifies(f, 1) /\ proven' = verified'
                /\ Serves(verified') /\ UNCHANGED heard
             \/ SessionOver /\ UNCHANGED wire
             \/ /\ verified' = TRUE /\ UNCHANGED <<proven, heard>> /\ Serves(TRUE)
             \/ Challenge(2, "retry") /\ UNCHANGED <<verified, proven, heard>>
    BY <1>3 DEF Challenged
  <2>2. /\ air' \in Seq(Frames) /\ late' \in 0..MaxLate /\ UNCHANGED <<made, asks, lost, events>>
    BY <2>1, TakesType DEF Hears
  <2>3. Verifies(f, 1) \in BOOLEAN
    BY DEF Verifies
  <2>4. verified' \in BOOLEAN /\ proven' \in BOOLEAN /\ heard' \in {"paired", "unpaired", "none"}
    BY <2>1, <2>3 DEF SessionOver, Forgotten, TypeOK
  <2>5. wire' \in Seq(Frames) /\ phase' \in {"sync", "serve", "retry", "down"}
    <3>1. CASE SessionOver /\ UNCHANGED wire
      BY <3>1 DEF SessionOver, TypeOK
    <3>2. CASE Serves(verified') \/ Serves(TRUE) \/ Challenge(2, "retry")
      BY <3>2, <2>4, ServesType, ChallengeType
    <3> QED BY <2>1, <3>1, <3>2
  <2>6. UNCHANGED <<key, disk, unpaired, pairVars, job, queue, client, deviceVars>>
    BY <1>3 DEF Challenged
  <2> QED BY <2>2, <2>4, <2>5, <2>6 DEF TypeOK, Waits
<1>4. CASE ChallengedAgain
  <2>1. PICK f \in Incoming : Hears(f) /\ Serves(verified')
    BY <1>4 DEF ChallengedAgain
  <2>2. /\ air' \in Seq(Frames) /\ late' \in 0..MaxLate /\ UNCHANGED <<made, asks, lost, events>>
    BY <2>1, TakesType DEF Hears
  <2>3. verified' \in BOOLEAN /\ proven' \in BOOLEAN
    BY <1>4 DEF ChallengedAgain
  <2>4. wire' \in Seq(Frames) /\ phase' \in {"sync", "serve"}
    BY <2>1, <2>3, ServesType
  <2>5. UNCHANGED <<key, disk, unpaired, pairVars, heard, job, queue, client, deviceVars>>
    BY <1>4 DEF ChallengedAgain
  <2> QED BY <2>2, <2>3, <2>4, <2>5 DEF TypeOK, Waits
<1>5. CASE Synced
  <2>1. PICK f \in Incoming : Hears(f)
    BY <1>5 DEF Synced
  <2>2. /\ air' \in Seq(Frames) /\ late' \in 0..MaxLate /\ UNCHANGED <<made, asks, lost, events>>
    BY <2>1, TakesType DEF Hears
  <2>3. /\ phase' = "serve"
        /\ UNCHANGED <<hostVars, pairVars, heard, job, queue, client, deviceVars, wire>>
    BY <1>5 DEF Synced
  <2> QED BY <2>2, <2>3 DEF TypeOK
<1>6. CASE SessionEnds
  BY <1>6 DEF SessionEnds, SessionOver, Forgotten, TypeOK
<1> QED BY <1>1, <1>2, <1>3, <1>4, <1>5, <1>6

\* Serving a command, and what is answered to it.
LEMMA TypeServing ==
  ASSUME TypeOK, TakeJob \/ PlainAnswered \/ GatedAnswered \/ Verdict \/ Dropped
  PROVE  TypeOK'
<1> USE DEF hostVars, pairVars, workerVars, deviceVars, counters
<1>0. Frame("ok") \in Frames /\ Silence \in Frames /\ Frame("slots?") \in Frames
  BY FrameType, FixedFrames DEF Kinds, Cmds, Answers, Slots
<1>1. CASE TakeJob
  <2>1. queue # <<>> /\ queue \in Seq(Jobs)
    BY <1>1 DEF TakeJob, TypeOK
  <2>2. Head(queue) \in Jobs /\ Tail(queue) \in Seq(Jobs)
    BY <2>1, HeadTailProperties
  <2>3. job' \in Jobs /\ queue' \in Seq(Jobs)
    BY <1>1, <2>2 DEF TakeJob
  <2>4. \/ Sends(Frame("slots?"), "slots") \/ Sends(job'.frame, "plain")
        \/ Sends(job'.frame, "gated")
    BY <1>1, <2>3 DEF TakeJob, Jobs
  <2>5. job'.frame \in Frames
    BY <2>3 DEF Jobs
  <2>6. wire' \in Seq(Frames) /\ phase' \in {"slots", "plain", "gated"}
    BY <1>0, <2>4, <2>5, SendsType
  <2>7. UNCHANGED <<hostVars, pairVars, heard, client, deviceVars, air, counters>>
    BY <1>1 DEF TakeJob
  <2> QED BY <2>3, <2>6, <2>7 DEF TypeOK, Waits
<1>2. CASE PlainAnswered \/ GatedAnswered \/ Verdict
  <2>1. PICK f \in Incoming :
          /\ Hears(f)
          /\ \/ Replies(f) \/ Replies(Frame("ok")) \/ Replies(Silence)
             \/ phase' = "gate" /\ UNCHANGED <<job, client>>
    BY <1>2 DEF PlainAnswered, GatedAnswered, Verdict
  <2>2. /\ f \in Frames /\ air' \in Seq(Frames) /\ late' \in 0..MaxLate
        /\ UNCHANGED <<made, asks, lost, events>>
    BY <2>1, TakesType DEF Hears
  <2>3. /\ client' \in [Clients -> Handlers] /\ job' \in Jobs \cup {NoJob}
        /\ phase' \in {"serve", "gate"}
    <3>1. CASE Replies(f) \/ Replies(Frame("ok")) \/ Replies(Silence)
      BY <3>1, <1>0, <2>2, RepliesType
    <3>2. CASE phase' = "gate" /\ UNCHANGED <<job, client>>
      BY <3>2 DEF TypeOK
    <3> QED BY <2>1, <3>1, <3>2
  <2>4. UNCHANGED <<hostVars, pairVars, heard, queue, deviceVars, wire>>
    BY <1>2 DEF PlainAnswered, GatedAnswered, Verdict
  <2> QED BY <2>2, <2>3, <2>4 DEF TypeOK, Waits
<1>3. CASE Dropped
  <2>1. air' \in Seq(Frames)
    BY <1>3, HeadTailProperties DEF Dropped, TypeOK
  <2>2. UNCHANGED <<hostVars, pairVars, workerVars, client, deviceVars, wire, counters>>
    BY <1>3 DEF Dropped
  <2> QED BY <2>1, <2>2 DEF TypeOK
<1> QED BY <1>1, <1>2, <1>3

\* An attempt goes on or is over.
LEMMA PairGoesOnType ==
  ASSUME TypeOK, NEW f, PairGoesOn(f)
  PROVE  /\ retries' \in 0..Retries /\ made' \in 0..MaxAsks
         /\ progress' \in InFlight \cup {"Idle", "Done", "Failed"}
         /\ phase' \in {"pause", "confirm", "serve"}
         /\ job' \in Jobs \cup {NoJob} /\ client' \in [Clients -> Handlers]
         /\ wire' \in Seq(Frames)
<1>1. CASE /\ Again(f) /\ retries' = retries - 1 /\ phase' = "pause"
           /\ UNCHANGED <<progress, made, job, client, wire>>
  <2>1. retries' \in 0..Retries
    BY <1>1, ConstantsAssumption DEF Again, TypeOK
  <2> QED BY <1>1, <2>1 DEF TypeOK
<1>2. CASE Confirms /\ UNCHANGED <<progress, retries, job, client>>
  <2>1. made' \in 0..MaxAsks /\ made' \in Values
    BY <1>2, ConstantsAssumption DEF Confirms, TypeOK, Values
  <2>2. With("confirm", made') \in Frames
    BY <2>1, FrameType DEF Kinds, Cmds
  <2>3. wire' \in Seq(Frames) /\ phase' = "confirm"
    BY <1>2, <2>2, SendsType DEF Confirms
  <2> QED BY <1>2, <2>1, <2>3 DEF TypeOK
<1>3. CASE PairOver("Failed") /\ UNCHANGED <<retries, made>>
  <2>1. /\ progress' = "Failed" /\ Replies(Nothing) /\ UNCHANGED <<wire, retries, made>>
    BY <1>3 DEF PairOver
  <2>2. client' \in [Clients -> Handlers] /\ job' = NoJob /\ phase' = "serve"
    BY <2>1, FixedFrames, RepliesType
  <2> QED BY <2>1, <2>2 DEF TypeOK
<1> QED BY <1>1, <1>2, <1>3 DEF PairGoesOn

\* The steps of a pairing attempt.
LEMMA TypePair ==
  ASSUME TypeOK,
         PairSlots \/ PairInit \/ PairAgain \/ PairButton \/ ButtonNotified \/ PairConfirm
  PROVE  TypeOK'
<1> USE DEF hostVars, pairVars, workerVars, deviceVars, counters
<1>0. Frame("init") \in Frames
  BY FrameType DEF Kinds, Cmds, Slots
<1>1. CASE PairSlots
  <2>1. PICK f \in Incoming : Hears(f) /\ second' = IsSecondHost(f)
    BY <1>1 DEF PairSlots
  <2>2. /\ air' \in Seq(Frames) /\ late' \in 0..MaxLate /\ UNCHANGED <<made, asks, lost, events>>
    BY <2>1, TakesType DEF Hears
  <2>3. second' \in BOOLEAN
    BY <2>1 DEF IsSecondHost
  <2>4. wire' \in Seq(Frames) /\ phase' = "init"
    BY <1>1, <1>0, SendsType DEF PairSlots
  <2>5. retries' \in 0..Retries
    BY <1>1, ConstantsAssumption DEF PairSlots
  <2>6. UNCHANGED <<hostVars, progress, heard, job, queue, client, deviceVars>>
    BY <1>1 DEF PairSlots
  <2> QED BY <2>2, <2>3, <2>4, <2>5, <2>6 DEF TypeOK, Waits
<1>2. CASE PairInit \/ PairButton
  <2>1. PICK f \in Incoming :
          /\ Takes(f)
          /\ \/ /\ progress' \in InFlight /\ phase' = "button"
                /\ UNCHANGED <<retries, made, job, client, wire>>
             \/ PairGoesOn(f)
    BY <1>2 DEF PairInit, PairButton, InFlight
  <2>2. /\ air' \in Seq(Frames) /\ late' \in 0..MaxLate /\ UNCHANGED <<asks, lost, events>>
    BY <2>1, TakesType
  <2>3. /\ retries' \in 0..Retries /\ made' \in 0..MaxAsks
        /\ progress' \in InFlight \cup {"Idle", "Done", "Failed"}
        /\ phase' \in {"button", "pause", "confirm", "serve"}
        /\ job' \in Jobs \cup {NoJob} /\ client' \in [Clients -> Handlers]
        /\ wire' \in Seq(Frames)
    <3>1. CASE PairGoesOn(f)
      BY <3>1, PairGoesOnType
    <3>2. CASE /\ progress' \in InFlight /\ phase' = "button"
               /\ UNCHANGED <<retries, made, job, client, wire>>
      BY <3>2 DEF TypeOK
    <3> QED BY <2>1, <3>1, <3>2
  <2>4. UNCHANGED <<hostVars, second, heard, queue, deviceVars>>
    BY <1>2 DEF PairInit, PairButton
  <2> QED BY <2>2, <2>3, <2>4 DEF TypeOK, Waits
<1>3. CASE PairAgain
  <2>1. wire' \in Seq(Frames) /\ phase' = "init"
    BY <1>3, <1>0, SendsType DEF PairAgain
  <2>2. UNCHANGED <<hostVars, pairVars, heard, job, queue, client, deviceVars, air, counters>>
    BY <1>3 DEF PairAgain
  <2> QED BY <2>1, <2>2 DEF TypeOK, Waits
<1>4. CASE ButtonNotified
  <2>1. air' \in Seq(Frames)
    BY <1>4, HeadTailProperties DEF ButtonNotified, TypeOK
  <2>2. \/ PairOver("Failed")
        \/ /\ progress' \in InFlight \cup {progress}
           /\ UNCHANGED <<phase, job, client, wire>>
    BY <1>4 DEF ButtonNotified, Shown, InFlight
  <2>3. /\ progress' \in InFlight \cup {"Idle", "Done", "Failed"}
        /\ phase' \in Waits \cup {"down", "serve", "pause"} /\ wire' \in Seq(Frames)
        /\ job' \in Jobs \cup {NoJob} /\ client' \in [Clients -> Handlers]
    <3>1. CASE PairOver("Failed")
      BY <3>1, FixedFrames, RepliesType DEF PairOver, TypeOK
    <3>2. CASE /\ progress' \in InFlight \cup {progress}
               /\ UNCHANGED <<phase, job, client, wire>>
      BY <3>2 DEF TypeOK
    <3> QED BY <2>2, <3>1, <3>2
  <2>4. UNCHANGED <<hostVars, second, retries, heard, queue, deviceVars, counters>>
    BY <1>4 DEF ButtonNotified
  <2> QED BY <2>1, <2>3, <2>4 DEF TypeOK
<1>5. CASE PairConfirm
  <2>1. PICK f \in Incoming :
          /\ Hears(f)
          /\ \/ /\ key' = made /\ disk' \in {made} \cup (IF DiskFails THEN {disk} ELSE {})
                /\ unpaired' = FALSE /\ verified' = TRUE /\ UNCHANGED proven
                /\ PairOver("Done")
             \/ PairOver("Failed") /\ UNCHANGED hostVars
    BY <1>5 DEF PairConfirm
  <2>2. /\ air' \in Seq(Frames) /\ late' \in 0..MaxLate /\ UNCHANGED <<made, asks, lost, events>>
    BY <2>1, TakesType DEF Hears
  <2>3. made \in Values
    BY ConstantsAssumption DEF TypeOK, Values
  <2>4. key' \in Values /\ disk' \in Values
    <3>1. key' \in {made, key} /\ disk' \in {made, disk}
      BY <2>1
    <3> QED BY <3>1, <2>3 DEF TypeOK
  <2>5. unpaired' \in BOOLEAN /\ verified' \in BOOLEAN /\ proven' \in BOOLEAN
    BY <2>1 DEF TypeOK
  <2>6. /\ progress' \in {"Done", "Failed"} /\ phase' = "serve" /\ UNCHANGED wire
        /\ job' = NoJob /\ client' \in [Clients -> Handlers]
    BY <2>1, FixedFrames, RepliesType DEF PairOver
  <2>7. UNCHANGED <<second, retries, heard, queue, deviceVars>>
    BY <1>5 DEF PairConfirm
  <2> QED BY <2>2, <2>4, <2>5, <2>6, <2>7 DEF TypeOK
<1> QED BY <1>1, <1>2, <1>3, <1>4, <1>5

\* What the device answers is a frame, and its slots hold keys.
LEMMA SaysType ==
  ASSUME TypeOK, NEW f \in Frames, Says(f)
  PROVE  air' \in Seq(Frames)
<1>1. air \in Seq(Frames)
  BY DEF TypeOK
<1> QED BY <1>1, AppendProperties DEF Says

LEMMA AnswerType ==
  ASSUME TypeOK, NEW f \in Frames
  PROVE  Answer(f) \in Frames
<1>0. slots \in [Slots -> Values] /\ active \in Slots
  BY DEF TypeOK
<1>1. (IF Paired THEN 1 ELSE 0) \in Values \cup Slots
  BY ConstantsAssumption DEF Values, Slots
<1>2. With("status", IF Paired THEN 1 ELSE 0) \in Frames
  BY <1>1, FrameType DEF Kinds, Answers
<1>3. With("hmac", slots[active]) \in Frames
  BY <1>0, FrameType DEF Kinds, Answers
<1>4. [With("hmac", slots[active]) EXCEPT !.nonce = f.nonce] \in Frames
  BY <1>3 DEF Frames
<1>5. With("slots", active) \in Frames
  BY <1>0, FrameType DEF Kinds, Answers
<1>6. [With("slots", active) EXCEPT !.occ = {s \in Slots : slots[s] # NoKey}] \in Frames
  BY <1>5 DEF Frames
<1>7. Frame("other") \in Frames
  BY FrameType DEF Kinds, Answers, Slots
<1> QED BY <1>2, <1>4, <1>6, <1>7 DEF Answer

LEMMA ClearedType ==
  ASSUME TypeOK, NEW f
  PROVE  Cleared(f) \in [Slots -> Values]
<1>1. slots \in [Slots -> Values] /\ NoKey \in Values
  BY ConstantsAssumption DEF TypeOK, Values, NoKey
<1> QED BY <1>1 DEF Cleared

\* A command at the device.
LEMMA TypeHandles ==
  ASSUME TypeOK, DeviceHandles
  PROVE  TypeOK'
<1> USE DEF hostVars, pairVars, workerVars, deviceVars, counters
<1> DEFINE f == Head(wire)
<1>1. wire # <<>> /\ wire \in Seq(Frames) /\ wire' = Tail(wire)
  BY DEF DeviceHandles, TypeOK
<1>2. f \in Frames /\ wire' \in Seq(Frames)
  BY <1>1, HeadTailProperties
<1>3. \/ Says(Frame("not paired")) /\ Rests
      \/ DevicePairs
      \/ DeviceConfirms(f)
      \/ f.kind \in {"clear", "reset"} /\ DeviceClears(f)
      \/ Says(Answer(f)) /\ Rests
  BY DEF DeviceHandles
<1>4. UNCHANGED <<hostVars, pairVars, workerVars, client, active, link, counters>>
  BY DEF DeviceHandles
<1> HIDE DEF f
<1>5. \A k \in Answers : Frame(k) \in Frames
  BY FrameType DEF Kinds, Slots
<1>6. /\ air' \in Seq(Frames) /\ slots' \in [Slots -> Values] /\ boot' \in BOOLEAN
      /\ gate' \in GateFrames /\ step' \in {"idle", "fp", "button", "ecdh", "confirm"}
  <2>0. /\ slots \in [Slots -> Values] /\ boot \in BOOLEAN /\ gate \in GateFrames
        /\ step \in {"idle", "fp", "button", "ecdh", "confirm"}
    BY DEF TypeOK
  <2>1. CASE Says(Frame("not paired")) /\ Rests
    BY <1>5, <2>0, <2>1, SaysType DEF Rests, Answers
  <2>2. CASE DevicePairs
    <3>1. \E k \in Answers : Says(Frame(k))
      BY <2>2 DEF DevicePairs, Answers
    <3>2. \/ Rests
          \/ /\ step' \in {"fp", "button"} /\ gate' = Nothing /\ UNCHANGED <<slots, boot>>
      BY <2>2 DEF DevicePairs
    <3>3. Nothing \in GateFrames
      BY FixedFrames DEF GateFrames
    <3> QED BY <1>5, <2>0, <3>1, <3>2, <3>3, SaysType DEF Rests
  <2>3. CASE DeviceConfirms(f)
    <3>1. \E k \in Answers : Says(Frame(k))
      BY <2>3 DEF DeviceConfirms, Answers
    <3>2. \/ Rests
          \/ /\ slots' = [slots EXCEPT ![active] = f.n] /\ step' = "idle"
             /\ f.n \in Values /\ UNCHANGED <<gate, boot>>
      <4>1. f.n \in Values
        BY <1>2, ConstantsAssumption DEF Frames, Values, Slots
      <4> QED BY <2>3, <4>1 DEF DeviceConfirms
    <3> QED BY <1>5, <2>0, <3>1, <3>2, SaysType DEF Rests
  <2>4. CASE f.kind \in {"clear", "reset"} /\ DeviceClears(f)
    <3>1. \E k \in Answers : Says(Frame(k))
      BY <2>4 DEF DeviceClears, Answers
    <3>2. \/ Rests
          \/ /\ slots' = [slots EXCEPT ![active] = NoKey] /\ boot' = TRUE
             /\ UNCHANGED <<step, gate>>
          \/ slots' = Cleared(f) /\ boot' = TRUE /\ UNCHANGED <<step, gate>>
          \/ gate' = f /\ UNCHANGED <<slots, step, boot>>
      BY <2>4 DEF DeviceClears
    <3>3. NoKey \in Values /\ f \in GateFrames
      BY <1>2, <2>4, ConstantsAssumption DEF Values, NoKey, GateFrames
    <3> QED BY <1>5, <2>0, <3>1, <3>2, <3>3, SaysType, ClearedType DEF Rests
  <2>5. CASE Says(Answer(f)) /\ Rests
    BY <1>2, <2>0, <2>5, AnswerType, SaysType DEF Rests
  <2> QED BY <1>3, <2>1, <2>2, <2>3, <2>4, <2>5
<1> QED BY <1>2, <1>4, <1>6 DEF TypeOK

\* Fingers, buttons, links and whatever happens elsewhere.
LEMMA TypeWorld ==
  ASSUME TypeOK,
         DeviceSilent \/ DeviceButton \/ DeviceGate \/ Rebooted \/ LinkLost \/ Elsewhere \/ Restart
  PROVE  TypeOK'
<1> USE DEF hostVars, pairVars, workerVars, deviceVars, counters
<1>a. Nothing \in GateFrames /\ <<>> \in Seq(Frames) /\ <<>> \in Seq(Jobs)
  BY FixedFrames, EmptySeq DEF GateFrames
<1>b. \A k \in Kinds : Frame(k) \in Frames
  BY FrameType DEF Slots
<1>c. Happens => events' \in 0..MaxEvents /\ UNCHANGED <<made, asks, lost, late>>
  BY ConstantsAssumption DEF Happens, TypeOK
<1>1. CASE DeviceSilent
  <2>1. wire' \in Seq(Frames)
    BY <1>1, HeadTailProperties DEF DeviceSilent, TypeOK
  <2>2. lost' \in 0..MaxLost
    BY <1>1, ConstantsAssumption DEF DeviceSilent, TypeOK
  <2>3. UNCHANGED <<hostVars, pairVars, workerVars, client, deviceVars, air, made, asks, late, events>>
    BY <1>1 DEF DeviceSilent
  <2> QED BY <2>1, <2>2, <2>3 DEF TypeOK
<1>2. CASE DeviceButton
  <2>1. \E k \in Kinds : Says(Frame(k))
    BY <1>2 DEF DeviceButton, Kinds, Answers, Buttons
  <2>2. air' \in Seq(Frames)
    BY <2>1, <1>b, SaysType
  <2>3. step' \in {"idle", "button", "ecdh", "confirm"}
    BY <1>2 DEF DeviceButton
  <2>4. UNCHANGED <<hostVars, pairVars, workerVars, client, slots, active, gate, boot, link,
                    wire, counters>>
    BY <1>2 DEF DeviceButton
  <2> QED BY <2>2, <2>3, <2>4 DEF TypeOK
<1>3. CASE DeviceGate
  <2>1. \E k \in Kinds : Says(Frame(k))
    BY <1>3 DEF DeviceGate, Kinds, Answers
  <2>2. air' \in Seq(Frames)
    BY <2>1, <1>b, SaysType
  <2>3. /\ UNCHANGED <<slots, boot>> \/ (slots' = Cleared(gate) /\ boot' \in BOOLEAN)
        /\ gate' = Nothing
        /\ UNCHANGED <<hostVars, pairVars, workerVars, client, active, step, link, wire, counters>>
    BY <1>3 DEF DeviceGate
  <2>4. slots' \in [Slots -> Values] /\ boot' \in BOOLEAN
    BY <2>3, ClearedType DEF TypeOK
  <2> QED BY <1>a, <2>2, <2>3, <2>4 DEF TypeOK
<1>4. CASE Rebooted
  BY <1>4, <1>a DEF Rebooted, Parted, TypeOK
<1>5. CASE LinkLost
  <2>1. events' \in 0..MaxEvents /\ UNCHANGED <<made, asks, lost, late>>
    BY <1>5, <1>c DEF LinkLost
  <2> QED BY <1>5, <1>a, <2>1 DEF LinkLost, Parted, TypeOK
<1>6. CASE Elsewhere
  <2>1. events' \in 0..MaxEvents /\ UNCHANGED <<made, asks, lost, late>>
    BY <1>6, <1>c DEF Elsewhere
  <2>2. active' \in Slots
    BY <1>6 DEF Elsewhere, Other, Slots, TypeOK
  <2>3. NoKey \in Values /\ Theirs \in Values
    BY ConstantsAssumption DEF NoKey, Theirs, Values
  <2>4. \/ UNCHANGED slots
        \/ \E s \in Slots, k \in {NoKey, Theirs} : slots' = [slots EXCEPT ![s] = k]
        \/ slots' = [s \in Slots |-> NoKey]
    BY <1>6 DEF Elsewhere
  <2>5. slots' \in [Slots -> Values]
    BY <2>3, <2>4 DEF TypeOK
  <2>6. UNCHANGED <<hostVars, pairVars, workerVars, client, step, gate, boot, link, wire, air>>
    BY <1>6 DEF Elsewhere
  <2> QED BY <2>1, <2>2, <2>5, <2>6 DEF TypeOK
<1>7. CASE Restart
  <2>1. events' \in 0..MaxEvents /\ UNCHANGED <<made, asks, lost, late>>
    BY <1>7, <1>c DEF Restart
  <2>2. client' \in [Clients -> Handlers]
    BY <1>7, FixedFrames DEF Restart, Calm, Handlers
  <2>3. retries' \in 0..Retries
    BY <1>7, ConstantsAssumption DEF Restart
  <2> QED BY <1>7, <1>a, <2>1, <2>2, <2>3 DEF Restart, Parted, Forgotten, TypeOK
<1> QED BY <1>1, <1>2, <1>3, <1>4, <1>5, <1>6, <1>7

\* Every reachable state is well-typed: no key but those that were made, no
\* command or answer of another shape, and no counter past its bound.
THEOREM TypeCorrect == Spec => []TypeOK
<1>1. TypeOK /\ [Next]_vars => TypeOK'
  <2> SUFFICES ASSUME TypeOK, [Next]_vars
               PROVE  TypeOK'
    OBVIOUS
  <2>1. CASE Worker
    BY <2>1, TypeSession, TypeServing, TypePair DEF Worker
  <2>2. CASE \E c \in Clients :
               \/ PairStart(c) \/ ClearOffline(c) \/ OwnerAnswered(c) \/ PathKnown(c)
               \/ Answered(c) \/ \E op \in Ops : Ask(c, op)
    BY <2>2, TypeHandler
  <2>3. CASE DeviceHandles
    BY <2>3, TypeHandles
  <2>4. CASE \/ DeviceSilent \/ DeviceButton \/ DeviceGate \/ Rebooted \/ LinkLost
             \/ Elsewhere \/ Restart
    BY <2>4, TypeWorld
  <2>5. CASE UNCHANGED vars
    BY <2>5 DEF vars, hostVars, pairVars, workerVars, deviceVars, counters, TypeOK
  <2> QED BY <2>1, <2>2, <2>3, <2>4, <2>5 DEF Next
<1> QED BY TypeInit, <1>1, PTL DEF Spec

-----------------------------------------------------------------------------
(* Attempts *)

\* The phases of an attempt.
Attempting == {"init", "pause", "button", "confirm"}

\* What PAIR_INIT brought: the attempt goes on, or it is over and says so.
LEMMA AttemptGoesOn ==
  ASSUME NEW f, PairGoesOn(f), progress \in InFlight => phase \in Attempting
  PROVE  phase' \in Attempting \/ progress' \notin InFlight
BY DEF PairGoesOn, Confirms, Sends, PairOver, Attempting, InFlight

\* Outside an attempt the worker does not touch the progress.
LEMMA OtherPhases ==
  ASSUME progress \in InFlight => phase \in Attempting,
         \/ Connect \/ StatusKnown \/ Challenged \/ ChallengedAgain \/ Synced \/ SessionEnds
         \/ TakeJob \/ PlainAnswered \/ GatedAnswered \/ Verdict \/ PairSlots
  PROVE  progress' \notin InFlight
<1>1. phase \notin Attempting
  BY DEF Attempting, Connect, StatusKnown, Challenged, ChallengedAgain, Synced, SessionEnds,
         TakeJob, PlainAnswered, GatedAnswered, Verdict, PairSlots
<1>2. progress \notin InFlight
  BY <1>1
<1>3. UNCHANGED progress
  BY DEF Connect, StatusKnown, Challenged, ChallengedAgain, Synced, SessionEnds, TakeJob,
         PlainAnswered, GatedAnswered, Verdict, PairSlots, pairVars
<1> QED BY <1>2, <1>3

\* No attempt that is over - answered, failed, timed out, cut off with the link
\* or by a restart - leaves a progress behind that shuts out the next PAIR:START.
\* (try_begin_pairing, route_notification, do_pair)
THEOREM ProgressSafe == Spec => []ProgressMeansAttempt
<1>1. Init => ProgressMeansAttempt
  BY DEF Init, ProgressMeansAttempt, InFlight
<1>2. ProgressMeansAttempt /\ [Next]_vars => ProgressMeansAttempt'
  <2> SUFFICES ASSUME ProgressMeansAttempt, [Next]_vars
               PROVE  ProgressMeansAttempt'
    OBVIOUS
  <2> USE DEF pairVars, workerVars
  <2>a. progress \in InFlight => phase \in Attempting
    BY DEF ProgressMeansAttempt, Attempting
  <2>b. SUFFICES phase' \in Attempting \/ progress' \notin InFlight
    BY DEF ProgressMeansAttempt, Attempting
  <2>1. CASE \/ Connect \/ StatusKnown \/ Challenged \/ ChallengedAgain \/ Synced \/ SessionEnds
             \/ TakeJob \/ PlainAnswered \/ GatedAnswered \/ Verdict \/ PairSlots
    BY <2>1, <2>a, OtherPhases
  <2>2. CASE Dropped
    BY <2>2, <2>a DEF Dropped
  <2>3. CASE PairInit
    <3>1. PICK f : IF f.kind = "wait" THEN phase' = "button" ELSE PairGoesOn(f)
      BY <2>3 DEF PairInit
    <3>2. CASE f.kind = "wait"
      BY <3>1, <3>2 DEF Attempting
    <3>3. CASE f.kind # "wait"
      BY <3>1, <3>3, <2>a, AttemptGoesOn
    <3> QED BY <3>2, <3>3
  <2>4. CASE PairAgain
    BY <2>4 DEF PairAgain, Sends, Attempting
  <2>5. CASE PairButton
    <3>1. PICK f : PairGoesOn(f)
      BY <2>5 DEF PairButton
    <3> QED BY <3>1, <2>a, AttemptGoesOn
  <2>6. CASE ButtonNotified
    <3>1. \/ progress' = "Failed"
          \/ phase' = phase /\ (phase = "button" \/ progress' = progress)
      BY <2>6 DEF ButtonNotified, PairOver, ButtonPending
    <3> QED BY <3>1, <2>a DEF Attempting, InFlight
  <2>7. CASE PairConfirm
    <3>1. progress' \in {"Done", "Failed"}
      BY <2>7 DEF PairConfirm, PairOver
    <3> QED BY <3>1 DEF InFlight
  <2>8. CASE \E c \in Clients : PairStart(c)
    BY <2>8 DEF PairStart, InFlight
  <2>9. CASE \E c \in Clients : \/ ClearOffline(c) \/ OwnerAnswered(c) \/ PathKnown(c)
                                \/ Answered(c) \/ \E op \in Ops : Ask(c, op)
    BY <2>9, <2>a DEF ClearOffline, OwnerAnswered, PathKnown, Answered, Ask
  <2>10. CASE \/ DeviceHandles \/ DeviceSilent \/ DeviceButton \/ DeviceGate
              \/ Rebooted \/ LinkLost \/ Elsewhere
    BY <2>10, <2>a DEF DeviceHandles, DeviceSilent, DeviceButton, DeviceGate, Rebooted,
                       LinkLost, Elsewhere
  <2>11. CASE Restart
    BY <2>11 DEF Restart, InFlight
  <2>12. CASE UNCHANGED vars
    BY <2>12, <2>a DEF vars
  <2> QED BY <2>1, <2>2, <2>3, <2>4, <2>5, <2>6, <2>7, <2>8, <2>9, <2>10, <2>11, <2>12
          DEF Next, Worker
<1> QED BY <1>1, <1>2, PTL DEF Spec

-----------------------------------------------------------------------------
(* What a proven session knows *)

\* The keys this host holds are its own.
OwnKeys == /\ key \in {NoKey} \cup Ours /\ disk \in {NoKey} \cup Ours
           /\ phase = "confirm" => made \in Ours

\* Nothing is under way over a link that is down.
Apart == ~link => wire = <<>> /\ air = <<>> /\ gate = Nothing

\* The frames that are true of the device as it is.
Told == {f \in Frames :
  /\ f.kind = "slots" => f.n = active
  /\ f.kind = "hmac" => f.n # NoKey /\ (f.n \in Ours /\ ~boot => slots[active] \in Ours)}

\* The commands that carry no key but this host's.
Sent == {f \in Frames : f.kind = "confirm" => f.n \in Ours}

AirIsTrue == air \in Seq(Told)
WireIsOurs == wire \in Seq(Sent)

\* A clear that waits for a finger is for the slot the device does not use.
GateIsFar == \/ gate = Nothing \/ gate.kind = "reset"
             \/ (gate.kind = "clear" /\ gate.n = Other(active))

\* What the HMAC proved stays true while the session and the device last.
ProvenIsOurs == proven /\ link /\ ~boot => slots[active] \in Ours

\* An answer about the slots that is still to be used is about this session's device.
AnswerIsActive ==
  \A c \in Clients :
    /\ client[c].at = "query answered" /\ client[c].ans.kind = "slots"
    /\ proven /\ link /\ ~boot
    => client[c].ans.n = active

Known == /\ OwnKeys /\ Apart /\ AirIsTrue /\ WireIsOurs /\ GateIsFar
         /\ ProvenIsOurs /\ AnswerIsActive

\* Sequences over a larger set, and parts of a sequence.
LEMMA SeqOver ==
  ASSUME NEW S, NEW T, S \subseteq T, NEW s \in Seq(S)
  PROVE  s \in Seq(T)
<1>1. Len(s) \in Nat /\ DOMAIN s = 1..Len(s) /\ s = [i \in 1..Len(s) |-> s[i]]
  BY LenProperties
<1>2. \A i \in 1..Len(s) : s[i] \in T
  BY <1>1, ElementOfSeq
<1>3. s \in [1..Len(s) -> T]
  BY <1>1, <1>2
<1> QED BY <1>1, <1>3, SeqDef

\* A worker's or a handler's step that leaves the device alone.
LEMMA HostStep ==
  ASSUME Known, UNCHANGED <<slots, active, boot, link, gate>>,
         wire' \in Seq(Sent), air' \in Seq(Told),
         ~link => wire' = <<>> /\ air' = <<>>,
         OwnKeys',
         \/ proven' = FALSE \/ proven' = proven
         \/ (~boot => slots[active] \in Ours) /\ \A c \in Clients : client'[c].at # "query answered",
         \A c \in Clients : client'[c].at = "query answered" /\ client'[c].ans.kind = "slots" =>
                              client'[c] = client[c] \/ client'[c].ans.n = active
  PROVE  Known'
<1>1. Told' = Told /\ Sent' = Sent
  BY DEF Told, Sent
<1>2. AirIsTrue' /\ WireIsOurs'
  BY <1>1 DEF AirIsTrue, WireIsOurs
<1>3. Apart' /\ GateIsFar'
  BY DEF Known, Apart, GateIsFar
<1>4. ProvenIsOurs'
  BY DEF Known, ProvenIsOurs
<1>5. AnswerIsActive'
  <2> SUFFICES ASSUME NEW c \in Clients, client'[c].at = "query answered",
                      client'[c].ans.kind = "slots", proven', link', ~boot'
               PROVE  client'[c].ans.n = active'
    BY DEF AnswerIsActive
  <2>1. CASE client'[c].ans.n = active
    BY <2>1
  <2>2. CASE client'[c] = client[c] /\ proven' = proven
    BY <2>2 DEF Known, AnswerIsActive
  <2> QED BY <2>1, <2>2
<1> QED BY <1>2, <1>3, <1>4, <1>5 DEF Known

\* The response that the worker takes is true, and comes when no handler is behind.
LEMMA TakesTold ==
  ASSUME Known, NEW f \in Incoming, Takes(f)
  PROVE  /\ air' \in Seq(Told) /\ (~link => air' = <<>>) /\ Prompt
         /\ f.kind \in {"slots", "hmac"} => f \in Told /\ link
<1>1. air \in Seq(Told)
  BY DEF Known, AirIsTrue
<1>2. air # <<>> => Head(air) \in Told /\ Tail(air) \in Seq(Told) /\ link
  BY <1>1, HeadTailProperties DEF Known, Apart
<1>3. f = Silence \/ (air # <<>> /\ f = Head(air))
  BY DEF Incoming
<1>4. air' = air \/ (air # <<>> /\ air' = Tail(air))
  BY DEF Takes
<1>5. ~link => air = <<>>
  BY DEF Known, Apart
<1>6. Silence.kind = "silence"
  BY FixedFrames
<1> QED BY <1>1, <1>2, <1>3, <1>4, <1>5, <1>6 DEF Takes

\* A command without a key may be sent at any time.
LEMMA SendsOurs ==
  ASSUME Known, NEW cmd \in Sent, NEW to, Sends(cmd, to)
  PROVE  wire' \in Seq(Sent) /\ (~link => wire' = <<>>) /\ phase' = to
<1>1. wire \in Seq(Sent) /\ (~link => wire = <<>>)
  BY DEF Known, WireIsOurs, Apart
<1>2. Append(wire, cmd) \in Seq(Sent)
  BY <1>1, AppendProperties
<1> QED BY <1>1, <1>2 DEF Sends

LEMMA KeylessSent ==
  ASSUME NEW f \in Frames, f.kind # "confirm"
  PROVE  f \in Sent
BY DEF Sent

\* Handlers leave the link and the device alone, and forget more than they learn.
LEMMA KnownHandler ==
  ASSUME TypeOK, Known, NEW c \in Clients,
         \/ PairStart(c) \/ ClearOffline(c) \/ OwnerAnswered(c) \/ PathKnown(c) \/ Answered(c)
         \/ \E op \in Ops : Ask(c, op)
  PROVE  Known'
<1> USE DEF hostVars, pairVars, workerVars, deviceVars, counters
<1>1. UNCHANGED <<slots, active, boot, link, gate, wire, air, made, phase>>
  BY DEF PairStart, ClearOffline, OwnerAnswered, PathKnown, Answered, Ask
<1>2. UNCHANGED hostVars \/ ClearLocal
  BY DEF PairStart, ClearOffline, OwnerAnswered, PathKnown, Answered, Ask
<1>3. key' \in {key, NoKey} /\ disk' \in {disk, NoKey} /\ (proven' = FALSE \/ proven' = proven)
  BY <1>2 DEF ClearLocal
<1>4. OwnKeys'
  BY <1>1, <1>3 DEF Known, OwnKeys, Ours, NoKey
<1>5. \/ UNCHANGED client
      \/ \E h : client' = [client EXCEPT ![c] = h] /\ h.at # "query answered"
  <2>1. Calm.at = "idle"
    BY DEF Calm
  <2>2. CASE PairStart(c)
    <3> DEFINE h == [Calm EXCEPT !.op = "pair", !.at = "act"]
    <3>1. h.at = "act"
      BY DEF Calm
    <3> QED BY <2>2, <3>1 DEF PairStart
  <2>3. CASE ClearOffline(c)
    BY <2>3 DEF ClearOffline
  <2>4. CASE OwnerAnswered(c)
    <3> DEFINE own == IF client[c].ans.kind = "slots" THEN Mine(client[c].ans) ELSE 0
               h   == [Calm EXCEPT !.own = own]
    <3>1. client' = [client EXCEPT ![c] = h]
      BY <2>4 DEF OwnerAnswered
    <3> HIDE DEF own
    <3>2. h.at = "idle"
      BY DEF Calm
    <3> QED BY <3>1, <3>2
  <2>5. CASE PathKnown(c)
    <3> DEFINE own == IF Target(client[c].op) = client[c].ans.n THEN Target(client[c].op) ELSE 0
               h   == [client[c] EXCEPT !.at = "act", !.ans = Nothing, !.own = own]
    <3>1. client' = [client EXCEPT ![c] = h] \/ client' = [client EXCEPT ![c] = Calm]
      BY <2>5 DEF PathKnown, Leaves
    <3> HIDE DEF own
    <3>2. h.at = "act"
      BY DEF TypeOK, Handlers
    <3> QED BY <3>1, <3>2, <2>1
  <2>6. CASE Answered(c)
    BY <2>6, <2>1 DEF Answered, Leaves
  <2>7. ASSUME NEW op \in Ops, Ask(c, op)
        PROVE  \E h : client' = [client EXCEPT ![c] = h] /\ h.at # "query answered"
    <3> DEFINE first == FirstCommand(op)
               h     == [Calm EXCEPT !.op = op, !.at = first.at]
    <3>1. client' = [client EXCEPT ![c] = h]
      BY <2>7 DEF Ask
    <3>2. first.at \in {"act", "query"}
      BY DEF FirstCommand
    <3> HIDE DEF first
    <3>3. h.at = first.at
      BY DEF Calm
    <3> QED BY <3>1, <3>2, <3>3
  <2> QED BY <2>2, <2>3, <2>4, <2>5, <2>6, <2>7
<1>6. \A d \in Clients : client'[d].at = "query answered" => client'[d] = client[d]
  BY <1>5 DEF TypeOK
<1>7. air' \in Seq(Told) /\ wire' \in Seq(Sent) /\ (~link => wire' = <<>> /\ air' = <<>>)
  BY <1>1 DEF Known, AirIsTrue, WireIsOurs, Apart
<1> QED BY <1>1, <1>3, <1>4, <1>6, <1>7, HostStep

\* Frames the worker sends of itself.
LEMMA OwnCommands ==
  /\ \A k \in {"status?", "challenge", "slots?", "init", "other"} : Frame(k) \in Sent
  /\ \A n \in {1, 2} : [Frame("challenge") EXCEPT !.nonce = n] \in Sent
<1>1. \A k \in {"status?", "challenge", "slots?", "init", "other"} :
        Frame(k) \in Frames /\ Frame(k).kind = k
  BY FrameType DEF Kinds, Cmds, Slots
<1>2. \A n \in {1, 2} :
        LET f == [Frame("challenge") EXCEPT !.nonce = n]
        IN f \in Frames /\ f.kind = "challenge"
  BY <1>1 DEF Frames
<1> QED BY <1>1, <1>2, KeylessSent

LEMMA ServesOurs ==
  ASSUME Known, NEW ok \in BOOLEAN, Serves(ok)
  PROVE  wire' \in Seq(Sent) /\ (~link => wire' = <<>>) /\ phase' \in {"sync", "serve"}
<1>1. CASE ok
  BY <1>1, OwnCommands, SendsOurs DEF Serves
<1>2. CASE ~ok
  BY <1>2 DEF Serves, Known, WireIsOurs, Apart
<1> QED BY <1>1, <1>2

\* A new connection has proved nothing yet.
LEMMA KnownConnect ==
  ASSUME TypeOK, Known, Connect
  PROVE  Known'
<1>1. /\ link' = TRUE /\ proven' = FALSE /\ phase' = "status"
      /\ wire' = Append(wire, Frame("status?"))
      /\ UNCHANGED <<key, disk, made, client, slots, active, gate, boot, air>>
  BY DEF Connect, Forgotten, counters
<1>2. Told' = Told /\ Sent' = Sent
  BY <1>1 DEF Told, Sent
<1>3. Frame("status?") \in Sent
  BY OwnCommands
<1>4. wire \in Seq(Sent)
  BY DEF Known, WireIsOurs
<1>5. wire' \in Seq(Sent')
  BY <1>1, <1>2, <1>3, <1>4, AppendProperties
<1> QED BY <1>1, <1>2, <1>5 DEF Known, OwnKeys, Apart, AirIsTrue, WireIsOurs, GateIsFar,
                                ProvenIsOurs, AnswerIsActive

\* What a challenge proves: the slot the device talks through holds this host's key.
LEMMA Proof ==
  ASSUME TypeOK, Known, NEW f \in Told, f.kind = "hmac", NEW nonce, Verifies(f, nonce), ~boot
  PROVE  slots[active] \in Ours
<1>1. f.n = key /\ f.n # NoKey
  BY DEF Verifies, Told
<1>2. f.n \in Ours
  BY <1>1 DEF Known, OwnKeys
<1> QED BY <1>2 DEF Told

LEMMA KnownSession ==
  ASSUME TypeOK, Known, StatusKnown \/ Challenged \/ ChallengedAgain \/ Synced \/ SessionEnds
  PROVE  Known'
<1> USE DEF hostVars, pairVars, workerVars, deviceVars, counters
<1>1. /\ UNCHANGED <<key, disk, client, slots, active, boot, link, gate>>
  BY DEF StatusKnown, Challenged, ChallengedAgain, Synced, SessionEnds
<1>2. CASE SessionEnds
  <2>1. /\ UNCHANGED <<wire, air, made>> /\ phase' = "down" /\ proven' = FALSE
    BY <1>2 DEF SessionEnds, SessionOver, Forgotten
  <2>2. OwnKeys'
    BY <1>1, <2>1 DEF Known, OwnKeys, Ours
  <2>3. air' \in Seq(Told) /\ wire' \in Seq(Sent) /\ (~link => wire' = <<>> /\ air' = <<>>)
    BY <2>1 DEF Known, AirIsTrue, WireIsOurs, Apart
  <2> QED BY <1>1, <2>1, <2>2, <2>3, HostStep
<1>3. CASE StatusKnown \/ Challenged \/ ChallengedAgain \/ Synced
  <2>1. PICK f \in Incoming :
          /\ Takes(f) /\ made' = made
          /\ \/ Serves(FALSE) \/ Serves(TRUE) \/ Challenge(1, "challenge")
             \/ Challenge(2, "retry") \/ (UNCHANGED wire /\ phase' \in {"down", "serve"})
          /\ \/ proven' = FALSE \/ proven' = proven
             \/ (f.kind = "hmac" /\ \E nonce \in {1, 2} : Verifies(f, nonce))
    <3>1. CASE StatusKnown
      <4>1. PICK f \in Incoming : Hears(f)
        BY <3>1 DEF StatusKnown
      <4>2. \/ Serves(FALSE) \/ Serves(TRUE) \/ Challenge(1, "challenge")
        BY <3>1 DEF StatusKnown
      <4> QED BY <3>1, <4>1, <4>2 DEF StatusKnown, Hears
    <3>2. CASE Challenged
      <4>1. PICK f \in Incoming :
              /\ Hears(f)
              /\ \/ /\ f.kind = "hmac" /\ verified' = Verifies(f, 1) /\ proven' = verified'
                    /\ Serves(verified')
                 \/ SessionOver /\ UNCHANGED wire
                 \/ UNCHANGED proven /\ Serves(TRUE)
                 \/ Challenge(2, "retry") /\ UNCHANGED proven
        BY <3>2 DEF Challenged
      <4>2. Verifies(f, 1) \in BOOLEAN
        BY DEF Verifies
      <4>3. CASE /\ f.kind = "hmac" /\ verified' = Verifies(f, 1) /\ proven' = verified'
                 /\ Serves(verified')
        <5>1. CASE Verifies(f, 1)
          BY <4>1, <4>3, <5>1 DEF Hears
        <5>2. CASE ~Verifies(f, 1)
          BY <4>1, <4>2, <4>3, <5>2 DEF Hears
        <5> QED BY <5>1, <5>2
      <4>4. CASE SessionOver /\ UNCHANGED wire
        BY <4>1, <4>4 DEF Hears, SessionOver, Forgotten
      <4>5. CASE UNCHANGED proven /\ (Serves(TRUE) \/ Challenge(2, "retry"))
        <5>1. Takes(f) /\ made' = made
          BY <4>1 DEF Hears
        <5>2. proven' = proven /\ (Serves(TRUE) \/ Challenge(2, "retry"))
          BY <4>5
        <5> QED BY <5>1, <5>2
      <4> QED BY <4>1, <4>3, <4>4, <4>5
    <3>3. CASE ChallengedAgain
      <4>1. PICK f \in Incoming :
              /\ Hears(f) /\ verified' = (f.kind = "hmac" => Verifies(f, 2))
              /\ proven' = (f.kind = "hmac" /\ Verifies(f, 2)) /\ Serves(verified')
        BY <3>3 DEF ChallengedAgain
      <4>2. verified' \in BOOLEAN
        BY <4>1
      <4>3. Serves(FALSE) \/ Serves(TRUE)
        BY <4>1, <4>2
      <4>4. proven' = FALSE \/ (f.kind = "hmac" /\ Verifies(f, 2))
        BY <4>1
      <4> QED BY <4>1, <4>3, <4>4 DEF Hears
    <3>4. CASE Synced
      BY <3>4 DEF Synced, Hears
    <3> QED BY <1>3, <3>1, <3>2, <3>3, <3>4
  <2>2. /\ air' \in Seq(Told) /\ (~link => air' = <<>>) /\ Prompt
        /\ f.kind = "hmac" => f \in Told
    BY <2>1, TakesTold
  <2>3. /\ wire' \in Seq(Sent) /\ (~link => wire' = <<>>)
        /\ phase' \in {"down", "sync", "serve", "challenge", "retry"}
    <3>1. CASE Serves(FALSE) \/ Serves(TRUE)
      BY <3>1, ServesOurs
    <3>2. CASE Challenge(1, "challenge") \/ Challenge(2, "retry")
      BY <3>2, OwnCommands, SendsOurs DEF Challenge
    <3>3. CASE UNCHANGED wire /\ phase' \in {"down", "serve"}
      BY <3>3 DEF Known, WireIsOurs, Apart
    <3> QED BY <2>1, <3>1, <3>2, <3>3
  <2>4. OwnKeys'
    BY <1>1, <2>1, <2>3 DEF Known, OwnKeys, Ours
  <2>5. \A c \in Clients : client'[c].at # "query answered"
    BY <1>1, <2>2 DEF Prompt
  <2>6. \/ proven' = FALSE \/ proven' = proven \/ (~boot => slots[active] \in Ours)
    BY <2>1, <2>2, Proof
  <2> QED BY <1>1, <2>2, <2>3, <2>4, <2>5, <2>6, HostStep
<1> QED BY <1>2, <1>3

\* A reply leaves the other handlers alone and brings this one what was heard.
LEMMA RepliesTold ==
  ASSUME TypeOK, NEW f \in Frames, f.kind = "slots" => f.n = active, Replies(f)
  PROVE  /\ phase' = "serve"
         /\ \A c \in Clients : client'[c].at = "query answered" /\ client'[c].ans.kind = "slots" =>
                               client'[c] = client[c] \/ client'[c].ans.n = active
<1> DEFINE h == [client[job.who] EXCEPT !.ans = f,
                   !.at = IF client[job.who].at = "query" THEN "query answered" ELSE "answered"]
<1>1. client \in [Clients -> Handlers]
  BY DEF TypeOK
<1>2. client' = [client EXCEPT ![job.who] = h] /\ phase' = "serve"
  BY DEF Replies
<1>3. job.who \in Clients => h.ans = f
  BY <1>1 DEF Handlers
<1> HIDE DEF h
<1> QED BY <1>1, <1>2, <1>3

LEMMA KnownServing ==
  ASSUME TypeOK, Known, TakeJob \/ PlainAnswered \/ GatedAnswered \/ Verdict \/ Dropped
  PROVE  Known'
<1> USE DEF hostVars, pairVars, workerVars, deviceVars, counters
<1>1. UNCHANGED <<key, disk, proven, slots, active, boot, link, gate, made>>
  BY DEF TakeJob, PlainAnswered, GatedAnswered, Verdict, Dropped, Hears
<1>2. phase' # "confirm" => OwnKeys'
  BY <1>1 DEF Known, OwnKeys, Ours
<1>3. /\ wire \in Seq(Sent) /\ air \in Seq(Told) /\ (~link => wire = <<>> /\ air = <<>>)
  BY DEF Known, AirIsTrue, WireIsOurs, Apart
<1>4. CASE TakeJob
  <2>1. job' \in Jobs
    <3>1. queue # <<>> /\ queue \in Seq(Jobs) /\ job' = Head(queue)
      BY <1>4 DEF TakeJob, TypeOK
    <3> QED BY <3>1, HeadTailProperties
  <2>2. /\ job'.frame \in Frames /\ job'.frame.kind # "confirm"
        /\ job'.cmd \in {"pair", "plain", "gated"}
    BY <2>1 DEF Jobs
  <2>3. job'.frame \in Sent /\ Frame("slots?") \in Sent
    BY <2>2, KeylessSent, OwnCommands
  <2>4. Sends(Frame("slots?"), "slots") \/ Sends(job'.frame, "plain") \/ Sends(job'.frame, "gated")
    BY <1>4, <2>2 DEF TakeJob
  <2>5. wire' \in Seq(Sent) /\ (~link => wire' = <<>>) /\ phase' \in {"slots", "plain", "gated"}
    BY <2>3, <2>4, SendsOurs
  <2>6. UNCHANGED <<client, air>>
    BY <1>4 DEF TakeJob
  <2> QED BY <1>1, <1>2, <1>3, <2>5, <2>6, HostStep
<1>5. CASE PlainAnswered \/ GatedAnswered \/ Verdict
  <2>1. PICK f \in Incoming :
          /\ Takes(f)
          /\ \/ Replies(f) \/ Replies(Frame("ok")) \/ Replies(Silence)
             \/ (phase' = "gate" /\ UNCHANGED client)
    BY <1>5 DEF PlainAnswered, GatedAnswered, Verdict, Hears
  <2>2. /\ air' \in Seq(Told) /\ (~link => air' = <<>>) /\ f \in Frames
        /\ f.kind = "slots" => f.n = active
    BY <2>1, TakesTold, TakesType DEF Told
  <2>3. /\ Frame("ok") \in Frames /\ Frame("ok").kind = "ok"
        /\ Silence \in Frames /\ Silence.kind = "silence"
    BY FrameType, FixedFrames DEF Kinds, Answers, Slots
  <2>4. /\ phase' \in {"serve", "gate"}
        /\ \A c \in Clients : client'[c].at = "query answered" /\ client'[c].ans.kind = "slots" =>
                              client'[c] = client[c] \/ client'[c].ans.n = active
    <3>1. CASE Replies(f) \/ Replies(Frame("ok")) \/ Replies(Silence)
      BY <3>1, <2>2, <2>3, RepliesTold
    <3>2. CASE phase' = "gate" /\ UNCHANGED client
      BY <3>2
    <3> QED BY <2>1, <3>1, <3>2
  <2>5. UNCHANGED wire
    BY <1>5 DEF PlainAnswered, GatedAnswered, Verdict
  <2> QED BY <1>1, <1>2, <1>3, <2>2, <2>4, <2>5, HostStep
<1>6. CASE Dropped
  <2>1. air # <<>> /\ air' = Tail(air) /\ UNCHANGED <<wire, client, phase>>
    BY <1>6 DEF Dropped
  <2>2. air' \in Seq(Told) /\ (~link => air' = <<>>)
    BY <1>3, <2>1, HeadTailProperties
  <2>3. OwnKeys'
    BY <1>1, <2>1 DEF Known, OwnKeys, Ours
  <2> QED BY <1>1, <1>3, <2>1, <2>2, <2>3, HostStep
<1> QED BY <1>4, <1>5, <1>6

\* An attempt that goes on sends nothing but its own key.
LEMMA PairGoesOnOurs ==
  ASSUME TypeOK, Known, NEW f, PairGoesOn(f), UNCHANGED <<key, disk>>
  PROVE  /\ OwnKeys' /\ wire' \in Seq(Sent) /\ (~link => wire' = <<>>)
         /\ \A c \in Clients : client'[c].at = "query answered" /\ client'[c].ans.kind = "slots" =>
                               client'[c] = client[c] \/ client'[c].ans.n = active
<1>1. /\ wire \in Seq(Sent) /\ (~link => wire = <<>>)
  BY DEF Known, WireIsOurs, Apart
<1>2. phase' # "confirm" => OwnKeys'
  BY DEF Known, OwnKeys, Ours
<1>3. CASE phase' = "pause" /\ UNCHANGED <<client, wire>>
  BY <1>1, <1>2, <1>3
<1>4. CASE Confirms /\ UNCHANGED client
  <2>1. made' \in Ours /\ made' \in Values
    BY <1>4, ConstantsAssumption DEF Confirms, TypeOK, Ours, Values
  <2>2. /\ With("confirm", made') \in Frames /\ With("confirm", made').n = made'
    BY <2>1, FrameType DEF Kinds, Cmds
  <2>3. With("confirm", made') \in Sent
    BY <2>1, <2>2 DEF Sent
  <2>4. wire' \in Seq(Sent) /\ (~link => wire' = <<>>)
    BY <1>4, <2>3, SendsOurs DEF Confirms
  <2>5. OwnKeys'
    BY <2>1 DEF Known, OwnKeys, Ours
  <2> QED BY <1>4, <2>4, <2>5
<1>5. CASE PairOver("Failed")
  <2>1. Replies(Nothing) /\ UNCHANGED wire
    BY <1>5 DEF PairOver
  <2> QED BY <1>1, <1>2, <2>1, FixedFrames, RepliesTold
<1> QED BY <1>3, <1>4, <1>5 DEF PairGoesOn

LEMMA KnownPair ==
  ASSUME TypeOK, Known,
         PairSlots \/ PairInit \/ PairAgain \/ PairButton \/ ButtonNotified \/ PairConfirm
  PROVE  Known'
<1> USE DEF hostVars, pairVars, workerVars, deviceVars, counters
<1>1. UNCHANGED <<proven, slots, active, boot, link, gate>>
  BY DEF PairSlots, PairInit, PairAgain, PairButton, ButtonNotified, PairConfirm
<1>2. /\ wire \in Seq(Sent) /\ air \in Seq(Told) /\ (~link => wire = <<>> /\ air = <<>>)
  BY DEF Known, AirIsTrue, WireIsOurs, Apart
<1>3. CASE PairSlots \/ PairAgain
  <2>1. Sends(Frame("init"), "init") /\ UNCHANGED <<key, disk, client, made>>
    BY <1>3 DEF PairSlots, PairAgain, Hears
  <2>2. air' \in Seq(Told) /\ (~link => air' = <<>>)
    <3>1. CASE PairSlots
      <4>1. PICK f \in Incoming : Takes(f)
        BY <3>1 DEF PairSlots, Hears
      <4> QED BY <4>1, TakesTold
    <3>2. CASE PairAgain
      BY <3>2, <1>2 DEF PairAgain
    <3> QED BY <1>3, <3>1, <3>2
  <2>3. wire' \in Seq(Sent) /\ (~link => wire' = <<>>) /\ phase' = "init"
    BY <2>1, OwnCommands, SendsOurs
  <2>4. OwnKeys'
    BY <2>1, <2>3 DEF Known, OwnKeys, Ours
  <2> QED BY <1>1, <2>1, <2>2, <2>3, <2>4, HostStep
<1>4. CASE PairInit \/ PairButton
  <2>1. PICK f \in Incoming :
          /\ Takes(f)
          /\ PairGoesOn(f) \/ (phase' = "button" /\ UNCHANGED <<made, client, wire>>)
    BY <1>4 DEF PairInit, PairButton
  <2>2. UNCHANGED <<key, disk>>
    BY <1>4 DEF PairInit, PairButton
  <2>3. air' \in Seq(Told) /\ (~link => air' = <<>>)
    BY <2>1, TakesTold
  <2>4. CASE PairGoesOn(f)
    BY <1>1, <2>2, <2>3, <2>4, PairGoesOnOurs, HostStep
  <2>5. CASE phase' = "button" /\ UNCHANGED <<made, client, wire>>
    <3>1. OwnKeys'
      BY <2>2, <2>5 DEF Known, OwnKeys, Ours
    <3> QED BY <1>1, <1>2, <2>3, <2>5, <3>1, HostStep
  <2> QED BY <2>1, <2>4, <2>5
<1>5. CASE ButtonNotified
  <2>1. /\ air # <<>> /\ air' = Tail(air) /\ UNCHANGED <<key, disk, made>>
        /\ PairOver("Failed") \/ UNCHANGED <<phase, client, wire>>
    BY <1>5 DEF ButtonNotified
  <2>2. air' \in Seq(Told) /\ (~link => air' = <<>>)
    BY <1>2, <2>1, HeadTailProperties
  <2>3. CASE PairOver("Failed")
    <3>1. Replies(Nothing) /\ UNCHANGED wire
      BY <2>3 DEF PairOver
    <3>2. /\ phase' = "serve"
          /\ \A c \in Clients : client'[c].at = "query answered" /\ client'[c].ans.kind = "slots" =>
                                client'[c] = client[c] \/ client'[c].ans.n = active
      BY <3>1, FixedFrames, RepliesTold
    <3>3. OwnKeys'
      BY <2>1, <3>2 DEF Known, OwnKeys, Ours
    <3> QED BY <1>1, <1>2, <2>2, <3>1, <3>2, <3>3, HostStep
  <2>4. CASE UNCHANGED <<phase, client, wire>>
    <3>1. OwnKeys'
      BY <2>1, <2>4 DEF Known, OwnKeys, Ours
    <3> QED BY <1>1, <1>2, <2>2, <2>4, <3>1, HostStep
  <2> QED BY <2>1, <2>3, <2>4
<1>6. CASE PairConfirm
  <2>1. PICK f \in Incoming :
          /\ Takes(f) /\ made' = made /\ phase = "confirm"
          /\ key' \in {key, made} /\ disk' \in {disk, made}
          /\ Replies(Nothing) /\ UNCHANGED wire
    BY <1>6 DEF PairConfirm, PairOver, Hears
  <2>2. air' \in Seq(Told) /\ (~link => air' = <<>>)
    BY <2>1, TakesTold
  <2>3. /\ phase' = "serve"
        /\ \A c \in Clients : client'[c].at = "query answered" /\ client'[c].ans.kind = "slots" =>
                              client'[c] = client[c] \/ client'[c].ans.n = active
    BY <2>1, FixedFrames, RepliesTold
  <2>4. OwnKeys'
    BY <2>1, <2>3 DEF Known, OwnKeys, Ours
  <2> QED BY <1>1, <1>2, <2>1, <2>2, <2>3, <2>4, HostStep
<1> QED BY <1>3, <1>4, <1>5, <1>6

\* What the device says of itself is true when it says it, and a step of the device
\* that leaves it running does not take this host's key from its active slot.
LEMMA DeviceStep ==
  ASSUME TypeOK, Known, link, ~boot,
         UNCHANGED <<active, link, key, disk, made, phase, proven, client>>,
         wire' \in Seq(Sent), NEW x \in Frames, Says(x), x \in Told', GateIsFar',
         ~boot' /\ slots[active] \in Ours => slots'[active] \in Ours
  PROVE  Known'
<1>1. Sent' = Sent
  BY DEF Sent
<1>2. Told \subseteq Told'
  BY DEF Told
<1>3. air \in Seq(Told')
  BY <1>2, SeqOver DEF Known, AirIsTrue
<1>4. air' \in Seq(Told')
  BY <1>3, AppendProperties DEF Says
<1>5. AirIsTrue' /\ WireIsOurs'
  BY <1>1, <1>4 DEF AirIsTrue, WireIsOurs
<1>6. OwnKeys' /\ Apart' /\ ProvenIsOurs' /\ AnswerIsActive'
  BY DEF Known, OwnKeys, Ours, Apart, ProvenIsOurs, AnswerIsActive
<1> QED BY <1>5, <1>6 DEF Known

\* Frames that say nothing of the slots and prove nothing.
LEMMA PlainTold ==
  ASSUME NEW k \in {"not paired", "params", "needs reset", "wait", "confirmed", "not confirmed",
                    "refused", "cleared", "ok", "no", "wait fp", "pubkey"} \cup Buttons
  PROVE  Frame(k) \in Frames /\ Frame(k) \in Told'
<1>1. k \in Kinds /\ k # "slots" /\ k # "hmac"
  BY DEF Kinds, Answers, Buttons
<1>2. Frame(k) \in Frames /\ Frame(k).kind = k
  BY <1>1, FrameType DEF Slots
<1> QED BY <1>1, <1>2 DEF Told

LEMMA KnownHandles ==
  ASSUME TypeOK, Known, DeviceHandles
  PROVE  Known'
<1> USE DEF hostVars, pairVars, workerVars, deviceVars, counters
<1> DEFINE f == Head(wire)
<1>1. /\ link /\ ~boot /\ wire # <<>> /\ wire' = Tail(wire)
      /\ UNCHANGED <<active, link, key, disk, made, phase, proven, client>>
  BY DEF DeviceHandles
<1>2. f \in Sent /\ wire' \in Seq(Sent)
  BY <1>1, HeadTailProperties DEF Known, WireIsOurs
<1>3. \/ Says(Frame("not paired")) /\ Rests
      \/ DevicePairs
      \/ f.kind = "confirm" /\ DeviceConfirms(f)
      \/ f.kind \in {"clear", "reset"} /\ DeviceClears(f)
      \/ ~Refuses(f) /\ Says(Answer(f)) /\ Rests
  BY DEF DeviceHandles
<1> HIDE DEF f
<1>5. GateIsFar /\ slots \in [Slots -> Values] /\ active \in Slots
  BY DEF Known, TypeOK
<1>6. CASE Says(Frame("not paired")) /\ Rests
  <2>1. UNCHANGED <<slots, boot, gate>>
    BY <1>6 DEF Rests
  <2>2. Frame("not paired") \in Frames /\ Frame("not paired") \in Told'
    BY PlainTold
  <2> QED BY <1>1, <1>2, <1>5, <1>6, <2>1, <2>2, DeviceStep DEF GateIsFar
<1>7. CASE DevicePairs
  <2>1. UNCHANGED <<slots, boot>> /\ (gate' = gate \/ gate' = Nothing)
    BY <1>7 DEF DevicePairs, Rests
  <2>2. PICK k \in {"params", "needs reset", "wait"} : Says(Frame(k))
    BY <1>7 DEF DevicePairs
  <2>3. Frame(k) \in Frames /\ Frame(k) \in Told'
    BY PlainTold
  <2>4. GateIsFar'
    BY <1>1, <1>5, <2>1 DEF GateIsFar
  <2> QED BY <1>1, <1>2, <2>1, <2>2, <2>3, <2>4, DeviceStep
<1>8. CASE f.kind = "confirm" /\ DeviceConfirms(f)
  <2>1. /\ UNCHANGED <<boot, gate>>
        /\ UNCHANGED slots \/ slots' = [slots EXCEPT ![active] = f.n]
    BY <1>8 DEF DeviceConfirms, Rests
  <2>2. f.n \in Ours
    BY <1>2, <1>8 DEF Sent
  <2>3. slots[active] \in Ours => slots'[active] \in Ours
    BY <1>5, <2>1, <2>2
  <2>4. PICK k \in {"confirmed", "not confirmed"} : Says(Frame(k))
    BY <1>8 DEF DeviceConfirms
  <2>5. Frame(k) \in Frames /\ Frame(k) \in Told'
    BY PlainTold
  <2> QED BY <1>1, <1>2, <1>5, <2>1, <2>3, <2>4, <2>5, DeviceStep DEF GateIsFar
<1>9. CASE f.kind \in {"clear", "reset"} /\ DeviceClears(f)
  <2>1. PICK k \in {"refused", "cleared", "ok", "wait fp"} : Says(Frame(k))
    BY <1>9 DEF DeviceClears
  <2>2. Frame(k) \in Frames /\ Frame(k) \in Told'
    BY PlainTold
  <2>3. \/ UNCHANGED <<slots, gate>>
        \/ boot' = TRUE /\ UNCHANGED gate
        \/ gate' = f /\ (f.kind = "reset" \/ f.n = Other(active)) /\ UNCHANGED slots
    BY <1>9 DEF DeviceClears, Rests
  <2>4. GateIsFar'
    BY <1>1, <1>5, <1>9, <2>3 DEF GateIsFar, Other
  <2>5. ~boot' /\ slots[active] \in Ours => slots'[active] \in Ours
    BY <2>3
  <2> QED BY <1>1, <1>2, <2>1, <2>2, <2>4, <2>5, DeviceStep
<1>10. CASE ~Refuses(f) /\ Says(Answer(f)) /\ Rests
  <2>1. UNCHANGED <<slots, boot, gate>>
    BY <1>10 DEF Rests
  <2>2. f \in Frames
    BY <1>2 DEF Sent
  <2>3. Answer(f) \in Frames
    BY <2>2, AnswerType
  <2>4. Told' = Told
    BY <1>1, <2>1 DEF Told
  <2>5. Answer(f) \in Told
    <3>1. CASE f.kind = "status?"
      <4>1. (IF Paired THEN 1 ELSE 0) \in Values \cup Slots
        BY ConstantsAssumption DEF Values, Slots
      <4>2. With("status", IF Paired THEN 1 ELSE 0).kind = "status"
        BY <4>1, FrameType DEF Kinds, Answers
      <4>3. Answer(f).kind = "status"
        BY <3>1, <4>2 DEF Answer
      <4> QED BY <2>3, <4>3 DEF Told
    <3>2. CASE f.kind = "challenge"
      <4>1. Paired
        BY <1>10, <3>2 DEF Refuses, AllowedUnpaired
      <4>2. Answer(f) = [With("hmac", slots[active]) EXCEPT !.nonce = f.nonce]
        BY <3>2 DEF Answer
      <4>3. Answer(f).kind = "hmac" /\ Answer(f).n = slots[active]
        BY <4>2 DEF With, Frame
      <4> QED BY <2>3, <4>1, <4>3 DEF Told, Paired
    <3>3. CASE f.kind = "slots?"
      <4>1. Answer(f) = [With("slots", active) EXCEPT !.occ = {s \in Slots : slots[s] # NoKey}]
        BY <3>3 DEF Answer
      <4>2. Answer(f).kind = "slots" /\ Answer(f).n = active
        BY <4>1 DEF With, Frame
      <4> QED BY <2>3, <4>2 DEF Told
    <3>4. CASE f.kind \notin {"status?", "challenge", "slots?"}
      <4>1. Answer(f) = Frame("other")
        BY <3>4 DEF Answer
      <4>2. Answer(f).kind = "other"
        BY <4>1 DEF Frame
      <4> QED BY <2>3, <4>2 DEF Told
    <3> QED BY <3>1, <3>2, <3>3, <3>4
  <2> QED BY <1>1, <1>2, <1>5, <1>10, <2>1, <2>3, <2>4, <2>5, DeviceStep DEF GateIsFar
<1> QED BY <1>3, <1>6, <1>7, <1>8, <1>9, <1>10

\* A step without a link leaves nothing that could be false.
LEMMA Away ==
  ASSUME Known, link' = FALSE, wire' = <<>>, air' = <<>>, gate' = Nothing, OwnKeys'
  PROVE  Known'
<1>1. <<>> \in Seq(Told') /\ <<>> \in Seq(Sent')
  BY EmptySeq
<1> QED BY <1>1 DEF Known, Apart, AirIsTrue, WireIsOurs, GateIsFar, ProvenIsOurs, AnswerIsActive

LEMMA KnownWorld ==
  ASSUME TypeOK, Known,
         DeviceSilent \/ DeviceButton \/ DeviceGate \/ Rebooted \/ LinkLost \/ Elsewhere \/ Restart
  PROVE  Known'
<1> USE DEF hostVars, pairVars, workerVars, deviceVars, counters
<1>1. /\ wire \in Seq(Sent) /\ air \in Seq(Told) /\ (~link => wire = <<>> /\ air = <<>> /\ gate = Nothing)
  BY DEF Known, AirIsTrue, WireIsOurs, Apart
<1>2. slots \in [Slots -> Values] /\ active \in Slots /\ GateIsFar
  BY DEF Known, TypeOK
<1>3. UNCHANGED <<key, disk, made, phase>> => OwnKeys'
  BY DEF Known, OwnKeys, Ours
<1>4. CASE DeviceSilent
  <2>1. /\ wire # <<>> /\ wire' = Tail(wire) /\ link
        /\ UNCHANGED <<key, disk, made, phase, proven, client, slots, active, boot, link, gate, air>>
    BY <1>4 DEF DeviceSilent
  <2>2. wire' \in Seq(Sent)
    BY <1>1, <2>1, HeadTailProperties
  <2> QED BY <1>1, <1>3, <2>1, <2>2, HostStep
<1>5. CASE DeviceButton
  <2>1. /\ link /\ ~boot
        /\ UNCHANGED <<active, link, key, disk, made, phase, proven, client, slots, boot, gate, wire>>
    BY <1>5 DEF DeviceButton
  <2>2. PICK k \in {"pubkey", "params"} \cup Buttons : Says(Frame(k))
    BY <1>5 DEF DeviceButton, Buttons
  <2>3. Frame(k) \in Frames /\ Frame(k) \in Told'
    BY PlainTold
  <2> QED BY <1>1, <1>2, <2>1, <2>2, <2>3, DeviceStep DEF GateIsFar
<1>6. CASE DeviceGate
  <2>1. /\ link /\ ~boot /\ gate # Nothing /\ gate' = Nothing
        /\ UNCHANGED <<active, link, key, disk, made, phase, proven, client, wire>>
    BY <1>6 DEF DeviceGate
  <2>2. PICK k \in {"ok", "no"} : Says(Frame(k))
    BY <1>6 DEF DeviceGate
  <2>3. Frame(k) \in Frames /\ Frame(k) \in Told'
    BY PlainTold
  <2>4. UNCHANGED slots \/ (slots' = Cleared(gate) /\ boot' = (gate.kind = "reset"))
    BY <1>6 DEF DeviceGate
  <2>5. ~boot' /\ slots[active] \in Ours => slots'[active] \in Ours
    <3>1. CASE gate.kind = "clear" /\ gate.n = Other(active) /\ slots' = Cleared(gate)
      <4>1. slots' = [slots EXCEPT ![gate.n] = NoKey]
        BY <3>1 DEF Cleared
      <4>2. gate.n # active
        BY <1>2, <3>1 DEF Other, Slots
      <4> QED BY <1>2, <4>1, <4>2
    <3> QED BY <1>2, <2>1, <2>4, <3>1 DEF GateIsFar
  <2>6. GateIsFar'
    BY <2>1 DEF GateIsFar
  <2> QED BY <1>1, <2>1, <2>2, <2>3, <2>5, <2>6, DeviceStep
<1>7. CASE Rebooted \/ LinkLost
  <2>1. Parted /\ UNCHANGED <<key, disk, made, phase>>
    BY <1>7 DEF Rebooted, LinkLost, Happens
  <2> QED BY <1>3, <2>1, Away DEF Parted
<1>8. CASE Elsewhere
  <2>1. ~link /\ UNCHANGED <<key, disk, made, phase, link, wire, air, gate>>
    BY <1>8 DEF Elsewhere, Happens
  <2> QED BY <1>1, <1>3, <2>1, Away DEF TypeOK
<1>9. CASE Restart
  <2>1. Parted /\ key' = disk /\ disk' = disk /\ phase' = "down"
    BY <1>9 DEF Restart
  <2>2. OwnKeys'
    BY <2>1 DEF Known, OwnKeys, Ours
  <2> QED BY <2>1, <2>2, Away DEF Parted
<1> QED BY <1>4, <1>5, <1>6, <1>7, <1>8, <1>9

\* What is known of a proven session holds in every reachable state, whatever other
\* hosts and the person at the device do while the link is down.
THEOREM KnownSafe == Spec => [](TypeOK /\ Known)
<1>1. Init => TypeOK /\ Known
  <2> SUFFICES ASSUME Init
               PROVE  Known
    BY TypeInit
  <2>1. <<>> \in Seq(Told) /\ <<>> \in Seq(Sent)
    BY EmptySeq
  <2>2. OwnKeys
    BY DEF Init, OwnKeys
  <2>3. AnswerIsActive
    BY DEF Init, AnswerIsActive
  <2> QED BY <2>1, <2>2, <2>3 DEF Init, Known, Apart, AirIsTrue, WireIsOurs, GateIsFar, ProvenIsOurs
<1>2. TypeOK /\ Known /\ [Next]_vars => Known'
  <2> SUFFICES ASSUME TypeOK, Known, [Next]_vars
               PROVE  Known'
    OBVIOUS
  <2>1. CASE Worker
    BY <2>1, KnownConnect, KnownSession, KnownServing, KnownPair DEF Worker
  <2>2. CASE \E c \in Clients :
               \/ PairStart(c) \/ ClearOffline(c) \/ OwnerAnswered(c) \/ PathKnown(c)
               \/ Answered(c) \/ \E op \in Ops : Ask(c, op)
    BY <2>2, KnownHandler
  <2>3. CASE DeviceHandles
    BY <2>3, KnownHandles
  <2>4. CASE \/ DeviceSilent \/ DeviceButton \/ DeviceGate \/ Rebooted \/ LinkLost
             \/ Elsewhere \/ Restart
    BY <2>4, KnownWorld
  <2>5. CASE UNCHANGED vars
    BY <2>5 DEF vars, hostVars, pairVars, workerVars, deviceVars, counters, Known, OwnKeys, Ours,
                Apart, AirIsTrue, WireIsOurs, Told, Sent, GateIsFar, ProvenIsOurs, AnswerIsActive
  <2> QED BY <2>1, <2>2, <2>3, <2>4, <2>5 DEF Next
<1> QED BY <1>1, <1>2, TypeCorrect, PTL DEF Spec

\* handle_slot_status never names another host's slot as this host's: the slot it
\* names is the active one, which the HMAC of this session proved to hold this
\* host's key, and nothing has changed it since.
THEOREM OwnSlotNamed == Spec => MineIsOurs
<1>1. TypeOK /\ Known /\ [Next]_vars =>
        [\A c \in Clients : OwnerAnswered(c) /\ link /\ ~boot /\ client'[c].own # 0
                               => slots[client'[c].own] \in Ours]_vars
  <2> SUFFICES ASSUME TypeOK, Known, NEW c \in Clients, OwnerAnswered(c), link, ~boot,
                      client'[c].own # 0
               PROVE  slots[client'[c].own] \in Ours
    OBVIOUS
  <2> DEFINE ans == client[c].ans
             own == IF ans.kind = "slots" THEN Mine(ans) ELSE 0
  <2>1. client' = [client EXCEPT ![c] = [Calm EXCEPT !.own = own]]
    BY DEF OwnerAnswered
  <2> HIDE DEF own
  <2>2. client'[c].own = own
    BY <2>1 DEF TypeOK, Calm
  <2>3. ans.kind = "slots" /\ own = ans.n /\ proven
    BY <2>2 DEF own, Mine
  <2>4. own = active
    BY <2>3 DEF OwnerAnswered, Known, AnswerIsActive
  <2> QED BY <2>2, <2>3, <2>4 DEF Known, ProvenIsOurs
<1> QED BY <1>1, KnownSafe, PTL DEF Spec, MineIsOurs

-----------------------------------------------------------------------------
(* What is said of an empty slot *)

\* While the link lasts a slot is emptied only by a clear that restarts the device.
Emptied == link /\ ~boot /\ ~Paired

\* The frames that are true of an empty slot.
Unheld == {f \in Frames : f.kind # "confirmed" /\ (f.kind = "status" => f.n = 0)}

EmptyAir  == Emptied => air \in Seq(Unheld)
EmptyHost ==
  Emptied /\ phase \notin {"down", "status"} /\ heard # "none" /\ key # NoKey =>
    unpaired /\ ~verified /\ phase \notin {"challenge", "retry"}

LEMMA StatusOfEmpty ==
  /\ With("status", 0) \in Unheld
  /\ \A k \in Kinds : k \notin {"status", "confirmed"} => Frame(k) \in Unheld
<1>1. "status" \in Kinds /\ 0 \in Values \cup Slots
  BY ConstantsAssumption DEF Kinds, Answers, Values
<1>2. \A k \in Kinds : Frame(k) \in Frames /\ Frame(k).kind = k BY <1>1, FrameType
<1> QED BY <1>1, <1>2, FrameType DEF Unheld

\* What the constructors put where, and what the device's plain answers are.
LEMMA FieldsOf ==
  ASSUME NEW k, NEW n
  PROVE  /\ With(k, n).kind = k /\ With(k, n).n = n /\ With(k, n).nonce = 0
         /\ Frame(k).kind = k /\ Frame(k).n = 0 /\ Frame(k).nonce = 0
BY DEF With, Frame

LEMMA AnswerIs ==
  ASSUME NEW f
  PROVE  \/ f.kind = "status?" /\ Answer(f) = With("status", IF Paired THEN 1 ELSE 0)
         \/ /\ f.kind = "challenge" /\ Answer(f).kind = "hmac"
            /\ Answer(f).n = slots[active] /\ Answer(f).nonce = f.nonce
         \/ f.kind = "slots?" /\ Answer(f).kind = "slots" /\ Answer(f).n = active
         \/ f.kind \notin {"status?", "challenge", "slots?"} /\ Answer(f) = Frame("other")
<1>1. CASE f.kind = "status?" BY <1>1 DEF Answer
<1>2. CASE f.kind = "challenge"
  <2>1. Answer(f) = [With("hmac", slots[active]) EXCEPT !.nonce = f.nonce] BY <1>2 DEF Answer
  <2> QED BY <1>2, <2>1 DEF With, Frame
<1>3. CASE f.kind = "slots?"
  <2>1. Answer(f) = [With("slots", active) EXCEPT !.occ = {s \in Slots : slots[s] # NoKey}]
    BY <1>3 DEF Answer
  <2> QED BY <1>3, <2>1 DEF With, Frame
<1>4. CASE f.kind \notin {"status?", "challenge", "slots?"} BY <1>4 DEF Answer
<1> QED BY <1>1, <1>2, <1>3, <1>4

LEMMA TakenJob ==
  ASSUME TypeOK, TakeJob
  PROVE  /\ queue # <<>> /\ job' = Head(queue) /\ job' \in Jobs /\ queue' = Tail(queue)
         /\ \/ job'.cmd = "pair" /\ Sends(Frame("slots?"), "slots")
            \/ job'.cmd = "plain" /\ Sends(job'.frame, "plain")
            \/ job'.cmd = "gated" /\ Sends(job'.frame, "gated")
<1>1. queue # <<>> /\ queue \in Seq(Jobs) /\ job' = Head(queue) /\ queue' = Tail(queue)
  BY DEF TakeJob, TypeOK
<1>2. job' \in Jobs BY <1>1, HeadTailProperties
<1>3. job'.cmd \in {"pair", "plain", "gated"} BY <1>2 DEF Jobs
<1> QED BY <1>1, <1>2, <1>3 DEF TakeJob

LEMMA EmptyTakes ==
  ASSUME Known, EmptyAir, Emptied, NEW f \in Incoming, Takes(f)
  PROVE  air' \in Seq(Unheld) /\ (f = Silence \/ f \in Unheld) /\ Silence.kind = "silence"
<1>1. air \in Seq(Unheld) BY DEF EmptyAir
<1>2. air # <<>> => Head(air) \in Unheld /\ Tail(air) \in Seq(Unheld) BY <1>1, HeadTailProperties
<1> QED BY <1>1, <1>2, FixedFrames DEF Takes, Incoming

LEMMA EmptyHandler ==
  ASSUME TypeOK, EmptyAir, EmptyHost, NEW c \in Clients,
         \/ PairStart(c) \/ ClearOffline(c) \/ OwnerAnswered(c) \/ PathKnown(c) \/ Answered(c)
         \/ \E op \in Ops : Ask(c, op)
  PROVE  EmptyAir' /\ EmptyHost'
<1> USE DEF hostVars, pairVars, workerVars, deviceVars, counters
<1>1. UNCHANGED <<slots, active, boot, link, air, phase, heard>>
  BY DEF PairStart, ClearOffline, OwnerAnswered, PathKnown, Answered, Ask
<1>2. UNCHANGED hostVars \/ ClearLocal
  BY DEF PairStart, ClearOffline, OwnerAnswered, PathKnown, Answered, Ask
<1>3. key' = NoKey \/ UNCHANGED <<key, verified, unpaired>> BY <1>2 DEF ClearLocal
<1> QED BY <1>1, <1>3 DEF EmptyAir, EmptyHost, Emptied, Paired

LEMMA EmptySession ==
  ASSUME TypeOK, Known, EmptyAir, EmptyHost,
         Connect \/ StatusKnown \/ Challenged \/ ChallengedAgain \/ Synced \/ SessionEnds
  PROVE  EmptyAir' /\ EmptyHost'
<1> USE DEF hostVars, pairVars, workerVars, deviceVars, counters
<1>1. CASE Connect
  <2>1. UNCHANGED <<slots, active, boot, air>> /\ phase' = "status" BY <1>1 DEF Connect
  <2>2. CASE link BY <2>1, <2>2 DEF EmptyAir, EmptyHost, Emptied, Paired
  <2>3. CASE ~link
    <3>1. air' = <<>> /\ <<>> \in Seq(Unheld) BY <2>1, <2>3, EmptySeq DEF Known, Apart
    <3> QED BY <2>1, <3>1 DEF EmptyAir, EmptyHost, Unheld
  <2> QED BY <2>2, <2>3
<1>2. CASE SessionEnds
  BY <1>2 DEF SessionEnds, SessionOver, EmptyAir, EmptyHost, Emptied, Paired, Unheld
<1>3. ASSUME StatusKnown \/ Challenged \/ ChallengedAgain \/ Synced, Emptied'
      PROVE  Emptied /\ air' \in Seq(Unheld)
  <2>1. PICK f \in Incoming : Takes(f) BY <1>3 DEF StatusKnown, Challenged, ChallengedAgain, Synced, Hears
  <2>2. UNCHANGED <<slots, active, boot, link>>
    BY <1>3 DEF StatusKnown, Challenged, ChallengedAgain, Synced
  <2> QED BY <1>3, <2>1, <2>2, EmptyTakes DEF Emptied, Paired
<1>4. ASSUME StatusKnown, Emptied', heard' # "none", key' # NoKey
      PROVE  unpaired' /\ ~verified' /\ phase' \notin {"challenge", "retry"}
  <2>1. PICK f \in Incoming :
          /\ Takes(f)
          /\ heard' = IF f.kind # "status" THEN "none" ELSE IF f.n = 1 THEN "paired" ELSE "unpaired"
    BY <1>4 DEF StatusKnown, Hears
  <2>2. heard' = "unpaired" BY <1>3, <1>4, <2>1, EmptyTakes DEF Unheld
  <2>3. unpaired' /\ ~verified' BY <1>4, <2>2 DEF StatusKnown, Disowns
  <2> QED BY <1>4, <2>3 DEF StatusKnown, Serves
<1>5. ASSUME Challenged \/ ChallengedAgain, Emptied', heard' # "none", key' # NoKey, phase' # "down"
      PROVE  FALSE
  <2>1. Emptied /\ key # NoKey BY <1>3, <1>5 DEF Challenged, ChallengedAgain
  <2>2. heard # "none"
    BY <1>5 DEF Challenged, ChallengedAgain, SessionOver
  <2> QED BY <1>5, <2>1, <2>2 DEF EmptyHost, Challenged, ChallengedAgain
<1>6. CASE Synced BY <1>3, <1>6 DEF Synced, EmptyAir, EmptyHost
<1>7. CASE StatusKnown BY <1>3, <1>4, <1>7 DEF EmptyAir, EmptyHost, Unheld
<1>8. CASE Challenged \/ ChallengedAgain BY <1>3, <1>5, <1>8 DEF EmptyAir, EmptyHost, Unheld
<1> QED BY <1>1, <1>2, <1>6, <1>7, <1>8

LEMMA EmptyServing ==
  ASSUME TypeOK, Known, EmptyAir, EmptyHost,
         \/ TakeJob \/ PlainAnswered \/ GatedAnswered \/ Verdict \/ Dropped
         \/ PairSlots \/ PairInit \/ PairAgain \/ PairButton \/ ButtonNotified \/ PairConfirm
  PROVE  EmptyAir' /\ EmptyHost'
<1> USE DEF hostVars, pairVars, workerVars, deviceVars, counters
<1>1. UNCHANGED <<slots, active, boot, link, heard>>
  BY DEF TakeJob, PlainAnswered, GatedAnswered, Verdict, Dropped, PairSlots, PairInit, PairAgain,
         PairButton, ButtonNotified, PairConfirm
<1>2. Emptied' = Emptied /\ Unheld' = Unheld BY <1>1 DEF Emptied, Paired, Unheld
<1>3. ASSUME Emptied PROVE air' \in Seq(Unheld)
  <2>1. air \in Seq(Unheld) /\ (air # <<>> => Tail(air) \in Seq(Unheld))
    BY <1>3, HeadTailProperties DEF EmptyAir
  <2>2. air' = air \/ (air # <<>> /\ air' = Tail(air))
    BY DEF TakeJob, PlainAnswered, GatedAnswered, Verdict, Dropped, PairSlots, PairInit, PairAgain,
           PairButton, ButtonNotified, PairConfirm, Hears, Takes
  <2> QED BY <2>1, <2>2
<1>4. \/ /\ phase \notin {"down", "status", "challenge", "retry"}
         /\ phase' \notin {"down", "challenge", "retry"}
      \/ UNCHANGED phase
  <2>0. CASE TakeJob BY <2>0, TakenJob DEF Sends, TakeJob
  <2>1. CASE PlainAnswered \/ GatedAnswered \/ Verdict \/ Dropped
    BY <2>1 DEF PlainAnswered, GatedAnswered, Verdict, Dropped, Sends, Replies
  <2>2. CASE PairSlots \/ PairAgain \/ PairConfirm
    BY <2>2 DEF PairSlots, PairAgain, PairConfirm, Sends, Replies, PairOver
  <2>3. CASE PairInit \/ PairButton
    BY <2>3 DEF PairInit, PairButton, PairGoesOn, Confirms, Sends, Replies, PairOver
  <2>4. CASE ButtonNotified BY <2>4 DEF ButtonNotified, PairOver, Replies
  <2> QED BY <2>0, <2>1, <2>2, <2>3, <2>4
<1>5. ASSUME Emptied PROVE UNCHANGED <<key, verified, unpaired>>
  <2>1. CASE PairConfirm
    <3>1. PICK f \in Incoming : Takes(f) /\ (f.kind = "confirmed" \/ UNCHANGED hostVars)
      BY <2>1 DEF PairConfirm, Hears
    <3>2. f.kind # "confirmed" BY <1>5, <3>1, EmptyTakes DEF Unheld
    <3> QED BY <3>1, <3>2
  <2> QED BY <2>1 DEF TakeJob, PlainAnswered, GatedAnswered, Verdict, Dropped, PairSlots, PairInit,
             PairAgain, PairButton, ButtonNotified
<1> QED BY <1>1, <1>2, <1>3, <1>4, <1>5 DEF EmptyAir, EmptyHost

LEMMA EmptyDevice ==
  ASSUME TypeOK, Known, EmptyAir, EmptyHost,
         \/ DeviceHandles \/ DeviceSilent \/ DeviceButton \/ DeviceGate \/ Rebooted \/ LinkLost
         \/ Elsewhere \/ Restart
  PROVE  EmptyAir' /\ EmptyHost'
<1> USE DEF hostVars, pairVars, workerVars, deviceVars, counters
<1>1. CASE Rebooted \/ LinkLost \/ Elsewhere \/ Restart
  <2>1. ~link' BY <1>1 DEF Rebooted, LinkLost, Elsewhere, Restart, Parted
  <2> QED BY <2>1 DEF EmptyAir, EmptyHost, Emptied
<1>2. CASE DeviceHandles \/ DeviceSilent \/ DeviceButton \/ DeviceGate
  <2>1. UNCHANGED <<active, link, phase, heard, key, unpaired, verified>>
    BY <1>2 DEF DeviceHandles, DeviceSilent, DeviceButton, DeviceGate
  <2>2. slots \in [Slots -> Values] /\ active \in Slots BY DEF TypeOK
  <2>3. ASSUME Emptied' PROVE Emptied /\ (air' = air \/ \E x \in Unheld : air' = Append(air, x))
    <3>1. CASE DeviceSilent BY <2>3, <3>1 DEF DeviceSilent, Emptied, Paired
    <3>2. CASE DeviceButton
      <4>1. PICK k \in {"pubkey", "params"} \cup Buttons : air' = Append(air, Frame(k))
        BY <3>2 DEF DeviceButton, Buttons, Says
      <4>2. Frame(k) \in Unheld BY StatusOfEmpty DEF Kinds, Answers, Buttons
      <4> QED BY <2>3, <3>2, <4>1, <4>2 DEF DeviceButton, Emptied, Paired
    <3>3. CASE DeviceGate
      <4>1. PICK k \in {"no", "ok"} : air' = Append(air, Frame(k)) BY <3>3 DEF DeviceGate, Says
      <4>2. Frame(k) \in Unheld BY StatusOfEmpty DEF Kinds, Answers
      <4>3. slots' = slots \/ (slots' = Cleared(gate) /\ gate.kind # "reset")
        BY <2>3, <3>3 DEF DeviceGate, Emptied
      <4>4. GateIsFar /\ gate # Nothing BY <3>3 DEF Known, DeviceGate
      <4>5. slots'[active] = slots[active]
        BY <2>2, <4>3, <4>4 DEF Cleared, GateIsFar, Other, Slots
      <4> QED BY <2>1, <2>3, <3>3, <4>1, <4>2, <4>5 DEF DeviceGate, Emptied, Paired
    <3>4. CASE DeviceHandles
      <4> DEFINE f == Head(wire)
      <4>1. link /\ ~boot /\ f \in Sent
        BY <3>4, HeadTailProperties DEF DeviceHandles, Known, WireIsOurs
      <4>2. \/ \E k \in {"not paired", "params", "needs reset", "wait", "not confirmed", "refused", "wait fp"} :
                 Says(Frame(k)) /\ UNCHANGED slots
            \/ f.kind = "confirm" /\ slots' = [slots EXCEPT ![active] = f.n]
            \/ boot'
            \/ Says(Answer(f)) /\ UNCHANGED slots
        BY <3>4 DEF DeviceHandles, DevicePairs, DeviceConfirms, DeviceClears, Rests
      <4> HIDE DEF f
      <4>3. CASE \E k \in {"not paired", "params", "needs reset", "wait", "not confirmed", "refused", "wait fp"} :
                   Says(Frame(k)) /\ UNCHANGED slots
        <5>1. PICK k \in {"not paired", "params", "needs reset", "wait", "not confirmed", "refused", "wait fp"} :
                Says(Frame(k)) /\ UNCHANGED slots
          BY <4>3
        <5>2. Frame(k) \in Unheld BY StatusOfEmpty DEF Kinds, Answers
        <5> QED BY <2>1, <2>3, <4>1, <5>1, <5>2 DEF Says, Emptied, Paired
      <4>4. CASE f.kind = "confirm" /\ slots' = [slots EXCEPT ![active] = f.n]
        BY <2>1, <2>2, <2>3, <4>1, <4>4 DEF Sent, Emptied, Paired, Ours, NoKey
      <4>5. CASE boot' BY <2>3, <4>5 DEF Emptied
      <4>6. CASE Says(Answer(f)) /\ UNCHANGED slots
        <5>1. Emptied BY <2>1, <2>3, <4>1, <4>6 DEF Emptied, Paired
        <5>2. f \in Frames /\ Answer(f) \in Frames BY <4>1, AnswerType DEF Sent
        <5>3. Answer(f).kind # "confirmed" BY AnswerIs, FieldsOf
        <5>4. Answer(f).kind = "status" => Answer(f).n = 0
          BY <5>1, AnswerIs, FieldsOf DEF Emptied
        <5> QED BY <4>6, <5>1, <5>2, <5>3, <5>4 DEF Says, Unheld
      <4> QED BY <4>2, <4>3, <4>4, <4>5, <4>6
    <3> QED BY <1>2, <3>1, <3>2, <3>3, <3>4
  <2>4. Emptied' => air' \in Seq(Unheld) BY <2>3, AppendProperties DEF EmptyAir
  <2> QED BY <2>1, <2>3, <2>4 DEF EmptyAir, EmptyHost, Unheld
<1> QED BY <1>1, <1>2

\* A host whose key the device holds no longer says so and does not call the device
\* verified, for any number of clients and faults, lost and late answers included.
THEOREM EmptySlotsAreTold == Spec => []EmptyIsTold
<1>1. Init => EmptyAir /\ EmptyHost BY DEF Init, EmptyAir, EmptyHost, Emptied
<1>2. TypeOK /\ Known /\ EmptyAir /\ EmptyHost /\ [Next]_vars => (EmptyAir /\ EmptyHost)'
  <2> SUFFICES ASSUME TypeOK, Known, EmptyAir, EmptyHost, [Next]_vars PROVE (EmptyAir /\ EmptyHost)'
    OBVIOUS
  <2>1. CASE UNCHANGED vars
    BY <2>1 DEF vars, hostVars, pairVars, workerVars, deviceVars, counters, EmptyAir, EmptyHost, Emptied,
                Paired, Unheld
  <2> QED BY <2>1, EmptyHandler, EmptySession, EmptyServing, EmptyDevice DEF Next, Worker
<1>3. EmptyHost => EmptyIsTold BY DEF EmptyHost, EmptyIsTold, Settled, Emptied
<1> QED BY <1>1, <1>2, <1>3, KnownSafe, PTL DEF Spec

-----------------------------------------------------------------------------
(* Commands and the handlers they are of *)

\* The command is of a handler that waits for its answer.
Awaits(h, x) ==
  \/ h.at = "query" /\ x.cmd = "plain" /\ x.frame.kind = "slots?"
  \/ h.at = "act" /\ h.op = "pair" /\ x.cmd = "pair"
  \/ h.at = "act" /\ h.op = "clear" /\ x.cmd = "plain" /\ x.frame.kind = "clear" /\ x.frame.n = 0
  \/ h.at = "act" /\ h.op = "reset" /\ x.cmd = "gated" /\ x.frame.kind = "reset"
  \/ /\ h.at = "act" /\ h.op \in {"clear 1", "clear 2"}
     /\ x.frame.kind = "clear" /\ x.frame.n # 0
     /\ x.cmd = "gated" \/ (x.cmd = "plain" /\ h.own # 0)

\* One command for one handler, queued or being served, and the phase that serves it.
Pairs == {"slots", "init", "pause", "button", "confirm"}
JobsFit ==
  /\ \A i \in 1..Len(queue) : Awaits(client[queue[i].who], queue[i])
  /\ \A i, j \in 1..Len(queue) : queue[i].who = queue[j].who => i = j
  /\ job.cmd # "none" => /\ Awaits(client[job.who], job)
                         /\ \A i \in 1..Len(queue) : queue[i].who # job.who
  /\ phase \in Pairs <=> job.cmd = "pair"
  /\ phase = "plain" <=> job.cmd = "plain"
  /\ phase \in {"gated", "gate"} <=> job.cmd = "gated"

\* A handler that was answered is alone in that until it has run.
Woken(h) == h.at \in {"query answered", "answered"}
Named(h) == h.at # "idle" /\ h.own # 0 => h.op \in {"clear 1", "clear 2"}
Alone ==
  /\ \A c, d \in Clients : Woken(client[c]) /\ Woken(client[d]) => c = d
  /\ \A c \in Clients : Woken(client[c]) => phase \in {"serve", "down", "status"}
  /\ \A c \in Clients : Named(client[c])

Starting == {"down", "status", "challenge", "retry"}

LEMMA JobIs ==
  ASSUME TypeOK
  PROVE  /\ queue \in Seq(Jobs) /\ Len(queue) \in Nat
         /\ \A i \in 1..Len(queue) : queue[i] \in Jobs /\ queue[i].who \in Clients
         /\ job.cmd \in {"none", "pair", "plain", "gated"}
         /\ job.cmd # "none" => job \in Jobs /\ job.who \in Clients
         /\ NoJob.cmd = "none"
<1>1. queue \in Seq(Jobs) /\ job \in Jobs \cup {NoJob} BY DEF TypeOK
<1>2. Len(queue) \in Nat /\ \A i \in 1..Len(queue) : queue[i] \in Jobs BY <1>1, LenProperties, ElementOfSeq
<1>3. \A x \in Jobs : x.who \in Clients /\ x.cmd \in {"pair", "plain", "gated"} BY DEF Jobs
<1>4. NoJob.cmd = "none" BY DEF NoJob
<1> QED BY <1>1, <1>2, <1>3, <1>4

\* A handler that waits for nothing has no command under way.
LEMMA NoneOf ==
  ASSUME TypeOK, JobsFit, NEW c \in Clients, client[c].at \notin {"query", "act"}
  PROVE  /\ \A i \in 1..Len(queue) : queue[i].who # c
         /\ job.cmd # "none" => job.who # c
BY DEF JobsFit, Awaits

\* Its handler may change, and may send a command.
LEMMA OneHandler ==
  ASSUME TypeOK, JobsFit, NEW c \in Clients, client[c].at \notin {"query", "act"}, NEW h,
         client' = [client EXCEPT ![c] = h], UNCHANGED <<job, phase>>,
         \/ UNCHANGED queue
         \/ \E x \in Jobs : x.who = c /\ Awaits(h, x) /\ queue' = Append(queue, x)
  PROVE  JobsFit'
<1>1. client \in [Clients -> Handlers] BY DEF TypeOK
<1>2. client'[c] = h /\ \A d \in Clients \ {c} : client'[d] = client[d] BY <1>1
<1>3. \A i \in 1..Len(queue) : Awaits(client'[queue[i].who], queue[i])
  BY <1>2, JobIs, NoneOf DEF JobsFit
<1>4. job.cmd # "none" => Awaits(client'[job.who], job)
  BY <1>2, JobIs, NoneOf DEF JobsFit
<1>5. CASE UNCHANGED queue BY <1>3, <1>4, <1>5 DEF JobsFit
<1>6. ASSUME NEW x \in Jobs, x.who = c, Awaits(h, x), queue' = Append(queue, x) PROVE JobsFit'
  <2>1. Len(queue') = Len(queue) + 1 /\ queue'[Len(queue) + 1] = x
        /\ \A i \in 1..Len(queue) : queue'[i] = queue[i]
    BY <1>6, JobIs, AppendProperties
  <2>2. \A i \in 1..Len(queue') : i \in 1..Len(queue) \/ i = Len(queue) + 1 BY <2>1, JobIs
  <2>3. \A i \in 1..Len(queue') : Awaits(client'[queue'[i].who], queue'[i])
    BY <1>2, <1>3, <1>6, <2>1, <2>2
  <2>4. \A i, j \in 1..Len(queue') : queue'[i].who = queue'[j].who => i = j
    BY <1>6, <2>1, <2>2, NoneOf DEF JobsFit
  <2>5. job.cmd # "none" => \A i \in 1..Len(queue') : queue'[i].who # job.who
    BY <1>6, <2>1, <2>2, NoneOf DEF JobsFit
  <2> QED BY <1>4, <2>3, <2>4, <2>5 DEF JobsFit
<1> QED BY <1>5, <1>6

\* What a handler's step does to it and to the queue.
LEMMA HandlerIs ==
  ASSUME TypeOK, NEW c \in Clients,
         \/ PairStart(c) \/ ClearOffline(c) \/ OwnerAnswered(c) \/ PathKnown(c) \/ Answered(c)
         \/ \E op \in Ops : Ask(c, op)
  PROVE  /\ UNCHANGED <<job, phase>>
         /\ \/ UNCHANGED <<client, queue>>
            \/ /\ client[c].at \notin {"query", "act"}
               /\ \E h : /\ client' = [client EXCEPT ![c] = h] /\ ~Woken(h) /\ Named(h)
                         /\ \/ UNCHANGED queue
                            \/ \E x \in Jobs : x.who = c /\ Awaits(h, x) /\ queue' = Append(queue, x)
<1> USE DEF hostVars, pairVars, workerVars, deviceVars, counters
<1>1. UNCHANGED <<job, phase>>
  BY DEF PairStart, ClearOffline, OwnerAnswered, PathKnown, Answered, Ask
<1>2. CASE PairStart(c)
  <2> DEFINE h == [Calm EXCEPT !.op = "pair", !.at = "act"]
             x == [who |-> c, cmd |-> "pair", frame |-> Nothing]
  <2>1. client[c].at = "idle" /\ client' = [client EXCEPT ![c] = h] /\ queue' = Append(queue, x)
    BY <1>2 DEF PairStart, Queued
  <2>2. x \in Jobs /\ x.who = c BY FixedFrames DEF Jobs
  <2>3. ~Woken(h) /\ Named(h) /\ Awaits(h, x) BY DEF Calm, Woken, Named, Awaits
  <2> HIDE DEF h, x
  <2> QED BY <1>1, <2>1, <2>2, <2>3
<1>3. CASE ClearOffline(c) BY <1>1, <1>3 DEF ClearOffline
<1>4. CASE OwnerAnswered(c)
  <2> DEFINE own == IF client[c].ans.kind = "slots" THEN Mine(client[c].ans) ELSE 0
             h   == [Calm EXCEPT !.own = own]
  <2>1. client[c].at = "query answered" /\ client' = [client EXCEPT ![c] = h] /\ UNCHANGED queue
    BY <1>4 DEF OwnerAnswered
  <2> HIDE DEF own
  <2>2. ~Woken(h) /\ Named(h) BY DEF Calm, Woken, Named
  <2> HIDE DEF h
  <2> QED BY <1>1, <2>1, <2>2
<1>5. CASE PathKnown(c)
  <2> DEFINE f   == client[c].ans
             s   == Target(client[c].op)
             own == IF s = f.n THEN s ELSE 0
             h   == [client[c] EXCEPT !.at = "act", !.ans = Nothing, !.own = own]
             x   == [who |-> c, cmd |-> IF s = f.n THEN "plain" ELSE "gated", frame |-> With("clear", s)]
  <2>1. /\ client[c].at = "query answered" /\ client[c].op \in {"clear 1", "clear 2"}
        /\ \/ client' = [client EXCEPT ![c] = h] /\ queue' = Append(queue, x)
           \/ client' = [client EXCEPT ![c] = Calm] /\ UNCHANGED queue
    BY <1>5 DEF PathKnown, Leaves, Queued
  <2>a. s \in Slots BY <2>1 DEF Target, Slots
  <2>2. s \in Slots /\ s # 0 BY <2>a DEF Slots
  <2>3. With("clear", s) \in Frames /\ With("clear", s).kind = "clear" /\ With("clear", s).n = s
    BY <2>2, FrameType DEF Kinds, Cmds
  <2>4. x \in Jobs /\ x.who = c /\ x.cmd \in {"plain", "gated"} /\ x.frame = With("clear", s)
    BY <2>3 DEF Jobs
  <2>5. client[c] \in Handlers BY DEF TypeOK
  <2>6. h.at = "act" /\ h.op = client[c].op /\ h.own = own BY <2>5 DEF Handlers
  <2>7. x.cmd = "plain" => own # 0 BY <2>2
  <2> HIDE DEF h, x, own, s, f
  <2>8. ~Woken(h) /\ Named(h) /\ Awaits(h, x)
    BY <2>1, <2>2, <2>3, <2>4, <2>6, <2>7 DEF Woken, Named, Awaits
  <2>9. ~Woken(Calm) /\ Named(Calm) BY DEF Calm, Woken, Named
  <2> QED BY <1>1, <2>1, <2>4, <2>8, <2>9
<1>6. CASE Answered(c)
  <2>1. client[c].at = "answered" /\ client' = [client EXCEPT ![c] = Calm] /\ UNCHANGED queue
    BY <1>6 DEF Answered, Leaves
  <2>2. ~Woken(Calm) /\ Named(Calm) BY DEF Calm, Woken, Named
  <2> QED BY <1>1, <2>1, <2>2
<1>7. ASSUME NEW op \in Ops, Ask(c, op)
      PROVE  /\ client[c].at \notin {"query", "act"}
             /\ \E h : /\ client' = [client EXCEPT ![c] = h] /\ ~Woken(h) /\ Named(h)
                       /\ \E x \in Jobs : x.who = c /\ Awaits(h, x) /\ queue' = Append(queue, x)
  <2> DEFINE first == FirstCommand(op)
             h     == [Calm EXCEPT !.op = op, !.at = first.at]
             x     == [who |-> c, cmd |-> first.cmd, frame |-> first.frame]
  <2>1. /\ client[c].at = "idle" /\ client' = [client EXCEPT ![c] = h] /\ queue' = Append(queue, x)
        /\ op # "pair"
    BY <1>7 DEF Ask, Queued
  <2>2. \/ op = "reset" /\ first.at = "act" /\ first.cmd = "gated" /\ first.frame = Frame("reset")
        \/ op = "clear" /\ first.at = "act" /\ first.cmd = "plain" /\ first.frame = Frame("clear")
        \/ first.at = "query" /\ first.cmd = "plain" /\ first.frame = Frame("slots?")
    BY DEF FirstCommand
  <2>3. \A k \in {"reset", "clear", "slots?"} :
          Frame(k) \in Frames /\ Frame(k).kind = k /\ Frame(k).n = 0
    BY FrameType DEF Kinds, Cmds, Slots
  <2> HIDE DEF first
  <2>4. h.op = op /\ h.at = first.at /\ h.own = 0 BY DEF Calm
  <2>5. x \in Jobs /\ x.who = c /\ x.cmd = first.cmd /\ x.frame = first.frame BY <2>2, <2>3 DEF Jobs
  <2> HIDE DEF h, x
  <2>6. ~Woken(h) /\ Named(h) BY <2>2, <2>4 DEF Woken, Named
  <2>7. Awaits(h, x) BY <2>2, <2>3, <2>4, <2>5 DEF Awaits
  <2> QED BY <2>1, <2>5, <2>6, <2>7
<1> QED BY <1>1, <1>2, <1>3, <1>4, <1>5, <1>6, <1>7

LEMMA JobsHandler ==
  ASSUME TypeOK, JobsFit, Alone, NEW c \in Clients,
         \/ PairStart(c) \/ ClearOffline(c) \/ OwnerAnswered(c) \/ PathKnown(c) \/ Answered(c)
         \/ \E op \in Ops : Ask(c, op)
  PROVE  JobsFit' /\ Alone'
<1>1. UNCHANGED <<job, phase>> BY HandlerIs
<1>2. CASE UNCHANGED <<client, queue>> BY <1>1, <1>2 DEF JobsFit, Alone
<1>3. ASSUME client[c].at \notin {"query", "act"}, NEW h,
             client' = [client EXCEPT ![c] = h], ~Woken(h), Named(h),
             \/ UNCHANGED queue
             \/ \E x \in Jobs : x.who = c /\ Awaits(h, x) /\ queue' = Append(queue, x)
      PROVE  JobsFit' /\ Alone'
  <2>1. JobsFit' BY <1>1, <1>3, OneHandler
  <2>2. client'[c] = h /\ \A d \in Clients \ {c} : client'[d] = client[d] BY <1>3 DEF TypeOK
  <2> QED BY <1>1, <1>3, <2>1, <2>2 DEF Alone
<1> QED BY <1>2, <1>3, HandlerIs

\* A worker's step in a session that is being served: a reply, or the wait goes on.
LEMMA ServingIs ==
  ASSUME \/ PlainAnswered \/ GatedAnswered \/ Verdict \/ Dropped
         \/ PairSlots \/ PairInit \/ PairAgain \/ PairButton \/ ButtonNotified \/ PairConfirm
  PROVE  /\ UNCHANGED hostVars \/ PairConfirm
         /\ UNCHANGED <<queue, heard, slots, active, step, gate, boot, link>>
         /\ Prompt \/ (phase = "pause" /\ phase' = "init" /\ UNCHANGED <<job, client>>)
         /\ \/ (\E f : Replies(f)) /\ phase \in Pairs \cup {"plain", "gated", "gate"}
            \/ /\ UNCHANGED <<job, client>>
               /\ \/ phase' = phase \/ (phase \in Pairs /\ phase' \in Pairs)
                  \/ (phase = "gated" /\ phase' = "gate")
<1> USE DEF hostVars, pairVars, workerVars, deviceVars, counters, Pairs
<1>1. CASE PlainAnswered BY <1>1 DEF PlainAnswered, Hears, Takes
<1>2. CASE GatedAnswered
  <2>1. PICK f : /\ Prompt
                 /\ \/ \E g : Replies(g)
                    \/ phase' = "gate" /\ UNCHANGED <<job, client>>
    BY <1>2 DEF GatedAnswered, Hears, Takes
  <2> QED BY <1>2, <2>1 DEF GatedAnswered
<1>3. CASE Verdict BY <1>3 DEF Verdict, Hears, Takes
<1>4. CASE Dropped BY <1>4 DEF Dropped
<1>5. CASE PairSlots BY <1>5 DEF PairSlots, Hears, Takes, Sends
<1>6. ASSUME NEW f, PairGoesOn(f)
      PROVE  \/ \E g : Replies(g)
             \/ UNCHANGED <<job, client>> /\ phase' \in Pairs
  BY <1>6 DEF PairGoesOn, Confirms, Sends, PairOver
<1>7. CASE PairInit
  <2>1. PICK f : /\ Prompt
                 /\ \/ phase' = "button" /\ UNCHANGED <<job, client>>
                    \/ PairGoesOn(f)
    BY <1>7 DEF PairInit, Takes
  <2>2. \/ \E g : Replies(g)
        \/ UNCHANGED <<job, client>> /\ phase' \in Pairs
    BY <1>6, <2>1
  <2> QED BY <1>7, <2>1, <2>2 DEF PairInit
<1>8. CASE PairAgain BY <1>8 DEF PairAgain, Sends
<1>9. CASE PairButton
  <2>1. PICK f : Prompt /\ PairGoesOn(f) BY <1>9 DEF PairButton, Takes
  <2>2. \/ \E g : Replies(g)
        \/ UNCHANGED <<job, client>> /\ phase' \in Pairs
    BY <1>6, <2>1
  <2> QED BY <1>9, <2>1, <2>2 DEF PairButton
<1>10. CASE ButtonNotified BY <1>10 DEF ButtonNotified, PairOver
<1>11. CASE PairConfirm BY <1>11 DEF PairConfirm, Hears, Takes, PairOver
<1> QED BY <1>1, <1>2, <1>3, <1>4, <1>5, <1>7, <1>8, <1>9, <1>10, <1>11

\* The start of a session serves nobody.
LEMMA SessionIs ==
  ASSUME Connect \/ StatusKnown \/ Challenged \/ ChallengedAgain \/ Synced \/ SessionEnds
  PROVE  /\ UNCHANGED <<queue, job, client, slots, active, step, gate, boot, key>>
         /\ phase \in Starting \cup {"sync", "serve"} /\ phase' \in Starting \cup {"sync", "serve"}
         /\ \/ Prompt
            \/ phase = "serve" /\ phase' = "down"
            \/ phase = "down" /\ phase' = "status"
<1> USE DEF hostVars, pairVars, workerVars, deviceVars, counters, Starting
<1>1. CASE Connect BY <1>1 DEF Connect
<1>2. CASE StatusKnown
  BY <1>2 DEF StatusKnown, Hears, Takes, Serves, Challenge, Sends
<1>3. CASE Challenged
  <2>1. PICK f \in Incoming :
          /\ Takes(f)
          /\ \/ Serves(verified') \/ Serves(TRUE) \/ SessionOver \/ Challenge(2, "retry")
    BY <1>3 DEF Challenged, Hears
  <2> QED BY <1>3, <2>1 DEF Challenged, Takes, Serves, SessionOver, Challenge, Sends
<1>4. CASE ChallengedAgain BY <1>4 DEF ChallengedAgain, Hears, Takes, Serves, Sends
<1>5. CASE Synced BY <1>5 DEF Synced, Hears, Takes
<1>6. CASE SessionEnds BY <1>6 DEF SessionEnds, SessionOver
<1> QED BY <1>1, <1>2, <1>3, <1>4, <1>5, <1>6

LEMMA JobsWorker ==
  ASSUME TypeOK, JobsFit, Alone, Worker
  PROVE  JobsFit' /\ Alone'
<1>1. CASE Connect \/ StatusKnown \/ Challenged \/ ChallengedAgain \/ Synced \/ SessionEnds
  <2>1. /\ UNCHANGED <<queue, job, client>>
        /\ phase \notin Pairs \cup {"plain", "gated", "gate"}
        /\ phase' \notin Pairs \cup {"plain", "gated", "gate"}
    BY <1>1, SessionIs DEF Starting, Pairs
  <2>2. JobsFit' BY <2>1 DEF JobsFit
  <2>3. Alone' BY <1>1, <2>1, SessionIs DEF Alone, Prompt, Woken
  <2> QED BY <2>2, <2>3
<1>2. CASE TakeJob
  <2>1. queue # <<>> /\ job' = Head(queue) /\ job' \in Jobs /\ queue' = Tail(queue)
    BY <1>2, TakenJob
  <2>2. /\ phase' \in {"slots", "plain", "gated"}
        /\ job'.cmd = "pair" <=> phase' = "slots"
        /\ job'.cmd = "plain" <=> phase' = "plain"
        /\ job'.cmd = "gated" <=> phase' = "gated"
    BY <1>2, TakenJob DEF Sends
  <2>3. Prompt /\ UNCHANGED client BY <1>2 DEF TakeJob
  <2>4. /\ Len(queue') = Len(queue) - 1 /\ Len(queue) \in Nat \ {0}
        /\ \A i \in 1..Len(queue') : queue'[i] = queue[i + 1]
        /\ job' = queue[1]
    BY <2>1, JobIs, HeadTailProperties, EmptySeq
  <2>5. \A i \in 1..Len(queue') : i + 1 \in 1..Len(queue) /\ i + 1 # 1
    BY <2>4
  <2>6. 1 \in 1..Len(queue) BY <2>4
  <2>7. \A i \in 1..Len(queue') : Awaits(client'[queue'[i].who], queue'[i])
    BY <2>3, <2>4, <2>5 DEF JobsFit
  <2>8. \A i, j \in 1..Len(queue') : queue'[i].who = queue'[j].who => i = j
    <3> SUFFICES ASSUME NEW i \in 1..Len(queue'), NEW j \in 1..Len(queue'),
                        queue'[i].who = queue'[j].who
                 PROVE  i = j
      OBVIOUS
    <3>1. i + 1 = j + 1 BY <2>4, <2>5 DEF JobsFit
    <3> QED BY <2>4, <3>1
  <2>9. Awaits(client'[job'.who], job') /\ \A i \in 1..Len(queue') : queue'[i].who # job'.who
    BY <2>3, <2>4, <2>5, <2>6 DEF JobsFit
  <2>10. JobsFit' BY <2>2, <2>7, <2>8, <2>9 DEF JobsFit, Pairs
  <2> QED BY <2>3, <2>10 DEF Alone, Prompt, Woken
<1>3. CASE \/ PlainAnswered \/ GatedAnswered \/ Verdict \/ Dropped
           \/ PairSlots \/ PairInit \/ PairAgain \/ PairButton \/ ButtonNotified \/ PairConfirm
  <2>1. UNCHANGED queue BY <1>3, ServingIs
  <2>2. CASE UNCHANGED <<job, client>>
    <3>1. \/ phase' = phase \/ (phase \in Pairs /\ phase' \in Pairs)
          \/ (phase = "gated" /\ phase' = "gate") \/ (\E f : Replies(f))
      BY <1>3, ServingIs
    <3>2. (\E f : Replies(f)) => job' = NoJob /\ phase' = "serve" BY DEF Replies
    <3>3. JobsFit' BY <2>1, <2>2, <3>1, <3>2, JobIs DEF JobsFit, Pairs
    <3>4. Alone' BY <1>3, <2>2, ServingIs DEF Alone, Prompt, Woken
    <3> QED BY <3>3, <3>4
  <2>3. ASSUME NEW f, Replies(f), Prompt, phase \in Pairs \cup {"plain", "gated", "gate"}
        PROVE  JobsFit' /\ Alone'
    <3> DEFINE h == [client[job.who] EXCEPT !.ans = f,
                   !.at = IF client[job.who].at = "query" THEN "query answered" ELSE "answered"]
    <3>1. client' = [client EXCEPT ![job.who] = h] /\ job' = NoJob /\ phase' = "serve"
      BY <2>3 DEF Replies
    <3>2. job.cmd # "none" BY <2>3 DEF JobsFit, Pairs
    <3>3. job.who \in Clients /\ client[job.who] \in Handlers BY <3>2, JobIs DEF TypeOK
    <3>4. h.own = client[job.who].own /\ h.op = client[job.who].op BY <3>3 DEF Handlers
    <3>5. client[job.who].at # "idle" BY <3>2 DEF JobsFit, Awaits
    <3> HIDE DEF h
    <3>6. client'[job.who] = h /\ \A d \in Clients \ {job.who} : client'[d] = client[d]
      BY <3>1, <3>3 DEF TypeOK
    <3>7. JobsFit' BY <2>1, <3>1, <3>2, <3>6, JobIs DEF JobsFit, Pairs
    <3>8. Named(h) BY <3>3, <3>4, <3>5 DEF Alone, Named
    <3>9. \A d \in Clients : Woken(client'[d]) => d = job.who BY <2>3, <3>6 DEF Prompt, Woken
    <3> QED BY <3>1, <3>6, <3>7, <3>8, <3>9 DEF Alone
  <2> QED BY <1>3, <2>2, <2>3, ServingIs
<1> QED BY <1>1, <1>2, <1>3 DEF Worker

LEMMA JobsDevice ==
  ASSUME TypeOK, JobsFit, Alone,
         \/ DeviceHandles \/ DeviceSilent \/ DeviceButton \/ DeviceGate \/ Rebooted \/ LinkLost
         \/ Elsewhere \/ Restart
  PROVE  JobsFit' /\ Alone'
<1> USE DEF hostVars, pairVars, workerVars, deviceVars, counters
<1>1. CASE UNCHANGED <<queue, job, client, phase>> BY <1>1 DEF JobsFit, Alone
<1>2. CASE Restart
  <2>1. /\ phase' = "down" /\ job' = NoJob /\ queue' = <<>>
        /\ client' = [c \in Clients |-> Calm]
    BY <1>2 DEF Restart
  <2>2. Len(queue') = 0 BY <2>1, EmptySeq
  <2>3. \A c \in Clients : client'[c].at = "idle" BY <2>1 DEF Calm
  <2>4. JobsFit' BY <2>1, <2>2, JobIs DEF JobsFit, Pairs
  <2> QED BY <2>3, <2>4 DEF Alone, Woken, Named
<1> QED BY <1>1, <1>2 DEF DeviceHandles, DeviceSilent, DeviceButton, DeviceGate, Rebooted, LinkLost, Elsewhere
-----------------------------------------------------------------------------
(* Keys and what is known of them *)

\* A key is in one slot, and an attempt's is new.
Fresh ==
  /\ \A s \in Slots : slots[s] \in Ours => slots[s] <= made /\ slots[s] # slots[Other(s)]
  /\ \A i \in 1..Len(wire) : wire[i].kind = "confirm" =>
       /\ wire[i].n <= made /\ \A s \in Slots : slots[s] # wire[i].n
       /\ \A j \in 1..Len(wire) : wire[j].kind = "confirm" /\ wire[j].n = wire[i].n => j = i
ProvenServes == proven => key # NoKey /\ phase \notin Starting


\* What may happen to the slots and to the wire without a confirm.
LEMMA FreshKept ==
  ASSUME TypeOK, Known, Fresh, made' = made, active' \in Slots,
         wire' \in {wire, <<>>} \/ (wire # <<>> /\ wire' = Tail(wire))
           \/ \E f \in Frames : f.kind # "confirm" /\ wire' = Append(wire, f),
         \A s \in Slots : slots'[s] \in {slots[s], NoKey, Theirs}
  PROVE  Fresh'
<1>1. wire \in Seq(Frames) /\ wire \in Seq(Sent) /\ Len(wire) \in Nat
  BY LenProperties DEF TypeOK, Known, WireIsOurs
<1>2. \A i \in 1..Len(wire) : wire[i].kind = "confirm" => wire[i].n \in Ours
  BY <1>1, ElementOfSeq DEF Sent
<1>3. NoKey \notin Ours /\ Theirs \notin Ours BY ConstantsAssumption DEF NoKey, Ours, Theirs
<1>4. \A s \in Slots : slots'[s] \in Ours => slots'[s] <= made' /\ slots'[s] # slots'[Other(s)]
  BY <1>3 DEF Fresh, Slots, Other
<1>5. \A i \in 1..Len(wire) : wire[i].kind = "confirm" =>
        wire[i].n <= made' /\ \A s \in Slots : slots'[s] # wire[i].n
  BY <1>2, <1>3 DEF Fresh
<1>6. CASE wire' = wire BY <1>4, <1>5, <1>6 DEF Fresh
<1>7. CASE wire' = <<>>
  <2>1. Len(wire') = 0 BY <1>7, EmptySeq
  <2> QED BY <1>4, <2>1 DEF Fresh
<1>8. CASE wire # <<>> /\ wire' = Tail(wire)
  <2>1. Len(wire') = Len(wire) - 1 /\ \A i \in 1..Len(wire') : wire'[i] = wire[i + 1]
    BY <1>1, <1>8, HeadTailProperties
  <2>2. \A i \in 1..Len(wire') : i + 1 \in 1..Len(wire) BY <1>1, <2>1
  <2>3. \A i, j \in 1..Len(wire') :
          wire'[i].kind = "confirm" /\ wire'[j].kind = "confirm" /\ wire'[j].n = wire'[i].n => j = i
    <3> SUFFICES ASSUME NEW i \in 1..Len(wire'), NEW j \in 1..Len(wire'), wire'[i].kind = "confirm",
                        wire'[j].kind = "confirm", wire'[j].n = wire'[i].n
                 PROVE  j = i
      OBVIOUS
    <3>1. j + 1 = i + 1 BY <2>1, <2>2 DEF Fresh
    <3> QED BY <1>1, <2>1, <3>1
  <2> QED BY <1>4, <1>5, <2>1, <2>2, <2>3 DEF Fresh
<1>9. ASSUME NEW f \in Frames, f.kind # "confirm", wire' = Append(wire, f) PROVE Fresh'
  <2>1. Len(wire') = Len(wire) + 1 /\ wire'[Len(wire) + 1] = f
        /\ \A i \in 1..Len(wire) : wire'[i] = wire[i]
    BY <1>1, <1>9, AppendProperties
  <2>2. \A i \in 1..Len(wire') : i \in 1..Len(wire) \/ i = Len(wire) + 1 BY <1>1, <2>1
  <2>3. \A i \in 1..Len(wire') : wire'[i].kind = "confirm" => i \in 1..Len(wire) /\ wire'[i] = wire[i]
    BY <1>9, <2>1, <2>2
  <2> QED BY <1>4, <1>5, <2>3 DEF Fresh
<1> QED BY <1>6, <1>7, <1>8, <1>9

LEMMA FreshConfirms ==
  ASSUME TypeOK, Known, Fresh, Confirms, UNCHANGED slots
  PROVE  Fresh'
<1>1. made \in Nat /\ made < MaxAsks /\ made' = made + 1 BY DEF TypeOK, Confirms
<1>2. wire' = Append(wire, With("confirm", made')) \/ wire' = wire BY DEF Confirms, Sends
<1>3. wire \in Seq(Frames) /\ Len(wire) \in Nat BY LenProperties DEF TypeOK
<1>4. made' \in Values BY <1>1, ConstantsAssumption DEF Values
<1>5. With("confirm", made') \in Frames /\ With("confirm", made').n = made'
  BY <1>4, FrameType DEF Kinds, Cmds
<1>6. \A s \in Slots : slots[s] # made'
  BY <1>1, ConstantsAssumption DEF Fresh, Ours
<1>7. \A s \in Slots : slots'[s] \in Ours => slots'[s] <= made' /\ slots'[s] # slots'[Other(s)]
  BY <1>1 DEF Fresh, Ours
<1>8. \A i \in 1..Len(wire) : wire[i].kind = "confirm" => wire[i].n <= made' /\ wire[i].n # made'
  <2>1. \A i \in 1..Len(wire) : wire[i].kind = "confirm" => wire[i].n \in Ours
    BY <1>3, ElementOfSeq DEF Known, WireIsOurs, Sent
  <2> QED BY <1>1, <2>1 DEF Fresh, Ours
<1>9. CASE wire' = wire BY <1>7, <1>8, <1>9 DEF Fresh
<1>10. CASE wire' = Append(wire, With("confirm", made'))
  <2>1. Len(wire') = Len(wire) + 1 /\ wire'[Len(wire) + 1] = With("confirm", made')
        /\ \A i \in 1..Len(wire) : wire'[i] = wire[i]
    BY <1>3, <1>5, <1>10, AppendProperties
  <2>2. \A i \in 1..Len(wire') : i \in 1..Len(wire) \/ i = Len(wire) + 1 BY <1>3, <2>1
  <2>3. \A i \in 1..Len(wire') : wire'[i].kind = "confirm" =>
          wire'[i].n <= made' /\ \A s \in Slots : slots'[s] # wire'[i].n
    BY <1>1, <1>5, <1>6, <1>8, <2>1, <2>2 DEF Fresh
  <2>4. \A i, j \in 1..Len(wire') :
          wire'[i].kind = "confirm" /\ wire'[j].kind = "confirm" /\ wire'[j].n = wire'[i].n => j = i
    BY <1>5, <1>8, <2>1, <2>2 DEF Fresh
  <2> QED BY <1>7, <2>3, <2>4 DEF Fresh
<1> QED BY <1>2, <1>9, <1>10

\* The key of a confirm is in no slot but the one it is put in.
LEMMA FreshStored ==
  ASSUME TypeOK, Known, Fresh, wire # <<>>, wire' = Tail(wire), Head(wire).kind = "confirm",
         slots' = [slots EXCEPT ![active] = Head(wire).n], UNCHANGED <<made, active>>
  PROVE  Fresh'
<1>1. wire \in Seq(Frames) /\ wire \in Seq(Sent) /\ Len(wire) \in Nat \ {0}
  BY LenProperties, EmptySeq DEF TypeOK, Known, WireIsOurs
<1>2. /\ Len(wire') = Len(wire) - 1 /\ \A i \in 1..Len(wire') : wire'[i] = wire[i + 1]
      /\ Head(wire) = wire[1]
  BY <1>1, HeadTailProperties
<1>3. 1 \in 1..Len(wire) /\ \A i \in 1..Len(wire') : i + 1 \in 1..Len(wire) /\ i + 1 # 1
  BY <1>1, <1>2
<1>4. /\ slots'[active] = wire[1].n /\ slots'[Other(active)] = slots[Other(active)]
      /\ active \in Slots /\ \A s \in Slots : s = active \/ s = Other(active)
      /\ Other(Other(active)) = active /\ Other(active) \in Slots /\ Other(active) # active
  BY <1>2 DEF TypeOK, Slots, Other
<1>5. wire[1].n <= made /\ \A s \in Slots : slots[s] # wire[1].n BY <1>2, <1>3 DEF Fresh
<1>6. \A s \in Slots : slots'[s] \in Ours => slots'[s] <= made' /\ slots'[s] # slots'[Other(s)]
  BY <1>4, <1>5 DEF Fresh
<1>7. \A i \in 1..Len(wire') : wire'[i].kind = "confirm" =>
        wire'[i].n <= made' /\ wire'[i].n # wire[1].n /\ \A s \in Slots : slots[s] # wire'[i].n
  BY <1>2, <1>3 DEF Fresh
<1>8. \A i, j \in 1..Len(wire') :
        wire'[i].kind = "confirm" /\ wire'[j].kind = "confirm" /\ wire'[j].n = wire'[i].n => j = i
  <2> SUFFICES ASSUME NEW i \in 1..Len(wire'), NEW j \in 1..Len(wire'), wire'[i].kind = "confirm",
                      wire'[j].kind = "confirm", wire'[j].n = wire'[i].n
               PROVE  j = i
    OBVIOUS
  <2>1. j + 1 = i + 1 BY <1>2, <1>3 DEF Fresh
  <2> QED BY <1>1, <1>2, <2>1
<1>9. ASSUME NEW i \in 1..Len(wire'), wire'[i].kind = "confirm", NEW s \in Slots
      PROVE  slots'[s] # wire'[i].n
  <2>1. wire'[i].n # wire[1].n /\ slots[Other(active)] # wire'[i].n BY <1>4, <1>7, <1>9
  <2>2. s = active \/ s = Other(active) BY <1>4
  <2> QED BY <1>4, <2>1, <2>2
<1> QED BY <1>6, <1>7, <1>8, <1>9 DEF Fresh

LEMMA FreshHolds ==
  ASSUME TypeOK, TypeOK', Known, Fresh, Next
  PROVE  Fresh'
<1> USE DEF hostVars, pairVars, workerVars, deviceVars, counters
<1>0. active' \in Slots BY DEF TypeOK
<1>a. \A s \in Slots : slots'[s] = slots[s] => slots'[s] \in {slots[s], NoKey, Theirs} OBVIOUS
<1>b. ASSUME UNCHANGED <<slots, made>>,
             \/ wire' \in {wire, <<>>}
             \/ \E k \in Cmds : k # "confirm" /\ wire' = Append(wire, Frame(k))
             \/ \E n \in {1, 2} : wire' = Append(wire, [Frame("challenge") EXCEPT !.nonce = n])
             \/ \E f \in Frames : f.kind # "confirm" /\ wire' = Append(wire, f)
      PROVE  Fresh'
  <2>1. \A k \in Cmds : Frame(k) \in Frames /\ Frame(k).kind = k
    BY FrameType DEF Kinds, Slots
  <2>2. \A n \in {1, 2} : LET f == [Frame("challenge") EXCEPT !.nonce = n]
                          IN f \in Frames /\ f.kind = "challenge"
    BY <2>1 DEF Frames, Cmds
  <2>3. wire' \in {wire, <<>>} \/ \E f \in Frames : f.kind # "confirm" /\ wire' = Append(wire, f)
    BY <1>b, <2>1, <2>2
  <2> QED BY <1>0, <1>b, <2>3, FreshKept
<1>1. ASSUME NEW c \in Clients,
             \/ PairStart(c) \/ ClearOffline(c) \/ OwnerAnswered(c) \/ PathKnown(c) \/ Answered(c)
             \/ \E op \in Ops : Ask(c, op)
      PROVE  Fresh'
  BY <1>1, <1>b DEF PairStart, ClearOffline, OwnerAnswered, PathKnown, Answered, Ask
<1>2. CASE Connect BY <1>2, <1>b DEF Connect, Cmds
<1>3. CASE StatusKnown
  <2>1. Serves(FALSE) \/ Serves(TRUE) \/ Challenge(1, "challenge") BY <1>3 DEF StatusKnown
  <2> QED BY <1>3, <2>1, <1>b DEF StatusKnown, Hears, Takes, Serves, Challenge, Sends, Cmds
<1>4. CASE Challenged
  <2>1. Serves(verified') \/ Serves(TRUE) \/ UNCHANGED wire \/ Challenge(2, "retry")
    BY <1>4 DEF Challenged
  <2> QED BY <1>4, <2>1, <1>b DEF Challenged, Hears, Takes, Serves, Challenge, Sends, Cmds
<1>5. CASE ChallengedAgain BY <1>5, <1>b DEF ChallengedAgain, Hears, Takes, Serves, Sends, Cmds
<1>6. CASE Synced BY <1>6, <1>b DEF Synced, Hears
<1>7. CASE SessionEnds BY <1>7, <1>b DEF SessionEnds
<1>8. CASE TakeJob
  <2>1. UNCHANGED <<slots, made>> BY <1>8 DEF TakeJob
  <2>2. wire' = wire \/ wire' = Append(wire, Frame("slots?")) \/ wire' = Append(wire, job'.frame)
    BY <1>8, TakenJob DEF Sends
  <2>3. job'.frame \in Frames /\ job'.frame.kind # "confirm" BY <1>8, TakenJob DEF Jobs
  <2> QED BY <2>1, <2>2, <2>3, <1>b DEF Cmds
<1>9. CASE PlainAnswered \/ GatedAnswered \/ Verdict \/ Dropped
  BY <1>9, <1>b DEF PlainAnswered, GatedAnswered, Verdict, Dropped, Hears
<1>10. CASE PairSlots \/ PairAgain
  BY <1>10, <1>b DEF PairSlots, PairAgain, Hears, Sends, Cmds
<1>11. ASSUME NEW f, PairGoesOn(f), UNCHANGED slots PROVE Fresh'
  <2>1. UNCHANGED <<made, wire>> \/ Confirms BY <1>11 DEF PairGoesOn, PairOver
  <2> QED BY <1>11, <2>1, <1>b, FreshConfirms
<1>12. CASE PairInit
  <2>1. PICK f : UNCHANGED <<made, wire>> \/ PairGoesOn(f) BY <1>12 DEF PairInit
  <2> QED BY <1>12, <2>1, <1>b, <1>11 DEF PairInit
<1>13. CASE PairButton
  <2>1. PICK f : PairGoesOn(f) BY <1>13 DEF PairButton
  <2> QED BY <1>13, <2>1, <1>11 DEF PairButton
<1>14. CASE ButtonNotified BY <1>14, <1>b DEF ButtonNotified, PairOver
<1>15. CASE PairConfirm BY <1>15, <1>b DEF PairConfirm, PairOver, Hears
<1>16. CASE DeviceHandles
  <2> DEFINE f == Head(wire)
  <2>1. wire # <<>> /\ wire' = Tail(wire) /\ UNCHANGED <<active, made>> BY <1>16 DEF DeviceHandles
  <2>2. \/ f.kind = "confirm" /\ slots' = [slots EXCEPT ![active] = f.n]
        \/ UNCHANGED slots
        \/ slots' = [slots EXCEPT ![active] = NoKey]
        \/ f.kind = "reset" /\ slots' = Cleared(f)
    BY <1>16 DEF DeviceHandles, DevicePairs, DeviceConfirms, DeviceClears, Rests
  <2> HIDE DEF f
  <2>3. CASE f.kind = "confirm" /\ slots' = [slots EXCEPT ![active] = f.n]
    BY <2>1, <2>3, FreshStored DEF f
  <2>4. CASE UNCHANGED slots BY <1>0, <2>1, <2>4, FreshKept
  <2>5. CASE slots' = [slots EXCEPT ![active] = NoKey]
    <3>1. \A s \in Slots : slots'[s] \in {slots[s], NoKey} BY <2>5 DEF TypeOK
    <3> QED BY <1>0, <2>1, <3>1, FreshKept
  <2>6. CASE f.kind = "reset" /\ slots' = Cleared(f)
    <3>1. \A s \in Slots : slots'[s] = NoKey BY <2>6 DEF Cleared
    <3> QED BY <1>0, <2>1, <3>1, FreshKept
  <2> QED BY <2>2, <2>3, <2>4, <2>5, <2>6
<1>17. CASE DeviceSilent BY <1>0, <1>17, FreshKept DEF DeviceSilent
<1>18. CASE DeviceButton BY <1>18, <1>b DEF DeviceButton
<1>19. CASE DeviceGate
  <2>1. UNCHANGED <<wire, made>> /\ (UNCHANGED slots \/ slots' = Cleared(gate)) BY <1>19 DEF DeviceGate
  <2>2. \A s \in Slots : slots'[s] \in {slots[s], NoKey} BY <2>1 DEF Cleared, TypeOK
  <2> QED BY <1>0, <2>1, <2>2, FreshKept
<1>20. CASE Rebooted \/ LinkLost \/ Restart
  BY <1>20, <1>b DEF Rebooted, LinkLost, Restart, Parted, Happens
<1>21. CASE Elsewhere
  <2>1. UNCHANGED <<wire, made>> BY <1>21 DEF Elsewhere, Happens
  <2>2. \/ UNCHANGED slots
        \/ \E s \in Slots : \E n \in {NoKey, Theirs} : slots' = [slots EXCEPT ![s] = n]
        \/ slots' = [s \in Slots |-> NoKey]
    BY <1>21 DEF Elsewhere
  <2>3. \A s \in Slots : slots'[s] \in {slots[s], NoKey, Theirs} BY <2>2 DEF TypeOK
  <2> QED BY <1>0, <2>1, <2>3, FreshKept
<1> QED BY <1>1, <1>2, <1>3, <1>4, <1>5, <1>6, <1>7, <1>8, <1>9, <1>10, <1>12, <1>13, <1>14, <1>15,
           <1>16, <1>17, <1>18, <1>19, <1>20, <1>21 DEF Next, Worker

\* A proven session has a key and has started.
LEMMA ProvenServesHolds ==
  ASSUME TypeOK, Known, ProvenServes, Next
  PROVE  ProvenServes'
<1> USE DEF hostVars, pairVars, workerVars, deviceVars, counters
<1>1. ASSUME NEW c \in Clients,
             \/ PairStart(c) \/ ClearOffline(c) \/ OwnerAnswered(c) \/ PathKnown(c) \/ Answered(c)
             \/ \E op \in Ops : Ask(c, op)
      PROVE  ProvenServes'
  <2>1. UNCHANGED phase /\ (UNCHANGED hostVars \/ ClearLocal)
    BY <1>1 DEF PairStart, ClearOffline, OwnerAnswered, PathKnown, Answered, Ask
  <2> QED BY <2>1 DEF ProvenServes, ClearLocal
<1>2. ASSUME NEW f \in Incoming, Takes(f), NEW nonce, f.kind = "hmac", Verifies(f, nonce) PROVE key # NoKey
  <2>1. f \in Told BY <1>2, TakesTold
  <2> QED BY <1>2, <2>1 DEF Told, Verifies
<1>3. CASE Connect \/ SessionEnds BY <1>3 DEF Connect, SessionEnds, SessionOver, Forgotten, ProvenServes
<1>4. CASE StatusKnown BY <1>4 DEF StatusKnown, ProvenServes, Starting
<1>5. CASE Challenged
  <2>1. PICK f \in Incoming :
          /\ Takes(f)
          /\ \/ f.kind = "hmac" /\ verified' = Verifies(f, 1) /\ proven' = verified' /\ Serves(verified')
             \/ SessionOver \/ UNCHANGED proven
    BY <1>5 DEF Challenged, Hears
  <2>2. proven' => f.kind = "hmac" /\ Verifies(f, 1) /\ Serves(verified')
    BY <1>5, <2>1 DEF SessionOver, Forgotten, ProvenServes, Starting, Challenged
  <2>3. Serves(verified') => phase' \in {"sync", "serve"} BY DEF Serves, Sends
  <2> QED BY <1>2, <1>5, <2>1, <2>2, <2>3 DEF Challenged, ProvenServes, Starting
<1>6. CASE ChallengedAgain
  <2>1. PICK f \in Incoming :
          Takes(f) /\ proven' = (f.kind = "hmac" /\ Verifies(f, 2)) /\ Serves(verified')
    BY <1>6 DEF ChallengedAgain, Hears
  <2>2. phase' \in {"sync", "serve"} BY <2>1 DEF Serves, Sends
  <2> QED BY <1>2, <1>6, <2>1, <2>2 DEF ChallengedAgain, ProvenServes, Starting
<1>7. CASE Synced BY <1>7 DEF Synced, ProvenServes, Starting
<1>8. CASE TakeJob
  <2>1. phase' \in {"slots", "plain", "gated"} BY <1>8, TakenJob DEF Sends
  <2> QED BY <1>8, <2>1 DEF TakeJob, ProvenServes, Starting
<1>9. CASE \/ PlainAnswered \/ GatedAnswered \/ Verdict \/ Dropped
           \/ PairSlots \/ PairInit \/ PairAgain \/ PairButton \/ ButtonNotified
  <2>1. UNCHANGED hostVars BY <1>9 DEF PlainAnswered, GatedAnswered, Verdict, Dropped,
          PairSlots, PairInit, PairAgain, PairButton, ButtonNotified
  <2>2. phase' = phase \/ phase' \notin Starting
    BY <1>9, ServingIs DEF Replies, Pairs, Starting
  <2> QED BY <2>1, <2>2 DEF ProvenServes
<1>10. CASE PairConfirm
  <2>1. UNCHANGED hostVars \/ (key' = made /\ UNCHANGED proven) BY <1>10 DEF PairConfirm
  <2>2. phase' = "serve" /\ phase = "confirm" BY <1>10 DEF PairConfirm, PairOver, Replies
  <2>3. made # NoKey BY <2>2 DEF Known, OwnKeys, Ours, NoKey
  <2> QED BY <2>1, <2>2, <2>3 DEF ProvenServes, Starting
<1>11. CASE DeviceHandles \/ DeviceSilent \/ DeviceButton \/ DeviceGate \/ Rebooted \/ LinkLost \/ Elsewhere
  BY <1>11 DEF DeviceHandles, DeviceSilent, DeviceButton, DeviceGate, Rebooted, LinkLost, Elsewhere,
               ProvenServes
<1>12. CASE Restart BY <1>12 DEF Restart, Forgotten, ProvenServes
<1> QED BY <1>1, <1>3, <1>4, <1>5, <1>6, <1>7, <1>8, <1>9, <1>10, <1>11, <1>12 DEF Next, Worker

-----------------------------------------------------------------------------
(* Commands and answers in step *)

Asking   == {"status", "challenge", "retry", "sync", "slots", "init", "confirm", "plain", "gated"}

\* A plain clear met the other slot and left its gate behind: its handler is about to
\* drop the key.
StrayedBy(h) == h.at = "answered" /\ h.own # 0 /\ h.ans.kind = "wait fp"
Strayed == \E c \in Clients : StrayedBy(client[c])
Unnamed == Ops \cap {"clear 1", "clear 2"} = {}

\* The command of each wait.
Asks(f) ==
  /\ phase = "status"    => f.kind = "status?"
  /\ phase = "challenge" => f.kind = "challenge" /\ f.nonce = 1
  /\ phase = "retry"     => f.kind = "challenge" /\ f.nonce = 2
  /\ phase = "sync"      => f.kind = "other"
  /\ phase = "slots"     => f.kind = "slots?"
  /\ phase = "init"      => f.kind = "init"
  /\ phase = "confirm"   => f.kind = "confirm" /\ f.n = made
  /\ phase \in {"plain", "gated"} => f = job.frame

\* What may be the one answer to it.
Proves(f, nonce) == \/ f.kind = "hmac" /\ f.n = slots[active] /\ f.nonce = nonce /\ Paired
                    \/ f.kind = "not paired" /\ ~Paired
Wiped == \A s \in Slots : slots[s] = NoKey
Fits(f) ==
  /\ f.kind \notin Buttons
  /\ phase = "status"    => f.kind = "status" /\ (f.n = 1 <=> Paired)
  /\ phase = "challenge" => Proves(f, 1)
  /\ phase = "retry"     => Proves(f, 2)
  /\ phase = "init"      => f.kind \in {"params", "needs reset"}
  /\ phase = "confirm"   => f.kind = "not confirmed" \/ (f.kind = "confirmed" /\ slots[active] = made)
  /\ phase = "plain"     => \/ f.kind \in {"cleared", "refused", "not paired"}
                            \/ f.kind = "slots" /\ job.frame.kind = "slots?"
  /\ phase = "gated"     => \/ f.kind \in {"cleared", "refused", "not paired"}
                            \/ f.kind = "ok" /\ Wiped

\* What a finger or the button brings, and the last of it.
Ended == {"idle", "confirm"}
Over == step \in Ended
Last == {"pubkey", "params", "button timeout", "button cancelled"}
Touched(s, at) == \A i \in 1..Len(s) : \/ s[i].kind \in {"fp ok", "pressed"}
                                       \/ i = Len(s) /\ at \in Ended /\ s[i].kind \in Last

\* The finger's verdict on a command.
Judged(f) == /\ gate = Nothing /\ f.kind \in {"ok", "no"}
             /\ f.kind = "ok" /\ job.frame.kind = "reset" => Wiped

Resting == gate = Nothing /\ Over
Lone(s) == s # <<>> /\ Tail(s) = <<>>
Still   == wire = <<>> /\ air = <<>> /\ Resting
InStep ==
  \/ Still
  \/ phase \in Asking /\ Lone(wire) /\ Asks(Head(wire)) /\ air = <<>> /\ Resting
  \/ phase \in Asking /\ wire = <<>> /\ Lone(air) /\ Fits(Head(air)) /\ Resting
  \/ /\ phase = "plain" /\ wire = <<>> /\ air # <<>> /\ Head(air).kind = "wait fp"
     /\ job.frame.kind = "clear" /\ job.frame.n # 0
  \/ /\ phase = "gated" /\ wire = <<>> /\ Over /\ air # <<>> /\ Head(air).kind = "wait fp"
     /\ \/ Lone(air) /\ gate = job.frame
        \/ Lone(Tail(air)) /\ Judged(Head(Tail(air)))
  \/ /\ phase = "gate" /\ wire = <<>> /\ Over
     /\ \/ air = <<>> /\ gate = job.frame
        \/ Lone(air) /\ Judged(Head(air))
  \/ /\ phase = "init" /\ wire = <<>> /\ gate = Nothing
     /\ air # <<>> /\ Head(air).kind = "wait" /\ Touched(Tail(air), step)
  \/ phase = "button" /\ wire = <<>> /\ gate = Nothing /\ Touched(air, step)

Follows == phase \in Starting \/ Unnamed \/ (proven /\ ~Strayed)
InTime  == (link /\ Follows => InStep) /\ (~link => step = "idle")

\* Sequences of one frame.
LEMMA LoneFrame ==
  ASSUME NEW x
  PROVE  Append(<<>>, x) # <<>> /\ Lone(Append(<<>>, x)) /\ Head(Append(<<>>, x)) = x
<1>1. <<>> \in Seq({x}) /\ x \in {x} BY EmptySeq
<1>2. Append(<<>>, x) # <<>> BY <1>1, AppendProperties
<1>3. Head(Append(<<>>, x)) = x /\ Tail(Append(<<>>, x)) = <<>> BY <1>1, HeadTailAppend
<1> QED BY <1>2, <1>3 DEF Lone

LEMMA OneMoreFrame ==
  ASSUME NEW s \in Seq(Frames), s # <<>>, NEW x \in Frames
  PROVE  /\ Append(s, x) # <<>> /\ Head(Append(s, x)) = Head(s)
         /\ Tail(Append(s, x)) = Append(Tail(s), x)
<1>1. Append(s, x) # <<>> BY AppendProperties
<1> QED BY <1>1, HeadTailAppend

LEMMA Indices ==
  ASSUME NEW n \in Nat
  PROVE  /\ \A i \in 1..n : i + 1 \in 1..(n + 1) /\ (i + 1 = n + 1 => i = n)
         /\ \A i \in 1..(n + 1) : i \in 1..n \/ i = n + 1
OBVIOUS

\* The touches of an attempt, one fewer and one more.
LEMMA TouchedNone == \A at : Touched(<<>>, at)
<1>1. Len(<<>>) = 0 /\ 1..0 = {} BY EmptySeq
<1>2. 1..Len(<<>>) = {} BY <1>1
<1> QED BY <1>2 DEF Touched

LEMMA TouchedLess ==
  ASSUME NEW s \in Seq(Frames), s # <<>>, NEW at, Touched(s, at), NEW t, t = Tail(s)
  PROVE  /\ Touched(t, at)
         /\ \/ Head(s).kind \in {"fp ok", "pressed"}
            \/ t = <<>> /\ at \in Ended /\ Head(s).kind \in Last
<1>1. /\ t \in Seq(Frames) /\ Len(t) = Len(s) - 1 /\ \A i \in 1..Len(t) : t[i] = s[i + 1]
      /\ Len(s) \in Nat \ {0} /\ Head(s) = s[1]
  BY HeadTailProperties, EmptySeq
<1>a. Len(t) \in Nat /\ Len(s) = Len(t) + 1 BY <1>1
<1>2. \A i \in 1..Len(t) : i + 1 \in 1..Len(s) /\ (i + 1 = Len(s) => i = Len(t))
  BY <1>a, Indices
<1>3. Touched(t, at) BY <1>1, <1>2 DEF Touched
<1>4. 1 \in 1..Len(s) BY <1>1
<1>5. Len(s) = 1 => t = <<>> BY <1>1, EmptySeq
<1> QED BY <1>1, <1>3, <1>4, <1>5 DEF Touched

LEMMA TouchedFirst ==
  ASSUME NEW s \in Seq(Frames), s # <<>>, NEW at, Touched(s, at)
  PROVE  \/ Head(s).kind \in {"fp ok", "pressed"}
         \/ Tail(s) = <<>> /\ at \in Ended /\ Head(s).kind \in Last
<1> DEFINE t == Tail(s)
<1>1. t = Tail(s) OBVIOUS
<1> HIDE DEF t
<1> QED BY <1>1, TouchedLess

LEMMA AppendIndex ==
  ASSUME NEW s \in Seq(Frames), NEW x \in Frames, NEW i \in 1..Len(s)
  PROVE  Append(s, x)[i] = s[i]
BY AppendProperties

LEMMA TouchedMore ==
  ASSUME NEW s \in Seq(Frames), NEW from, from \notin Ended, Touched(s, from), NEW x \in Frames, NEW at,
         x.kind \in {"fp ok", "pressed"} \/ (at \in Ended /\ x.kind \in Last), NEW t, t = Append(s, x)
  PROVE  Touched(t, at)
<1>1. Len(s) \in Nat /\ Len(t) = Len(s) + 1 /\ t[Len(s) + 1] = x
  BY AppendProperties, LenProperties
<1>a. \A i \in 1..Len(s) : t[i] = s[i] BY AppendIndex, Zenon
<1>2. \A i \in 1..Len(t) : i \in 1..Len(s) \/ i = Len(t) BY <1>1, Indices
<1> QED BY <1>1, <1>a, <1>2 DEF Touched

\* What the state in step depends on.
LEMMA InStepKept ==
  ASSUME InStep, UNCHANGED <<phase, job, wire, air, slots, active, step, gate, made>>
  PROVE  InStep'
<1>1. UNCHANGED Resting /\ UNCHANGED Over BY DEF Resting, Over, Ended
<1>2. CASE Still BY <1>1, <1>2 DEF InStep, Still
<1>3. CASE phase \in Asking /\ Lone(wire) /\ Asks(Head(wire)) /\ air = <<>> /\ Resting
  BY <1>1, <1>3 DEF InStep, Lone, Asks
<1>4. CASE phase \in Asking /\ wire = <<>> /\ Lone(air) /\ Fits(Head(air)) /\ Resting
  <2>1. Fits(Head(air))' BY <1>4 DEF Fits, Proves, Paired, Wiped
  <2> QED BY <1>1, <1>4, <2>1 DEF InStep, Lone
<1>5. CASE phase \in {"plain", "gate", "gated", "init", "button"}
  <2>1. Judged(Head(air))' = Judged(Head(air)) /\ Judged(Head(Tail(air)))' = Judged(Head(Tail(air)))
    BY DEF Judged, Wiped
  <2>2. Touched(air, step)' = Touched(air, step) /\ Touched(Tail(air), step)' = Touched(Tail(air), step)
    BY <1>1 DEF Touched
  <2>3. CASE phase = "plain" BY <1>2, <1>3, <1>4, <2>3 DEF InStep
  <2>4. CASE phase = "gate" BY <1>1, <1>2, <2>1, <2>4 DEF InStep, Lone, Asking
  <2>5. CASE phase = "gated" BY <1>1, <1>2, <1>3, <1>4, <2>1, <2>5 DEF InStep, Lone
  <2>6. CASE phase = "init" BY <1>1, <1>2, <1>3, <1>4, <2>2, <2>6 DEF InStep
  <2>7. CASE phase = "button" BY <1>1, <1>2, <2>2, <2>7 DEF InStep, Asking
  <2> QED BY <1>5, <2>3, <2>4, <2>5, <2>6, <2>7
<1> QED BY <1>2, <1>3, <1>4, <1>5 DEF InStep

\* A response that is taken in step: none, or the one on the link.
LEMMA TakenInStep ==
  ASSUME TypeOK, MaxLate = 0, JobsFit, InStep, NEW f \in Incoming, Takes(f)
  PROVE  /\ wire = <<>>
         /\ \/ f = Silence /\ Still /\ UNCHANGED air
            \/ air # <<>> /\ f = Head(air) /\ f.kind \notin Buttons /\ air' = Tail(air)
<1>1. CASE air # <<>> /\ f = Head(air) /\ f.kind \notin Buttons /\ air' = Tail(air)
  BY <1>1 DEF InStep, Still
<1>2. CASE f = Silence /\ UNCHANGED air /\ Quiet
  <2>1. wire = <<>> /\ air = <<>> BY <1>2 DEF Quiet
  <2>2. phase = "gate" => gate = Nothing BY <1>2 DEF Quiet
  <2>3. phase = "button" => Over BY <1>2 DEF Quiet, Over, Ended, TypeOK
  <2>4. Still BY <2>1, <2>2, <2>3 DEF InStep, Still, Resting, Lone
  <2> QED BY <1>2, <2>1, <2>4
<1>3. late = 0 BY DEF TypeOK
<1> QED BY <1>1, <1>2, <1>3 DEF Takes

\* With the answer of a simple command taken, nothing is under way.
LEMMA AnswerTaken ==
  ASSUME TypeOK, MaxLate = 0, JobsFit, InStep, NEW f \in Incoming, Takes(f),
         phase \in {"status", "challenge", "retry", "sync", "slots", "confirm"}
  PROVE  wire = <<>> /\ air' = <<>> /\ Resting /\ (f = Silence \/ (air # <<>> /\ f = Head(air) /\ Fits(f)))
<1>1. CASE f = Silence /\ Still /\ UNCHANGED air BY <1>1, TakenInStep DEF Still
<1>2. CASE air # <<>> /\ f = Head(air) /\ air' = Tail(air)
  <2>1. Lone(air) /\ Fits(Head(air)) /\ Resting BY <1>2 DEF InStep, Still
  <2> QED BY <1>2, <2>1, TakenInStep DEF Lone
<1> QED BY <1>1, <1>2, TakenInStep

\* From there the worker serves, or sends its next command.
LEMMA SentAlone ==
  ASSUME wire = <<>>, link, NEW cmd, NEW to, Sends(cmd, to)
  PROVE  Lone(wire') /\ Head(wire') = cmd /\ phase' = to
<1>1. wire' = Append(<<>>, cmd) /\ phase' = to BY DEF Sends
<1> QED BY <1>1, LoneFrame

LEMMA SendsInStep ==
  ASSUME Lone(wire'), air' = <<>>, Resting, UNCHANGED <<step, gate>>, phase' \in Asking, Asks(Head(wire))'
  PROVE  InStep'
<1>1. Resting' BY DEF Resting, Over, Ended
<1> QED BY <1>1 DEF InStep, Lone

LEMMA StillInStep ==
  ASSUME wire' = <<>>, air' = <<>>, Resting, UNCHANGED <<step, gate>>
  PROVE  InStep'
BY DEF InStep, Still, Resting, Over, Ended

LEMMA ServesInStep ==
  ASSUME wire = <<>>, air' = <<>>, Resting, UNCHANGED <<step, gate>>, link, NEW ok \in BOOLEAN, Serves(ok)
  PROVE  InStep'
<1>1. CASE ok
  <2>1. Sends(Frame("other"), "sync") BY <1>1 DEF Serves
  <2>2. Lone(wire') /\ Head(wire') = Frame("other") /\ phase' = "sync" BY <2>1, SentAlone
  <2>3. Asks(Head(wire))' BY <2>2, FieldsOf DEF Asks
  <2> QED BY <2>2, <2>3, SendsInStep DEF Asking
<1>2. CASE ~ok BY <1>2, StillInStep DEF Serves
<1> QED BY <1>1, <1>2

LEMMA ChallengeInStep ==
  ASSUME wire = <<>>, air' = <<>>, Resting, UNCHANGED <<step, gate>>, link,
         Challenge(1, "challenge") \/ Challenge(2, "retry")
  PROVE  InStep'
<1>1. ASSUME NEW n PROVE /\ [Frame("challenge") EXCEPT !.nonce = n].kind = "challenge"
                         /\ [Frame("challenge") EXCEPT !.nonce = n].nonce = n
  BY DEF Frame
<1>2. CASE Challenge(1, "challenge")
  <2>1. /\ Lone(wire') /\ Head(wire') = [Frame("challenge") EXCEPT !.nonce = 1]
        /\ phase' = "challenge"
    BY <1>2, SentAlone DEF Challenge
  <2>2. Asks(Head(wire))' BY <1>1, <2>1 DEF Asks
  <2> QED BY <2>1, <2>2, SendsInStep DEF Asking
<1>3. CASE Challenge(2, "retry")
  <2>1. /\ Lone(wire') /\ Head(wire') = [Frame("challenge") EXCEPT !.nonce = 2]
        /\ phase' = "retry"
    BY <1>3, SentAlone DEF Challenge
  <2>2. Asks(Head(wire))' BY <1>1, <2>1 DEF Asks
  <2> QED BY <2>1, <2>2, SendsInStep DEF Asking
<1> QED BY <1>2, <1>3

LEMMA GoesOnInStep ==
  ASSUME wire = <<>>, air' = <<>>, Resting, UNCHANGED <<step, gate>>, link, NEW f, PairGoesOn(f)
  PROVE  InStep'
<1>1. CASE UNCHANGED wire BY <1>1, StillInStep
<1>2. CASE Confirms
  <2>1. Lone(wire') /\ Head(wire') = With("confirm", made') /\ phase' = "confirm"
    BY <1>2, SentAlone DEF Confirms
  <2>2. Asks(Head(wire))' BY <2>1, FieldsOf DEF Asks
  <2> QED BY <2>1, <2>2, SendsInStep DEF Asking
<1> QED BY <1>1, <1>2 DEF PairGoesOn, PairOver

\* A session that follows after a step of the worker or of a handler followed before it.
LEMMA StrayedStays ==
  ASSUME TypeOK, JobsFit, Alone, Strayed,
         \/ \E c \in Clients : \/ PairStart(c) \/ ClearOffline(c) \/ OwnerAnswered(c) \/ PathKnown(c)
                               \/ Answered(c) \/ \E op \in Ops : Ask(c, op)
         \/ Worker
  PROVE  Strayed' \/ ~proven'
<1>1. PICK d \in Clients : StrayedBy(client[d]) BY DEF Strayed
<1>2. client[d].at = "answered" BY <1>1 DEF StrayedBy
<1>3. client'[d] = client[d] => Strayed' BY <1>1 DEF Strayed
<1>4. ASSUME NEW c \in Clients,
             \/ PairStart(c) \/ ClearOffline(c) \/ OwnerAnswered(c) \/ PathKnown(c) \/ Answered(c)
             \/ \E op \in Ops : Ask(c, op),
             client'[d] # client[d]
      PROVE  ~proven'
  <2>1. c = d BY <1>4, HandlerIs DEF TypeOK
  <2>2. Answered(d)
    BY <1>2, <1>4, <2>1 DEF PairStart, ClearOffline, OwnerAnswered, PathKnown, Ask
  <2>3. client[d].own # 0 /\ client[d].ans.kind = "wait fp" /\ client[d].op \in {"clear 1", "clear 2"}
    BY <1>1, <1>2 DEF StrayedBy, Alone, Named
  <2>4. ClearLocal BY <2>2, <2>3 DEF Answered, OwnClear, Keeps
  <2> QED BY <2>4 DEF ClearLocal
<1>5. ASSUME Worker PROVE client'[d] = client[d]
  <2>1. CASE Connect \/ StatusKnown \/ Challenged \/ ChallengedAgain \/ Synced \/ SessionEnds
    BY <2>1, SessionIs
  <2>2. CASE TakeJob BY <2>2 DEF TakeJob
  <2>3. CASE \/ PlainAnswered \/ GatedAnswered \/ Verdict \/ Dropped
             \/ PairSlots \/ PairInit \/ PairAgain \/ PairButton \/ ButtonNotified \/ PairConfirm
    <3>1. UNCHANGED client \/ ((\E f : Replies(f)) /\ phase \in Pairs \cup {"plain", "gated", "gate"})
      BY <2>3, ServingIs
    <3>2. ASSUME NEW f, Replies(f), phase \in Pairs \cup {"plain", "gated", "gate"}
          PROVE  client'[d] = client[d]
      <4>1. job.cmd # "none" BY <3>2 DEF JobsFit, Pairs
      <4>2. job.who # d BY <1>2, <4>1, NoneOf
      <4> QED BY <3>2, <4>2 DEF Replies, TypeOK
    <3> QED BY <3>1, <3>2
  <2> QED BY <1>5, <2>1, <2>2, <2>3 DEF Worker
<1> QED BY <1>3, <1>4, <1>5

LEMMA FollowsHandler ==
  ASSUME TypeOK, JobsFit, Alone, NEW c \in Clients, Follows',
         \/ PairStart(c) \/ ClearOffline(c) \/ OwnerAnswered(c) \/ PathKnown(c) \/ Answered(c)
         \/ \E op \in Ops : Ask(c, op)
  PROVE  Follows
<1> USE DEF hostVars, pairVars, workerVars, deviceVars, counters
<1>1. UNCHANGED phase /\ (UNCHANGED hostVars \/ ClearLocal)
  BY DEF PairStart, ClearOffline, OwnerAnswered, PathKnown, Answered, Ask
<1>2. proven' => proven BY <1>1 DEF ClearLocal
<1> QED BY <1>1, <1>2, StrayedStays DEF Follows

LEMMA FollowsWorker ==
  ASSUME TypeOK, JobsFit, Alone, Worker, link', Follows'
  PROVE  Follows
<1> USE DEF hostVars, pairVars, workerVars, deviceVars, counters
<1>1. CASE phase \in Starting \/ Unnamed BY <1>1 DEF Follows
<1>2. CASE phase \notin Starting /\ ~Unnamed
  <2>1. \/ Synced \/ SessionEnds \/ TakeJob \/ PlainAnswered \/ GatedAnswered \/ Verdict \/ Dropped
        \/ PairSlots \/ PairInit \/ PairAgain \/ PairButton \/ ButtonNotified \/ PairConfirm
    BY <1>2 DEF Worker, Connect, StatusKnown, Challenged, ChallengedAgain, Starting
  <2>2. ~SessionEnds BY DEF SessionEnds
  <2>3. phase' \notin Starting
    <3>1. CASE Synced BY <3>1 DEF Synced, Starting
    <3>2. CASE TakeJob BY <3>2, TakenJob DEF Sends, Starting
    <3> QED BY <1>2, <2>1, <2>2, <3>1, <3>2, ServingIs DEF Replies, Starting, Pairs
  <2>4. proven' = proven
    <3>1. CASE PairConfirm BY <3>1 DEF PairConfirm
    <3>2. CASE Synced \/ TakeJob BY <3>2 DEF Synced, TakeJob
    <3> QED BY <2>1, <2>2, <3>1, <3>2, ServingIs
  <2>5. proven /\ ~Strayed' BY <1>2, <2>3, <2>4 DEF Follows, Unnamed
  <2> QED BY <2>4, <2>5, StrayedStays DEF Follows
<1> QED BY <1>1, <1>2

LEMMA InTimeHandler ==
  ASSUME TypeOK, JobsFit, Alone, InTime, NEW c \in Clients,
         \/ PairStart(c) \/ ClearOffline(c) \/ OwnerAnswered(c) \/ PathKnown(c) \/ Answered(c)
         \/ \E op \in Ops : Ask(c, op)
  PROVE  InTime'
<1>1. UNCHANGED <<phase, job, wire, air, slots, active, step, gate, link, made>>
  BY DEF PairStart, ClearOffline, OwnerAnswered, PathKnown, Answered, Ask,
         hostVars, pairVars, workerVars, deviceVars, counters
<1> QED BY <1>1, FollowsHandler, InStepKept DEF InTime

LEMMA InTimeSession ==
  ASSUME TypeOK, MaxLate = 0, Known, JobsFit, Alone, InTime,
         Connect \/ StatusKnown \/ Challenged \/ ChallengedAgain \/ Synced \/ SessionEnds
  PROVE  InTime'
<1> USE DEF hostVars, pairVars, workerVars, deviceVars, counters
<1>1. CASE SessionEnds BY <1>1 DEF SessionEnds, InTime
<1>2. CASE Connect
  <2>1. /\ phase = "down" /\ link' /\ phase' = "status" /\ UNCHANGED <<step, gate, air>>
        /\ wire' = Append(wire, Frame("status?"))
    BY <1>2 DEF Connect
  <2>2. wire = <<>> /\ air = <<>> /\ Resting
    <3>1. CASE link BY <2>1, <3>1 DEF InTime, Follows, Starting, InStep, Still, Asking
    <3>2. CASE ~link BY <3>2 DEF InTime, Known, Apart, Resting, Over, Ended
    <3> QED BY <3>1, <3>2
  <2>3. Lone(wire') /\ Head(wire') = Frame("status?") BY <2>1, <2>2, LoneFrame
  <2>4. Asks(Head(wire))' BY <2>1, <2>3, FieldsOf DEF Asks
  <2>5. InStep' BY <2>1, <2>2, <2>3, <2>4, SendsInStep DEF Asking
  <2> QED BY <2>1, <2>5 DEF InTime
<1>3. ASSUME StatusKnown \/ Challenged \/ ChallengedAgain \/ Synced, link', Follows'
      PROVE  InStep'
  <2>1. link /\ UNCHANGED <<step, gate>> BY <1>3 DEF StatusKnown, Challenged, ChallengedAgain, Synced
  <2>2. InStep BY <1>3, <2>1, FollowsWorker DEF InTime, Worker
  <2>3. PICK f \in Incoming : Takes(f) BY <1>3 DEF StatusKnown, Challenged, ChallengedAgain, Synced, Hears
  <2>4. wire = <<>> /\ air' = <<>> /\ Resting
    BY <1>3, <2>2, <2>3, AnswerTaken DEF StatusKnown, Challenged, ChallengedAgain, Synced
  <2>5. \/ \E ok \in BOOLEAN : Serves(ok)
        \/ Challenge(1, "challenge") \/ Challenge(2, "retry") \/ UNCHANGED wire
    <3>1. CASE StatusKnown BY <3>1 DEF StatusKnown
    <3>2. CASE Challenged
      <4>1. PICK g \in Incoming : \/ g.kind = "hmac" /\ verified' = Verifies(g, 1) /\ Serves(verified')
                                  \/ Serves(TRUE) \/ UNCHANGED wire \/ Challenge(2, "retry")
        BY <3>2 DEF Challenged
      <4>2. Verifies(g, 1) \in BOOLEAN BY DEF Verifies
      <4> QED BY <4>1, <4>2
    <3>3. CASE ChallengedAgain
      <4>1. PICK g \in Incoming : verified' = (g.kind = "hmac" => Verifies(g, 2)) /\ Serves(verified')
        BY <3>3 DEF ChallengedAgain
      <4> QED BY <4>1
    <3>4. CASE Synced BY <3>4 DEF Synced
    <3> QED BY <1>3, <3>1, <3>2, <3>3, <3>4
  <2>6. CASE UNCHANGED wire BY <2>1, <2>4, <2>6, StillInStep
  <2> QED BY <2>1, <2>4, <2>5, <2>6, ServesInStep, ChallengeInStep
<1>4. CASE StatusKnown \/ Challenged \/ ChallengedAgain \/ Synced
  <2>1. UNCHANGED <<step, link>> BY <1>4 DEF StatusKnown, Challenged, ChallengedAgain, Synced
  <2> QED BY <1>3, <1>4, <2>1 DEF InTime
<1> QED BY <1>1, <1>2, <1>4

\* A plain clear that is told to wait for a finger is of a named slot.
LEMMA PlainStrays ==
  ASSUME TypeOK, JobsFit, phase = "plain", job.frame.kind = "clear", job.frame.n # 0,
         NEW f, f.kind = "wait fp", Replies(f)
  PROVE  Strayed' /\ ~Unnamed /\ phase' = "serve"
<1> DEFINE h == [client[job.who] EXCEPT !.ans = f,
                 !.at = IF client[job.who].at = "query" THEN "query answered" ELSE "answered"]
<1>1. job.cmd = "plain" /\ Awaits(client[job.who], job) /\ job.who \in Clients
      /\ client[job.who] \in Handlers
  BY JobIs DEF JobsFit, TypeOK
<1>2. /\ client[job.who].at = "act" /\ client[job.who].op \in {"clear 1", "clear 2"}
      /\ client[job.who].own # 0
  BY <1>1 DEF Awaits
<1>3. client[job.who].op \in Ops BY <1>1, <1>2 DEF Handlers
<1>4. client' = [client EXCEPT ![job.who] = h] /\ phase' = "serve" BY DEF Replies
<1>5. h.at = "answered" /\ h.own = client[job.who].own /\ h.ans = f BY <1>1, <1>2 DEF Handlers
<1> HIDE DEF h
<1>6. client'[job.who] = h BY <1>1, <1>4 DEF TypeOK
<1>7. StrayedBy(client'[job.who]) BY <1>2, <1>5, <1>6 DEF StrayedBy
<1>8. Strayed' BY <1>1, <1>7 DEF Strayed
<1> QED BY <1>2, <1>3, <1>4, <1>8 DEF Unnamed

LEMMA InStepServing ==
  ASSUME TypeOK, MaxLate = 0, Known, JobsFit, Alone, InStep, link, Follows',
         TakeJob \/ PlainAnswered \/ GatedAnswered \/ Verdict \/ Dropped
  PROVE  InStep'
<1> USE DEF hostVars, pairVars, workerVars, deviceVars, counters
<1>1. CASE TakeJob
  <2>1. Still /\ UNCHANGED <<air, step, gate>> BY <1>1 DEF TakeJob, InStep, Asking
  <2>2. \/ job'.cmd = "pair" /\ Sends(Frame("slots?"), "slots")
        \/ job'.cmd = "plain" /\ Sends(job'.frame, "plain")
        \/ job'.cmd = "gated" /\ Sends(job'.frame, "gated")
    BY <1>1, TakenJob
  <2>3. /\ Lone(wire')
        /\ \/ phase' = "slots" /\ Head(wire') = Frame("slots?")
           \/ phase' \in {"plain", "gated"} /\ Head(wire') = job'.frame
    BY <2>1, <2>2, SentAlone DEF Still
  <2>4. Asks(Head(wire))' BY <2>3, FieldsOf DEF Asks
  <2> QED BY <2>1, <2>3, <2>4, SendsInStep DEF Still, Asking
<1>2. CASE PlainAnswered
  <2>1. PICK f \in Incoming : Takes(f) /\ Replies(f) BY <1>2 DEF PlainAnswered, Hears
  <2>2. phase = "plain" /\ UNCHANGED <<wire, step, gate>> BY <1>2 DEF PlainAnswered
  <2>3. CASE f = Silence /\ Still /\ UNCHANGED air BY <2>2, <2>3, StillInStep DEF Still
  <2>4. CASE air # <<>> /\ f = Head(air) /\ air' = Tail(air)
    <3>1. \/ Lone(air) /\ Resting /\ wire = <<>>
          \/ f.kind = "wait fp" /\ job.frame.kind = "clear" /\ job.frame.n # 0
      BY <2>2, <2>4 DEF InStep, Still
    <3>2. CASE Lone(air) /\ Resting /\ wire = <<>> BY <2>2, <2>4, <3>2, StillInStep DEF Lone
    <3>3. CASE f.kind = "wait fp" /\ job.frame.kind = "clear" /\ job.frame.n # 0
      <4>1. Strayed' /\ ~Unnamed /\ phase' = "serve" BY <2>1, <2>2, <3>3, PlainStrays
      <4> QED BY <4>1 DEF Follows, Unnamed, Starting
    <3> QED BY <3>1, <3>2, <3>3
  <2> QED BY <2>1, <2>3, <2>4, TakenInStep
<1>3. CASE GatedAnswered
  <2>1. PICK f \in Incoming :
          /\ Takes(f)
          /\ \/ IsOk(f) /\ phase' = "serve"
             \/ f.kind = "wait fp" /\ phase' = "gate" /\ UNCHANGED job
             \/ f.kind # "wait fp" /\ phase' = "serve"
    BY <1>3 DEF GatedAnswered, Hears, Replies
  <2>2. phase = "gated" /\ UNCHANGED <<wire, step, gate, slots>> BY <1>3 DEF GatedAnswered
  <2>3. CASE f = Silence /\ Still /\ UNCHANGED air BY <2>2, <2>3, StillInStep DEF Still
  <2>4. CASE air # <<>> /\ f = Head(air) /\ air' = Tail(air)
    <3>1. \/ Lone(air) /\ Resting /\ wire = <<>>
          \/ /\ wire = <<>> /\ Over /\ f.kind = "wait fp"
             /\ (Lone(air) /\ gate = job.frame) \/ (Lone(air') /\ Judged(Head(air')))
      BY <2>2, <2>4 DEF InStep, Still
    <3>2. CASE Lone(air) /\ Resting /\ wire = <<>> BY <2>2, <2>4, <3>2, StillInStep DEF Lone
    <3>3. CASE /\ wire = <<>> /\ Over /\ f.kind = "wait fp"
               /\ (Lone(air) /\ gate = job.frame) \/ (Lone(air') /\ Judged(Head(air')))
      <4>1. phase' = "gate" /\ UNCHANGED job BY <2>1, <3>3 DEF IsOk
      <4>2. CASE Lone(air) /\ gate = job.frame
        BY <2>2, <2>4, <3>3, <4>1, <4>2 DEF InStep, Lone, Over, Ended
      <4>3. CASE Lone(air') /\ Judged(Head(air'))
        <5>1. Judged(Head(air))' BY <2>2, <4>1, <4>3 DEF Judged, Wiped
        <5> QED BY <2>2, <3>3, <4>1, <4>3, <5>1 DEF InStep, Lone, Over, Ended
      <4> QED BY <3>3, <4>2, <4>3
    <3> QED BY <3>1, <3>2, <3>3
  <2> QED BY <2>1, <2>3, <2>4, TakenInStep
<1>4. CASE Verdict
  <2>1. PICK f \in Incoming : Takes(f) BY <1>4 DEF Verdict, Hears
  <2>2. phase = "gate" /\ UNCHANGED <<wire, step, gate>> BY <1>4 DEF Verdict
  <2>3. CASE f = Silence /\ Still /\ UNCHANGED air BY <2>2, <2>3, StillInStep DEF Still
  <2>4. CASE air # <<>> /\ f = Head(air) /\ air' = Tail(air)
    <3>1. Lone(air) /\ wire = <<>> /\ Resting BY <2>2, <2>4 DEF InStep, Still, Judged, Resting, Asking
    <3> QED BY <2>2, <2>4, <3>1, StillInStep DEF Lone
  <2> QED BY <2>1, <2>3, <2>4, TakenInStep
<1>5. CASE Dropped
  <2>1. air # <<>> /\ phase = "serve" BY <1>5 DEF Dropped
  <2> QED BY <2>1 DEF InStep, Still, Asking
<1> QED BY <1>1, <1>2, <1>3, <1>4, <1>5

LEMMA InStepPair ==
  ASSUME TypeOK, MaxLate = 0, Known, JobsFit, Alone, InStep, link,
         PairSlots \/ PairInit \/ PairAgain \/ PairButton \/ ButtonNotified \/ PairConfirm
  PROVE  InStep'
<1> USE DEF hostVars, pairVars, workerVars, deviceVars, counters
<1>0. air \in Seq(Frames) BY DEF TypeOK
<1>1. CASE PairSlots
  <2>1. PICK f \in Incoming : Takes(f) BY <1>1 DEF PairSlots, Hears
  <2>2. Sends(Frame("init"), "init") /\ UNCHANGED <<step, gate>> BY <1>1 DEF PairSlots
  <2>3. wire = <<>> /\ air' = <<>> /\ Resting BY <1>1, <2>1, AnswerTaken DEF PairSlots
  <2>4. Lone(wire') /\ Head(wire') = Frame("init") /\ phase' = "init" BY <2>2, <2>3, SentAlone
  <2>5. Asks(Head(wire))' BY <2>4, FieldsOf DEF Asks
  <2> QED BY <2>2, <2>3, <2>4, <2>5, SendsInStep DEF Asking
<1>2. CASE PairInit
  <2>1. PICK f \in Incoming :
          Takes(f) /\ IF f.kind = "wait" THEN phase' = "button" /\ UNCHANGED wire ELSE PairGoesOn(f)
    BY <1>2 DEF PairInit
  <2>2. phase = "init" /\ UNCHANGED <<step, gate>> BY <1>2 DEF PairInit
  <2>3. CASE f = Silence /\ Still /\ UNCHANGED air
    <3>1. PairGoesOn(f) BY <2>1, <2>3, FixedFrames
    <3> QED BY <2>2, <2>3, <3>1, GoesOnInStep DEF Still
  <2>4. CASE air # <<>> /\ f = Head(air) /\ air' = Tail(air)
    <3>1. \/ Lone(air) /\ Resting /\ Fits(f)
          \/ f.kind = "wait" /\ gate = Nothing /\ Touched(air', step)
      BY <2>2, <2>4 DEF InStep, Still
    <3>2. wire = <<>> BY <2>1, TakenInStep
    <3>3. CASE Lone(air) /\ Resting /\ Fits(f)
      <4>1. PairGoesOn(f) BY <2>1, <2>2, <3>3 DEF Fits
      <4> QED BY <2>2, <2>4, <3>2, <3>3, <4>1, GoesOnInStep DEF Lone
    <3>4. CASE f.kind = "wait" /\ gate = Nothing /\ Touched(air', step)
      <4>1. Touched(air, step)' BY <2>2, <3>4 DEF Over, Ended
      <4> QED BY <2>1, <2>2, <3>2, <3>4, <4>1 DEF InStep
    <3> QED BY <3>1, <3>3, <3>4
  <2> QED BY <2>1, <2>3, <2>4, TakenInStep
<1>3. CASE PairAgain
  <2>1. Still /\ UNCHANGED <<air, step, gate>> /\ Sends(Frame("init"), "init")
    BY <1>3 DEF PairAgain, InStep, Asking
  <2>2. Lone(wire') /\ Head(wire') = Frame("init") /\ phase' = "init" BY <2>1, SentAlone DEF Still
  <2>3. Asks(Head(wire))' BY <2>2, FieldsOf DEF Asks
  <2> QED BY <2>1, <2>2, <2>3, SendsInStep DEF Still, Asking
<1>4. CASE PairButton
  <2>1. PICK f \in Incoming : Takes(f) /\ PairGoesOn(f) BY <1>4 DEF PairButton
  <2>2. phase = "button" /\ UNCHANGED <<step, gate>> BY <1>4 DEF PairButton
  <2>3. CASE f = Silence /\ Still /\ UNCHANGED air BY <2>1, <2>2, <2>3, GoesOnInStep DEF Still
  <2>4. CASE air # <<>> /\ f = Head(air) /\ f.kind \notin Buttons /\ air' = Tail(air)
    <3>1. Touched(air, step) /\ gate = Nothing /\ wire = <<>>
      BY <2>2, <2>4 DEF InStep, Still, Asking
    <3>2. air' = <<>> /\ Over BY <1>0, <2>4, <3>1, TouchedFirst DEF Buttons, Over
    <3> QED BY <2>1, <2>2, <3>1, <3>2, GoesOnInStep DEF Resting
  <2> QED BY <2>1, <2>3, <2>4, TakenInStep
<1>5. CASE ButtonNotified
  <2>1. /\ air # <<>> /\ Head(air).kind \in Buttons /\ air' = Tail(air) /\ UNCHANGED <<step, gate, wire>>
        /\ \/ phase' = "serve"
           \/ phase' = phase /\ (phase = "button" => Head(air).kind \notin {"button timeout", "button cancelled"})
    BY <1>5 DEF ButtonNotified, PairOver, Replies
  <2>2. phase = "button" /\ gate = Nothing /\ Touched(air, step) /\ wire = <<>>
    BY <2>1 DEF InStep, Still, Fits, Judged, Buttons
  <2>3. /\ Touched(air', step)
        /\ Head(air).kind \in {"fp ok", "pressed"} \/ (air' = <<>> /\ Over)
    BY <1>0, <2>1, <2>2, TouchedLess, TouchedFirst DEF Over
  <2>4. CASE air' = <<>> /\ Over BY <2>1, <2>2, <2>4, StillInStep DEF Resting
  <2>5. CASE Head(air).kind \in {"fp ok", "pressed"}
    <3>1. phase' = "button" BY <1>5, <2>2, <2>5 DEF ButtonNotified
    <3>2. Touched(air, step)' BY <2>1, <2>3 DEF Over, Ended
    <3> QED BY <2>1, <2>2, <3>1, <3>2 DEF InStep
  <2> QED BY <2>3, <2>4, <2>5
<1>6. CASE PairConfirm
  <2>1. PICK f \in Incoming : Takes(f) BY <1>6 DEF PairConfirm, Hears
  <2>2. UNCHANGED <<step, gate, wire>> BY <1>6 DEF PairConfirm, PairOver
  <2>3. wire = <<>> /\ air' = <<>> /\ Resting BY <1>6, <2>1, AnswerTaken DEF PairConfirm
  <2> QED BY <2>2, <2>3, StillInStep
<1> QED BY <1>1, <1>2, <1>3, <1>4, <1>5, <1>6

\* What the device says to the command of the wait.
LEMMA SaysInStep ==
  ASSUME phase \in Asking, wire' = <<>>, air = <<>>, Resting, UNCHANGED <<phase, step, gate>>,
         NEW f, Says(f), Fits(Head(air))'
  PROVE  InStep'
<1>1. air' # <<>> /\ Lone(air') BY LoneFrame DEF Says
<1>2. Resting' BY DEF Resting, Over, Ended
<1> QED BY <1>1, <1>2 DEF InStep, Lone

\* The command of the wait says which wait it is.
LEMMA WaitOf ==
  ASSUME TypeOK, JobsFit, phase \in Asking, NEW f, Asks(f)
  PROVE  \/ phase = "plain" /\ f = job.frame /\ f.kind \in {"slots?", "clear"}
         \/ phase = "gated" /\ f = job.frame /\ f.kind \in {"reset", "clear"} /\ (f.kind = "clear" => f.n # 0)
         \/ phase = "status" /\ f.kind = "status?"
         \/ phase = "challenge" /\ f.kind = "challenge" /\ f.nonce = 1
         \/ phase = "retry" /\ f.kind = "challenge" /\ f.nonce = 2
         \/ phase = "slots" /\ f.kind = "slots?"
         \/ phase = "sync" /\ f.kind = "other"
         \/ phase = "init" /\ f.kind = "init"
         \/ phase = "confirm" /\ f.kind = "confirm" /\ f.n = made
<1>1. phase \in {"plain", "gated"} => Awaits(client[job.who], job) BY DEF JobsFit
<1>2. CASE phase = "plain" BY <1>1, <1>2 DEF Asks, JobsFit, Awaits
<1>3. CASE phase = "gated" BY <1>1, <1>3 DEF Asks, JobsFit, Awaits
<1> QED BY <1>2, <1>3 DEF Asks, Asking

LEMMA InStepHandles ==
  ASSUME TypeOK, Known, JobsFit, InStep, DeviceHandles
  PROVE  InStep'
<1> USE DEF hostVars, pairVars, workerVars, deviceVars, counters
<1> DEFINE f == Head(wire)
<1>1. /\ phase \in Asking /\ Lone(wire) /\ Asks(f) /\ air = <<>> /\ Resting
      /\ wire' = <<>> /\ UNCHANGED <<phase, job, active, made>>
  BY DEF DeviceHandles, InStep, Still, Lone
<1>2. \/ Refuses(f) /\ Says(Frame("not paired")) /\ Rests
      \/ f.kind = "init" /\ DevicePairs
      \/ f.kind = "confirm" /\ DeviceConfirms(f)
      \/ ~Refuses(f) /\ f.kind \in {"clear", "reset"} /\ DeviceClears(f)
      \/ /\ ~Refuses(f) /\ f.kind \notin {"init", "confirm", "clear", "reset"}
         /\ Says(Answer(f)) /\ Rests
  BY DEF DeviceHandles
<1>3. \A x : Says(x) => air' # <<>> /\ Lone(air') /\ Head(air') = x BY <1>1, LoneFrame DEF Says
<1> HIDE DEF f
<1>4. CASE Refuses(f) /\ Says(Frame("not paired")) /\ Rests
  <2>1. phase \in {"challenge", "retry", "sync", "plain", "gated"} /\ ~Paired
    BY <1>1, <1>4, WaitOf DEF Refuses, AllowedUnpaired
  <2>2. Head(air').kind = "not paired" BY <1>3, <1>4, FieldsOf
  <2>3. Fits(Head(air))' BY <1>1, <1>4, <2>1, <2>2 DEF Fits, Proves, Paired, Rests, Buttons
  <2> QED BY <1>1, <1>4, <2>3, SaysInStep DEF Rests
<1>5. CASE f.kind = "init" /\ DevicePairs
  <2>1. phase = "init" BY <1>1, <1>5, WaitOf
  <2>2. CASE \E k \in {"params", "needs reset"} : Says(Frame(k)) /\ Rests
    <3>0. PICK k \in {"params", "needs reset"} : Says(Frame(k)) BY <2>2
    <3>1. Head(air').kind \in {"params", "needs reset"} BY <1>3, <3>0, FieldsOf
    <3>2. Fits(Head(air))' BY <1>1, <2>1, <3>1 DEF Fits, Buttons
    <3> QED BY <1>1, <2>2, <3>0, <3>2, SaysInStep DEF Rests
  <2>3. CASE Says(Frame("wait")) /\ gate' = Nothing
    <3>1. air' # <<>> /\ Head(air').kind = "wait" /\ Tail(air') = <<>> BY <1>3, <2>3, FieldsOf DEF Lone
    <3>2. Touched(Tail(air), step)' BY <3>1, TouchedNone
    <3> QED BY <1>1, <2>1, <2>3, <3>1, <3>2 DEF InStep
  <2> QED BY <1>5, <2>2, <2>3 DEF DevicePairs
<1>6. CASE f.kind = "confirm" /\ DeviceConfirms(f)
  <2>1. phase = "confirm" /\ f.n = made BY <1>1, <1>6, WaitOf
  <2>2. CASE slots' = [slots EXCEPT ![active] = f.n] /\ step' = "idle"
             /\ Says(Frame("confirmed")) /\ UNCHANGED gate
    <3>1. slots'[active'] = made' BY <1>1, <2>1, <2>2 DEF TypeOK
    <3>2. Head(air').kind = "confirmed" /\ Lone(air') BY <1>3, <2>2, FieldsOf
    <3>3. Fits(Head(air))' BY <1>1, <2>1, <3>1, <3>2 DEF Fits, Buttons
    <3>4. Resting' BY <1>1, <2>2 DEF Resting, Over, Ended
    <3> QED BY <1>1, <3>2, <3>3, <3>4 DEF InStep, Lone
  <2>3. CASE Says(Frame("not confirmed")) /\ Rests
    <3>1. Head(air').kind = "not confirmed" BY <1>3, <2>3, FieldsOf
    <3>2. Fits(Head(air))' BY <1>1, <2>1, <3>1 DEF Fits, Buttons
    <3> QED BY <1>1, <2>3, <3>2, SaysInStep DEF Rests
  <2> QED BY <1>6, <2>2, <2>3 DEF DeviceConfirms
<1>7. CASE ~Refuses(f) /\ f.kind \in {"clear", "reset"} /\ DeviceClears(f)
  <2>1. \/ phase = "plain" /\ f = job.frame /\ f.kind = "clear"
        \/ phase = "gated" /\ f = job.frame
    BY <1>1, <1>7, WaitOf
  <2>2. ASSUME NEW k \in {"refused", "cleared"}, Says(Frame(k)), UNCHANGED <<step, gate>> PROVE InStep'
    <3>1. Head(air').kind = k BY <1>3, <2>2, FieldsOf
    <3>2. Fits(Head(air))' BY <1>1, <2>1, <2>2, <3>1 DEF Fits, Buttons
    <3> QED BY <1>1, <2>2, <3>2, SaysInStep
  <2>3. CASE f.kind = "reset" /\ slots' = Cleared(f) /\ Says(Frame("ok")) /\ UNCHANGED <<step, gate>>
    <3>1. Wiped' BY <2>3 DEF Wiped, Cleared
    <3>2. Head(air').kind = "ok" /\ phase = "gated" BY <1>3, <2>1, <2>3, FieldsOf
    <3>3. Fits(Head(air))' BY <1>1, <3>1, <3>2 DEF Fits, Buttons
    <3> QED BY <1>1, <2>3, <3>3, SaysInStep
  <2>4. CASE /\ f.kind = "reset" \/ f.n = Other(active)
             /\ gate' = f /\ Says(Frame("wait fp")) /\ UNCHANGED <<slots, step, boot>>
    <3>1. air' # <<>> /\ Lone(air') /\ Head(air').kind = "wait fp" BY <1>3, <2>4, FieldsOf
    <3>2. Over' BY <1>1, <2>4 DEF Resting, Over, Ended
    <3>3. CASE phase = "plain"
      <4>0. active \in {1, 2} BY DEF TypeOK, Slots
      <4>a. Other(active) # 0 BY <4>0 DEF Other
      <4>1. f = job.frame /\ f.kind = "clear" /\ f.n # 0
        BY <2>1, <2>4, <3>3, <4>a
      <4> QED BY <1>1, <3>1, <3>3, <4>1 DEF InStep
    <3>4. CASE phase = "gated" BY <1>1, <2>1, <2>4, <3>1, <3>2, <3>4 DEF InStep
    <3> QED BY <2>1, <3>3, <3>4
  <2> QED BY <1>7, <2>2, <2>3, <2>4 DEF DeviceClears, Rests
<1>8. CASE /\ ~Refuses(f) /\ f.kind \notin {"init", "confirm", "clear", "reset"}
           /\ Says(Answer(f)) /\ Rests
  <2>1. Head(air') = Answer(f) /\ UNCHANGED <<slots, step, gate>> BY <1>3, <1>8 DEF Rests
  <2>2. Paired' = Paired /\ (f.kind = "challenge" => Paired)
    BY <1>1, <1>8, <2>1 DEF Paired, Refuses, AllowedUnpaired
  <2>3. CASE phase = "status"
    <3>1. f.kind = "status?" BY <1>1, <2>3, WaitOf
    <3>2. Head(air') = With("status", IF Paired THEN 1 ELSE 0) BY <2>1, <3>1, AnswerIs
    <3>3. Head(air').kind = "status" /\ (Head(air').n = 1 <=> Paired) BY <3>2, FieldsOf
    <3> QED BY <1>1, <1>8, <2>1, <2>2, <2>3, <3>3, SaysInStep DEF Fits, Buttons
  <2>4. CASE phase \in {"challenge", "retry"}
    <3>1. /\ f.kind = "challenge"
          /\ phase = "challenge" => f.nonce = 1
          /\ phase = "retry" => f.nonce = 2
      BY <1>1, <2>4, WaitOf
    <3>2. Head(air').kind = "hmac" /\ Head(air').n = slots[active] /\ Head(air').nonce = f.nonce
      BY <2>1, <3>1, AnswerIs
    <3>3. Fits(Head(air))' BY <1>1, <2>1, <2>2, <2>4, <3>1, <3>2 DEF Fits, Proves, Buttons
    <3> QED BY <1>1, <1>8, <2>1, <3>3, SaysInStep
  <2>5. CASE phase \in {"plain", "slots", "sync"}
    <3>1. f.kind \in {"slots?", "other"} /\ (phase = "plain" => f = job.frame /\ f.kind = "slots?")
      BY <1>1, <1>8, <2>5, WaitOf
    <3>2. Head(air').kind \in {"slots", "other"} /\ (f.kind = "slots?" => Head(air').kind = "slots")
      BY <2>1, <3>1, AnswerIs, FieldsOf
    <3>3. Fits(Head(air))' BY <1>1, <2>5, <3>1, <3>2 DEF Fits, Buttons
    <3> QED BY <1>1, <1>8, <2>1, <3>3, SaysInStep
  <2>6. phase \in {"status", "challenge", "retry", "plain", "slots", "sync"}
    BY <1>1, <1>8, WaitOf
  <2> QED BY <2>3, <2>4, <2>5, <2>6
<1> QED BY <1>2, <1>4, <1>5, <1>6, <1>7, <1>8

LEMMA InStepTouch ==
  ASSUME TypeOK, Known, JobsFit, InStep, DeviceButton \/ DeviceGate
  PROVE  InStep'
<1> USE DEF hostVars, pairVars, workerVars, deviceVars, counters
<1>0. air \in Seq(Frames) /\ (air # <<>> => Tail(air) \in Seq(Frames)) BY HeadTailProperties DEF TypeOK
<1>1. CASE DeviceButton
  <2>1. /\ ~Over /\ UNCHANGED <<phase, job, wire, gate>>
    BY <1>1 DEF DeviceButton, Over, Ended
  <2>a. \/ Says(Frame("fp ok")) \/ Says(Frame("pressed"))
        \/ step' \in Ended /\ \E k \in Last : Says(Frame(k))
    BY <1>1 DEF DeviceButton, Ended, Last
  <2>2. PICK k \in {"fp ok", "pressed"} \cup Last : Says(Frame(k)) /\ (k \in Last => Over')
    <3>1. {"fp ok", "pressed"} \cap Last = {} BY DEF Last
    <3> QED BY <2>a, <3>1 DEF Over
  <2>3. Frame(k) \in Frames /\ Frame(k).kind = k
    BY FrameType DEF Kinds, Answers, Buttons, Last, Slots
  <2>4. air' = Append(air, Frame(k)) BY <2>2 DEF Says
  <2>5. CASE phase = "button"
    <3>1. wire = <<>> /\ gate = Nothing /\ Touched(air, step)
      BY <2>1, <2>5 DEF InStep, Still, Resting, Asking
    <3>2. Touched(air', step') BY <1>0, <2>1, <2>2, <2>3, <2>4, <3>1, TouchedMore DEF Over
    <3> QED BY <2>1, <2>5, <3>1, <3>2 DEF InStep
  <2>6. CASE phase = "plain"
    <3>1. /\ wire = <<>> /\ air # <<>> /\ Head(air).kind = "wait fp"
          /\ job.frame.kind = "clear" /\ job.frame.n # 0
      BY <2>1, <2>6 DEF InStep, Still, Resting
    <3>2. air' # <<>> /\ Head(air') = Head(air) BY <1>0, <2>3, <2>4, <3>1, OneMoreFrame
    <3> QED BY <2>1, <2>6, <3>1, <3>2 DEF InStep
  <2>7. CASE phase = "init"
    <3>1. /\ wire = <<>> /\ gate = Nothing /\ air # <<>> /\ Head(air).kind = "wait"
          /\ Touched(Tail(air), step)
      BY <2>1, <2>7 DEF InStep, Still, Resting
    <3>2. air' # <<>> /\ Head(air') = Head(air) /\ Tail(air') = Append(Tail(air), Frame(k))
      BY <1>0, <2>3, <2>4, <3>1, OneMoreFrame
    <3>3. Touched(Tail(air'), step') BY <1>0, <2>1, <2>2, <2>3, <3>1, <3>2, TouchedMore DEF Over
    <3> QED BY <2>1, <2>7, <3>1, <3>2, <3>3 DEF InStep
  <2>8. phase \in {"button", "plain", "init"} BY <2>1 DEF InStep, Still, Resting
  <2> QED BY <2>5, <2>6, <2>7, <2>8
<1>2. CASE DeviceGate
  <2>1. /\ gate # Nothing /\ gate' = Nothing /\ UNCHANGED <<phase, job, wire, step>>
        /\ \E k \in {"ok", "no"} : Says(Frame(k)) /\ (k = "ok" => slots' = Cleared(gate))
    BY <1>2 DEF DeviceGate
  <2>2. PICK k \in {"ok", "no"} : Says(Frame(k)) /\ (k = "ok" => slots' = Cleared(gate))
    BY <2>1
  <2>3. Frame(k) \in Frames /\ Frame(k).kind = k BY FrameType DEF Kinds, Answers, Slots
  <2>4. air' = Append(air, Frame(k)) BY <2>2 DEF Says
  <2>5. gate = job.frame => Judged(Frame(k))'
    BY <2>1, <2>2, <2>3 DEF Judged, Wiped, Cleared
  <2>6. CASE phase = "plain"
    <3>1. /\ wire = <<>> /\ air # <<>> /\ Head(air).kind = "wait fp"
          /\ job.frame.kind = "clear" /\ job.frame.n # 0
      BY <2>1, <2>6 DEF InStep, Still, Resting
    <3>2. air' # <<>> /\ Head(air') = Head(air) BY <1>0, <2>3, <2>4, <3>1, OneMoreFrame
    <3> QED BY <2>1, <2>6, <3>1, <3>2 DEF InStep
  <2>7. CASE phase = "gated"
    <3>1. /\ wire = <<>> /\ Over /\ air # <<>> /\ Head(air).kind = "wait fp" /\ Tail(air) = <<>>
          /\ gate = job.frame
      BY <2>1, <2>7 DEF InStep, Still, Resting, Lone, Judged
    <3>2. air' # <<>> /\ Head(air') = Head(air) /\ Tail(air') = Append(<<>>, Frame(k))
      BY <1>0, <2>3, <2>4, <3>1, OneMoreFrame
    <3>3. Lone(Tail(air')) /\ Head(Tail(air')) = Frame(k) BY <3>2, LoneFrame
    <3>4. Judged(Head(Tail(air)))' BY <2>5, <3>1, <3>3 DEF Judged
    <3>5. Over' BY <2>1, <3>1 DEF Over, Ended
    <3> QED BY <2>1, <2>7, <3>1, <3>2, <3>3, <3>4, <3>5 DEF InStep
  <2>8. CASE phase = "gate"
    <3>1. wire = <<>> /\ Over /\ air = <<>> /\ gate = job.frame
      BY <2>1, <2>8 DEF InStep, Still, Resting, Judged, Asking
    <3>2. Lone(air') /\ Head(air') = Frame(k) BY <2>4, <3>1, LoneFrame
    <3>3. Judged(Head(air))' BY <2>5, <3>1, <3>2 DEF Judged
    <3>4. Over' BY <2>1, <3>1 DEF Over, Ended
    <3> QED BY <2>1, <2>8, <3>1, <3>2, <3>3, <3>4 DEF InStep
  <2>9. phase \in {"plain", "gated", "gate"} BY <2>1 DEF InStep, Still, Resting, Judged
  <2> QED BY <2>6, <2>7, <2>8, <2>9
<1> QED BY <1>1, <1>2

LEMMA InTimeHolds ==
  ASSUME TypeOK, MaxLate = 0, Known, JobsFit, Alone, InTime, Next
  PROVE  InTime'
<1> USE DEF hostVars, pairVars, workerVars, deviceVars, counters
<1>1. CASE Connect \/ StatusKnown \/ Challenged \/ ChallengedAgain \/ Synced \/ SessionEnds
  BY <1>1, InTimeSession
<1>2. CASE \/ TakeJob \/ PlainAnswered \/ GatedAnswered \/ Verdict \/ Dropped
           \/ PairSlots \/ PairInit \/ PairAgain \/ PairButton \/ ButtonNotified \/ PairConfirm
  <2>1. UNCHANGED <<link, step>> BY <1>2, ServingIs DEF TakeJob
  <2>2. ASSUME link', Follows' PROVE InStep'
    <3>1. InStep /\ link BY <1>2, <2>1, <2>2, FollowsWorker DEF InTime, Worker
    <3> QED BY <1>2, <2>2, <3>1, InStepServing, InStepPair
  <2> QED BY <2>1, <2>2 DEF InTime
<1>3. ASSUME NEW c \in Clients,
             \/ PairStart(c) \/ ClearOffline(c) \/ OwnerAnswered(c) \/ PathKnown(c) \/ Answered(c)
             \/ \E op \in Ops : Ask(c, op)
      PROVE  InTime'
  BY <1>3, InTimeHandler
<1>4. CASE DeviceHandles \/ DeviceSilent \/ DeviceButton \/ DeviceGate
  <2>1. link /\ UNCHANGED <<link, phase, proven, client>>
    BY <1>4 DEF DeviceHandles, DeviceSilent, DeviceButton, DeviceGate
  <2>2. Follows' = Follows BY <2>1 DEF Follows, Strayed, StrayedBy, Unnamed
  <2>3. CASE DeviceSilent
    <3>1. wire # <<>> /\ wire' = Tail(wire) /\ UNCHANGED <<air, step, gate>> BY <2>3 DEF DeviceSilent
    <3>2. InStep => wire' = <<>> /\ air' = <<>> /\ Resting BY <3>1 DEF InStep, Still, Lone
    <3> QED BY <2>1, <2>2, <3>1, <3>2, StillInStep DEF InTime
  <2> QED BY <1>4, <2>1, <2>2, <2>3, InStepHandles, InStepTouch DEF InTime
<1>5. CASE Rebooted \/ LinkLost \/ Restart BY <1>5 DEF Rebooted, LinkLost, Restart, Parted, InTime
<1>6. CASE Elsewhere BY <1>6 DEF Elsewhere, InTime
<1> QED BY <1>1, <1>2, <1>3, <1>4, <1>5, <1>6 DEF Next, Worker

Confirmed == phase = "confirm" /\ air # <<>> /\ Head(air).kind = "confirmed"
Gone == \A s \in Slots : slots[s] # key

ProvenHolds == proven /\ link /\ ~boot /\ ~Strayed => slots[active] = key \/ Confirmed

\* The answers after which a key goes.
ClearedIsGone ==
  proven /\ link /\ ~Strayed /\ phase = "plain" /\ air # <<>> /\ Head(air).kind = "cleared" => Gone
Parting(h) == /\ h.at = "answered" /\ h.op \in {"clear", "reset"}
              /\ h.ans.kind \notin {"silence", "not paired"} /\ ~Keeps(h.op, h.ans)
AnsweredIsGone == \A c \in Clients : proven /\ Parting(client[c]) => Gone

\* What is known of every state, but for what it says of the keys.
InOrder == /\ TypeOK /\ Known /\ JobsFit /\ Alone
           /\ Fresh /\ ProvenServes /\ InTime

LEMMA ProvenInStep ==
  ASSUME InOrder, proven, link, ~Strayed
  PROVE  InStep
BY DEF InOrder, InTime, Follows

LEMMA ProvenHandler ==
  ASSUME InOrder, ProvenHolds, ClearedIsGone, AnsweredIsGone, NEW c \in Clients,
         \/ PairStart(c) \/ ClearOffline(c) \/ OwnerAnswered(c) \/ PathKnown(c) \/ Answered(c)
         \/ \E op \in Ops : Ask(c, op)
  PROVE  ProvenHolds' /\ ClearedIsGone' /\ AnsweredIsGone'
<1> USE DEF hostVars, pairVars, workerVars, deviceVars, counters
<1>1. UNCHANGED <<phase, air, slots, active, boot, link>> /\ (UNCHANGED hostVars \/ ClearLocal)
  BY DEF PairStart, ClearOffline, OwnerAnswered, PathKnown, Answered, Ask
<1>2. proven' => UNCHANGED <<key, proven>> BY <1>1 DEF ClearLocal
<1>3. proven' /\ ~Strayed' => ~Strayed BY StrayedStays DEF InOrder
<1>4. ProvenHolds' BY <1>1, <1>2, <1>3 DEF ProvenHolds, Confirmed
<1>5. Gone /\ proven' => Gone' BY <1>1, <1>2 DEF Gone
<1>6. ClearedIsGone' BY <1>1, <1>2, <1>3, <1>5 DEF ClearedIsGone
<1>7. \A d \in Clients : Parting(client'[d]) => client'[d] = client[d]
  <2>1. CASE UNCHANGED client BY <2>1
  <2>2. CASE \E h : client' = [client EXCEPT ![c] = h] /\ ~Woken(h)
    BY <2>2 DEF InOrder, TypeOK, Parting, Woken
  <2> QED BY <2>1, <2>2, HandlerIs DEF InOrder
<1>8. AnsweredIsGone' BY <1>2, <1>5, <1>7 DEF AnsweredIsGone
<1> QED BY <1>4, <1>6, <1>8

\* What a verified challenge says in step: the device holds this key.
LEMMA ProofInStep ==
  ASSUME InOrder, MaxLate = 0, link, phase \in {"challenge", "retry"}, NEW f \in Incoming, Takes(f),
         f.kind = "hmac", NEW nonce, Verifies(f, nonce)
  PROVE  slots[active] = key
<1>1. InStep BY DEF InOrder, InTime, Follows, Starting
<1>2. f # Silence BY FixedFrames
<1>3. Fits(f) BY <1>1, <1>2, AnswerTaken DEF InOrder
<1> QED BY <1>3 DEF Fits, Proves, Verifies

LEMMA ProvenSession ==
  ASSUME InOrder, MaxLate = 0, ProvenHolds, ClearedIsGone, AnsweredIsGone,
         Connect \/ StatusKnown \/ Challenged \/ ChallengedAgain \/ Synced \/ SessionEnds
  PROVE  ProvenHolds' /\ ClearedIsGone' /\ AnsweredIsGone'
<1> USE DEF hostVars, pairVars, workerVars, deviceVars, counters
<1>1. /\ UNCHANGED <<client, slots, active, boot, key>>
      /\ phase' \in Starting \cup {"sync", "serve"} /\ phase \in Starting \cup {"sync", "serve"}
  BY SessionIs
<1>2. ClearedIsGone' BY <1>1 DEF ClearedIsGone, Starting
<1>3. CASE Connect \/ SessionEnds
  <2>1. ~proven' BY <1>3 DEF Connect, SessionEnds, SessionOver, Forgotten
  <2> QED BY <1>2, <2>1 DEF ProvenHolds, AnsweredIsGone
<1>4. CASE StatusKnown \/ Challenged \/ ChallengedAgain \/ Synced
  <2>1. PICK f \in Incoming : Takes(f)
    BY <1>4 DEF StatusKnown, Challenged, ChallengedAgain, Synced, Hears
  <2>2. \A c \in Clients : ~Parting(client'[c])
    BY <1>1, <2>1 DEF Takes, Prompt, Parting
  <2>3. link' = link BY <1>4 DEF StatusKnown, Challenged, ChallengedAgain, Synced
  <2>4. ASSUME proven', link' PROVE slots[active] = key \/ (proven /\ phase = "sync")
    <3>1. CASE StatusKnown
      BY <2>4, <3>1 DEF StatusKnown, InOrder, ProvenServes, Starting
    <3>2. CASE Challenged
      <4>1. PICK g \in Incoming :
              /\ Takes(g)
              /\ \/ g.kind = "hmac" /\ verified' = Verifies(g, 1) /\ proven' = verified'
                 \/ SessionOver \/ UNCHANGED proven
        BY <3>2 DEF Challenged, Hears
      <4>2. ~proven BY <3>2 DEF Challenged, InOrder, ProvenServes, Starting
      <4>3. g.kind = "hmac" /\ Verifies(g, 1)
        BY <2>4, <4>1, <4>2 DEF SessionOver, Forgotten
      <4>4. phase = "challenge" /\ link BY <2>3, <2>4, <3>2 DEF Challenged
      <4> QED BY <4>1, <4>3, <4>4, ProofInStep
    <3>3. CASE ChallengedAgain
      <4>1. PICK g \in Incoming : Takes(g) /\ proven' = (g.kind = "hmac" /\ Verifies(g, 2))
        BY <3>3 DEF ChallengedAgain, Hears
      <4>2. phase = "retry" /\ link BY <2>3, <2>4, <3>3 DEF ChallengedAgain
      <4> QED BY <2>4, <4>1, <4>2, ProofInStep
    <3>4. CASE Synced BY <2>4, <3>4 DEF Synced
    <3> QED BY <1>4, <3>1, <3>2, <3>3, <3>4
  <2>5. Strayed' = Strayed BY <1>1 DEF Strayed
  <2>6. ProvenHolds' BY <1>1, <2>3, <2>4, <2>5 DEF ProvenHolds, Confirmed
  <2> QED BY <1>2, <2>2, <2>6 DEF AnsweredIsGone
<1> QED BY <1>3, <1>4

\* What a reply changes.
LEMMA ReplyIs ==
  ASSUME TypeOK, JobsFit, NEW f, Replies(f), phase \in Pairs \cup {"plain", "gated", "gate"}
  PROVE  /\ job.cmd # "none" /\ job.who \in Clients /\ Awaits(client[job.who], job)
         /\ client'[job.who].ans = f /\ client'[job.who].op = client[job.who].op
         /\ client'[job.who].at = "answered" => client[job.who].at = "act"
         /\ \A d \in Clients \ {job.who} : client'[d] = client[d]
<1> DEFINE h == [client[job.who] EXCEPT !.ans = f,
                 !.at = IF client[job.who].at = "query" THEN "query answered" ELSE "answered"]
<1>1. job.cmd # "none" BY DEF JobsFit, Pairs
<1>2. job.who \in Clients /\ client[job.who] \in Handlers /\ Awaits(client[job.who], job)
  BY <1>1, JobIs DEF TypeOK, JobsFit
<1>3. client' = [client EXCEPT ![job.who] = h] BY DEF Replies
<1>4. /\ h.ans = f /\ h.op = client[job.who].op
      /\ h.at = IF client[job.who].at = "query" THEN "query answered" ELSE "answered"
  BY <1>2 DEF Handlers
<1> HIDE DEF h
<1>5. client'[job.who] = h /\ \A d \in Clients \ {job.who} : client'[d] = client[d]
  BY <1>2, <1>3 DEF TypeOK
<1>6. client[job.who].at \in {"query", "act"} BY <1>2 DEF Awaits
<1> QED BY <1>1, <1>2, <1>4, <1>5, <1>6

\* The reply after which a key goes is true.
LEMMA ReplyIsTrue ==
  ASSUME InOrder, MaxLate = 0, ClearedIsGone, proven, link, NEW f \in Incoming, Takes(f), NEW g, Replies(g),
         \/ phase = "plain" /\ g = f
         \/ phase \in {"gated", "gate"} /\ ((IsOk(f) /\ g = Frame("ok")) \/ g = Silence),
         Parting(client'[job.who])
  PROVE  Gone
<1> USE DEF InOrder
<1>1. /\ Awaits(client[job.who], job) /\ client[job.who].at = "act"
      /\ client[job.who].op \in {"clear", "reset"} /\ job.cmd # "none"
      /\ g.kind \notin {"silence", "not paired"} /\ ~Keeps(client[job.who].op, g)
  BY ReplyIs DEF Parting, Pairs
<1>2. ~Strayed BY DEF Strayed, StrayedBy, Takes, Prompt
<1>3. InStep BY <1>2, ProvenInStep
<1>4. key # NoKey BY DEF ProvenServes
<1>5. Wiped => Gone BY <1>4 DEF Wiped, Gone
<1>6. f = Silence \/ (air # <<>> /\ f = Head(air)) BY DEF Incoming
<1>7. CASE phase = "plain" /\ g = f
  <2>1. job.frame.kind = "clear" /\ job.frame.n = 0 BY <1>1, <1>7 DEF Awaits, JobsFit
  <2>2. air # <<>> /\ f = Head(air) BY <1>1, <1>6, <1>7, FixedFrames
  <2>3. f.kind # "refused" BY <1>1, <1>7, <2>1 DEF Keeps, Awaits, JobsFit
  <2>4. f.kind = "cleared" BY <1>1, <1>3, <1>7, <2>1, <2>2, <2>3 DEF InStep, Still, Fits
  <2> QED BY <1>2, <1>7, <2>2, <2>4 DEF ClearedIsGone
<1>8. CASE phase \in {"gated", "gate"} /\ ((IsOk(f) /\ g = Frame("ok")) \/ g = Silence)
  <2>1. IsOk(f) BY <1>1, <1>8, FixedFrames
  <2>2. air # <<>> /\ f = Head(air) BY <1>6, <2>1, FixedFrames DEF IsOk
  <2>3. job.frame.kind = "reset" BY <1>1, <1>8 DEF Awaits, JobsFit
  <2>4. Wiped BY <1>3, <1>8, <2>1, <2>2, <2>3 DEF InStep, Still, Fits, Judged, IsOk, Asking
  <2> QED BY <1>5, <2>4
<1> QED BY <1>7, <1>8

\* What the worker replies.
LEMMA RepliesAre ==
  ASSUME \/ PlainAnswered \/ GatedAnswered \/ Verdict \/ Dropped
         \/ PairSlots \/ PairInit \/ PairAgain \/ PairButton \/ ButtonNotified \/ PairConfirm
  PROVE  \/ UNCHANGED client
         \/ phase \in Pairs /\ Replies(Nothing)
         \/ \E f \in Incoming :
              /\ Takes(f)
              /\ \/ phase = "plain" /\ Replies(f)
                 \/ phase \in {"gated", "gate"} /\ IsOk(f) /\ Replies(Frame("ok"))
                 \/ phase \in {"gated", "gate"} /\ Replies(Silence)
<1> USE DEF hostVars, pairVars, workerVars, deviceVars, counters, Pairs
<1>1. CASE PlainAnswered BY <1>1 DEF PlainAnswered, Hears
<1>2. CASE GatedAnswered
  <2>1. PICK f \in Incoming :
          /\ Takes(f)
          /\ \/ IsOk(f) /\ Replies(Frame("ok"))
             \/ UNCHANGED client \/ Replies(Silence)
    BY <1>2 DEF GatedAnswered, Hears
  <2> QED BY <1>2, <2>1 DEF GatedAnswered
<1>3. CASE Verdict BY <1>3 DEF Verdict, Hears
<1>4. CASE Dropped \/ PairSlots \/ PairAgain BY <1>4 DEF Dropped, PairSlots, PairAgain
<1>5. ASSUME NEW f, PairGoesOn(f) PROVE UNCHANGED client \/ Replies(Nothing)
  BY <1>5 DEF PairGoesOn, PairOver
<1>6. CASE PairInit
  <2>1. PICK f : UNCHANGED client \/ PairGoesOn(f) BY <1>6 DEF PairInit
  <2> QED BY <1>5, <1>6, <2>1 DEF PairInit
<1>7. CASE PairButton
  <2>1. PICK f : PairGoesOn(f) BY <1>7 DEF PairButton
  <2> QED BY <1>5, <1>7, <2>1 DEF PairButton
<1>8. CASE ButtonNotified BY <1>8 DEF ButtonNotified, PairOver
<1>9. CASE PairConfirm BY <1>9 DEF PairConfirm, PairOver
<1> QED BY <1>1, <1>2, <1>3, <1>4, <1>6, <1>7, <1>8, <1>9

\* The slot holds this host's key, or will with the answer that is under way.
Held == slots[active] = key \/ Confirmed

\* The end of an attempt: the key in the slot is the host's, or nothing has changed.
LEMMA HeldConfirm ==
  ASSUME InOrder, MaxLate = 0, InStep, PairConfirm
  PROVE  slots[active] = key' \/ (UNCHANGED hostVars /\ ~Confirmed)
<1>1. PICK f \in Incoming :
        /\ Takes(f)
        /\ \/ f.kind = "confirmed" /\ key' = made
           \/ f.kind # "confirmed" /\ UNCHANGED hostVars
  BY DEF PairConfirm, Hears
<1>2. phase = "confirm" BY DEF PairConfirm
<1>3. CASE f = Silence /\ Still
  <2>1. ~Confirmed /\ f.kind # "confirmed" BY <1>3, FixedFrames DEF Confirmed, Still
  <2> QED BY <1>1, <2>1
<1>4. CASE air # <<>> /\ f = Head(air)
  <2>1. Fits(f) BY <1>1, <1>2, <1>4 DEF InStep, Still
  <2>2. CASE f.kind = "confirmed" BY <1>1, <1>2, <2>1, <2>2 DEF Fits
  <2>3. CASE f.kind # "confirmed"
    <3>1. ~Confirmed BY <1>4, <2>3 DEF Confirmed
    <3> QED BY <1>1, <2>3, <3>1
  <2> QED BY <2>2, <2>3
<1> QED BY <1>1, <1>2, <1>3, <1>4, TakenInStep DEF InOrder

\* The same through the other steps of serving.
LEMMA HeldServing ==
  ASSUME InOrder, MaxLate = 0, InStep, Held,
         \/ TakeJob \/ PlainAnswered \/ GatedAnswered \/ Verdict \/ Dropped
         \/ PairSlots \/ PairInit \/ PairAgain \/ PairButton \/ ButtonNotified \/ PairConfirm
  PROVE  slots'[active'] = key'
<1>1. UNCHANGED <<slots, active>> /\ (UNCHANGED key \/ PairConfirm)
  <2>1. CASE TakeJob BY <2>1 DEF TakeJob, hostVars, deviceVars
  <2> QED BY <2>1, ServingIs DEF hostVars
<1>2. CASE PairConfirm BY <1>1, <1>2, HeldConfirm DEF Held, hostVars
<1>3. CASE ~PairConfirm
  <2>1. phase = "confirm" => ButtonNotified
    BY <1>3 DEF TakeJob, PlainAnswered, GatedAnswered, Verdict, Dropped, PairSlots, PairInit,
         PairAgain, PairButton
  <2>2. ~Confirmed BY <2>1 DEF Confirmed, ButtonNotified, Buttons
  <2> QED BY <1>1, <1>3, <2>2 DEF Held
<1> QED BY <1>2, <1>3

LEMMA ProvenServing ==
  ASSUME InOrder, MaxLate = 0, ProvenHolds, ClearedIsGone, AnsweredIsGone,
         \/ TakeJob \/ PlainAnswered \/ GatedAnswered \/ Verdict \/ Dropped
         \/ PairSlots \/ PairInit \/ PairAgain \/ PairButton \/ ButtonNotified \/ PairConfirm
  PROVE  ProvenHolds' /\ ClearedIsGone' /\ AnsweredIsGone'
<1> USE DEF hostVars, pairVars, workerVars, deviceVars, counters
<1>1. /\ UNCHANGED <<slots, active, boot, link, proven>>
      /\ UNCHANGED key \/ PairConfirm
  <2>1. CASE TakeJob BY <2>1 DEF TakeJob
  <2>2. CASE PairConfirm BY <2>2 DEF PairConfirm
  <2> QED BY <2>1, <2>2, ServingIs
<1>2. ~Strayed' /\ proven' => ~Strayed BY StrayedStays DEF InOrder, Worker
<1>3. ProvenHolds'
  <2> SUFFICES ASSUME proven', link', ~boot', ~Strayed' PROVE slots'[active'] = key'
    BY DEF ProvenHolds
  <2>1. proven /\ link /\ ~boot /\ ~Strayed BY <1>1, <1>2
  <2>2. Held /\ InStep BY <2>1, ProvenInStep DEF ProvenHolds, Held
  <2> QED BY <2>2, HeldServing
<1>4. ClearedIsGone'
  <2> SUFFICES ASSUME proven', link', ~Strayed', phase' = "plain", air' # <<>>, Head(air').kind = "cleared"
               PROVE  FALSE
    BY DEF ClearedIsGone
  <2>1. InStep BY <1>1, <1>2, ProvenInStep
  <2>2. CASE TakeJob
    <3>1. air = <<>> BY <2>1, <2>2 DEF TakeJob, InStep, Asking, Still
    <3> QED BY <2>2, <3>1 DEF TakeJob
  <2>3. CASE ~TakeJob
    <3>1. phase = "plain" /\ UNCHANGED <<job, client>>
      BY <2>3, ServingIs DEF Replies, Pairs
    <3>2. ButtonNotified
      BY <2>3, <3>1 DEF PlainAnswered, Replies, GatedAnswered, Verdict, Dropped, PairSlots, PairInit,
           PairAgain, PairButton, PairConfirm
    <3>3. air # <<>> /\ Head(air).kind \in Buttons BY <3>2 DEF ButtonNotified
    <3> QED BY <2>1, <3>1, <3>3 DEF InStep, Still, Fits, Buttons
  <2> QED BY <2>2, <2>3
<1>5. AnsweredIsGone'
  <2> SUFFICES ASSUME NEW c \in Clients, proven', Parting(client'[c]) PROVE Gone'
    BY DEF AnsweredIsGone
  <2>1. client[c].at # "answered"
    <3>1. Prompt \/ phase = "pause"
      BY ServingIs DEF TakeJob
    <3> QED BY <3>1 DEF Prompt, InOrder, Alone, Woken
  <2>2. client'[c] # client[c] BY <2>1 DEF Parting
  <2>3. ~TakeJob BY <2>2 DEF TakeJob
  <2>4. (\E g : Replies(g)) /\ phase \in Pairs \cup {"plain", "gated", "gate"}
    BY <2>2, <2>3, ServingIs
  <2>5. c = job.who BY <2>2, <2>4, ReplyIs DEF InOrder
  <2>6. /\ Awaits(client[c], job) /\ job.cmd # "none" /\ client'[c].op = client[c].op
        /\ \A g : Replies(g) => client'[c].ans = g
    BY <2>4, <2>5, ReplyIs DEF InOrder
  <2>7. phase \notin Pairs
    BY <2>6 DEF Parting, Awaits, InOrder, JobsFit
  <2>8. PICK f \in Incoming :
          /\ Takes(f)
          /\ \/ phase = "plain" /\ Replies(f)
             \/ phase \in {"gated", "gate"} /\ IsOk(f) /\ Replies(Frame("ok"))
             \/ phase \in {"gated", "gate"} /\ Replies(Silence)
    BY <2>2, <2>3, <2>7, RepliesAre
  <2>9. link
    <3>1. SUFFICES ASSUME ~link PROVE FALSE OBVIOUS
    <3>2. f = Silence BY <3>1 DEF InOrder, Known, Apart, Incoming
    <3>3. client'[c].ans = Silence BY <2>6, <2>8, <3>2, FixedFrames DEF IsOk
    <3> QED BY <3>3, FixedFrames DEF Parting
  <2>10. Gone BY <1>1, <2>5, <2>8, <2>9, ReplyIsTrue
  <2>11. UNCHANGED key BY <1>1, <2>7 DEF PairConfirm, Pairs
  <2> QED BY <1>1, <2>10, <2>11 DEF Gone
<1> QED BY <1>3, <1>4, <1>5

\* The key of a proven session is this host's own.
LEMMA ProvenKey ==
  ASSUME InOrder, proven
  PROVE  key \in Ours /\ key # NoKey /\ key # Theirs
BY ConstantsAssumption DEF InOrder, ProvenServes, Known, OwnKeys, Ours, NoKey, Theirs

\* With an answer that waits for its handler nothing is under way.
LEMMA PartingStill ==
  ASSUME InOrder, proven, NEW c \in Clients, Parting(client[c])
  PROVE  link => Still
<1>1. phase = "serve" BY DEF InOrder, Alone, Woken, Parting, ProvenServes, Starting
<1>2. ~Strayed
  <2>1. ASSUME NEW d \in Clients, StrayedBy(client[d]) PROVE FALSE
    <3>1. d = c BY <2>1 DEF InOrder, Alone, Woken, Parting, StrayedBy
    <3> QED BY <2>1, <3>1 DEF InOrder, Alone, Named, Parting, StrayedBy
  <2> QED BY <2>1 DEF Strayed
<1> QED BY <1>1, <1>2, ProvenInStep DEF InStep, Asking

\* What a command does to the slot in use: nothing, or the device restarts, or the
\* answer says so.
LEMMA HeldHandles ==
  ASSUME InOrder, InStep, DeviceHandles
  PROVE  /\ phase \in Asking /\ Lone(wire) /\ Asks(Head(wire)) /\ air = <<>>
         /\ boot' \/ slots'[active] = slots[active] \/ (Confirmed' /\ phase = "confirm")
         /\ air' # <<>>
         /\ Head(air').kind = "cleared" => slots' = [slots EXCEPT ![active] = NoKey]
<1> USE DEF hostVars, pairVars, workerVars, deviceVars, counters
<1> DEFINE f == Head(wire)
<1>1. UNCHANGED phase /\ wire # <<>> BY DEF DeviceHandles
<1>2. phase \in Asking /\ Lone(wire) /\ Asks(f) /\ air = <<>> BY <1>1 DEF InStep, Still
<1>3. \A x : Says(x) => air' # <<>> /\ Head(air') = x BY <1>2, LoneFrame DEF Says
<1>4. \/ Says(Frame("confirmed")) /\ f.kind = "confirm"
      \/ slots' = [slots EXCEPT ![active] = NoKey] /\ boot' /\ Says(Frame("cleared"))
      \/ boot' /\ Says(Frame("ok"))
      \/ UNCHANGED slots /\ \E k \in {"not paired", "not confirmed", "params", "needs reset", "wait",
                                      "refused", "wait fp"} : Says(Frame(k))
      \/ UNCHANGED slots /\ Says(Answer(f)) /\ f.kind \notin {"init", "confirm", "clear", "reset"}
  BY DEF DeviceHandles, DevicePairs, DeviceConfirms, DeviceClears, Rests
<1> HIDE DEF f
<1>5. CASE Says(Frame("confirmed")) /\ f.kind = "confirm"
  <2>1. phase = "confirm" BY <1>2, <1>5, WaitOf DEF InOrder
  <2>2. Head(air').kind = "confirmed" /\ air' # <<>> BY <1>3, <1>5, FieldsOf
  <2> QED BY <1>1, <1>2, <2>1, <2>2 DEF Confirmed, f
<1>6. CASE slots' = [slots EXCEPT ![active] = NoKey] /\ boot' /\ Says(Frame("cleared"))
  BY <1>2, <1>3, <1>6 DEF f
<1>7. CASE boot' /\ Says(Frame("ok"))
  <2>1. Head(air').kind = "ok" /\ air' # <<>> BY <1>3, <1>7, FieldsOf
  <2> QED BY <1>2, <1>7, <2>1 DEF f
<1>8. ASSUME UNCHANGED slots,
             NEW k \in {"not paired", "not confirmed", "params", "needs reset", "wait",
                        "refused", "wait fp"}, Says(Frame(k))
      PROVE  Head(air').kind # "cleared" /\ air' # <<>>
  <2>1. Head(air').kind = k /\ air' # <<>> BY <1>3, <1>8, FieldsOf
  <2> QED BY <1>8, <2>1
<1>9. CASE UNCHANGED slots /\ Says(Answer(f)) /\ f.kind \notin {"init", "confirm", "clear", "reset"}
  <2>1. f.kind \in {"status?", "challenge", "slots?", "other"}
    BY <1>2, <1>9, WaitOf DEF InOrder
  <2>2. Answer(f).kind \in {"status", "hmac", "slots", "other"}
    BY <2>1, AnswerIs, FieldsOf
  <2> QED BY <1>2, <1>3, <1>9, <2>2 DEF f
<1> QED BY <1>2, <1>4, <1>5, <1>6, <1>7, <1>8, <1>9 DEF f

\* A gate is not for the slot in use, but for a reset, after which the device restarts.
LEMMA OtherSlot == \A s \in Slots : Other(s) # s
BY DEF Slots, Other

LEMMA HeldGate ==
  ASSUME InOrder, DeviceGate
  PROVE  boot' \/ slots'[active] = slots[active]
<1>1. /\ gate # Nothing /\ (UNCHANGED slots \/ slots' = Cleared(gate))
      /\ UNCHANGED slots \/ boot' = (gate.kind = "reset")
  BY DEF DeviceGate
<1>2. slots \in [Slots -> Values] /\ active \in Slots /\ Other(active) # active
  BY OtherSlot DEF InOrder, TypeOK
<1>3. gate.kind = "reset" \/ (gate.kind = "clear" /\ gate.n = Other(active))
  BY <1>1 DEF InOrder, Known, GateIsFar
<1> QED BY <1>1, <1>2, <1>3 DEF Cleared

LEMMA ProvenHandles ==
  ASSUME InOrder, ProvenHolds, AnsweredIsGone, DeviceHandles
  PROVE  ProvenHolds' /\ ClearedIsGone' /\ AnsweredIsGone'
<1> USE DEF hostVars, pairVars, workerVars, deviceVars, counters
<1>1. /\ link /\ ~boot /\ wire # <<>>
      /\ UNCHANGED <<link, active, phase, key, proven, client, job, made>>
  BY DEF DeviceHandles
<1>2. UNCHANGED Strayed BY <1>1 DEF Strayed
<1>3. AnsweredIsGone'
  BY <1>1, PartingStill DEF AnsweredIsGone, Still
<1>4. ASSUME proven, ~Strayed
      PROVE  /\ boot' \/ slots'[active] = key \/ Confirmed'
             /\ Head(air').kind = "cleared" => Gone'
  <2>1. /\ air = <<>>
        /\ boot' \/ slots'[active] = slots[active] \/ Confirmed'
        /\ Head(air').kind = "cleared" => slots' = [slots EXCEPT ![active] = NoKey]
    BY <1>1, <1>4, ProvenInStep, HeldHandles
  <2>2. slots[active] = key BY <1>1, <1>4, <2>1 DEF ProvenHolds, Confirmed
  <2>3. /\ slots \in [Slots -> Values] /\ active \in Slots
        /\ \A s \in Slots : s = active \/ s = Other(active)
    BY DEF InOrder, TypeOK, Slots, Other
  <2>4. slots[active] # slots[Other(active)]
    BY <1>4, <2>2, <2>3, ProvenKey DEF InOrder, Fresh
  <2>5. Head(air').kind = "cleared" => Gone'
    BY <1>1, <1>4, <2>1, <2>2, <2>3, <2>4, ProvenKey DEF Gone
  <2> QED BY <2>1, <2>2, <2>5
<1>5. ProvenHolds' BY <1>1, <1>2, <1>4 DEF ProvenHolds
<1>6. ClearedIsGone' BY <1>1, <1>2, <1>4 DEF ClearedIsGone
<1> QED BY <1>3, <1>5, <1>6

LEMMA ProvenTouch ==
  ASSUME InOrder, ProvenHolds, ClearedIsGone, AnsweredIsGone, DeviceButton \/ DeviceGate
  PROVE  ProvenHolds' /\ ClearedIsGone' /\ AnsweredIsGone'
<1> USE DEF hostVars, pairVars, workerVars, deviceVars, counters
<1>1. link /\ ~boot /\ UNCHANGED <<link, active, phase, key, proven, client>>
  BY DEF DeviceButton, DeviceGate
<1>2. UNCHANGED Strayed BY <1>1 DEF Strayed
<1>3. PICK k \in {"fp ok", "pressed", "ok", "no"} \cup Last : Says(Frame(k))
  <2>1. \E k \in {"fp ok", "pressed", "ok", "no"} \cup {"pubkey", "params", "button timeout", "button cancelled"} :
          Says(Frame(k))
    BY DEF DeviceButton, DeviceGate
  <2> QED BY <2>1 DEF Last
<1>4. Frame(k) \in Frames /\ Frame(k).kind = k
  BY FrameType DEF Kinds, Answers, Buttons, Last, Slots
<1>5. k \notin {"confirmed", "cleared"} BY DEF Last
<1>6. /\ air # <<>> => air' # <<>> /\ Head(air') = Head(air)
      /\ air = <<>> => Head(air').kind \notin {"confirmed", "cleared"}
  <2>1. air' = Append(air, Frame(k)) /\ air \in Seq(Frames) BY <1>3 DEF Says, InOrder, TypeOK
  <2>2. CASE air # <<>> BY <1>4, <2>1, <2>2, OneMoreFrame
  <2>3. CASE air = <<>>
    <3>1. Head(air') = Frame(k) BY <2>1, <2>3, LoneFrame
    <3> QED BY <1>4, <1>5, <2>3, <3>1
  <2> QED BY <2>2, <2>3
<1>7. CASE DeviceButton
  <2>1. UNCHANGED <<slots, boot>> BY <1>7 DEF DeviceButton
  <2>2. ProvenHolds' BY <1>1, <1>2, <1>6, <2>1 DEF ProvenHolds, Confirmed
  <2>3. ClearedIsGone' BY <1>1, <1>2, <1>6, <2>1 DEF ClearedIsGone, Gone
  <2>4. AnsweredIsGone' BY <1>1, <2>1 DEF AnsweredIsGone, Gone
  <2> QED BY <2>2, <2>3, <2>4
<1>8. CASE DeviceGate
  <2>1. gate # Nothing BY <1>8 DEF DeviceGate
  <2>2. AnsweredIsGone' BY <1>1, <2>1, PartingStill DEF AnsweredIsGone, Still, Resting
  <2>3. ASSUME proven, ~Strayed
        PROVE  phase # "confirm" /\ (phase = "plain" => air # <<>> /\ Head(air).kind # "cleared")
    BY <1>1, <2>1, <2>3, ProvenInStep DEF InStep, Still, Resting, Asking
  <2>4. boot' \/ slots'[active] = slots[active] BY <1>8, HeldGate
  <2>5. ProvenHolds' BY <1>1, <1>2, <2>3, <2>4 DEF ProvenHolds, Confirmed
  <2>6. ClearedIsGone' BY <1>1, <1>2, <1>6, <2>3 DEF ClearedIsGone
  <2> QED BY <2>2, <2>5, <2>6
<1> QED BY <1>7, <1>8

LEMMA ProvenWorld ==
  ASSUME InOrder, ProvenHolds, ClearedIsGone, AnsweredIsGone,
         DeviceSilent \/ Rebooted \/ LinkLost \/ Elsewhere \/ Restart
  PROVE  ProvenHolds' /\ ClearedIsGone' /\ AnsweredIsGone'
<1> USE DEF hostVars, pairVars, workerVars, deviceVars, counters
<1>1. CASE DeviceSilent
  <2>1. UNCHANGED <<link, active, phase, key, proven, client, air, slots, boot>>
    BY <1>1 DEF DeviceSilent
  <2> QED BY <2>1 DEF ProvenHolds, ClearedIsGone, AnsweredIsGone, Confirmed, Gone, Strayed
<1>2. CASE Restart
  <2>1. ~proven' BY <1>2 DEF Restart, Forgotten
  <2> QED BY <2>1 DEF ProvenHolds, ClearedIsGone, AnsweredIsGone
<1>3. CASE Rebooted \/ LinkLost \/ Elsewhere
  <2>1. ~link' /\ UNCHANGED <<key, proven, client>>
    BY <1>3 DEF Rebooted, LinkLost, Elsewhere, Parted
  <2>2. \/ UNCHANGED slots
        \/ \E s \in Slots : \E n \in {NoKey, Theirs} : slots' = [slots EXCEPT ![s] = n]
        \/ slots' = [s \in Slots |-> NoKey]
    BY <1>3 DEF Rebooted, LinkLost, Elsewhere
  <2>3. \A s \in Slots : slots'[s] \in {slots[s], NoKey, Theirs} BY <2>2 DEF InOrder, TypeOK
  <2>4. AnsweredIsGone' BY <2>1, <2>3, ProvenKey DEF AnsweredIsGone, Gone
  <2> QED BY <2>1, <2>4 DEF ProvenHolds, ClearedIsGone
<1> QED BY <1>1, <1>2, <1>3

\* What is known of the keys of a proven session whose answers come in time.
ProvenIsGood == InOrder /\ ProvenHolds /\ ClearedIsGone /\ AnsweredIsGone

LEMMA JobsNext ==
  ASSUME TypeOK, JobsFit, Alone, Next
  PROVE  JobsFit' /\ Alone'
<1>1. ASSUME NEW c \in Clients,
             \/ PairStart(c) \/ ClearOffline(c) \/ OwnerAnswered(c) \/ PathKnown(c) \/ Answered(c)
             \/ \E op \in Ops : Ask(c, op)
      PROVE  JobsFit' /\ Alone'
  BY <1>1, JobsHandler
<1> QED BY <1>1, JobsWorker, JobsDevice DEF Next

LEMMA ProvenIsGoodHolds ==
  ASSUME ProvenIsGood, MaxLate = 0, TypeOK', Known', Next
  PROVE  ProvenIsGood'
<1> USE DEF ProvenIsGood
<1>1. InOrder'
  BY JobsNext, FreshHolds, ProvenServesHolds, InTimeHolds DEF InOrder
<1>2. ProvenHolds' /\ ClearedIsGone' /\ AnsweredIsGone'
  <2>1. ASSUME NEW c \in Clients,
               \/ PairStart(c) \/ ClearOffline(c) \/ OwnerAnswered(c) \/ PathKnown(c) \/ Answered(c)
               \/ \E op \in Ops : Ask(c, op)
        PROVE  ProvenHolds' /\ ClearedIsGone' /\ AnsweredIsGone'
    BY <2>1, ProvenHandler
  <2>2. CASE Worker BY <2>2, ProvenSession, ProvenServing DEF Worker
  <2>3. CASE \/ DeviceHandles \/ DeviceSilent \/ DeviceButton \/ DeviceGate
             \/ Rebooted \/ LinkLost \/ Elsewhere \/ Restart
    BY <2>3, ProvenHandles, ProvenTouch, ProvenWorld
  <2> QED BY <2>1, <2>2, <2>3 DEF Next
<1> QED BY <1>1, <1>2

LEMMA ProvenIsGoodStart ==
  ASSUME Init, TypeOK, Known
  PROVE  ProvenIsGood
<1>1. \A c \in Clients : client[c].at = "idle" BY DEF Init, Calm
<1>2. Len(queue) = 0 /\ Len(wire) = 0 /\ 1..0 = {} BY EmptySeq DEF Init
<1>3. JobsFit BY <1>2 DEF Init, JobsFit, NoJob, Pairs
<1>4. Alone BY <1>1 DEF Alone, Woken, Named
<1>5. \A s \in Slots : slots[s] \notin Ours
  BY ConstantsAssumption DEF Init, NoKey, Theirs, Ours
<1>6. Fresh BY <1>2, <1>5 DEF Fresh
<1>7. ~proven /\ ~link /\ step = "idle" BY DEF Init
<1>8. InOrder BY <1>3, <1>4, <1>6, <1>7 DEF InOrder, InTime, ProvenServes
<1> QED BY <1>7, <1>8 DEF ProvenIsGood, ProvenHolds, ClearedIsGone, AnsweredIsGone

LEMMA ProvenIsGoodStays ==
  ASSUME ProvenIsGood, TypeOK', Known', UNCHANGED vars
  PROVE  ProvenIsGood'
<1> USE DEF vars, hostVars, pairVars, workerVars, deviceVars, counters
<1>1. JobsFit' /\ Alone' BY DEF ProvenIsGood, InOrder, JobsFit, Alone
<1>2. Fresh' /\ ProvenServes' BY DEF ProvenIsGood, InOrder, Fresh, ProvenServes
<1>3. Strayed' = Strayed BY DEF Strayed
<1>4. Follows' = Follows BY <1>3 DEF Follows
<1>5. InTime' BY <1>4, InStepKept DEF ProvenIsGood, InOrder, InTime
<1>6. ProvenHolds' /\ ClearedIsGone' /\ AnsweredIsGone'
  BY <1>3 DEF ProvenIsGood, ProvenHolds, Confirmed, ClearedIsGone, AnsweredIsGone, Gone
<1> QED BY <1>1, <1>2, <1>5, <1>6 DEF ProvenIsGood, InOrder

\* clear_own_slot and handle_factory_reset, with answers that come within their
\* command's timeout as in the run, or not at all: what a proven session drops is a
\* key that no slot holds.
THEOREM DropsHaveCause == ASSUME MaxLate = 0 PROVE Spec => DroppedForCause
<1>1. TypeOK /\ Known /\ Init => ProvenIsGood BY ProvenIsGoodStart
<1>2. TypeOK /\ Known /\ TypeOK' /\ Known' /\ ProvenIsGood /\ [Next]_vars => ProvenIsGood'
  BY ProvenIsGoodHolds, ProvenIsGoodStays
<1>3. ProvenIsGood =>
        [\A c \in Clients :
           /\ Answered(c) /\ key' # key /\ proven /\ client[c].op \in {"clear", "reset"}
           /\ client[c].ans.kind \notin {"silence", "not paired"}
           => \A s \in Slots : slots[s] # key]_vars
  <2> SUFFICES ASSUME ProvenIsGood, NEW c \in Clients, Answered(c), key' # key, proven,
                      client[c].op \in {"clear", "reset"},
                      client[c].ans.kind \notin {"silence", "not paired"}
               PROVE  Gone
    BY DEF Gone
  <2>1. Parting(client[c]) BY DEF Answered, Parting, hostVars
  <2> QED BY <2>1 DEF ProvenIsGood, AnsweredIsGone
<1> QED BY <1>1, <1>2, <1>3, KnownSafe, PTL DEF Spec, DroppedForCause

-----------------------------------------------------------------------------
(* A verified device, with every command answered *)

Answering == link /\ ~boot /\ lost = 0
Waiting   == wire # <<>> \/ air # <<>>
VerifiedHolds ==
  Answering =>
    /\ phase = "status" => Waiting
    /\ phase = "challenge" => Waiting /\ Paired /\ heard # "none"
    /\ phase # "retry"
    /\ phase \notin Starting /\ key # NoKey /\ verified => Held

\* A question of the start is answered, and truly.
LEMMA Heard ==
  ASSUME InOrder, MaxLate = 0, VerifiedHolds, Answering, phase \in {"status", "challenge"},
         NEW f \in Incoming, Takes(f)
  PROVE  Fits(f) /\ wire = <<>>
<1>1. InStep BY DEF InOrder, InTime, Follows, Starting, Answering
<1>2. Waiting BY DEF VerifiedHolds
<1>3. wire = <<>> /\ (f = Silence \/ Fits(f)) BY <1>1, AnswerTaken DEF InOrder
<1>4. air # <<>> /\ f = Head(air) BY <1>1, <1>2, <1>3, TakenInStep DEF InOrder, Waiting, Still
<1>5. Fits(Head(air)) BY <1>1, <1>4 DEF InStep, Still
<1> QED BY <1>3, <1>4, <1>5

LEMMA VerifiedSession ==
  ASSUME InOrder, MaxLate = 0, VerifiedHolds,
         Connect \/ StatusKnown \/ Challenged \/ ChallengedAgain \/ Synced \/ SessionEnds
  PROVE  VerifiedHolds'
<1> USE DEF hostVars, pairVars, workerVars, deviceVars, counters
<1>1. UNCHANGED <<slots, active, boot, key>> BY SessionIs
<1>2. CASE Connect
  <2>1. phase' = "status" /\ wire' = Append(wire, Frame("status?")) BY <1>2 DEF Connect
  <2>2. wire' # <<>>
    <3>1. wire \in Seq(Frames) /\ Frame("status?") \in Frames
      BY FrameType DEF InOrder, TypeOK, Kinds, Cmds, Slots
    <3> QED BY <2>1, <3>1, AppendProperties
  <2> QED BY <2>1, <2>2 DEF VerifiedHolds, Waiting, Starting
<1>3. CASE SessionEnds BY <1>3 DEF SessionEnds, VerifiedHolds, Answering
<1>4. CASE StatusKnown \/ Challenged \/ ChallengedAgain \/ Synced
  <2> SUFFICES ASSUME Answering'
               PROVE  /\ phase' \notin {"status", "retry"}
                      /\ phase' = "challenge" => Waiting' /\ Paired' /\ heard' # "none"
                      /\ phase' \notin Starting /\ key' # NoKey /\ verified' => Held'
    BY DEF VerifiedHolds
  <2>1. Answering
    BY <1>1, <1>4 DEF StatusKnown, Challenged, ChallengedAgain, Synced, Hears, Takes, Answering
  <2>2. CASE StatusKnown
    <3>1. PICK f \in Incoming :
            /\ Takes(f)
            /\ heard' = IF f.kind # "status" THEN "none" ELSE IF f.n = 1 THEN "paired" ELSE "unpaired"
      BY <2>2 DEF StatusKnown, Hears
    <3>2. Fits(f) /\ wire = <<>> BY <2>1, <2>2, <3>1, Heard DEF StatusKnown
    <3>3. heard' = IF Paired THEN "paired" ELSE "unpaired"
      BY <2>2, <3>1, <3>2 DEF Fits, StatusKnown
    <3>4. CASE Disowns(heard')
      <4>1. unpaired' /\ key # NoKey BY <2>2, <3>4 DEF StatusKnown, Disowns
      <4>2. Serves(FALSE) /\ ~verified' BY <2>2, <4>1 DEF StatusKnown
      <4> QED BY <1>1, <4>2 DEF Serves, Starting
    <3>5. CASE ~Disowns(heard') /\ key = NoKey
      <4>1. Serves(TRUE) BY <2>2, <3>5 DEF StatusKnown
      <4> QED BY <1>1, <3>5, <4>1 DEF Serves, Sends, Starting
    <3>6. CASE ~Disowns(heard') /\ key # NoKey
      <4>1. Challenge(1, "challenge") BY <2>2, <3>6 DEF StatusKnown
      <4>2. Paired BY <3>3, <3>6 DEF Disowns
      <4>3. wire' # <<>> /\ phase' = "challenge"
        BY <2>1, <3>2, <4>1, SentAlone DEF Challenge, Lone, Answering
      <4> QED BY <1>1, <3>3, <4>2, <4>3 DEF Waiting, Paired, Starting
    <3> QED BY <3>4, <3>5, <3>6
  <2>3. CASE Challenged
    <3>1. PICK f \in Incoming :
            /\ Takes(f)
            /\ f.kind = "hmac" => Serves(verified')
            /\ f.kind = "hmac" => verified' = Verifies(f, 1)
      <4>1. PICK f \in Incoming :
              /\ Takes(f)
              /\ CASE f.kind = "hmac" -> verified' = Verifies(f, 1) /\ Serves(verified')
                   [] OTHER -> TRUE
        BY <2>3, FixedFrames DEF Challenged, Hears
      <4> QED BY <4>1
    <3>2. Paired BY <2>1, <2>3 DEF VerifiedHolds, Challenged
    <3>3. f.kind = "hmac" /\ f.n = slots[active]
      BY <2>1, <2>3, <3>1, <3>2, Heard DEF Challenged, Fits, Proves
    <3>4. verified' => slots'[active'] = key' BY <1>1, <3>1, <3>3 DEF Verifies
    <3>5. phase' \in {"sync", "serve"} BY <3>1, <3>3 DEF Serves, Sends
    <3> QED BY <3>4, <3>5 DEF Held, Starting
  <2>4. ~ChallengedAgain BY <2>1 DEF VerifiedHolds, ChallengedAgain
  <2>5. CASE Synced
    <3>1. phase = "sync" /\ phase' = "serve" /\ UNCHANGED verified BY <2>5 DEF Synced
    <3> QED BY <1>1, <2>1, <3>1 DEF VerifiedHolds, Held, Confirmed, Starting
  <2> QED BY <1>4, <2>2, <2>3, <2>4, <2>5
<1> QED BY <1>2, <1>3, <1>4

LEMMA VerifiedServing ==
  ASSUME InOrder, MaxLate = 0, Unnamed, VerifiedHolds,
         \/ TakeJob \/ PlainAnswered \/ GatedAnswered \/ Verdict \/ Dropped
         \/ PairSlots \/ PairInit \/ PairAgain \/ PairButton \/ ButtonNotified \/ PairConfirm
  PROVE  VerifiedHolds'
<1> USE DEF hostVars, pairVars, workerVars, deviceVars, counters
<1> SUFFICES ASSUME Answering' PROVE phase' \notin Starting /\ (key' # NoKey /\ verified' => Held')
  BY DEF VerifiedHolds, Starting
<1>1. UNCHANGED <<link, boot, lost>>
  BY ServingIs DEF TakeJob, PlainAnswered, GatedAnswered, Verdict, Dropped, PairSlots, PairInit,
       PairAgain, PairButton, ButtonNotified, PairConfirm, Hears, Takes
<1>2. Answering /\ InStep BY <1>1 DEF Answering, InOrder, InTime, Follows
<1>3. phase \notin Starting
  <2>1. CASE ButtonNotified
    BY <1>2, <2>1 DEF ButtonNotified, InStep, Still, Fits, Starting
  <2> QED BY <2>1 DEF Starting, TakeJob, PlainAnswered, GatedAnswered, Verdict, Dropped, PairSlots, PairInit,
       PairAgain, PairButton, PairConfirm
<1>4. phase' \notin Starting
  <2>1. CASE TakeJob BY <2>1, TakenJob DEF Sends, InOrder, Starting
  <2> QED BY <1>3, <2>1, ServingIs DEF Replies, Starting, Pairs
<1>5. ASSUME key' # NoKey, verified' PROVE slots'[active'] = key'
  <2>1. CASE UNCHANGED hostVars
    BY <1>2, <1>3, <1>5, <2>1, HeldServing DEF VerifiedHolds
  <2>2. CASE PairConfirm /\ ~UNCHANGED hostVars
    BY <1>2, <2>2, HeldConfirm DEF PairConfirm
  <2>3. TakeJob => UNCHANGED hostVars BY DEF TakeJob
  <2> QED BY <2>1, <2>2, <2>3, ServingIs
<1> QED BY <1>4, <1>5 DEF Held

\* Nothing but a long press or a clear takes the key from the slot in use, and the
\* device restarts after either.
LEMMA VerifiedDevice ==
  ASSUME InOrder, Unnamed, VerifiedHolds,
         DeviceHandles \/ DeviceSilent \/ DeviceButton \/ DeviceGate
  PROVE  VerifiedHolds'
<1> USE DEF hostVars, pairVars, workerVars, deviceVars, counters
<1>1. link /\ UNCHANGED <<link, active, phase, key, verified, heard>>
  BY DEF DeviceHandles, DeviceSilent, DeviceButton, DeviceGate
<1>2. InStep BY <1>1 DEF InOrder, InTime, Follows
<1>3. CASE DeviceSilent
  <2>1. lost' # 0 BY <1>3, ConstantsAssumption DEF DeviceSilent, InOrder, TypeOK
  <2> QED BY <2>1 DEF VerifiedHolds, Answering
<1>4. ASSUME Answering', ~DeviceSilent PROVE Answering
  BY <1>1, <1>4 DEF Answering, DeviceHandles, DeviceButton, DeviceGate
<1>5. CASE DeviceHandles
  <2>1. /\ air = <<>> /\ air' # <<>>
        /\ boot' \/ slots'[active] = slots[active] \/ (Confirmed' /\ phase = "confirm")
    BY <1>2, <1>5, HeldHandles
  <2> SUFFICES ASSUME Answering', ~DeviceSilent PROVE VerifiedHolds' BY <1>3 DEF VerifiedHolds
  <2>2. Answering /\ ~boot' BY <1>4 DEF Answering
  <2> QED BY <1>1, <2>1, <2>2 DEF VerifiedHolds, Waiting, Paired, Held, Confirmed
<1>6. CASE DeviceButton
  <2>1. UNCHANGED <<slots, wire>> BY <1>6 DEF DeviceButton
  <2>2. PICK k \in {"fp ok", "pressed"} \cup Last : Says(Frame(k))
    <3>1. \E k \in {"fp ok", "pressed"} \cup {"pubkey", "params", "button timeout", "button cancelled"} :
            Says(Frame(k))
      BY <1>6 DEF DeviceButton
    <3> QED BY <3>1 DEF Last
  <2>3. Frame(k) \in Frames BY FrameType DEF Kinds, Answers, Buttons, Last, Slots
  <2>4. air' # <<>> /\ (air # <<>> => Head(air') = Head(air))
    BY <2>2, <2>3, OneMoreFrame, LoneFrame DEF Says, InOrder, TypeOK
  <2> SUFFICES ASSUME Answering', ~DeviceSilent PROVE VerifiedHolds' BY <1>3 DEF VerifiedHolds
  <2> QED BY <1>1, <1>4, <2>1, <2>4 DEF VerifiedHolds, Waiting, Paired, Held, Confirmed
<1>7. CASE DeviceGate
  <2>1. slots'[active] = slots[active] \/ boot' BY <1>7, HeldGate
  <2>2. gate # Nothing BY <1>7 DEF DeviceGate
  <2>3. phase \notin {"status", "challenge", "confirm"}
    BY <1>2, <1>7, <2>2 DEF VerifiedHolds, InStep, Still, Resting, Waiting, Answering, DeviceGate
  <2> SUFFICES ASSUME Answering', ~DeviceSilent PROVE VerifiedHolds' BY <1>3 DEF VerifiedHolds
  <2> QED BY <1>1, <1>4, <2>1, <2>3 DEF VerifiedHolds, Held, Confirmed, Answering
<1> QED BY <1>3, <1>5, <1>6, <1>7

LEMMA VerifiedHandler ==
  ASSUME VerifiedHolds, NEW c \in Clients,
         \/ PairStart(c) \/ ClearOffline(c) \/ OwnerAnswered(c) \/ PathKnown(c) \/ Answered(c)
         \/ \E op \in Ops : Ask(c, op)
  PROVE  VerifiedHolds'
<1> USE DEF hostVars, pairVars, workerVars, deviceVars, counters
<1>1. UNCHANGED <<phase, heard, wire, air, slots, active, boot, link, lost>> /\ (UNCHANGED hostVars \/ ClearLocal)
  BY DEF PairStart, ClearOffline, OwnerAnswered, PathKnown, Answered, Ask
<1> QED BY <1>1 DEF VerifiedHolds, Answering, Waiting, Paired, Held, Confirmed, ClearLocal

LEMMA VerifiedWorld ==
  ASSUME Rebooted \/ LinkLost \/ Elsewhere \/ Restart
  PROVE  VerifiedHolds'
<1>1. ~link' BY DEF Rebooted, LinkLost, Elsewhere, Restart, Parted
<1> QED BY <1>1 DEF VerifiedHolds, Answering

\* connect_and_serve and do_pair: with every command answered, in time, and no slot
\* named to be cleared, a device called verified holds this host's key, for any
\* number of clients, requests, changes made elsewhere and restarts.
THEOREM VerifiedHoldsOurs ==
  ASSUME MaxLate = 0, Ops \cap {"clear 1", "clear 2"} = {}
  PROVE  Spec => []VerifiedKnowsUs
<1>0. Unnamed BY DEF Unnamed
<1>1. TypeOK /\ Known /\ Init => ProvenIsGood /\ VerifiedHolds
  <2>1. Init => VerifiedHolds BY DEF Init, VerifiedHolds, Answering
  <2> QED BY <2>1, ProvenIsGoodStart
<1>2. TypeOK /\ Known /\ TypeOK' /\ Known' /\ ProvenIsGood /\ VerifiedHolds /\ [Next]_vars
        => ProvenIsGood' /\ VerifiedHolds'
  <2> SUFFICES ASSUME TypeOK, Known, TypeOK', Known', ProvenIsGood, VerifiedHolds, [Next]_vars
               PROVE  ProvenIsGood' /\ VerifiedHolds'
    OBVIOUS
  <2>1. ProvenIsGood' BY ProvenIsGoodHolds, ProvenIsGoodStays
  <2> SUFFICES VerifiedHolds' BY <2>1
  <2>2. InOrder BY DEF ProvenIsGood
  <2>3. CASE UNCHANGED vars
    BY <2>3 DEF vars, hostVars, pairVars, workerVars, deviceVars, counters, VerifiedHolds, Answering,
                Waiting, Paired, Held, Confirmed
  <2>4. CASE Worker BY <1>0, <2>2, <2>4, VerifiedSession, VerifiedServing DEF Worker
  <2>5. CASE DeviceHandles \/ DeviceSilent \/ DeviceButton \/ DeviceGate
    BY <1>0, <2>2, <2>5, VerifiedDevice
  <2>6. ASSUME NEW c \in Clients,
               \/ PairStart(c) \/ ClearOffline(c) \/ OwnerAnswered(c) \/ PathKnown(c) \/ Answered(c)
               \/ \E op \in Ops : Ask(c, op)
        PROVE  VerifiedHolds'
    BY <2>6, VerifiedHandler
  <2>7. CASE Rebooted \/ LinkLost \/ Elsewhere \/ Restart BY <2>7, VerifiedWorld
  <2> QED BY <2>1, <2>3, <2>4, <2>5, <2>6, <2>7 DEF Next
<1>3. ProvenIsGood /\ VerifiedHolds => VerifiedKnowsUs
  <2> SUFFICES ASSUME ProvenIsGood, VerifiedHolds, Settled, lost = 0, key # NoKey, verified
               PROVE  slots[active] = key
    BY DEF VerifiedKnowsUs
  <2>1. Held BY DEF VerifiedHolds, Answering, Settled, Starting
  <2>2. job.cmd = "none"
    <3>1. job.cmd # "none" => job.who \in Clients /\ client[job.who].at # "idle"
      BY JobIs DEF ProvenIsGood, InOrder, JobsFit, Awaits
    <3> QED BY <3>1 DEF Settled
  <2>3. phase # "confirm" BY <2>2 DEF ProvenIsGood, InOrder, JobsFit, Pairs
  <2> QED BY <2>1, <2>3 DEF Held, Confirmed
<1> QED BY <1>1, <1>2, <1>3, KnownSafe, PTL DEF Spec

=============================================================================
