-------------------------- MODULE GateWorkerProofs --------------------------
(***************************************************************************)
(* Theorems about GateWorker, for every set of clients, queue capacity and *)
(* failure limit.                                                          *)
(***************************************************************************)
EXTENDS GateWorker, SequenceTheorems, TLAPS

(* Lemmas about the sequences the worker handles *)

\* Disowning a command gives a command of the same kind that c does not own.
LEMMA DisownType ==
  ASSUME NEW cmd \in Cmds, NEW c
  PROVE  /\ Disown(cmd, c) \in Cmds
         /\ Disown(cmd, c).kind = cmd.kind
         /\ Disown(cmd, c).who = IF cmd.who = c THEN None ELSE cmd.who
BY DEF Disown, Cmds

\* NoCmd is nobody's, and no command.
LEMMA NoCmdType ==
  /\ NoCmd \notin Cmds /\ NoCmd.who = None
  /\ \A c \in Clients : Disown(NoCmd, c) = NoCmd
BY ConstantsAssumption DEF NoCmd, Cmds, AllKinds, Disown

\* Renaming the owner of some commands leaves a command queue of the same length.
LEMMA DisownSeq ==
  ASSUME NEW q \in Seq(Cmds), NEW c
  PROVE  LET d == [i \in 1..Len(q) |-> Disown(q[i], c)]
         IN  /\ d \in Seq(Cmds) /\ Len(d) = Len(q)
             /\ \A i \in 1..Len(q) : d[i] = Disown(q[i], c)
<1> DEFINE d == [i \in 1..Len(q) |-> Disown(q[i], c)]
<1>1. \A i \in 1..Len(q) : Disown(q[i], c) \in Cmds
  <2> TAKE i \in 1..Len(q)
  <2>1. q[i] \in Cmds
    BY ElementOfSeq
  <2> QED BY <2>1, DisownType
<1>2. Len(q) \in Nat
  BY LenProperties
<1>3. d \in [1..Len(q) -> Cmds]
  BY <1>1
<1>4. d \in Seq(Cmds)
  BY <1>2, <1>3, SeqDef
<1>5. Len(d) = Len(q)
  BY <1>2, <1>4, LenProperties
<1> QED BY <1>4, <1>5

\* Ageing the notifications in flight keeps their number and their codes.
LEMMA AgedSeq ==
  ASSUME NEW f \in Seq(Frames)
  PROVE  Aged(f) \in Seq(Frames)
<1> DEFINE d == [i \in 1..Len(f) |-> [f[i] EXCEPT !.fresh = FALSE]]
<1>1. \A i \in 1..Len(f) : [f[i] EXCEPT !.fresh = FALSE] \in Frames
  <2> TAKE i \in 1..Len(f)
  <2>1. f[i] \in Frames
    BY ElementOfSeq
  <2> QED BY <2>1 DEF Frames
<1>2. Len(f) \in Nat
  BY LenProperties
<1>3. d \in [1..Len(f) -> Frames]
  BY <1>1
<1>4. d \in Seq(Frames)
  BY <1>2, <1>3, SeqDef
<1> QED BY <1>4 DEF Aged

\* Sending a frame keeps the sequence of notifications well-typed.
LEMMA SentSeq ==
  ASSUME NEW f \in Seq(Frames), NEW c \in Codes
  PROVE  Sent(f, c) \in Seq(Frames)
BY DEF Sent, Frames
-----------------------------------------------------------------------------
(* The device's step keeps its types, whatever the command. *)
LEMMA DeviceTakesType ==
  ASSUME TypeOK, NEW k, DeviceTakes(k)
  PROVE  /\ armed' \in BOOLEAN
         /\ tries' \in 0..MaxFailures
         /\ air' \in Seq(Frames)
<1>1. Aged(air) \in Seq(Frames)
  BY AgedSeq DEF TypeOK
<1>2. /\ \A c \in Codes : Sent(Aged(air), c) \in Seq(Frames)
      /\ \A c, e \in Codes : Sent(Sent(Aged(air), e), c) \in Seq(Frames)
  BY <1>1, SentSeq
<1>3. air' \in Seq(Frames)
  BY <1>1, <1>2 DEF DeviceTakes, Codes
<1>4. armed' \in BOOLEAN
  BY DEF DeviceTakes, TypeOK, Touch
<1>5. 0 \in 0..MaxFailures
  BY ConstantsAssumption
<1>6. tries' \in 0..MaxFailures
  BY <1>5 DEF DeviceTakes, TypeOK
<1> QED BY <1>3, <1>4, <1>6

(* Answering a command keeps every oneshot well-typed. *)
LEMMA AnswerType ==
  ASSUME TypeOK, NEW cmd \in Cmds \cup {NoCmd}, NEW r \in {"ok", "err"},
         Answer(cmd, r)
  PROVE  reply' \in [Clients -> {None, "ok", "err"}]
BY DEF TypeOK, Answer, Cmds, NoCmd

\* Only the initial value of kind is left open.
LEMMA TypeInit == Init => TypeOK
<1> SUFFICES ASSUME Init PROVE TypeOK
  OBVIOUS
<1>1. cur \in Cmds \cup {NoCmd}
  BY DEF Init
<1>2. kind \in [Clients -> AllKinds]
  BY DEF Init, AllKinds
<1>3. /\ queue \in Seq(Cmds) /\ Len(queue) <= QueueCap
      /\ air \in Seq(Frames)
  BY EmptySeq, ConstantsAssumption DEF Init
<1>4. failures \in 0..MaxFailures /\ tries \in 0..MaxFailures
  BY ConstantsAssumption DEF Init
<1> QED BY <1>1, <1>2, <1>3, <1>4 DEF Init, TypeOK, Phases

(* Every step of a handler keeps the types. *)
LEMMA TypeHandler ==
  ASSUME TypeOK, WaitsMatchPhase, NEW c \in Clients, Handler(c)
  PROVE  TypeOK'
<1> USE DEF TypeOK, clientVars, workerVars, cancelVars, deviceVars
<1>1. ASSUME NEW k \in Kinds, Request(c, k)
      PROVE  TypeOK'
  <2>1. k \in AllKinds
    BY ConstantsAssumption
  <2> QED BY <1>1, <2>1 DEF Request
<1>2. ASSUME CancelActiveGate(c)
      PROVE  TypeOK'
  BY <1>2 DEF CancelActiveGate
<1>3. ASSUME Enqueue(c)
      PROVE  TypeOK'
  <2>1. [kind |-> kind[c], who |-> c] \in Cmds
    BY DEF Cmds
  <2>2. queue' \in Seq(Cmds) /\ Len(queue') = Len(queue) + 1
    BY <1>3, <2>1 DEF Enqueue
  <2>3. Len(queue') <= QueueCap
    BY <1>3, <2>2, ConstantsAssumption, LenProperties DEF Enqueue, HasRoom
  <2> QED BY <1>3, <2>2, <2>3 DEF Enqueue
<1>4. ASSUME TakeReply(c)
      PROVE  TypeOK'
  BY <1>4 DEF TakeReply, AllKinds
<1>5. ASSUME Abandon(c), gatePermit' \in BOOLEAN, authPermit' \in BOOLEAN
      PROVE  TypeOK'
  <2>1. queue' \in Seq(Cmds) /\ Len(queue') = Len(queue)
    BY <1>5, DisownSeq DEF Abandon
  <2>2. cur' \in Cmds \cup {NoCmd}
    BY <1>5, DisownType, NoCmdType DEF Abandon
  <2>3. /\ st' \in [Clients -> {"idle", "sending", "waiting"}]
        /\ kind' \in [Clients -> AllKinds]
        /\ reply' \in [Clients -> {None, "ok", "err"}]
    BY <1>5 DEF Abandon, AllKinds
  <2> QED BY <1>5, <2>1, <2>2, <2>3 DEF Abandon
<1>6. CASE HangUp(c)
  BY <1>5, <1>6 DEF HangUp
<1>7. CASE AuthCancel(c)
  BY <1>5, <1>7 DEF AuthCancel
<1>8. CASE SignDeadline(c)
  BY <1>5, <1>8 DEF SignDeadline
<1>9. CASE MatchApproves(c)
  BY <1>5, <1>9 DEF MatchApproves
<1> QED
  BY <1>1, <1>2, <1>3, <1>4, <1>6, <1>7, <1>8, <1>9 DEF Handler

(* Every step of the worker keeps the types: taking commands and their *)
(* answers. *)
LEMMA TypeServe ==
  ASSUME TypeOK, WaitsMatchPhase,
         \/ TakeCommand \/ TakeCommandFails \/ AnswerArrived \/ AnswerTimeout
         \/ VerdictArrived \/ WaitTimeout \/ GateCancelled \/ AuthCancelled
         \/ CancelWritten
  PROVE  TypeOK'
<1> USE DEF TypeOK, clientVars, workerVars, cancelVars, deviceVars, Phases
<1>1. queue # <<>> => /\ Head(queue) \in Cmds /\ Tail(queue) \in Seq(Cmds)
                      /\ Len(Tail(queue)) <= QueueCap
  BY HeadTailProperties, LenProperties, ConstantsAssumption
<1>2. \A r \in {"ok", "err"} :
        Finish(r) => /\ reply' \in [Clients -> {None, "ok", "err"}]
                     /\ cur' \in Cmds \cup {NoCmd}
                     /\ phase' \in Phases
  BY AnswerType DEF Finish
<1>3. 0 \in 0..MaxFailures
  BY ConstantsAssumption
<1>4. CASE TakeCommand
  <2>1. armed' \in BOOLEAN /\ tries' \in 0..MaxFailures /\ air' \in Seq(Frames)
    BY <1>4, DeviceTakesType DEF TakeCommand
  <2> QED BY <1>1, <1>4, <2>1 DEF TakeCommand
<1>5. CASE TakeCommandFails
  <2>1. reply' \in [Clients -> {None, "ok", "err"}]
    BY <1>1, <1>5, AnswerType DEF TakeCommandFails
  <2> QED BY <1>1, <1>5, <2>1 DEF TakeCommandFails
<1>6. CASE AnswerArrived
  BY <1>2, <1>3, <1>6 DEF AnswerArrived
<1>7. CASE AnswerTimeout
  BY <1>2, <1>7 DEF AnswerTimeout, ForgetResponse
<1>8. CASE VerdictArrived
  BY <1>2, <1>8 DEF VerdictArrived
<1>9. CASE WaitTimeout
  BY <1>2, <1>9 DEF WaitTimeout
<1>10. CASE GateCancelled
  BY <1>10 DEF GateCancelled
<1>11. CASE AuthCancelled
  BY <1>11 DEF AuthCancelled
<1>12. CASE CancelWritten
  <2>1. Append(air, [code |-> "ok", fresh |-> ~Marks]) \in Seq(Frames)
    <3>1. [code |-> "ok", fresh |-> ~Marks] \in Frames
      BY DEF Frames, Codes
    <3> QED BY <3>1
  <2>2. armed' \in BOOLEAN /\ tries' \in 0..MaxFailures /\ air' \in Seq(Frames)
    BY <1>3, <1>12, <2>1 DEF CancelWritten, CancelReaches
  <2> QED BY <1>2, <1>12, <2>2 DEF CancelWritten
<1> QED
  BY <1>4, <1>5, <1>6, <1>7, <1>8, <1>9, <1>10, <1>11, <1>12

(* ... and so does routing a notification: the mismatch counter stays within *)
(* its limit because a wait that has spent it is over. *)
LEMMA TypeRoute ==
  ASSUME TypeOK, WaitsMatchPhase, FailureBudget,
         RouteMismatch \/ RouteOk \/ RouteError \/ RouteApproved \/ RouteResponse
  PROVE  TypeOK'
<1> USE DEF TypeOK, clientVars, workerVars, cancelVars, deviceVars
<1>1. air' \in Seq(Frames)
  BY HeadTailProperties
     DEF RouteMismatch, RouteOk, RouteError, RouteApproved, RouteResponse, Routing
<1>2. ASSUME NEW v \in {"ok", "fail"}, Resolve(v)
      PROVE  /\ verdict' \in {None, "ok", "fail"} /\ mixed' \in BOOLEAN
             /\ gatePending' \in BOOLEAN /\ authPending' \in BOOLEAN
  BY <1>2 DEF Resolve
<1>3. CASE RouteMismatch
  <2>1. failures' \in 0..MaxFailures
    BY <1>3, ConstantsAssumption DEF RouteMismatch, FailureBudget
  <2> QED BY <1>1, <1>2, <1>3, <2>1 DEF RouteMismatch
<1>4. CASE RouteOk
  BY <1>1, <1>2, <1>4 DEF RouteOk
<1>5. CASE RouteError
  BY <1>1, <1>2, <1>5 DEF RouteError
<1>6. CASE RouteApproved
  BY <1>1, <1>6 DEF RouteApproved
<1>7. CASE RouteResponse
  <2>1. rsp' \in {"off", "armed"} \cup Codes
    BY <1>7 DEF RouteResponse
  <2>2. mixed' \in BOOLEAN
    BY <1>7 DEF RouteResponse
  <2> QED BY <1>1, <1>7, <2>1, <2>2 DEF RouteResponse
<1> QED BY <1>3, <1>4, <1>5, <1>6, <1>7

(* ... and the device, the link and the sessions. *)
LEMMA TypeSession ==
  ASSUME TypeOK, Device \/ LinkLost \/ Connect \/ SessionEnds
  PROVE  TypeOK'
<1> USE DEF TypeOK, clientVars, workerVars, cancelVars, deviceVars
<1>1. 0 \in 0..MaxFailures
  BY ConstantsAssumption
<1>2. /\ \A c \in Codes : Sent(air, c) \in Seq(Frames)
      /\ \A c, e \in Codes : Sent(Sent(air, e), c) \in Seq(Frames)
  BY SentSeq
<1>3. CASE TouchMatch
  <2>1. air' \in Seq(Frames)
    BY <1>2, <1>3 DEF TouchMatch, Codes
  <2> QED BY <1>1, <1>3, <2>1 DEF TouchMatch
<1>4. CASE TouchMiss
  <2>1. air' \in Seq(Frames)
    BY <1>2, <1>4 DEF TouchMiss, Codes
  <2>2. armed' \in BOOLEAN
    BY <1>4 DEF TouchMiss
  <2>3. tries' \in 0..MaxFailures
    <3>1. CASE tries + 1 < MaxFailures
      BY <1>4, <3>1, ConstantsAssumption DEF TouchMiss
    <3>2. CASE ~(tries + 1 < MaxFailures)
      BY <1>1, <1>4, <3>2 DEF TouchMiss
    <3> QED BY <3>1, <3>2
  <2> QED BY <1>4, <2>1, <2>2, <2>3 DEF TouchMiss
<1>5. CASE DeviceTimeout
  <2>1. air' \in Seq(Frames)
    BY <1>2, <1>5 DEF DeviceTimeout, Codes
  <2> QED BY <1>1, <1>5, <2>1 DEF DeviceTimeout
<1>6. CASE LinkLost
  BY <1>1, <1>6 DEF LinkLost
<1>7. <<>> \in Seq(Frames)
  BY EmptySeq
<1>8. CASE Connect
  BY <1>1, <1>7, <1>8 DEF Connect, Phases
<1>9. CASE SessionEnds
  BY <1>7, <1>9 DEF SessionEnds, Phases
<1> QED BY <1>3, <1>4, <1>5, <1>6, <1>8, <1>9 DEF Device
-----------------------------------------------------------------------------
(* The wait slots match the worker's position *)

\* A handler touches none of the worker's slots; disowning the command in hand
\* changes its owner only.
LEMMA WaitsHandler ==
  ASSUME TypeOK, WaitsMatchPhase, NEW c \in Clients, Handler(c)
  PROVE  WaitsMatchPhase'
<1>1. /\ UNCHANGED <<phase, rsp, gatePending, authPending, verdict, gateActive>>
      /\ cur' = cur \/ cur' = Disown(cur, c)
  BY DEF Handler, Request, CancelActiveGate, Enqueue, TakeReply, HangUp, AuthCancel,
         SignDeadline, MatchApproves, Abandon, workerVars, cancelVars
<1>2. /\ cur'.kind = cur.kind
      /\ cur' = NoCmd <=> cur = NoCmd
  BY <1>1, DisownType, NoCmdType DEF TypeOK
<1> QED BY <1>1, <1>2 DEF WaitsMatchPhase

\* Every exit of a wait clears the slot it waited on.
LEMMA WaitsServe ==
  ASSUME TypeOK, WaitsMatchPhase,
         \/ TakeCommand \/ TakeCommandFails \/ AnswerArrived \/ AnswerTimeout
         \/ VerdictArrived \/ WaitTimeout \/ GateCancelled \/ AuthCancelled
         \/ CancelWritten
  PROVE  WaitsMatchPhase'
<1> USE DEF WaitsMatchPhase, workerVars, cancelVars
<1>1. CASE TakeCommand
  <2>1. cur' \in Cmds /\ cur' # NoCmd
    BY <1>1, HeadTailProperties, NoCmdType DEF TakeCommand, TypeOK
  <2> QED BY <1>1, <2>1 DEF TakeCommand
<1>2. CASE TakeCommandFails
  BY <1>2 DEF TakeCommandFails
<1>3. CASE AnswerArrived
  BY <1>3 DEF AnswerArrived, Finish, Gated, Codes
<1>4. CASE AnswerTimeout
  BY <1>4 DEF AnswerTimeout, AnswerDeadline, ForgetResponse, Finish
<1>5. CASE VerdictArrived
  BY <1>5 DEF VerdictArrived, Finish
<1>6. CASE WaitTimeout
  BY <1>6 DEF WaitTimeout, Finish
<1>7. CASE GateCancelled
  BY <1>7 DEF GateCancelled, Touch
<1>8. CASE AuthCancelled
  BY <1>8 DEF AuthCancelled, Touch, Gated
<1>9. CASE CancelWritten
  BY <1>9 DEF CancelWritten, Finish
<1> QED BY <1>1, <1>2, <1>3, <1>4, <1>5, <1>6, <1>7, <1>8, <1>9

\* A routed notification fills the slot of the wait the worker is in, or none.
LEMMA WaitsRoute ==
  ASSUME TypeOK, WaitsMatchPhase,
         RouteMismatch \/ RouteOk \/ RouteError \/ RouteApproved \/ RouteResponse
  PROVE  WaitsMatchPhase'
<1> USE DEF WaitsMatchPhase, workerVars, cancelVars
<1>1. ASSUME NEW v \in {"ok", "fail"}, gatePending \/ authPending, Resolve(v),
             UNCHANGED <<cur, phase, rsp, cancelVars>>
      PROVE  WaitsMatchPhase'
  BY <1>1, ConstantsAssumption DEF Resolve, TypeOK
<1>2. CASE RouteMismatch
  BY <1>1, <1>2 DEF RouteMismatch
<1>3. CASE RouteOk
  BY <1>1, <1>3 DEF RouteOk
<1>4. CASE RouteError
  BY <1>1, <1>4 DEF RouteError
<1>5. CASE RouteApproved
  BY <1>5 DEF RouteApproved
<1>6. CASE RouteResponse
  BY <1>6 DEF RouteResponse
<1> QED BY <1>2, <1>3, <1>4, <1>5, <1>6

LEMMA WaitsSession ==
  ASSUME TypeOK, WaitsMatchPhase, Device \/ LinkLost \/ Connect \/ SessionEnds
  PROVE  WaitsMatchPhase'
<1> USE DEF WaitsMatchPhase, workerVars, cancelVars
<1>1. CASE Device \/ LinkLost
  BY <1>1 DEF Device, TouchMatch, TouchMiss, DeviceTimeout, LinkLost
<1>2. CASE Connect
  BY <1>2, ConstantsAssumption DEF Connect
<1>3. CASE SessionEnds
  BY <1>3, ConstantsAssumption DEF SessionEnds
<1> QED BY <1>1, <1>2, <1>3
-----------------------------------------------------------------------------
(* An open wait has mismatches left *)

\* Only a mismatch spends the budget, and the one that exhausts it closes the
\* wait; opening a wait resets it.
LEMMA BudgetStep ==
  ASSUME TypeOK, WaitsMatchPhase, FailureBudget, Next
  PROVE  FailureBudget'
<1> USE DEF FailureBudget, workerVars, cancelVars
<1>1. ASSUME NEW c \in Clients, Handler(c)
      PROVE  UNCHANGED <<gatePending, authPending, failures>>
  BY <1>1 DEF Handler, Request, CancelActiveGate, Enqueue, TakeReply, HangUp,
         AuthCancel, SignDeadline, MatchApproves, Abandon
<1>2. CASE TakeCommand \/ TakeCommandFails \/ AnswerTimeout \/ SessionEnds \/ CancelWritten
  BY <1>2 DEF TakeCommand, TakeCommandFails, AnswerTimeout, SessionEnds, CancelWritten
<1>3. CASE VerdictArrived \/ WaitTimeout \/ GateCancelled \/ AuthCancelled
  BY <1>3 DEF VerdictArrived, WaitTimeout, GateCancelled, AuthCancelled
<1>4. CASE AnswerArrived
  BY <1>4, ConstantsAssumption DEF AnswerArrived
<1>5. CASE RouteMismatch
  <2>1. CASE LastFailure
    <3>1. ~gatePending' /\ ~authPending'
      BY <1>5, <2>1 DEF RouteMismatch, Resolve, WaitsMatchPhase
    <3> QED BY <3>1
  <2>2. CASE ~LastFailure
    BY <1>5, <2>2, ConstantsAssumption DEF RouteMismatch, LastFailure, TypeOK
  <2> QED BY <2>1, <2>2
<1>6. CASE RouteOk \/ RouteError \/ RouteApproved \/ RouteResponse
  BY <1>6 DEF RouteOk, RouteError, RouteApproved, RouteResponse, Resolve
<1>7. CASE Device \/ LinkLost
  BY <1>7 DEF Device, TouchMatch, TouchMiss, DeviceTimeout, LinkLost
<1>8. CASE Connect
  BY <1>8 DEF Connect
<1> QED
  BY <1>1, <1>2, <1>3, <1>4, <1>5, <1>6, <1>7, <1>8 DEF Next, Worker
-----------------------------------------------------------------------------
(* Where a handler's command is *)

OwnedIn(q, c) == {i \in 1..Len(q) : q[i].who = c}

\* What a handler owns, as a function of the state it reads.
Accounted(waiting, rep, cmd, q, c) ==
  IF waiting
  THEN \/ rep # None /\ cmd.who # c /\ OwnedIn(q, c) = {}
       \/ rep = None /\ cmd.who = c /\ OwnedIn(q, c) = {}
       \/ rep = None /\ cmd.who # c /\ \E i \in OwnedIn(q, c) : OwnedIn(q, c) = {i}
  ELSE rep = None /\ cmd.who # c /\ OwnedIn(q, c) = {}

LEMMA OneReplyMeans ==
  OneReply <=> \A c \in Clients : Accounted(st[c] = "waiting", reply[c], cur, queue, c)
BY DEF OneReply, Accounted, Queued, OwnedIn

\* Appending a command adds its position to its owner's and to nobody else's.
LEMMA AppendOwned ==
  ASSUME NEW q \in Seq(Cmds), NEW e \in Cmds, NEW c
  PROVE  OwnedIn(Append(q, e), c) =
           IF e.who = c THEN OwnedIn(q, c) \cup {Len(q) + 1} ELSE OwnedIn(q, c)
<1>1. /\ Append(q, e) \in Seq(Cmds) /\ Len(q) \in Nat
      /\ Len(Append(q, e)) = Len(q) + 1
      /\ \A i \in 1..Len(q) : Append(q, e)[i] = q[i]
      /\ Append(q, e)[Len(q) + 1] = e
  BY LenProperties
<1>2. 1..(Len(q) + 1) = 1..Len(q) \cup {Len(q) + 1}
  BY <1>1
<1> QED BY <1>1, <1>2 DEF OwnedIn

\* Taking the head moves the rest one place forward.
LEMMA TailOwned ==
  ASSUME NEW q \in Seq(Cmds), q # <<>>, NEW c
  PROVE  /\ OwnedIn(q, c) = {} => Head(q).who # c /\ OwnedIn(Tail(q), c) = {}
         /\ \A i : OwnedIn(q, c) = {i} =>
              \/ Head(q).who = c /\ OwnedIn(Tail(q), c) = {}
              \/ Head(q).who # c /\ OwnedIn(Tail(q), c) = {i - 1}
<1>1. /\ Len(q) \in Nat \ {0} /\ Head(q) = q[1]
      /\ Tail(q) \in Seq(Cmds) /\ Len(Tail(q)) = Len(q) - 1
      /\ \A j \in 1..(Len(q) - 1) : Tail(q)[j] = q[j + 1]
  BY HeadTailProperties, EmptySeq
<1>2. OwnedIn(Tail(q), c) = {j \in 1..(Len(q) - 1) : q[j + 1].who = c}
  BY <1>1 DEF OwnedIn
<1>3. ASSUME OwnedIn(q, c) = {}
      PROVE  Head(q).who # c /\ OwnedIn(Tail(q), c) = {}
  BY <1>1, <1>2, <1>3 DEF OwnedIn
<1>4. ASSUME NEW i, OwnedIn(q, c) = {i}
      PROVE  \/ Head(q).who = c /\ OwnedIn(Tail(q), c) = {}
             \/ Head(q).who # c /\ OwnedIn(Tail(q), c) = {i - 1}
  <2>1. i \in 1..Len(q) /\ q[i].who = c
    BY <1>4 DEF OwnedIn
  <2>2. \A j \in 1..Len(q) : q[j].who = c => j = i
    BY <1>4 DEF OwnedIn
  <2>3. CASE i = 1
    BY <1>1, <1>2, <2>1, <2>2, <2>3
  <2>4. CASE i # 1
    <3>1. i - 1 \in 1..(Len(q) - 1) /\ (i - 1) + 1 = i
      BY <1>1, <2>1, <2>4
    <3>2. \A j \in 1..(Len(q) - 1) : q[j + 1].who = c => j = i - 1
      BY <1>1, <2>1, <2>2
    <3> QED BY <1>1, <1>2, <2>1, <2>2, <2>4, <3>1, <3>2
  <2> QED BY <2>3, <2>4
<1> QED BY <1>3, <1>4

\* Disowning leaves the client nothing and every other client what it had.
LEMMA DisownOwned ==
  ASSUME NEW q \in Seq(Cmds), NEW c \in Clients, NEW d \in Clients
  PROVE  OwnedIn([i \in 1..Len(q) |-> Disown(q[i], c)], d) =
           IF d = c THEN {} ELSE OwnedIn(q, d)
<1> DEFINE m == [i \in 1..Len(q) |-> Disown(q[i], c)]
<1>1. Len(m) = Len(q) /\ \A i \in 1..Len(q) : m[i] = Disown(q[i], c)
  BY DisownSeq
<1>2. \A i \in 1..Len(q) :
        Disown(q[i], c).who = IF q[i].who = c THEN None ELSE q[i].who
  BY ElementOfSeq, DisownType
<1>3. None # d
  BY ConstantsAssumption
<1>4. \A i \in 1..Len(q) : m[i].who = d <=> d # c /\ q[i].who = d
  BY <1>1, <1>2, <1>3
<1> HIDE DEF m
<1>5. OwnedIn(m, d) = {i \in 1..Len(q) : d # c /\ q[i].who = d}
  BY <1>1, <1>4 DEF OwnedIn
<1>6. OwnedIn(m, d) = IF d = c THEN {} ELSE OwnedIn(q, d)
  BY <1>5 DEF OwnedIn
<1> QED BY <1>6 DEF m

\* A handler's own steps: it takes on a command, hands it over, collects the
\* reply or lets go; nobody else's account changes.
LEMMA ReplyHandler ==
  ASSUME TypeOK, OneReply, NEW c \in Clients, Handler(c)
  PROVE  OneReply'
<1> DEFINE A(d) == Accounted(st[d] = "waiting", reply[d], cur, queue, d)
<1> SUFFICES ASSUME NEW d \in Clients PROVE A(d)'
  BY DEF OneReply, Accounted, Queued, OwnedIn
<1>1. A(d) /\ A(c)
  BY OneReplyMeans
<1> USE DEF TypeOK, Accounted
<1>2. ASSUME NEW k \in Kinds, Request(c, k)
      PROVE  A(d)'
  BY <1>1, <1>2 DEF Request, workerVars
<1>3. CASE CancelActiveGate(c)
  BY <1>1, <1>3 DEF CancelActiveGate, clientVars, workerVars
<1>4. CASE Enqueue(c)
  <2>1. [kind |-> kind[c], who |-> c] \in Cmds
    BY DEF Cmds
  <2>2. OwnedIn(queue', d) =
          IF d = c THEN OwnedIn(queue, d) \cup {Len(queue) + 1} ELSE OwnedIn(queue, d)
    BY <1>4, <2>1, AppendOwned DEF Enqueue
  <2> QED BY <1>1, <1>4, <2>2 DEF Enqueue, workerVars
<1>5. CASE TakeReply(c)
  BY <1>1, <1>5 DEF TakeReply, workerVars
<1>6. ASSUME Abandon(c)
      PROVE  A(d)'
  <2>1. OwnedIn(queue', d) = IF d = c THEN {} ELSE OwnedIn(queue, d)
    BY <1>6, DisownOwned DEF Abandon
  <2>2. cur'.who = IF cur.who = c THEN None ELSE cur.who
    BY <1>6, DisownType, NoCmdType DEF Abandon
  <2>3. d # None /\ st'[c] = "idle" /\ reply'[c] = None
    BY <1>6, ConstantsAssumption DEF Abandon
  <2> QED BY <1>1, <1>6, <2>1, <2>2, <2>3 DEF Abandon
<1> QED
  BY <1>2, <1>3, <1>4, <1>5, <1>6 DEF Handler, HangUp, AuthCancel, SignDeadline, MatchApproves

\* The worker answers the command in hand and drops it in one step, and answers
\* or picks up the head of the queue as it removes it.
LEMMA ReplyServe ==
  ASSUME TypeOK, OneReply, WaitsMatchPhase,
         \/ TakeCommand \/ TakeCommandFails \/ AnswerArrived \/ AnswerTimeout
         \/ VerdictArrived \/ WaitTimeout \/ GateCancelled \/ AuthCancelled
         \/ CancelWritten
  PROVE  OneReply'
<1> DEFINE A(d) == Accounted(st[d] = "waiting", reply[d], cur, queue, d)
<1> SUFFICES ASSUME NEW d \in Clients PROVE A(d)'
  BY DEF OneReply, Accounted, Queued, OwnedIn
<1>1. A(d)
  BY OneReplyMeans
<1>2. None \notin Clients \cup {"ok", "err"}
  BY ConstantsAssumption
<1> USE DEF TypeOK, Accounted, clientVars
<1>3. ASSUME NEW r \in {"ok", "err"}, Finish(r), UNCHANGED <<st, queue>>
      PROVE  A(d)'
  BY <1>1, <1>2, <1>3, NoCmdType DEF Finish, Answer
<1>4. CASE TakeCommand
  <2>1. /\ OwnedIn(queue, d) = {} => Head(queue).who # d /\ OwnedIn(queue', d) = {}
        /\ \A i : OwnedIn(queue, d) = {i} =>
             \/ Head(queue).who = d /\ OwnedIn(queue', d) = {}
             \/ Head(queue).who # d /\ OwnedIn(queue', d) = {i - 1}
    BY <1>4, TailOwned DEF TakeCommand
  <2>2. cur.who # d
    BY <1>2, <1>4, NoCmdType DEF TakeCommand, WaitsMatchPhase
  <2> QED BY <1>1, <1>4, <2>1, <2>2 DEF TakeCommand
<1>5. CASE TakeCommandFails
  <2>1. /\ OwnedIn(queue, d) = {} => Head(queue).who # d /\ OwnedIn(queue', d) = {}
        /\ \A i : OwnedIn(queue, d) = {i} =>
             \/ Head(queue).who = d /\ OwnedIn(queue', d) = {}
             \/ Head(queue).who # d /\ OwnedIn(queue', d) = {i - 1}
    BY <1>5, TailOwned DEF TakeCommandFails
  <2>2. reply'[d] = IF Head(queue).who = d THEN "err" ELSE reply[d]
    BY <1>2, <1>5 DEF TakeCommandFails, Answer
  <2> QED BY <1>1, <1>2, <1>5, <2>1, <2>2 DEF TakeCommandFails, workerVars
<1>6. CASE AnswerArrived
  BY <1>1, <1>3, <1>6 DEF AnswerArrived
<1>7. CASE AnswerTimeout \/ WaitTimeout \/ CancelWritten
  BY <1>3, <1>7 DEF AnswerTimeout, WaitTimeout, CancelWritten
<1>8. CASE VerdictArrived
  BY <1>3, <1>8 DEF VerdictArrived
<1>9. CASE GateCancelled \/ AuthCancelled
  BY <1>1, <1>9 DEF GateCancelled, AuthCancelled
<1> QED BY <1>4, <1>5, <1>6, <1>7, <1>8, <1>9

\* Nothing else touches a handler's account.
LEMMA ReplyUntouched ==
  ASSUME OneReply, UNCHANGED <<st, reply, queue, cur>>
  PROVE  OneReply'
BY DEF OneReply, Queued
-----------------------------------------------------------------------------
(* The inductive invariant.  Types need FailureBudget (the mismatch counter is *)
(* bounded because a spent wait is closed) and WaitsMatchPhase (a wait is open *)
(* in one place only); OneReply needs WaitsMatchPhase (an idle worker holds no *)
(* command).                                                                   *)
IInv == TypeOK /\ WaitsMatchPhase /\ FailureBudget /\ OneReply

LEMMA IInvInit == Init => IInv
<1> SUFFICES ASSUME Init PROVE IInv
  OBVIOUS
<1>1. TypeOK
  BY TypeInit
<1>2. WaitsMatchPhase
  BY DEF Init, WaitsMatchPhase
<1>3. FailureBudget
  BY DEF Init, FailureBudget
<1>4. OneReply
  <2>1. \A c \in Clients : Queued(c) = {}
    <3>1. 1..Len(queue) = {}
      BY DEF Init
    <3> QED BY <3>1 DEF Queued
  <2>2. \A c \in Clients : cur.who # c /\ st[c] = "idle" /\ reply[c] = None
    BY ConstantsAssumption, NoCmdType DEF Init
  <2> QED BY <2>1, <2>2 DEF OneReply
<1> QED BY <1>1, <1>2, <1>3, <1>4 DEF IInv

LEMMA IInvNext == IInv /\ [Next]_vars => IInv'
<1> SUFFICES ASSUME IInv, [Next]_vars PROVE IInv'
  OBVIOUS
<1> USE DEF IInv
<1>1. ASSUME NEW c \in Clients, Handler(c)
      PROVE  TypeOK' /\ WaitsMatchPhase' /\ OneReply'
  BY <1>1, TypeHandler, WaitsHandler, ReplyHandler
<1>2. ASSUME \/ TakeCommand \/ TakeCommandFails \/ AnswerArrived \/ AnswerTimeout
             \/ VerdictArrived \/ WaitTimeout \/ GateCancelled \/ AuthCancelled
             \/ CancelWritten
      PROVE  TypeOK' /\ WaitsMatchPhase' /\ OneReply'
  BY <1>2, TypeServe, WaitsServe, ReplyServe
<1>3. ASSUME RouteMismatch \/ RouteOk \/ RouteError \/ RouteApproved \/ RouteResponse
      PROVE  TypeOK' /\ WaitsMatchPhase' /\ OneReply'
  <2>1. UNCHANGED <<st, reply, queue, cur>>
    BY <1>3 DEF RouteMismatch, RouteOk, RouteError, RouteApproved, RouteResponse,
                clientVars, workerVars
  <2> QED BY <1>3, <2>1, TypeRoute, WaitsRoute, ReplyUntouched
<1>4. ASSUME Device \/ LinkLost \/ Connect \/ SessionEnds
      PROVE  TypeOK' /\ WaitsMatchPhase' /\ OneReply'
  <2>1. UNCHANGED <<st, reply, queue, cur>>
    BY <1>4 DEF Device, TouchMatch, TouchMiss, DeviceTimeout, LinkLost, Connect,
                SessionEnds, clientVars, workerVars
  <2> QED BY <1>4, <2>1, TypeSession, WaitsSession, ReplyUntouched
<1>5. CASE Next
  BY <1>1, <1>2, <1>3, <1>4, <1>5, BudgetStep DEF Next, Worker
<1>6. CASE UNCHANGED vars
  BY <1>6 DEF vars, clientVars, workerVars, cancelVars, deviceVars, TypeOK,
              WaitsMatchPhase, FailureBudget, OneReply, Queued
<1> QED BY <1>5, <1>6

LEMMA IInvInvariant == Spec => []IInv
BY IInvInit, IInvNext, PTL DEF Spec

\* Types hold throughout: in particular the queue respects its capacity, and the
\* mismatch counter never passes FP_GATE_MAX_FAILURES.
THEOREM TypeCorrect == Spec => []TypeOK
BY IInvInvariant, PTL DEF IInv

\* Whatever the number of clients and the queue's capacity, no command is lost,
\* duplicated or answered twice, across hang-ups and reconnections.
THEOREM CommandsAnsweredOnce == Spec => []OneReply
BY IInvInvariant, PTL DEF IInv

\* A notification resolves only the wait the worker is in: the BleState slots and
\* gate_active follow the worker's position through every exit of every wait.
THEOREM SlotsFollowWorker == Spec => []WaitsMatchPhase
BY IInvInvariant, PTL DEF IInv

\* An open gate or AUTH wait always has a mismatch left to spend.
THEOREM OpenWaitHasBudget == Spec => []FailureBudget
BY IInvInvariant, PTL DEF IInv

-----------------------------------------------------------------------------
(* The device's gate does not outlive its command                          *)

\* Nothing but mismatches is in flight behind position i.
OnlyMisses(i) == \A j \in (i + 1)..Len(air) : air[j].code = "miss"

\* Everything in flight ahead of position i answers something earlier.
StaleBefore(i) == \A j \in 1..(i - 1) : ~air[j].fresh

\* A gate the device holds armed is the command in hand's, and the worker knows
\* no more of it than the device has said: the "wait" that announced it is still
\* in flight behind leftovers only, or has been taken, and each mismatch behind
\* it is counted by the device already.  A cancel being written is the one
\* position where the rest does not matter.
ArmedByHand ==
  armed /\ AnswersMatch =>
    \/ phase = "cancel"
    \/ /\ phase \in {"gate", "auth"} /\ verdict = None
       /\ OnlyMisses(0) /\ failures + Len(air) <= tries
    \/ /\ phase = "await" /\ cur.kind \in Touch /\ rsp = "wait"
       /\ OnlyMisses(0) /\ Len(air) <= tries
    \/ /\ phase = "await" /\ cur.kind \in Touch /\ rsp = "armed"
       /\ \E i \in 1..Len(air) :
            /\ air[i].code = "wait" /\ StaleBefore(i)
            /\ OnlyMisses(i) /\ Len(air) <= tries + i

\* An armed gate has a link and a mismatch left; a worker that is down has neither
\* link nor gate.
ArmedIsLive ==
  /\ armed => link /\ tries < MaxFailures
  /\ phase = "down" => ~link

\* Only the device arms its gate, and only for the command it has just been sent.
LEMMA LiveStep ==
  ASSUME IInv, ArmedIsLive, Next
  PROVE  ArmedIsLive'
<1> USE DEF ArmedIsLive, workerVars, cancelVars, deviceVars
<1>1. ASSUME NEW c \in Clients, Handler(c)
      PROVE  UNCHANGED <<armed, tries, link, phase>>
  BY <1>1 DEF Handler, Request, CancelActiveGate, Enqueue, TakeReply, HangUp,
         AuthCancel, SignDeadline, MatchApproves, Abandon
<1>2. CASE TakeCommand
  <2>1. armed' => tries' < MaxFailures
    <3>1. armed' => tries' = 0 \/ (armed /\ tries' = tries)
      <4>1. armed \in BOOLEAN /\ DeviceTakes(Head(queue).kind)
        BY <1>2 DEF TakeCommand, IInv, TypeOK
      <4>2. \/ armed' = (armed /\ Head(queue).kind = "plain")
               /\ tries' = IF armed' THEN tries ELSE 0
            \/ tries' = 0
            \/ UNCHANGED <<armed, tries>>
            \/ /\ armed' = (Head(queue).kind \in Touch \/ (armed /\ Head(queue).kind = "plain"))
               /\ tries' = IF Head(queue).kind = "plain" THEN tries ELSE 0
        BY <4>1, ZenonT(30) DEF DeviceTakes
      <4> QED BY <4>1, <4>2 DEF Touch, Gated
    <3> QED BY <3>1, ConstantsAssumption
  <2> QED BY <1>2, <2>1 DEF TakeCommand
<1>3. CASE TakeCommandFails \/ AnswerTimeout \/ AnswerArrived
  BY <1>3 DEF TakeCommandFails, AnswerTimeout, AnswerArrived, Finish
<1>4. CASE VerdictArrived \/ WaitTimeout \/ GateCancelled \/ AuthCancelled
  BY <1>4 DEF VerdictArrived, WaitTimeout, GateCancelled, AuthCancelled, Finish
<1>5. CASE CancelWritten
  BY <1>5 DEF CancelWritten, CancelReaches, Finish
<1>6. CASE RouteMismatch \/ RouteOk \/ RouteError \/ RouteApproved \/ RouteResponse
  BY <1>6 DEF RouteMismatch, RouteOk, RouteError, RouteApproved, RouteResponse
<1>7. CASE TouchMatch \/ DeviceTimeout \/ LinkLost
  BY <1>7 DEF TouchMatch, DeviceTimeout, LinkLost
<1>8. CASE TouchMiss
  BY <1>8 DEF TouchMiss
<1>9. CASE SessionEnds \/ Connect
  BY <1>9 DEF SessionEnds, Connect
<1> QED
  BY <1>1, <1>2, <1>3, <1>4, <1>5, <1>6, <1>7, <1>8, <1>9 DEF Next, Worker, Device

\* Sending behind the gate's own frames keeps them where they are.
LEMMA AppendFrames ==
  ASSUME NEW f \in Seq(Frames), NEW e \in Frames
  PROVE  /\ Append(f, e) \in Seq(Frames) /\ Len(f) \in Nat
         /\ Len(Append(f, e)) = Len(f) + 1
         /\ \A j \in 1..Len(f) : Append(f, e)[j] = f[j]
         /\ Append(f, e)[Len(f) + 1] = e
BY LenProperties

\* Routing a frame moves the rest one place forward.
LEMMA TailFrames ==
  ASSUME NEW f \in Seq(Frames), f # <<>>
  PROVE  /\ Len(f) \in Nat \ {0} /\ Head(f) = f[1]
         /\ Tail(f) \in Seq(Frames) /\ Len(Tail(f)) = Len(f) - 1
         /\ \A j \in 1..(Len(f) - 1) : Tail(f)[j] = f[j + 1]
BY HeadTailProperties, EmptySeq

\* With marks kept, ageing leaves no fresh frame behind.
LEMMA AgedIsStale ==
  ASSUME Marks, NEW f \in Seq(Frames)
  PROVE  Len(Aged(f)) = Len(f) /\ \A j \in 1..Len(f) : ~Aged(f)[j].fresh
<1> DEFINE d == [i \in 1..Len(f) |-> [f[i] EXCEPT !.fresh = FALSE]]
<1>1. \A i \in 1..Len(f) : f[i] \in Frames
  BY ElementOfSeq
<1>2. \A i \in 1..Len(f) : d[i] = [f[i] EXCEPT !.fresh = FALSE] /\ ~d[i].fresh
  BY <1>1 DEF Frames
<1>3. Aged(f) = d
  BY DEF Aged
<1>4. Aged(f) \in Seq(Frames) /\ Len(f) \in Nat
  BY AgedSeq, LenProperties
<1>5. DOMAIN d = 1..Len(f)
  OBVIOUS
<1>6. Len(d) = Len(f)
  <2> HIDE DEF d
  <2>1. d \in Seq(Frames)
    BY <1>3, <1>4
  <2> QED BY <1>4, <1>5, <2>1, LenProperties
<1> QED BY <1>2, <1>3, <1>6

\* A touch command reaches a disarmed device: what the device arms is announced by
\* the last frame in flight, behind leftovers only.
LEMMA HandTaken ==
  ASSUME IInv, Reliable, Marks, ArmedByHand, TakeCommand
  PROVE  ArmedByHand'
<1> SUFFICES ASSUME armed', ~mixed' PROVE ArmedByHand'
  BY DEF ArmedByHand, AnswersMatch
<1>1. phase = "idle" /\ phase' = "await" /\ rsp' = "armed" /\ ~mixed
  BY DEF TakeCommand
<1>2. ~armed
  BY <1>1 DEF ArmedByHand, AnswersMatch
<1> DEFINE k == Head(queue).kind
<1>3. k \in Touch /\ tries' = 0 /\ air' = Sent(Aged(air), "wait")
  BY <1>2 DEF TakeCommand, DeviceTakes
<1>4. cur'.kind \in Touch
  BY <1>3 DEF TakeCommand
<1>5. /\ Aged(air) \in Seq(Frames) /\ Len(Aged(air)) = Len(air)
      /\ \A j \in 1..Len(air) : ~Aged(air)[j].fresh
  BY AgedSeq, AgedIsStale DEF IInv, TypeOK
<1>6. [code |-> "wait", fresh |-> TRUE] \in Frames
  BY DEF Frames, Codes
<1>7. /\ Len(air) \in Nat /\ Len(air') = Len(air) + 1
      /\ air'[Len(air) + 1].code = "wait"
      /\ \A j \in 1..Len(air) : ~air'[j].fresh
  <2>1. air' = Append(Aged(air), [code |-> "wait", fresh |-> TRUE])
    BY <1>3 DEF Sent
  <2> QED BY <1>5, <1>6, <2>1, AppendFrames
<1>8. \E i \in 1..Len(air') :
        /\ air'[i].code = "wait" /\ StaleBefore(i)'
        /\ OnlyMisses(i)' /\ Len(air') <= tries' + i
  <2> PICK i : i = Len(air) + 1
    OBVIOUS
  <2>1. i \in 1..Len(air') /\ air'[i].code = "wait" /\ Len(air') <= tries' + i
    BY <1>3, <1>7
  <2>2. StaleBefore(i)' /\ OnlyMisses(i)'
    BY <1>7 DEF StaleBefore, OnlyMisses
  <2> QED BY <2>1, <2>2
<1> QED BY <1>1, <1>4, <1>8 DEF ArmedByHand

\* A mismatch the device counts joins the others behind the announcement.
LEMMA HandMissed ==
  ASSUME IInv, ArmedByHand, TouchMiss
  PROVE  ArmedByHand'
<1> SUFFICES ASSUME armed', ~mixed' PROVE ArmedByHand'
  BY DEF ArmedByHand, AnswersMatch
<1>1. /\ armed /\ ~mixed /\ tries' = tries + 1
      /\ air' = Append(air, [code |-> "miss", fresh |-> TRUE])
      /\ UNCHANGED <<phase, cur, rsp, verdict, failures>>
  BY DEF TouchMiss, workerVars, Sent
<1>2. [code |-> "miss", fresh |-> TRUE] \in Frames
  BY DEF Frames, Codes
<1>3. /\ Len(air) \in Nat /\ Len(air') = Len(air) + 1
      /\ \A j \in 1..Len(air) : air'[j] = air[j]
      /\ air'[Len(air) + 1].code = "miss"
  BY <1>1, <1>2, AppendFrames DEF IInv, TypeOK
<1>4. \A i \in 0..Len(air) : OnlyMisses(i) => OnlyMisses(i)'
  BY <1>3 DEF OnlyMisses
<1>5. \A i \in 1..Len(air) : StaleBefore(i) => StaleBefore(i)'
  BY <1>3 DEF StaleBefore
<1>6. tries \in Nat /\ failures \in Nat
  BY DEF IInv, TypeOK
<1>7. CASE phase = "cancel"
  BY <1>1, <1>7 DEF ArmedByHand
<1>8. CASE /\ phase \in {"gate", "auth"} /\ verdict = None
           /\ OnlyMisses(0) /\ failures + Len(air) <= tries
  BY <1>1, <1>3, <1>4, <1>6, <1>8 DEF ArmedByHand
<1>9. CASE /\ phase = "await" /\ cur.kind \in Touch /\ rsp = "wait"
           /\ OnlyMisses(0) /\ Len(air) <= tries
  BY <1>1, <1>3, <1>4, <1>6, <1>9 DEF ArmedByHand
<1>10. ASSUME phase = "await", cur.kind \in Touch, rsp = "armed",
              NEW i \in 1..Len(air), air[i].code = "wait", StaleBefore(i),
              OnlyMisses(i), Len(air) <= tries + i
       PROVE  ArmedByHand'
  <2>1. /\ i \in 1..Len(air') /\ air'[i].code = "wait" /\ StaleBefore(i)'
        /\ OnlyMisses(i)' /\ Len(air') <= tries' + i
    BY <1>1, <1>3, <1>4, <1>5, <1>6, <1>10
  <2> QED BY <1>1, <1>10, <2>1 DEF ArmedByHand
<1> QED BY <1>1, <1>7, <1>8, <1>9, <1>10 DEF ArmedByHand, AnswersMatch

\* Routing a frame of an armed gate: in a wait it is a mismatch that leaves some of
\* the budget; while the announcement is awaited it is that announcement, or a
\* leftover taken for it, which is no match.
LEMMA HandRouted ==
  ASSUME IInv, ArmedByHand, ArmedIsLive,
         RouteMismatch \/ RouteOk \/ RouteError \/ RouteApproved \/ RouteResponse
  PROVE  ArmedByHand'
<1> SUFFICES ASSUME armed', ~mixed' PROVE ArmedByHand'
  BY DEF ArmedByHand, AnswersMatch
<1> DEFINE Routed == RouteMismatch \/ RouteOk \/ RouteError \/ RouteApproved \/ RouteResponse
<1>1. /\ UNCHANGED <<armed, tries, cur, phase>>
      /\ air # <<>> /\ air' = Tail(air) /\ phase # "cancel"
  BY DEF RouteMismatch, RouteOk, RouteError, RouteApproved, RouteResponse, Routing,
         deviceVars, workerVars
<1>2. ~mixed
  BY DEF RouteMismatch, RouteOk, RouteError, RouteApproved, RouteResponse, Resolve
<1>3. /\ Len(air) \in Nat \ {0} /\ Head(air) = air[1]
      /\ Len(air') = Len(air) - 1
      /\ \A j \in 1..(Len(air) - 1) : air'[j] = air[j + 1]
  BY <1>1, TailFrames DEF IInv, TypeOK
<1>4. OnlyMisses(0) => Head(air).code = "miss" /\ OnlyMisses(0)'
  BY <1>3 DEF OnlyMisses
<1>5. tries \in Nat /\ failures \in Nat /\ MaxFailures \in Nat
  BY ConstantsAssumption DEF IInv, TypeOK
<1>6. armed /\ tries < MaxFailures
  BY <1>1 DEF ArmedIsLive
<1>7. CASE /\ phase \in {"gate", "auth"} /\ verdict = None
           /\ OnlyMisses(0) /\ failures + Len(air) <= tries
  <2>1. gatePending \/ authPending
    BY <1>7 DEF IInv, WaitsMatchPhase
  <2>2. RouteMismatch
    BY <1>4, <1>7, <2>1 DEF RouteMismatch, RouteOk, RouteError, RouteApproved,
                            RouteResponse, Routing
  <2>3. ~LastFailure
    BY <1>3, <1>5, <1>6, <1>7 DEF LastFailure
  <2>4. verdict' = verdict /\ failures' = failures + 1
    BY <2>2, <2>3 DEF RouteMismatch
  <2> QED BY <1>1, <1>3, <1>4, <1>5, <1>7, <2>4 DEF ArmedByHand
<1>8. CASE phase = "await"
  <2>1. ~gatePending /\ ~authPending
    BY <1>8 DEF IInv, WaitsMatchPhase
  <2>2. RouteResponse
    BY <2>1 DEF RouteMismatch, RouteOk, RouteError, RouteApproved
  <2>3. CASE /\ cur.kind \in Touch /\ rsp = "wait"
             /\ OnlyMisses(0) /\ Len(air) <= tries
    <3>1. rsp' = rsp
      BY <2>2, <2>3 DEF RouteResponse
    <3> QED BY <1>1, <1>3, <1>4, <1>5, <1>8, <2>3, <3>1 DEF ArmedByHand
  <2>4. ASSUME cur.kind \in Touch, rsp = "armed",
               NEW i \in 1..Len(air), air[i].code = "wait", StaleBefore(i),
               OnlyMisses(i), Len(air) <= tries + i
        PROVE  ArmedByHand'
    <3>1. air[1].fresh /\ rsp' = air[1].code
      BY <1>3, <2>2, <2>4 DEF RouteResponse, Routing
    <3>2. i = 1
      BY <1>3, <2>4, <3>1 DEF StaleBefore
    <3>3. OnlyMisses(0)'
      BY <1>3, <2>4, <3>2 DEF OnlyMisses
    <3> QED BY <1>1, <1>3, <1>5, <1>8, <2>4, <3>1, <3>2, <3>3 DEF ArmedByHand
  <2> QED BY <1>2, <1>6, <1>8, <2>3, <2>4 DEF ArmedByHand, AnswersMatch
<1> QED BY <1>1, <1>2, <1>6, <1>7, <1>8 DEF ArmedByHand, AnswersMatch

\* The worker leaves a command whose gate is armed by entering the wait the
\* announcement opens, or by the cancel: a verdict and a refusal come from a device
\* that has disarmed, and the deadlines find it disarmed too.
LEMMA HandServed ==
  ASSUME IInv, Reliable, ArmedByHand, ArmedIsLive,
         \/ TakeCommandFails \/ AnswerArrived \/ AnswerTimeout \/ VerdictArrived
         \/ WaitTimeout \/ GateCancelled \/ AuthCancelled \/ CancelWritten
  PROVE  ArmedByHand'
<1> SUFFICES ASSUME armed', ~mixed' PROVE ArmedByHand'
  BY DEF ArmedByHand, AnswersMatch
<1>1. CASE TakeCommandFails
  BY <1>1 DEF TakeCommandFails, workerVars, deviceVars, ArmedByHand, ArmedIsLive,
              AnswersMatch
<1>2. CASE AnswerArrived
  <2>1. armed /\ ~mixed /\ phase = "await" /\ rsp \in Codes
    BY <1>2 DEF AnswerArrived, deviceVars
  <2>2. cur.kind \in Touch /\ rsp = "wait" /\ OnlyMisses(0) /\ Len(air) <= tries
    BY <2>1 DEF ArmedByHand, AnswersMatch, Codes
  <2>3. /\ phase' \in {"gate", "auth"} /\ verdict' = None /\ failures' = 0
        /\ UNCHANGED <<air, tries>>
    BY <1>2, <2>2 DEF AnswerArrived, deviceVars, Touch
  <2>4. Len(air) \in Nat
    BY LenProperties DEF IInv, TypeOK
  <2> QED BY <2>2, <2>3, <2>4 DEF ArmedByHand, OnlyMisses
<1>3. CASE AnswerTimeout
  <2>1. FALSE
    BY <1>3 DEF AnswerTimeout, AnswerDeadline, deviceVars, ArmedIsLive
  <2> QED BY <2>1
<1>4. CASE VerdictArrived
  <2>1. FALSE
    BY <1>4, ConstantsAssumption DEF VerdictArrived, deviceVars, ArmedByHand, AnswersMatch
  <2> QED BY <2>1
<1>5. CASE WaitTimeout
  <2>1. FALSE
    BY <1>5 DEF WaitTimeout, deviceVars
  <2> QED BY <2>1
<1>6. CASE GateCancelled \/ AuthCancelled
  BY <1>6 DEF GateCancelled, AuthCancelled, ArmedByHand
<1>7. CASE CancelWritten
  <2>1. FALSE
    BY <1>7 DEF CancelWritten, CancelReaches, ArmedIsLive
  <2> QED BY <2>1
<1> QED BY <1>1, <1>2, <1>3, <1>4, <1>5, <1>6, <1>7

\* Nobody else reads or writes what the invariant speaks of, but for the owner of
\* the command in hand.
LEMMA HandOthers ==
  ASSUME IInv, ArmedByHand,
         \/ \E c \in Clients : Handler(c)
         \/ TouchMatch \/ DeviceTimeout \/ LinkLost \/ Connect \/ SessionEnds
  PROVE  ArmedByHand'
<1>1. ASSUME NEW c \in Clients, Handler(c)
      PROVE  ArmedByHand'
  <2>1. /\ UNCHANGED <<armed, mixed, phase, rsp, verdict, failures, air, tries>>
        /\ cur' = cur \/ cur' = Disown(cur, c)
    BY <1>1 DEF Handler, Request, CancelActiveGate, Enqueue, TakeReply, HangUp, AuthCancel,
           SignDeadline, MatchApproves, Abandon, workerVars, cancelVars, deviceVars
  <2>2. cur'.kind = cur.kind
    BY <2>1, DisownType, NoCmdType DEF IInv, TypeOK
  <2> QED BY <2>1, <2>2 DEF ArmedByHand, AnswersMatch, OnlyMisses, StaleBefore
<1>2. CASE TouchMatch \/ DeviceTimeout \/ LinkLost
  BY <1>2 DEF TouchMatch, DeviceTimeout, LinkLost, ArmedByHand
<1>3. CASE Connect \/ SessionEnds
  BY <1>3 DEF Connect, SessionEnds, deviceVars, ArmedByHand, AnswersMatch
<1> QED BY <1>1, <1>2, <1>3

\* As long as no frame is taken for another's, the device's gate never outlives the
\* command that armed it: whichever way the command ended, and whatever the number
\* of clients, the kinds of their requests and the limits, an idle worker with a
\* link faces a disarmed device.  (every exit of send_fp_gated_inner and
\* do_auth_request; for a link on which writes land and are answered in time)
THEOREM GateEndsWithCommand ==
  ASSUME Reliable, Marks
  PROVE  Spec => []IdleDisarmed
<1>1. Init => ArmedByHand /\ ArmedIsLive
  BY DEF Init, ArmedByHand, ArmedIsLive
<1>2. IInv /\ ArmedByHand /\ ArmedIsLive /\ [Next]_vars => (ArmedByHand /\ ArmedIsLive)'
  <2> SUFFICES ASSUME IInv, ArmedByHand, ArmedIsLive, [Next]_vars
               PROVE  ArmedByHand' /\ ArmedIsLive'
    OBVIOUS
  <2>1. CASE Next
    BY <2>1, LiveStep, HandTaken, HandMissed, HandRouted, HandServed, HandOthers
       DEF Next, Worker, Device
  <2>2. CASE UNCHANGED vars
    BY <2>2 DEF vars, workerVars, cancelVars, deviceVars, ArmedByHand, ArmedIsLive,
                AnswersMatch, OnlyMisses, StaleBefore
  <2> QED BY <2>1, <2>2
<1>3. ArmedByHand => IdleDisarmed
  BY DEF ArmedByHand, IdleDisarmed
<1> QED BY <1>1, <1>2, <1>3, IInvInvariant, PTL DEF Spec

=============================================================================
