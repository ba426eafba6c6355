--------------------------- MODULE AuthSlotProofs ---------------------------
(***************************************************************************)
(* Theorems about AuthSlot, for every set of clients and every length of   *)
(* the windows.                                                            *)
(***************************************************************************)
EXTENDS AuthSlot, SequenceTheorems, TLAPS

\* Two facts that make the properties inductive: the worker is only busy with a
\* job that exists, and it is not unlocking the screen once a lock request has
\* been acted on, since one worker does both.
BusyHasJob     == wphase # "idle" => jobs # <<>>
UnlockIsNotSwept == unlocking => ~swept

IInv ==
  /\ TypeOK
  /\ BusyHasJob
  /\ SlotHeldByRequest
  /\ WaitingIsReachable
  /\ UnlockIsNotSwept
  /\ LockEndsUnlockWindow
-----------------------------------------------------------------------------
(* Lemmas *)

\* A handler that leaves strikes its name from the queue and nothing else.
LEMMA DisownJobs ==
  ASSUME NEW q \in Seq(Jobs), NEW c
  PROVE  LET d == [i \in 1..Len(q) |-> Disown(q[i], c)]
         IN  d \in Seq(Jobs) /\ Len(d) = Len(q)
<1> DEFINE d == [i \in 1..Len(q) |-> Disown(q[i], c)]
<1>1. \A i \in 1..Len(q) : Disown(q[i], c) \in Jobs
  <2> TAKE i \in 1..Len(q)
  <2>1. q[i] \in Jobs
    BY ElementOfSeq
  <2> QED BY <2>1 DEF Disown, Jobs
<1>2. Len(q) \in Nat
  BY LenProperties
<1>3. d \in [1..Len(q) -> Jobs]
  BY <1>1
<1>4. d \in Seq(Jobs)
  BY <1>2, <1>3, SeqDef
<1>5. Len(d) = Len(q)
  BY <1>2, <1>4, LenProperties
<1> QED BY <1>4, <1>5

\* A window armed by set_pre_auth is a window, no longer than its kind lasts.
LEMMA ArmedType ==
  ASSUME NEW what \in {"unlock", "agent"}
  PROVE  /\ Armed(what) \in [for : {None, "unlock", "agent"}, left : Nat]
         /\ Armed(what).for = what /\ what # None
         /\ Armed(what).left <= Lasts(what)
BY ConstantsAssumption DEF Armed, Lasts

\* No window is a window.
LEMMA NoWindowType ==
  /\ NoWindow \in [for : {None, "unlock", "agent"}, left : Nat]
  /\ NoWindow.for = None
BY DEF NoWindow

\* Time only shortens a window or ends it.
LEMMA TickType ==
  ASSUME TypeOK, Tick
  PROVE  /\ preAuth' \in [for : {None, "unlock", "agent"}, left : Nat]
         /\ preAuth'.for # None => preAuth'.left <= Lasts(preAuth'.for)
         /\ preAuth'.for \in {None, preAuth.for}
         /\ flow' \in 0..Suppress /\ recent' \in 0..Suppress
<1>1. CASE preAuth.left <= 1
  <2>1. preAuth' = NoWindow
    BY <1>1 DEF Tick
  <2>2. flow' \in 0..Suppress /\ recent' \in 0..Suppress
    BY ConstantsAssumption DEF TypeOK, Tick, Less
  <2> QED BY <2>1, <2>2, NoWindowType
<1>2. CASE ~(preAuth.left <= 1)
  <2>1. preAuth' = [preAuth EXCEPT !.left = @ - 1]
    BY <1>2 DEF Tick
  <2>2. /\ preAuth.left \in Nat /\ preAuth.left - 1 \in Nat
        /\ Lasts(preAuth.for) \in Nat
    BY <1>2, ConstantsAssumption DEF TypeOK, Lasts
  <2>3. flow' \in 0..Suppress /\ recent' \in 0..Suppress
    BY ConstantsAssumption DEF TypeOK, Tick, Less
  <2>4. preAuth'.for = preAuth.for /\ preAuth'.left = preAuth.left - 1
    BY <2>1 DEF TypeOK
  <2>5. preAuth' \in [for : {None, "unlock", "agent"}, left : Nat]
    BY <2>1, <2>2 DEF TypeOK
  <2>6. preAuth'.for # None => preAuth'.left <= Lasts(preAuth'.for)
    BY <2>2, <2>4 DEF TypeOK
  <2> QED BY <2>3, <2>4, <2>5, <2>6
<1> QED BY <1>1, <1>2
-----------------------------------------------------------------------------
(* Type correctness *)

LEMMA TypeInit == Init => TypeOK
<1> SUFFICES ASSUME Init PROVE TypeOK
  OBVIOUS
<1>1. /\ preAuth \in [for : {None, "unlock", "agent"}, left : Nat]
      /\ preAuth.for = None
  BY NoWindowType DEF Init
<1>2. jobs \in Seq(Jobs)
  BY EmptySeq DEF Init
<1>3. flow \in 0..Suppress /\ recent \in 0..Suppress
  BY ConstantsAssumption DEF Init
<1>4. req \in [Clients -> AllRequests]
  BY DEF Init, AllRequests
<1>5. session \in BOOLEAN /\ locked \in BOOLEAN
  BY DEF Init
<1> QED
  BY <1>1, <1>2, <1>3, <1>4, <1>5 DEF Init, TypeOK

\* The handlers' steps.
LEMMA TypeHandler ==
  ASSUME TypeOK, NEW c \in Clients, Handler(c)
  PROVE  TypeOK'
<1> USE DEF workerVars, uiVars, screenVars, windowVars
<1>1. CASE \E r \in Requests : Arrive(c, r)
  <2> PICK r \in Requests : Arrive(c, r)
    BY <1>1
  <2>1. r \in AllRequests
    BY ConstantsAssumption
  <2> QED BY <2>1 DEF Arrive, Show, TypeOK
<1>2. CASE Claim(c)
  <2>1. [who |-> c, auth |-> req[c] # "key"] \in Jobs
    BY DEF Jobs
  <2>2. jobs' \in Seq(Jobs)
    BY <1>2, <2>1, AppendProperties DEF Claim, TypeOK
  <2> QED BY <1>2, <2>2 DEF Claim, Show, TypeOK
<1>3. CASE Busy(c)
  BY <1>3 DEF Busy, Dismiss, TypeOK
<1>4. ASSUME NEW v \in {"yes", "no"}, Decide(c, v), permit' \in BOOLEAN
      PROVE  TypeOK'
  <2>1. jobs' \in Seq(Jobs)
    BY <1>4, DisownJobs DEF Decide, TypeOK
  <2> QED BY <1>4, <2>1 DEF Decide, TypeOK
<1>5. CASE WorkerReplied(c)
  <2>1. reply[c] \in {"yes", "no"} /\ permit' \in BOOLEAN
    BY <1>5 DEF WorkerReplied, TypeOK
  <2> QED BY <1>4, <1>5, <2>1 DEF WorkerReplied
<1>6. CASE SlotSpoke(c)
  <2>1. rx[c] \in {"yes", "no"} /\ permit' \in BOOLEAN
    BY <1>6 DEF SlotSpoke, TypeOK
  <2> QED BY <1>4, <1>6, <2>1 DEF SlotSpoke
<1>7. CASE CancelSeen(c)
  BY <1>4, <1>7 DEF CancelSeen
<1>8. CASE GiveUp(c)
  BY <1>4, <1>8 DEF GiveUp
<1>9. CASE Leave(c)
  <2>1. /\ preAuth' \in [for : {None, "unlock", "agent"}, left : Nat]
        /\ preAuth'.for # None => preAuth'.left <= Lasts(preAuth'.for)
    BY <1>9, ArmedType DEF Leave, TypeOK
  <2>2. rx' \in [Clients -> {None, "yes", "no"}]
    BY <1>9 DEF Leave, TypeOK
  <2> QED BY <1>9, <2>1, <2>2 DEF Leave, Dismiss, SlotCleared, TypeOK
<1> QED
  BY <1>1, <1>2, <1>3, <1>5, <1>6, <1>7, <1>8, <1>9 DEF Handler, Progress

\* The worker's steps.
LEMMA TypeWorker ==
  ASSUME TypeOK, BusyHasJob,
         Serve \/ MatchApproves \/ MatchUnlocks \/ UnlockEnds \/ LockRequested
  PROVE  TypeOK'
<1> USE DEF clientVars, workerVars, uiVars, screenVars, windowVars
<1>1. CASE TakeJob
  BY <1>1 DEF TakeJob, TypeOK
<1>2. CASE TouchNeeded
  BY <1>2 DEF TouchNeeded, TypeOK
<1>3. ASSUME NEW v \in {"yes", "no"}, JobEnds(v), permit' \in BOOLEAN
      PROVE  TypeOK'
  <2>1. jobs # <<>>
    BY <1>3 DEF JobEnds, BusyHasJob
  <2>2. Head(jobs) \in Jobs /\ Tail(jobs) \in Seq(Jobs)
    BY <2>1, HeadTailProperties DEF TypeOK
  <2>3. reply' \in [Clients -> {None, "yes", "no"}]
    BY <1>3, <2>2 DEF JobEnds, Reply, Jobs, TypeOK
  <2>4. recent' \in 0..Suppress
    BY <1>3, ConstantsAssumption DEF JobEnds, TypeOK
  <2> QED BY <1>3, <2>2, <2>3, <2>4 DEF JobEnds, TypeOK
<1>4. CASE JobServed
  <2> PICK v \in {"yes", "no"} : JobEnds(v)
    BY <1>4 DEF JobServed
  <2>1. permit' \in BOOLEAN
    BY <1>4 DEF JobServed, TypeOK
  <2> QED BY <1>3, <2>1
<1>5. CASE AuthCancelled
  BY <1>3, <1>5 DEF AuthCancelled
<1>6. CASE MatchApproves
  <2>1. /\ preAuth' \in [for : {None, "unlock", "agent"}, left : Nat]
        /\ preAuth'.for # None => preAuth'.left <= Lasts(preAuth'.for)
    BY <1>6, ArmedType DEF MatchApproves, TypeOK
  <2>2. flow' \in 0..Suppress /\ recent' \in 0..Suppress /\ earned' \in BOOLEAN
    BY <1>6, ConstantsAssumption DEF MatchApproves, TypeOK
  <2>3. rx' \in [Clients -> {None, "yes", "no"}]
    BY <1>6 DEF MatchApproves, TypeOK
  <2> QED BY <1>6, <2>1, <2>2, <2>3 DEF MatchApproves, TypeOK
<1>7. CASE MatchUnlocks
  <2>1. flow' \in 0..Suppress
    BY <1>7, ConstantsAssumption DEF MatchUnlocks
  <2>2. preAuth' = preAuth /\ unlocking' \in BOOLEAN /\ swept' \in BOOLEAN
    BY <1>7 DEF MatchUnlocks
  <2> QED BY <1>7, <2>1, <2>2 DEF MatchUnlocks, TypeOK
<1>8. CASE UnlockEnds
  <2>1. /\ preAuth' \in [for : {None, "unlock", "agent"}, left : Nat]
        /\ preAuth'.for # None => preAuth'.left <= Lasts(preAuth'.for)
    BY <1>8, ArmedType DEF UnlockEnds, TypeOK
  <2>2. earned' \in BOOLEAN /\ session' \in BOOLEAN
    BY <1>8, ConstantsAssumption DEF UnlockEnds, TypeOK
  <2> QED BY <1>8, <2>1, <2>2 DEF UnlockEnds, TypeOK
<1>9. CASE LockRequested
  BY <1>9, NoWindowType DEF LockRequested, WindowShut, TypeOK
<1> QED
  BY <1>1, <1>2, <1>4, <1>5, <1>6, <1>7, <1>8, <1>9 DEF Serve

\* The agent, the screen and the clock.
LEMMA TypeEnvironment ==
  ASSUME TypeOK, Environment
  PROVE  TypeOK'
<1> USE DEF clientVars, workerVars, uiVars, screenVars, windowVars
<1>1. CASE AgentSubscribes
  BY <1>1 DEF AgentSubscribes, TypeOK
<1>2. CASE AgentLost
  BY <1>2 DEF AgentLost, TypeOK
<1>3. CASE UserCloses
  BY <1>3 DEF UserCloses, TypeOK
<1>4. CASE CancelBroadcast
  <2>1. ui' \in [Clients -> {"none", "shown", "cancel"}]
    BY <1>4 DEF CancelBroadcast, TypeOK
  <2>2. preAuth' = preAuth /\ click' \in BOOLEAN
    BY <1>4 DEF CancelBroadcast
  <2> QED BY <1>4, <2>1, <2>2 DEF CancelBroadcast, TypeOK
<1>5. CASE UserLocksOrUnlocks
  BY <1>5 DEF UserLocksOrUnlocks, TypeOK
<1>6. CASE ScreenRefreshed
  BY <1>6 DEF ScreenRefreshed, TypeOK
<1>7. CASE Tick
  BY <1>7, TickType DEF Tick, TypeOK
<1> QED
  BY <1>1, <1>2, <1>3, <1>4, <1>5, <1>6, <1>7 DEF Environment
-----------------------------------------------------------------------------
(* The properties, action by action *)

\* The worker never loses the job it is serving: only JobEnds shortens the queue.
LEMMA BusyStep ==
  ASSUME TypeOK, BusyHasJob, [Next]_vars
  PROVE  BusyHasJob'
<1> USE DEF BusyHasJob
<1>1. CASE \E c \in Clients : Handler(c)
  <2> PICK c \in Clients : Handler(c)
    BY <1>1
  <2>1. ASSUME NEW v, Decide(c, v)
        PROVE  BusyHasJob'
    <3>1. wphase' = wphase /\ Len(jobs') = Len(jobs)
      BY <2>1, DisownJobs DEF Decide, TypeOK
    <3>2. jobs # <<>> => Len(jobs) # 0
      BY EmptySeq DEF TypeOK
    <3>3. jobs' = <<>> => Len(jobs') = 0
      BY EmptySeq
    <3> QED BY <3>1, <3>2, <3>3
  <2>2. CASE Claim(c)
    <3>1. [who |-> c, auth |-> req[c] # "key"] \in Jobs
      BY DEF Jobs
    <3>2. jobs' # <<>>
      BY <2>2, <3>1, AppendProperties DEF Claim, TypeOK
    <3> QED BY <3>2
  <2>3. CASE WorkerReplied(c) \/ SlotSpoke(c) \/ CancelSeen(c) \/ GiveUp(c)
    BY <2>1, <2>3 DEF WorkerReplied, SlotSpoke, CancelSeen, GiveUp
  <2>4. CASE (\E r \in Requests : Arrive(c, r)) \/ Busy(c) \/ Leave(c)
    BY <2>4 DEF Arrive, Busy, Leave, workerVars
  <2> QED BY <2>2, <2>3, <2>4 DEF Handler, Progress
<1>2. CASE Serve
  BY <1>2 DEF Serve, TakeJob, TouchNeeded, JobServed, AuthCancelled, JobEnds
<1>3. CASE MatchApproves \/ MatchUnlocks \/ UnlockEnds \/ LockRequested
  BY <1>3 DEF MatchApproves, MatchUnlocks, UnlockEnds, LockRequested, workerVars
<1>4. CASE Environment
  BY <1>4 DEF Environment, AgentSubscribes, AgentLost, UserCloses, CancelBroadcast,
              UserLocksOrUnlocks, ScreenRefreshed, Tick, workerVars
<1>5. CASE UNCHANGED vars
  BY <1>5 DEF vars, workerVars
<1> QED
  BY <1>1, <1>2, <1>3, <1>4, <1>5 DEF Next

\* What the slot properties read is touched by the handlers and by an approval.
LEMMA SlotUntouched ==
  ASSUME Serve \/ MatchUnlocks \/ UnlockEnds \/ LockRequested \/ Environment
         \/ UNCHANGED vars
  PROVE  UNCHANGED <<pc, rx, slot>>
BY DEF Serve, TakeJob, TouchNeeded, JobServed, AuthCancelled, JobEnds, MatchUnlocks,
       UnlockEnds, LockRequested, Environment, AgentSubscribes, AgentLost, UserCloses,
       CancelBroadcast, UserLocksOrUnlocks, ScreenRefreshed, Tick, vars, clientVars

\* Every exit of a handler clears the slot; no other step frees or moves it but an
\* approval, which takes the sender out.
LEMMA HeldStep ==
  ASSUME TypeOK, SlotHeldByRequest, [Next]_vars
  PROVE  SlotHeldByRequest'
<1> USE DEF SlotHeldByRequest
<1>1. CASE \E c \in Clients : Handler(c)
  <2> PICK c \in Clients : Handler(c)
    BY <1>1
  <2>1. CASE (\E r \in Requests : Arrive(c, r)) \/ Busy(c) \/ Claim(c)
    BY <2>1, ConstantsAssumption DEF Arrive, Busy, Claim, TypeOK
  <2>2. CASE WorkerReplied(c) \/ SlotSpoke(c) \/ CancelSeen(c) \/ GiveUp(c)
    BY <2>2 DEF WorkerReplied, SlotSpoke, CancelSeen, GiveUp, Decide, TypeOK
  <2>3. CASE Leave(c)
    BY <2>3, ConstantsAssumption DEF Leave, SlotCleared
  <2> QED BY <2>1, <2>2, <2>3 DEF Handler, Progress
<1>2. CASE MatchApproves
  BY <1>2, ConstantsAssumption DEF MatchApproves
<1>3. CASE ~MatchApproves /\ ~(\E c \in Clients : Handler(c))
  BY <1>3, SlotUntouched DEF Next
<1> QED
  BY <1>1, <1>2, <1>3

\* A request loses the slot only to a verdict: an approval, the denial of the
\* handler that clears the slot, or its own decision.
LEMMA ReachableStep ==
  ASSUME TypeOK, WaitingIsReachable, [Next]_vars
  PROVE  WaitingIsReachable'
<1> USE DEF WaitingIsReachable
<1>1. CASE \E c \in Clients : Handler(c)
  <2> PICK c \in Clients : Handler(c)
    BY <1>1
  <2>1. CASE (\E r \in Requests : Arrive(c, r)) \/ Busy(c)
    BY <2>1 DEF Arrive, Busy, TypeOK
  <2>2. CASE Claim(c)
    BY <2>2, ConstantsAssumption DEF Claim, SlotFree, TypeOK
  <2>3. CASE WorkerReplied(c) \/ SlotSpoke(c) \/ CancelSeen(c) \/ GiveUp(c)
    BY <2>3 DEF WorkerReplied, SlotSpoke, CancelSeen, GiveUp, Decide, TypeOK
  <2>4. CASE Leave(c)
    BY <2>4, ConstantsAssumption DEF Leave, SlotCleared, TypeOK
  <2> QED BY <2>1, <2>2, <2>3, <2>4 DEF Handler, Progress
<1>2. CASE MatchApproves
  BY <1>2, ConstantsAssumption DEF MatchApproves, TypeOK
<1>3. CASE ~MatchApproves /\ ~(\E c \in Clients : Handler(c))
  BY <1>3, SlotUntouched DEF Next
<1> QED
  BY <1>1, <1>2, <1>3

\* The worker finishes unlocking, and arming the window, before it looks at a lock
\* request; a match that arms one afterwards is a new flow.
LEMMA LockStep ==
  ASSUME TypeOK, UnlockIsNotSwept, LockEndsUnlockWindow, [Next]_vars
  PROVE  UnlockIsNotSwept' /\ LockEndsUnlockWindow'
<1> USE DEF UnlockIsNotSwept, LockEndsUnlockWindow
<1>1. CASE \E c \in Clients : Handler(c)
  <2> PICK c \in Clients : Handler(c)
    BY <1>1
  <2>1. CASE Leave(c)
    BY <2>1, ArmedType DEF Leave, workerVars
  <2>2. CASE ~Leave(c)
    <3>1. UNCHANGED <<unlocking, swept, preAuth>>
      BY <2>2 DEF Handler, Progress, Arrive, Claim, Busy, WorkerReplied, SlotSpoke,
                  CancelSeen, GiveUp, Decide, workerVars, windowVars
    <3> QED BY <3>1
  <2> QED BY <2>1, <2>2
<1>2. CASE Serve
  BY <1>2 DEF Serve, TakeJob, TouchNeeded, JobServed, AuthCancelled, JobEnds, windowVars
<1>3. CASE MatchApproves \/ MatchUnlocks \/ UnlockEnds
  BY <1>3 DEF MatchApproves, MatchUnlocks, UnlockEnds, workerVars
<1>4. CASE LockRequested
  BY <1>4, NoWindowType, ConstantsAssumption DEF LockRequested, WindowShut, workerVars
<1>5. CASE Environment /\ ~Tick
  BY <1>5 DEF Environment, AgentSubscribes, AgentLost, UserCloses, CancelBroadcast,
              UserLocksOrUnlocks, ScreenRefreshed, workerVars, windowVars
<1>6. CASE Tick
  <2>1. preAuth'.for \in {None, preAuth.for} /\ None # "unlock"
    BY <1>6, TickType, ConstantsAssumption
  <2> QED BY <1>6, <2>1 DEF Tick, workerVars
<1>7. CASE UNCHANGED vars
  BY <1>7 DEF vars, workerVars, windowVars
<1> QED
  BY <1>1, <1>2, <1>3, <1>4, <1>5, <1>6, <1>7 DEF Next
-----------------------------------------------------------------------------
(* The inductive invariant *)

LEMMA IInvInit == Init => IInv
<1> SUFFICES ASSUME Init PROVE IInv
  OBVIOUS
<1>1. TypeOK
  BY TypeInit
<1>2. BusyHasJob /\ UnlockIsNotSwept /\ LockEndsUnlockWindow
  BY DEF Init, BusyHasJob, UnlockIsNotSwept, LockEndsUnlockWindow
<1>3. SlotHeldByRequest /\ WaitingIsReachable
  BY ConstantsAssumption DEF Init, SlotHeldByRequest, WaitingIsReachable
<1> QED
  BY <1>1, <1>2, <1>3 DEF IInv

LEMMA TypeStep ==
  ASSUME TypeOK, BusyHasJob, [Next]_vars
  PROVE  TypeOK'
<1>1. CASE UNCHANGED vars
  BY <1>1 DEF vars, clientVars, workerVars, uiVars, screenVars, windowVars, TypeOK
<1> QED
  BY <1>1, TypeHandler, TypeWorker, TypeEnvironment DEF Next

LEMMA IInvNext == IInv /\ [Next]_vars => IInv'
<1> SUFFICES ASSUME IInv, [Next]_vars PROVE IInv'
  OBVIOUS
<1>1. TypeOK' /\ BusyHasJob'
  BY TypeStep, BusyStep DEF IInv
<1>2. SlotHeldByRequest' /\ WaitingIsReachable'
  BY HeldStep, ReachableStep DEF IInv
<1>3. UnlockIsNotSwept' /\ LockEndsUnlockWindow'
  BY LockStep DEF IInv
<1> QED
  BY <1>1, <1>2, <1>3 DEF IInv

LEMMA IInvariant == Spec => []IInv
BY IInvInit, IInvNext, PTL DEF Spec

\* The state of the slot, its requests and its windows stays well-typed.
THEOREM TypeCorrect == Spec => []TypeOK
<1>1. IInv => TypeOK
  BY DEF IInv
<1> QED BY IInvariant, <1>1, PTL

\* The slot never outlives its request: BUSY always has somebody behind it.
\* (try_set_pending_pam, deny_pending_pam)
THEOREM SlotIsHeld == Spec => []SlotHeldByRequest
<1>1. IInv => SlotHeldByRequest
  BY DEF IInv
<1> QED BY IInvariant, <1>1, PTL

\* A request waiting for its touch is in the slot or has been answered, so two
\* requests never wait for the same touch.  (try_set_pending_pam)
THEOREM WaitersAreReachable == Spec => []WaitingIsReachable
<1>1. IInv => WaitingIsReachable
  BY DEF IInv
<1> QED BY IInvariant, <1>1, PTL

\* After a lock request no window of an earlier unlock is open, until another
\* match comes in.  (handle_lock_request, unlock_screen)
THEOREM LockShutsWindow == Spec => []LockEndsUnlockWindow
<1>1. IInv => LockEndsUnlockWindow
  BY DEF IInv
<1> QED BY IInvariant, <1>1, PTL
=============================================================================
