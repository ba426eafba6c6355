-------------------------- MODULE EnrollmentProofs --------------------------
(***************************************************************************)
(* For any programs of any kind, any slots and bounds: the model is typed, *)
(* a lone enrolment says Complete only of its own capture, and a cancelled *)
(* one leaves the device no gate and no capture.                           *)
(***************************************************************************)
EXTENDS Enrollment, SequenceTheorems, TLAPS

Cmds   == {"list", "enroll", "delete", "enrollCancel", "gateCancel"}
Places == {"idle", "list", "begin", "wait", "poll", "check", "leave", "told"}
Notes  == {"approved", "captured", "complete", "failed"}

\* TypeOK in parts; what is enrolled is a slot.
DeviceOK ==
  /\ link \in BOOLEAN /\ fingers \subseteq Slots \cup Kept
  /\ armed \in Jobs \cup {None}
  /\ armed # None => armed.cmd \in {"enroll", "delete"} /\ (armed.cmd = "enroll" => armed.slot \in Slots)
  /\ capture \in [slot : Slots, who : Clients \cup {None}] \cup {None}

AirOK == air \in Seq(Notes) /\ Len(air) <= MaxAir

DaemonOK ==
  /\ last \in {None, "captured", "complete", "failed"} /\ bitmap \subseteq Slots \cup Kept
  /\ stale \in BOOLEAN /\ permit \in BOOLEAN

QueueOK ==
  /\ queue \in Seq(Jobs) /\ Len(queue) <= MaxJobs /\ gating \in BOOLEAN
  /\ \A i \in DOMAIN queue : queue[i].cmd = "enroll" => queue[i].slot \in Slots
  /\ gating => link /\ queue # <<>> /\ Head(queue).cmd \in {"enroll", "delete"}

UserOK ==
  /\ pc \in [Clients -> Places] /\ op \in [Clients -> {"enroll", "delete", None}]
  /\ slot \in [Clients -> Slots \cup {0}]
  /\ reply \in [Clients -> {None, "ok", "error"}] /\ found \in [Clients -> SUBSET (Slots \cup Kept)]
  /\ result \in [Clients -> {None, "failed", "deleted", "complete", "timeout"}]
  /\ \A c \in Clients : pc[c] = "begin" => slot[c] \in Slots

MarksOK ==
  /\ cancelled \in [Clients -> BOOLEAN] /\ thread \in [Clients -> BOOLEAN]
  /\ own \in [Clients -> BOOLEAN] /\ solo \in [Clients -> BOOLEAN] /\ known \in [Clients -> BOOLEAN]

Types == DeviceOK /\ AirOK /\ DaemonOK /\ QueueOK /\ UserOK /\ MarksOK

-----------------------------------------------------------------------------
(* The queue *)

LEMMA JobsAppended ==
  ASSUME NEW S, NEW s \in Seq(S), NEW e \in S
  PROVE  /\ Append(s, e) \in Seq(S) /\ Len(Append(s, e)) = Len(s) + 1
         /\ DOMAIN Append(s, e) = 1..Len(s) + 1 /\ DOMAIN s = 1..Len(s) /\ Len(s) \in Nat
         /\ \A i \in DOMAIN s : Append(s, e)[i] = s[i]
         /\ Append(s, e)[Len(s) + 1] = e
         /\ Append(s, e) # <<>> /\ (s # <<>> => Head(Append(s, e)) = Head(s))
OBVIOUS

LEMMA HeadServed ==
  ASSUME NEW S, NEW s \in Seq(S), s # <<>>
  PROVE  /\ Tail(s) \in Seq(S) /\ Len(Tail(s)) = Len(s) - 1 /\ Len(s) \in Nat \ {0}
         /\ DOMAIN s = 1..Len(s) /\ DOMAIN Tail(s) = 1..Len(s) - 1
         /\ Head(s) = s[1] /\ Head(s) \in S /\ 1 \in DOMAIN s
         /\ \A i \in DOMAIN Tail(s) : i + 1 \in DOMAIN s /\ Tail(s)[i] = s[i + 1]
<1>1. Len(s) \in Nat /\ Len(s) # 0 /\ DOMAIN s = 1..Len(s) BY EmptySeq, LenProperties
<1>2. Tail(s) \in Seq(S) /\ Len(Tail(s)) = Len(s) - 1 /\ Head(s) \in S
  BY HeadTailProperties
<1>3. \A i \in 1..Len(s) - 1 : Tail(s)[i] = s[i + 1] BY HeadTailProperties
<1>4. DOMAIN Tail(s) = 1..Len(s) - 1 BY <1>2, LenProperties
<1>5. Head(s) = s[1] BY HeadTailProperties
<1> QED BY <1>1, <1>2, <1>3, <1>4, <1>5

\* The jobs that HangUp leaves to nobody.
Orphaned(c) ==
  [i \in DOMAIN queue |-> IF queue[i].who = c /\ queue[i].cmd \in {"enroll", "delete"}
                          THEN [queue[i] EXCEPT !.who = None] ELSE queue[i]]

LEMMA OrphanedJobs ==
  ASSUME QueueOK, NEW c
  PROVE  /\ Orphaned(c) \in Seq(Jobs) /\ Len(Orphaned(c)) = Len(queue)
         /\ DOMAIN Orphaned(c) = DOMAIN queue /\ DOMAIN queue = 1..Len(queue)
         /\ \A i \in DOMAIN queue :
              /\ Orphaned(c)[i].cmd = queue[i].cmd /\ Orphaned(c)[i].slot = queue[i].slot
              /\ \/ Orphaned(c)[i] = queue[i] /\ (queue[i].who = c => queue[i].cmd \notin {"enroll", "delete"})
                 \/ Orphaned(c)[i].who = None /\ queue[i].who = c
         /\ queue # <<>> => Orphaned(c) # <<>> /\ Head(Orphaned(c)).cmd = Head(queue).cmd
<1>1. queue \in Seq(Jobs) /\ DOMAIN queue = 1..Len(queue) /\ Len(queue) \in Nat
  BY LenProperties DEF QueueOK
<1>2. \A i \in 1..Len(queue) : queue[i] \in Jobs BY <1>1, ElementOfSeq
<1>3. ASSUME NEW i \in 1..Len(queue)
      PROVE  /\ Orphaned(c)[i] \in Jobs
             /\ Orphaned(c)[i].cmd = queue[i].cmd /\ Orphaned(c)[i].slot = queue[i].slot
             /\ \/ Orphaned(c)[i] = queue[i] /\ (queue[i].who = c => queue[i].cmd \notin {"enroll", "delete"})
                \/ Orphaned(c)[i].who = None /\ queue[i].who = c
  <2>1. queue[i] \in Jobs BY <1>2
  <2>2. CASE queue[i].who = c /\ queue[i].cmd \in {"enroll", "delete"}
    <3>1. Orphaned(c)[i] = [queue[i] EXCEPT !.who = None] BY <1>1, <2>2 DEF Orphaned
    <3> QED BY <2>1, <2>2, <3>1 DEF Jobs
  <2>3. CASE ~(queue[i].who = c /\ queue[i].cmd \in {"enroll", "delete"})
    <3>1. Orphaned(c)[i] = queue[i] BY <1>1, <2>3 DEF Orphaned
    <3> QED BY <2>1, <2>3, <3>1
  <2> QED BY <2>2, <2>3
<1>4. Orphaned(c) \in [1..Len(queue) -> Jobs] BY <1>1, <1>3 DEF Orphaned
<1>5. Orphaned(c) \in Seq(Jobs) /\ Len(Orphaned(c)) = Len(queue) BY <1>1, <1>4, SeqDef, LenProperties
<1>6. queue # <<>> => Orphaned(c) # <<>> /\ Head(Orphaned(c)).cmd = Head(queue).cmd
  <2> HAVE queue # <<>>
  <2>1. Len(queue) # 0 BY <1>1, EmptySeq
  <2>2. Orphaned(c) # <<>> BY <1>5, <2>1, EmptySeq
  <2>3. Head(queue) = queue[1] /\ 1 \in 1..Len(queue) BY <1>1, HeadServed
  <2>4. Head(Orphaned(c)) = Orphaned(c)[1] BY <1>5, <2>2, HeadServed
  <2> QED BY <1>3, <2>2, <2>3, <2>4
<1> QED BY <1>1, <1>3, <1>4, <1>5, <1>6

-----------------------------------------------------------------------------
(* Types *)

LEMMA EnqueuedTyped ==
  ASSUME QueueOK, NEW job \in Jobs, job.cmd = "enroll" => job.slot \in Slots, Enqueue(job),
         UNCHANGED <<gating, link>>
  PROVE  QueueOK'
<1>1. queue \in Seq(Jobs) /\ queue' = Append(queue, job) /\ Len(queue) < MaxJobs
  BY DEF QueueOK, Enqueue
<1>2. queue' \in Seq(Jobs) /\ Len(queue') <= MaxJobs
  BY <1>1, JobsAppended, EnrollmentAssumption
<1>3. \A i \in DOMAIN queue' : queue'[i].cmd = "enroll" => queue'[i].slot \in Slots
  <2> TAKE i \in DOMAIN queue'
  <2>1. (i \in DOMAIN queue /\ queue'[i] = queue[i]) \/ queue'[i] = job BY <1>1, JobsAppended
  <2> QED BY <2>1 DEF QueueOK
<1>4. gating' => link' /\ queue' # <<>> /\ Head(queue').cmd \in {"enroll", "delete"}
  BY <1>1, JobsAppended DEF QueueOK
<1> QED BY <1>2, <1>3, <1>4 DEF QueueOK

LEMMA ServedTyped ==
  ASSUME QueueOK, queue # <<>>, queue' = Tail(queue), gating' = FALSE
  PROVE  QueueOK'
<1>1. queue \in Seq(Jobs) /\ Len(queue) <= MaxJobs /\ MaxJobs \in Nat
  BY EnrollmentAssumption DEF QueueOK
<1>2. queue' \in Seq(Jobs) /\ Len(queue') <= MaxJobs BY <1>1, HeadServed
<1>3. \A i \in DOMAIN queue' : queue'[i].cmd = "enroll" => queue'[i].slot \in Slots
  BY <1>1, HeadServed DEF QueueOK
<1> QED BY <1>2, <1>3 DEF QueueOK

LEMMA OrphanedTyped ==
  ASSUME QueueOK, NEW c \in Clients, queue' = Orphaned(c), UNCHANGED <<gating, link>>
  PROVE  QueueOK'
BY OrphanedJobs DEF QueueOK

\* What a client may put into the queue.
JobOf(c, job) ==
  \/ job = [who |-> c, cmd |-> "list", slot |-> 0] /\ link
     /\ ((pc[c] = "idle" /\ pc' = Set(pc, c, "list")) \/ (pc[c] = "poll" /\ pc' = Set(pc, c, "check")))
  \/ job = [who |-> c, cmd |-> op[c], slot |-> slot[c]] /\ op[c] \in {"enroll", "delete"} /\ link
     /\ pc[c] = "begin" /\ pc' = Set(pc, c, "wait")
  \/ job.who = None /\ job.cmd \in {"enrollCancel", "gateCancel"} /\ job.slot = 0 /\ job \in Jobs /\ link

\* What the clients leave of the device, and what they do to the queue.
LEMMA ClientQueues ==
  ASSUME NEW c \in Clients, Client(c)
  PROVE  /\ UNCHANGED <<deviceVars, gating>>
         /\ \/ UNCHANGED queue
            \/ queue' = Orphaned(c) /\ HangUp(c) /\ pc[c] = "wait" /\ reply[c] = None
            \/ \E job : JobOf(c, job) /\ Enqueue(job)
<1> USE DEF daemonVars
<1>1. CASE Load(c)
  BY <1>1 DEF Load, List, Job, JobOf
<1>2. CASE Loaded(c) BY <1>2 DEF Loaded
<1>3. CASE ChooseEnroll(c) \/ ChooseDelete(c) BY <1>3 DEF ChooseEnroll, ChooseDelete, Begins
<1>4. CASE StopsBefore(c) BY <1>4 DEF StopsBefore
<1>5. CASE FpEnroll(c) \/ FpDelete(c)
  BY <1>5 DEF FpEnroll, FpDelete, Job, JobOf
<1>6. CASE EnrollAnswered(c) \/ DeleteAnswered(c) BY <1>6 DEF EnrollAnswered, DeleteAnswered
<1>7. CASE Stop(c) \/ PollEnds(c) \/ PollListed(c) \/ PollTimeout(c) \/ Dismiss(c) \/ Cancel(c)
  BY <1>7 DEF Stop, PollEnds, PollListed, PollTimeout, Dismiss, Cancel
<1>8. CASE PollIdle(c) BY <1>8 DEF PollIdle, List, Job, JobOf
<1>9. CASE ThreadCancels(c) \/ Leave(c)
  BY <1>9 DEF ThreadCancels, Leave, EnrollCancel, GateCancel, JobOf, Jobs
<1>10. CASE HangUp(c) BY <1>10 DEF HangUp, Orphaned
<1> QED BY <1>1, <1>2, <1>3, <1>4, <1>5, <1>6, <1>7, <1>8, <1>9, <1>10 DEF Client, Polls

LEMMA JobTyped ==
  ASSUME UserOK, NEW c \in Clients, NEW job, JobOf(c, job)
  PROVE  job \in Jobs /\ (job.cmd = "enroll" => job.slot \in Slots)
BY DEF UserOK, JobOf, Jobs

LEMMA ClientKeepsQueue ==
  ASSUME QueueOK, UserOK, NEW c \in Clients, Client(c)
  PROVE  QueueOK'
<1>1. UNCHANGED <<gating, link>> BY ClientQueues DEF deviceVars
<1>2. CASE UNCHANGED queue BY <1>1, <1>2 DEF QueueOK
<1>3. CASE queue' = Orphaned(c) BY <1>1, <1>3, OrphanedTyped
<1>4. ASSUME NEW job, JobOf(c, job), Enqueue(job) PROVE QueueOK'
  BY <1>1, <1>4, JobTyped, EnqueuedTyped
<1> QED BY <1>2, <1>3, <1>4, ClientQueues

LEMMA ClientKeepsUser ==
  ASSUME UserOK, QueueOK, DaemonOK, NEW c \in Clients, Client(c)
  PROVE  UserOK'
<1> USE DEF UserOK, Places, Set, Tells, Ends, Taken, userVars
<1>1. CASE Load(c) \/ Loaded(c) BY <1>1 DEF Load, List, Loaded, Listed
<1>2. CASE ChooseEnroll(c) \/ ChooseDelete(c)
  <2>1. PICK s \in Slots, o \in {"enroll", "delete"} : Begins(c, o, s) BY <1>2 DEF ChooseEnroll, ChooseDelete
  <2> QED BY <2>1 DEF Begins
<1>3. CASE StopsBefore(c) \/ Dismiss(c) BY <1>3 DEF StopsBefore, Dismiss
<1>4. CASE FpEnroll(c) BY <1>4 DEF FpEnroll
<1>5. CASE FpDelete(c) BY <1>5 DEF FpDelete
<1>6. CASE EnrollAnswered(c) BY <1>6 DEF EnrollAnswered
<1>7. CASE DeleteAnswered(c) BY <1>7 DEF DeleteAnswered
<1>8. CASE Stop(c) \/ PollTimeout(c) BY <1>8 DEF Stop, PollTimeout
<1>9. CASE PollEnds(c) BY <1>9 DEF PollEnds, Final
<1>10. CASE PollIdle(c) BY <1>10 DEF PollIdle, List
<1>11. CASE PollListed(c) BY <1>11 DEF PollListed, Listed
<1>12. CASE Cancel(c) \/ ThreadCancels(c) BY <1>12 DEF Cancel, ThreadCancels
<1>13. CASE Leave(c) BY <1>13 DEF Leave
<1>14. CASE HangUp(c) BY <1>14 DEF HangUp
<1> QED BY <1>1, <1>2, <1>3, <1>4, <1>5, <1>6, <1>7, <1>8, <1>9, <1>10, <1>11, <1>12, <1>13, <1>14
        DEF Client, Polls

LEMMA ClientKeepsDaemon ==
  ASSUME DaemonOK, UserOK, NEW c \in Clients, Client(c)
  PROVE  DaemonOK'
<1> USE DEF DaemonOK, daemonVars, deviceVars
<1>1. CASE Loaded(c) \/ PollListed(c)
  <2>1. UNCHANGED <<last, permit>> /\ bitmap' \in {bitmap, found[c]} /\ stale' \in {stale, FALSE}
    BY <1>1 DEF Loaded, PollListed, Listed
  <2>2. found[c] \subseteq Slots \cup Kept BY DEF UserOK
  <2> QED BY <2>1, <2>2
<1>2. CASE FpEnroll(c) BY <1>2 DEF FpEnroll, ClearEvent
<1>3. CASE DeleteAnswered(c) BY <1>3 DEF DeleteAnswered
<1>4. CASE ThreadCancels(c) \/ Leave(c)
  <2>1. /\ UNCHANGED <<bitmap, stale>> /\ last' \in {last, None}
        /\ permit' \in {permit, permit \/ gating, permit \/ (link /\ gating)}
    BY <1>4 DEF ThreadCancels, Leave, EnrollCancel, GateCancel
  <2> QED BY <2>1
<1>5. CASE HangUp(c) BY <1>5 DEF HangUp
<1>6. CASE \/ Load(c) \/ ChooseEnroll(c) \/ ChooseDelete(c) \/ StopsBefore(c) \/ FpDelete(c)
           \/ EnrollAnswered(c) \/ Stop(c) \/ PollEnds(c) \/ PollIdle(c) \/ PollTimeout(c)
           \/ Dismiss(c) \/ Cancel(c)
  BY <1>6 DEF Load, ChooseEnroll, ChooseDelete, Begins, StopsBefore, FpDelete, EnrollAnswered, Stop,
              PollEnds, PollIdle, PollTimeout, Dismiss, Cancel
<1> QED BY <1>1, <1>2, <1>3, <1>4, <1>5, <1>6 DEF Client, Polls

LEMMA ClientKeepsMarks ==
  ASSUME MarksOK, NEW c \in Clients, Client(c)
  PROVE  MarksOK'
<1> USE DEF MarksOK, marks, userVars, Set, Ends
<1>1. CASE ChooseEnroll(c) \/ ChooseDelete(c) BY <1>1 DEF ChooseEnroll, ChooseDelete, Begins
<1>2. CASE StopsBefore(c) \/ Dismiss(c) \/ Leave(c) BY <1>2 DEF StopsBefore, Dismiss, Leave
<1>3. CASE FpEnroll(c)
  <2>1. UNCHANGED <<cancelled, thread, own, known>> BY <1>3 DEF FpEnroll
  <2>2. solo' \in [Clients -> BOOLEAN] BY <1>3 DEF FpEnroll, AtRest
  <2> QED BY <2>1, <2>2
<1>4. CASE EnrollAnswered(c)
  <2>1. known' = [known EXCEPT ![c] = known[c] \/ reply[c] = "ok"] BY <1>4 DEF EnrollAnswered
  <2>2. known' \in [Clients -> BOOLEAN] BY <2>1
  <2> QED BY <1>4, <2>2 DEF EnrollAnswered
<1>5. CASE ThreadCancels(c)
  <2>1. known' = [known EXCEPT ![c] = known[c] \/ (link /\ pc[c] # "begin")] BY <1>5 DEF ThreadCancels
  <2>2. known' \in [Clients -> BOOLEAN] BY <2>1
  <2> QED BY <1>5, <2>2 DEF ThreadCancels
<1>6. CASE Cancel(c) \/ HangUp(c) BY <1>6 DEF Cancel, HangUp
<1>7. CASE \/ Load(c) \/ Loaded(c) \/ FpDelete(c) \/ DeleteAnswered(c) \/ Stop(c) \/ PollEnds(c)
           \/ PollIdle(c) \/ PollListed(c) \/ PollTimeout(c)
  BY <1>7 DEF Load, Loaded, FpDelete, DeleteAnswered, Stop, PollEnds, PollIdle, PollListed, PollTimeout
<1> QED BY <1>1, <1>2, <1>3, <1>4, <1>5, <1>6, <1>7 DEF Client, Polls

LEMMA ClientKeepsTypes ==
  ASSUME Types, NEW c \in Clients, Client(c)
  PROVE  Types'
<1>1. DeviceOK' /\ AirOK' BY ClientQueues DEF Types, DeviceOK, AirOK, deviceVars
<1> QED BY <1>1, ClientKeepsQueue, ClientKeepsUser, ClientKeepsDaemon, ClientKeepsMarks DEF Types

\* A job that is answered is the head, and what it answers goes to its client.
LEMMA HeadJob ==
  ASSUME QueueOK, queue # <<>>
  PROVE  /\ Head(queue) \in Jobs /\ 1 \in DOMAIN queue /\ Head(queue) = queue[1]
         /\ Head(queue).cmd = "enroll" => Head(queue).slot \in Slots
BY HeadServed DEF QueueOK

LEMMA AnswerTyped ==
  ASSUME UserOK, NEW job \in Jobs, NEW what \in {"ok", "error"}, Answer(job, what) \/ UNCHANGED reply,
         UNCHANGED <<pc, op, slot, found, result>>
  PROVE  UserOK'
<1>1. job.who \in Clients \cup {None} BY DEF Jobs
<1>2. reply' \in [Clients -> {None, "ok", "error"}] BY <1>1 DEF Answer, Set, UserOK
<1> QED BY <1>2 DEF UserOK

LEMMA ExecutesTyped ==
  ASSUME fingers \subseteq Slots \cup Kept, NEW job \in Jobs, job.cmd = "enroll" => job.slot \in Slots,
         capture \in [slot : Slots, who : Clients \cup {None}] \cup {None}, Executes(job)
  PROVE  /\ fingers' \subseteq Slots \cup Kept
         /\ capture' \in [slot : Slots, who : Clients \cup {None}] \cup {None}
<1>1. job.who \in Clients \cup {None} BY DEF Jobs
<1> QED BY <1>1 DEF Executes

LEMMA WorkerKeepsTypes ==
  ASSUME Types, Worker
  PROVE  Types'
<1> USE DEF WorkerFrame, marks
<1>1. CASE Serve
  <2> DEFINE job == Head(queue)
  <2>1. /\ job \in Jobs /\ queue # <<>> /\ job.cmd \in {"list", "enrollCancel", "gateCancel"}
        /\ job.who \in Clients \cup {None}
    BY <1>1, HeadJob DEF Serve, Types, Jobs
  <2>2. gating' = FALSE BY <1>1, <2>1 DEF Serve, Types, QueueOK
  <2>3. QueueOK' BY <1>1, <2>1, <2>2, ServedTyped DEF Serve, Types
  <2>4. DeviceOK' /\ AirOK' /\ DaemonOK' /\ MarksOK'
    BY <1>1 DEF Serve, Types, DeviceOK, AirOK, DaemonOK, MarksOK
  <2>5. reply' \in [Clients -> {None, "ok", "error"}]
    BY <1>1, <2>1 DEF Serve, Answer, Set, Types, UserOK
  <2>6. found' \in [Clients -> SUBSET (Slots \cup Kept)]
    BY <1>1, <2>1 DEF Serve, Set, Types, UserOK, DeviceOK
  <2>7. UserOK' BY <1>1, <2>5, <2>6 DEF Serve, Types, UserOK
  <2> QED BY <2>3, <2>4, <2>7 DEF Types
<1>2. CASE ServeGated
  <2>1. /\ Head(queue) \in Jobs /\ queue # <<>> /\ Head(queue).cmd \in {"enroll", "delete"} /\ link
        /\ ~gating /\ (Head(queue).cmd = "enroll" => Head(queue).slot \in Slots)
        /\ UNCHANGED <<link, air, last, permit, found>>
    BY <1>2, HeadJob DEF ServeGated, Types
  <2>2. AirOK' /\ DaemonOK' /\ MarksOK'
    BY <1>2, <2>1 DEF ServeGated, Types, AirOK, DaemonOK, MarksOK
  <2>3. UserOK'
    BY <1>2, <2>1, AnswerTyped DEF ServeGated, Types
  <2>4. DeviceOK' /\ QueueOK'
    <3>1. CASE fingers = {}
      <4>1. gating' = FALSE /\ queue' = Tail(queue) /\ Executes(Head(queue)) /\ UNCHANGED armed
        BY <1>2, <2>1, <3>1 DEF ServeGated, Types, QueueOK
      <4>2. QueueOK' BY <2>1, <4>1, ServedTyped DEF Types
      <4>3. DeviceOK' BY <2>1, <4>1, ExecutesTyped DEF Types, DeviceOK
      <4> QED BY <4>2, <4>3
    <3>2. CASE fingers # {}
      <4>1. gating' = TRUE /\ armed' = Head(queue) /\ UNCHANGED <<fingers, capture, queue>>
        BY <1>2, <3>2 DEF ServeGated
      <4> QED BY <2>1, <4>1 DEF Types, QueueOK, DeviceOK
    <3> QED BY <3>1, <3>2
  <2> QED BY <2>2, <2>3, <2>4 DEF Types
<1>3. ASSUME NEW what \in {"ok", "error"}, gating, GateEnds(what),
             UNCHANGED <<pc, op, slot, found, result>>
      PROVE  QueueOK' /\ UserOK'
  <2>1. queue # <<>> /\ Head(queue) \in Jobs BY <1>3, HeadJob DEF Types, QueueOK
  <2>2. QueueOK' BY <1>3, <2>1, ServedTyped DEF GateEnds, Types
  <2>3. UserOK' BY <1>3, <2>1, AnswerTyped DEF GateEnds, Types
  <2> QED BY <2>2, <2>3
<1>4. CASE GateIsCancelled \/ GateTimesOut
  <2>1. DeviceOK' /\ AirOK' /\ DaemonOK' /\ MarksOK'
    BY <1>4 DEF GateIsCancelled, GateTimesOut, Types, DeviceOK, AirOK, DaemonOK, MarksOK
  <2> QED BY <1>3, <1>4, <2>1 DEF GateIsCancelled, GateTimesOut, Types
<1>5. CASE Route
  <2>1. /\ air \in Seq(Notes) /\ air # <<>> /\ air' = Tail(air)
        /\ UNCHANGED <<link, fingers, armed, capture, permit, bitmap>>
    BY <1>5 DEF Route, Types, AirOK
  <2>2. Head(air) \in Notes /\ AirOK'
    <3>1. Len(air) <= MaxAir /\ MaxAir \in Nat BY EnrollmentAssumption DEF Types, AirOK
    <3> QED BY <2>1, <3>1, HeadServed DEF AirOK
  <2>3. DeviceOK' /\ MarksOK' BY <1>5, <2>1 DEF Route, Types, DeviceOK, MarksOK
  <2>4. DaemonOK' BY <1>5, <2>1, <2>2 DEF Route, Types, DaemonOK, Notes
  <2>5. QueueOK' /\ UserOK'
    <3>1. CASE gating /\ GateEnds("ok") BY <1>3, <1>5, <3>1 DEF Route
    <3>2. CASE UNCHANGED <<gating, queue, reply>>
      BY <1>5, <2>1, <3>2 DEF Route, Types, QueueOK, UserOK
    <3> QED BY <1>5, <3>1, <3>2 DEF Route
  <2> QED BY <2>2, <2>3, <2>4, <2>5 DEF Types
<1> QED BY <1>1, <1>2, <1>4, <1>5 DEF Worker

LEMMA DeviceKeepsTypes ==
  ASSUME Types, Device
  PROVE  Types'
<1>1. /\ UNCHANGED <<link, daemonVars, userVars, solo, known>>
      /\ \E n \in Notes : Notifies(n)
  BY DEF Device, DeviceFrame, Touch, Press, Store, Notes
<1>2. AirOK'
  <2>1. PICK n \in Notes : Len(air) < MaxAir /\ air' = Append(air, n) BY <1>1 DEF Notifies
  <2>2. air \in Seq(Notes) /\ MaxAir \in Nat BY EnrollmentAssumption DEF Types, AirOK
  <2> QED BY <2>1, <2>2, JobsAppended DEF AirOK
<1>3. DaemonOK' /\ QueueOK' /\ UserOK'
  BY <1>1 DEF Types, DaemonOK, QueueOK, UserOK, daemonVars, userVars
<1>4. MarksOK'
  <2>1. own' \in [Clients -> BOOLEAN]
    <3>1. own \in [Clients -> BOOLEAN] BY DEF Types, MarksOK
    <3>2. own' = own \/ own' = Set(own, capture.who, TRUE) BY DEF Device, Touch, Press, Store
    <3> QED BY <3>1, <3>2 DEF Set
  <2> QED BY <1>1, <2>1 DEF Types, MarksOK, userVars
<1>5. DeviceOK'
  <2>1. CASE Touch
    <3>1. armed \in Jobs /\ (armed.cmd = "enroll" => armed.slot \in Slots) /\ Executes(armed) /\ armed' = None
      BY <2>1 DEF Touch, Types, DeviceOK
    <3> QED BY <1>1, <3>1, ExecutesTyped DEF Types, DeviceOK
  <2>2. CASE Press BY <1>1, <2>2 DEF Press, Types, DeviceOK
  <2>3. CASE Store
    <3>1. capture.slot \in Slots /\ capture' = None /\ UNCHANGED armed
          /\ (fingers' = fingers \/ fingers' = fingers \cup {capture.slot})
      BY <2>3 DEF Store, Types, DeviceOK
    <3> QED BY <1>1, <3>1 DEF Types, DeviceOK
  <2> QED BY <2>1, <2>2, <2>3 DEF Device
<1> QED BY <1>2, <1>3, <1>4, <1>5 DEF Types

LEMMA LinkKeepsTypes ==
  ASSUME Types, LinkLost \/ Connect
  PROVE  Types'
<1> USE DEF marks, userVars
<1>1. CASE LinkLost
  <2>1. <<>> \in Seq(Jobs) /\ <<>> \in Seq(Notes) /\ Len(<<>>) = 0 /\ DOMAIN <<>> = {} OBVIOUS
  <2>2. 0 <= MaxAir /\ 0 <= MaxJobs BY EnrollmentAssumption
  <2>3. reply' \in [Clients -> {None, "ok", "error"}] BY <1>1 DEF LinkLost, Types, UserOK
  <2>4. UserOK' BY <1>1, <2>3 DEF LinkLost, Types, UserOK
  <2>5. QueueOK' /\ AirOK' BY <1>1, <2>1, <2>2 DEF LinkLost, QueueOK, AirOK
  <2> QED BY <1>1, <2>4, <2>5 DEF LinkLost, Types, DeviceOK, DaemonOK, MarksOK
<1>2. CASE Connect
  <2>1. DeviceOK' /\ AirOK' /\ DaemonOK' BY <1>2 DEF Connect, Types, DeviceOK, AirOK, DaemonOK
  <2>2. QueueOK' BY <1>2 DEF Connect, Types, QueueOK
  <2>3. UserOK' /\ MarksOK' BY <1>2 DEF Connect, Types, UserOK, MarksOK
  <2> QED BY <2>1, <2>2, <2>3 DEF Types
<1> QED BY <1>1, <1>2

LEMMA TypesHold == Spec => []Types
<1>1. Init => Types
  <2> SUFFICES ASSUME Init PROVE Types OBVIOUS
  <2>1. <<>> \in Seq(Jobs) /\ <<>> \in Seq(Notes) /\ Len(<<>>) = 0 /\ DOMAIN <<>> = {} OBVIOUS
  <2>2. 0 <= MaxAir /\ 0 <= MaxJobs BY EnrollmentAssumption
  <2>3. DeviceOK /\ DaemonOK BY DEF Init, DeviceOK, DaemonOK
  <2>4. AirOK /\ QueueOK BY <2>1, <2>2 DEF Init, AirOK, QueueOK
  <2>5. UserOK BY DEF Init, UserOK, Places
  <2>6. MarksOK BY DEF Init, MarksOK
  <2> QED BY <2>3, <2>4, <2>5, <2>6 DEF Types
<1>2. Types /\ [Next]_vars => Types'
  <2> SUFFICES ASSUME Types, [Next]_vars PROVE Types' OBVIOUS
  <2>1. CASE UNCHANGED vars
    BY <2>1 DEF vars, deviceVars, daemonVars, userVars, marks, Types, DeviceOK, AirOK, DaemonOK, QueueOK,
                UserOK, MarksOK
  <2> QED BY <2>1, WorkerKeepsTypes, DeviceKeepsTypes, LinkKeepsTypes, ClientKeepsTypes DEF Next
<1> QED BY <1>1, <1>2, PTL DEF Spec

\* For any programs, slots and bounds every variable keeps its type: the gate that is
\* active belongs to the head of the queue, and only slots are ever captured.
THEOREM TypeCorrect == Spec => []TypeOK
<1>1. Types => TypeOK
  <2> SUFFICES ASSUME Types PROVE TypeOK OBVIOUS
  <2>1. \A c \in Clients : slot[c] \in Slots \cup {0} BY DEF Types, UserOK
  <2>2. {cancelled, thread, own, solo, known} \subseteq [Clients -> BOOLEAN] BY DEF Types, MarksOK
  <2> QED BY <2>1, <2>2 DEF TypeOK, Types, DeviceOK, AirOK, DaemonOK, QueueOK, UserOK, Places, Notes
<1> QED BY <1>1, TypesHold, PTL

-----------------------------------------------------------------------------
(* A cancelled enrolment lets the device go *)

\* What the device holds is what its gate and its link hold.
HeldOK ==
  /\ armed # None => gating /\ \A i \in DOMAIN air : air[i] # "approved"
  /\ ~link => queue = <<>> /\ armed = None /\ capture = None

\* Nothing the client asked for is on the device or on its way there ...
Clean(c) ==
  /\ armed # None => armed.who # c
  /\ capture # None => capture.who # c
  /\ \A j \in DOMAIN queue : queue[j].who = c => queue[j].cmd = "list"

\* ... or a cancel is, behind all of it.
Covered(c) ==
  \E i \in DOMAIN queue :
    /\ queue[i].cmd = "enrollCancel"
    /\ \A j \in DOMAIN queue : queue[j].who = c /\ queue[j].cmd # "list" => j < i

\* A dialog that was cancelled too early to be covered leaves by its own cancel.
Released(c) ==
  Kind[c] = "gui" /\ op[c] = "enroll" /\ cancelled[c] /\ known[c] /\ ~thread[c] =>
    Clean(c) \/ Covered(c) \/ pc[c] \in {"poll", "leave"}

ReleaseInv ==
  HeldOK /\ \A c \in Clients : Released(c) /\ (pc[c] = "begin" => ~known[c])

LEMMA CleanKept ==
  ASSUME NEW c, Clean(c), UNCHANGED <<armed, capture, queue>>
  PROVE  Clean(c)'
BY DEF Clean

LEMMA CoveredKept ==
  ASSUME NEW c, Covered(c), UNCHANGED queue
  PROVE  Covered(c)'
BY DEF Covered

\* A job is appended: of another client, a list, or the cancel itself.
LEMMA AppendedKeeps ==
  ASSUME QueueOK, NEW c, NEW job \in Jobs, queue' = Append(queue, job), UNCHANGED <<armed, capture>>
  PROVE  /\ Clean(c) /\ (job.who = c => job.cmd = "list") => Clean(c)'
         /\ Covered(c) /\ (job.who = c => job.cmd = "list") => Covered(c)'
         /\ job.who = None /\ c # None /\ job.cmd = "enrollCancel" => Covered(c)'
<1>1. /\ DOMAIN queue = 1..Len(queue) /\ DOMAIN queue' = 1..Len(queue) + 1 /\ Len(queue) \in Nat
      /\ \A i \in DOMAIN queue : queue'[i] = queue[i]
      /\ queue'[Len(queue) + 1] = job
  BY JobsAppended DEF QueueOK
<1>2. \A i \in DOMAIN queue' : i \in DOMAIN queue \/ i = Len(queue) + 1 BY <1>1
<1>3. Clean(c) /\ (job.who = c => job.cmd = "list") => Clean(c)' BY <1>1, <1>2 DEF Clean
<1>4. ASSUME Covered(c), job.who = c => job.cmd = "list" PROVE Covered(c)'
  <2>1. PICK i \in DOMAIN queue :
          /\ queue[i].cmd = "enrollCancel"
          /\ \A j \in DOMAIN queue : queue[j].who = c /\ queue[j].cmd # "list" => j < i
    BY <1>4 DEF Covered
  <2>2. i \in DOMAIN queue' /\ queue'[i].cmd = "enrollCancel" BY <1>1, <2>1
  <2>3. ASSUME NEW j \in DOMAIN queue', queue'[j].who = c, queue'[j].cmd # "list" PROVE j < i
    <3>1. j \in DOMAIN queue BY <1>1, <1>2, <1>4, <2>3
    <3> QED BY <1>1, <2>1, <2>3, <3>1
  <2> QED BY <2>2, <2>3 DEF Covered
<1>5. ASSUME job.who = None, c # None, job.cmd = "enrollCancel" PROVE Covered(c)'
  <2>1. Len(queue) + 1 \in DOMAIN queue' /\ queue'[Len(queue) + 1].cmd = "enrollCancel" BY <1>1, <1>5
  <2>2. ASSUME NEW j \in DOMAIN queue', queue'[j].who = c PROVE j < Len(queue) + 1
    <3>1. j \in DOMAIN queue BY <1>1, <1>2, <1>5, <2>2
    <3> QED BY <1>1, <3>1
  <2> QED BY <2>1, <2>2 DEF Covered
<1> QED BY <1>3, <1>4, <1>5

\* The head is served: what is behind it moves up.
LEMMA ServedKeeps ==
  ASSUME QueueOK, NEW c, queue # <<>>, queue' = Tail(queue)
  PROVE  /\ Covered(c) /\ Head(queue).cmd # "enrollCancel" => Covered(c)'
         /\ Covered(c) /\ Head(queue).cmd = "enrollCancel" =>
              Covered(c)' \/ \A j \in DOMAIN queue' : queue'[j].who = c => queue'[j].cmd = "list"
         /\ Clean(c) => \A j \in DOMAIN queue' : queue'[j].who = c => queue'[j].cmd = "list"
<1>1. /\ DOMAIN queue = 1..Len(queue) /\ DOMAIN queue' = 1..Len(queue) - 1 /\ Len(queue) \in Nat
      /\ \A i \in DOMAIN queue' : i + 1 \in DOMAIN queue /\ queue'[i] = queue[i + 1]
      /\ Head(queue) = queue[1]
  BY HeadServed DEF QueueOK
<1>2. ASSUME NEW i \in DOMAIN queue, i # 1, queue[i].cmd = "enrollCancel",
             \A j \in DOMAIN queue : queue[j].who = c /\ queue[j].cmd # "list" => j < i
      PROVE  Covered(c)'
  <2>1. i - 1 \in DOMAIN queue' /\ i - 1 + 1 = i BY <1>1, <1>2
  <2>2. queue'[i - 1].cmd = "enrollCancel" BY <1>1, <1>2, <2>1
  <2>3. ASSUME NEW j \in DOMAIN queue', queue'[j].who = c, queue'[j].cmd # "list" PROVE j < i - 1
    <3>1. j + 1 < i BY <1>1, <1>2, <2>3
    <3> QED BY <1>1, <1>2, <3>1
  <2> QED BY <2>1, <2>2, <2>3 DEF Covered
<1>3. ASSUME NEW i \in DOMAIN queue, i = 1,
             \A j \in DOMAIN queue : queue[j].who = c /\ queue[j].cmd # "list" => j < i
      PROVE  \A j \in DOMAIN queue' : queue'[j].who = c => queue'[j].cmd = "list"
  BY <1>1, <1>3
<1>4. Clean(c) => \A j \in DOMAIN queue' : queue'[j].who = c => queue'[j].cmd = "list"
  BY <1>1 DEF Clean
<1> QED BY <1>1, <1>2, <1>3, <1>4 DEF Covered

LEMMA OrphanedKeeps ==
  ASSUME QueueOK, NEW c \in Clients, NEW d \in Clients, queue' = Orphaned(d), UNCHANGED <<armed, capture>>
  PROVE  /\ Clean(c) => Clean(c)'
         /\ Covered(c) => Covered(c)'
<1>0. c # None BY EnrollmentAssumption
<1>1. /\ DOMAIN queue' = DOMAIN queue
      /\ \A i \in DOMAIN queue : /\ queue'[i].cmd = queue[i].cmd
                                 /\ queue'[i].who = c => queue[i].who = c
  BY <1>0, OrphanedJobs
<1>2. Clean(c) => Clean(c)' BY <1>1 DEF Clean
<1>3. Covered(c) => Covered(c)' BY <1>1 DEF Covered
<1> QED BY <1>2, <1>3

LEMMA HeldKept ==
  ASSUME Types, HeldOK, [Next]_vars
  PROVE  HeldOK'
<1> USE DEF HeldOK
<1>1. CASE UNCHANGED vars BY <1>1 DEF vars, deviceVars, daemonVars
<1>2. ASSUME NEW c \in Clients, Client(c) PROVE HeldOK'
  <2>1. UNCHANGED <<link, armed, capture, air, gating>> BY <1>2, ClientQueues DEF deviceVars
  <2>2. CASE UNCHANGED queue BY <2>1, <2>2
  <2>3. CASE queue' = Orphaned(c)
    <3>1. queue = <<>> => queue' = <<>>
      <4>1. Len(queue') = Len(queue) /\ queue' \in Seq(Jobs) BY <2>3, OrphanedJobs DEF Types
      <4> QED BY <4>1, EmptySeq
    <3> QED BY <2>1, <3>1
  <2>4. ASSUME NEW job, JobOf(c, job) PROVE HeldOK' BY <2>1, <2>4 DEF JobOf
  <2> QED BY <1>2, <2>2, <2>3, <2>4, ClientQueues
<1>3. CASE Serve \/ ServeGated \/ GateIsCancelled \/ GateTimesOut
  <2>1. link BY <1>3 DEF Serve, ServeGated, GateIsCancelled, GateTimesOut, Types, QueueOK
  <2>2. UNCHANGED <<link, air>> BY <1>3 DEF Serve, ServeGated, GateIsCancelled, GateTimesOut
  <2>3. armed' # None => gating' /\ \A i \in DOMAIN air : air[i] # "approved"
    <3>1. CASE Serve BY <3>1 DEF Serve
    <3>2. CASE ServeGated
      <4>1. DOMAIN <<>> = {} OBVIOUS
      <4> QED BY <3>2, <4>1 DEF ServeGated
    <3> QED BY <1>3, <3>1, <3>2 DEF GateIsCancelled, GateTimesOut
  <2> QED BY <2>1, <2>2, <2>3
<1>4. CASE Route
  <2>1. air # <<>> /\ air' = Tail(air) /\ air \in Seq(Notes) BY <1>4 DEF Route, Types, AirOK
  <2>2. /\ 1 \in DOMAIN air /\ Head(air) = air[1]
        /\ \A i \in DOMAIN air' : i + 1 \in DOMAIN air /\ air'[i] = air[i + 1]
    BY <2>1, HeadServed
  <2>3. link /\ UNCHANGED <<link, armed, capture>> BY <1>4 DEF Route
  <2>4. armed # None => UNCHANGED gating BY <1>4, <2>2 DEF Route
  <2> QED BY <2>2, <2>3, <2>4
<1>5. CASE Device
  <2>1. UNCHANGED <<link, queue, gating>> BY <1>5 DEF Device, Touch, Press, Store, DeviceFrame, daemonVars
  <2>2. air \in Seq(Notes) BY DEF Types, AirOK
  <2>3. CASE Touch BY <2>1, <2>3 DEF Touch, Executes
  <2>4. CASE Press \/ Store
    <3>1. PICK n \in Notes \ {"approved"} : air' = Append(air, n)
      BY <2>4 DEF Press, Store, Notifies, Notes
    <3>2. \A i \in DOMAIN air' : (i \in DOMAIN air /\ air'[i] = air[i]) \/ air'[i] = n
      BY <2>2, <3>1, JobsAppended
    <3> QED BY <2>1, <2>4, <3>1, <3>2 DEF Press, Store
  <2> QED BY <1>5, <2>3, <2>4 DEF Device
<1>6. CASE LinkLost BY <1>6 DEF LinkLost
<1>7. CASE Connect BY <1>7 DEF Connect
<1> QED BY <1>1, <1>2, <1>3, <1>4, <1>5, <1>6, <1>7 DEF Next, Worker

\* Whatever the worker, the device and the link do, what is clean or covered stays so.
LEMMA OthersKeepReleased ==
  ASSUME Types, HeldOK, Worker \/ Device \/ LinkLost \/ Connect, NEW c \in Clients,
         Clean(c) \/ Covered(c)
  PROVE  (Clean(c) \/ Covered(c))'
<1>0. c # None BY EnrollmentAssumption
<1>1. CASE Serve
  <2>1. /\ queue # <<>> /\ queue' = Tail(queue) /\ QueueOK /\ gating = FALSE
        /\ Head(queue).cmd \in {"list", "enrollCancel", "gateCancel"}
    BY <1>1 DEF Serve, Types, QueueOK
  <2>2. armed = None /\ armed' = None BY <1>1, <2>1 DEF Serve, HeldOK
  <2>3. capture' = None \/ (capture' = capture /\ Head(queue).cmd # "enrollCancel") BY <1>1 DEF Serve
  <2>4. CASE Clean(c) BY <2>1, <2>2, <2>3, <2>4, ServedKeeps DEF Clean
  <2>5. CASE Covered(c) BY <2>1, <2>2, <2>3, <2>5, ServedKeeps DEF Clean
  <2> QED BY <2>4, <2>5
<1>2. CASE ServeGated
  <2>1. /\ queue # <<>> /\ QueueOK /\ Head(queue).cmd \in {"enroll", "delete"}
        /\ Head(queue) = queue[1] /\ 1 \in DOMAIN queue
    BY <1>2, HeadJob DEF ServeGated, Types
  <2>2. Clean(c) => Head(queue).who # c BY <2>1 DEF Clean
  <2>3. CASE fingers = {}
    <3>1. /\ queue' = Tail(queue) /\ UNCHANGED armed
          /\ capture' = capture \/ capture' = [slot |-> Head(queue).slot, who |-> Head(queue).who]
      BY <1>2, <2>3 DEF ServeGated, Executes
    <3>2. Covered(c) => Covered(c)' BY <2>1, <3>1, ServedKeeps
    <3>3. Clean(c) => Clean(c)' BY <2>1, <2>2, <3>1, ServedKeeps DEF Clean
    <3> QED BY <3>2, <3>3
  <2>4. CASE fingers # {}
    <3>1. UNCHANGED <<queue, capture>> /\ armed' = Head(queue) BY <1>2, <2>4 DEF ServeGated
    <3>2. Clean(c) => Clean(c)' BY <2>2, <3>1 DEF Clean
    <3> QED BY <3>1, <3>2, CoveredKept
  <2> QED BY <2>3, <2>4
<1>3. ASSUME gating, NEW what, GateEnds(what), armed' = armed \/ armed' = None, UNCHANGED capture
      PROVE  (Clean(c) \/ Covered(c))'
  <2>1. queue # <<>> /\ QueueOK /\ Head(queue).cmd # "enrollCancel" /\ queue' = Tail(queue)
    BY <1>3 DEF GateEnds, Types, QueueOK
  <2>2. Covered(c) => Covered(c)' BY <2>1, ServedKeeps
  <2>3. Clean(c) => Clean(c)' BY <1>3, <2>1, ServedKeeps DEF Clean
  <2> QED BY <2>2, <2>3
<1>4. CASE GateIsCancelled \/ GateTimesOut BY <1>3, <1>4 DEF GateIsCancelled, GateTimesOut
<1>5. CASE Route
  <2>1. CASE gating /\ GateEnds("ok") BY <1>3, <1>5, <2>1 DEF Route
  <2>2. CASE UNCHANGED queue BY <1>5, <2>2, CleanKept, CoveredKept DEF Route
  <2> QED BY <1>5, <2>1, <2>2 DEF Route
<1>6. CASE Device
  <2>1. UNCHANGED queue BY <1>6 DEF Device, Touch, Press, Store, DeviceFrame, daemonVars
  <2>2. /\ armed' = armed \/ armed' = None
        /\ \/ capture' \in {capture, None}
           \/ armed # None /\ capture' = [slot |-> armed.slot, who |-> armed.who]
    BY <1>6 DEF Device, Touch, Press, Store, Executes
  <2>3. Clean(c) => Clean(c)' BY <2>1, <2>2 DEF Clean
  <2> QED BY <2>1, <2>3, CoveredKept
<1>7. CASE LinkLost
  <2>1. DOMAIN <<>> = {} OBVIOUS
  <2> QED BY <1>7, <2>1 DEF LinkLost, Clean
<1>8. CASE Connect BY <1>8, CleanKept, CoveredKept DEF Connect
<1> QED BY <1>1, <1>2, <1>4, <1>5, <1>6, <1>7, <1>8 DEF Worker

\* A client's step is no other client's.
LEMMA OneClient ==
  ASSUME UserOK, MarksOK, NEW c \in Clients, Client(c), NEW d \in Clients, d # c
  PROVE  /\ UNCHANGED <<pc[d], op[d], slot[d], reply[d], found[d], result[d]>>
         /\ UNCHANGED <<cancelled[d], thread[d], own[d], known[d]>>
<1> USE DEF UserOK, MarksOK, userVars, marks, Set, Taken, Tells, Ends
<1>1. CASE Load(c) \/ Loaded(c) BY <1>1 DEF Load, List, Loaded, Listed
<1>2. CASE ChooseEnroll(c) \/ ChooseDelete(c) BY <1>2 DEF ChooseEnroll, ChooseDelete, Begins
<1>3. CASE StopsBefore(c) \/ Dismiss(c) \/ Leave(c) BY <1>3 DEF StopsBefore, Dismiss, Leave
<1>4. CASE FpEnroll(c) BY <1>4 DEF FpEnroll
<1>5. CASE FpDelete(c) BY <1>5 DEF FpDelete
<1>6. CASE EnrollAnswered(c) BY <1>6 DEF EnrollAnswered
<1>7. CASE DeleteAnswered(c) BY <1>7 DEF DeleteAnswered
<1>8. CASE Stop(c) \/ PollEnds(c) \/ PollTimeout(c) BY <1>8 DEF Stop, PollEnds, PollTimeout
<1>9. CASE PollIdle(c) BY <1>9 DEF PollIdle, List
<1>10. CASE PollListed(c) BY <1>10 DEF PollListed, Listed
<1>11. CASE Cancel(c) \/ ThreadCancels(c) BY <1>11 DEF Cancel, ThreadCancels
<1>12. CASE HangUp(c) BY <1>12 DEF HangUp
<1> QED BY <1>1, <1>2, <1>3, <1>4, <1>5, <1>6, <1>7, <1>8, <1>9, <1>10, <1>11, <1>12 DEF Client, Polls

\* ... and takes nothing of what is clean or covered of another, or of itself when all
\* it sends is a list.
LEMMA ClientKeepsReleased ==
  ASSUME Types, NEW c \in Clients, Client(c), NEW d \in Clients,
         d # c \/ UNCHANGED queue \/ \E job : JobOf(c, job) /\ job.cmd = "list" /\ Enqueue(job)
  PROVE  /\ Clean(d) => Clean(d)'
         /\ Covered(d) => Covered(d)'
<1>0. d # None /\ QueueOK /\ UserOK /\ UNCHANGED <<armed, capture>>
  BY EnrollmentAssumption, ClientQueues DEF Types, deviceVars
<1>1. CASE UNCHANGED queue BY <1>0, <1>1, CleanKept, CoveredKept
<1>2. CASE queue' = Orphaned(c) BY <1>0, <1>2, OrphanedKeeps
<1>3. ASSUME NEW job, JobOf(c, job), Enqueue(job), job.who = d => job.cmd = "list"
      PROVE  (Clean(d) => Clean(d)') /\ (Covered(d) => Covered(d)')
  <2>1. job \in Jobs BY <1>0, <1>3, JobTyped
  <2> QED BY <1>0, <1>3, <2>1, AppendedKeeps DEF Enqueue
<1>4. CASE d # c
  <2>1. \A job : JobOf(c, job) => job.who # d BY <1>0, <1>4 DEF JobOf
  <2> QED BY <1>1, <1>2, <1>3, <2>1, ClientQueues
<1> QED BY <1>1, <1>3, <1>4

\* FP:ENROLL_CANCEL covers its client, or there is no link and nothing to cover.
LEMMA CancelCovers ==
  ASSUME Types, HeldOK, NEW c \in Clients, EnrollCancel(c), UNCHANGED <<link, armed, capture>>
  PROVE  (Clean(c) \/ Covered(c))'
<1>0. c # None BY EnrollmentAssumption
<1>1. CASE link
  <2> DEFINE job == [who |-> None, cmd |-> "enrollCancel", slot |-> 0]
  <2>1. job \in Jobs /\ queue' = Append(queue, job) BY <1>1 DEF EnrollCancel, Enqueue, Jobs
  <2>2. job.who = None /\ job.cmd = "enrollCancel" OBVIOUS
  <2> HIDE DEF job
  <2> QED BY <1>0, <2>1, <2>2, AppendedKeeps DEF Types
<1>2. CASE ~link
  <2>1. DOMAIN <<>> = {} OBVIOUS
  <2> QED BY <1>2, <2>1 DEF EnrollCancel, HeldOK, Clean
<1> QED BY <1>1, <1>2 DEF Types, DeviceOK

\* The steps of the client itself.
LEMMA OwnStepReleases ==
  ASSUME Types, HeldOK, NEW c \in Clients, Client(c), Released(c), pc[c] = "begin" => ~known[c]
  PROVE  Released(c)' /\ (pc'[c] = "begin" => ~known'[c])
<1> USE DEF Set, Taken, Tells, Ends, userVars, marks
<1>0. UserOK /\ MarksOK BY DEF Types
<1>1. CASE Load(c) \/ Loaded(c) \/ PollIdle(c) \/ PollListed(c)
  <2>1. /\ UNCHANGED <<op, cancelled, thread, known>> /\ pc'[c] # "begin"
        /\ pc[c] \in {"poll", "leave"} => ~Stops(c)
    BY <1>0, <1>1 DEF Load, List, Loaded, Listed, PollIdle, PollListed, UserOK
  <2>2. UNCHANGED queue \/ \E job : JobOf(c, job) /\ job.cmd = "list" /\ Enqueue(job)
    BY <1>1 DEF Load, List, Loaded, PollIdle, PollListed, Job, JobOf
  <2>3. (Clean(c) => Clean(c)') /\ (Covered(c) => Covered(c)') BY <2>2, ClientKeepsReleased
  <2> QED BY <2>1, <2>3 DEF Released, Stops
<1>2. CASE DeleteAnswered(c) \/ Stop(c) \/ PollEnds(c) \/ PollTimeout(c) \/ Dismiss(c)
  <2>1. /\ UNCHANGED <<op, cancelled, thread, known, queue>> /\ pc'[c] # "begin"
        /\ \/ pc[c] \notin {"poll", "leave"}
           \/ ~Stops(c)
           \/ pc'[c] = "leave"
    BY <1>0, <1>2 DEF DeleteAnswered, Stop, PollEnds, PollTimeout, Dismiss, UserOK, daemonVars
  <2>2. (Clean(c) => Clean(c)') /\ (Covered(c) => Covered(c)') BY <2>1, ClientKeepsReleased
  <2> QED BY <2>1, <2>2 DEF Released, Stops
<1>3. CASE ChooseEnroll(c) \/ ChooseDelete(c)
  <2>1. ~cancelled'[c] /\ ~known'[c] BY <1>0, <1>3 DEF ChooseEnroll, ChooseDelete, Begins, MarksOK
  <2> QED BY <2>1 DEF Released
<1>4. CASE StopsBefore(c) \/ FpEnroll(c) \/ FpDelete(c)
  <2>1. pc[c] = "begin" /\ UNCHANGED known BY <1>4 DEF StopsBefore, FpEnroll, FpDelete
  <2> QED BY <2>1 DEF Released
<1>5. CASE EnrollAnswered(c)
  <2>1. pc[c] = "wait" /\ UNCHANGED <<op, cancelled, thread, queue>>
    BY <1>5 DEF EnrollAnswered, daemonVars
  <2>2. pc'[c] = "poll" \/ (pc'[c] = "told" /\ known'[c] = known[c])
    BY <1>0, <1>5 DEF EnrollAnswered, UserOK, MarksOK
  <2>3. (Clean(c) => Clean(c)') /\ (Covered(c) => Covered(c)') BY <2>1, ClientKeepsReleased
  <2> QED BY <2>1, <2>2, <2>3 DEF Released
<1>6. CASE Cancel(c)
  <2>1. thread'[c] /\ UNCHANGED <<pc, known>> BY <1>0, <1>6 DEF Cancel, MarksOK
  <2> QED BY <2>1 DEF Released
<1>7. CASE ThreadCancels(c)
  <2>1. UNCHANGED <<pc, op, link, armed, capture>> BY <1>7 DEF ThreadCancels, deviceVars
  <2>2. op[c] = "enroll" => (Clean(c) \/ Covered(c))'
    BY <1>7, <2>1, CancelCovers DEF ThreadCancels
  <2>3. pc[c] = "begin" => known'[c] = known[c] BY <1>0, <1>7 DEF ThreadCancels, MarksOK
  <2> QED BY <2>1, <2>2, <2>3 DEF Released
<1>8. CASE Leave(c)
  <2>1. pc'[c] = "idle" /\ UNCHANGED <<link, armed, capture>> BY <1>0, <1>8 DEF Leave, UserOK, deviceVars
  <2>2. (Clean(c) \/ Covered(c))' BY <1>8, <2>1, CancelCovers DEF Leave
  <2> QED BY <2>1, <2>2 DEF Released
<1>9. CASE HangUp(c)
  <2>1. pc'[c] = "idle" /\ ~cancelled'[c] BY <1>0, <1>9 DEF HangUp, UserOK, MarksOK
  <2> QED BY <2>1 DEF Released
<1> QED BY <1>1, <1>2, <1>3, <1>4, <1>5, <1>6, <1>7, <1>8, <1>9 DEF Client, Polls

LEMMA ReleaseKept ==
  ASSUME Types, ReleaseInv, [Next]_vars
  PROVE  ReleaseInv'
<1>1. HeldOK' BY HeldKept DEF ReleaseInv
<1>2. ASSUME UNCHANGED <<pc, op, cancelled, thread, known>>,
             \A c \in Clients : Clean(c) \/ Covered(c) => (Clean(c) \/ Covered(c))'
      PROVE  \A c \in Clients : Released(c)' /\ (pc'[c] = "begin" => ~known'[c])
  BY <1>2 DEF ReleaseInv, Released
<1>3. CASE UNCHANGED vars
  BY <1>1, <1>2, <1>3, CleanKept, CoveredKept DEF vars, deviceVars, daemonVars, userVars, marks, ReleaseInv
<1>4. CASE Worker \/ Device \/ LinkLost \/ Connect
  <2>1. UNCHANGED <<pc, op, cancelled, thread, known>>
    BY <1>4 DEF Worker, Device, Serve, ServeGated, GateIsCancelled, GateTimesOut, Route, Touch, Press, Store,
                LinkLost, Connect, WorkerFrame, DeviceFrame, userVars, marks
  <2>2. \A c \in Clients : Clean(c) \/ Covered(c) => (Clean(c) \/ Covered(c))'
    BY <1>4, OthersKeepReleased DEF ReleaseInv
  <2> QED BY <1>1, <1>2, <2>1, <2>2 DEF ReleaseInv
<1>5. ASSUME NEW c \in Clients, Client(c) PROVE ReleaseInv'
  <2>1. Released(c)' /\ (pc'[c] = "begin" => ~known'[c]) BY <1>5, OwnStepReleases DEF ReleaseInv
  <2>2. ASSUME NEW d \in Clients, d # c PROVE Released(d)' /\ (pc'[d] = "begin" => ~known'[d])
    <3>1. UNCHANGED <<pc[d], op[d], cancelled[d], thread[d], known[d]>> BY <1>5, <2>2, OneClient DEF Types
    <3>2. (Clean(d) => Clean(d)') /\ (Covered(d) => Covered(d)') BY <1>5, <2>2, ClientKeepsReleased
    <3> QED BY <3>1, <3>2 DEF ReleaseInv, Released
  <2> QED BY <1>1, <2>1, <2>2 DEF ReleaseInv
<1> QED BY <1>3, <1>4, <1>5 DEF Next

\* For any programs beside it, however its FP:ENROLL, its two FP:ENROLL_CANCEL, the touch,
\* a hang-up and the link crossed: a cancelled enrolment leaves no gate and no capture.
THEOREM CancelsRelease == Spec => []CancelReleases
<1>1. Init => ReleaseInv
  <2>1. DOMAIN <<>> = {} OBVIOUS
  <2> QED BY <2>1 DEF Init, ReleaseInv, HeldOK, Released
<1>2. ReleaseInv => CancelReleases
  <2> SUFFICES ASSUME ReleaseInv, NEW c \in Clients, Kind[c] = "gui", op[c] = "enroll", cancelled[c],
                      known[c], Gone(c)
               PROVE  (armed # None => armed.who # c) /\ (capture # None => capture.who # c)
    BY DEF CancelReleases
  <2>1. pc[c] = "idle" /\ ~thread[c] /\ ~Covered(c) BY DEF Gone, Covered
  <2>2. Clean(c) BY <2>1 DEF ReleaseInv, Released
  <2> QED BY <2>2 DEF Clean
<1> QED BY <1>1, <1>2, ReleaseKept, TypesHold, PTL DEF Spec

-----------------------------------------------------------------------------
(* A client waits for at most one job *)

NoJob(c) == \A i \in DOMAIN queue : queue[i].who # c

AskOf(c) ==
  /\ \A i \in DOMAIN queue : queue[i].who = c =>
       /\ queue[i].cmd \in {"list", "enroll", "delete"} /\ reply[c] = None
       /\ pc[c] \in (IF queue[i].cmd = "list" THEN {"list", "check"} ELSE {"wait"})
       /\ \A j \in DOMAIN queue : queue[j].who = c => j = i
  /\ reply[c] # None => pc[c] \in {"wait", "list", "check"}
  /\ found[c] # {} => reply[c] # None

LEMMA AskAppended ==
  ASSUME QueueOK, NEW c, AskOf(c), NEW job \in Jobs, queue' = Append(queue, job), job.who # c,
         UNCHANGED <<pc[c], reply[c], found[c]>>
  PROVE  AskOf(c)'
<1>1. \A i \in DOMAIN queue' : queue'[i] = job \/ (i \in DOMAIN queue /\ queue'[i] = queue[i])
  BY JobsAppended DEF QueueOK
<1> QED BY <1>1 DEF AskOf

LEMMA AskServed ==
  ASSUME QueueOK, NEW c \in Clients, AskOf(c), queue # <<>>, queue' = Tail(queue), UNCHANGED pc[c],
         \/ UNCHANGED <<reply[c], found[c]>>
         \/ Head(queue).who = c /\ reply'[c] # None
  PROVE  AskOf(c)'
<1>1. /\ 1 \in DOMAIN queue /\ Head(queue) = queue[1] /\ Len(queue) \in Nat
      /\ DOMAIN queue' = 1..Len(queue) - 1
      /\ \A i \in DOMAIN queue' : i + 1 \in DOMAIN queue /\ queue'[i] = queue[i + 1]
  BY HeadServed DEF QueueOK
<1>2. CASE Head(queue).who = c /\ reply'[c] # None
  <2>1. \A i \in DOMAIN queue : queue[i].who = c => i = 1 BY <1>1, <1>2 DEF AskOf
  <2>2. NoJob(c)'
    <3> SUFFICES ASSUME NEW i \in DOMAIN queue', queue'[i].who = c PROVE FALSE BY DEF NoJob
    <3>1. i + 1 = 1 /\ i \in 1..Len(queue) - 1 BY <1>1, <2>1
    <3> QED BY <1>1, <3>1
  <2>3. pc[c] \in {"wait", "list", "check"} BY <1>1, <1>2 DEF AskOf
  <2> QED BY <1>2, <2>2, <2>3 DEF AskOf, NoJob
<1>3. CASE UNCHANGED <<reply[c], found[c]>>
  <2> SUFFICES ASSUME NEW i \in DOMAIN queue', queue'[i].who = c
               PROVE  /\ queue'[i].cmd \in {"list", "enroll", "delete"} /\ reply[c] = None
                      /\ pc[c] \in (IF queue'[i].cmd = "list" THEN {"list", "check"} ELSE {"wait"})
                      /\ \A j \in DOMAIN queue' : queue'[j].who = c => j = i
    BY <1>3 DEF AskOf
  <2>1. i + 1 \in DOMAIN queue /\ queue[i + 1].who = c /\ queue'[i] = queue[i + 1] BY <1>1
  <2>2. \A j \in DOMAIN queue' : queue'[j].who = c => j + 1 = i + 1 BY <1>1, <2>1 DEF AskOf
  <2>3. \A j \in DOMAIN queue' : queue'[j].who = c => j = i BY <1>1, <2>2
  <2> QED BY <2>1, <2>3 DEF AskOf
<1> QED BY <1>2, <1>3

LEMMA AskKeptByOthers ==
  ASSUME Types, NEW c \in Clients, NEW d \in Clients, d # c, Client(d), AskOf(c)
  PROVE  AskOf(c)'
<1>1. UNCHANGED <<pc[c], reply[c], found[c]>> BY OneClient DEF Types
<1>2. c # None /\ QueueOK BY EnrollmentAssumption DEF Types
<1>3. CASE UNCHANGED queue BY <1>1, <1>3 DEF AskOf
<1>4. CASE queue' = Orphaned(d)
  <2>1. /\ DOMAIN queue' = DOMAIN queue
        /\ \A i \in DOMAIN queue : queue'[i].who = c => queue[i].who = c /\ queue'[i] = queue[i]
    BY <1>2, <1>4, OrphanedJobs
  <2> QED BY <1>1, <2>1 DEF AskOf
<1>5. ASSUME NEW job, JobOf(d, job), Enqueue(job) PROVE AskOf(c)'
  <2>1. job \in Jobs /\ job.who # c BY <1>2, <1>5, JobTyped DEF JobOf, Types
  <2> QED BY <1>1, <1>2, <1>5, <2>1, AskAppended DEF Enqueue
<1> QED BY <1>3, <1>4, <1>5, ClientQueues

\* A client that has no job in the queue puts its one there.
LEMMA FirstJob ==
  ASSUME QueueOK, NEW c, NoJob(c), NEW job \in Jobs, queue' = Append(queue, job), job.who = c,
         job.cmd \in {"list", "enroll", "delete"}, reply'[c] = None, found'[c] = {},
         pc'[c] \in (IF job.cmd = "list" THEN {"list", "check"} ELSE {"wait"})
  PROVE  AskOf(c)'
<1>1. /\ \A i \in DOMAIN queue' : i \in DOMAIN queue \/ i = Len(queue) + 1
      /\ \A i \in DOMAIN queue : queue'[i] = queue[i]
      /\ queue'[Len(queue) + 1] = job
  BY JobsAppended DEF QueueOK
<1>2. \A i \in DOMAIN queue' : queue'[i].who = c => i = Len(queue) + 1 /\ queue'[i] = job
  BY <1>1 DEF NoJob
<1> QED BY <1>2 DEF AskOf

LEMMA AskKeptByClient ==
  ASSUME Types, NEW c \in Clients, Client(c), AskOf(c)
  PROVE  AskOf(c)'
<1> USE DEF Set, Taken, Tells, Ends, userVars
<1>0. c # None /\ QueueOK /\ UserOK BY EnrollmentAssumption DEF Types
<1>1. pc[c] \notin {"wait", "list", "check"} => NoJob(c) /\ reply[c] = None /\ found[c] = {}
  BY DEF AskOf, NoJob
<1>2. reply[c] # None => NoJob(c) BY DEF AskOf, NoJob
<1>3. ASSUME UNCHANGED queue, NoJob(c), reply'[c] = None, found'[c] = {} PROVE AskOf(c)'
  BY <1>3 DEF NoJob, AskOf
<1>4. ASSUME NEW job, JobOf(c, job), Enqueue(job), job.who = c, UNCHANGED <<reply, found>> PROVE AskOf(c)'
  <2>1. /\ pc[c] \in {"idle", "poll", "begin"} /\ job.cmd \in {"list", "enroll", "delete"}
        /\ pc'[c] \in (IF job.cmd = "list" THEN {"list", "check"} ELSE {"wait"})
    BY <1>0, <1>4 DEF JobOf, UserOK
  <2>2. job \in Jobs BY <1>0, <1>4, JobTyped
  <2> QED BY <1>0, <1>1, <1>4, <2>1, <2>2, FirstJob DEF Enqueue
<1>5. CASE Load(c) \/ FpEnroll(c) \/ FpDelete(c) \/ PollIdle(c)
  <2>1. UNCHANGED <<reply, found>> /\ pc[c] \in {"idle", "begin", "poll"}
    BY <1>5 DEF Load, List, FpEnroll, FpDelete, PollIdle
  <2>2. \/ UNCHANGED queue
        \/ \E job : JobOf(c, job) /\ Enqueue(job) /\ job.who = c
    <3>1. CASE Load(c) BY <3>1 DEF Load, List, Job, JobOf
    <3>2. CASE FpEnroll(c) BY <3>2 DEF FpEnroll, Job, JobOf
    <3>3. CASE FpDelete(c) BY <3>3 DEF FpDelete, Job, JobOf
    <3>4. CASE PollIdle(c) BY <3>4 DEF PollIdle, List, Job, JobOf
    <3> QED BY <1>5, <3>1, <3>2, <3>3, <3>4
  <2> QED BY <1>1, <1>3, <1>4, <2>1, <2>2
<1>6. CASE Loaded(c) \/ PollListed(c) \/ EnrollAnswered(c) \/ DeleteAnswered(c)
  <2>1. UNCHANGED queue /\ reply[c] # None /\ reply'[c] = None /\ found'[c] = {}
    BY <1>0, <1>6 DEF Loaded, PollListed, Listed, EnrollAnswered, DeleteAnswered, UserOK, daemonVars
  <2> QED BY <1>2, <1>3, <2>1
<1>7. CASE \/ ChooseEnroll(c) \/ ChooseDelete(c) \/ StopsBefore(c) \/ Stop(c) \/ PollEnds(c)
           \/ PollTimeout(c) \/ Dismiss(c)
  <2>1. UNCHANGED <<queue, reply, found>> /\ pc[c] \in {"idle", "begin", "poll", "told"}
    BY <1>7 DEF ChooseEnroll, ChooseDelete, Begins, StopsBefore, Stop, PollEnds, PollTimeout, Dismiss,
                daemonVars
  <2> QED BY <1>1, <1>3, <2>1
<1>8. CASE Cancel(c) \/ ThreadCancels(c) \/ Leave(c)
  <2>1. UNCHANGED <<reply, found>> /\ (UNCHANGED pc \/ (pc[c] = "leave" /\ pc'[c] = "idle"))
    BY <1>0, <1>8 DEF Cancel, ThreadCancels, Leave, UserOK
  <2>2. \/ UNCHANGED queue
        \/ \E job \in Jobs : job.who = None /\ queue' = Append(queue, job)
    BY <1>8 DEF Cancel, ThreadCancels, Leave, EnrollCancel, GateCancel, Enqueue, Jobs, daemonVars
  <2>3. CASE UNCHANGED pc
    <3>1. CASE UNCHANGED queue BY <2>1, <2>3, <3>1 DEF AskOf
    <3>2. ASSUME NEW job \in Jobs, job.who = None, queue' = Append(queue, job) PROVE AskOf(c)'
      BY <1>0, <2>1, <2>3, <3>2, AskAppended
    <3> QED BY <2>2, <3>1, <3>2
  <2>4. CASE pc[c] = "leave" /\ pc'[c] = "idle"
    <3>1. NoJob(c)'
      <4>1. CASE UNCHANGED queue BY <1>1, <2>4, <4>1 DEF NoJob
      <4>2. ASSUME NEW job \in Jobs, job.who = None, queue' = Append(queue, job) PROVE NoJob(c)'
        <5>1. \A i \in DOMAIN queue' : queue'[i] = job \/ (i \in DOMAIN queue /\ queue'[i] = queue[i])
          BY <1>0, <4>2, JobsAppended DEF QueueOK
        <5> QED BY <1>0, <1>1, <2>4, <4>2, <5>1 DEF NoJob
      <4> QED BY <2>2, <4>1, <4>2
    <3> QED BY <1>1, <2>1, <2>4, <3>1 DEF AskOf, NoJob
  <2> QED BY <2>1, <2>3, <2>4
<1>9. CASE HangUp(c)
  <2>1. reply'[c] = None /\ found'[c] = {} /\ pc[c] \in {"wait", "poll"} BY <1>0, <1>9 DEF HangUp, UserOK
  <2>2. \/ UNCHANGED queue /\ (pc[c] = "poll" \/ reply[c] # None)
        \/ queue' = Orphaned(c) /\ pc[c] = "wait"
    BY <1>9 DEF HangUp, Orphaned
  <2>3. CASE queue' = Orphaned(c) /\ pc[c] = "wait"
    <3>1. /\ DOMAIN queue' = DOMAIN queue
          /\ \A i \in DOMAIN queue : queue'[i].who = c =>
               queue[i].who = c /\ queue[i].cmd \notin {"enroll", "delete"}
      BY <1>0, <2>3, OrphanedJobs
    <3>2. \A i \in DOMAIN queue : queue[i].who = c => queue[i].cmd \in {"enroll", "delete"}
      BY <2>3 DEF AskOf
    <3>3. NoJob(c)' BY <3>1, <3>2 DEF NoJob
    <3> QED BY <2>1, <3>3 DEF AskOf, NoJob
  <2> QED BY <1>1, <1>2, <1>3, <2>1, <2>2, <2>3
<1> QED BY <1>5, <1>6, <1>7, <1>8, <1>9 DEF Client, Polls

LEMMA AskKept ==
  ASSUME Types, \A c \in Clients : AskOf(c), [Next]_vars
  PROVE  \A c \in Clients : AskOf(c)'
<1> TAKE c \in Clients
<1>0. c # None /\ QueueOK /\ UserOK /\ AskOf(c) BY EnrollmentAssumption DEF Types
<1>1. CASE UNCHANGED vars BY <1>0, <1>1 DEF vars, daemonVars, userVars, AskOf
<1>2. ASSUME NEW d \in Clients, Client(d) PROVE AskOf(c)'
  BY <1>0, <1>2, AskKeptByOthers, AskKeptByClient
<1>3. CASE Device \/ Connect
  BY <1>0, <1>3 DEF Device, Touch, Press, Store, DeviceFrame, Connect, daemonVars, userVars, AskOf
<1>4. CASE LinkLost
  <2>1. DOMAIN <<>> = {} OBVIOUS
  <2> QED BY <1>0, <1>4, <2>1 DEF LinkLost, AskOf
<1>5. CASE Serve
  <2>1. /\ queue # <<>> /\ queue' = Tail(queue) /\ UNCHANGED pc /\ Answer(Head(queue), "ok")
        /\ found' = IF Head(queue).cmd = "list" THEN Set(found, Head(queue).who, fingers) ELSE found
        /\ Head(queue).cmd \in {"list", "enrollCancel", "gateCancel"}
    BY <1>5 DEF Serve, WorkerFrame
  <2>2. CASE Head(queue).who = c
    <3>1. Head(queue).cmd = "list" BY <1>0, <2>1, <2>2, HeadJob DEF AskOf
    <3>2. reply'[c] = "ok" BY <1>0, <2>1, <2>2, <3>1 DEF Answer, Set, UserOK
    <3> QED BY <1>0, <2>1, <2>2, <3>2, AskServed, EnrollmentAssumption
  <2>3. CASE Head(queue).who # c
    <3>1. UNCHANGED <<reply[c], found[c]>> BY <1>0, <2>1, <2>3 DEF Answer, Set, UserOK
    <3> QED BY <1>0, <2>1, <2>3, <3>1, AskServed
  <2> QED BY <2>2, <2>3
<1>6. ASSUME queue # <<>>, queue' = Tail(queue), UNCHANGED <<pc, found>>,
             NEW what \in {"ok", "error"}, Answer(Head(queue), what),
             Head(queue).cmd \in {"enroll", "delete"}
      PROVE  AskOf(c)'
  <2>1. CASE Head(queue).who = c
    <3>1. reply'[c] = what BY <1>0, <1>6, <2>1 DEF Answer, Set, UserOK
    <3> QED BY <1>0, <1>6, <2>1, <3>1, AskServed, EnrollmentAssumption
  <2>2. CASE Head(queue).who # c
    <3>1. UNCHANGED <<reply[c], found[c]>> BY <1>0, <1>6, <2>2 DEF Answer, Set, UserOK
    <3> QED BY <1>0, <1>6, <2>2, <3>1, AskServed
  <2> QED BY <2>1, <2>2
<1>7. gating => queue # <<>> /\ Head(queue).cmd \in {"enroll", "delete"} BY <1>0 DEF QueueOK
<1>8. CASE ServeGated
  <2>1. queue # <<>> /\ Head(queue).cmd \in {"enroll", "delete"} /\ UNCHANGED <<pc, found>>
    BY <1>8 DEF ServeGated, WorkerFrame
  <2>2. CASE fingers = {} BY <1>6, <1>8, <2>1, <2>2 DEF ServeGated
  <2>3. CASE fingers # {}
    <3>1. UNCHANGED <<queue, reply>> BY <1>8, <2>3 DEF ServeGated
    <3> QED BY <1>0, <2>1, <3>1 DEF AskOf
  <2> QED BY <2>2, <2>3
<1>9. CASE GateIsCancelled \/ GateTimesOut
  BY <1>6, <1>7, <1>9 DEF GateIsCancelled, GateTimesOut, GateEnds, WorkerFrame
<1>10. CASE Route
  <2>1. UNCHANGED <<pc, found>> BY <1>10 DEF Route
  <2>2. CASE gating /\ GateEnds("ok") BY <1>6, <1>7, <2>1, <2>2 DEF GateEnds
  <2>3. CASE UNCHANGED <<queue, reply>> BY <1>0, <2>1, <2>3 DEF AskOf
  <2> QED BY <1>10, <2>2, <2>3 DEF Route
<1> QED BY <1>1, <1>2, <1>3, <1>4, <1>5, <1>8, <1>9, <1>10 DEF Next, Worker

-----------------------------------------------------------------------------
(* Complete is of one's own capture *)

\* No trace of a finger in the client's slot, and nobody else's enrolment on its way.
Unstored(c) ==
  /\ slot[c] \notin fingers \cup bitmap
  /\ \A d \in Clients : slot[c] \notin found[d]
  /\ last # "complete" /\ \A i \in DOMAIN air : air[i] # "complete"
  /\ \A i \in DOMAIN queue : queue[i].cmd = "enroll" => queue[i].who = c
  /\ armed # None /\ armed.cmd = "enroll" => armed.who = c
  /\ capture # None => capture.who = c

Watches(c) == solo[c] /\ pc[c] \in {"wait", "poll", "check"}

OwnOf(c) ==
  /\ Watches(c) => own[c] \/ Unstored(c)
  /\ pc[c] = "told" /\ result[c] = "complete" /\ solo[c] => own[c]
  /\ pc[c] \in {"idle", "list", "begin"} => ~solo[c]

\* What clients leave, short of FP:ENROLL, of what an enrolment watches.
LEMMA ClientStores ==
  ASSUME Types, NEW d \in Clients, Client(d), ~FpEnroll(d)
  PROVE  /\ UNCHANGED <<fingers, air, armed, capture>> /\ last' \in {last, None}
         /\ bitmap' \in {bitmap, found[d]}
         /\ \A e \in Clients : found'[e] \in {found[e], {}}
         /\ \A e \in Clients \ {d} : UNCHANGED solo[e]
         /\ \/ UNCHANGED queue
            \/ queue' = Orphaned(d) /\ HangUp(d)
            \/ \E job \in Jobs : queue' = Append(queue, job) /\ job.cmd # "enroll"
<1>0. UserOK /\ MarksOK BY DEF Types
<1>1. UNCHANGED <<fingers, air, armed, capture>> BY ClientQueues DEF deviceVars
<1>2. last' \in {last, None} /\ bitmap' \in {bitmap, found[d]}
  <2>1. CASE Loaded(d) \/ PollListed(d) BY <2>1 DEF Loaded, PollListed, Listed
  <2>2. CASE ThreadCancels(d) \/ Leave(d) BY <2>2 DEF ThreadCancels, Leave, EnrollCancel, GateCancel
  <2>3. CASE \/ Load(d) \/ ChooseEnroll(d) \/ ChooseDelete(d) \/ StopsBefore(d) \/ FpDelete(d)
             \/ EnrollAnswered(d) \/ DeleteAnswered(d) \/ Stop(d) \/ PollEnds(d) \/ PollIdle(d)
             \/ PollTimeout(d) \/ Dismiss(d) \/ Cancel(d) \/ HangUp(d)
    BY <2>3 DEF Load, ChooseEnroll, ChooseDelete, Begins, StopsBefore, FpDelete, EnrollAnswered,
                DeleteAnswered, Stop, PollEnds, PollIdle, PollTimeout, Dismiss, Cancel, HangUp, daemonVars
  <2> QED BY <2>1, <2>2, <2>3 DEF Client, Polls
<1>3. \A e \in Clients : found'[e] \in {found[e], {}}
  <2>1. found' = found \/ found' = Set(found, d, {})
    <3> USE DEF Taken, userVars
    <3>1. CASE Loaded(d) \/ PollListed(d) \/ EnrollAnswered(d) \/ DeleteAnswered(d) \/ HangUp(d)
      BY <3>1 DEF Loaded, PollListed, Listed, EnrollAnswered, DeleteAnswered, HangUp
    <3>2. CASE \/ Load(d) \/ ChooseEnroll(d) \/ ChooseDelete(d) \/ StopsBefore(d) \/ FpDelete(d)
               \/ Stop(d) \/ PollEnds(d) \/ PollIdle(d) \/ PollTimeout(d) \/ Dismiss(d) \/ Cancel(d)
               \/ ThreadCancels(d) \/ Leave(d)
      BY <3>2 DEF Load, ChooseEnroll, ChooseDelete, Begins, StopsBefore, FpDelete, Stop, PollEnds, PollIdle,
                  PollTimeout, Dismiss, Cancel, ThreadCancels, Leave
    <3> QED BY <3>1, <3>2 DEF Client, Polls
  <2> QED BY <1>0, <2>1 DEF Set, UserOK
<1>4. \A e \in Clients \ {d} : UNCHANGED solo[e]
  <2>1. solo' = solo \/ solo' = Set(solo, d, FALSE)
    <3> USE DEF Ends, marks
    <3>1. CASE StopsBefore(d) \/ Dismiss(d) \/ Leave(d) \/ HangUp(d)
      BY <3>1 DEF StopsBefore, Dismiss, Leave, HangUp
    <3>2. CASE \/ Load(d) \/ Loaded(d) \/ ChooseEnroll(d) \/ ChooseDelete(d) \/ FpDelete(d)
               \/ EnrollAnswered(d) \/ DeleteAnswered(d) \/ Stop(d) \/ PollEnds(d) \/ PollIdle(d)
               \/ PollListed(d) \/ PollTimeout(d) \/ Cancel(d) \/ ThreadCancels(d)
      BY <3>2 DEF Load, Loaded, ChooseEnroll, ChooseDelete, Begins, FpDelete, EnrollAnswered,
                  DeleteAnswered, Stop, PollEnds, PollIdle, PollListed, PollTimeout, Cancel, ThreadCancels
    <3> QED BY <3>1, <3>2 DEF Client, Polls
  <2> QED BY <1>0, <2>1 DEF Set, MarksOK
<1>5. \/ UNCHANGED queue
      \/ queue' = Orphaned(d) /\ HangUp(d)
      \/ \E job \in Jobs : queue' = Append(queue, job) /\ job.cmd # "enroll"
  <2>1. ASSUME NEW job, JobOf(d, job), Enqueue(job)
        PROVE  \E j \in Jobs : queue' = Append(queue, j) /\ j.cmd # "enroll"
    <3>1. job \in Jobs /\ queue' = Append(queue, job) BY <1>0, <2>1, JobTyped DEF Enqueue
    <3>2. job.cmd # "enroll"
      <4>1. CASE job.cmd = "enroll"
        <5>1. pc[d] = "begin" /\ op[d] = "enroll" /\ queue' # queue
          <6>1. pc[d] = "begin" /\ op[d] = "enroll" BY <2>1, <4>1 DEF JobOf
          <6>2. Len(queue') # Len(queue) BY <1>0, <3>1, JobsAppended DEF Types, QueueOK
          <6> QED BY <6>1, <6>2
        <5> USE DEF Client, Polls
        <5>2. CASE Load(d) \/ Loaded(d) \/ ChooseEnroll(d) \/ ChooseDelete(d) \/ FpDelete(d)
          BY <5>1, <5>2 DEF Load, List, Loaded, Listed, ChooseEnroll, ChooseDelete, Begins, FpDelete
        <5>3. CASE \/ StopsBefore(d) \/ EnrollAnswered(d) \/ DeleteAnswered(d) \/ Dismiss(d) \/ Cancel(d)
                   \/ Leave(d) \/ HangUp(d)
          BY <5>1, <5>3 DEF StopsBefore, EnrollAnswered, DeleteAnswered, Dismiss, Cancel, Leave, HangUp, daemonVars
        <5>4. CASE Polls(d)
          BY <5>1, <5>4 DEF Stop, PollEnds, PollIdle, PollListed, Listed, PollTimeout, daemonVars
        <5>5. CASE ThreadCancels(d)
          <6>1. \E j \in Jobs : j.cmd # "enroll" /\ queue' = Append(queue, j)
            BY <5>1, <5>5 DEF ThreadCancels, EnrollCancel, GateCancel, Enqueue, Jobs
          <6>2. queue'[Len(queue) + 1] = job BY <3>1, JobsAppended DEF Types, QueueOK
          <6>3. PICK j \in Jobs : j.cmd # "enroll" /\ queue' = Append(queue, j) BY <6>1
          <6>4. queue'[Len(queue) + 1] = j BY <6>3, JobsAppended DEF Types, QueueOK
          <6> QED BY <4>1, <6>2, <6>3, <6>4
        <5> QED BY <5>2, <5>3, <5>4, <5>5
      <4> QED BY <4>1
    <3> QED BY <3>1, <3>2
  <2> QED BY <2>1, ClientQueues
<1> QED BY <1>1, <1>2, <1>3, <1>4, <1>5

LEMMA UnstoredKept ==
  ASSUME Types, NEW c \in Clients, Unstored(c), NEW d \in Clients, Client(d), ~FpEnroll(d),
         UNCHANGED slot[c], d = c => ~HangUp(c)
  PROVE  Unstored(c)'
<1>1. slot[c] \notin fingers' \cup bitmap' /\ \A e \in Clients : slot[c] \notin found'[e]
  BY ClientStores DEF Unstored
<1>2. /\ last' # "complete" /\ \A i \in DOMAIN air' : air'[i] # "complete"
      /\ armed' # None /\ armed'.cmd = "enroll" => armed'.who = c
      /\ capture' # None => capture'.who = c
  BY ClientStores, EnrollmentAssumption DEF Unstored
<1>3. \A i \in DOMAIN queue' : queue'[i].cmd = "enroll" => queue'[i].who = c
  <2>1. CASE UNCHANGED queue BY <2>1 DEF Unstored
  <2>2. CASE queue' = Orphaned(d) /\ d # c
    <3>1. /\ DOMAIN queue' = DOMAIN queue
          /\ \A i \in DOMAIN queue : /\ queue'[i].cmd = queue[i].cmd
                                     /\ queue'[i] = queue[i] \/ queue[i].who = d
      BY <2>2, OrphanedJobs DEF Types
    <3> QED BY <2>2, <3>1 DEF Unstored
  <2>3. ASSUME NEW job \in Jobs, queue' = Append(queue, job), job.cmd # "enroll"
        PROVE  \A i \in DOMAIN queue' : queue'[i].cmd = "enroll" => queue'[i].who = c
    <3>1. \A i \in DOMAIN queue' : queue'[i] = job \/ (i \in DOMAIN queue /\ queue'[i] = queue[i])
      BY <2>3, JobsAppended DEF Types, QueueOK
    <3> QED BY <2>3, <3>1 DEF Unstored
  <2> QED BY <2>1, <2>2, <2>3, ClientStores
<1> QED BY <1>1, <1>2, <1>3 DEF Unstored

\* FP:ENROLL at rest, on a free slot and alone, finds no trace of a finger there.
LEMMA EnrollBegins ==
  ASSUME Types, \A d \in Clients : AskOf(d), NEW c \in Clients, FpEnroll(c), Watches(c)'
  PROVE  Unstored(c)'
<1>0. UserOK /\ MarksOK /\ QueueOK BY DEF Types
<1>1. /\ AtRest /\ slot[c] \notin fingers \cup bitmap /\ pc[c] = "begin" /\ op[c] = "enroll"
      /\ \A e \in Clients \ {c} : pc[e] \in {"idle", "told"}
      /\ UNCHANGED <<deviceVars, bitmap, slot, found>>
  BY DEF FpEnroll, Watches
<1>2. pc'[c] # "told" BY DEF Watches
<1>3. link /\ last' = None /\ Enqueue(Job(c, "enroll"))
  BY <1>0, <1>2 DEF FpEnroll, ClearEvent, Tells, Set, UserOK
<1>4. \A e \in Clients : found[e] = {} BY <1>1 DEF AskOf
<1>5. \A i \in DOMAIN queue' : queue'[i] = Job(c, "enroll")
  <2>1. Job(c, "enroll") \in Jobs BY <1>0, <1>1 DEF Job, Jobs, UserOK
  <2>2. queue = <<>> /\ queue' = Append(queue, Job(c, "enroll")) BY <1>1, <1>3 DEF AtRest, Enqueue
  <2>3. DOMAIN <<>> = {} OBVIOUS
  <2> QED BY <1>0, <2>1, <2>2, <2>3, JobsAppended DEF QueueOK
<1>6. Job(c, "enroll").who = c BY DEF Job
<1>7. UNCHANGED <<fingers, air, armed, capture>> /\ air = <<>> /\ armed = None /\ capture = None
  BY <1>1 DEF deviceVars, AtRest
<1>8. DOMAIN <<>> = {} OBVIOUS
<1> QED BY <1>1, <1>3, <1>4, <1>5, <1>6, <1>7, <1>8, EnrollmentAssumption DEF Unstored

\* A client that says Complete saw it, in the event or in a bitmap.
LEMMA SaysComplete ==
  ASSUME Types, NEW c \in Clients, Client(c), pc'[c] = "told", result'[c] = "complete"
  PROVE  \/ UNCHANGED <<pc[c], result[c], solo[c], own[c]>>
         \/ /\ pc[c] \in {"poll", "check"} /\ UNCHANGED <<solo[c], own[c]>>
            /\ last = "complete" \/ slot[c] \in bitmap \cup found[c]
<1>0. UserOK /\ MarksOK BY DEF Types
<1> USE DEF Set, Tells, Ends, UserOK, MarksOK, userVars, marks
<1>1. CASE Load(c) \/ Loaded(c) \/ ChooseEnroll(c) \/ ChooseDelete(c) \/ StopsBefore(c)
  BY <1>0, <1>1 DEF Load, List, Loaded, Listed, ChooseEnroll, ChooseDelete, Begins, StopsBefore
<1>2. CASE FpEnroll(c) \/ FpDelete(c)
  <2>1. pc'[c] = "wait" \/ result'[c] = "failed" BY <1>0, <1>2 DEF FpEnroll, FpDelete
  <2> QED BY <2>1
<1>3. CASE EnrollAnswered(c) \/ DeleteAnswered(c)
  <2>1. pc'[c] = "poll" \/ result'[c] \in {"failed", "deleted"}
    BY <1>0, <1>3 DEF EnrollAnswered, DeleteAnswered
  <2> QED BY <2>1
<1>4. CASE Stop(c) \/ PollTimeout(c) \/ Dismiss(c) \/ Leave(c) \/ HangUp(c)
  <2>1. pc'[c] \in {"leave", "idle"} \/ result'[c] = "timeout"
    BY <1>0, <1>4 DEF Stop, PollTimeout, Dismiss, Leave, HangUp
  <2> QED BY <2>1
<1>5. CASE PollEnds(c) BY <1>0, <1>5 DEF PollEnds
<1>6. CASE PollIdle(c)
  <2>1. pc'[c] = "check" \/ slot[c] \in bitmap BY <1>0, <1>6 DEF PollIdle, List
  <2>2. pc[c] = "poll" /\ UNCHANGED <<solo, own>> BY <1>6 DEF PollIdle
  <2> QED BY <2>1, <2>2
<1>7. CASE PollListed(c)
  <2>1. pc'[c] = "poll" \/ slot[c] \in found[c] BY <1>0, <1>7 DEF PollListed, Listed
  <2>2. pc[c] = "check" /\ UNCHANGED <<solo, own>> BY <1>7 DEF PollListed, Listed
  <2> QED BY <2>1, <2>2
<1>8. CASE Cancel(c) \/ ThreadCancels(c) BY <1>8 DEF Cancel, ThreadCancels
<1> QED BY <1>1, <1>2, <1>3, <1>4, <1>5, <1>6, <1>7, <1>8 DEF Client, Polls

\* An enrolment that is still watched was watched before, unless it begins.
LEMMA StillWatches ==
  ASSUME Types, NEW c \in Clients, OwnOf(c), Client(c), Watches(c)'
  PROVE  \/ FpEnroll(c)
         \/ Watches(c) /\ UNCHANGED <<slot[c], own[c]>> /\ ~HangUp(c) /\ ~FpEnroll(c)
<1>0. UserOK /\ MarksOK BY DEF Types
<1> USE DEF Set, Tells, Ends, UserOK, MarksOK, userVars, marks, Watches
<1>1. CASE Load(c) \/ Loaded(c) \/ ChooseEnroll(c) \/ ChooseDelete(c) \/ StopsBefore(c)
  <2>1. pc'[c] \notin {"wait", "poll", "check"}
    BY <1>0, <1>1 DEF Load, List, Loaded, Listed, ChooseEnroll, ChooseDelete, Begins, StopsBefore
  <2> QED BY <2>1
<1>2. CASE FpDelete(c) BY <1>2 DEF FpDelete, OwnOf
<1>3. CASE Dismiss(c) \/ Leave(c) \/ HangUp(c)
  <2>1. pc'[c] = "idle" BY <1>0, <1>3 DEF Dismiss, Leave, HangUp
  <2> QED BY <2>1
<1>4. CASE \/ EnrollAnswered(c) \/ DeleteAnswered(c) \/ Stop(c) \/ PollTimeout(c) \/ PollEnds(c)
           \/ PollIdle(c) \/ PollListed(c)
  <2>1. pc[c] \in {"wait", "poll", "check"} /\ UNCHANGED <<slot, own, solo>>
    BY <1>4 DEF EnrollAnswered, DeleteAnswered, Stop, PollTimeout, PollEnds, PollIdle, PollListed, Listed
  <2>2. ~HangUp(c) \/ pc'[c] = "idle" BY <1>0 DEF HangUp
  <2>3. ~FpEnroll(c) BY <2>1 DEF FpEnroll
  <2> QED BY <2>1, <2>2, <2>3
<1>5. CASE Cancel(c) \/ ThreadCancels(c)
  <2>1. UNCHANGED <<pc, slot, own, solo>> BY <1>5 DEF Cancel, ThreadCancels
  <2>2. ~HangUp(c) \/ pc'[c] = "idle" BY <1>0 DEF HangUp
  <2>3. ~FpEnroll(c) \/ pc[c] = "begin" BY DEF FpEnroll
  <2> QED BY <2>1, <2>2, <2>3
<1> QED BY <1>1, <1>2, <1>3, <1>4, <1>5 DEF Client, Polls

\* Before FP:ENROLL no enrolment counts as begun alone.
LEMMA NotYetSolo ==
  ASSUME Types, NEW c \in Clients, OwnOf(c), Client(c), pc'[c] \in {"idle", "list", "begin"}
  PROVE  ~solo'[c]
<1>0. UserOK /\ MarksOK BY DEF Types
<1> USE DEF Set, Tells, Ends, UserOK, MarksOK, userVars, marks, OwnOf
<1>1. CASE Load(c) \/ Loaded(c) \/ ChooseEnroll(c) \/ ChooseDelete(c) \/ FpDelete(c)
  BY <1>0, <1>1 DEF Load, List, Loaded, Listed, ChooseEnroll, ChooseDelete, Begins, FpDelete
<1>2. CASE FpEnroll(c)
  <2>1. pc'[c] \in {"wait", "told"} BY <1>0, <1>2 DEF FpEnroll
  <2> QED BY <2>1
<1>3. CASE StopsBefore(c) \/ Dismiss(c) \/ Leave(c) \/ HangUp(c)
  BY <1>0, <1>3 DEF StopsBefore, Dismiss, Leave, HangUp
<1>4. CASE \/ EnrollAnswered(c) \/ DeleteAnswered(c) \/ Stop(c) \/ PollTimeout(c) \/ PollEnds(c)
           \/ PollIdle(c) \/ PollListed(c)
  <2>1. pc'[c] \in {"poll", "told", "leave", "check"}
    BY <1>0, <1>4 DEF EnrollAnswered, DeleteAnswered, Stop, PollTimeout, PollEnds, PollIdle, PollListed,
                      List, Listed
  <2> QED BY <2>1
<1>5. CASE Cancel(c) \/ ThreadCancels(c) BY <1>5 DEF Cancel, ThreadCancels
<1> QED BY <1>1, <1>2, <1>3, <1>4, <1>5 DEF Client, Polls

LEMMA OwnKeptByClient ==
  ASSUME Types, \A d \in Clients : AskOf(d), NEW c \in Clients, OwnOf(c), Client(c)
  PROVE  OwnOf(c)'
<1>1. Watches(c)' => own'[c] \/ Unstored(c)'
  <2> HAVE Watches(c)'
  <2>1. CASE FpEnroll(c) BY <2>1, EnrollBegins
  <2>2. CASE Watches(c) /\ UNCHANGED <<slot[c], own[c]>> /\ ~HangUp(c) /\ ~FpEnroll(c)
    BY <2>2, UnstoredKept DEF OwnOf
  <2> QED BY <2>1, <2>2, StillWatches
<1>2. pc'[c] = "told" /\ result'[c] = "complete" /\ solo'[c] => own'[c]
  <2> HAVE pc'[c] = "told" /\ result'[c] = "complete" /\ solo'[c]
  <2>1. CASE UNCHANGED <<pc[c], result[c], solo[c], own[c]>> BY <2>1 DEF OwnOf
  <2>2. CASE /\ pc[c] \in {"poll", "check"} /\ UNCHANGED <<solo[c], own[c]>>
             /\ last = "complete" \/ slot[c] \in bitmap \cup found[c]
    <3>1. ~Unstored(c) BY <2>2 DEF Unstored
    <3>2. Watches(c) BY <2>2 DEF Watches
    <3> QED BY <2>2, <3>1, <3>2 DEF OwnOf
  <2> QED BY <2>1, <2>2, SaysComplete
<1> QED BY <1>1, <1>2, NotYetSolo DEF OwnOf

LEMMA OwnKeptByOthers ==
  ASSUME Types, NEW c \in Clients, OwnOf(c), NEW d \in Clients, d # c, Client(d)
  PROVE  OwnOf(c)'
<1>1. UNCHANGED <<pc[c], slot[c], result[c], own[c]>> BY OneClient DEF Types
<1>2. CASE FpEnroll(d)
  <2>1. ~solo'[c] BY <1>2 DEF FpEnroll
  <2> QED BY <2>1 DEF OwnOf, Watches
<1>3. CASE ~FpEnroll(d)
  <2>1. UNCHANGED solo[c] BY <1>3, ClientStores
  <2>2. Unstored(c) => Unstored(c)' BY <1>1, <1>3, UnstoredKept
  <2> QED BY <1>1, <2>1, <2>2 DEF OwnOf, Watches
<1> QED BY <1>2, <1>3

\* The worker and the device store a finger for the client they work for.
LEMMA UnstoredServed ==
  ASSUME Types, NEW c \in Clients, Unstored(c), Worker \/ Device \/ LinkLost \/ Connect
  PROVE  own'[c] \/ Unstored(c)'
<1>0. UserOK /\ MarksOK /\ QueueOK /\ DeviceOK /\ AirOK /\ c # None BY EnrollmentAssumption DEF Types
<1>1. ASSUME queue # <<>>, queue' = Tail(queue)
      PROVE  /\ \A i \in DOMAIN queue' : queue'[i].cmd = "enroll" => queue'[i].who = c
             /\ Head(queue).cmd = "enroll" => Head(queue).who = c
  BY <1>0, <1>1, HeadServed DEF QueueOK, Unstored
<1>2. CASE Serve
  <2>1. \A e \in Clients : slot[c] \notin found'[e]
    <3> TAKE e \in Clients
    <3>1. found'[e] \in {found[e], fingers} BY <1>0, <1>2 DEF Serve, Set, UserOK
    <3> QED BY <3>1 DEF Unstored
  <2>2. armed' \in {armed, None} /\ capture' \in {capture, None} /\ queue # <<>> /\ queue' = Tail(queue)
        /\ UNCHANGED <<slot, fingers, bitmap, air, last>>
    BY <1>2 DEF Serve, WorkerFrame
  <2> QED BY <1>1, <2>1, <2>2 DEF Unstored
<1>3. CASE ServeGated
  <2>1. UNCHANGED <<slot, bitmap, air, last, found>> /\ queue # <<>> BY <1>3 DEF ServeGated, WorkerFrame
  <2>2. CASE fingers = {}
    <3>1. queue' = Tail(queue) /\ UNCHANGED armed /\ Executes(Head(queue)) BY <1>3, <2>2 DEF ServeGated
    <3>2. fingers' \subseteq fingers BY <3>1 DEF Executes
    <3>3. capture' # None => capture'.who = c BY <1>1, <2>1, <3>1 DEF Executes, Unstored
    <3> QED BY <1>1, <2>1, <3>1, <3>2, <3>3 DEF Unstored
  <2>3. CASE fingers # {}
    <3>1. UNCHANGED <<queue, fingers, capture>> /\ armed' = Head(queue) BY <1>3, <2>3 DEF ServeGated
    <3>2. Head(queue).cmd = "enroll" => Head(queue).who = c
      BY <1>0, <2>1, HeadServed DEF QueueOK, Unstored
    <3> QED BY <2>1, <3>1, <3>2 DEF Unstored
  <2> QED BY <2>2, <2>3
<1>4. CASE GateIsCancelled \/ GateTimesOut
  <2>1. /\ UNCHANGED <<slot, fingers, bitmap, air, last, found, capture>> /\ armed' = None
        /\ queue # <<>> /\ queue' = Tail(queue)
    BY <1>0, <1>4 DEF GateIsCancelled, GateTimesOut, GateEnds, WorkerFrame, QueueOK
  <2> QED BY <1>1, <2>1 DEF Unstored
<1>5. CASE Route
  <2>1. UNCHANGED <<slot, fingers, bitmap, found, armed, capture>> /\ air # <<>> /\ air' = Tail(air)
        /\ last' \in {last, Head(air)}
    BY <1>5 DEF Route
  <2>2. Head(air) # "complete" /\ \A i \in DOMAIN air' : air'[i] # "complete"
    BY <1>0, <2>1, HeadServed DEF AirOK, Unstored
  <2>3. UNCHANGED queue \/ (queue # <<>> /\ queue' = Tail(queue))
    BY <1>0, <1>5 DEF Route, GateEnds, QueueOK
  <2> QED BY <1>1, <2>1, <2>2, <2>3 DEF Unstored
<1>6. ASSUME NEW n \in Notes, n # "complete", Notifies(n) PROVE \A i \in DOMAIN air' : air'[i] # "complete"
  BY <1>0, <1>6, JobsAppended DEF Notifies, AirOK, Unstored
<1>7. CASE Touch
  <2>1. UNCHANGED <<slot, bitmap, found, last, queue>> /\ armed' = None
    BY <1>7 DEF Touch, DeviceFrame, daemonVars, userVars
  <2>2. armed # None /\ Executes(armed) BY <1>7 DEF Touch
  <2>3. fingers' \subseteq fingers /\ (capture' # None => capture'.who = c)
    BY <2>2 DEF Executes, Unstored
  <2>4. \A i \in DOMAIN air' : air'[i] # "complete" BY <1>6, <1>7 DEF Touch, Notes
  <2> QED BY <2>1, <2>3, <2>4 DEF Unstored
<1>8. CASE Press
  <2>1. UNCHANGED <<slot, bitmap, found, last, queue, fingers, armed, capture>>
    BY <1>8 DEF Press, DeviceFrame, daemonVars, userVars
  <2>2. \A i \in DOMAIN air' : air'[i] # "complete" BY <1>6, <1>8 DEF Press, Notes
  <2> QED BY <2>1, <2>2 DEF Unstored
<1>9. CASE Store
  <2>1. UNCHANGED <<slot, bitmap, found, last, queue, armed>> /\ capture # None /\ capture' = None
    BY <1>9 DEF Store, DeviceFrame, daemonVars, userVars
  <2>2. CASE own' = IF capture.who = None THEN own ELSE Set(own, capture.who, TRUE)
    <3>1. capture.who = c BY <2>1 DEF Unstored
    <3> QED BY <1>0, <2>2, <3>1 DEF Set, MarksOK
  <2>3. CASE Notifies("failed") /\ UNCHANGED fingers
    <3>1. \A i \in DOMAIN air' : air'[i] # "complete" BY <1>6, <2>3 DEF Notes
    <3> QED BY <2>1, <2>3, <3>1 DEF Unstored
  <2> QED BY <1>9, <2>2, <2>3 DEF Store
<1>10. CASE LinkLost
  <2>1. DOMAIN <<>> = {} OBVIOUS
  <2> QED BY <1>10, <2>1 DEF LinkLost, Unstored
<1>11. CASE Connect BY <1>11 DEF Connect, userVars, Unstored
<1> QED BY <1>2, <1>3, <1>4, <1>5, <1>7, <1>8, <1>9, <1>10, <1>11 DEF Worker, Device

LEMMA OwnKept ==
  ASSUME Types, \A d \in Clients : AskOf(d), [Next]_vars, NEW c \in Clients, OwnOf(c)
  PROVE  OwnOf(c)'
<1>1. CASE UNCHANGED vars
  BY <1>1 DEF vars, deviceVars, daemonVars, userVars, marks, OwnOf, Watches, Unstored
<1>2. ASSUME NEW d \in Clients, Client(d) PROVE OwnOf(c)'
  BY <1>2, OwnKeptByClient, OwnKeptByOthers
<1>3. CASE Worker \/ Device \/ LinkLost \/ Connect
  <2>1. UNCHANGED <<pc, slot, result, solo>> /\ (own[c] => own'[c])
    <3>1. CASE Worker
      BY <3>1 DEF Worker, Serve, ServeGated, GateIsCancelled, GateTimesOut, Route, WorkerFrame, marks
    <3>2. CASE Device
      BY <3>2 DEF Device, Touch, Press, Store, DeviceFrame, userVars, Set, Types, MarksOK
    <3>3. CASE LinkLost \/ Connect BY <3>3 DEF LinkLost, Connect, userVars, marks
    <3> QED BY <1>3, <3>1, <3>2, <3>3
  <2> QED BY <1>3, <2>1, UnstoredServed DEF OwnOf, Watches
<1> QED BY <1>1, <1>2, <1>3 DEF Next

\* For any programs beside it, whatever they enrol, delete and cancel meanwhile short of a
\* second FP:ENROLL: the event and the bitmap that end a lone enrolment are its own.
THEOREM CompletesAreOwn == Spec => []CompleteIsOwn
<1> DEFINE Inv == \A c \in Clients : AskOf(c) /\ OwnOf(c)
<1>1. Init => Inv
  <2>1. DOMAIN <<>> = {} OBVIOUS
  <2> QED BY <2>1 DEF Init, AskOf, OwnOf, Watches
<1>2. Types /\ Inv /\ [Next]_vars => Inv' BY AskKept, OwnKept
<1>3. Inv => CompleteIsOwn BY DEF OwnOf, CompleteIsOwn
<1> QED BY <1>1, <1>2, <1>3, TypesHold, PTL DEF Spec

=============================================================================
