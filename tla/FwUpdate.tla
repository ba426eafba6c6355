------------------------------ MODULE FwUpdate ------------------------------
(***************************************************************************)
(* The firmware update: check, plan, download, push over the daemon's OTA  *)
(* session, wait for the restarted device, and the resume state of an      *)
(* update that needs two hops (client/fwupdate, daemon/ota.rs, the `fw`    *)
(* and `ota` commands, the firmware pages of the desktop and terminal      *)
(* interfaces).  Several updaters may run at once: each is a process of    *)
(* its own, and nothing but the device and ~/.immurok/fwupdate is shared.  *)
(*                                                                         *)
(* A package is its version.  The device is external: it keeps Image B,    *)
(* checks it as a whole at END and restarts into it; it refuses a header   *)
(* older than itself, and before the signing era anything but the bridge.  *)
(***************************************************************************)
EXTENDS Naturals, Sequences, FiniteSets

CONSTANTS
  Updaters,    \* processes that run `fw update`, `ota` or a firmware page
  Gate,        \* min_direct, which is also the version of the bridge
  Newest,      \* the last version the server will ever publish
  Chunks,      \* OTA:WRITE commands of a package
  Files,       \* versions of the .imfw files a user may push by hand
  MaxFaults,   \* bound on crashes, lost answers, failed downloads, timeouts
  RotPending,  \* whether pending-target.imfw may go bad on disk
  None         \* no pending.json

ASSUME FwAssumption ==
  /\ Gate \in Nat /\ Newest \in Nat /\ 0 < Gate /\ Gate <= Newest
  /\ Chunks \in Nat /\ Chunks > 0
  /\ Files \subseteq 1..Newest
  /\ MaxFaults \in Nat /\ RotPending \in BOOLEAN

VARIABLES
  version,    \* firmware the device runs
  flash,      \* Image B: accepted header and written chunks (0: nothing)
  link,       \* is_connected
  status,     \* fw_version of device_status, 0 when the daemon has none
  lag,        \* a line of the helper is still to come for a command given up
  published,  \* latest in the server's manifest
  lastCheck,  \* latest in the manifest of last-check.json, 0: no record
  cache,      \* cache/<sha256>.imfw, by version
  pending,    \* pending.json
  package,    \* pending-target.imfw, 0: absent
  pc, after,  \* where each updater is, and where clear_pending returns to
  seen,       \* device version prepare worked with
  hops,       \* versions to push, in order
  resumed,    \* the only hop is the saved package
  manual,     \* it is `immurok-cli ota`, with a file of the user's
  packages,   \* packages in memory
  hop, stage, tries,  \* push in progress
  outcome,    \* how the last request ended
  faults

deviceVars == <<version, flash, link, status, lag>>
storeVars  == <<lastCheck, cache, pending, package>>
planVars   == <<seen, hops, resumed, manual>>
pushVars   == <<packages, hop, stage, tries>>
vars == <<deviceVars, published, storeVars, pc, after, planVars, pushVars, outcome, faults>>

Versions == 1..Newest
Bad      == Newest + 1            \* a package imfw::parse refuses
Blank    == [hdr |-> 0, body |-> [i \in 1..Chunks |-> 0]]

\* Stages of push_once: INFO, ERASE, HEADER, WRITE x Chunks, END.
Info   == 0
Erase  == 1
Header == 2
End    == Chunks + 3

Outcomes == {"none", "complete", "uptodate", "preflight", "manifest", "download", "store",
             "package", "battery", "transfer", "header", "sha256", "reconnect"}

\* plan(): the hops from a device version to the manifest's latest.
Plan(dev, latest) ==
  IF dev >= latest THEN <<>>
  ELSE IF dev >= Gate THEN <<latest>>
  ELSE IF latest = Gate THEN <<Gate>>
  ELSE <<Gate, latest>>

Target(u) == hops[u][Len(hops[u])]

Init ==
  /\ version = 1 /\ flash = Blank /\ link = TRUE /\ status = 1 /\ lag = FALSE
  /\ published \in {v \in Versions : v >= Gate}
  /\ lastCheck = 0 /\ cache = [v \in Versions |-> "none"] /\ pending = None /\ package = 0
  /\ pc = [u \in Updaters |-> "idle"] /\ after = [u \in Updaters |-> "idle"]
  /\ seen = [u \in Updaters |-> 0] /\ hops = [u \in Updaters |-> <<>>]
  /\ resumed = [u \in Updaters |-> FALSE] /\ manual = [u \in Updaters |-> FALSE]
  /\ packages = [u \in Updaters |-> <<>>]
  /\ hop = [u \in Updaters |-> 1] /\ stage = [u \in Updaters |-> Info]
  /\ tries = [u \in Updaters |-> 0]
  /\ outcome = [u \in Updaters |-> "none"]
  /\ faults = 0

Fault == faults < MaxFaults /\ faults' = faults + 1

Goto(u, p) == pc' = [pc EXCEPT ![u] = p]

Ends(u, what) ==
  /\ Goto(u, "told")
  /\ outcome' = [outcome EXCEPT ![u] = what]

-----------------------------------------------------------------------------
(* prepare() *)

\* clear_pending, then on to p: pending.json is removed before the package.
ClearThen(u, p) ==
  /\ Goto(u, "clear")
  /\ after' = [after EXCEPT ![u] = p]

\* (mutation: the package goes first)
RemovePackageFirst(u) ==
  /\ pc[u] = "clear"
  /\ package' = 0
  /\ Goto(u, "clear2")
  /\ UNCHANGED <<deviceVars, published, lastCheck, cache, pending, after, planVars, pushVars,
                 outcome, faults>>

RemovePending(u) ==
  /\ pc[u] = "clear"
  /\ pending' = None
  /\ Goto(u, "clear2")
  /\ UNCHANGED <<deviceVars, published, lastCheck, cache, package, after, planVars, pushVars,
                 outcome, faults>>

RemovePackage(u) ==
  /\ pc[u] = "clear2"
  /\ package' = 0
  /\ IF after[u] = "plan" THEN Goto(u, "plan") /\ UNCHANGED outcome ELSE Ends(u, after[u])
  /\ UNCHANGED <<deviceVars, published, lastCheck, cache, pending, after, planVars, pushVars, faults>>

\* The first half of prepare: the device's answer to STATUS against pending.json.
Check(u) ==
  /\ pc[u] = "idle"
  /\ seen' = [seen EXCEPT ![u] = status]
  /\ manual' = [manual EXCEPT ![u] = FALSE]
  /\ IF ~link THEN Ends(u, "preflight") /\ UNCHANGED <<after, hops, resumed>>
     ELSE /\ UNCHANGED outcome
          /\ \/ /\ pending = None
                /\ Goto(u, "plan") /\ UNCHANGED <<after, hops, resumed>>
             \/ /\ pending # None
                /\ IF status >= pending.target
                   THEN ClearThen(u, "uptodate") /\ UNCHANGED <<hops, resumed>>
                   ELSE IF status < pending.bridge \/ package = 0
                   THEN ClearThen(u, "plan") /\ UNCHANGED <<hops, resumed>>
                   ELSE /\ hops' = [hops EXCEPT ![u] = <<pending.target>>]
                        /\ resumed' = [resumed EXCEPT ![u] = TRUE]
                        /\ Goto(u, "ready") /\ UNCHANGED after
  /\ UNCHANGED <<deviceVars, published, storeVars, pushVars, faults>>

\* The manifest: fetched, or the recorded one when it is young and the check is
\* not forced.  (fetch_manifest_cached)
Manifest(m) ==
  \/ m = published /\ lastCheck' = published
  \/ lastCheck # 0 /\ m = lastCheck /\ UNCHANGED lastCheck

\* The second half of prepare: the manifest and the plan.
MakePlan(u) ==
  /\ pc[u] = "plan"
  /\ \/ /\ \E m \in Versions :
             /\ Manifest(m)
             /\ IF seen[u] = 0 THEN Ends(u, "preflight") /\ UNCHANGED <<hops, resumed>>
                ELSE IF Plan(seen[u], m) = <<>> THEN Ends(u, "uptodate") /\ UNCHANGED <<hops, resumed>>
                ELSE /\ hops' = [hops EXCEPT ![u] = Plan(seen[u], m)]
                     /\ resumed' = [resumed EXCEPT ![u] = FALSE]
                     /\ Goto(u, "ready") /\ UNCHANGED outcome
        /\ UNCHANGED faults
     \/ Fault /\ Ends(u, "manifest") /\ UNCHANGED <<hops, resumed, lastCheck>>
  /\ UNCHANGED <<deviceVars, published, cache, pending, package, after, seen, manual, pushVars>>

\* The user looks at the plan and goes away.
Decline(u) ==
  /\ pc[u] = "ready"
  /\ Goto(u, "idle")
  /\ UNCHANGED <<deviceVars, published, storeVars, after, planVars, pushVars, outcome, faults>>

-----------------------------------------------------------------------------
(* execute(): preflight, every package, then hop by hop *)

\* The user confirms; connection and battery are looked at again.
Confirm(u) ==
  /\ pc[u] = "ready"
  /\ \/ ~link /\ Ends(u, "preflight") /\ UNCHANGED <<packages, hop, faults>>
     \/ link /\ Fault /\ Ends(u, "battery") /\ UNCHANGED <<packages, hop>>
     \/ /\ link /\ Goto(u, "fetch")
        /\ packages' = [packages EXCEPT ![u] = <<>>]
        /\ hop' = [hop EXCEPT ![u] = 1]
        /\ UNCHANGED <<outcome, faults>>
  /\ UNCHANGED <<deviceVars, published, storeVars, after, planVars, stage, tries>>

Fetched(u, v) == packages' = [packages EXCEPT ![u] = Append(@, v)]

\* The package of the resume path is read without a digest to check it by.
ReadSaved(u) ==
  /\ UNCHANGED <<cache, faults>>
  /\ IF package = 0 THEN Ends(u, "store") /\ UNCHANGED packages
     ELSE IF package = Bad THEN Ends(u, "package") /\ UNCHANGED packages
     ELSE Fetched(u, package) /\ UNCHANGED <<pc, outcome>>

\* (mutation: a package with the wrong digest stays in the cache)
KeepRotten(u, v) ==
  IF cache[v] = "rotten"
  THEN Ends(u, "sha256") /\ UNCHANGED <<cache, packages, faults>>
  ELSE \/ /\ Fetched(u, v) /\ cache' = [cache EXCEPT ![v] = "good"]
          /\ UNCHANGED <<pc, outcome, faults>>
       \/ /\ cache[v] # "good" /\ Fault
          /\ Ends(u, "download") /\ UNCHANGED <<cache, packages>>

\* A cached package that no longer has its digest is removed and fetched again.
Download(u, v) ==
  \/ /\ cache[v] = "good"
     /\ Fetched(u, v) /\ UNCHANGED <<cache, pc, outcome, faults>>
  \/ /\ cache[v] # "good"
     /\ Fetched(u, v) /\ cache' = [cache EXCEPT ![v] = "good"] /\ UNCHANGED <<pc, outcome, faults>>
  \/ /\ cache[v] # "good" /\ Fault
     /\ Ends(u, "download") /\ cache' = [cache EXCEPT ![v] = "none"] /\ UNCHANGED packages

Missing(u) == Len(packages[u]) < Len(hops[u])

Fetch(u) ==
  /\ pc[u] = "fetch"
  /\ Missing(u)
  /\ IF resumed[u] THEN ReadSaved(u) ELSE Download(u, hops[u][Len(packages[u]) + 1])
  /\ UNCHANGED <<deviceVars, published, lastCheck, pending, package, after, planVars, hop, stage,
                 tries>>

\* push_with_retry: a connection to the daemon, and push_once from INFO.
StartPush(u) ==
  /\ pc[u] = "fetch"
  /\ ~Missing(u)
  /\ Goto(u, "push")
  /\ stage' = [stage EXCEPT ![u] = Info]
  /\ tries' = [tries EXCEPT ![u] = 0]
  /\ UNCHANGED <<deviceVars, published, storeVars, after, planVars, packages, hop, outcome, faults>>

\* `immurok-cli ota <file>`: one push of the file, without a second try.
RunOta(u) ==
  /\ pc[u] = "idle"
  /\ \E v \in Files :
       /\ hops' = [hops EXCEPT ![u] = <<v>>]
       /\ packages' = [packages EXCEPT ![u] = <<v>>]
  /\ manual' = [manual EXCEPT ![u] = TRUE]
  /\ resumed' = [resumed EXCEPT ![u] = FALSE]
  /\ Goto(u, "push")
  /\ hop' = [hop EXCEPT ![u] = 1]
  /\ stage' = [stage EXCEPT ![u] = Info]
  /\ tries' = [tries EXCEPT ![u] = 1]
  /\ UNCHANGED <<deviceVars, published, storeVars, after, seen, outcome, faults>>

-----------------------------------------------------------------------------
(* push_once() over the daemon's OTA session and the helper *)

Pushing(u) == packages[u][hop[u]]

\* The external device's judgement of a header.
Accepts(v) == v >= version /\ (version < Gate => v = Gate)

Whole == flash.hdr # 0 /\ \A i \in 1..Chunks : flash.body[i] = flash.hdr

\* What each command does to the device once the daemon has passed it on.
EraseImage == flash' = Blank /\ UNCHANGED <<version, link, status>>

SendHeader(v) ==
  /\ flash' = IF Accepts(v) THEN [flash EXCEPT !.hdr = v] ELSE flash
  /\ UNCHANGED <<version, link, status>>

WriteChunk(i, v) ==
  /\ flash' = [flash EXCEPT !.body[i] = v]
  /\ UNCHANGED <<version, link, status>>

EndImage ==
  IF Whole
  THEN version' = flash.hdr /\ flash' = Blank /\ link' = FALSE /\ status' = 0
  ELSE UNCHANGED <<version, flash, link, status>>

Lands(s, v) ==
  CASE s = Info   -> UNCHANGED <<version, flash, link, status>>
    [] s = Erase  -> EraseImage
    [] s = Header -> SendHeader(v)
    [] s = End    -> EndImage
    [] OTHER      -> WriteChunk(s - Header, v)

\* The step succeeded: the next one, the wait for the restarted device, or, in
\* `immurok-cli ota`, "Update complete!".
Proceed(u) ==
  /\ UNCHANGED tries
  /\ IF stage[u] = End
     THEN /\ UNCHANGED stage
          /\ \/ manual[u] /\ Ends(u, "complete")
             \/ ~manual[u] /\ Goto(u, "wait") /\ UNCHANGED outcome
     ELSE /\ UNCHANGED <<pc, outcome>>
          /\ stage' = [stage EXCEPT ![u] = @ + 1]

\* (mutation: a third attempt)
RetryTwice(u) ==
  IF tries[u] <= 1
  THEN /\ tries' = [tries EXCEPT ![u] = @ + 1]
       /\ stage' = [stage EXCEPT ![u] = Info]
       /\ UNCHANGED <<pc, outcome>>
  ELSE Ends(u, "transfer") /\ UNCHANGED <<tries, stage>>

\* A transfer error: once more on a new connection, from INFO.
Retry(u) ==
  IF tries[u] = 0
  THEN /\ tries' = [tries EXCEPT ![u] = 1]
       /\ stage' = [stage EXCEPT ![u] = Info]
       /\ UNCHANGED <<pc, outcome>>
  ELSE Ends(u, "transfer") /\ UNCHANGED <<tries, stage>>

GiveUp(u, what) == Ends(u, what) /\ UNCHANGED <<tries, stage>>

\* No answer, or ERROR: any error at HEADER counts as a rejection, and END takes
\* silence for the restart.
Fails(u, silent) ==
  IF stage[u] = Header THEN GiveUp(u, "header")
  ELSE IF stage[u] = End /\ silent THEN Proceed(u)
  ELSE Retry(u)

PushFrame(u) ==
  UNCHANGED <<published, storeVars, after, planVars, packages, hop>>

\* The command reaches the device and its answer the updater.
Command(u) ==
  /\ pc[u] = "push" /\ link
  /\ Lands(stage[u], Pushing(u))
  /\ CASE stage[u] = Header /\ ~Accepts(Pushing(u)) -> GiveUp(u, "header")
       [] stage[u] = End /\ flash.hdr # 0 /\ ~Whole -> GiveUp(u, "sha256")
       [] OTHER                                     -> Proceed(u)
  /\ lag' = (lag /\ link')
  /\ UNCHANGED faults /\ PushFrame(u)

\* The device refuses the long writes of an erase on a low battery.
EraseRefused(u) ==
  /\ pc[u] = "push" /\ link /\ stage[u] = Erase
  /\ Fault /\ GiveUp(u, "battery")
  /\ UNCHANGED deviceVars /\ PushFrame(u)

\* is_connected is false: OTA_NOT_AVAILABLE, and nothing is written.
NotAvailable(u) ==
  /\ pc[u] = "push" /\ ~link
  /\ Fails(u, FALSE)
  /\ UNCHANGED <<deviceVars, faults>> /\ PushFrame(u)

\* The helper's line misses the daemon's 5 s, or OTA_READ keeps failing; the
\* command may have reached the device all the same.
Unanswered(u) ==
  /\ pc[u] = "push" /\ link
  /\ Fault
  /\ \/ Lands(stage[u], Pushing(u)) /\ lag' = link'
     \/ UNCHANGED <<version, flash, link, status>> /\ lag' = TRUE
  /\ Fails(u, TRUE)
  /\ PushFrame(u)

\* The late line of an earlier command stands in for the answer to a WRITE that
\* failed.  (wait_write_ok)
WrongLine(u) ==
  /\ pc[u] = "push" /\ link /\ lag /\ stage[u] > Header /\ stage[u] # End
  /\ Fault
  /\ Proceed(u)
  /\ UNCHANGED deviceVars /\ PushFrame(u)

\* The socket fails under the command: the daemon may have passed it on.
SocketFails(u) ==
  /\ pc[u] = "push" /\ link
  /\ Fault
  /\ \/ Lands(stage[u], Pushing(u)) /\ lag' = (lag /\ link')
     \/ UNCHANGED deviceVars
  /\ Retry(u)
  /\ PushFrame(u)

-----------------------------------------------------------------------------
(* The wait for the restarted device, and the hop after it *)

\* (mutation: the answer of END is taken for the new version)
ArrivedBlindly(u) ==
  /\ pc[u] = "wait"
  /\ IF hop[u] < Len(hops[u]) THEN Goto(u, "save") /\ UNCHANGED after
     ELSE ClearThen(u, "complete")
  /\ UNCHANGED <<deviceVars, published, storeVars, planVars, pushVars, outcome, faults>>

\* wait_for_version: OTA:VERSION reports at least the hop's version.
Arrived(u) ==
  /\ pc[u] = "wait"
  /\ status >= hops[u][hop[u]]
  /\ IF hop[u] < Len(hops[u]) THEN Goto(u, "save") /\ UNCHANGED after
     ELSE ClearThen(u, "complete")
  /\ UNCHANGED <<deviceVars, published, storeVars, planVars, pushVars, outcome, faults>>

\* 60 s without it.  A device that took the image needs less, but for a fault.
GivesUpWaiting(u) ==
  /\ pc[u] = "wait"
  /\ status < hops[u][hop[u]]
  /\ \/ version < hops[u][hop[u]] /\ UNCHANGED faults
     \/ Fault
  /\ Ends(u, "reconnect")
  /\ UNCHANGED <<deviceVars, published, storeVars, after, planVars, pushVars>>

\* save_pending: the package first, then pending.json.
SavePackage(u) ==
  /\ pc[u] = "save"
  /\ package' = packages[u][hop[u] + 1]
  /\ Goto(u, "save2")
  /\ UNCHANGED <<deviceVars, published, lastCheck, cache, pending, after, planVars, pushVars,
                 outcome, faults>>

SavePending(u) ==
  /\ pc[u] = "save2"
  /\ pending' = [target |-> hops[u][hop[u] + 1], bridge |-> hops[u][hop[u]]]
  /\ Goto(u, "push")
  /\ hop' = [hop EXCEPT ![u] = @ + 1]
  /\ stage' = [stage EXCEPT ![u] = Info]
  /\ tries' = [tries EXCEPT ![u] = 0]
  /\ UNCHANGED <<deviceVars, published, lastCheck, cache, package, after, planVars, packages,
                 outcome, faults>>

\* The message is read: the program ends, or its page is left.
Dismiss(u) ==
  /\ pc[u] = "told"
  /\ Goto(u, "idle")
  /\ outcome' = [outcome EXCEPT ![u] = "none"]
  /\ UNCHANGED <<deviceVars, published, storeVars, after, planVars, pushVars, faults>>

\* The process dies, wherever it is; what is on disk stays.
Crash(u) ==
  /\ pc[u] \notin {"idle", "told"}
  /\ Fault
  /\ Goto(u, "idle")
  /\ UNCHANGED <<deviceVars, published, storeVars, after, planVars, pushVars, outcome>>

-----------------------------------------------------------------------------
(* Around the updaters *)

\* The device goes away: the session ends and its status with it.
LinkLost ==
  /\ link /\ Fault
  /\ link' = FALSE /\ status' = 0 /\ lag' = FALSE
  /\ UNCHANGED <<version, flash, published, storeVars, pc, after, planVars, pushVars, outcome>>

\* A new session, with a new helper.
Connect ==
  /\ ~link
  /\ link' = TRUE
  /\ UNCHANGED <<version, flash, status, lag, published, storeVars, pc, after, planVars, pushVars,
                 outcome, faults>>

\* GET_STATUS at the start of the session, or on a later STATUS.
ReadStatus ==
  /\ link /\ status = 0
  /\ status' = version
  /\ UNCHANGED <<version, flash, link, lag, published, storeVars, pc, after, planVars, pushVars,
                 outcome, faults>>

\* `fw check`, and the terminal interface at its start, look without updating.
SilentCheck ==
  /\ lastCheck' = published
  /\ UNCHANGED <<deviceVars, published, cache, pending, package, pc, after, planVars, pushVars,
                 outcome, faults>>

\* The server publishes a newer firmware.
Publish ==
  /\ published < Newest
  /\ published' = published + 1
  /\ UNCHANGED <<deviceVars, storeVars, pc, after, planVars, pushVars, outcome, faults>>

\* A file goes bad on disk.
Rot ==
  /\ Fault
  /\ \/ \E v \in Versions :
          cache[v] = "good" /\ cache' = [cache EXCEPT ![v] = "rotten"] /\ UNCHANGED package
     \/ RotPending /\ package \in Versions /\ package' = Bad /\ UNCHANGED cache
  /\ UNCHANGED <<deviceVars, published, lastCheck, pending, pc, after, planVars, pushVars, outcome>>

Prepare(u) == Check(u) \/ MakePlan(u) \/ RemovePending(u) \/ RemovePackage(u)

Execute(u) ==
  \/ Confirm(u) \/ Fetch(u) \/ StartPush(u)
  \/ Command(u) \/ EraseRefused(u) \/ NotAvailable(u) \/ Unanswered(u) \/ WrongLine(u)
  \/ SocketFails(u)
  \/ Arrived(u) \/ GivesUpWaiting(u) \/ SavePackage(u) \/ SavePending(u)

Updater(u) == Prepare(u) \/ Execute(u) \/ RunOta(u) \/ Decline(u) \/ Dismiss(u) \/ Crash(u)

Around == LinkLost \/ Connect \/ ReadStatus \/ SilentCheck \/ Publish \/ Rot

Next == Around \/ \E u \in Updaters : Updater(u)

\* The buttons of a firmware page, pressed when the device is there.
AsksAgain(u)     == Check(u) /\ status # 0
ConfirmsAgain(u) == Confirm(u) /\ link

\* The programs and the daemon run on, the device comes back, and the user asks
\* again, forces the check and confirms.  Faults are nobody's duty.
Fairness ==
  /\ WF_vars(Connect) /\ WF_vars(ReadStatus)
  /\ \A u \in Updaters :
       /\ SF_vars(AsksAgain(u)) /\ SF_vars(ConfirmsAgain(u)) /\ WF_vars(Dismiss(u))
       /\ SF_vars(MakePlan(u) /\ lastCheck' = published)
       /\ WF_vars(MakePlan(u) \/ RemovePending(u) \/ RemovePackage(u) \/ Fetch(u) \/ StartPush(u))
       /\ WF_vars(Command(u) \/ NotAvailable(u) \/ Arrived(u) \/ GivesUpWaiting(u)
                  \/ SavePackage(u) \/ SavePending(u))

Spec     == Init /\ [][Next]_vars
FairSpec == Spec /\ Fairness

-----------------------------------------------------------------------------
(* Properties *)

TypeOK ==
  /\ version \in Versions /\ status \in 0..Newest /\ published \in Versions
  /\ flash \in [hdr : 0..Newest, body : [1..Chunks -> 0..(Newest + 1)]]
  /\ link \in BOOLEAN /\ lag \in BOOLEAN
  /\ lastCheck \in 0..Newest
  /\ cache \in [Versions -> {"none", "good", "rotten"}]
  /\ pending \in [target : Versions, bridge : Versions] \cup {None}
  /\ package \in 0..Bad
  /\ pc \in [Updaters -> {"idle", "clear", "clear2", "plan", "ready", "fetch", "push", "wait",
                          "save", "save2", "told"}]
  /\ after \in [Updaters -> {"idle", "plan", "uptodate", "complete"}]
  /\ seen \in [Updaters -> 0..Newest]
  /\ resumed \in [Updaters -> BOOLEAN] /\ manual \in [Updaters -> BOOLEAN]
  /\ hop \in [Updaters -> {1, 2}] /\ stage \in [Updaters -> Info..End]
  /\ tries \in [Updaters -> {0, 1}] /\ outcome \in [Updaters -> Outcomes]
  /\ faults \in 0..MaxFaults
  /\ \A u \in Updaters : hops[u] \in Seq(Versions) /\ packages[u] \in Seq(Versions)

\* Whatever step a crash cut off, a pending.json with a package beside it names
\* that package's version: an interrupted update resumes to its own target.
\* (save_pending writes the package first, clear_pending removes it last)
ResumesToTarget == pending # None => package = pending.target

\* The same for several updaters, of which one may clear what another saves.
SavedPackageMatches == pending # None /\ package # 0 => package = pending.target

\* push.rs:116-127 - a header counts as rejected when the device refuses it.
HeaderRejectionIsReal ==
  \A u \in Updaters :
    pc[u] = "told" /\ outcome[u] = "header" => ~Accepts(packages[u][hop[u]])

\* An update that says it is complete tells the truth, and the device only moves
\* to newer versions: the updaters implement UpdatePromise.
Told == [u \in Updaters |->
           IF pc[u] = "told" /\ outcome[u] = "complete" /\ ~manual[u] THEN Target(u) ELSE 0]

Promise == INSTANCE UpdatePromise WITH running <- version, told <- Told, Nothing <- 0

ImplementsPromise == Promise!Spec

\* Whatever the faults, a user who asks again, and stops pushing files by hand,
\* ends up on the published version or a newer: no cached file, saved package or half-done
\* hop holds the update back for good.
Converges ==
  <>[][\A u \in Updaters : ~RunOta(u)]_vars => <>[](version >= published)

\* ota.rs:379-381 - a command END that fails means that the device has restarted
\* into the image: what `immurok-cli ota` calls "Update complete!".
OtaCompleteIsInstalled ==
  \A u \in Updaters :
    pc[u] = "told" /\ outcome[u] = "complete" /\ manual[u] => version >= hops[u][1]
=============================================================================
