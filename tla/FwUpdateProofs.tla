--------------------------- MODULE FwUpdateProofs ---------------------------
(***************************************************************************)
(* For every number of updaters, of chunks and of faults, the update keeps *)
(* UpdatePromise and its types; and a single updater resumes to the target *)
(* it saved for.                                                           *)
(***************************************************************************)
EXTENDS FwUpdate, SequenceTheorems, TLAPS

Places == {"idle", "clear", "clear2", "plan", "ready", "fetch", "push", "wait", "save", "save2", "told"}

\* The device and what the daemon and the disk say of it.  A header the device
\* took is no older than the device, and neither is its status.
DeviceOK ==
  /\ version \in Versions
  /\ status \in Nat /\ status <= version
  /\ flash \in [hdr : 0..Newest, body : [1..Chunks -> 0..(Newest + 1)]]
  /\ flash.hdr = 0 \/ version <= flash.hdr
  /\ published \in Versions /\ lastCheck \in 0..Newest
  /\ pending \in [target : Versions, bridge : Versions] \cup {None}
  /\ package \in 0..Bad

Types ==
  /\ pc \in [Updaters -> Places]
  /\ after \in [Updaters -> {"idle", "plan", "uptodate", "complete"}]
  /\ outcome \in [Updaters -> Outcomes]
  /\ resumed \in [Updaters -> BOOLEAN] /\ manual \in [Updaters -> BOOLEAN]
  /\ hops \in [Updaters -> Seq(Versions)] /\ packages \in [Updaters -> Seq(Versions)]
  /\ hop \in [Updaters -> {1, 2}] /\ stage \in [Updaters -> Nat] /\ seen \in [Updaters -> Nat]

\* What an updater may say: the version its last hop was for is running.
Done(u) == ~manual[u] /\ Len(hops[u]) > 0 /\ Target(u) <= version

Shape(u) ==
  /\ Len(hops[u]) <= 2
  /\ pc[u] \in {"ready", "fetch", "push", "wait", "save", "save2"} => Len(hops[u]) > 0
  /\ pc[u] \in {"clear", "clear2", "plan", "ready", "fetch", "wait", "save", "save2"} => ~manual[u]
  /\ pc[u] = "fetch" => hop[u] = 1 /\ Len(packages[u]) <= Len(hops[u])
  /\ pc[u] \in {"push", "wait"} => hop[u] <= Len(hops[u]) /\ Len(packages[u]) = Len(hops[u])
  /\ pc[u] \in {"save", "save2"} => hop[u] < Len(hops[u]) /\ Len(packages[u]) = Len(hops[u])
  /\ pc[u] \in {"clear", "clear2"} => after[u] # "idle"
  /\ pc[u] \in {"clear", "clear2"} /\ after[u] = "complete" => Done(u)
  /\ pc[u] = "told" /\ outcome[u] = "complete" /\ ~manual[u] => Done(u)

Inv == DeviceOK /\ Types /\ \A u \in Updaters : Shape(u)

-----------------------------------------------------------------------------
(* Lemmas *)

LEMMA VersionsType ==
  /\ Versions \subseteq Nat \ {0} /\ Newest \in Nat /\ Gate \in Versions
  /\ \A v \in Versions : v <= Newest
BY FwAssumption DEF Versions

\* What Types says of the two sequences of an updater.
LEMMA Hops ==
  ASSUME Types, NEW u \in Updaters
  PROVE  /\ Len(hops[u]) \in Nat /\ Len(packages[u]) \in Nat /\ hop[u] \in {1, 2}
         /\ \A i \in 1..Len(hops[u]) : hops[u][i] \in Versions
         /\ \A i \in 1..Len(packages[u]) : packages[u][i] \in Versions
<1>1. hops[u] \in Seq(Versions) /\ packages[u] \in Seq(Versions) /\ hop[u] \in {1, 2}
  BY DEF Types
<1> QED BY <1>1, ElementOfSeq, LenProperties

\* The steps of an updater and of the device leave what is true of the other
\* updaters as it was: what they have said stays true of a newer version.
LEMMA ShapeKept ==
  ASSUME NEW w \in Updaters, Types, Shape(w), version \in Versions,
         version' \in Versions, version <= version',
         UNCHANGED <<pc[w], after[w], outcome[w], manual[w], hops[w], packages[w], hop[w]>>
  PROVE  Shape(w)'
<1>1. Len(hops[w]) > 0 => Target(w) \in Nat
  <2> HAVE Len(hops[w]) > 0
  <2>1. hops[w] \in Seq(Versions) /\ Len(hops[w]) \in 1..Len(hops[w])
    BY DEF Types
  <2>2. hops[w][Len(hops[w])] \in Versions
    BY <2>1, ElementOfSeq
  <2> QED BY <2>2, VersionsType DEF Target
<1>2. Done(w) => Done(w)'
  BY <1>1, VersionsType DEF Done, Target
<1>3. Len(hops[w])' = Len(hops[w]) /\ Len(packages[w])' = Len(packages[w])
  OBVIOUS
<1> QED BY <1>2, <1>3 DEF Shape

LEMMA RemovePendingKeeps ==
  ASSUME Inv, NEW u \in Updaters, RemovePending(u)
  PROVE  Inv'
<1> USE VersionsType DEF Inv, RemovePending, Goto, Ends, ClearThen, Fault, deviceVars, storeVars, planVars, pushVars
<1>1. DeviceOK'
  BY DEF DeviceOK, Types, Shape, Bad
<1>2. Types'
  BY DEF Types, Outcomes, Places
<1>3. Shape(u)'
  BY DEF Types, Shape, Done, Target
<1>4. ASSUME NEW w \in Updaters, w # u PROVE Shape(w)'
  <2>1. UNCHANGED <<pc[w], after[w], outcome[w], manual[w], hops[w], packages[w], hop[w]>>
    BY <1>4 DEF Types
  <2>2. Types /\ Shape(w) /\ version \in Versions /\ version' \in Versions /\ version <= version'
    BY <1>1, <1>4 DEF DeviceOK
  <2> HIDE DEF Inv, RemovePending
  <2> QED BY <2>1, <2>2, ShapeKept
<1> QED BY <1>1, <1>2, <1>3, <1>4

LEMMA RemovePackageKeeps ==
  ASSUME Inv, NEW u \in Updaters, RemovePackage(u)
  PROVE  Inv'
<1> USE VersionsType DEF Inv, RemovePackage, Goto, Ends, ClearThen, Fault, deviceVars, storeVars, planVars, pushVars
<1>0. after[u] \in Outcomes \/ after[u] = "plan"
  BY DEF Shape, Types, Outcomes
<1>1. DeviceOK'
  BY DEF DeviceOK, Types, Shape, Bad
<1>2. Types'
  <2>1. CASE after[u] = "plan"
    BY <2>1, <1>0 DEF Types, Places
  <2>2. CASE after[u] # "plan"
    BY <2>2, <1>0 DEF Types, Places
  <2> QED BY <2>1, <2>2
<1>3. Shape(u)'
  <2>1. CASE after[u] = "plan"
    BY <2>1 DEF Types, Shape, Done, Target
  <2>2. CASE after[u] # "plan"
    BY <2>2 DEF Types, Shape, Done, Target
  <2> QED BY <2>1, <2>2
<1>4. ASSUME NEW w \in Updaters, w # u PROVE Shape(w)'
  <2>1. UNCHANGED <<pc[w], after[w], outcome[w], manual[w], hops[w], packages[w], hop[w]>>
    BY <1>4 DEF Types
  <2>2. Types /\ Shape(w) /\ version \in Versions /\ version' \in Versions /\ version <= version'
    BY <1>1, <1>4 DEF DeviceOK
  <2> HIDE DEF Inv, RemovePackage
  <2> QED BY <2>1, <2>2, ShapeKept
<1> QED BY <1>1, <1>2, <1>3, <1>4

LEMMA CheckKeeps ==
  ASSUME Inv, NEW u \in Updaters, Check(u)
  PROVE  Inv'
<1> USE VersionsType DEF Inv, Check, Goto, Ends, ClearThen, Fault, deviceVars, storeVars, planVars, pushVars
<1>0. /\ status \in Nat
      /\ pending # None => pending.target \in Versions /\ <<pending.target>> \in Seq(Versions)
      /\ Len(<<pending.target>>) = 1
  BY DEF DeviceOK
<1>1. DeviceOK'
  BY DEF DeviceOK, Types, Shape, Bad
<1>2. Types'
  <2>1. CASE ~link
    BY <2>1, <1>0 DEF Types, Places, Outcomes
  <2>2. CASE link /\ pending = None
    BY <2>2, <1>0 DEF Types, Places, Outcomes
  <2>3. CASE link /\ pending # None /\ status >= pending.target
    BY <2>3, <1>0 DEF Types, Places, Outcomes
  <2>4. CASE link /\ pending # None /\ ~(status >= pending.target) /\ (status < pending.bridge \/ package = 0)
    BY <2>4, <1>0 DEF Types, Places, Outcomes
  <2>5. CASE link /\ pending # None /\ ~(status >= pending.target) /\ ~(status < pending.bridge \/ package = 0)
    BY <2>5, <1>0 DEF Types, Places, Outcomes
  <2> QED BY <2>1, <2>2, <2>3, <2>4, <2>5 DEF DeviceOK
<1>3. Shape(u)'
  <2>1. CASE ~link
    BY <2>1, <1>0 DEF Types, Shape, Done, Target
  <2>2. CASE link /\ pending = None
    BY <2>2, <1>0 DEF Types, Shape, Done, Target
  <2>3. CASE link /\ pending # None /\ status >= pending.target
    BY <2>3, <1>0 DEF Types, Shape, Done, Target
  <2>4. CASE link /\ pending # None /\ ~(status >= pending.target) /\ (status < pending.bridge \/ package = 0)
    BY <2>4, <1>0 DEF Types, Shape, Done, Target
  <2>5. CASE link /\ pending # None /\ ~(status >= pending.target) /\ ~(status < pending.bridge \/ package = 0)
    <3>1. hops'[u] = <<pending.target>> /\ pc'[u] = "ready" /\ manual'[u] = FALSE
      BY <2>5, <1>0 DEF Types
    <3> QED BY <3>1, <1>0 DEF Shape
  <2> QED BY <2>1, <2>2, <2>3, <2>4, <2>5
<1>4. ASSUME NEW w \in Updaters, w # u PROVE Shape(w)'
  <2>1. UNCHANGED <<pc[w], after[w], outcome[w], manual[w], hops[w], packages[w], hop[w]>>
  <3>1. CASE ~link
    BY <3>1, <1>4 DEF Types
  <3>2. CASE link /\ pending = None
    BY <3>2, <1>4 DEF Types
  <3>3. CASE link /\ pending # None /\ status >= pending.target
    BY <3>3, <1>4 DEF Types
  <3>4. CASE link /\ pending # None /\ ~(status >= pending.target) /\ (status < pending.bridge \/ package = 0)
    BY <3>4, <1>4 DEF Types
  <3>5. CASE link /\ pending # None /\ ~(status >= pending.target) /\ ~(status < pending.bridge \/ package = 0)
    BY <3>5, <1>4 DEF Types
  <3> QED BY <3>1, <3>2, <3>3, <3>4, <3>5
  <2>2. Types /\ Shape(w) /\ version \in Versions /\ version' \in Versions /\ version <= version'
    BY <1>1, <1>4 DEF DeviceOK
  <2> HIDE DEF Inv, Check
  <2> QED BY <2>1, <2>2, ShapeKept
<1> QED BY <1>1, <1>2, <1>3, <1>4

LEMMA MakePlanKeeps ==
  ASSUME Inv, NEW u \in Updaters, MakePlan(u)
  PROVE  Inv'
<1> USE VersionsType DEF Inv, MakePlan, Goto, Ends, ClearThen, Fault, deviceVars, storeVars, planVars, pushVars
<1>0. \A m \in Versions : Plan(seen[u], m) \in Seq(Versions) /\ Len(Plan(seen[u], m)) <= 2
  BY DEF Plan, Types
<1>01. \A m \in Versions : Plan(seen[u], m) # <<>> => Len(Plan(seen[u], m)) > 0
  BY DEF Plan
<1>1. DeviceOK'
  BY DEF DeviceOK, Manifest, Bad
<1>2. Types'
  BY <1>0 DEF Types, Outcomes, Places
<1>3. Shape(u)'
  <2>1. CASE pc'[u] = "ready"
    <3>1. PICK m \in Versions : /\ Plan(seen[u], m) # <<>>
                                /\ hops' = [hops EXCEPT ![u] = Plan(seen[u], m)]
      BY <2>1 DEF Types
    <3>2. hops'[u] = Plan(seen[u], m) /\ manual' = manual
      BY <3>1 DEF Types
    <3>3. ~manual[u]
      BY DEF Shape
    <3> QED BY <3>1, <3>2, <3>3, <2>1, <1>0, <1>01 DEF Shape
  <2>2. CASE pc'[u] = "told" /\ outcome'[u] # "complete" /\ hops' = hops
    BY <2>2 DEF Types, Shape
  <2> QED BY <2>1, <2>2 DEF Types
<1>4. ASSUME NEW w \in Updaters, w # u PROVE Shape(w)'
  <2>1. UNCHANGED <<pc[w], after[w], outcome[w], manual[w], hops[w], packages[w], hop[w]>>
    BY <1>4 DEF Types
  <2>2. Types /\ Shape(w) /\ version \in Versions /\ version' \in Versions /\ version <= version'
    BY <1>1, <1>4 DEF DeviceOK
  <2> HIDE DEF Inv, MakePlan
  <2> QED BY <2>1, <2>2, ShapeKept
<1> QED BY <1>1, <1>2, <1>3, <1>4

LEMMA DeclineKeeps ==
  ASSUME Inv, NEW u \in Updaters, Decline(u)
  PROVE  Inv'
<1> USE VersionsType DEF Inv, Decline, Goto, Ends, ClearThen, Fault, deviceVars, storeVars, planVars, pushVars
<1>1. DeviceOK'
  BY DEF DeviceOK, Types, Shape, Bad
<1>2. Types'
  BY DEF Types, Outcomes, Places
<1>3. Shape(u)'
  BY DEF Types, Shape, Done, Target
<1>4. ASSUME NEW w \in Updaters, w # u PROVE Shape(w)'
  <2>1. UNCHANGED <<pc[w], after[w], outcome[w], manual[w], hops[w], packages[w], hop[w]>>
    BY <1>4 DEF Types
  <2>2. Types /\ Shape(w) /\ version \in Versions /\ version' \in Versions /\ version <= version'
    BY <1>1, <1>4 DEF DeviceOK
  <2> HIDE DEF Inv, Decline
  <2> QED BY <2>1, <2>2, ShapeKept
<1> QED BY <1>1, <1>2, <1>3, <1>4

LEMMA ConfirmKeeps ==
  ASSUME Inv, NEW u \in Updaters, Confirm(u)
  PROVE  Inv'
<1> USE VersionsType DEF Inv, Confirm, Goto, Ends, ClearThen, Fault, deviceVars, storeVars, planVars, pushVars
<1>0. <<>> \in Seq(Versions) /\ Len(<<>>) = 0
  OBVIOUS
<1>1. DeviceOK'
  BY DEF DeviceOK, Types, Shape, Bad
<1>2. Types'
  <2>1. /\ pc' \in [Updaters -> Places] /\ outcome' \in [Updaters -> Outcomes]
        /\ packages' \in [Updaters -> Seq(Versions)] /\ hop' \in [Updaters -> {1, 2}]
    <3>1. pc' \in [Updaters -> Places]
      BY DEF Types, Places
    <3>2. outcome' \in [Updaters -> Outcomes]
      BY DEF Types, Outcomes
    <3>3. packages' \in [Updaters -> Seq(Versions)]
      BY <1>0 DEF Types
    <3>4. hop' \in [Updaters -> {1, 2}]
      BY DEF Types
    <3> QED BY <3>1, <3>2, <3>3, <3>4
  <2> QED BY <2>1 DEF Types
<1>3. Shape(u)'
  BY <1>0 DEF Types, Shape, Done, Target
<1>4. ASSUME NEW w \in Updaters, w # u PROVE Shape(w)'
  <2>1. UNCHANGED <<pc[w], after[w], outcome[w], manual[w], hops[w], packages[w], hop[w]>>
    BY <1>4 DEF Types
  <2>2. Types /\ Shape(w) /\ version \in Versions /\ version' \in Versions /\ version <= version'
    BY <1>1, <1>4 DEF DeviceOK
  <2> HIDE DEF Inv, Confirm
  <2> QED BY <2>1, <2>2, ShapeKept
<1> QED BY <1>1, <1>2, <1>3, <1>4

LEMMA StartPushKeeps ==
  ASSUME Inv, NEW u \in Updaters, StartPush(u)
  PROVE  Inv'
<1> USE VersionsType DEF Inv, StartPush, Goto, Ends, ClearThen, Fault, deviceVars, storeVars, planVars, pushVars, Missing, Info
<1>1. DeviceOK'
  BY DEF DeviceOK, Types, Shape, Bad
<1>2. Types'
  BY DEF Types, Outcomes, Places
<1>3. Shape(u)'
  BY DEF Types, Shape, Done, Target
<1>4. ASSUME NEW w \in Updaters, w # u PROVE Shape(w)'
  <2>1. UNCHANGED <<pc[w], after[w], outcome[w], manual[w], hops[w], packages[w], hop[w]>>
    BY <1>4 DEF Types
  <2>2. Types /\ Shape(w) /\ version \in Versions /\ version' \in Versions /\ version <= version'
    BY <1>1, <1>4 DEF DeviceOK
  <2> HIDE DEF Inv, StartPush
  <2> QED BY <2>1, <2>2, ShapeKept
<1> QED BY <1>1, <1>2, <1>3, <1>4

LEMMA GivesUpWaitingKeeps ==
  ASSUME Inv, NEW u \in Updaters, GivesUpWaiting(u)
  PROVE  Inv'
<1> USE VersionsType DEF Inv, GivesUpWaiting, Goto, Ends, ClearThen, Fault, deviceVars, storeVars, planVars, pushVars
<1>1. DeviceOK'
  BY DEF DeviceOK, Types, Shape, Bad
<1>2. Types'
  BY DEF Types, Outcomes, Places
<1>3. Shape(u)'
  BY DEF Types, Shape, Done, Target
<1>4. ASSUME NEW w \in Updaters, w # u PROVE Shape(w)'
  <2>1. UNCHANGED <<pc[w], after[w], outcome[w], manual[w], hops[w], packages[w], hop[w]>>
    BY <1>4 DEF Types
  <2>2. Types /\ Shape(w) /\ version \in Versions /\ version' \in Versions /\ version <= version'
    BY <1>1, <1>4 DEF DeviceOK
  <2> HIDE DEF Inv, GivesUpWaiting
  <2> QED BY <2>1, <2>2, ShapeKept
<1> QED BY <1>1, <1>2, <1>3, <1>4

LEMMA ArrivedKeeps ==
  ASSUME Inv, NEW u \in Updaters, Arrived(u)
  PROVE  Inv'
<1> USE VersionsType DEF Inv, Arrived, Goto, Ends, ClearThen, Fault, deviceVars, storeVars, planVars, pushVars
<1>1. DeviceOK'
  BY DEF DeviceOK, Types, Shape, Bad
<1>2. Types'
  BY DEF Types, Outcomes, Places
<1>3. Shape(u)'
  <2>1. CASE hop[u] < Len(hops[u])
    BY <2>1 DEF Types, Shape
  <2>2. CASE ~(hop[u] < Len(hops[u]))
    <3>1. hop[u] = Len(hops[u]) /\ hop[u] \in Nat
      BY <2>2 DEF Types, Shape
    <3>2. hops[u][hop[u]] \in Nat
      <4>1. \A i \in 1..Len(hops[u]) : hops[u][i] \in Versions
        BY Hops
      <4>2. hop[u] \in 1..Len(hops[u])
        BY <3>1, Hops DEF Shape
      <4> QED BY <4>1, <4>2, VersionsType
    <3>3. Target(u) <= version /\ Len(hops[u]) > 0 /\ ~manual[u]
      BY <3>1, <3>2 DEF DeviceOK, Target, Shape
    <3>4. Done(u)'
      BY <3>3 DEF Done, Target
    <3> QED BY <2>2, <3>4 DEF Types, Shape
  <2> QED BY <2>1, <2>2
<1>4. ASSUME NEW w \in Updaters, w # u PROVE Shape(w)'
  <2>1. UNCHANGED <<pc[w], after[w], outcome[w], manual[w], hops[w], packages[w], hop[w]>>
    BY <1>4 DEF Types
  <2>2. Types /\ Shape(w) /\ version \in Versions /\ version' \in Versions /\ version <= version'
    BY <1>1, <1>4 DEF DeviceOK
  <2> HIDE DEF Inv, Arrived
  <2> QED BY <2>1, <2>2, ShapeKept
<1> QED BY <1>1, <1>2, <1>3, <1>4

LEMMA DismissKeeps ==
  ASSUME Inv, NEW u \in Updaters, Dismiss(u)
  PROVE  Inv'
<1> USE VersionsType DEF Inv, Dismiss, Goto, Ends, ClearThen, Fault, deviceVars, storeVars, planVars, pushVars
<1>1. DeviceOK'
  BY DEF DeviceOK, Types, Shape, Bad
<1>2. Types'
  BY DEF Types, Outcomes, Places
<1>3. Shape(u)'
  BY DEF Types, Shape, Done, Target
<1>4. ASSUME NEW w \in Updaters, w # u PROVE Shape(w)'
  <2>1. UNCHANGED <<pc[w], after[w], outcome[w], manual[w], hops[w], packages[w], hop[w]>>
    BY <1>4 DEF Types
  <2>2. Types /\ Shape(w) /\ version \in Versions /\ version' \in Versions /\ version <= version'
    BY <1>1, <1>4 DEF DeviceOK
  <2> HIDE DEF Inv, Dismiss
  <2> QED BY <2>1, <2>2, ShapeKept
<1> QED BY <1>1, <1>2, <1>3, <1>4

LEMMA CrashKeeps ==
  ASSUME Inv, NEW u \in Updaters, Crash(u)
  PROVE  Inv'
<1> USE VersionsType DEF Inv, Crash, Goto, Ends, ClearThen, Fault, deviceVars, storeVars, planVars, pushVars
<1>1. DeviceOK'
  BY DEF DeviceOK, Types, Shape, Bad
<1>2. Types'
  BY DEF Types, Outcomes, Places
<1>3. Shape(u)'
  BY DEF Types, Shape, Done, Target
<1>4. ASSUME NEW w \in Updaters, w # u PROVE Shape(w)'
  <2>1. UNCHANGED <<pc[w], after[w], outcome[w], manual[w], hops[w], packages[w], hop[w]>>
    BY <1>4 DEF Types
  <2>2. Types /\ Shape(w) /\ version \in Versions /\ version' \in Versions /\ version <= version'
    BY <1>1, <1>4 DEF DeviceOK
  <2> HIDE DEF Inv, Crash
  <2> QED BY <2>1, <2>2, ShapeKept
<1> QED BY <1>1, <1>2, <1>3, <1>4

LEMMA SavePackageKeeps ==
  ASSUME Inv, NEW u \in Updaters, SavePackage(u)
  PROVE  Inv'
<1> USE VersionsType DEF Inv, SavePackage, Goto, Ends, ClearThen, Fault, deviceVars, storeVars, planVars, pushVars
<1>1. DeviceOK'
  <2>1. packages[u][hop[u] + 1] \in Versions
    <3>1. hop[u] + 1 \in 1..Len(packages[u])
      BY Hops DEF Shape
    <3>2. \A i \in 1..Len(packages[u]) : packages[u][i] \in Versions
      BY Hops
    <3> QED BY <3>1, <3>2
  <2>2. package' \in Versions
    BY <2>1
  <2>3. package' \in 0..Bad
    BY <2>2, VersionsType DEF Bad
  <2> QED BY <2>3 DEF DeviceOK
<1>2. Types'
  BY DEF Types, Outcomes, Places
<1>3. Shape(u)'
  BY DEF Types, Shape, Done, Target
<1>4. ASSUME NEW w \in Updaters, w # u PROVE Shape(w)'
  <2>1. UNCHANGED <<pc[w], after[w], outcome[w], manual[w], hops[w], packages[w], hop[w]>>
    BY <1>4 DEF Types
  <2>2. Types /\ Shape(w) /\ version \in Versions /\ version' \in Versions /\ version <= version'
    BY <1>1, <1>4 DEF DeviceOK
  <2> HIDE DEF Inv, SavePackage
  <2> QED BY <2>1, <2>2, ShapeKept
<1> QED BY <1>1, <1>2, <1>3, <1>4

LEMMA SavePendingKeeps ==
  ASSUME Inv, NEW u \in Updaters, SavePending(u)
  PROVE  Inv'
<1> USE VersionsType DEF Inv, SavePending, Goto, Ends, ClearThen, Fault, deviceVars, storeVars, planVars, pushVars, Info
<1>0. /\ hop[u] = 1 /\ Len(hops[u]) = 2 /\ Len(packages[u]) = 2
      /\ hops[u][hop[u] + 1] \in Versions /\ hops[u][hop[u]] \in Versions
  <2>1. hop[u] = 1 /\ Len(hops[u]) = 2 /\ Len(packages[u]) = 2
    <3>1. Len(hops[u]) \in Nat /\ hop[u] \in {1, 2}
      BY Hops
    <3>2. hop[u] < Len(hops[u]) /\ Len(hops[u]) <= 2 /\ Len(packages[u]) = Len(hops[u])
      BY DEF Shape
    <3>3. hop[u] = 1 /\ Len(hops[u]) = 2
      <4> DEFINE n == Len(hops[u])
      <4>1. n \in Nat /\ hop[u] \in {1, 2} /\ hop[u] < n /\ n <= 2
        BY <3>1, <3>2
      <4> HIDE DEF n, SavePending, Inv
      <4>2. hop[u] = 1 /\ n = 2
        BY <4>1
      <4> QED BY <4>2 DEF n
    <3> QED BY <3>2, <3>3
  <2>2. \A i \in 1..Len(hops[u]) : hops[u][i] \in Versions
    BY Hops
  <2> QED BY <2>1, <2>2
<1>1. DeviceOK'
  BY <1>0 DEF DeviceOK
<1>2. Types'
  BY <1>0 DEF Types, Places
<1>3. Shape(u)'
  BY <1>0 DEF Types, Shape
<1>4. ASSUME NEW w \in Updaters, w # u PROVE Shape(w)'
  <2>1. UNCHANGED <<pc[w], after[w], outcome[w], manual[w], hops[w], packages[w], hop[w]>>
    BY <1>4 DEF Types
  <2>2. Types /\ Shape(w) /\ version \in Versions /\ version' \in Versions /\ version <= version'
    BY <1>1, <1>4 DEF DeviceOK
  <2> HIDE DEF Inv, SavePending
  <2> QED BY <2>1, <2>2, ShapeKept
<1> QED BY <1>1, <1>2, <1>3, <1>4

LEMMA RunOtaKeeps ==
  ASSUME Inv, NEW u \in Updaters, RunOta(u)
  PROVE  Inv'
<1> USE VersionsType DEF Inv, RunOta, Goto, Ends, ClearThen, Fault, deviceVars, storeVars, planVars, pushVars, Info
<1>0. \A v \in Files : v \in Versions /\ <<v>> \in Seq(Versions) /\ Len(<<v>>) = 1
  <2> TAKE v \in Files
  <2>1. v \in Versions
    BY FwAssumption DEF Versions
  <2> QED BY <2>1
<1>1. DeviceOK'
  BY DEF DeviceOK, Types, Shape, Bad
<1>2. Types'
  BY <1>0 DEF Types, Places
<1>3. Shape(u)'
  BY <1>0 DEF Types, Shape
<1>4. ASSUME NEW w \in Updaters, w # u PROVE Shape(w)'
  <2>1. UNCHANGED <<pc[w], after[w], outcome[w], manual[w], hops[w], packages[w], hop[w]>>
    BY <1>4 DEF Types
  <2>2. Types /\ Shape(w) /\ version \in Versions /\ version' \in Versions /\ version <= version'
    BY <1>1, <1>4 DEF DeviceOK
  <2> HIDE DEF Inv, RunOta
  <2> QED BY <2>1, <2>2, ShapeKept
<1> QED BY <1>1, <1>2, <1>3, <1>4

\* Which package Fetch appends, if it does.
LEMMA Fetches ==
  ASSUME Inv, NEW u \in Updaters, Fetch(u)
  PROVE  \/ /\ packages' = packages
            /\ pc' = [pc EXCEPT ![u] = "told"]
            /\ outcome' \in {[outcome EXCEPT ![u] = x] : x \in {"store", "package", "download"}}
         \/ /\ \E v \in Versions : packages' = [packages EXCEPT ![u] = Append(packages[u], v)]
            /\ UNCHANGED <<pc, outcome>>
<1> USE DEF Fetch, Fetched, Ends, Goto, Inv
<1>1. CASE resumed[u] /\ package \in {0, Bad}
  BY <1>1 DEF ReadSaved
<1>2. CASE resumed[u] /\ package \notin {0, Bad}
  <2>1. package \in Versions
    BY <1>2, VersionsType DEF DeviceOK, Bad, Versions
  <2> QED BY <1>2, <2>1 DEF ReadSaved
<1>3. CASE ~resumed[u]
  <2> DEFINE v == hops[u][Len(packages[u]) + 1]
  <2>1. v \in Versions
    <3>1. \A i \in 1..Len(hops[u]) : hops[u][i] \in Versions
      BY Hops
    <3>2. Len(packages[u]) + 1 \in 1..Len(hops[u])
      BY Hops DEF Missing
    <3> QED BY <3>1, <3>2
  <2>2. Download(u, v)
    BY <1>3
  <2> HIDE DEF v
  <2> QED BY <2>1, <2>2 DEF Download
<1> QED BY <1>1, <1>2, <1>3

LEMMA FetchKeeps ==
  ASSUME Inv, NEW u \in Updaters, Fetch(u)
  PROVE  Inv'
<1>1. /\ UNCHANGED <<deviceVars, published, lastCheck, pending, package, after, planVars, hop, stage>>
      /\ pc[u] = "fetch" /\ Len(packages[u]) < Len(hops[u])
  BY DEF Fetch, Missing
<1>2. DeviceOK'
  BY <1>1 DEF Inv, DeviceOK, deviceVars
<1>3. CASE \E v \in Versions : /\ packages' = [packages EXCEPT ![u] = Append(packages[u], v)]
                               /\ UNCHANGED <<pc, outcome>>
  <2>1. PICK v \in Versions : packages' = [packages EXCEPT ![u] = Append(packages[u], v)]
    BY <1>3
  <2>2. /\ packages[u] \in Seq(Versions)
        /\ Append(packages[u], v) \in Seq(Versions)
        /\ Len(Append(packages[u], v)) = Len(packages[u]) + 1
    BY DEF Inv, Types
  <2>3. Types'
    BY <1>1, <1>3, <2>1, <2>2 DEF Inv, Types, planVars
  <2>4. ASSUME NEW w \in Updaters PROVE Shape(w)'
    <3>1. CASE w = u
      <4>1. packages'[u] = Append(packages[u], v)
        BY <2>1 DEF Inv, Types
      <4>2. Len(packages'[u]) <= Len(hops[u]) /\ hop[u] = 1
        BY <4>1, <2>2, <1>1, Hops DEF Inv, Shape
      <4> QED BY <3>1, <4>2, <1>1, <1>3 DEF Inv, Shape, planVars
    <3>2. CASE w # u
      <4>1. UNCHANGED <<pc[w], after[w], outcome[w], manual[w], hops[w], packages[w], hop[w]>>
        BY <3>2, <2>1, <1>1, <1>3 DEF Inv, Types, planVars
      <4> QED BY <4>1, <1>1, <1>2, ShapeKept, VersionsType DEF Inv, DeviceOK, deviceVars
    <3> QED BY <3>1, <3>2
  <2> QED BY <1>2, <2>3, <2>4 DEF Inv
<1>4. CASE /\ packages' = packages
           /\ pc' = [pc EXCEPT ![u] = "told"]
           /\ outcome' \in {[outcome EXCEPT ![u] = x] : x \in {"store", "package", "download"}}
  <2>1. PICK x \in {"store", "package", "download"} : outcome' = [outcome EXCEPT ![u] = x]
    BY <1>4
  <2>2. Types'
    BY <1>1, <1>4, <2>1 DEF Inv, Types, planVars, Places, Outcomes
  <2>3. ASSUME NEW w \in Updaters PROVE Shape(w)'
    <3>1. CASE w = u
      BY <3>1, <2>1, <1>1, <1>4 DEF Inv, Types, Shape, planVars
    <3>2. CASE w # u
      <4>1. UNCHANGED <<pc[w], after[w], outcome[w], manual[w], hops[w], packages[w], hop[w]>>
        BY <3>2, <2>1, <1>1, <1>4 DEF Inv, Types, planVars
      <4> QED BY <4>1, <1>1, <1>2, ShapeKept, VersionsType DEF Inv, DeviceOK, deviceVars
    <3> QED BY <3>1, <3>2
  <2> QED BY <1>2, <2>2, <2>3 DEF Inv
<1> QED BY <1>3, <1>4, Fetches

-----------------------------------------------------------------------------
(* The push *)

\* What a command may do to the device.
LEMMA LandsKeeps ==
  ASSUME Inv, NEW u \in Updaters, pc[u] = "push", Lands(stage[u], Pushing(u))
  PROVE  /\ version' \in Versions /\ version <= version'
         /\ status' \in Nat /\ status' <= version'
         /\ flash' \in [hdr : 0..Newest, body : [1..Chunks -> 0..(Newest + 1)]]
         /\ flash'.hdr = 0 \/ version' <= flash'.hdr
<1>1. /\ version \in Versions /\ version \in Nat /\ status \in Nat /\ status <= version
      /\ flash \in [hdr : 0..Newest, body : [1..Chunks -> 0..(Newest + 1)]]
      /\ flash.hdr = 0 \/ version <= flash.hdr
  BY VersionsType DEF Inv, DeviceOK
<1>2. Pushing(u) \in Versions
  <2>1. \A i \in 1..Len(packages[u]) : packages[u][i] \in Versions
    BY Hops DEF Inv
  <2>2. hop[u] \in 1..Len(packages[u])
    BY Hops DEF Inv, Shape
  <2> QED BY <2>1, <2>2 DEF Pushing
<1> DEFINE v == Pushing(u)  s == stage[u]
<1>3. v \in 0..Newest /\ v \in 0..(Newest + 1) /\ Newest \in Nat
  BY <1>2, VersionsType DEF Versions
<1>4. Blank \in [hdr : 0..Newest, body : [1..Chunks -> 0..(Newest + 1)]] /\ Blank.hdr = 0
  BY <1>3 DEF Blank
<1> HIDE DEF v, s
<1>5. CASE s = Info
  <2>1. UNCHANGED <<version, flash, link, status>>
    BY <1>5, FwAssumption DEF Lands, EraseImage, SendHeader, WriteChunk, EndImage, v, s, Info, Erase, Header, End
  <2> QED BY <2>1, <1>1
<1>6. CASE s = Erase
  <2>1. flash' = Blank /\ UNCHANGED <<version, link, status>>
    BY <1>6, FwAssumption DEF Lands, EraseImage, SendHeader, WriteChunk, EndImage, v, s, Info, Erase, Header, End
  <2> QED BY <2>1, <1>1, <1>4
<1>7. CASE s = Header
  <2>1. UNCHANGED <<version, status>> /\ flash' = IF Accepts(v) THEN [flash EXCEPT !.hdr = v] ELSE flash
    BY <1>7, FwAssumption DEF Lands, EraseImage, SendHeader, WriteChunk, EndImage, v, s, Info, Erase, Header, End
  <2>2. CASE Accepts(v)
    BY <2>1, <2>2, <1>1, <1>3 DEF Accepts
  <2>3. CASE ~Accepts(v)
    BY <2>1, <2>3, <1>1
  <2> QED BY <2>2, <2>3
<1>8. CASE s = End
  <2>1. IF Whole
        THEN version' = flash.hdr /\ flash' = Blank /\ status' = 0
        ELSE UNCHANGED <<version, flash, status>>
    BY <1>8, FwAssumption DEF Lands, EraseImage, SendHeader, WriteChunk, EndImage, v, s, Info, Erase, Header, End
  <2>2. CASE Whole
    <3>1. flash.hdr \in Versions /\ version <= flash.hdr
      BY <2>2, <1>1, <1>3 DEF Whole, Versions
    <3>2. version' = flash.hdr /\ flash' = Blank /\ status' = 0
      BY <2>1, <2>2
    <3>3. flash.hdr \in Nat
      BY <3>1, VersionsType
    <3> QED BY <3>1, <3>2, <3>3, <1>4
  <2>3. CASE ~Whole
    BY <2>1, <2>3, <1>1
  <2> QED BY <2>2, <2>3
<1>9. CASE s \notin {Info, Erase, Header, End}
  <2>1. UNCHANGED <<version, status>> /\ flash' = [flash EXCEPT !.body[s - Header] = v]
    BY <1>9 DEF Lands, EraseImage, SendHeader, WriteChunk, EndImage, v, s
  <2>2. flash'.hdr = flash.hdr
    BY <2>1, <1>1
  <2>3. flash' \in [hdr : 0..Newest, body : [1..Chunks -> 0..(Newest + 1)]]
    BY <2>1, <1>1, <1>3
  <2> QED BY <2>1, <2>2, <2>3, <1>1
<1> QED BY <1>5, <1>6, <1>7, <1>8, <1>9

\* Where a command of the push leaves its updater.
Moves(u) == Proceed(u) \/ Retry(u) \/ \E x \in {"header", "sha256", "battery"} : GiveUp(u, x)

LEMMA FailsMoves ==
  ASSUME NEW u \in Updaters, NEW silent, Fails(u, silent)
  PROVE  Moves(u)
BY DEF Fails, Moves

LEMMA MovesKeep ==
  ASSUME Inv, NEW u \in Updaters, pc[u] = "push", PushFrame(u), Moves(u),
         version' \in Versions, version <= version',
         status' \in Nat, status' <= version',
         flash' \in [hdr : 0..Newest, body : [1..Chunks -> 0..(Newest + 1)]],
         flash'.hdr = 0 \/ version' <= flash'.hdr
  PROVE  Inv'
<1>1. UNCHANGED <<published, lastCheck, pending, package, after, seen, hops, resumed, manual, packages, hop>>
  BY DEF PushFrame, storeVars, planVars
<1>2. DeviceOK'
  BY <1>1 DEF Inv, DeviceOK
<1>3. \/ UNCHANGED <<pc, outcome>> /\ stage' \in {stage, [stage EXCEPT ![u] = stage[u] + 1], [stage EXCEPT ![u] = 0]}
      \/ /\ pc' = [pc EXCEPT ![u] = "wait"]
         /\ UNCHANGED <<outcome, stage>> /\ ~manual[u]
      \/ /\ \E x \in {"complete", "transfer", "header", "sha256", "battery"} :
              /\ x = "complete" => manual[u]
              /\ outcome' = [outcome EXCEPT ![u] = x]
         /\ pc' = [pc EXCEPT ![u] = "told"]
         /\ UNCHANGED stage
  <2>1. CASE Proceed(u)
    BY <2>1 DEF Proceed, Ends, Goto
  <2>2. CASE Retry(u)
    BY <2>2 DEF Retry, Ends, Goto, Info
  <2>3. CASE \E x \in {"header", "sha256", "battery"} : GiveUp(u, x)
    BY <2>3 DEF GiveUp, Ends, Goto
  <2> QED BY <2>1, <2>2, <2>3 DEF Moves
<1>4. \A w \in Updaters : w # u => UNCHANGED <<pc[w], outcome[w]>>
  BY <1>3 DEF Inv, Types
<1>5. Types'
  <2>1. pc' \in [Updaters -> Places]
    BY <1>3 DEF Inv, Types, Places
  <2>2. outcome' \in [Updaters -> Outcomes]
    BY <1>3 DEF Inv, Types, Outcomes
  <2>3. stage' \in [Updaters -> Nat]
    <3>1. stage \in [Updaters -> Nat] /\ stage[u] \in Nat
      BY DEF Inv, Types
    <3>2. stage' \in {stage, [stage EXCEPT ![u] = stage[u] + 1], [stage EXCEPT ![u] = 0]}
      BY <1>3
    <3> QED BY <3>1, <3>2
  <2> QED BY <1>1, <2>1, <2>2, <2>3 DEF Inv, Types
<1>6. Shape(u)'
  <2>1. Shape(u) /\ UNCHANGED <<after[u], manual[u], hops[u], packages[u], hop[u]>>
    BY <1>1 DEF Inv
  <2>2. CASE UNCHANGED <<pc, outcome>>
    BY <2>1, <2>2 DEF Shape
  <2>3. CASE pc' = [pc EXCEPT ![u] = "wait"] /\ ~manual[u]
    <3>1. pc'[u] = "wait"
      BY <2>3 DEF Inv, Types
    <3> QED BY <3>1, <2>1, <2>3 DEF Shape
  <2>4. CASE /\ \E x \in {"complete", "transfer", "header", "sha256", "battery"} :
                 /\ x = "complete" => manual[u]
                 /\ outcome' = [outcome EXCEPT ![u] = x]
             /\ pc' = [pc EXCEPT ![u] = "told"]
    <3>1. pc'[u] = "told" /\ (outcome'[u] = "complete" => manual[u])
      BY <2>4 DEF Inv, Types
    <3> QED BY <3>1, <2>1 DEF Shape
  <2> QED BY <1>3, <2>2, <2>3, <2>4
<1>7. ASSUME NEW w \in Updaters, w # u PROVE Shape(w)'
  <2>1. UNCHANGED <<pc[w], after[w], outcome[w], manual[w], hops[w], packages[w], hop[w]>>
    BY <1>1, <1>4, <1>7
  <2>2. Types /\ Shape(w) /\ version \in Versions
    BY DEF Inv, DeviceOK
  <2> QED BY <2>1, <2>2, ShapeKept
<1> QED BY <1>2, <1>5, <1>6, <1>7 DEF Inv

\* The device is left alone by a command that does not land.
LEMMA Untouched ==
  ASSUME Inv, UNCHANGED <<version, flash, status>>
  PROVE  /\ version' \in Versions /\ version <= version'
         /\ status' \in Nat /\ status' <= version'
         /\ flash' \in [hdr : 0..Newest, body : [1..Chunks -> 0..(Newest + 1)]]
         /\ flash'.hdr = 0 \/ version' <= flash'.hdr
BY VersionsType DEF Inv, DeviceOK

LEMMA CommandKeeps ==
  ASSUME Inv, NEW u \in Updaters, Command(u)
  PROVE  Inv'
<1>1. pc[u] = "push" /\ PushFrame(u) /\ Lands(stage[u], Pushing(u))
  BY DEF Command
<1>2. Moves(u)
  BY DEF Command, Moves
<1> QED BY <1>1, <1>2, LandsKeeps, MovesKeep

LEMMA EraseRefusedKeeps ==
  ASSUME Inv, NEW u \in Updaters, EraseRefused(u)
  PROVE  Inv'
<1>1. pc[u] = "push" /\ PushFrame(u) /\ UNCHANGED <<version, flash, status>> /\ Moves(u)
  BY DEF EraseRefused, Moves, deviceVars
<1> QED BY <1>1, Untouched, MovesKeep

LEMMA NotAvailableKeeps ==
  ASSUME Inv, NEW u \in Updaters, NotAvailable(u)
  PROVE  Inv'
<1>1. pc[u] = "push" /\ PushFrame(u) /\ UNCHANGED <<version, flash, status>> /\ Fails(u, FALSE)
  BY DEF NotAvailable, deviceVars
<1> QED BY <1>1, Untouched, FailsMoves, MovesKeep

LEMMA UnansweredKeeps ==
  ASSUME Inv, NEW u \in Updaters, Unanswered(u)
  PROVE  Inv'
<1>1. pc[u] = "push" /\ PushFrame(u) /\ Fails(u, TRUE)
  BY DEF Unanswered
<1>2. Lands(stage[u], Pushing(u)) \/ UNCHANGED <<version, flash, status>>
  BY DEF Unanswered
<1> QED BY <1>1, <1>2, Untouched, LandsKeeps, FailsMoves, MovesKeep

LEMMA WrongLineKeeps ==
  ASSUME Inv, NEW u \in Updaters, WrongLine(u)
  PROVE  Inv'
<1>1. pc[u] = "push" /\ PushFrame(u) /\ UNCHANGED <<version, flash, status>> /\ Moves(u)
  BY DEF WrongLine, Moves, deviceVars
<1> QED BY <1>1, Untouched, MovesKeep

LEMMA SocketFailsKeeps ==
  ASSUME Inv, NEW u \in Updaters, SocketFails(u)
  PROVE  Inv'
<1>1. pc[u] = "push" /\ PushFrame(u) /\ Moves(u)
  BY DEF SocketFails, Moves
<1>2. Lands(stage[u], Pushing(u)) \/ UNCHANGED <<version, flash, status>>
  BY DEF SocketFails, deviceVars
<1> QED BY <1>1, <1>2, Untouched, LandsKeeps, MovesKeep

-----------------------------------------------------------------------------
(* Around the updaters, and the theorems *)

LEMMA AroundKeeps ==
  ASSUME Inv, Around
  PROVE  Inv'
<1>1. UNCHANGED <<version, flash, pending, pc, after, seen, hops, resumed, manual, packages, hop,
                  stage, outcome>>
  BY DEF Around, LinkLost, Connect, ReadStatus, SilentCheck, Publish, Rot, deviceVars, storeVars, planVars, pushVars
<1>2. status' \in Nat /\ status' <= version
  BY VersionsType DEF Around, LinkLost, Connect, ReadStatus, SilentCheck, Publish, Rot, deviceVars, Inv, DeviceOK
<1>3. published' \in Versions /\ lastCheck' \in 0..Newest
  BY FwAssumption DEF Around, LinkLost, Connect, ReadStatus, SilentCheck, Publish, Rot, storeVars, Inv, DeviceOK, Versions
<1>4. package' \in 0..Bad
  BY VersionsType DEF Around, LinkLost, Connect, ReadStatus, SilentCheck, Publish, Rot, storeVars, Inv, DeviceOK, Bad
<1>5. DeviceOK'
  BY <1>1, <1>2, <1>3, <1>4 DEF Inv, DeviceOK
<1>6. Types'
  BY <1>1 DEF Inv, Types
<1>7. ASSUME NEW w \in Updaters PROVE Shape(w)'
  BY <1>1 DEF Inv, Shape, Done, Target
<1> QED BY <1>5, <1>6, <1>7 DEF Inv

LEMMA InitInv == Init => Inv
<1> SUFFICES ASSUME Init PROVE Inv
  OBVIOUS
<1>1. DeviceOK
  BY VersionsType, FwAssumption DEF Init, DeviceOK, Blank, Versions, Bad
<1>2. Types
  BY DEF Init, Types, Places, Outcomes, Info
<1>3. ASSUME NEW w \in Updaters PROVE Shape(w)
  BY DEF Init, Shape
<1> QED BY <1>1, <1>2, <1>3 DEF Inv

LEMMA NextInv == Inv /\ [Next]_vars => Inv'
<1> SUFFICES ASSUME Inv, [Next]_vars PROVE Inv'
  OBVIOUS
<1>1. CASE UNCHANGED vars
  BY <1>1 DEF vars, deviceVars, storeVars, planVars, pushVars, Inv, DeviceOK, Types, Shape, Done, Target
<1>2. CASE Around
  BY <1>2, AroundKeeps
<1>3. ASSUME NEW u \in Updaters, Updater(u) PROVE Inv'
  BY <1>3, CheckKeeps, MakePlanKeeps, RemovePendingKeeps, RemovePackageKeeps, ConfirmKeeps, FetchKeeps,
     StartPushKeeps, CommandKeeps, EraseRefusedKeeps, NotAvailableKeeps, UnansweredKeeps, WrongLineKeeps,
     SocketFailsKeeps, ArrivedKeeps, GivesUpWaitingKeeps, SavePackageKeeps, SavePendingKeeps, RunOtaKeeps,
     DeclineKeeps, DismissKeeps, CrashKeeps
  DEF Updater, Prepare, Execute
<1> QED BY <1>1, <1>2, <1>3 DEF Next

LEMMA InvHolds == Spec => []Inv
BY InitInv, NextInv, PTL DEF Spec

-----------------------------------------------------------------------------
(* The type invariant *)

\* What Inv leaves open of TypeOK: the link, the cached files, the ranges of the
\* stages, of the tries and of the faults.
Ranges ==
  /\ link \in BOOLEAN /\ lag \in BOOLEAN
  /\ cache \in [Versions -> {"none", "good", "rotten"}]
  /\ seen \in [Updaters -> 0..Newest] /\ stage \in [Updaters -> Info..End]
  /\ tries \in [Updaters -> {0, 1}] /\ faults \in 0..MaxFaults

LEMMA Stages ==
  /\ Info \in Info..End /\ End \in Nat
  /\ \A s \in Info..End : s # End => s + 1 \in Info..End
BY FwAssumption DEF Info, End

LEMMA FaultInRange ==
  ASSUME faults \in 0..MaxFaults, Fault \/ UNCHANGED faults
  PROVE  faults' \in 0..MaxFaults
BY FwAssumption DEF Fault

LEMMA LandsLeavesLink ==
  ASSUME link \in BOOLEAN, NEW s, NEW v, Lands(s, v)
  PROVE  link' \in BOOLEAN
<1>1. UNCHANGED link \/ EndImage
  BY DEF Lands, EraseImage, SendHeader, WriteChunk
<1> QED BY <1>1 DEF EndImage

\* A command of the push, whatever became of it.
LEMMA PushKeepsRanges ==
  ASSUME Ranges, NEW u \in Updaters, PushFrame(u), Moves(u),
         Lands(stage[u], Pushing(u)) \/ UNCHANGED link,
         lag' \in {lag, TRUE, link', lag /\ link'}, Fault \/ UNCHANGED faults
  PROVE  Ranges'
<1>1. UNCHANGED <<cache, seen>> BY DEF PushFrame, storeVars, planVars
<1>2. link' \in BOOLEAN BY LandsLeavesLink DEF Ranges
<1>3. lag' \in BOOLEAN BY <1>2 DEF Ranges
<1>4. stage' \in [Updaters -> Info..End] /\ tries' \in [Updaters -> {0, 1}]
  <2>1. CASE Proceed(u) BY <2>1, Stages DEF Proceed, Ranges
  <2>2. CASE Retry(u) BY <2>2, Stages DEF Retry, Ranges
  <2>3. CASE UNCHANGED <<stage, tries>> BY <2>3 DEF Ranges
  <2> QED BY <2>1, <2>2, <2>3 DEF Moves, GiveUp
<1>5. faults' \in 0..MaxFaults BY FaultInRange DEF Ranges
<1> QED BY <1>1, <1>2, <1>3, <1>4, <1>5 DEF Ranges

LEMMA UpdaterKeepsRanges ==
  ASSUME Inv, Ranges, NEW u \in Updaters, Updater(u)
  PROVE  Ranges'
<1> USE DEF deviceVars, storeVars, planVars, pushVars
<1>1. CASE Check(u)
  <2>1. status \in 0..Newest BY VersionsType DEF Inv, DeviceOK
  <2> QED BY <1>1, <2>1 DEF Check, Ranges
<1>2. CASE MakePlan(u)
  <2>1. Fault \/ UNCHANGED faults BY <1>2 DEF MakePlan
  <2> QED BY <1>2, <2>1, FaultInRange DEF MakePlan, Ranges
<1>3. CASE RemovePending(u) \/ RemovePackage(u) \/ SavePackage(u) \/ Decline(u) \/ Dismiss(u)
  BY <1>3 DEF RemovePending, RemovePackage, SavePackage, Decline, Dismiss, Ranges
<1>4. CASE Confirm(u) \/ Crash(u) \/ Arrived(u) \/ GivesUpWaiting(u)
  <2>1. Fault \/ UNCHANGED faults BY <1>4 DEF Confirm, Crash, Arrived, GivesUpWaiting
  <2> QED BY <1>4, <2>1, FaultInRange DEF Confirm, Crash, Arrived, GivesUpWaiting, Ranges
<1>5. CASE Fetch(u)
  <2>1. /\ Fault \/ UNCHANGED faults
        /\ \/ UNCHANGED cache
           \/ \E v : cache' = [cache EXCEPT ![v] = "good"] \/ cache' = [cache EXCEPT ![v] = "none"]
    BY <1>5 DEF Fetch, ReadSaved, Download
  <2>2. cache' \in [Versions -> {"none", "good", "rotten"}] BY <2>1 DEF Ranges
  <2> QED BY <1>5, <2>1, <2>2, FaultInRange DEF Fetch, Ranges
<1>6. CASE StartPush(u) \/ SavePending(u) \/ RunOta(u)
  BY <1>6, Stages DEF StartPush, SavePending, RunOta, Ranges
<1>7. CASE Command(u) \/ EraseRefused(u) \/ NotAvailable(u) \/ Unanswered(u) \/ WrongLine(u)
           \/ SocketFails(u)
  <2>1. /\ PushFrame(u) /\ Moves(u)
        /\ Fault \/ UNCHANGED faults
        /\ Lands(stage[u], Pushing(u)) \/ UNCHANGED link
        /\ lag' \in {lag, TRUE, link', lag /\ link'}
    BY <1>7, FailsMoves DEF Command, EraseRefused, NotAvailable, Unanswered, WrongLine, SocketFails, Moves
  <2> QED BY <2>1, PushKeepsRanges
<1> QED BY <1>1, <1>2, <1>3, <1>4, <1>5, <1>6, <1>7 DEF Updater, Prepare, Execute

LEMMA AroundKeepsRanges ==
  ASSUME Ranges, Around
  PROVE  Ranges'
<1> USE DEF deviceVars, storeVars, planVars, pushVars
<1>1. CASE Rot
  <2>1. cache' \in [Versions -> {"none", "good", "rotten"}] BY <1>1 DEF Rot, Ranges
  <2> QED BY <1>1, <2>1, FaultInRange DEF Rot, Ranges
<1>2. CASE LinkLost BY <1>2, FaultInRange DEF LinkLost, Ranges
<1>3. CASE Connect \/ ReadStatus \/ SilentCheck \/ Publish
  BY <1>3 DEF Connect, ReadStatus, SilentCheck, Publish, Ranges
<1> QED BY <1>1, <1>2, <1>3 DEF Around

\* For every number of updaters, of chunks and of faults, every variable keeps its
\* type: no push runs past END or tries a third time.
THEOREM TypeCorrect == Spec => []TypeOK
<1>1. Init => Ranges
  <2> SUFFICES ASSUME Init PROVE Ranges OBVIOUS
  <2>1. link \in BOOLEAN /\ lag \in BOOLEAN BY DEF Init
  <2>2. cache \in [Versions -> {"none", "good", "rotten"}] BY DEF Init
  <2>3. 0 \in 0..Newest /\ 0 \in 0..MaxFaults BY FwAssumption
  <2>4. seen \in [Updaters -> 0..Newest] /\ faults \in 0..MaxFaults BY <2>3 DEF Init
  <2>5. stage \in [Updaters -> Info..End] /\ tries \in [Updaters -> {0, 1}] BY Stages DEF Init
  <2> QED BY <2>1, <2>2, <2>4, <2>5 DEF Ranges
<1>2. Inv /\ Ranges /\ [Next]_vars => Ranges'
  <2> SUFFICES ASSUME Inv, Ranges, [Next]_vars PROVE Ranges' OBVIOUS
  <2>1. CASE UNCHANGED vars
    BY <2>1 DEF vars, deviceVars, storeVars, planVars, pushVars, Ranges
  <2> QED BY <2>1, UpdaterKeepsRanges, AroundKeepsRanges DEF Next
<1>3. Inv /\ Ranges => TypeOK
  <2> SUFFICES ASSUME Inv, Ranges PROVE TypeOK OBVIOUS
  <2>1. status \in 0..Newest BY VersionsType DEF Inv, DeviceOK
  <2>2. \A u \in Updaters : hops[u] \in Seq(Versions) /\ packages[u] \in Seq(Versions)
    BY DEF Inv, Types
  <2> QED BY <2>1, <2>2 DEF Inv, DeviceOK, Types, Ranges, TypeOK, Places
<1> QED BY <1>1, <1>2, <1>3, InvHolds, PTL DEF Spec

-----------------------------------------------------------------------------
(* A single updater resumes to its own target *)

OneUpdater == \A u, w \in Updaters : u = w

\* Before it saves, an updater that planned for itself has cleared what an earlier one
\* saved, and what it saves is what it fetched for the last hop.
Saves(u) ==
  /\ pc[u] \in {"clear2", "plan", "save", "save2"} => pending = None
  /\ pc[u] \in {"ready", "fetch"} /\ ~resumed[u] => pending = None
  /\ pc[u] \in {"push", "wait"} /\ ~manual[u] /\ hop[u] < Len(hops[u]) => pending = None
  /\ pc[u] \in {"ready", "fetch", "push", "wait", "save", "save2"} /\ ~manual[u] /\ resumed[u]
       => Len(hops[u]) = 1
  /\ pc[u] \in {"fetch", "push", "wait", "save", "save2"} /\ ~manual[u] /\ ~resumed[u]
       => \A i \in 1..Len(packages[u]) : packages[u][i] = hops[u][i]
  /\ pc[u] = "save2" => package = hops[u][hop[u] + 1]

ResumeInv == ResumesToTarget /\ \A u \in Updaters : Saves(u)

LEMMA CheckSaves ==
  ASSUME Inv, ResumeInv, NEW u \in Updaters, Check(u)
  PROVE  Saves(u)'
<1> USE DEF Goto, Ends, ClearThen, storeVars, pushVars
<1>1. \/ pc' = [pc EXCEPT ![u] = "told"] \/ pc' = [pc EXCEPT ![u] = "clear"]
      \/ pc' = [pc EXCEPT ![u] = "plan"] /\ pending = None /\ UNCHANGED storeVars
      \/ /\ pc' = [pc EXCEPT ![u] = "ready"] /\ hops' = [hops EXCEPT ![u] = <<pending.target>>]
         /\ resumed' = [resumed EXCEPT ![u] = TRUE]
  BY DEF Check
<1>2. CASE /\ pc' = [pc EXCEPT ![u] = "ready"] /\ hops' = [hops EXCEPT ![u] = <<pending.target>>]
           /\ resumed' = [resumed EXCEPT ![u] = TRUE]
  <2>1. pc'[u] = "ready" /\ resumed'[u] /\ Len(hops'[u]) = 1
    BY <1>2 DEF Inv, Types
  <2> QED BY <2>1 DEF Saves
<1>3. CASE pc' = [pc EXCEPT ![u] = "plan"] /\ pending = None /\ UNCHANGED storeVars
  BY <1>3 DEF Saves, Inv, Types
<1>4. CASE pc' = [pc EXCEPT ![u] = "told"] \/ pc' = [pc EXCEPT ![u] = "clear"]
  BY <1>4 DEF Saves, Inv, Types
<1> QED BY <1>1, <1>2, <1>3, <1>4

LEMMA MakePlanSaves ==
  ASSUME Inv, ResumeInv, NEW u \in Updaters, MakePlan(u)
  PROVE  Saves(u)'
<1>1. pending' = None BY DEF MakePlan, ResumeInv, Saves
<1>2. \/ pc' = [pc EXCEPT ![u] = "told"]
      \/ pc' = [pc EXCEPT ![u] = "ready"] /\ resumed' = [resumed EXCEPT ![u] = FALSE]
  BY DEF MakePlan, Goto, Ends
<1>3. pc'[u] = "told" \/ (pc'[u] = "ready" /\ ~resumed'[u])
  <2>1. pc \in [Updaters -> Places] /\ resumed \in [Updaters -> BOOLEAN] BY DEF Inv, Types
  <2> QED BY <1>2, <2>1
<1> QED BY <1>1, <1>3 DEF Saves

\* The packages of a plan are those of its hops: only a resumed plan takes the saved one.
LEMMA FetchSaves ==
  ASSUME Inv, ResumeInv, NEW u \in Updaters, Fetch(u)
  PROVE  Saves(u)'
<1>1. /\ pc[u] = "fetch" /\ UNCHANGED <<pending, hops, resumed, manual, hop>>
      /\ Len(packages[u]) < Len(hops[u])
  BY DEF Fetch, Missing, planVars
<1>2. \/ pc' = [pc EXCEPT ![u] = "told"]
      \/ /\ UNCHANGED pc
         /\ \E v : /\ packages' = [packages EXCEPT ![u] = Append(packages[u], v)]
                   /\ ~resumed[u] => v = hops[u][Len(packages[u]) + 1]
  BY DEF Fetch, ReadSaved, Download, Fetched, Ends, Goto
<1>3. CASE pc' = [pc EXCEPT ![u] = "told"]
  BY <1>3 DEF Inv, Types, Saves
<1>4. ASSUME NEW v, UNCHANGED pc, packages' = [packages EXCEPT ![u] = Append(packages[u], v)],
             ~resumed[u] => v = hops[u][Len(packages[u]) + 1]
      PROVE  Saves(u)'
  <2>1. packages[u] \in Seq(Versions) /\ packages'[u] = Append(packages[u], v)
    BY <1>4 DEF Inv, Types
  <2>2. ASSUME ~manual[u], ~resumed[u], NEW i \in 1..Len(packages'[u])
        PROVE  packages'[u][i] = hops[u][i]
    <3>1. \A j \in 1..Len(packages[u]) : packages[u][j] = hops[u][j]
      BY <1>1, <2>2 DEF ResumeInv, Saves
    <3>2. \/ i \in 1..Len(packages[u]) /\ packages'[u][i] = packages[u][i]
          \/ i = Len(packages[u]) + 1 /\ packages'[u][i] = v
      BY <2>1, <2>2
    <3> QED BY <1>4, <2>2, <3>1, <3>2
  <2> QED BY <1>1, <1>4, <2>2 DEF ResumeInv, Saves
<1> QED BY <1>2, <1>3, <1>4

\* What the steps of the push leave of the plan.
LEMMA PushSaves ==
  ASSUME Inv, ResumeInv, NEW u \in Updaters, pc[u] = "push", PushFrame(u), Moves(u)
  PROVE  Saves(u)'
<1>1. UNCHANGED <<pending, package, hops, resumed, manual, packages, hop>>
  BY DEF PushFrame, storeVars, planVars
<1>2. UNCHANGED pc \/ \E p \in {"told", "wait"} : pc' = [pc EXCEPT ![u] = p]
  BY DEF Moves, Proceed, Retry, GiveUp, Ends, Goto
<1>3. pc'[u] \in {"push", "told", "wait"} BY <1>2 DEF Inv, Types
<1> QED BY <1>1, <1>3 DEF ResumeInv, Saves

LEMMA ArrivedSaves ==
  ASSUME Inv, ResumeInv, NEW u \in Updaters, Arrived(u)
  PROVE  Saves(u)'
<1>1. pc[u] = "wait" /\ UNCHANGED <<pending, package, hops, resumed, manual, packages, hop>>
  BY DEF Arrived, storeVars, planVars, pushVars
<1>2. pc'[u] = "clear" \/ (pc'[u] = "save" /\ hop[u] < Len(hops[u]))
  <2>1. pc \in [Updaters -> Places] BY DEF Inv, Types
  <2>2. \/ pc' = [pc EXCEPT ![u] = "clear"]
        \/ pc' = [pc EXCEPT ![u] = "save"] /\ hop[u] < Len(hops[u])
    BY DEF Arrived, ClearThen, Goto
  <2> QED BY <2>1, <2>2
<1>3. ~manual[u] BY <1>1 DEF Inv, Shape
<1> QED BY <1>1, <1>2, <1>3 DEF ResumeInv, Saves

\* A plan that goes on to save has two hops, so that its packages were fetched for them.
LEMMA SavePackageSaves ==
  ASSUME Inv, ResumeInv, NEW u \in Updaters, SavePackage(u)
  PROVE  ResumesToTarget' /\ Saves(u)'
<1>1. /\ pc[u] = "save" /\ pending' = pending /\ UNCHANGED <<hops, resumed, manual, packages, hop>>
      /\ package' = packages[u][hop[u] + 1] /\ pc' = [pc EXCEPT ![u] = "save2"]
  BY DEF SavePackage, planVars, pushVars, Goto
<1>2. pending = None /\ ~manual[u] /\ hop[u] < Len(hops[u]) /\ Len(packages[u]) = Len(hops[u])
  BY <1>1 DEF ResumeInv, Saves, Inv, Shape
<1>3. Len(hops[u]) \in Nat /\ hop[u] \in {1, 2} BY Hops DEF Inv
<1>4. ~resumed[u] BY <1>1, <1>2, <1>3 DEF ResumeInv, Saves
<1>5. hop[u] + 1 \in 1..Len(packages[u]) BY <1>2, <1>3
<1>6. package' = hops[u][hop[u] + 1] BY <1>1, <1>2, <1>4, <1>5 DEF ResumeInv, Saves
<1>7. pc'[u] = "save2" BY <1>1 DEF Inv, Types
<1> QED BY <1>1, <1>2, <1>4, <1>6, <1>7 DEF ResumeInv, Saves, ResumesToTarget

LEMMA SavePendingSaves ==
  ASSUME Inv, ResumeInv, NEW u \in Updaters, SavePending(u)
  PROVE  ResumesToTarget' /\ Saves(u)'
<1>1. /\ pc[u] = "save2" /\ UNCHANGED <<package, hops, resumed, manual, packages>>
      /\ pending' = [target |-> hops[u][hop[u] + 1], bridge |-> hops[u][hop[u]]]
      /\ pc' = [pc EXCEPT ![u] = "push"] /\ hop' = [hop EXCEPT ![u] = hop[u] + 1]
  BY DEF SavePending, planVars, Goto
<1>2. package = hops[u][hop[u] + 1] BY <1>1 DEF ResumeInv, Saves
<1>3. ResumesToTarget' BY <1>1, <1>2 DEF ResumesToTarget
<1>4. /\ Len(hops[u]) \in Nat /\ Len(hops[u]) <= 2 /\ hop[u] \in {1, 2} /\ hop[u] < Len(hops[u])
      /\ pc'[u] = "push" /\ hop'[u] = hop[u] + 1
  BY <1>1, Hops DEF Inv, Shape, Types
<1>5. ~(hop'[u] < Len(hops[u])) BY <1>4
<1> QED BY <1>1, <1>3, <1>4, <1>5 DEF ResumeInv, Saves

LEMMA OtherSteps ==
  ASSUME Inv, ResumeInv, NEW u \in Updaters,
         \/ RemovePending(u) \/ RemovePackage(u) \/ Confirm(u) \/ StartPush(u) \/ GivesUpWaiting(u)
         \/ RunOta(u) \/ Decline(u) \/ Dismiss(u) \/ Crash(u)
  PROVE  ResumesToTarget' /\ Saves(u)'
<1> USE DEF Inv, Types, ResumeInv, Saves, ResumesToTarget, storeVars, planVars, pushVars, Goto, Ends
<1>1. CASE RemovePending(u) BY <1>1 DEF RemovePending
<1>2. CASE RemovePackage(u)
  <2>1. pc'[u] = "plan" \/ pc'[u] = "told" BY <1>2 DEF RemovePackage
  <2> QED BY <1>2, <2>1 DEF RemovePackage
<1>3. CASE Confirm(u)
  <2>1. \/ pc'[u] = "told"
        \/ pc'[u] = "fetch" /\ packages' = [packages EXCEPT ![u] = <<>>]
    BY <1>3 DEF Confirm
  <2>2. pc[u] = "ready" /\ UNCHANGED <<pending, package, hops, resumed, manual>>
    BY <1>3 DEF Confirm
  <2>3. Len(<<>>) = 0 OBVIOUS
  <2>4. pc'[u] = "fetch" => packages'[u] = <<>>
    <3>1. packages \in [Updaters -> Seq(Versions)] BY DEF Inv, Types
    <3> QED BY <2>1, <3>1
  <2>5. pc'[u] \in {"told", "fetch"} BY <2>1
  <2>6. Saves(u) /\ ResumesToTarget BY DEF ResumeInv
  <2> HIDE DEF Inv, Types, ResumeInv
  <2> QED BY <2>2, <2>3, <2>4, <2>5, <2>6
<1>4. CASE StartPush(u)
  <2>1. /\ pc[u] = "fetch" /\ pc'[u] = "push"
        /\ UNCHANGED <<pending, package, hops, resumed, manual, packages, hop>>
    BY <1>4 DEF StartPush
  <2>2. hop[u] = 1 BY <2>1 DEF Shape
  <2>3. Saves(u) /\ ResumesToTarget BY DEF ResumeInv
  <2> HIDE DEF Inv, Types, ResumeInv
  <2>4. ~manual[u] /\ hop[u] < Len(hops[u]) => pending = None
    <3>1. CASE resumed[u] /\ ~manual[u]
      <4>1. Len(hops[u]) = 1 BY <2>1, <2>3, <3>1
      <4> QED BY <2>2, <4>1
    <3>2. CASE ~resumed[u] BY <2>1, <2>3, <3>2
    <3> QED BY <3>1, <3>2
  <2>5. ResumesToTarget' BY <2>1, <2>3
  <2>6. Saves(u)' BY <2>1, <2>3, <2>4
  <2> QED BY <2>5, <2>6
<1>5. CASE RunOta(u) BY <1>5 DEF RunOta
<1>6. CASE GivesUpWaiting(u) BY <1>6 DEF GivesUpWaiting
<1>7. CASE Decline(u) \/ Dismiss(u) \/ Crash(u) BY <1>7 DEF Decline, Dismiss, Crash
<1> QED BY <1>1, <1>2, <1>3, <1>4, <1>5, <1>6, <1>7

LEMMA UpdaterResumes ==
  ASSUME OneUpdater, Inv, ResumeInv, NEW u \in Updaters, Updater(u)
  PROVE  ResumeInv'
<1>1. CASE Check(u) \/ MakePlan(u) \/ Fetch(u) \/ Arrived(u)
  <2>1. UNCHANGED <<pending, package>>
    BY <1>1 DEF Check, MakePlan, Fetch, Arrived, storeVars
  <2>2. ResumesToTarget' BY <2>1 DEF ResumeInv, ResumesToTarget
  <2> QED BY <1>1, <2>2, CheckSaves, MakePlanSaves, FetchSaves, ArrivedSaves DEF ResumeInv, OneUpdater
<1>2. CASE Command(u) \/ EraseRefused(u) \/ NotAvailable(u) \/ Unanswered(u) \/ WrongLine(u)
           \/ SocketFails(u)
  <2>1. pc[u] = "push" /\ PushFrame(u) /\ Moves(u)
    BY <1>2, FailsMoves DEF Command, EraseRefused, NotAvailable, Unanswered, WrongLine, SocketFails, Moves
  <2>2. ResumesToTarget' BY <2>1 DEF PushFrame, storeVars, ResumeInv, ResumesToTarget
  <2> QED BY <2>1, <2>2, PushSaves DEF ResumeInv, OneUpdater
<1>3. CASE SavePackage(u) \/ SavePending(u)
  BY <1>3, SavePackageSaves, SavePendingSaves DEF ResumeInv, OneUpdater
<1>4. CASE \/ RemovePending(u) \/ RemovePackage(u) \/ Confirm(u) \/ StartPush(u)
           \/ GivesUpWaiting(u) \/ RunOta(u) \/ Decline(u) \/ Dismiss(u) \/ Crash(u)
  BY <1>4, OtherSteps DEF ResumeInv, OneUpdater
<1> QED BY <1>1, <1>2, <1>3, <1>4 DEF Updater, Prepare, Execute

\* Whatever fails and wherever the program dies, pending.json names the package beside
\* it: a single updater always resumes to its own target, while the package stays whole.
THEOREM ResumesHold ==
  ASSUME OneUpdater, ~RotPending
  PROVE  Spec => []ResumesToTarget
<1>1. Init => ResumeInv
  BY DEF Init, ResumeInv, ResumesToTarget, Saves
<1>2. Inv /\ ResumeInv /\ [Next]_vars => ResumeInv'
  <2> SUFFICES ASSUME Inv, ResumeInv, [Next]_vars PROVE ResumeInv' OBVIOUS
  <2>1. CASE UNCHANGED vars \/ Around
    <3>1. UNCHANGED <<pending, package, pc, hops, resumed, manual, packages, hop>>
      BY <2>1 DEF vars, Around, LinkLost, Connect, ReadStatus, SilentCheck, Publish, Rot, deviceVars,
                  storeVars, planVars, pushVars
    <3> QED BY <3>1 DEF ResumeInv, ResumesToTarget, Saves
  <2> QED BY <2>1, UpdaterResumes DEF Next
<1>3. ResumeInv => ResumesToTarget BY DEF ResumeInv
<1> QED BY <1>1, <1>2, <1>3, InvHolds, PTL DEF Spec

-----------------------------------------------------------------------------
(* The refinement *)

\* A step of u that does not end in "Update complete" tells nobody anything.
LEMMA SaysNothing ==
  ASSUME Types, Types', NEW u \in Updaters,
         \A w \in Updaters : w # u => UNCHANGED <<pc[w], outcome[w], manual[w], hops[w]>>,
         pc[u] # "told",
         pc'[u] = "told" /\ outcome'[u] = "complete" => manual'[u]
  PROVE  Told' = Told
<1>1. Told' = [w \in Updaters |->
        IF pc'[w] = "told" /\ outcome'[w] = "complete" /\ ~manual'[w] THEN Target(w)' ELSE 0]
  BY DEF Told
<1>2. ASSUME NEW w \in Updaters
      PROVE  (IF pc'[w] = "told" /\ outcome'[w] = "complete" /\ ~manual'[w] THEN Target(w)' ELSE 0)
           = (IF pc[w] = "told" /\ outcome[w] = "complete" /\ ~manual[w] THEN Target(w) ELSE 0)
  <2>1. CASE w = u
    BY <2>1
  <2>2. CASE w # u
    BY <2>2 DEF Target
  <2> QED BY <2>1, <2>2
<1> QED BY <1>1, <1>2 DEF Told

\* The steps before and after the push leave the device alone.
LEMMA DeskSteps ==
  ASSUME Inv, NEW u \in Updaters,
         \/ Check(u) \/ MakePlan(u) \/ RemovePending(u) \/ Confirm(u) \/ Fetch(u) \/ StartPush(u)
         \/ Arrived(u) \/ GivesUpWaiting(u) \/ SavePackage(u) \/ SavePending(u) \/ RunOta(u)
         \/ Decline(u) \/ Crash(u)
  PROVE  /\ version' = version
         /\ \A w \in Updaters : w # u => UNCHANGED <<pc[w], outcome[w], manual[w], hops[w]>>
         /\ pc[u] # "told"
         /\ pc'[u] = "told" /\ outcome'[u] = "complete" => manual'[u]
<1> USE DEF Inv, Types, Goto, Ends, ClearThen, deviceVars, storeVars, planVars, pushVars
<1>1. CASE Check(u)
  BY <1>1 DEF Check
<1>2. CASE MakePlan(u)
  BY <1>2 DEF MakePlan
<1>3. CASE RemovePending(u) \/ StartPush(u) \/ SavePackage(u) \/ SavePending(u) \/ Decline(u) \/ Crash(u)
  BY <1>3 DEF RemovePending, StartPush, SavePackage, SavePending, Decline, Crash
<1>4. CASE Confirm(u)
  BY <1>4 DEF Confirm
<1>5. CASE Fetch(u)
  BY <1>5, Fetches DEF Fetch
<1>6. CASE Arrived(u) \/ GivesUpWaiting(u)
  BY <1>6 DEF Arrived, GivesUpWaiting
<1>7. CASE RunOta(u)
  BY <1>7 DEF RunOta
<1> QED BY <1>1, <1>2, <1>3, <1>4, <1>5, <1>6, <1>7

\* The commands of a push may move the device, and tell nobody.
LEMMA PushSteps ==
  ASSUME Inv, NEW u \in Updaters,
         \/ Command(u) \/ EraseRefused(u) \/ NotAvailable(u) \/ Unanswered(u) \/ WrongLine(u)
         \/ SocketFails(u)
  PROVE  /\ \A w \in Updaters : w # u => UNCHANGED <<pc[w], outcome[w], manual[w], hops[w]>>
         /\ pc[u] # "told"
         /\ pc'[u] = "told" /\ outcome'[u] = "complete" => manual'[u]
<1>1. pc[u] = "push" /\ PushFrame(u)
  BY DEF Command, EraseRefused, NotAvailable, Unanswered, WrongLine, SocketFails
<1>2. Moves(u)
  BY FailsMoves DEF Command, EraseRefused, NotAvailable, Unanswered, WrongLine, SocketFails, Moves
<1>3. UNCHANGED <<manual, hops>>
  BY <1>1 DEF PushFrame, planVars
<1>4. CASE Proceed(u)
  BY <1>1, <1>3, <1>4 DEF Inv, Types, Proceed, Ends, Goto
<1>5. CASE Retry(u)
  BY <1>1, <1>3, <1>5 DEF Inv, Types, Retry, Ends, Goto
<1>6. CASE \E x \in {"header", "sha256", "battery"} : GiveUp(u, x)
  BY <1>1, <1>3, <1>6 DEF Inv, Types, GiveUp, Ends, Goto
<1> QED BY <1>2, <1>4, <1>5, <1>6 DEF Moves

LEMMA VersionMoves ==
  ASSUME Inv, Inv', NEW u \in Updaters, Updater(u)
  PROVE  version <= version' \/ version' = version
<1>1. CASE Lands(stage[u], Pushing(u)) /\ pc[u] = "push"
  BY <1>1, LandsKeeps
<1>2. CASE ~(Lands(stage[u], Pushing(u)) /\ pc[u] = "push")
  BY <1>2, DeskSteps DEF Updater, Prepare, Execute, Command, EraseRefused, NotAvailable, Unanswered,
     WrongLine, SocketFails, RemovePackage, Dismiss, deviceVars
<1> QED BY <1>1, <1>2

LEMMA StepKeepsPromise ==
  ASSUME Inv, Inv', [Next]_vars
  PROVE  [Promise!Next]_<<version, Told>>
<1> USE DEF Promise!Next, Promise!Upgrade, Promise!Announce, Promise!Withdraw
<1>1. CASE UNCHANGED vars
  BY <1>1 DEF vars, deviceVars, planVars, Told, Target
<1>2. CASE Around
  <2>1. UNCHANGED <<version, pc, outcome, manual, hops>>
    BY <1>2 DEF Around, LinkLost, Connect, ReadStatus, SilentCheck, Publish, Rot, deviceVars, planVars
  <2> QED BY <2>1 DEF Told, Target
<1>3. ASSUME NEW u \in Updaters, Updater(u) PROVE [Promise!Next]_<<version, Told>>
  <2>1. CASE RemovePackage(u)
    <3>1. UNCHANGED <<version, hops, manual>> /\ pc[u] = "clear2"
      BY <2>1 DEF RemovePackage, deviceVars, planVars
    <3>2. CASE after[u] = "complete"
      <4>1. Done(u)
        BY <3>1, <3>2 DEF Inv, Shape
      <4>2. Target(u) \in Versions
        <5>1. \A i \in 1..Len(hops[u]) : hops[u][i] \in Versions
          BY Hops DEF Inv
        <5>2. Len(hops[u]) \in 1..Len(hops[u])
          BY <4>1, Hops DEF Inv, Done
        <5> QED BY <5>1, <5>2 DEF Target
      <4>3. pc' = [pc EXCEPT ![u] = "told"] /\ outcome' = [outcome EXCEPT ![u] = "complete"]
        BY <2>1, <3>2 DEF RemovePackage, Ends, Goto
      <4>4. Told' = [Told EXCEPT ![u] = Target(u)]
        BY <3>1, <4>1, <4>3 DEF Inv, Types, Told, Target, Done
      <4> QED BY <3>1, <4>1, <4>2, <4>4 DEF Done
    <3>3. CASE after[u] # "complete"
      <4>1. /\ \A w \in Updaters : w # u => UNCHANGED <<pc[w], outcome[w], manual[w], hops[w]>>
            /\ outcome'[u] = "complete" => pc'[u] # "told"
        <5>1. CASE after[u] = "plan"
          BY <2>1, <3>1, <5>1 DEF RemovePackage, Goto, Inv, Types
        <5>2. CASE after[u] # "plan"
          BY <2>1, <3>1, <3>3, <5>2 DEF RemovePackage, Ends, Goto, Inv, Types
        <5> QED BY <5>1, <5>2
      <4>2. Told' = Told
        BY <4>1, <3>1, SaysNothing DEF Inv
      <4> QED BY <4>2, <3>1
    <3> QED BY <3>2, <3>3
  <2>2. CASE Dismiss(u)
    <3>1. /\ UNCHANGED <<version, hops, manual>>
          /\ pc' = [pc EXCEPT ![u] = "idle"] /\ outcome' = [outcome EXCEPT ![u] = "none"]
      BY <2>2 DEF Dismiss, Goto, deviceVars, planVars
    <3>2. Told' = [Told EXCEPT ![u] = 0]
      BY <3>1 DEF Inv, Types, Told, Target
    <3> QED BY <3>1, <3>2
  <2>3. CASE ~RemovePackage(u) /\ ~Dismiss(u)
    <3>1. Told' = Told
      BY <1>3, <2>3, DeskSteps, PushSteps, SaysNothing DEF Inv, Updater, Prepare, Execute
    <3>2. version \in Versions /\ version' \in Versions /\ (version <= version' \/ version' = version)
      BY <1>3, VersionMoves DEF Inv, DeviceOK
    <3>3. version' = version \/ version' > version
      BY <3>2, VersionsType
    <3> QED BY <3>1, <3>2, <3>3
  <2> QED BY <2>1, <2>2, <2>3
<1> QED BY <1>1, <1>2, <1>3 DEF Next

\* For every number of updaters, chunks and faults, "Update complete" is said
\* only of a version the device runs, and the device only moves forward.
THEOREM PromiseKept == Spec => ImplementsPromise
<1>1. Init => Promise!Init
  BY FwAssumption DEF Init, Promise!Init, Told, Versions
<1>2. Inv /\ Inv' /\ [Next]_vars => [Promise!Next]_<<version, Told>>
  BY StepKeepsPromise
<1> QED BY <1>1, <1>2, InvHolds, PTL DEF Spec, ImplementsPromise, Promise!Spec

=============================================================================
