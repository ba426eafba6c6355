-------------------------- MODULE KeyClientsProofs --------------------------
(***************************************************************************)
(* For any number of clients, keys and requests: the model is typed; a     *)
(* code that is shown will be hidden, a secret on the clipboard will be    *)
(* taken back, and a closed panel delivers nothing; an import writes its   *)
(* file in order; what one agent connection hands out is the signature it  *)
(* asked for; and what a terminal deletes is the key it named.             *)
(***************************************************************************)
EXTENDS KeyClients, SequenceTheorems, TLAPS

-----------------------------------------------------------------------------
(* What each actor leaves alone *)

LEMMA DaemonFrame == DaemonNext => UNCHANGED <<listVars, pageVars, panelVars>>
BY DEF DaemonNext, CancelArrives, Touched, Refused, FollowUp, Syncs, SyncFails, ReadSecret,
       ReadSignature, ReadFails, daemonVars

LEMMA UserFrame == UserCopies => UNCHANGED <<listVars, pageVars, panel, clears>>
BY DEF UserCopies

LEMMA FillFrame == ASSUME NEW f PROVE FillNext(f) => UNCHANGED pageVars
BY DEF FillNext, OpenPanel, ActivatePublic, ClosePanel, TakeBack, WaitForTouch, SecretArrives,
       BackToListing

LEMMA TermFrame == ASSUME NEW t PROVE TermNext(t) => UNCHANGED <<pageVars, panelVars>>
BY DEF TermNext, RefreshKeys, EnterDelete, AsksWhether, Declines, SubmitKey, KeyValue,
       ConfirmDelete, Confirms, TermHears

LEMMA ShellFrame == ASSUME NEW s PROVE ShellNext(s) => UNCHANGED <<pageVars, panelVars>>
BY DEF ShellNext, RunList, RunImportOtp, StartImport, RunDelete, RunAdd, RunGenerate, RunOtp,
       ImkGet, NextEntry, ShellHears

LEMMA SignerFrame == ASSUME NEW g PROVE SignerNext(g) => UNCHANGED <<pageVars, panelVars>>
BY DEF SignerNext, Identities, AsksToSign, SignerHears, SignDeadline, HangsUp, Leaves

LEMMA PageFrame == ASSUME NEW p PROVE PageNext(p) => UNCHANGED <<panel, clears>>
BY DEF PageNext, Reload, CodeExpires, SwitchAway, SwitchTo, CopyCode, PressDelete, AsksWhether,
       StartImport, Declines, OpenAdd, PrimaryAction, DeleteAction, Confirms, NextEntry, PageHears,
       PageFails, panelVars

-----------------------------------------------------------------------------
(* The keys page *)

PagesOK ==
  /\ gen \in [Pages -> Nat] /\ timers \in [Pages -> SUBSET Nat]
  /\ code = [p \in Pages |-> code[p]]
  /\ ShownIsTimed

LEMMA PagesKept == PagesOK /\ UNCHANGED <<code, gen, timers>> => PagesOK'
BY DEF PagesOK, ShownIsTimed

\* Without a code there is nothing to hide.
LEMMA ClearKeeps ==
  ASSUME PagesOK, NEW p \in Pages, ClearCodes(p),
         timers' \in [Pages -> SUBSET Nat], \A q \in Pages \ {p} : timers'[q] = timers[q]
  PROVE  PagesOK'
<1>1. gen' \in [Pages -> Nat] /\ code' = [q \in Pages |-> code'[q]]
  BY DEF PagesOK, ClearCodes
<1>2. code'[p] = None /\ \A q \in Pages \ {p} : code'[q] = code[q] /\ gen'[q] = gen[q]
  BY DEF PagesOK, ClearCodes
<1> QED
  BY <1>1, <1>2 DEF PagesOK, ShownIsTimed

\* A new code comes with its timer.
LEMMA ShowKeeps ==
  ASSUME PagesOK, NEW p \in Pages, NEW n, ShowCode(p, n)
  PROVE  PagesOK'
<1>1. gen' \in [Pages -> Nat] /\ timers' \in [Pages -> SUBSET Nat]
  <2>1. gen[p] + 1 \in Nat /\ timers[p] \cup {gen[p] + 1} \in SUBSET Nat
    BY DEF PagesOK
  <2> QED
    BY <2>1 DEF PagesOK, ShowCode
<1>2. code' = [q \in Pages |-> code'[q]]
  BY DEF PagesOK, ShowCode
<1>3. code'[p].gen = gen'[p] /\ gen'[p] \in timers'[p]
  BY DEF PagesOK, ShowCode
<1>4. \A q \in Pages \ {p} :
        code'[q] = code[q] /\ gen'[q] = gen[q] /\ timers'[q] = timers[q]
  BY DEF PagesOK, ShowCode
<1> QED
  BY <1>1, <1>2, <1>3, <1>4 DEF PagesOK, ShownIsTimed

\* An older timer goes without a trace, the code's own takes it along.
LEMMA ExpiryKeeps ==
  ASSUME PagesOK, NEW p \in Pages, CodeExpires(p)
  PROVE  PagesOK'
<1>1. PICK g \in timers[p] :
        /\ timers' = [timers EXCEPT ![p] = @ \ {g}]
        /\ IF g = gen[p] THEN ClearCodes(p) ELSE UNCHANGED <<code, gen>>
  BY DEF CodeExpires
<1>2. timers' \in [Pages -> SUBSET Nat] /\ \A q \in Pages \ {p} : timers'[q] = timers[q]
  BY <1>1 DEF PagesOK
<1>3. CASE g = gen[p]
  BY <1>1, <1>2, <1>3, ClearKeeps
<1>4. CASE g # gen[p]
  <2>1. timers'[p] = timers[p] \ {g}
    BY <1>1 DEF PagesOK
  <2> QED
    BY <1>1, <1>2, <1>4, <2>1 DEF PagesOK, ShownIsTimed
<1> QED
  BY <1>3, <1>4

LEMMA PageKeeps ==
  ASSUME PagesOK, NEW p \in Pages, PageNext(p)
  PROVE  PagesOK'
<1>1. CASE Reload(p)
  <2>1. ClearCodes(p) /\ timers' = timers
    BY <1>1 DEF Reload, Populate
  <2> QED
    BY <2>1, ClearKeeps DEF PagesOK
<1>2. CASE CodeExpires(p)
  BY <1>2, ExpiryKeeps
<1>3. CASE SwitchAway(p)
  <2>1. ClearCodes(p) /\ timers' = timers
    BY <1>3 DEF SwitchAway
  <2> QED
    BY <2>1, ClearKeeps DEF PagesOK
<1>4. CASE SwitchTo(p) \/ CopyCode(p) \/ PressDelete(p) \/ StartImport(p) \/ Declines(p)
  BY <1>4, PagesKept
    DEF SwitchTo, CopyCode, PressDelete, AsksWhether, StartImport, Declines, pageVars
<1>5. ASSUME NEW i \in Ids, PageHears(p, i)
      PROVE  PagesOK'
  <2>1. ShowCode(p, handler[i].hit) \/ UNCHANGED <<code, gen, timers>>
    BY <1>5 DEF PageHears
  <2> QED
    BY <2>1, ShowKeeps, PagesKept
<1>6. ASSUME NEW i \in Ids,
             \/ OpenAdd(p, i) \/ PrimaryAction(p, i) \/ DeleteAction(p, i)
             \/ NextEntry(p, i) \/ PageFails(p, i)
      PROVE  PagesOK'
  BY <1>6, PagesKept
    DEF OpenAdd, PrimaryAction, DeleteAction, Confirms, NextEntry, PageFails, pageVars
<1> QED
  BY <1>1, <1>2, <1>3, <1>4, <1>5, <1>6 DEF PageNext

\* A code that is shown has the timer of its generation running: it is hidden after
\* its 30 s whatever other codes, reloads and page switches came before.  (show_code)
THEOREM CodesAreHidden == Spec => []ShownIsTimed
<1>1. Init => PagesOK
  BY DEF Init, PagesOK, ShownIsTimed
<1>2. PagesOK /\ [Next]_vars => PagesOK'
  <2> SUFFICES ASSUME PagesOK, [Next]_vars PROVE PagesOK'
    OBVIOUS
  <2>1. CASE DaemonNext
    BY <2>1, DaemonFrame, PagesKept DEF pageVars
  <2>2. CASE UserCopies
    BY <2>2, UserFrame, PagesKept DEF pageVars
  <2>3. ASSUME NEW p \in Pages, PageNext(p) PROVE PagesOK'
    BY <2>3, PageKeeps
  <2>4. ASSUME NEW f \in Fills, FillNext(f) PROVE PagesOK'
    BY <2>4, FillFrame, PagesKept DEF pageVars
  <2>5. ASSUME NEW t \in Terms, TermNext(t) PROVE PagesOK'
    BY <2>5, TermFrame, PagesKept DEF pageVars
  <2>6. ASSUME NEW s \in Shells, ShellNext(s) PROVE PagesOK'
    BY <2>6, ShellFrame, PagesKept DEF pageVars
  <2>7. ASSUME NEW g \in Signers, SignerNext(g) PROVE PagesOK'
    BY <2>7, SignerFrame, PagesKept DEF pageVars
  <2>8. CASE UNCHANGED vars
    BY <2>8, PagesKept DEF vars, pageVars
  <2> QED
    BY <2>1, <2>2, <2>3, <2>4, <2>5, <2>6, <2>7, <2>8 DEF Next
<1>3. PagesOK => ShownIsTimed
  BY DEF PagesOK
<1> QED
  BY <1>1, <1>2, <1>3, PTL DEF Spec

-----------------------------------------------------------------------------
(* The quick-fill panel *)

LEMMA ClipKept == CopyIsTakenBack /\ UNCHANGED <<clip, clears>> => CopyIsTakenBack'
BY DEF CopyIsTakenBack

\* A copy by anyone else, or none, owes nothing.
LEMMA NotTheirs ==
  ASSUME clip'.by \notin Fills
  PROVE  CopyIsTakenBack'
BY DEF CopyIsTakenBack

LEMMA DeliverKeeps ==
  ASSUME NEW f \in Fills, NEW n, NEW i, Deliver(f, n, i)
  PROVE  CopyIsTakenBack'
<1> DEFINE x == [by |-> f, name |-> n, id |-> i]
<1>1. clip' = [by |-> f, name |-> n] /\ x \in clears'
  BY DEF Deliver, CopyAndClear, HoldsUpFor
<1>2. clip'.by = f /\ clip'.name = n /\ x.by = f /\ x.name = n
  BY <1>1
<1> QED
  BY <1>1, <1>2 DEF CopyIsTakenBack

LEMMA TakeBackKeeps ==
  ASSUME CopyIsTakenBack, NEW f \in Fills, TakeBack(f)
  PROVE  CopyIsTakenBack'
<1>1. PICK x \in clears :
        clears' = clears \ {x} /\ clip' = IF clip.name = x.name THEN Empty ELSE clip
  BY DEF TakeBack
<1>2. CASE clip.name = x.name
  <2>1. clip'.by = None
    BY <1>1, <1>2 DEF Empty
  <2> QED
    BY <2>1, NotTheirs, ConstantsAssumption DEF Clients
<1>3. CASE clip.name # x.name
  BY <1>1, <1>3 DEF CopyIsTakenBack
<1> QED
  BY <1>2, <1>3

\* What quick-fill left on the clipboard has its clear on the way, for any number of
\* panels and copies; a later copy by someone else is left alone.  (copy_and_schedule_clear)
THEOREM CopiesAreTakenBack == Spec => []CopyIsTakenBack
<1>1. Init => CopyIsTakenBack
  BY ConstantsAssumption DEF Init, CopyIsTakenBack, Empty, Clients
<1>2. CopyIsTakenBack /\ [Next]_vars => CopyIsTakenBack'
  <2> SUFFICES ASSUME CopyIsTakenBack, [Next]_vars PROVE CopyIsTakenBack'
    OBVIOUS
  <2>1. CASE DaemonNext
    BY <2>1, DaemonFrame, ClipKept DEF panelVars
  <2>2. CASE UserCopies
    <3>1. clip'.by = None
      BY <2>2 DEF UserCopies, Empty
    <3> QED
      BY <3>1, NotTheirs, ConstantsAssumption DEF Clients
  <2>3. ASSUME NEW p \in Pages, PageNext(p) PROVE CopyIsTakenBack'
    <3>1. CASE CopyCode(p)
      <4>1. clip'.by = p
        BY <3>1 DEF CopyCode
      <4> QED
        BY <4>1, NotTheirs, ConstantsAssumption
    <3>2. CASE ~CopyCode(p)
      BY <2>3, <3>2, ClipKept
        DEF PageNext, Reload, CodeExpires, SwitchAway, SwitchTo, PressDelete, AsksWhether,
            StartImport, Declines, OpenAdd, PrimaryAction, DeleteAction, Confirms, NextEntry,
            PageHears, PageFails, panelVars
    <3> QED
      BY <3>1, <3>2
  <2>4. ASSUME NEW f \in Fills, FillNext(f) PROVE CopyIsTakenBack'
    <3>1. CASE OpenPanel(f) \/ ClosePanel(f)
      BY <3>1, ClipKept DEF OpenPanel, ClosePanel
    <3>2. CASE ActivatePublic(f)
      BY <3>2, DeliverKeeps DEF ActivatePublic
    <3>3. CASE TakeBack(f)
      BY <3>3, TakeBackKeeps
    <3>4. ASSUME NEW i \in Ids, WaitForTouch(f, i) \/ BackToListing(f, i)
          PROVE  CopyIsTakenBack'
      BY <3>4, ClipKept DEF WaitForTouch, BackToListing
    <3>5. ASSUME NEW i \in Ids, SecretArrives(f, i)
          PROVE  CopyIsTakenBack'
      BY <3>5, DeliverKeeps DEF SecretArrives
    <3> QED
      BY <2>4, <3>1, <3>2, <3>3, <3>4, <3>5 DEF FillNext
  <2>5. ASSUME NEW t \in Terms, TermNext(t) PROVE CopyIsTakenBack'
    BY <2>5, TermFrame, ClipKept DEF panelVars
  <2>6. ASSUME NEW s \in Shells, ShellNext(s) PROVE CopyIsTakenBack'
    BY <2>6, ShellFrame, ClipKept DEF panelVars
  <2>7. ASSUME NEW g \in Signers, SignerNext(g) PROVE CopyIsTakenBack'
    BY <2>7, SignerFrame, ClipKept DEF panelVars
  <2>8. CASE UNCHANGED vars
    BY <2>8, ClipKept DEF vars, panelVars
  <2> QED
    BY <2>1, <2>2, <2>3, <2>4, <2>5, <2>6, <2>7, <2>8 DEF Next
<1> QED
  BY <1>1, <1>2, PTL DEF Spec

\* A panel has one request at a time, and only while it shows that it waits.
FillsOK ==
  /\ panel \in [Fills -> {"closed", "listing", "waiting"}]
  /\ asked = [c \in Clients |-> asked[c]]
  /\ \A f \in Fills : /\ panel[f] # "waiting" => asked[f] = {}
                      /\ \A i, j \in asked[f] : i = j

LEMMA FillsKept ==
  ASSUME FillsOK, UNCHANGED panel, asked' = [c \in Clients |-> asked'[c]],
         \A f \in Fills : asked'[f] = asked[f]
  PROVE  FillsOK'
BY DEF FillsOK

\* Whoever else asks and hears does not touch a panel's requests.
LEMMA AskedFrame ==
  ASSUME FillsOK, NEW c \in Clients \ Fills,
         PageNext(c) \/ TermNext(c) \/ ShellNext(c) \/ SignerNext(c)
  PROVE  asked' = [d \in Clients |-> asked'[d]] /\ \A f \in Fills : asked'[f] = asked[f]
<1>0. asked = [d \in Clients |-> asked[d]] /\ Fills \subseteq Clients
  BY DEF FillsOK, Clients
<1>1. SUFFICES UNCHANGED asked \/ \E i \in Ids : Waits(c, i) \/ Hears(c, i)
  BY <1>0 DEF Waits, Hears
<1>2. CASE PageNext(c)
  BY <1>2 DEF PageNext, Reload, CodeExpires, SwitchAway, SwitchTo, CopyCode, PressDelete,
    AsksWhether, StartImport, Declines, OpenAdd, PrimaryAction, DeleteAction, Confirms, NextEntry,
    PageHears, PageFails, listVars
<1>3. CASE TermNext(c)
  BY <1>3 DEF TermNext, RefreshKeys, EnterDelete, AsksWhether, Declines, SubmitKey, KeyValue,
    ConfirmDelete, Confirms, TermHears
<1>4. CASE ShellNext(c)
  BY <1>4 DEF ShellNext, RunList, RunImportOtp, StartImport, RunDelete, RunAdd, RunGenerate,
    RunOtp, ImkGet, NextEntry, ShellHears
<1>5. CASE SignerNext(c)
  BY <1>5 DEF SignerNext, Identities, AsksToSign, SignerHears, SignDeadline, HangsUp, Leaves
<1> QED
  BY <1>2, <1>3, <1>4, <1>5

\* A step of panel f: it, and what it asked for, go together.
LEMMA FillKeeps ==
  ASSUME FillsOK, NEW f \in Fills, FillNext(f)
  PROVE  FillsOK'
<1>0. /\ asked = [c \in Clients |-> asked[c]] /\ f \in Clients
      /\ panel \in [Fills -> {"closed", "listing", "waiting"}]
  BY DEF FillsOK, Clients
<1>1. CASE OpenPanel(f)
  <2>1. panel' = [panel EXCEPT ![f] = "listing"] /\ asked' = asked /\ panel[f] = "closed"
    BY <1>1 DEF OpenPanel
  <2> QED
    BY <1>0, <2>1 DEF FillsOK
<1>2. CASE ActivatePublic(f)
  <2>1. panel' = [panel EXCEPT ![f] = "closed"] /\ asked' = asked /\ panel[f] = "listing"
    BY <1>2 DEF ActivatePublic, Deliver, Shuts, listVars
  <2> QED
    BY <1>0, <2>1 DEF FillsOK
<1>3. CASE ClosePanel(f)
  <2>1. panel' = [panel EXCEPT ![f] = "closed"] /\ asked' = [asked EXCEPT ![f] = {}]
    BY <1>3 DEF ClosePanel, Shuts, Drops
  <2>2. panel' \in [Fills -> {"closed", "listing", "waiting"}] /\ panel'[f] = "closed"
    BY <1>0, <2>1
  <2>3. asked' = [c \in Clients |-> asked'[c]] /\ asked'[f] = {}
    BY <1>0, <2>1
  <2>4. \A g \in Fills \ {f} : panel'[g] = panel[g] /\ asked'[g] = asked[g]
    BY <1>0, <2>1 DEF Clients
  <2> QED
    BY <2>2, <2>3, <2>4 DEF FillsOK
<1>4. CASE TakeBack(f)
  BY <1>4 DEF TakeBack, listVars, FillsOK
<1>5. ASSUME NEW i \in Ids, WaitForTouch(f, i)
      PROVE  FillsOK'
  <2>1. /\ panel' = [panel EXCEPT ![f] = "waiting"] /\ panel[f] = "listing"
        /\ asked' = [asked EXCEPT ![f] = @ \cup {i}]
    BY <1>5 DEF WaitForTouch, Waits
  <2>2. asked'[f] = {i}
    BY <1>0, <2>1 DEF FillsOK
  <2> QED
    BY <1>0, <2>1, <2>2 DEF FillsOK
<1>6. ASSUME NEW i \in Ids, SecretArrives(f, i) \/ BackToListing(f, i)
      PROVE  FillsOK'
  <2>1. /\ i \in asked[f] /\ asked' = [asked EXCEPT ![f] = @ \ {i}]
        /\ \E s \in {"closed", "listing"} : panel' = [panel EXCEPT ![f] = s]
    BY <1>6 DEF SecretArrives, BackToListing, Deliver, Shuts, Good, Bad, Hears
  <2>2. asked'[f] = {}
    BY <1>0, <2>1 DEF FillsOK
  <2> QED
    BY <1>0, <2>1, <2>2 DEF FillsOK
<1> QED
  BY <1>1, <1>2, <1>3, <1>4, <1>5, <1>6 DEF FillNext

LEMMA FillsInvariant == Spec => []FillsOK
<1>1. Init => FillsOK
  BY DEF Init, FillsOK, Clients
<1>2. FillsOK /\ [Next]_vars => FillsOK'
  <2> SUFFICES ASSUME FillsOK, [Next]_vars PROVE FillsOK'
    OBVIOUS
  <2>0. asked = [c \in Clients |-> asked[c]]
    BY DEF FillsOK
  <2>1. CASE DaemonNext
    BY <2>0, <2>1, DaemonFrame, FillsKept DEF listVars, panelVars
  <2>2. CASE UserCopies
    BY <2>0, <2>2, UserFrame, FillsKept DEF listVars
  <2>3. ASSUME NEW p \in Pages, PageNext(p) PROVE FillsOK'
    <3>1. p \in Clients \ Fills
      BY ConstantsAssumption DEF Clients
    <3> QED
      BY <2>3, <3>1, PageFrame, AskedFrame, FillsKept
  <2>4. ASSUME NEW f \in Fills, FillNext(f) PROVE FillsOK'
    BY <2>4, FillKeeps
  <2>5. ASSUME NEW t \in Terms, TermNext(t) PROVE FillsOK'
    <3>1. t \in Clients \ Fills
      BY ConstantsAssumption DEF Clients
    <3> QED
      BY <2>5, <3>1, TermFrame, AskedFrame, FillsKept DEF panelVars
  <2>6. ASSUME NEW s \in Shells, ShellNext(s) PROVE FillsOK'
    <3>1. s \in Clients \ Fills
      BY ConstantsAssumption DEF Clients
    <3> QED
      BY <2>6, <3>1, ShellFrame, AskedFrame, FillsKept DEF panelVars
  <2>7. ASSUME NEW g \in Signers, SignerNext(g) PROVE FillsOK'
    <3>1. g \in Clients \ Fills
      BY ConstantsAssumption DEF Clients
    <3> QED
      BY <2>7, <3>1, SignerFrame, AskedFrame, FillsKept DEF panelVars
  <2>8. CASE UNCHANGED vars
    BY <2>0, <2>8, FillsKept DEF vars, listVars, panelVars
  <2> QED
    BY <2>1, <2>2, <2>3, <2>4, <2>5, <2>6, <2>7, <2>8 DEF Next
<1> QED
  BY <1>1, <1>2, PTL DEF Spec

\* What comes from panel f was delivered by its own step, while it was open.
LEMMA FillDelivers ==
  ASSUME FillsOK, NEW g \in Fills, FillNext(g), NEW f \in Fills, clip' # clip, clip'.by = f
  PROVE  panel[f] # "closed"
<1>1. CASE ActivatePublic(g)
  <2>1. clip'.by = g /\ panel[g] = "listing"
    BY <1>1 DEF ActivatePublic, Deliver, CopyAndClear
  <2> QED
    BY <2>1
<1>2. ASSUME NEW i \in Ids, SecretArrives(g, i)
      PROVE  panel[f] # "closed"
  <2>1. clip'.by = g /\ i \in asked[g]
    BY <1>2 DEF SecretArrives, Deliver, CopyAndClear, Good
  <2> QED
    BY <2>1 DEF FillsOK
<1>3. CASE TakeBack(g)
  <2>1. clip' = clip \/ clip'.by = None
    BY <1>3 DEF TakeBack, Empty
  <2> QED
    BY <2>1, ConstantsAssumption DEF Clients
<1>4. CASE OpenPanel(g) \/ ClosePanel(g) \/ \E i \in Ids : WaitForTouch(g, i) \/ BackToListing(g, i)
  BY <1>4 DEF OpenPanel, ClosePanel, WaitForTouch, BackToListing
<1> QED
  BY <1>1, <1>2, <1>3, <1>4 DEF FillNext

\* Nobody else copies in a panel's name.
LEMMA OthersDeliverNothing ==
  ASSUME DaemonNext \/ UserCopies \/ (\E p \in Pages : PageNext(p)) \/ (\E t \in Terms : TermNext(t))
         \/ (\E s \in Shells : ShellNext(s)) \/ (\E h \in Signers : SignerNext(h)) \/ UNCHANGED vars,
         NEW f \in Fills, clip' # clip, clip'.by = f
  PROVE  FALSE
<1>1. CASE DaemonNext
  BY <1>1, DaemonFrame DEF panelVars
<1>2. CASE UserCopies
  <2>1. clip'.by = None
    BY <1>2 DEF UserCopies, Empty
  <2> QED
    BY <2>1, ConstantsAssumption DEF Clients
<1>3. ASSUME NEW p \in Pages, PageNext(p) PROVE FALSE
  <2>1. CopyCode(p)
    BY <1>3
      DEF PageNext, Reload, CodeExpires, SwitchAway, SwitchTo, PressDelete, AsksWhether,
          StartImport, Declines, OpenAdd, PrimaryAction, DeleteAction, Confirms, NextEntry,
          PageHears, PageFails, panelVars
  <2>2. clip'.by = p
    BY <2>1 DEF CopyCode
  <2> QED
    BY <2>2, ConstantsAssumption
<1>4. ASSUME NEW t \in Terms, TermNext(t) PROVE FALSE
  BY <1>4, TermFrame DEF panelVars
<1>5. ASSUME NEW s \in Shells, ShellNext(s) PROVE FALSE
  BY <1>5, ShellFrame DEF panelVars
<1>6. ASSUME NEW h \in Signers, SignerNext(h) PROVE FALSE
  BY <1>6, SignerFrame DEF panelVars
<1>7. CASE UNCHANGED vars
  BY <1>7 DEF vars, panelVars
<1> QED
  BY <1>1, <1>2, <1>3, <1>4, <1>5, <1>6, <1>7

\* A panel that was closed while it waited delivers nothing when the touch comes all
\* the same: with its panel goes the answer's way to the clipboard.  (wait_for_touch)
THEOREM ClosedPanelsAreSilent == Spec => ClosedStaysSilent
<1> DEFINE Silent == \A f \in Fills : clip' # clip /\ clip'.by = f => panel[f] # "closed"
<1>1. FillsOK /\ [Next]_vars => Silent
  BY FillDelivers, OthersDeliverNothing DEF Next
<1>2. FillsOK /\ [Next]_vars => [Silent]_vars
  BY <1>1
<1> QED
  BY <1>2, FillsInvariant, PTL DEF Spec, ClosedStaysSilent

-----------------------------------------------------------------------------
(* Types *)

LEMMA NamesAre ==
  /\ \A k \in Cats : New[k] \subseteq Names
  /\ File \in Seq(Names) /\ Range(File) \subseteq Names
<1>1. ASSUME NEW k \in Cats, NEW n \in New[k] PROVE n \in Names
  <2>1. Range(Kept[k]) \cup New[k] \in {Range(Kept[c]) \cup New[c] : c \in Cats} OBVIOUS
  <2>2. n \in UNION {Range(Kept[c]) \cup New[c] : c \in Cats} BY <2>1, Zenon
  <2> QED BY <2>2 DEF Names
<1>2. Range(File) \subseteq Names BY Zenon DEF Names
<1> QED BY <1>1, <1>2, ConstantsAssumption

LEMMA InRange ==
  ASSUME NEW S, NEW s \in Seq(S)
  PROVE  /\ DOMAIN s = 1..Len(s) /\ Len(s) \in Nat
         /\ \A x \in DOMAIN s : s[x] \in S /\ s[x] \in Range(s)
         /\ Range(s) \subseteq S
         /\ \A y \in Range(s) : \E x \in DOMAIN s : s[x] = y
<1>1. DOMAIN s = 1..Len(s) /\ Len(s) \in Nat BY LenProperties
<1>2. \A x \in 1..Len(s) : s[x] \in S BY ElementOfSeq
<1> QED BY <1>1, <1>2 DEF Range

LEMMA Appended ==
  ASSUME NEW S, NEW s \in Seq(S), NEW e \in S
  PROVE  /\ Append(s, e) \in Seq(S) /\ Len(Append(s, e)) = Len(s) + 1 /\ Len(s) \in Nat
         /\ DOMAIN Append(s, e) = 1..Len(s) + 1 /\ DOMAIN s = 1..Len(s)
         /\ \A x \in DOMAIN s : Append(s, e)[x] = s[x]
         /\ Append(s, e)[Len(s) + 1] = e
OBVIOUS

LEMMA Served ==
  ASSUME NEW S, NEW s \in Seq(S), s # <<>>
  PROVE  /\ Tail(s) \in Seq(S) /\ Len(Tail(s)) = Len(s) - 1 /\ Len(s) \in Nat \ {0}
         /\ DOMAIN s = 1..Len(s) /\ DOMAIN Tail(s) = 1..Len(s) - 1
         /\ Head(s) = s[1] /\ Head(s) \in S /\ 1 \in DOMAIN s
         /\ \A x \in DOMAIN Tail(s) : x + 1 \in DOMAIN s /\ Tail(s)[x] = s[x + 1]
<1>1. Len(s) \in Nat /\ Len(s) # 0 /\ DOMAIN s = 1..Len(s) BY EmptySeq, LenProperties
<1>2. Tail(s) \in Seq(S) /\ Len(Tail(s)) = Len(s) - 1 /\ Head(s) \in S BY HeadTailProperties
<1>3. \A x \in 1..Len(s) - 1 : Tail(s)[x] = s[x + 1] BY HeadTailProperties
<1>4. DOMAIN Tail(s) = 1..Len(s) - 1 BY <1>2, LenProperties
<1>5. Head(s) = s[1] BY HeadTailProperties
<1> QED BY <1>1, <1>2, <1>3, <1>4, <1>5

LEMMA Removed ==
  ASSUME NEW S, NEW s \in Seq(S), NEW x \in 1..Len(s)
  PROVE  RemoveAt(s, x) \in Seq(S) /\ Len(RemoveAt(s, x)) = Len(s) - 1
<1>1. Len(s) \in Nat BY LenProperties
<1>2. SubSeq(s, 1, x - 1) \in Seq(S) /\ Len(SubSeq(s, 1, x - 1)) = x - 1
  BY <1>1, SubSeqProperties
<1>3. SubSeq(s, x + 1, Len(s)) \in Seq(S) /\ Len(SubSeq(s, x + 1, Len(s))) = Len(s) - x
  BY <1>1, SubSeqProperties
<1>4. /\ RemoveAt(s, x) \in Seq(S)
      /\ Len(RemoveAt(s, x)) = Len(SubSeq(s, 1, x - 1)) + Len(SubSeq(s, x + 1, Len(s)))
  BY <1>2, <1>3, ConcatProperties DEF RemoveAt
<1>5. Len(RemoveAt(s, x)) = (x - 1) + (Len(s) - x) BY <1>2, <1>3, <1>4
<1>6. \A n \in Nat : \A y \in 1..n : (y - 1) + (n - y) = n - 1 OBVIOUS
<1>7. (x - 1) + (Len(s) - x) = Len(s) - 1 BY <1>1, <1>6
<1> QED BY <1>4, <1>5, <1>7, Zenon

\* A queue without repetitions holds what it held, and one more or one less.
LEMMA QueueGrows ==
  ASSUME NEW S, NEW s \in Seq(S), IsInjective(s), NEW e \in S, e \notin Range(s)
  PROVE  IsInjective(Append(s, e)) /\ Range(Append(s, e)) = Range(s) \cup {e}
<1>1. /\ DOMAIN Append(s, e) = 1..Len(s) + 1 /\ DOMAIN s = 1..Len(s) /\ Len(s) \in Nat
      /\ \A x \in DOMAIN s : Append(s, e)[x] = s[x] /\ s[x] # e
      /\ Append(s, e)[Len(s) + 1] = e
  BY Appended DEF Range
<1>2. \A x \in DOMAIN Append(s, e) : x \in DOMAIN s \/ x = Len(s) + 1 BY <1>1
<1>3. IsInjective(Append(s, e)) BY <1>1, <1>2 DEF IsInjective
<1>4. Range(Append(s, e)) = Range(s) \cup {e}
  <2>1. ASSUME NEW y \in Range(Append(s, e)) PROVE y \in Range(s) \cup {e}
    BY <1>1, <1>2 DEF Range
  <2>2. ASSUME NEW y \in Range(s) PROVE y \in Range(Append(s, e))
    <3>1. PICK x \in DOMAIN s : s[x] = y BY DEF Range
    <3>2. x \in DOMAIN Append(s, e) /\ Append(s, e)[x] = y BY <1>1, <3>1
    <3> QED BY <3>2 DEF Range
  <2>3. e \in Range(Append(s, e))
    <3>1. Len(s) + 1 \in DOMAIN Append(s, e) BY <1>1
    <3> QED BY <1>1, <3>1 DEF Range
  <2> QED BY <2>1, <2>2, <2>3
<1> QED BY <1>3, <1>4

LEMMA QueueShrinks ==
  ASSUME NEW S, NEW s \in Seq(S), IsInjective(s), s # <<>>
  PROVE  IsInjective(Tail(s)) /\ Range(Tail(s)) = Range(s) \ {Head(s)} /\ Head(s) \in Range(s)
<1>1. /\ DOMAIN s = 1..Len(s) /\ DOMAIN Tail(s) = 1..Len(s) - 1 /\ Head(s) = s[1] /\ Len(s) \in Nat \ {0}
      /\ \A x \in DOMAIN Tail(s) : x + 1 \in DOMAIN s /\ Tail(s)[x] = s[x + 1]
  BY Served
<1>2. IsInjective(Tail(s))
  <2> SUFFICES ASSUME NEW a \in DOMAIN Tail(s), NEW b \in DOMAIN Tail(s), Tail(s)[a] = Tail(s)[b]
               PROVE  a = b
    BY DEF IsInjective
  <2>1. a + 1 = b + 1 BY <1>1 DEF IsInjective
  <2> QED BY <1>1, <2>1
<1>3. ASSUME NEW y \in Range(Tail(s)) PROVE y \in Range(s) \ {Head(s)}
  <2>1. PICK x \in DOMAIN Tail(s) : Tail(s)[x] = y BY DEF Range
  <2>2. x + 1 \in DOMAIN s /\ s[x + 1] = y /\ 1 \in DOMAIN s /\ x + 1 # 1 BY <1>1, <2>1
  <2>3. s[x + 1] # s[1] BY <2>2 DEF IsInjective
  <2> QED BY <1>1, <2>2, <2>3 DEF Range
<1>4. ASSUME NEW y \in Range(s), y # Head(s) PROVE y \in Range(Tail(s))
  <2>1. PICK x \in DOMAIN s : s[x] = y BY DEF Range
  <2>2. x # 1 BY <1>1, <1>4, <2>1
  <2>3. x - 1 \in DOMAIN Tail(s) /\ (x - 1) + 1 = x BY <1>1, <2>1, <2>2
  <2>4. Tail(s)[x - 1] = y BY <1>1, <2>1, <2>3
  <2> QED BY <2>3, <2>4 DEF Range
<1>5. Head(s) \in Range(s) BY <1>1 DEF Range
<1> QED BY <1>2, <1>3, <1>4, <1>5

-----------------------------------------------------------------------------
(* TypeOK in parts, with what a handler always is *)

DeviceOK ==
  /\ crew \in Crews
  /\ keys \in [Cats -> Seq(Names)] /\ \A k \in Cats : Len(keys[k]) <= MaxKeys
  /\ result \in Signature \cup {None}
  /\ cache \in [Cats -> Seq(Names)] /\ \A k \in Cats : Len(cache[k]) <= MaxKeys

Open == {"queued", "awake", "left"}

\* An agent's connection asks for signatures and nobody else does; only it leaves, at
\* its gate; and what is past its gate has met a key.
Fit(h) ==
  IF h.at = "unused" THEN h = Unused
  ELSE /\ h.by \in Clients /\ h.op \in Ops /\ h.cat \in Cats /\ h.name \in Names
       /\ h.op = "sign" <=> h.by \in Signers
       /\ h.at \in Open => h.more # 0
       /\ h.at = "left" => h.op = "sign" /\ h.more = 3
       /\ h.hit # None \/ (h.more = Commands(h.op) /\ h.at \in {"queued", "left", "failed"})

HandlersOK == handler \in [Ids -> Handlers] /\ \A i \in Ids : Fit(handler[i])

QueueOK ==
  /\ queue \in Seq(Ids) /\ IsInjective(queue)
  /\ \A i \in Ids : i \in Range(queue) <=> handler[i].at \in {"queued", "left"}

SlotOK ==
  /\ slot \in Ids \cup {0} /\ cancel \in BOOLEAN
  /\ slot # 0 => handler[slot].at \in Open /\ handler[slot].op = "get"

AskedOK ==
  /\ asked \in [Clients -> SUBSET Ids]
  /\ \A c \in Clients : \A i \in asked[c] : handler[i].by = c

ListsOK ==
  /\ rows \in [Clients -> [Cats -> Seq(Names)]] /\ todo \in [Clients -> Seq(Names)]
  /\ chosen \in [Clients -> Row \cup {None}]
  /\ \A c \in Clients : /\ chosen[c] # None => chosen[c].cat \in Deletable[c]
                        /\ todo[c] # <<>> => c \in Pages \cup Shells

ScreensOK ==
  /\ gen \in [Pages -> 0..MaxGens] /\ timers \in [Pages -> SUBSET (0..MaxGens)]
  /\ code \in [Pages -> [name : Names, gen : 0..MaxGens] \cup {None}]
  /\ stale \in [Pages -> BOOLEAN] /\ front \in [Pages -> BOOLEAN]
  /\ panel \in [Fills -> {"closed", "listing", "waiting"}]
  /\ clip \in [by : Clients \cup {None}, name : Names \cup {None}]
  /\ clears \subseteq [by : Fills, name : Names, id : Ids \cup {0}]

DaemonOK == HandlersOK /\ QueueOK /\ SlotOK /\ AskedOK
Types    == DeviceOK /\ DaemonOK /\ ListsOK /\ ScreensOK

LEMMA IdsAre == Ids \subseteq Nat \ {0}
BY DEF Ids

\* A handler whose command was run stands one command further on.
LEMMA AfterFits ==
  ASSUME NEW h \in Handlers, Fit(h), h.at \in {"queued", "left"}, h.hit # None
  PROVE  /\ After(h) \in Handlers /\ Fit(After(h))
         /\ After(h).at \in {"awake", "ok"} /\ (After(h).at = "awake" <=> h.at = "queued" /\ h.more # 1)
         /\ After(h).by = h.by /\ After(h).op = h.op /\ After(h).cat = h.cat /\ After(h).name = h.name
         /\ After(h).idx = h.idx /\ After(h).hit = h.hit /\ After(h).sig = h.sig /\ After(h).more = h.more - 1
<1> DEFINE g == After(h)
<1>1. /\ g.at \in {"awake", "ok"} /\ (g.at = "awake" <=> h.at = "queued" /\ h.more # 1)
      /\ g.by = h.by /\ g.op = h.op /\ g.cat = h.cat /\ g.name = h.name /\ g.hit = h.hit
      /\ g.idx = h.idx /\ g.sig = h.sig /\ g.more = h.more - 1
  BY DEF After, Handlers
<1>2. h.more \in 1..3 BY DEF Fit, Handlers, Open
<1>3. g.more \in 0..3 /\ (h.more # 1 => g.more # 0) BY <1>1, <1>2
<1>4. g \in Handlers BY <1>3 DEF After, Handlers
<1>5. Fit(g) BY <1>1, <1>3 DEF Fit, Open
<1> QED BY <1>1, <1>4, <1>5

LEMMA HitFits ==
  ASSUME NEW h \in Handlers, Fit(h), h.at # "unused", NEW n \in Names
  PROVE  [h EXCEPT !.hit = n] \in Handlers /\ Fit([h EXCEPT !.hit = n])
BY ConstantsAssumption DEF Fit, Handlers, Open, Unused

LEMMA FailedFits ==
  ASSUME NEW h \in Handlers, Fit(h), h.at # "unused"
  PROVE  [h EXCEPT !.at = "failed"] \in Handlers /\ Fit([h EXCEPT !.at = "failed"])
<1> DEFINE g == [h EXCEPT !.at = "failed"]
<1>1. g \in Handlers /\ g.at = "failed" /\ g.by = h.by /\ g.op = h.op /\ g.cat = h.cat /\ g.name = h.name
      /\ g.more = h.more /\ g.hit = h.hit
  BY DEF Handlers
<1> QED BY <1>1 DEF Fit, Open

\* The worker has run the head command, and its handler goes on or is done.
LEMMA RunKeeps ==
  ASSUME DaemonOK, NEW i \in Ids, Runs(i), NEW h \in Handlers, Fit(h), Steps(i, h),
         h.at \in {"awake", "ok", "failed"}, h.by = handler[i].by, h.op = handler[i].op,
         Frees(i) \/ (UNCHANGED slot /\ (slot = i => h.at = "awake")),
         cancel' \in BOOLEAN, UNCHANGED asked
  PROVE  DaemonOK'
<1> USE DEF DaemonOK
<1>1. handler'[i] = h /\ \A j \in Ids \ {i} : handler'[j] = handler[j]
  BY DEF Steps, HandlersOK
<1>2. HandlersOK' BY <1>1 DEF Steps, HandlersOK
<1>3. queue' \in Seq(Ids) /\ IsInjective(queue') /\ Range(queue') = Range(queue) \ {i}
  BY Served, QueueShrinks DEF Runs, QueueOK
<1>4. QueueOK' BY <1>1, <1>3 DEF QueueOK
<1>5. SlotOK' BY <1>1, IdsAre DEF SlotOK, Frees, Open
<1>6. AskedOK' BY <1>1 DEF AskedOK
<1> QED BY <1>2, <1>4, <1>5, <1>6

LEMMA AtHead ==
  ASSUME DaemonOK, NEW i, Runs(i)
  PROVE  /\ i \in Ids /\ handler[i] \in Handlers /\ Fit(handler[i]) /\ handler[i].at \in {"queued", "left"}
         /\ handler[i].at # "unused" /\ handler[i].cat \in Cats /\ handler[i].name \in Names
         /\ handler[i].op \in Ops
<1>1. i \in Ids /\ i \in Range(queue)
  BY Served, QueueShrinks DEF Runs, DaemonOK, QueueOK
<1> QED BY <1>1 DEF DaemonOK, QueueOK, HandlersOK, Fit

LEMMA FailKeeps ==
  ASSUME DaemonOK, NEW i \in Ids, Fails(i), cancel' \in BOOLEAN, UNCHANGED asked
  PROVE  DaemonOK'
<1>1. Runs(i) /\ Frees(i) /\ Steps(i, [handler[i] EXCEPT !.at = "failed"]) BY DEF Fails
<1>2. handler[i] \in Handlers /\ Fit(handler[i]) /\ handler[i].at # "unused" BY <1>1, AtHead
<1> DEFINE h == [handler[i] EXCEPT !.at = "failed"]
<1>3. h \in Handlers /\ Fit(h) BY <1>2, FailedFits
<1>4. h.at = "failed" /\ h.by = handler[i].by /\ h.op = handler[i].op BY <1>2 DEF Handlers
<1> QED BY <1>1, <1>3, <1>4, RunKeeps

LEMMA AdvanceKeeps ==
  ASSUME DaemonOK, NEW i \in Ids, Runs(i), NEW h \in Handlers, Fit(h), h.hit # None,
         h.at = handler[i].at, h.by = handler[i].by, h.op = handler[i].op, h.more = handler[i].more,
         Steps(i, After(h)), Frees(i) \/ (UNCHANGED slot /\ (h.more # 1 \/ h.op # "get")),
         cancel' \in BOOLEAN, UNCHANGED asked
  PROVE  DaemonOK'
<1>1. h.at \in {"queued", "left"} BY AtHead
<1>2. /\ After(h) \in Handlers /\ Fit(After(h)) /\ After(h).at \in {"awake", "ok"}
      /\ (After(h).at = "awake" <=> h.at = "queued" /\ h.more # 1)
      /\ After(h).by = h.by /\ After(h).op = h.op
  BY <1>1, AfterFits
<1>3. UNCHANGED slot /\ (h.more # 1 \/ h.op # "get") => (slot = i => After(h).at = "awake")
  <2> HAVE UNCHANGED slot /\ (h.more # 1 \/ h.op # "get")
  <2> HAVE slot = i
  <2>1. handler[i].op = "get" BY IdsAre DEF DaemonOK, SlotOK
  <2>2. h.at # "left" BY <2>1 DEF Fit
  <2> QED BY <1>1, <1>2, <2>1, <2>2
<1>4. After(h).at \in {"awake", "ok", "failed"} BY <1>2
<1> QED BY <1>2, <1>3, <1>4, RunKeeps

LEMMA IsAKey ==
  ASSUME DeviceOK, NEW k \in Cats, NEW idx \in Nat, Is(k, idx) # None
  PROVE  Is(k, idx) \in Names /\ idx + 1 \in 1..Len(keys[k])
<1>1. keys[k] \in Seq(Names) /\ Len(keys[k]) \in Nat BY InRange DEF DeviceOK
<1>2. idx < Len(keys[k]) /\ Is(k, idx) = keys[k][idx + 1] BY DEF Is
<1>3. idx + 1 \in 1..Len(keys[k]) BY <1>1, <1>2
<1> QED BY <1>1, <1>2, <1>3, ElementOfSeq

LEMMA TouchedKeeps ==
  ASSUME DeviceOK, DaemonOK, NEW i \in Ids, Touched(i)
  PROVE  DeviceOK' /\ DaemonOK'
<1> DEFINE h == handler[i]
           n == IF h.op = "add" THEN h.name ELSE Is(h.cat, h.idx)
<1>1. GateOf(i) /\ Runs(i) /\ Steps(i, After([h EXCEPT !.hit = n])) /\ UNCHANGED <<cache, cancel, crew, asked>>
      /\ (Frees(i) \/ UNCHANGED slot)
  BY DEF Touched, listVars, pageVars
<1>2. /\ h \in Handlers /\ Fit(h) /\ h.at \in {"queued", "left"} /\ h.at # "unused"
      /\ h.cat \in Cats /\ h.name \in Names /\ h.op \in Ops /\ h.idx \in Nat
  BY <1>1, AtHead DEF Handlers
<1>3. h.op # "add" => Is(h.cat, h.idx) # None BY <1>2 DEF Touched, Ops
<1>4. n \in Names
  <2>1. CASE h.op = "add" BY <1>2, <2>1
  <2>2. CASE h.op # "add" BY <1>2, <1>3, <2>2, IsAKey
  <2> QED BY <2>1, <2>2
<1>5. DaemonOK'
  <2> DEFINE g == [h EXCEPT !.hit = n]
  <2>1. g \in Handlers /\ Fit(g) BY <1>2, <1>4, HitFits
  <2>2. /\ g.hit = n /\ g.at = h.at /\ g.by = h.by /\ g.op = h.op /\ g.more = h.more
    BY <1>2 DEF Handlers
  <2>3. n # None BY <1>4, ConstantsAssumption
  <2>4. h.more # 1 BY <1>1 DEF GateOf, Commands
  <2>5. cancel' \in BOOLEAN BY <1>1 DEF DaemonOK, SlotOK
  <2> HIDE DEF g, n, h
  <2>6. Steps(i, After(g)) BY <1>1 DEF g
  <2>7. g.hit # None /\ g.more # 1 BY <2>2, <2>3, <2>4
  <2>8. g.at = handler[i].at /\ g.by = handler[i].by /\ g.op = handler[i].op /\ g.more = handler[i].more
    BY <2>2 DEF h
  <2> QED BY <1>1, <2>1, <2>5, <2>6, <2>7, <2>8, AdvanceKeeps
<1>6. DeviceOK'
  <2>1. UNCHANGED <<cache, crew>> BY <1>1
  <2>2. CASE h.op = "add"
    <3>1. Len(keys[h.cat]) < MaxKeys /\ keys' = [keys EXCEPT ![h.cat] = Append(@, h.name)] /\ UNCHANGED result
      BY <2>2 DEF Touched
    <3>2. keys[h.cat] \in Seq(Names) BY <1>2 DEF DeviceOK
    <3>3. Append(keys[h.cat], h.name) \in Seq(Names) /\ Len(Append(keys[h.cat], h.name)) <= MaxKeys
      BY <1>2, <3>1, <3>2, Appended, ConstantsAssumption
    <3> QED BY <2>1, <3>1, <3>3 DEF DeviceOK
  <2>3. CASE h.op = "delete"
    <3>1. keys' = [keys EXCEPT ![h.cat] = RemoveAt(@, h.idx + 1)] /\ UNCHANGED result BY <2>3 DEF Touched
    <3>2. keys[h.cat] \in Seq(Names) /\ h.idx + 1 \in 1..Len(keys[h.cat]) /\ Len(keys[h.cat]) <= MaxKeys
      BY <1>2, <1>3, <2>3, IsAKey DEF DeviceOK
    <3>3. RemoveAt(keys[h.cat], h.idx + 1) \in Seq(Names) /\ Len(RemoveAt(keys[h.cat], h.idx + 1)) <= MaxKeys
      BY <3>2, Removed, InRange, ConstantsAssumption
    <3> QED BY <2>1, <3>1, <3>3 DEF DeviceOK
  <2>4. CASE h.op = "sign"
    <3>1. result' = [key |-> Is(h.cat, h.idx), of |-> i] /\ UNCHANGED keys BY <2>4 DEF Touched
    <3>2. result' \in Signature BY <1>4, <2>4, <3>1 DEF Signature
    <3> QED BY <2>1, <3>1, <3>2 DEF DeviceOK
  <2>5. CASE h.op = "get" BY <2>1, <2>5 DEF Touched, deviceVars, DeviceOK
  <2> QED BY <1>2, <2>2, <2>3, <2>4, <2>5 DEF Ops
<1> QED BY <1>5, <1>6

LEMMA FollowUpKeeps ==
  ASSUME DaemonOK, NEW i \in Ids, FollowUp(i)
  PROVE  DaemonOK'
<1> USE DEF DaemonOK
<1> DEFINE h == [handler[i] EXCEPT !.at = "queued"]
<1>1. /\ handler[i].at = "awake" /\ Steps(i, h) /\ queue' = Append(queue, i)
      /\ UNCHANGED <<slot, cancel, asked>>
  BY DEF FollowUp, listVars
<1>2. handler[i] \in Handlers /\ Fit(handler[i]) BY DEF HandlersOK
<1>3. /\ h \in Handlers /\ h.at = "queued" /\ h.by = handler[i].by /\ h.op = handler[i].op
      /\ h.cat = handler[i].cat /\ h.name = handler[i].name /\ h.more = handler[i].more /\ h.hit = handler[i].hit
  BY <1>2 DEF Handlers
<1>4. Fit(h) BY <1>1, <1>2, <1>3 DEF Fit, Open
<1> HIDE DEF h
<1>5. handler'[i] = h /\ \A j \in Ids \ {i} : handler'[j] = handler[j] BY <1>1 DEF Steps, HandlersOK
<1>6. HandlersOK' BY <1>1, <1>3, <1>4, <1>5 DEF Steps, HandlersOK
<1>7. i \notin Range(queue) BY <1>1 DEF QueueOK
<1>8. queue' \in Seq(Ids) /\ IsInjective(queue') /\ Range(queue') = Range(queue) \cup {i}
  BY <1>1, <1>7, Appended, QueueGrows DEF QueueOK
<1>9. QueueOK' BY <1>3, <1>5, <1>8 DEF QueueOK
<1>10. SlotOK' BY <1>1, <1>3, <1>5 DEF SlotOK, Open
<1>11. AskedOK' BY <1>1, <1>3, <1>5 DEF AskedOK
<1> QED BY <1>6, <1>9, <1>10, <1>11

LEMMA CacheRead ==
  ASSUME DeviceOK, UNCHANGED <<crew, keys, result>>,
         cache' \in {cache, keys, [cache EXCEPT !["ssh"] = keys["ssh"]]}
  PROVE  DeviceOK'
<1>1. "ssh" \in Cats BY ConstantsAssumption
<1> QED BY <1>1 DEF DeviceOK

LEMMA DaemonKeeps ==
  ASSUME DeviceOK, DaemonOK, DaemonNext
  PROVE  DeviceOK' /\ DaemonOK'
<1>0. UNCHANGED <<asked, crew>> BY DaemonFrame DEF listVars, pageVars
<1>1. CASE CancelArrives
  <2>1. CASE queue # <<>> /\ GateOf(Head(queue))
    <3>1. Fails(Head(queue)) /\ cancel' = FALSE /\ UNCHANGED <<deviceVars, cache>>
      BY <1>1, <2>1 DEF CancelArrives, Fails
    <3>2. Head(queue) \in Ids BY <2>1, Served DEF DaemonOK, QueueOK
    <3> QED BY <1>0, <3>1, <3>2, FailKeeps DEF deviceVars, DeviceOK
  <2>2. CASE ~(queue # <<>> /\ GateOf(Head(queue)))
    BY <1>0, <1>1, <2>2
      DEF CancelArrives, deviceVars, DeviceOK, DaemonOK, HandlersOK, QueueOK, SlotOK, AskedOK
  <2> QED BY <2>1, <2>2
<1>2. ASSUME NEW i \in Ids, Touched(i) PROVE DeviceOK' /\ DaemonOK' BY <1>2, TouchedKeeps
<1>3. ASSUME NEW i \in Ids, Refused(i) \/ ReadFails(i) PROVE DeviceOK' /\ DaemonOK'
  <2>1. Fails(i) /\ UNCHANGED cancel BY <1>3 DEF Refused, GateFails, ReadFails
  <2>2. UNCHANGED <<deviceVars, cache>> BY <2>1 DEF Fails
  <2> QED BY <1>0, <2>1, <2>2, FailKeeps DEF deviceVars, DeviceOK, DaemonOK, SlotOK
<1>4. ASSUME NEW i \in Ids, FollowUp(i) PROVE DeviceOK' /\ DaemonOK'
  BY <1>0, <1>4, FollowUpKeeps DEF FollowUp, deviceVars, DeviceOK
<1>5. ASSUME NEW i \in Ids, Runs(i), ~GateOf(i), Steps(i, After(handler[i])), Frees(i), UNCHANGED cancel
      PROVE  DaemonOK'
  <2>1. handler[i] \in Handlers /\ Fit(handler[i]) /\ handler[i].at # "unused" BY <1>5, AtHead
  <2>2. handler[i].hit # None BY <1>5, <2>1 DEF Fit, GateOf
  <2>3. cancel' \in BOOLEAN BY <1>5 DEF DaemonOK, SlotOK
  <2> QED BY <1>0, <1>5, <2>1, <2>2, <2>3, AdvanceKeeps
<1>6. ASSUME NEW i \in Ids, Syncs(i) \/ SyncFails(i) PROVE DeviceOK' /\ DaemonOK'
  BY <1>0, <1>5, <1>6, CacheRead DEF Syncs, SyncFails, deviceVars
<1>7. ASSUME NEW i \in Ids, ReadSecret(i) PROVE DeviceOK' /\ DaemonOK'
  <2> DEFINE n == Is(handler[i].cat, handler[i].idx)
             h == [handler[i] EXCEPT !.hit = n]
  <2>1. /\ Runs(i) /\ n # None /\ Steps(i, After(h)) /\ Frees(i) /\ UNCHANGED <<deviceVars, cache, cancel>>
    BY <1>7 DEF ReadSecret
  <2>2. /\ handler[i] \in Handlers /\ Fit(handler[i]) /\ handler[i].at # "unused"
        /\ handler[i].cat \in Cats /\ handler[i].idx \in Nat
    BY <2>1, AtHead DEF Handlers
  <2>3. n \in Names BY <2>1, <2>2, IsAKey
  <2>4. h \in Handlers /\ Fit(h) BY <2>2, <2>3, HitFits
  <2>5. h.hit = n /\ h.at = handler[i].at /\ h.by = handler[i].by /\ h.op = handler[i].op
        /\ h.more = handler[i].more
    BY <2>2 DEF Handlers
  <2> HIDE DEF h, n
  <2>6. cancel' \in BOOLEAN BY <2>1 DEF DaemonOK, SlotOK
  <2>7. DaemonOK' BY <1>0, <2>1, <2>4, <2>5, <2>6, AdvanceKeeps
  <2> QED BY <1>0, <2>1, <2>7 DEF deviceVars, DeviceOK
<1>8. ASSUME NEW i \in Ids, ReadSignature(i) PROVE DeviceOK' /\ DaemonOK'
  <2> DEFINE h == [handler[i] EXCEPT !.sig = Append(@, result)]
  <2>1. /\ Runs(i) /\ ~GateOf(i) /\ handler[i].op = "sign" /\ result # None /\ Steps(i, After(h))
        /\ UNCHANGED <<deviceVars, cache, slot, cancel>>
    BY <1>8 DEF ReadSignature
  <2>2. handler[i] \in Handlers /\ Fit(handler[i]) /\ handler[i].at # "unused" BY <2>1, AtHead
  <2>3. Append(handler[i].sig, result) \in Seq(Signature)
    BY <2>1, <2>2, Appended DEF Handlers, DeviceOK
  <2>4. /\ h \in Handlers /\ h.at = handler[i].at /\ h.by = handler[i].by /\ h.op = handler[i].op
        /\ h.cat = handler[i].cat /\ h.name = handler[i].name /\ h.hit = handler[i].hit
        /\ h.more = handler[i].more
    BY <2>2, <2>3 DEF Handlers
  <2> HIDE DEF h
  <2>5. Fit(h) BY <2>2, <2>4 DEF Fit
  <2>6. h.hit # None BY <2>1, <2>2, <2>4 DEF Fit, GateOf
  <2>7. cancel' \in BOOLEAN BY <2>1 DEF DaemonOK, SlotOK
  <2>8. h.op # "get" BY <2>1, <2>4
  <2>9. DaemonOK' BY <1>0, <2>1, <2>4, <2>5, <2>6, <2>7, <2>8, AdvanceKeeps
  <2> QED BY <1>0, <2>1, <2>9 DEF deviceVars, DeviceOK
<1> QED BY <1>1, <1>2, <1>3, <1>4, <1>6, <1>7, <1>8 DEF DaemonNext

-----------------------------------------------------------------------------
(* What clients do *)

Acts(c) ==
  \/ c \in Pages /\ PageNext(c)
  \/ c \in Fills /\ FillNext(c)
  \/ c \in Terms /\ TermNext(c)
  \/ c \in Shells /\ ShellNext(c)
  \/ c \in Signers /\ SignerNext(c)

\* A request: a signature with a cached key, asked for one at a time; a delete of a
\* category the client deletes from; the next entry of its import, or a new key.
Seen(c, k, n)   == n \in Range(rows[c][k]) \/ (chosen[c] # None /\ k = chosen[c].cat /\ n = chosen[c].name)
RequestOf(c, h) ==
  /\ h \in Handlers /\ Fit(h) /\ h.by = c /\ h.at \in {"queued", "failed"} /\ h.hit = None /\ h.sig = <<>>
  /\ h.more = Commands(h.op)
  /\ h.op = "sign" =>
       /\ asked[c] = {} /\ h.cat = "ssh"
       /\ h.at = "queued" => Cached("ssh", h.name) /\ h.idx = IndexOf("ssh", h.name)
  /\ h.op = "delete" => h.cat \in Deletable[c] /\ Seen(c, h.cat, h.name)
  /\ h.op = "add" => \/ h.name \in New[h.cat] /\ todo[c] = <<>>
                     \/ todo[c] # <<>> /\ asked[c] = {} /\ h.name = Head(todo[c]) /\ h.cat = "otp"

Slotted(i, h) == UNCHANGED slot \/ (slot = 0 /\ slot' = i /\ h.op = "get" /\ h.at = "queued")
AsksFor(c)    ==
  \E i \in Ids, h \in Handlers : Enters(i, h) /\ Waits(c, i) /\ Slotted(i, h) /\ RequestOf(c, h)

LEMMA NewHandler ==
  ASSUME NEW c \in Clients, NEW op \in Ops, NEW k \in Cats, NEW n \in Names, NEW idx \in Nat,
         NEW at \in {"queued", "failed"}, op = "sign" <=> c \in Signers
  PROVE  LET h == Handler(c, op, k, n, idx, at)
         IN  /\ h \in Handlers /\ Fit(h) /\ h.by = c /\ h.op = op /\ h.cat = k /\ h.name = n /\ h.idx = idx
             /\ h.at = at /\ h.hit = None /\ h.sig = <<>> /\ h.more = Commands(op)
<1> DEFINE h == Handler(c, op, k, n, idx, at)
<1>1. /\ h.by = c /\ h.op = op /\ h.cat = k /\ h.name = n /\ h.idx = idx
      /\ h.at = at /\ h.hit = None /\ h.sig = <<>> /\ h.more = Commands(op)
  BY DEF Handler
<1>2. Commands(op) \in 0..3 /\ Commands(op) # 0 BY DEF Commands
<1>3. <<>> \in Seq(Signature) OBVIOUS
<1>4. h \in Handlers BY <1>2, <1>3 DEF Handler, Handlers
<1>5. Fit(h) BY <1>1, <1>2 DEF Fit, Open
<1> QED BY <1>1, <1>4, <1>5

LEMMA CachedIndex ==
  ASSUME DeviceOK, NEW k \in Cats, NEW n, Cached(k, n)
  PROVE  IndexOf(k, n) \in Nat /\ IndexOf(k, n) < Len(cache[k]) /\ cache[k][IndexOf(k, n) + 1] = n
<1>1. cache[k] \in Seq(Names) /\ Len(cache[k]) <= MaxKeys /\ MaxKeys \in Nat
  BY ConstantsAssumption DEF DeviceOK
<1>2. PICK x \in 1..Len(cache[k]) : cache[k][x] = n BY <1>1, InRange DEF Cached
<1>3. Len(cache[k]) \in Nat BY <1>1, InRange
<1>4. x - 1 \in 0..MaxKeys /\ x - 1 < Len(cache[k]) /\ (x - 1) + 1 = x BY <1>1, <1>2, <1>3
<1>5. \E y \in 0..MaxKeys : y < Len(cache[k]) /\ cache[k][y + 1] = n BY <1>2, <1>4
<1>6. IndexOf(k, n) \in 0..MaxKeys /\ IndexOf(k, n) < Len(cache[k]) /\ cache[k][IndexOf(k, n) + 1] = n
  BY <1>5 DEF IndexOf
<1> QED BY <1>1, <1>6

LEMMA AsksAdd ==
  ASSUME NEW c \in Clients \ Signers, NEW i \in Ids, NEW k \in Cats, NEW n \in Names,
         KeyAdd(c, i, k, n), Waits(c, i),
         \/ n \in New[k] /\ todo[c] = <<>>
         \/ todo[c] # <<>> /\ asked[c] = {} /\ n = Head(todo[c]) /\ k = "otp"
  PROVE  AsksFor(c)
<1> DEFINE h == Handler(c, "add", k, n, 0, "queued")
<1>1. Enters(i, h) /\ UNCHANGED slot BY DEF KeyAdd
<1>2. /\ h \in Handlers /\ Fit(h) /\ h.by = c /\ h.op = "add" /\ h.cat = k /\ h.name = n
      /\ h.at = "queued" /\ h.hit = None /\ h.sig = <<>> /\ h.more = Commands("add")
  BY NewHandler DEF Ops
<1> HIDE DEF h
<1>3. RequestOf(c, h) BY <1>2 DEF RequestOf
<1> QED BY <1>1, <1>2, <1>3 DEF AsksFor, Slotted

LEMMA AsksDelete ==
  ASSUME NEW c \in Clients \ Signers, NEW i \in Ids, NEW k \in Cats, NEW n \in Names, NEW idx \in Nat,
         KeyDelete(c, i, k, n, idx), Waits(c, i), k \in Deletable[c], Seen(c, k, n)
  PROVE  AsksFor(c)
<1> DEFINE h == Handler(c, "delete", k, n, idx, "queued")
<1>1. Enters(i, h) /\ UNCHANGED slot BY DEF KeyDelete
<1>2. /\ h \in Handlers /\ Fit(h) /\ h.by = c /\ h.op = "delete" /\ h.cat = k /\ h.name = n
      /\ h.at = "queued" /\ h.hit = None /\ h.sig = <<>> /\ h.more = Commands("delete")
  BY NewHandler DEF Ops
<1> HIDE DEF h
<1>3. RequestOf(c, h) BY <1>2 DEF RequestOf
<1> QED BY <1>1, <1>2, <1>3 DEF AsksFor, Slotted

LEMMA AsksRead ==
  ASSUME NEW c \in Clients \ Signers, NEW i \in Ids, NEW k \in Cats, NEW n \in Names, NEW idx \in Nat,
         NEW at \in {"queued", "failed"}, Enters(i, Handler(c, "get", k, n, idx, at)), Waits(c, i),
         UNCHANGED slot \/ (slot = 0 /\ slot' = i /\ at = "queued")
  PROVE  AsksFor(c)
<1> DEFINE h == Handler(c, "get", k, n, idx, at)
<1>1. Enters(i, h) OBVIOUS
<1>2. /\ h \in Handlers /\ Fit(h) /\ h.by = c /\ h.op = "get" /\ h.cat = k /\ h.name = n
      /\ h.at = at /\ h.hit = None /\ h.sig = <<>> /\ h.more = Commands("get")
  BY NewHandler DEF Ops
<1> HIDE DEF h
<1>3. RequestOf(c, h) BY <1>2 DEF RequestOf
<1>4. Slotted(i, h) BY <1>2 DEF Slotted
<1> QED BY <1>1, <1>2, <1>3, <1>4 DEF AsksFor

LEMMA AsksGet ==
  ASSUME DeviceOK, NEW c \in Clients \ Signers, NEW i \in Ids, NEW k \in Cats, NEW n \in Names,
         GetKey(c, i, k, n), Waits(c, i)
  PROVE  AsksFor(c)
<1>1. CASE Cached(k, n) /\ slot = 0
  <2>1. Enters(i, Handler(c, "get", k, n, IndexOf(k, n), "queued")) /\ slot' = i
    BY <1>1 DEF GetKey, Reads
  <2> QED BY <1>1, <2>1, CachedIndex, AsksRead
<1>2. CASE Cached(k, n) /\ slot # 0
  <2>1. Enters(i, Handler(c, "get", k, n, IndexOf(k, n), "failed")) /\ UNCHANGED slot
    BY <1>2 DEF GetKey, Reads
  <2> QED BY <1>2, <2>1, CachedIndex, AsksRead
<1>3. CASE ~Cached(k, n)
  <2>1. Enters(i, Handler(c, "get", k, n, 0, "failed")) /\ UNCHANGED slot BY <1>3 DEF GetKey
  <2> QED BY <2>1, AsksRead
<1> QED BY <1>1, <1>2, <1>3

LEMMA AsksOtp ==
  ASSUME NEW c \in Clients \ Signers, NEW i \in Ids, NEW n \in Names, NEW idx \in Nat,
         KeyOtp(c, i, n, idx), Waits(c, i)
  PROVE  AsksFor(c)
<1>1. "otp" \in Cats BY ConstantsAssumption
<1>2. \/ Enters(i, Handler(c, "get", "otp", n, idx, "queued")) /\ slot = 0 /\ slot' = i
      \/ Enters(i, Handler(c, "get", "otp", n, idx, "failed")) /\ UNCHANGED slot
  BY DEF KeyOtp, Reads
<1> QED BY <1>1, <1>2, AsksRead

LEMMA AsksSignature ==
  ASSUME DeviceOK, NEW c \in Signers, NEW i \in Ids, NEW n \in Names, SignRequest(c, i, n), Waits(c, i),
         asked[c] = {}
  PROVE  AsksFor(c)
<1>1. PICK idx \in Nat, at \in {"queued", "failed"} :
        /\ Enters(i, Handler(c, "sign", "ssh", n, idx, at)) /\ UNCHANGED slot
        /\ at = "queued" => Cached("ssh", n) /\ idx = IndexOf("ssh", n)
  BY CachedIndex, ConstantsAssumption DEF SignRequest
<1> DEFINE h == Handler(c, "sign", "ssh", n, idx, at)
<1>2. /\ h \in Handlers /\ Fit(h) /\ h.by = c /\ h.op = "sign" /\ h.cat = "ssh" /\ h.name = n
      /\ h.idx = idx /\ h.at = at /\ h.hit = None /\ h.sig = <<>> /\ h.more = Commands("sign")
  <2>1. "ssh" \in Cats /\ "sign" \in Ops /\ c \in Clients BY ConstantsAssumption DEF Ops, Clients
  <2> QED BY <2>1, NewHandler
<1>3. Enters(i, h) BY <1>1
<1> HIDE DEF h
<1>4. RequestOf(c, h) BY <1>1, <1>2 DEF RequestOf
<1> QED BY <1>1, <1>2, <1>3, <1>4 DEF AsksFor, Slotted

LEMMA Shown ==
  ASSUME ListsOK, NEW c \in Clients, NEW k \in Cats
  PROVE  /\ Shows(c, k) \subseteq Names
         /\ \A x \in DOMAIN rows[c][k] : rows[c][k][x] \in Names /\ x - 1 \in Nat
<1>1. rows[c][k] \in Seq(Names) BY DEF ListsOK
<1>2. DOMAIN rows[c][k] = 1..Len(rows[c][k]) /\ Len(rows[c][k]) \in Nat BY <1>1, InRange
<1>3. Range(rows[c][k]) \subseteq Names /\ \A x \in DOMAIN rows[c][k] : rows[c][k][x] \in Names
  BY <1>1, InRange
<1>4. \A x \in DOMAIN rows[c][k] : x - 1 \in Nat BY <1>2
<1> QED BY <1>3, <1>4 DEF Shows

\* What does not ask leaves the daemon alone, but for a cancel; a client that hears an
\* answer, or drops its requests, asks for fewer.
Quiet(c) ==
  /\ UNCHANGED <<queue, handler, slot>>
  /\ \/ UNCHANGED asked
     \/ \E i \in Ids : Hears(c, i) /\ i \in asked[c] /\ (c \in Signers => handler[i].at \in {"ok", "failed"})
     \/ c \in Fills /\ asked' = [asked EXCEPT ![c] = {}]

LEMMA Confirmed ==
  ASSUME ListsOK, NEW c \in Clients \ Signers, NEW i \in Ids, Confirms(c, i)
  PROVE  AsksFor(c)
<1>1. /\ chosen[c] \in Row /\ chosen[c].cat \in Deletable[c]
      /\ KeyDelete(c, i, chosen[c].cat, chosen[c].name, chosen[c].idx) /\ Waits(c, i)
  BY DEF ListsOK, Confirms
<1>2. chosen[c].cat \in Cats /\ chosen[c].name \in Names /\ chosen[c].idx \in Nat BY <1>1 DEF Row
<1>3. Seen(c, chosen[c].cat, chosen[c].name) BY DEF Confirms, Seen
<1> QED BY <1>1, <1>2, <1>3, AsksDelete

LEMMA EntryAsks ==
  ASSUME ListsOK, NEW c \in Clients \ Signers, NEW i \in Ids, NextEntry(c, i)
  PROVE  AsksFor(c)
<1>1. /\ todo[c] # <<>> /\ asked[c] = {} /\ KeyAdd(c, i, "otp", Head(todo[c])) /\ Waits(c, i)
  BY DEF NextEntry
<1>2. Head(todo[c]) \in Names BY <1>1, Served DEF ListsOK
<1>3. "otp" \in Cats BY ConstantsAssumption
<1> QED BY <1>1, <1>2, <1>3, AsksAdd

LEMMA PageSteps ==
  ASSUME DeviceOK, ListsOK, NEW p \in Pages, PageNext(p)
  PROVE  AsksFor(p) \/ Quiet(p)
<1>0. p \in Clients \ Signers BY ConstantsAssumption DEF Clients
<1>1. CASE \/ Reload(p) \/ CodeExpires(p) \/ SwitchAway(p) \/ SwitchTo(p) \/ CopyCode(p)
           \/ PressDelete(p) \/ StartImport(p) \/ Declines(p)
  BY <1>1 DEF Reload, CodeExpires, SwitchAway, SwitchTo, CopyCode, PressDelete, AsksWhether, StartImport,
              Declines, Quiet, daemonVars, listVars
<1>2. ASSUME NEW i \in Ids, OpenAdd(p, i) PROVE AsksFor(p)
  <2>1. Waits(p, i) /\ todo[p] = <<>> BY <1>2 DEF OpenAdd, Free, Adding
  <2>2. PICK k \in Cats, n \in Names : n \in New[k] /\ KeyAdd(p, i, k, n)
    BY <1>2, NamesAre, ConstantsAssumption DEF OpenAdd, AddSsh, AddEntry
  <2> QED BY <1>0, <2>1, <2>2, AsksAdd
<1>3. ASSUME NEW i \in Ids, PrimaryAction(p, i) PROVE AsksFor(p)
  <2>1. PICK k \in Cats, n \in Names : GetKey(p, i, k, n) BY <1>0, <1>3, Shown DEF PrimaryAction
  <2>2. Waits(p, i) BY <1>3 DEF PrimaryAction
  <2> QED BY <1>0, <2>1, <2>2, AsksGet
<1>4. ASSUME NEW i \in Ids, DeleteAction(p, i) PROVE AsksFor(p)
  BY <1>0, <1>4, Confirmed DEF DeleteAction
<1>5. ASSUME NEW i \in Ids, NextEntry(p, i) PROVE AsksFor(p)
  BY <1>0, <1>5, EntryAsks
<1>6. ASSUME NEW i \in Ids, PageHears(p, i) \/ PageFails(p, i) PROVE Quiet(p)
  BY <1>0, <1>6 DEF PageHears, PageFails, Good, Bad, Quiet, daemonVars
<1> QED BY <1>1, <1>2, <1>3, <1>4, <1>5, <1>6 DEF PageNext

LEMMA FillSteps ==
  ASSUME DeviceOK, ListsOK, NEW f \in Fills, FillNext(f)
  PROVE  AsksFor(f) \/ Quiet(f)
<1>0. f \in Clients \ Signers BY ConstantsAssumption DEF Clients
<1>1. CASE OpenPanel(f) \/ ActivatePublic(f) \/ TakeBack(f)
  BY <1>1 DEF OpenPanel, ActivatePublic, TakeBack, Quiet, daemonVars, listVars
<1>2. CASE ClosePanel(f)
  BY <1>2 DEF ClosePanel, Drops, Quiet
<1>3. ASSUME NEW i \in Ids, WaitForTouch(f, i) PROVE AsksFor(f)
  <2>1. PICK k \in Cats, n \in Names : GetKey(f, i, k, n) BY <1>0, <1>3, Shown DEF WaitForTouch
  <2>2. Waits(f, i) BY <1>3 DEF WaitForTouch
  <2> QED BY <1>0, <2>1, <2>2, AsksGet
<1>4. ASSUME NEW i \in Ids, SecretArrives(f, i) \/ BackToListing(f, i) PROVE Quiet(f)
  BY <1>0, <1>4 DEF SecretArrives, BackToListing, Good, Bad, Quiet, daemonVars
<1> QED BY <1>1, <1>2, <1>3, <1>4 DEF FillNext

LEMMA TermSteps ==
  ASSUME DeviceOK, ListsOK, NEW t \in Terms, TermNext(t)
  PROVE  AsksFor(t) \/ Quiet(t)
<1>0. t \in Clients \ Signers BY ConstantsAssumption DEF Clients
<1>1. CASE RefreshKeys(t) \/ EnterDelete(t) \/ Declines(t)
  BY <1>1 DEF RefreshKeys, EnterDelete, AsksWhether, Declines, Quiet, daemonVars
<1>2. ASSUME NEW i \in Ids, SubmitKey(t, i) PROVE AsksFor(t)
  <2>1. Waits(t, i) /\ todo[t] = <<>>
    BY <1>0, <1>2, ConstantsAssumption DEF SubmitKey, ListsOK
  <2>2. PICK k \in Cats, n \in Names : n \in New[k] /\ KeyAdd(t, i, k, n)
    BY <1>2, NamesAre, ConstantsAssumption DEF SubmitKey, KeyGenerate, KeyAddEntry
  <2> QED BY <1>0, <2>1, <2>2, AsksAdd
<1>3. ASSUME NEW i \in Ids, KeyValue(t, i) PROVE AsksFor(t)
  <2>1. PICK k \in Cats, n \in Names : GetKey(t, i, k, n)
    BY <1>0, <1>3, Shown, ConstantsAssumption DEF KeyValue, ShowApi, ShowOtp
  <2>2. Waits(t, i) BY <1>3 DEF KeyValue
  <2> QED BY <1>0, <2>1, <2>2, AsksGet
<1>4. ASSUME NEW i \in Ids, ConfirmDelete(t, i) PROVE AsksFor(t)
  BY <1>0, <1>4, Confirmed DEF ConfirmDelete
<1>5. ASSUME NEW i \in Ids, TermHears(t, i) PROVE Quiet(t)
  BY <1>0, <1>5 DEF TermHears, Good, Bad, Quiet, daemonVars
<1> QED BY <1>1, <1>2, <1>3, <1>4, <1>5 DEF TermNext

LEMMA ShellSteps ==
  ASSUME DeviceOK, ListsOK, NEW s \in Shells, ShellNext(s)
  PROVE  AsksFor(s) \/ Quiet(s)
<1>0. s \in Clients \ Signers BY ConstantsAssumption DEF Clients
<1>1. CASE RunList(s) \/ RunImportOtp(s)
  BY <1>1 DEF RunList, RunImportOtp, StartImport, Quiet, daemonVars
<1>2. ASSUME NEW i \in Ids, RunDelete(s, i) PROVE AsksFor(s)
  <2>1. PICK k \in Deletable[s] : \E x \in DOMAIN rows[s][k] : KeyDelete(s, i, k, rows[s][k][x], x - 1)
    BY <1>2 DEF RunDelete
  <2>2. k \in Cats BY <1>0, ConstantsAssumption
  <2>3. PICK x \in DOMAIN rows[s][k] : KeyDelete(s, i, k, rows[s][k][x], x - 1) BY <2>1
  <2>4. Waits(s, i) BY <1>2 DEF RunDelete
  <2>5. rows[s][k][x] \in Names /\ x - 1 \in Nat BY <1>0, <2>2, Shown
  <2>6. Seen(s, k, rows[s][k][x]) BY DEF Seen, Range
  <2> QED BY <1>0, <2>1, <2>2, <2>3, <2>4, <2>5, <2>6, AsksDelete
<1>3. ASSUME NEW i \in Ids, RunAdd(s, i) \/ RunGenerate(s, i) PROVE AsksFor(s)
  <2>1. Waits(s, i) /\ todo[s] = <<>> BY <1>3 DEF RunAdd, RunGenerate
  <2>2. PICK k \in Cats, n \in Names : n \in New[k] /\ KeyAdd(s, i, k, n)
    BY <1>3, NamesAre, ConstantsAssumption DEF RunAdd, RunGenerate
  <2> QED BY <1>0, <2>1, <2>2, AsksAdd
<1>4. ASSUME NEW i \in Ids, RunOtp(s, i) PROVE AsksFor(s)
  <2>1. PICK x \in DOMAIN rows[s]["otp"] : KeyOtp(s, i, rows[s]["otp"][x], x - 1) BY <1>4 DEF RunOtp
  <2>2. "otp" \in Cats BY ConstantsAssumption
  <2>3. rows[s]["otp"][x] \in Names /\ x - 1 \in Nat BY <1>0, <2>2, Shown
  <2>4. Waits(s, i) BY <1>4 DEF RunOtp
  <2> QED BY <1>0, <2>1, <2>3, <2>4, AsksOtp
<1>5. ASSUME NEW i \in Ids, ImkGet(s, i) PROVE AsksFor(s)
  <2>1. PICK k \in Cats, n \in Names : GetKey(s, i, k, n) BY <1>0, <1>5, Shown DEF ImkGet
  <2>2. Waits(s, i) BY <1>5 DEF ImkGet
  <2> QED BY <1>0, <2>1, <2>2, AsksGet
<1>6. ASSUME NEW i \in Ids, NextEntry(s, i) PROVE AsksFor(s)
  BY <1>0, <1>6, EntryAsks
<1>7. ASSUME NEW i \in Ids, ShellHears(s, i) PROVE Quiet(s)
  BY <1>0, <1>7 DEF ShellHears, Good, Bad, Quiet, daemonVars
<1> QED BY <1>1, <1>2, <1>3, <1>4, <1>5, <1>6, <1>7 DEF ShellNext

LEMMA SignerSteps ==
  ASSUME DeviceOK, ListsOK, NEW g \in Signers, SignerNext(g)
  PROVE  AsksFor(g) \/ Quiet(g) \/ \E i \in Ids : Leaves(g, i)
<1>0. g \in Clients BY DEF Clients
<1>1. CASE Identities(g) BY <1>1 DEF Identities, Quiet, daemonVars
<1>2. ASSUME NEW i \in Ids, AsksToSign(g, i) PROVE AsksFor(g)
  <2>1. PICK n \in Shows(g, "ssh") : SignRequest(g, i, n) BY <1>2 DEF AsksToSign
  <2>2. Waits(g, i) /\ asked[g] = {} BY <1>2 DEF AsksToSign
  <2>3. "ssh" \in Cats BY ConstantsAssumption
  <2> QED BY <1>0, <2>1, <2>2, <2>3, Shown, AsksSignature
<1>3. ASSUME NEW i \in Ids, SignerHears(g, i) PROVE Quiet(g)
  BY <1>3 DEF SignerHears, Quiet, daemonVars
<1>4. ASSUME NEW i \in Ids, SignDeadline(g, i) \/ HangsUp(g, i) PROVE Leaves(g, i)
  BY <1>4 DEF SignDeadline, HangsUp
<1> QED BY <1>1, <1>2, <1>3, <1>4 DEF SignerNext

LEMMA ClientSteps ==
  ASSUME DeviceOK, ListsOK, NEW c \in Clients, Acts(c)
  PROVE  \/ AsksFor(c) \/ Quiet(c)
         \/ c \in Signers /\ \E i \in Ids : Leaves(c, i)
BY PageSteps, FillSteps, TermSteps, ShellSteps, SignerSteps DEF Acts

LEMMA AskingKeeps ==
  ASSUME DaemonOK, NEW c \in Clients, AsksFor(c), cancel' \in BOOLEAN
  PROVE  DaemonOK'
<1> USE DEF DaemonOK
<1>1. PICK i \in Ids, h \in Handlers : Enters(i, h) /\ Waits(c, i) /\ Slotted(i, h) /\ RequestOf(c, h) BY DEF AsksFor
<1>2. /\ handler[i].at = "unused" /\ handler' = [handler EXCEPT ![i] = h]
      /\ queue' = IF h.at = "queued" THEN Append(queue, i) ELSE queue
  BY <1>1 DEF Enters, Fresh
<1>3. handler'[i] = h /\ \A j \in Ids \ {i} : handler'[j] = handler[j] BY <1>2 DEF HandlersOK
<1>4. h \in Handlers /\ Fit(h) /\ h.by = c /\ h.at \in {"queued", "failed"} BY <1>1 DEF RequestOf
<1>5. HandlersOK' BY <1>2, <1>3, <1>4 DEF HandlersOK
<1>6. i \notin Range(queue) BY <1>2 DEF QueueOK
<1>7. /\ queue' \in Seq(Ids) /\ IsInjective(queue')
      /\ Range(queue') = IF h.at = "queued" THEN Range(queue) \cup {i} ELSE Range(queue)
  <2>1. CASE h.at = "queued"
    <3>1. queue' = Append(queue, i) BY <1>2, <2>1
    <3> QED BY <1>6, <2>1, <3>1, Appended, QueueGrows DEF QueueOK
  <2>2. CASE h.at # "queued" BY <1>2, <2>2 DEF QueueOK
  <2> QED BY <2>1, <2>2
<1>8. QueueOK' BY <1>3, <1>4, <1>6, <1>7 DEF QueueOK
<1>9. SlotOK'
  <2>1. slot # i BY <1>2, IdsAre DEF SlotOK, Open
  <2> QED BY <1>1, <1>3, <2>1, IdsAre DEF SlotOK, Slotted, Open
<1>10. AskedOK'
  <2>1. /\ asked' \in [Clients -> SUBSET Ids] /\ asked'[c] = asked[c] \cup {i}
        /\ \A d \in Clients \ {c} : asked'[d] = asked[d]
    BY <1>1 DEF Waits, AskedOK
  <2>2. \A d \in Clients : i \notin asked[d]
    <3>1. handler[i] = Unused BY <1>2 DEF HandlersOK, Fit
    <3>2. handler[i].by = None BY <3>1 DEF Unused
    <3> QED BY <3>2, ConstantsAssumption DEF AskedOK
  <2> QED BY <1>3, <1>4, <2>1, <2>2 DEF AskedOK
<1> QED BY <1>5, <1>8, <1>9, <1>10

LEMMA QuietKeeps ==
  ASSUME DaemonOK, NEW c \in Clients, Quiet(c), cancel' \in BOOLEAN
  PROVE  DaemonOK'
<1> USE DEF DaemonOK
<1>1. UNCHANGED <<queue, handler, slot>> BY DEF Quiet
<1>2. HandlersOK' /\ QueueOK' /\ SlotOK' BY <1>1 DEF HandlersOK, QueueOK, SlotOK
<1>3. /\ asked' \in [Clients -> SUBSET Ids]
      /\ \A d \in Clients : asked'[d] \subseteq asked[d]
  BY DEF Quiet, Hears, AskedOK
<1>4. AskedOK' BY <1>1, <1>3 DEF AskedOK
<1> QED BY <1>2, <1>4

LEMMA LeavingKeeps ==
  ASSUME DaemonOK, NEW g \in Signers, NEW i \in Ids, Leaves(g, i), cancel' \in BOOLEAN
  PROVE  DaemonOK'
<1> USE DEF DaemonOK
<1> DEFINE h == [handler[i] EXCEPT !.at = "left"]
<1>0. g \in Clients BY DEF Clients
<1>1. i \in asked[g] /\ handler[i].at = "queued" /\ GateOf(i) /\ Steps(i, h) /\ Hears(g, i) /\ UNCHANGED <<queue, slot>>
  BY DEF Leaves
<1>2. handler[i] \in Handlers /\ Fit(handler[i]) /\ handler[i].by = g BY <1>0, <1>1 DEF HandlersOK, AskedOK
<1>3. /\ h \in Handlers /\ h.at = "left" /\ h.by = g /\ h.op = handler[i].op /\ h.cat = handler[i].cat
      /\ h.name = handler[i].name /\ h.more = handler[i].more /\ h.hit = handler[i].hit
  BY <1>2 DEF Handlers
<1>4. handler[i].op = "sign" /\ handler[i].more = 3 BY <1>1, <1>2 DEF Fit, GateOf, Commands
<1> HIDE DEF h
<1>5. Fit(h) BY <1>1, <1>2, <1>3, <1>4 DEF Fit, Open, Commands
<1>6. handler'[i] = h /\ \A j \in Ids \ {i} : handler'[j] = handler[j] BY <1>1 DEF Steps, HandlersOK
<1>7. HandlersOK' BY <1>1, <1>3, <1>5, <1>6 DEF Steps, HandlersOK
<1>8. QueueOK' BY <1>1, <1>3, <1>6 DEF QueueOK
<1>9. SlotOK' BY <1>1, <1>3, <1>6 DEF SlotOK, Open
<1>10. /\ asked' \in [Clients -> SUBSET Ids]
       /\ \A d \in Clients : asked'[d] \subseteq asked[d]
  BY <1>1 DEF Hears, AskedOK
<1>11. AskedOK' BY <1>2, <1>3, <1>6, <1>10 DEF AskedOK
<1> QED BY <1>7, <1>8, <1>9, <1>11

LEMMA EntersFrame ==
  ASSUME NEW c, AsksFor(c)
  PROVE  UNCHANGED <<deviceVars, cache, cancel>>
BY DEF AsksFor, Enters

LEMMA ClientFrame ==
  ASSUME DeviceOK, DaemonOK, ListsOK, NEW c \in Clients, Acts(c)
  PROVE  UNCHANGED <<deviceVars, cache, crew>> /\ cancel' \in BOOLEAN
<1>0. cancel \in BOOLEAN BY DEF DaemonOK, SlotOK
<1>1. ASSUME c \in Pages, PageNext(c) PROVE UNCHANGED <<deviceVars, cache, crew>> /\ cancel' \in BOOLEAN
  <2>1. CASE \/ Reload(c) \/ CodeExpires(c) \/ SwitchAway(c) \/ SwitchTo(c) \/ CopyCode(c)
             \/ PressDelete(c) \/ StartImport(c) \/ Declines(c)
    BY <1>0, <2>1 DEF Reload, CodeExpires, SwitchAway, SwitchTo, CopyCode, PressDelete, AsksWhether,
                      StartImport, Declines, daemonVars, pageVars
  <2>2. ASSUME NEW i \in Ids, PageHears(c, i) \/ PageFails(c, i)
        PROVE  UNCHANGED <<deviceVars, cache, crew>> /\ cancel' \in BOOLEAN
    BY <1>0, <2>2 DEF PageHears, PageFails, daemonVars, pageVars
  <2>3. ASSUME NEW i \in Ids, \/ OpenAdd(c, i) \/ PrimaryAction(c, i) \/ DeleteAction(c, i) \/ NextEntry(c, i)
        PROVE  UNCHANGED <<deviceVars, cache, crew>> /\ cancel' \in BOOLEAN
    <3>1. UNCHANGED crew
      BY <2>3 DEF OpenAdd, PrimaryAction, DeleteAction, Confirms, NextEntry, pageVars
    <3>2. \E h : Enters(i, h)
      BY <2>3 DEF OpenAdd, AddSsh, AddEntry, KeyAdd, PrimaryAction, GetKey, Reads, DeleteAction, Confirms,
                  KeyDelete, NextEntry
    <3> QED BY <1>0, <3>1, <3>2 DEF Enters
  <2> QED BY <1>1, <2>1, <2>2, <2>3 DEF PageNext
<1>2. ASSUME c \in Fills, FillNext(c) PROVE UNCHANGED <<deviceVars, cache, crew>> /\ cancel' \in BOOLEAN
  <2>1. UNCHANGED crew BY <1>2, FillFrame DEF pageVars
  <2>2. CASE OpenPanel(c) \/ ActivatePublic(c) \/ TakeBack(c) \/ ClosePanel(c)
    BY <1>0, <2>1, <2>2 DEF OpenPanel, ActivatePublic, TakeBack, ClosePanel, daemonVars
  <2>3. ASSUME NEW i \in Ids, SecretArrives(c, i) \/ BackToListing(c, i)
        PROVE  UNCHANGED <<deviceVars, cache, crew>> /\ cancel' \in BOOLEAN
    BY <1>0, <2>1, <2>3 DEF SecretArrives, BackToListing, daemonVars
  <2>4. ASSUME NEW i \in Ids, WaitForTouch(c, i)
        PROVE  UNCHANGED <<deviceVars, cache, crew>> /\ cancel' \in BOOLEAN
    <3>1. \E h : Enters(i, h) BY <2>4 DEF WaitForTouch, GetKey, Reads
    <3> QED BY <1>0, <2>1, <3>1 DEF Enters
  <2> QED BY <1>2, <2>2, <2>3, <2>4 DEF FillNext
<1>3. ASSUME c \in Terms, TermNext(c) PROVE UNCHANGED <<deviceVars, cache, crew>> /\ cancel' \in BOOLEAN
  <2>1. UNCHANGED crew BY <1>3, TermFrame DEF pageVars
  <2>2. CASE RefreshKeys(c) \/ EnterDelete(c) \/ Declines(c) \/ \E i \in Ids : TermHears(c, i)
    BY <1>0, <2>1, <2>2 DEF RefreshKeys, EnterDelete, AsksWhether, Declines, TermHears, daemonVars
  <2>3. ASSUME NEW i \in Ids, SubmitKey(c, i) \/ KeyValue(c, i) \/ ConfirmDelete(c, i)
        PROVE  UNCHANGED <<deviceVars, cache, crew>> /\ cancel' \in BOOLEAN
    <3>1. \E h : Enters(i, h)
      BY <2>3 DEF SubmitKey, KeyGenerate, KeyAddEntry, KeyAdd, KeyValue, ShowApi, ShowOtp, GetKey, Reads,
                  ConfirmDelete, Confirms, KeyDelete
    <3> QED BY <1>0, <2>1, <3>1 DEF Enters
  <2> QED BY <1>3, <2>2, <2>3 DEF TermNext
<1>4. ASSUME c \in Shells, ShellNext(c) PROVE UNCHANGED <<deviceVars, cache, crew>> /\ cancel' \in BOOLEAN
  <2>1. UNCHANGED crew BY <1>4, ShellFrame DEF pageVars
  <2>2. CASE RunList(c) \/ RunImportOtp(c) \/ \E i \in Ids : ShellHears(c, i)
    BY <1>0, <2>1, <2>2 DEF RunList, RunImportOtp, StartImport, ShellHears, daemonVars
  <2>3. ASSUME NEW i \in Ids,
               \/ RunDelete(c, i) \/ RunAdd(c, i) \/ RunGenerate(c, i) \/ RunOtp(c, i) \/ ImkGet(c, i)
               \/ NextEntry(c, i)
        PROVE  UNCHANGED <<deviceVars, cache, crew>> /\ cancel' \in BOOLEAN
    <3>1. \E h : Enters(i, h)
      BY <2>3 DEF RunDelete, KeyDelete, RunAdd, RunGenerate, KeyAdd, RunOtp, KeyOtp, Reads, ImkGet, GetKey,
                  NextEntry
    <3> QED BY <1>0, <2>1, <3>1 DEF Enters
  <2> QED BY <1>4, <2>2, <2>3 DEF ShellNext
<1>5. ASSUME c \in Signers, SignerNext(c) PROVE UNCHANGED <<deviceVars, cache, crew>> /\ cancel' \in BOOLEAN
  <2>1. UNCHANGED crew BY <1>5, SignerFrame DEF pageVars
  <2>2. CASE Identities(c) \/ \E i \in Ids : SignerHears(c, i) \/ SignDeadline(c, i) \/ HangsUp(c, i)
    BY <1>0, <2>1, <2>2 DEF Identities, SignerHears, SignDeadline, HangsUp, Leaves, daemonVars
  <2>3. ASSUME NEW i \in Ids, AsksToSign(c, i)
        PROVE  UNCHANGED <<deviceVars, cache, crew>> /\ cancel' \in BOOLEAN
    <3>1. \E h : Enters(i, h) BY <2>3 DEF AsksToSign, SignRequest
    <3> QED BY <1>0, <2>1, <3>1 DEF Enters
  <2> QED BY <1>5, <2>2, <2>3 DEF SignerNext
<1> QED BY <1>1, <1>2, <1>3, <1>4, <1>5 DEF Acts

LEMMA ClientKeepsDaemon ==
  ASSUME DeviceOK, DaemonOK, ListsOK, NEW c \in Clients, Acts(c)
  PROVE  DeviceOK' /\ DaemonOK'
<1>1. UNCHANGED <<deviceVars, cache, crew>> /\ cancel' \in BOOLEAN BY ClientFrame
<1>2. DeviceOK' BY <1>1 DEF deviceVars, DeviceOK
<1>3. DaemonOK' BY <1>1, ClientSteps, AskingKeeps, QuietKeeps, LeavingKeeps
<1> QED BY <1>2, <1>3

\* What a client shows, asks its user and has still to import.
RowsStep(c)   == UNCHANGED rows \/ Lists(c)
ChosenStep(c) == UNCHANGED chosen \/ AsksWhether(c) \/ chosen' = [chosen EXCEPT ![c] = None]
TodoStep(c) ==
  \/ UNCHANGED todo
  \/ /\ todo' = [todo EXCEPT ![c] = File] /\ c \in Pages \cup Shells /\ UNCHANGED <<handler, asked>>
     /\ todo[c] = <<>> /\ \A i \in asked[c] : handler[i].op # "add"
  \/ \E i \in asked[c] :
       /\ Importing(c, i) /\ Hears(c, i) /\ UNCHANGED handler
       /\ \/ handler[i].at = "ok" /\ todo' = [todo EXCEPT ![c] = Tail(@)]
          \/ todo' = [todo EXCEPT ![c] = <<>>]

LEMMA EntryHeard ==
  ASSUME ListsOK, NEW c \in Clients, NEW i \in asked[c], Hears(c, i), UNCHANGED handler,
         (handler[i].at = "ok" /\ Imported(c, i)) \/ EntryFails(c, i)
  PROVE  TodoStep(c)
<1>1. todo = [d \in Clients |-> todo[d]] BY DEF ListsOK
<1>2. CASE ~Importing(c, i)
  <2>1. todo' = [todo EXCEPT ![c] = todo[c]] BY <1>2 DEF Imported, EntryFails
  <2>2. todo' = todo BY <1>1, <2>1
  <2> QED BY <2>2 DEF TodoStep
<1>3. CASE Importing(c, i) BY <1>3 DEF Imported, EntryFails, StopsAt, TodoStep
<1> QED BY <1>2, <1>3

LEMMA ListSteps ==
  ASSUME ListsOK, DaemonOK, NEW c \in Clients, Acts(c)
  PROVE  RowsStep(c) /\ ChosenStep(c) /\ TodoStep(c)
<1> USE DEF listVars, daemonVars
<1>1. ASSUME c \in Pages, PageNext(c) PROVE RowsStep(c) /\ ChosenStep(c) /\ TodoStep(c)
  <2>1. CASE \/ Reload(c) \/ CodeExpires(c) \/ SwitchAway(c) \/ SwitchTo(c) \/ CopyCode(c) \/ PressDelete(c)
             \/ Declines(c)
    BY <2>1 DEF Reload, Populate, CodeExpires, SwitchAway, SwitchTo, CopyCode, PressDelete, AsksWhether, Declines,
                RowsStep, ChosenStep, TodoStep
  <2>2. CASE Free(c) /\ StartImport(c)
    <3>1. UNCHANGED <<rows, chosen, handler, asked>> /\ todo' = [todo EXCEPT ![c] = File] /\ todo[c] = <<>>
      BY <2>2 DEF StartImport
    <3>2. \A i \in asked[c] : handler[i].op # "add" BY <2>2 DEF Free, Adding
    <3> QED BY <1>1, <3>1, <3>2 DEF RowsStep, ChosenStep, TodoStep
  <2>3. ASSUME NEW i \in Ids, OpenAdd(c, i) \/ PrimaryAction(c, i) \/ DeleteAction(c, i) \/ NextEntry(c, i)
        PROVE  RowsStep(c) /\ ChosenStep(c) /\ TodoStep(c)
    BY <2>3 DEF OpenAdd, PrimaryAction, DeleteAction, Confirms, NextEntry, RowsStep, ChosenStep, TodoStep
  <2>4. ASSUME NEW i \in Ids, PageHears(c, i) \/ PageFails(c, i)
        PROVE  RowsStep(c) /\ ChosenStep(c) /\ TodoStep(c)
    <3>1. /\ UNCHANGED <<rows, chosen, handler>> /\ Hears(c, i) /\ i \in asked[c]
          /\ (handler[i].at = "ok" /\ Imported(c, i)) \/ EntryFails(c, i)
      BY <2>4 DEF PageHears, PageFails, Good, Bad
    <3> QED BY <3>1, EntryHeard DEF RowsStep, ChosenStep
  <2> QED BY <1>1, <2>1, <2>2, <2>3, <2>4 DEF PageNext
<1>2. ASSUME c \in Fills, FillNext(c) PROVE RowsStep(c) /\ ChosenStep(c) /\ TodoStep(c)
  <2>1. CASE OpenPanel(c) \/ ActivatePublic(c) \/ TakeBack(c) \/ ClosePanel(c)
    BY <2>1 DEF OpenPanel, ActivatePublic, TakeBack, ClosePanel, RowsStep, ChosenStep, TodoStep
  <2>2. ASSUME NEW i \in Ids, SecretArrives(c, i) \/ BackToListing(c, i) \/ WaitForTouch(c, i)
        PROVE  RowsStep(c) /\ ChosenStep(c) /\ TodoStep(c)
    BY <2>2 DEF SecretArrives, BackToListing, WaitForTouch, RowsStep, ChosenStep, TodoStep
  <2> QED BY <1>2, <2>1, <2>2 DEF FillNext
<1>3. ASSUME c \in Terms, TermNext(c) PROVE RowsStep(c) /\ ChosenStep(c) /\ TodoStep(c)
  <2>1. CASE RefreshKeys(c) \/ EnterDelete(c) \/ Declines(c)
    BY <2>1 DEF RefreshKeys, EnterDelete, AsksWhether, Declines, RowsStep, ChosenStep, TodoStep
  <2>2. ASSUME NEW i \in Ids, SubmitKey(c, i) \/ KeyValue(c, i) \/ ConfirmDelete(c, i) \/ TermHears(c, i)
        PROVE  RowsStep(c) /\ ChosenStep(c) /\ TodoStep(c)
    BY <2>2 DEF SubmitKey, KeyValue, ConfirmDelete, Confirms, TermHears, Refreshes, RowsStep, ChosenStep, TodoStep
  <2> QED BY <1>3, <2>1, <2>2 DEF TermNext
<1>4. ASSUME c \in Shells, ShellNext(c) PROVE RowsStep(c) /\ ChosenStep(c) /\ TodoStep(c)
  <2>1. CASE RunList(c) BY <2>1 DEF RunList, RowsStep, ChosenStep, TodoStep
  <2>2. CASE RunImportOtp(c)
    <3>1. /\ UNCHANGED <<rows, chosen, handler, asked>> /\ todo' = [todo EXCEPT ![c] = File] /\ todo[c] = <<>>
          /\ asked[c] = {}
      BY <2>2 DEF RunImportOtp, StartImport
    <3> QED BY <1>4, <3>1 DEF RowsStep, ChosenStep, TodoStep
  <2>3. ASSUME NEW i \in Ids,
               \/ RunDelete(c, i) \/ RunAdd(c, i) \/ RunGenerate(c, i) \/ RunOtp(c, i) \/ ImkGet(c, i)
               \/ NextEntry(c, i)
        PROVE  RowsStep(c) /\ ChosenStep(c) /\ TodoStep(c)
    BY <2>3 DEF RunDelete, RunAdd, RunGenerate, RunOtp, ImkGet, NextEntry, RowsStep, ChosenStep, TodoStep
  <2>4. ASSUME NEW i \in Ids, ShellHears(c, i) PROVE RowsStep(c) /\ ChosenStep(c) /\ TodoStep(c)
    <3>1. /\ UNCHANGED <<rows, chosen, handler>> /\ Hears(c, i) /\ i \in asked[c]
          /\ (handler[i].at = "ok" /\ Imported(c, i)) \/ EntryFails(c, i)
      BY <2>4 DEF ShellHears, Good, Bad
    <3> QED BY <3>1, EntryHeard DEF RowsStep, ChosenStep
  <2> QED BY <1>4, <2>1, <2>2, <2>3, <2>4 DEF ShellNext
<1>5. ASSUME c \in Signers, SignerNext(c) PROVE RowsStep(c) /\ ChosenStep(c) /\ TodoStep(c)
  BY <1>5 DEF SignerNext, Identities, AsksToSign, SignerHears, SignDeadline, HangsUp, Leaves,
              RowsStep, ChosenStep, TodoStep
<1> QED BY <1>1, <1>2, <1>3, <1>4, <1>5 DEF Acts

LEMMA ListsKept ==
  ASSUME DeviceOK, ListsOK, NEW c \in Clients, RowsStep(c), ChosenStep(c), TodoStep(c)
  PROVE  ListsOK'
<1>1. rows' \in [Clients -> [Cats -> Seq(Names)]] BY DEF RowsStep, Lists, ListsOK, DeviceOK
<1>2. /\ chosen' \in [Clients -> Row \cup {None}]
      /\ \A d \in Clients : chosen'[d] # None => chosen'[d].cat \in Deletable[d]
  <2>1. CASE UNCHANGED chosen \/ chosen' = [chosen EXCEPT ![c] = None] BY <2>1 DEF ListsOK
  <2>2. CASE AsksWhether(c)
    <3>1. PICK k \in Deletable[c] : \E x \in DOMAIN rows[c][k] :
            chosen' = [chosen EXCEPT ![c] = [cat |-> k, name |-> rows[c][k][x], idx |-> x - 1]]
      BY <2>2 DEF AsksWhether
    <3>2. PICK x \in DOMAIN rows[c][k] :
            chosen' = [chosen EXCEPT ![c] = [cat |-> k, name |-> rows[c][k][x], idx |-> x - 1]]
      BY <3>1
    <3>3. k \in Cats BY ConstantsAssumption
    <3>4. rows[c][k][x] \in Names /\ x - 1 \in Nat BY <3>3, Shown
    <3>5. [cat |-> k, name |-> rows[c][k][x], idx |-> x - 1] \in Row BY <3>3, <3>4 DEF Row
    <3> QED BY <3>2, <3>5 DEF ListsOK
  <2> QED BY <2>1, <2>2 DEF ChosenStep
<1>3. todo' \in [Clients -> Seq(Names)] /\ \A d \in Clients : todo'[d] # <<>> => d \in Pages \cup Shells
  <2>1. CASE UNCHANGED todo BY <2>1 DEF ListsOK
  <2>2. CASE todo' = [todo EXCEPT ![c] = File] /\ c \in Pages \cup Shells
    BY <2>2, ConstantsAssumption DEF ListsOK
  <2>3. CASE todo' = [todo EXCEPT ![c] = <<>>] BY <2>3 DEF ListsOK
  <2>4. CASE todo[c] # <<>> /\ todo' = [todo EXCEPT ![c] = Tail(@)]
    <3>1. Tail(todo[c]) \in Seq(Names) BY <2>4, Served DEF ListsOK
    <3> QED BY <2>4, <3>1 DEF ListsOK
  <2> QED BY <2>1, <2>2, <2>3, <2>4 DEF TodoStep, Importing
<1> QED BY <1>1, <1>2, <1>3 DEF ListsOK

LEMMA GoodHit ==
  ASSUME DaemonOK, NEW c \in Clients, NEW i, Good(c, i)
  PROVE  i \in Ids /\ handler[i].hit \in Names
<1>1. i \in Ids /\ handler[i].at = "ok" BY DEF Good, DaemonOK, AskedOK
<1>2. handler[i] \in Handlers /\ Fit(handler[i]) BY <1>1 DEF DaemonOK, HandlersOK
<1>3. handler[i].hit # None BY <1>1, <1>2 DEF Fit
<1> QED BY <1>1, <1>2, <1>3 DEF Handlers

\* A generation is spent, within the bound.
LEMMA GenerationFits ==
  ASSUME ScreensOK, NEW p \in Pages, gen[p] < MaxGens
  PROVE  gen[p] + 1 \in 0..MaxGens
<1>1. gen[p] \in 0..MaxGens /\ MaxGens \in Nat BY ConstantsAssumption DEF ScreensOK
<1> QED BY <1>1

CodesOK ==
  /\ gen \in [Pages -> 0..MaxGens] /\ timers \in [Pages -> SUBSET (0..MaxGens)]
  /\ code \in [Pages -> [name : Names, gen : 0..MaxGens] \cup {None}]

LEMMA ClearFits ==
  ASSUME ScreensOK, NEW p \in Pages, ClearCodes(p), timers' \in [Pages -> SUBSET (0..MaxGens)]
  PROVE  CodesOK'
BY GenerationFits DEF ClearCodes, CodesOK, ScreensOK

LEMMA ShowFits ==
  ASSUME ScreensOK, NEW p \in Pages, NEW n \in Names, ShowCode(p, n)
  PROVE  CodesOK'
<1> DEFINE g == gen[p] + 1
           x == [name |-> n, gen |-> g]
<1>1. g \in 0..MaxGens BY GenerationFits DEF ShowCode
<1>2. gen' = [gen EXCEPT ![p] = g] /\ code' = [code EXCEPT ![p] = x]
      /\ timers' = [timers EXCEPT ![p] = timers[p] \cup {g}]
  BY DEF ShowCode, ScreensOK
<1>3. x \in [name : Names, gen : 0..MaxGens] BY <1>1
<1>4. timers[p] \cup {g} \in SUBSET (0..MaxGens) BY <1>1 DEF ScreensOK
<1> HIDE DEF g, x
<1> QED BY <1>1, <1>2, <1>3, <1>4 DEF CodesOK, ScreensOK

LEMMA CopyFits ==
  ASSUME NEW c \in Clients, NEW n \in Names
  PROVE  [by |-> c, name |-> n] \in [by : Clients \cup {None}, name : Names \cup {None}]
OBVIOUS

LEMMA PageScreens ==
  ASSUME DaemonOK, ScreensOK, NEW p \in Pages, PageNext(p)
  PROVE  ScreensOK'
<1>0. p \in Clients /\ UNCHANGED <<panel, clears>> BY PageFrame DEF Clients
<1>1. CASE Reload(p)
  <2>1. CodesOK' BY <1>1, ClearFits DEF Reload, Populate, ScreensOK
  <2>2. stale' \in [Pages -> BOOLEAN] /\ UNCHANGED <<front, clip>> BY <1>1 DEF Reload, ScreensOK, panelVars
  <2> QED BY <1>0, <2>1, <2>2 DEF CodesOK, ScreensOK
<1>2. CASE CodeExpires(p)
  <2>1. PICK g \in timers[p] :
          /\ timers' = [timers EXCEPT ![p] = @ \ {g}]
          /\ IF g = gen[p] THEN ClearCodes(p) ELSE UNCHANGED <<code, gen>>
    BY <1>2 DEF CodeExpires
  <2>2. timers' \in [Pages -> SUBSET (0..MaxGens)] BY <2>1 DEF ScreensOK
  <2>3. CodesOK' BY <2>1, <2>2, ClearFits DEF CodesOK, ScreensOK
  <2>4. UNCHANGED <<stale, front, clip>> BY <1>2 DEF CodeExpires, panelVars
  <2> QED BY <1>0, <2>3, <2>4 DEF CodesOK, ScreensOK
<1>3. CASE SwitchAway(p)
  <2>1. CodesOK' BY <1>3, ClearFits DEF SwitchAway, ScreensOK
  <2>2. front' \in [Pages -> BOOLEAN] /\ UNCHANGED <<stale, clip>> BY <1>3 DEF SwitchAway, ScreensOK, panelVars
  <2> QED BY <1>0, <2>1, <2>2 DEF CodesOK, ScreensOK
<1>4. CASE SwitchTo(p) BY <1>4 DEF SwitchTo, ScreensOK, panelVars
<1>5. CASE CopyCode(p)
  <2>1. code[p].name \in Names BY <1>5 DEF CopyCode, ScreensOK
  <2>2. clip' \in [by : Clients \cup {None}, name : Names \cup {None}] BY <1>0, <1>5, <2>1, CopyFits DEF CopyCode
  <2>3. UNCHANGED <<code, gen, timers, stale, front>> BY <1>5 DEF CopyCode, pageVars
  <2> QED BY <1>0, <2>2, <2>3 DEF ScreensOK
<1>6. ASSUME UNCHANGED <<pageVars, panelVars>> PROVE ScreensOK'
  BY <1>6 DEF pageVars, panelVars, ScreensOK
<1>7. CASE PressDelete(p) \/ StartImport(p) \/ Declines(p)
  BY <1>6, <1>7 DEF PressDelete, AsksWhether, StartImport, Declines
<1>8. ASSUME NEW i \in Ids,
             \/ OpenAdd(p, i) \/ PrimaryAction(p, i) \/ DeleteAction(p, i) \/ NextEntry(p, i) \/ PageFails(p, i)
      PROVE  ScreensOK'
  BY <1>6, <1>8 DEF OpenAdd, PrimaryAction, DeleteAction, Confirms, NextEntry, PageFails
<1>9. ASSUME NEW i \in Ids, PageHears(p, i) PROVE ScreensOK'
  <2>1. handler[i].hit \in Names BY <1>0, <1>9, GoodHit DEF PageHears
  <2>2. ShowCode(p, handler[i].hit) \/ UNCHANGED <<code, gen, timers>> BY <1>9 DEF PageHears
  <2>3. CodesOK' BY <2>1, <2>2, ShowFits DEF CodesOK, ScreensOK
  <2>4. PICK b : stale' = [stale EXCEPT ![p] = stale[p] \/ b] /\ b \in BOOLEAN
    <3>1. stale' = [stale EXCEPT ![p] = stale[p] \/ (handler[i].op # "get" /\ Len(todo[p]) <= 1)]
      BY <1>9 DEF PageHears, ScreensOK
    <3> QED BY <3>1
  <2>5. stale' \in [Pages -> BOOLEAN] BY <2>4 DEF ScreensOK
  <2>6. UNCHANGED <<front, clip>> BY <1>9 DEF PageHears, panelVars
  <2> QED BY <1>0, <2>3, <2>5, <2>6 DEF CodesOK, ScreensOK
<1> QED BY <1>1, <1>2, <1>3, <1>4, <1>5, <1>7, <1>8, <1>9 DEF PageNext

LEMMA DeliverFits ==
  ASSUME ScreensOK, NEW f \in Fills, NEW n \in Names, NEW i \in Ids \cup {0}, Deliver(f, n, i), UNCHANGED pageVars
  PROVE  ScreensOK'
<1> DEFINE x == [by |-> f, name |-> n, id |-> i]
<1>1. clip' = [by |-> f, name |-> n] /\ clears' = clears \cup {x} /\ panel' = [panel EXCEPT ![f] = "closed"]
  BY DEF Deliver, CopyAndClear, HoldsUpFor, Shuts
<1>2. clip' \in [by : Clients \cup {None}, name : Names \cup {None}] BY <1>1, CopyFits DEF Clients
<1>3. x \in [by : Fills, name : Names, id : Ids \cup {0}] OBVIOUS
<1>4. clears' \subseteq [by : Fills, name : Names, id : Ids \cup {0}] BY <1>1, <1>3 DEF ScreensOK
<1>5. panel' \in [Fills -> {"closed", "listing", "waiting"}] BY <1>1 DEF ScreensOK
<1> QED BY <1>2, <1>4, <1>5 DEF ScreensOK, pageVars

LEMMA EmptyFits == Empty \in [by : Clients \cup {None}, name : Names \cup {None}]
BY DEF Empty

LEMMA FillScreens ==
  ASSUME DaemonOK, ListsOK, ScreensOK, NEW f \in Fills, FillNext(f)
  PROVE  ScreensOK'
<1>0. UNCHANGED pageVars /\ f \in Clients BY FillFrame DEF Clients
<1>1. CASE OpenPanel(f) \/ ClosePanel(f) \/ \E i \in Ids : WaitForTouch(f, i) \/ BackToListing(f, i)
  <2>1. UNCHANGED <<clip, clears>> /\ \E s \in {"closed", "listing", "waiting"} : panel' = [panel EXCEPT ![f] = s]
    BY <1>1 DEF OpenPanel, ClosePanel, Shuts, WaitForTouch, BackToListing
  <2>2. panel' \in [Fills -> {"closed", "listing", "waiting"}] BY <2>1 DEF ScreensOK
  <2> QED BY <1>0, <2>1, <2>2 DEF ScreensOK, pageVars
<1>2. CASE ActivatePublic(f)
  <2>1. PICK n \in Range(rows[f]["ssh"]) : Deliver(f, n, 0) BY <1>2 DEF ActivatePublic
  <2>2. n \in Names BY <1>0, <2>1, Shown, ConstantsAssumption DEF Shows
  <2> QED BY <1>0, <2>1, <2>2, DeliverFits
<1>3. CASE TakeBack(f)
  <2>1. clears' \subseteq clears /\ clip' \in {clip, Empty} /\ UNCHANGED panel BY <1>3 DEF TakeBack
  <2>2. clip' \in [by : Clients \cup {None}, name : Names \cup {None}] BY <2>1, EmptyFits DEF ScreensOK
  <2>3. clears' \subseteq [by : Fills, name : Names, id : Ids \cup {0}] BY <2>1 DEF ScreensOK
  <2> QED BY <1>0, <2>1, <2>2, <2>3 DEF ScreensOK, pageVars
<1>4. ASSUME NEW i \in Ids, SecretArrives(f, i) PROVE ScreensOK'
  <2>1. Deliver(f, handler[i].hit, i) /\ handler[i].hit \in Names BY <1>0, <1>4, GoodHit DEF SecretArrives
  <2> QED BY <1>0, <2>1, DeliverFits
<1> QED BY <1>1, <1>2, <1>3, <1>4 DEF FillNext

LEMMA ScreensKept == ScreensOK /\ UNCHANGED <<pageVars, panelVars>> => ScreensOK'
BY DEF ScreensOK, pageVars, panelVars

LEMMA ClientScreens ==
  ASSUME DaemonOK, ListsOK, ScreensOK, NEW c \in Clients, Acts(c)
  PROVE  ScreensOK'
BY PageScreens, FillScreens, TermFrame, ShellFrame, SignerFrame, ScreensKept DEF Acts

LEMMA TypesStart == Init => Types
<1> SUFFICES ASSUME Init PROVE Types OBVIOUS
<1> USE DEF Init
<1>1. DeviceOK BY ConstantsAssumption DEF DeviceOK
<1>2. \A i \in Ids : handler[i] = Unused OBVIOUS
<1>3. <<>> \in Seq(Signature) /\ <<>> \in Seq(Ids) /\ <<>> \in Seq(Names) OBVIOUS
<1>4. Unused \in Handlers /\ Unused.at = "unused" BY <1>3 DEF Unused, Handlers
<1>5. HandlersOK BY <1>2, <1>4 DEF HandlersOK, Fit
<1>6. Range(queue) = {} /\ IsInjective(queue) BY DEF Range, IsInjective
<1>7. QueueOK BY <1>2, <1>3, <1>4, <1>6 DEF QueueOK
<1>8. SlotOK BY DEF SlotOK
<1>9. AskedOK BY DEF AskedOK
<1>10. ListsOK BY <1>3, ConstantsAssumption DEF ListsOK
<1>11. ScreensOK BY EmptyFits, ConstantsAssumption DEF ScreensOK
<1> QED BY <1>1, <1>5, <1>7, <1>8, <1>9, <1>10, <1>11 DEF Types, DaemonOK

LEMMA NextSteps ==
  Next => DaemonNext \/ UserCopies \/ \E c \in Clients : Acts(c)
BY DEF Next, Acts, Clients

LEMMA TypesKept ==
  ASSUME Types, [Next]_vars
  PROVE  Types'
<1> USE DEF Types
<1>1. CASE DaemonNext
  <2>1. UNCHANGED <<listVars, pageVars, panelVars>> BY <1>1, DaemonFrame
  <2>2. ListsOK' BY <2>1 DEF listVars, ListsOK
  <2> QED BY <1>1, <2>1, <2>2, DaemonKeeps, ScreensKept
<1>2. ASSUME UNCHANGED <<deviceVars, daemonVars, listVars, crew>> PROVE DeviceOK' /\ DaemonOK' /\ ListsOK'
  BY <1>2 DEF deviceVars, daemonVars, listVars, DeviceOK, DaemonOK, HandlersOK, QueueOK, SlotOK, AskedOK, ListsOK
<1>3. CASE UserCopies
  <2>1. ScreensOK' BY <1>3, EmptyFits DEF UserCopies, pageVars, ScreensOK
  <2> QED BY <1>2, <1>3, <2>1 DEF UserCopies, pageVars
<1>4. ASSUME NEW c \in Clients, Acts(c) PROVE Types'
  BY <1>4, ClientKeepsDaemon, ListSteps, ListsKept, ClientScreens
<1>5. CASE UNCHANGED vars BY <1>2, <1>5, ScreensKept DEF vars, pageVars
<1> QED BY <1>1, <1>3, <1>4, <1>5, NextSteps

LEMMA TypesHold == Spec => []Types
BY TypesStart, TypesKept, PTL DEF Spec

\* Every command in the queue is of a handler that waits for it or has left it behind,
\* each once; the slot is held by one that is still at work; answers go to whoever asked;
\* and what is shown or copied is a key.  (ble command queue, auth slot, key handlers)
THEOREM TypeCorrect == Spec => []TypeOK
<1>1. Types => TypeOK
  <2> SUFFICES ASSUME Types PROVE TypeOK OBVIOUS
  <2> USE DEF Types, DaemonOK
  <2>1. \A i \in Ids : (i \in Range(queue)) = (handler[i].at \in {"queued", "left"}) BY DEF QueueOK
  <2>2. slot # 0 => handler[slot].at \in {"queued", "awake", "left"} BY DEF SlotOK, Open
  <2> QED BY <2>1, <2>2 DEF TypeOK, DeviceOK, HandlersOK, QueueOK, SlotOK, AskedOK, ListsOK, ScreensOK
<1> QED BY <1>1, TypesHold, PTL

-----------------------------------------------------------------------------
(* How handlers go on *)

\* A handler keeps what it was asked for; a write's hit is the key it was asked to write.
Onward(h, g) ==
  /\ g.at # "unused" /\ g.by = h.by /\ g.op = h.op /\ g.cat = h.cat /\ g.name = h.name /\ g.idx = h.idx
  /\ h.op = "add" => g.hit \in {h.hit, h.name}
  /\ h.op = "delete" => g.hit \in {h.hit, Is(h.cat, h.idx)}
GoesOn(i) == handler'[i] = handler[i] \/ (handler[i].at # "unused" /\ Onward(handler[i], handler'[i]))

LEMMA OneGoesOn ==
  ASSUME DaemonOK, NEW i \in Ids, NEW h, Steps(i, h), handler[i].at # "unused", Onward(handler[i], h)
  PROVE  \A j \in Ids : GoesOn(j)
<1>1. handler'[i] = h /\ \A j \in Ids \ {i} : handler'[j] = handler[j] BY DEF Steps, DaemonOK, HandlersOK
<1> QED BY <1>1 DEF GoesOn

LEMMA FailedGoesOn ==
  ASSUME DaemonOK, NEW i, Fails(i)
  PROVE  \A j \in Ids : GoesOn(j)
<1> DEFINE h == [handler[i] EXCEPT !.at = "failed"]
<1>1. Steps(i, h) /\ Runs(i) BY DEF Fails
<1>2. i \in Ids /\ handler[i] \in Handlers /\ handler[i].at # "unused" BY <1>1, AtHead
<1>3. Onward(handler[i], h) BY <1>2 DEF Onward, Handlers
<1> QED BY <1>1, <1>2, <1>3, OneGoesOn

LEMMA RunGoesOn ==
  ASSUME DaemonOK, NEW i, Runs(i), NEW h \in Handlers, Steps(i, After(h)), h.by = handler[i].by,
         h.op = handler[i].op, h.cat = handler[i].cat, h.name = handler[i].name, h.idx = handler[i].idx,
         h.op = "add" => h.hit \in {handler[i].hit, h.name},
         h.op = "delete" => h.hit \in {handler[i].hit, Is(h.cat, h.idx)}
  PROVE  \A j \in Ids : GoesOn(j)
<1>1. i \in Ids /\ handler[i].at # "unused" BY AtHead
<1>2. /\ After(h).at \in {"awake", "ok"} /\ After(h).by = h.by /\ After(h).op = h.op /\ After(h).cat = h.cat
      /\ After(h).name = h.name /\ After(h).idx = h.idx /\ After(h).hit = h.hit
  BY DEF After, Handlers
<1>3. Onward(handler[i], After(h)) BY <1>2 DEF Onward
<1> QED BY <1>1, <1>3, OneGoesOn

LEMMA DaemonGoesOn ==
  ASSUME DaemonOK, DaemonNext
  PROVE  \A j \in Ids : GoesOn(j)
<1>0. UNCHANGED handler => \A j \in Ids : GoesOn(j) BY DEF GoesOn
<1>1. CASE CancelArrives
  BY <1>0, <1>1, FailedGoesOn DEF CancelArrives
<1>2. ASSUME NEW i \in Ids, Touched(i) PROVE \A j \in Ids : GoesOn(j)
  <2> DEFINE n == IF handler[i].op = "add" THEN handler[i].name ELSE Is(handler[i].cat, handler[i].idx)
             h == [handler[i] EXCEPT !.hit = n]
  <2>1. Runs(i) /\ Steps(i, After(h)) BY <1>2 DEF Touched
  <2>2. handler[i] \in Handlers BY <2>1, AtHead
  <2>3. /\ h.by = handler[i].by /\ h.op = handler[i].op /\ h.cat = handler[i].cat /\ h.name = handler[i].name
        /\ h.idx = handler[i].idx /\ h.hit = n /\ After(h).at \in {"awake", "ok"} /\ After(h).by = h.by
        /\ After(h).op = h.op /\ After(h).cat = h.cat
        /\ After(h).name = h.name /\ After(h).idx = h.idx /\ After(h).hit = h.hit
    BY <2>2 DEF Handlers, After
  <2>4. (h.op = "add" => h.hit = h.name) /\ (h.op = "delete" => h.hit = Is(h.cat, h.idx)) BY <2>3
  <2>5. Onward(handler[i], After(h)) BY <2>3, <2>4 DEF Onward
  <2>6. handler[i].at # "unused" BY <2>1, AtHead
  <2> QED BY <2>1, <2>5, <2>6, OneGoesOn
<1>3. ASSUME NEW i \in Ids, Refused(i) \/ ReadFails(i) PROVE \A j \in Ids : GoesOn(j)
  BY <1>3, FailedGoesOn DEF Refused, GateFails, ReadFails
<1>4. ASSUME NEW i \in Ids, FollowUp(i) PROVE \A j \in Ids : GoesOn(j)
  <2> DEFINE h == [handler[i] EXCEPT !.at = "queued"]
  <2>1. Steps(i, h) /\ handler[i].at = "awake" /\ handler[i] \in Handlers
    BY <1>4 DEF FollowUp, DaemonOK, HandlersOK
  <2>2. Onward(handler[i], h) BY <2>1 DEF Onward, Handlers
  <2> QED BY <2>1, <2>2, OneGoesOn
<1>5. ASSUME NEW i \in Ids, Syncs(i) \/ SyncFails(i) PROVE \A j \in Ids : GoesOn(j)
  <2>1. Runs(i) /\ Steps(i, After(handler[i])) BY <1>5 DEF Syncs, SyncFails
  <2>2. handler[i] \in Handlers BY <2>1, AtHead
  <2> QED BY <2>1, <2>2, RunGoesOn
<1>6. ASSUME NEW i \in Ids, ReadSecret(i) PROVE \A j \in Ids : GoesOn(j)
  <2> DEFINE h == [handler[i] EXCEPT !.hit = Is(handler[i].cat, handler[i].idx)]
  <2>1. Runs(i) /\ Steps(i, After(h)) /\ handler[i].op = "get" BY <1>6 DEF ReadSecret
  <2>2. handler[i] \in Handlers /\ handler[i].at # "unused" BY <2>1, AtHead
  <2>3. Onward(handler[i], After(h)) BY <2>1, <2>2 DEF Onward, Handlers, After
  <2> QED BY <2>1, <2>2, <2>3, OneGoesOn
<1>7. ASSUME NEW i \in Ids, ReadSignature(i) PROVE \A j \in Ids : GoesOn(j)
  <2> DEFINE h == [handler[i] EXCEPT !.sig = Append(@, result)]
  <2>1. Runs(i) /\ Steps(i, After(h)) /\ handler[i].op = "sign" BY <1>7 DEF ReadSignature
  <2>2. handler[i] \in Handlers /\ handler[i].at # "unused" BY <2>1, AtHead
  <2>3. Onward(handler[i], After(h)) BY <2>1, <2>2 DEF Onward, Handlers, After
  <2> QED BY <2>1, <2>2, <2>3, OneGoesOn
<1> QED BY <1>1, <1>2, <1>3, <1>4, <1>5, <1>6, <1>7 DEF DaemonNext

LEMMA LeavingGoesOn ==
  ASSUME DaemonOK, NEW g, NEW i \in Ids, Leaves(g, i)
  PROVE  \A j \in Ids : GoesOn(j)
<1> DEFINE h == [handler[i] EXCEPT !.at = "left"]
<1>1. Steps(i, h) /\ handler[i].at # "unused" /\ handler[i] \in Handlers
  BY DEF Leaves, DaemonOK, HandlersOK
<1>2. Onward(handler[i], h) BY <1>1 DEF Onward, Handlers
<1> QED BY <1>1, <1>2, OneGoesOn

-----------------------------------------------------------------------------
(* Imports *)

\* The names of an export are its own: each once, and nobody types one in.
FileApart == IsInjective(File) /\ \A k \in Cats : Range(File) \cap New[k] = {}

Prefix == \A i, j \in Ids : j < i /\ handler[i].at # "unused" => handler[j].at # "unused"
Writes == \A i \in Ids : handler[i].op = "add" => handler[i].hit \in {None, handler[i].name}

WrittenBy(j, n) == handler[j].op = "add" /\ handler[j].hit = n
Rest(x)         == SubSeq(File, x, Len(File))

\* A request to write an entry follows the writing of all entries before it.
Ordered ==
  \A i \in Ids : \A y \in DOMAIN File : handler[i].op = "add" /\ handler[i].name = File[y] =>
    \A z \in 1..y - 1 : \E j \in Ids : j < i /\ WrittenBy(j, File[z])

\* What an import has still to write is the rest of the file, after what was written;
\* it waits for one write at a time, of its next entry.
Underway(c) ==
  /\ \E x \in 1..Len(File) : /\ todo[c] = Rest(x)
                             /\ \A z \in 1..x - 1 : \E j \in Ids : WrittenBy(j, File[z])
  /\ \A i \in asked[c] : handler[i].op = "add" =>
       /\ handler[i].name = Head(todo[c])
       /\ \A j \in asked[c] : handler[j].op = "add" => j = i

ImportInv ==
  /\ Prefix /\ Writes /\ Ordered
  /\ \A c \in Clients : todo[c] # <<>> => Underway(c)

LEMMA WrittenStays ==
  ASSUME Types, Writes, NEW j \in Ids, GoesOn(j), NEW n \in Names, WrittenBy(j, n)
  PROVE  WrittenBy(j, n)'
<1>1. handler[j].hit = n /\ n # None /\ handler[j].op = "add" BY ConstantsAssumption DEF WrittenBy
<1>2. handler[j].name = n BY <1>1 DEF Writes
<1> QED BY <1>1, <1>2 DEF WrittenBy, GoesOn, Onward

LEMMA WritesOnward ==
  ASSUME Writes, \A j \in Ids : GoesOn(j)
  PROVE  Writes'
BY DEF Writes, GoesOn, Onward

LEMMA UnusedIs == ASSUME HandlersOK, NEW i \in Ids, handler[i].at = "unused" PROVE handler[i] = Unused
BY DEF HandlersOK, Fit

LEMMA UnusedOp == Unused.op = None /\ Unused.by = None /\ Unused.hit = None /\ Unused.at = "unused"
BY DEF Unused

LEMMA EntriesAre ==
  /\ File \in Seq(Names) /\ Len(File) \in Nat /\ DOMAIN File = 1..Len(File)
  /\ \A x \in 1..Len(File) : File[x] \in Names /\ File[x] \in Range(File)
  /\ \A x \in 1..Len(File) : \A z \in 1..x - 1 : z \in 1..Len(File)
<1>1. File \in Seq(Names) BY NamesAre
<1>2. Len(File) \in Nat /\ DOMAIN File = 1..Len(File) BY <1>1, InRange
<1>3. \A x \in 1..Len(File) : File[x] \in Names /\ File[x] \in Range(File) BY <1>1, <1>2, InRange
<1> QED BY <1>1, <1>2, <1>3

\* The daemon, or a signer that leaves, takes handlers on: what was written stays so.
LEMMA ImportOnward ==
  ASSUME Types, ImportInv, \A j \in Ids : GoesOn(j), UNCHANGED todo,
         asked' \in [Clients -> SUBSET Ids], \A d \in Clients : asked'[d] \subseteq asked[d]
  PROVE  ImportInv'
<1> USE DEF ImportInv
<1>0. HandlersOK BY DEF Types, DaemonOK
<1>1. Prefix' BY DEF Prefix, GoesOn, Onward
<1>2. Writes' BY WritesOnward
<1>3. ASSUME NEW y \in 1..Len(File), NEW z \in 1..y - 1, NEW j \in Ids, WrittenBy(j, File[z])
      PROVE  WrittenBy(j, File[z])'
  BY <1>3, EntriesAre, WrittenStays
<1>4. \A i \in Ids : handler'[i].op = handler[i].op /\ handler'[i].name = handler[i].name
  BY DEF GoesOn, Onward
<1>5. Ordered'
  <2> SUFFICES ASSUME NEW i \in Ids, NEW y \in DOMAIN File, handler'[i].op = "add", handler'[i].name = File[y],
                      NEW z \in 1..y - 1
               PROVE  \E j \in Ids : j < i /\ WrittenBy(j, File[z])'
    BY Zenon DEF Ordered
  <2>1. PICK j \in Ids : j < i /\ WrittenBy(j, File[z]) BY <1>4 DEF Ordered
  <2> QED BY <1>3, <2>1, EntriesAre
<1>6. ASSUME NEW c \in Clients, todo'[c] # <<>> PROVE Underway(c)'
  <2>1. Underway(c) BY <1>6
  <2>2. PICK x \in 1..Len(File) : todo[c] = Rest(x) /\ \A z \in 1..x - 1 : \E j \in Ids : WrittenBy(j, File[z])
    BY <2>1 DEF Underway
  <2>3. \A z \in 1..x - 1 : \E j \in Ids : WrittenBy(j, File[z])' BY <1>3, <2>2
  <2>4. \A i \in asked'[c] : i \in asked[c] /\ i \in Ids OBVIOUS
  <2> QED BY <1>4, <2>1, <2>2, <2>3, <2>4 DEF Underway
<1> QED BY <1>1, <1>2, <1>5, <1>6

LEMMA ImportAsks ==
  ASSUME FileApart, Types, ImportInv, NEW c \in Clients, AsksFor(c), UNCHANGED todo
  PROVE  ImportInv'
<1> USE DEF ImportInv
<1>0. HandlersOK /\ AskedOK BY DEF Types, DaemonOK
<1>1. PICK i \in Ids, h \in Handlers : Enters(i, h) /\ Waits(c, i) /\ RequestOf(c, h) BY DEF AsksFor
<1>2. /\ handler[i].at = "unused" /\ (\A j \in Ids : j < i => handler[j].at # "unused")
      /\ handler' = [handler EXCEPT ![i] = h]
  <2>1. \A j \in Ids : j < i => j \in 1..i - 1 BY DEF Ids
  <2> QED BY <1>1, <2>1 DEF Enters, Fresh
<1>3. handler'[i] = h /\ \A j \in Ids \ {i} : handler'[j] = handler[j] BY <1>0, <1>2 DEF HandlersOK
<1>4. handler[i].op = None /\ handler[i].by = None /\ handler[i].hit = None BY <1>0, <1>2, UnusedIs, UnusedOp
<1>5. h.hit = None /\ h.at # "unused" BY <1>1 DEF RequestOf
<1>6. ASSUME NEW j \in Ids, NEW n, WrittenBy(j, n) PROVE WrittenBy(j, n)'
  <2>1. j # i BY <1>4, <1>6, ConstantsAssumption DEF WrittenBy, Ops
  <2> QED BY <1>3, <1>6, <2>1 DEF WrittenBy
<1>7. \A d \in Clients : i \notin asked[d] BY <1>0, <1>4, ConstantsAssumption DEF AskedOK
<1>8. /\ asked'[c] = asked[c] \cup {i} /\ \A d \in Clients \ {c} : asked'[d] = asked[d]
      /\ \A d \in Clients : asked[d] \subseteq Ids
  BY <1>0, <1>1 DEF Waits, AskedOK
<1>9. Prefix'
  <2> SUFFICES ASSUME NEW a \in Ids, NEW b \in Ids, b < a, handler'[a].at # "unused"
               PROVE  handler'[b].at # "unused"
    BY DEF Prefix
  <2>1. CASE a = i BY <1>2, <1>3, <2>1, IdsAre
  <2>2. CASE a # i /\ b # i BY <1>3, <2>2 DEF Prefix
  <2>3. CASE b = i BY <1>3, <1>5, <2>3
  <2> QED BY <2>1, <2>2, <2>3
<1>10. Writes' BY <1>3, <1>5 DEF Writes
<1>11. ASSUME h.op = "add", NEW y \in DOMAIN File, h.name = File[y]
       PROVE  /\ todo[c] # <<>> /\ asked[c] = {} /\ h.name = Head(todo[c])
              /\ \A z \in 1..y - 1 : \E j \in Ids : j < i /\ WrittenBy(j, File[z])
  <2>1. h.name \in Range(File) BY <1>11, EntriesAre
  <2>2. h.cat \in Cats BY <1>1, <1>5 DEF RequestOf, Fit
  <2>3. todo[c] # <<>> /\ asked[c] = {} /\ h.name = Head(todo[c])
    BY <1>1, <1>11, <2>1, <2>2 DEF RequestOf, FileApart
  <2>4. PICK x \in 1..Len(File) : todo[c] = Rest(x) /\ \A z \in 1..x - 1 : \E j \in Ids : WrittenBy(j, File[z])
    BY <2>3 DEF Underway
  <2>5. Head(todo[c]) = File[x]
    <3>1. Len(File) \in x..Len(File) BY EntriesAre
    <3> QED BY <2>4, <3>1, EntriesAre, HeadTailOfSubSeq DEF Rest
  <2>6. x = y BY <1>11, <2>3, <2>5, EntriesAre DEF FileApart, IsInjective
  <2>7. ASSUME NEW j \in Ids, NEW n, WrittenBy(j, n), n # None PROVE j < i
    <3>1. handler[j].at # "unused" /\ j # i BY <1>0, <1>4, <2>7, UnusedIs, UnusedOp DEF WrittenBy
    <3>2. ~ i < j BY <1>2, <3>1 DEF Prefix
    <3> QED BY <3>1, <3>2, IdsAre
  <2>8. \A z \in 1..x - 1 : File[z] # None BY EntriesAre, ConstantsAssumption
  <2> QED BY <2>3, <2>4, <2>6, <2>7, <2>8
<1>12. Ordered'
  <2> SUFFICES ASSUME NEW a \in Ids, NEW y \in DOMAIN File, handler'[a].op = "add", handler'[a].name = File[y],
                      NEW z \in 1..y - 1
               PROVE  \E j \in Ids : j < a /\ WrittenBy(j, File[z])'
    BY Zenon DEF Ordered
  <2>1. CASE a = i BY <1>3, <1>6, <1>11, <2>1
  <2>2. CASE a # i
    <3>1. PICK j \in Ids : j < a /\ WrittenBy(j, File[z]) BY <1>3, <2>2 DEF Ordered
    <3> QED BY <1>6, <3>1
  <2> QED BY <2>1, <2>2
<1>13. ASSUME NEW d \in Clients, todo'[d] # <<>> PROVE Underway(d)'
  <2>1. Underway(d) /\ todo[d] # <<>> BY <1>13
  <2>2. PICK x \in 1..Len(File) : todo[d] = Rest(x) /\ \A z \in 1..x - 1 : \E j \in Ids : WrittenBy(j, File[z])
    BY <2>1 DEF Underway
  <2>3. \A z \in 1..x - 1 : \E j \in Ids : WrittenBy(j, File[z])' BY <1>6, <2>2
  <2>4. CASE d # c BY <1>3, <1>7, <1>8, <2>1, <2>2, <2>3, <2>4 DEF Underway
  <2>5. CASE d = c /\ h.op # "add"
    <3>1. \A a \in asked'[c] : handler'[a].op = "add" => a \in asked[c] /\ handler'[a] = handler[a]
      BY <1>3, <1>7, <1>8, <2>5
    <3> QED BY <2>1, <2>2, <2>3, <2>5, <3>1 DEF Underway
  <2>6. CASE d = c /\ h.op = "add"
    <3>1. asked[c] = {} /\ h.name = Head(todo[c]) BY <1>1, <2>1, <2>6 DEF RequestOf
    <3>2. asked'[c] = {i} BY <1>8, <3>1
    <3> QED BY <1>3, <2>2, <2>3, <2>6, <3>1, <3>2 DEF Underway
  <2> QED BY <2>4, <2>5, <2>6
<1> QED BY <1>9, <1>10, <1>12, <1>13

\* An import starts with the whole file, and goes on after an entry that was written.
LEMMA ImportSteps ==
  ASSUME Types, ImportInv, NEW c \in Clients, TodoStep(c), todo' # todo
  PROVE  ImportInv'
<1> USE DEF ImportInv
<1>0. HandlersOK /\ AskedOK /\ ListsOK BY DEF Types, DaemonOK
<1>1. UNCHANGED handler BY DEF TodoStep
<1>2. Prefix' /\ Writes' /\ Ordered' BY <1>1 DEF Prefix, Writes, Ordered, WrittenBy
<1>3. /\ \A d \in Clients \ {c} : todo'[d] = todo[d] /\ asked'[d] = asked[d]
      /\ asked'[c] \subseteq asked[c]
  BY <1>0 DEF TodoStep, Hears, ListsOK, AskedOK
<1>4. ASSUME NEW d \in Clients \ {c}, todo'[d] # <<>> PROVE Underway(d)'
  <2>1. Underway(d) /\ todo'[d] = todo[d] /\ asked'[d] = asked[d] BY <1>3, <1>4
  <2> QED BY <1>1, <2>1 DEF Underway, WrittenBy
<1>5. ASSUME todo'[c] # <<>> PROVE Underway(c)'
  <2>1. CASE /\ todo' = [todo EXCEPT ![c] = File] /\ UNCHANGED asked /\ \A i \in asked[c] : handler[i].op # "add"
    <3>1. todo'[c] = File /\ asked'[c] = asked[c] BY <1>0, <2>1 DEF ListsOK
    <3>2. Len(File) # 0 BY <1>5, <3>1, EntriesAre, EmptySeq
    <3>3. 1 \in 1..Len(File) /\ 1..1 - 1 = {} BY <3>2, EntriesAre
    <3>4. File = Rest(1) BY EntriesAre, SubSeqFull DEF Rest
    <3> QED BY <1>1, <2>1, <3>1, <3>3, <3>4 DEF Underway
  <2>2. ASSUME NEW i \in asked[c], Importing(c, i), Hears(c, i), handler[i].at = "ok",
               todo' = [todo EXCEPT ![c] = Tail(@)]
        PROVE  Underway(c)'
    <3>1. /\ todo[c] # <<>> /\ handler[i].op = "add" /\ i \in Ids /\ todo'[c] = Tail(todo[c])
          /\ asked'[c] = asked[c] \ {i}
      BY <1>0, <2>2 DEF Importing, Hears, AskedOK, ListsOK
    <3>2. /\ Underway(c) /\ handler[i].name = Head(todo[c])
          /\ \A j \in asked[c] : handler[j].op = "add" => j = i
      BY <3>1 DEF Underway
    <3>3. PICK x \in 1..Len(File) : todo[c] = Rest(x) /\ \A z \in 1..x - 1 : \E j \in Ids : WrittenBy(j, File[z])
      BY <3>2 DEF Underway
    <3>4. Head(todo[c]) = File[x] /\ Tail(todo[c]) = Rest(x + 1)
      <4>1. Len(File) \in x..Len(File) BY EntriesAre
      <4> QED BY <3>3, <4>1, EntriesAre, HeadTailOfSubSeq DEF Rest
    <3>5. WrittenBy(i, File[x])
      <4>1. handler[i].hit # None BY <1>0, <2>2, <3>1 DEF HandlersOK, Fit
      <4> QED BY <3>1, <3>2, <3>4, <4>1 DEF Writes, WrittenBy
    <3>6. x + 1 \in 1..Len(File)
      <4>1. CASE x = Len(File)
        <5>1. Len(File) \in Int /\ x + 1 \in Int /\ Len(File) < x + 1 BY <4>1, EntriesAre
        <5>2. Rest(x + 1) = <<>> BY <5>1, SubSeqEmpty DEF Rest
        <5> QED BY <1>5, <3>1, <3>4, <5>2, Zenon
      <4>2. \A n \in Nat : \A a \in 1..n : a # n => a + 1 \in 1..n OBVIOUS
      <4>3. CASE x # Len(File) BY <4>2, <4>3, EntriesAre
      <4> QED BY <4>1, <4>3
    <3>7. \A z \in 1..(x + 1) - 1 : \E j \in Ids : WrittenBy(j, File[z])
      <4>1. \A z \in 1..(x + 1) - 1 : z = x \/ z \in 1..x - 1 BY EntriesAre
      <4> QED BY <3>1, <3>3, <3>5, <4>1
    <3>8. \A j \in asked'[c] : handler[j].op # "add" BY <3>1, <3>2
    <3> DEFINE y == x + 1
    <3>9. y \in 1..Len(File) /\ todo'[c] = Rest(y) /\ \A z \in 1..y - 1 : \E j \in Ids : WrittenBy(j, File[z])'
      BY <1>1, <3>1, <3>4, <3>6, <3>7 DEF WrittenBy
    <3> HIDE DEF y
    <3> QED BY <1>1, <3>8, <3>9 DEF Underway
  <2>3. CASE todo' = [todo EXCEPT ![c] = <<>>] BY <1>0, <1>5, <2>3 DEF ListsOK
  <2> QED BY <2>1, <2>2, <2>3 DEF TodoStep
<1> QED BY <1>2, <1>4, <1>5

\* What was written of an export is its beginning, in its order, whichever entry failed
\* or timed out and whatever other clients, any number of them, did in between.  An
\* entry is asked for after the answer to the one before it.  (import_otp, key import)
THEOREM ImportsKeepOrder == ASSUME FileApart PROVE Spec => []ImportsInOrder
<1>1. Init => ImportInv
  <2> SUFFICES ASSUME Init PROVE ImportInv OBVIOUS
  <2>1. \A i \in Ids : handler[i].op = None /\ handler[i].at = "unused" BY UnusedOp DEF Init
  <2>2. \A c \in Clients : todo[c] = <<>> BY DEF Init
  <2>3. None # "add" BY ConstantsAssumption DEF Ops
  <2> QED BY <2>1, <2>2, <2>3 DEF ImportInv, Prefix, Writes, Ordered
<1>2. Types /\ ImportInv /\ [Next]_vars => ImportInv'
  <2> SUFFICES ASSUME Types, ImportInv, [Next]_vars PROVE ImportInv'
    OBVIOUS
  <2>0. /\ asked \in [Clients -> SUBSET Ids] /\ DeviceOK /\ DaemonOK /\ ListsOK
    BY DEF Types, DaemonOK, AskedOK
  <2>1. CASE DaemonNext
    <3>1. UNCHANGED <<asked, todo>> BY <2>1, DaemonFrame DEF listVars
    <3> QED BY <2>0, <2>1, <3>1, DaemonGoesOn, ImportOnward
  <2>2. ASSUME UNCHANGED <<handler, asked, todo>> PROVE ImportInv'
    <3>1. \A j \in Ids : GoesOn(j) BY <2>2 DEF GoesOn
    <3> QED BY <2>0, <2>2, <3>1, ImportOnward
  <2>3. CASE UserCopies \/ UNCHANGED vars
    BY <2>2, <2>3 DEF UserCopies, vars, daemonVars, listVars
  <2>4. ASSUME NEW c \in Clients, Acts(c) PROVE ImportInv'
    <3>1. TodoStep(c) BY <2>0, <2>4, ListSteps
    <3>2. CASE todo' # todo BY <3>1, <3>2, ImportSteps
    <3>3. CASE UNCHANGED todo
      <4>1. CASE AsksFor(c) BY <3>3, <4>1, ImportAsks
      <4>2. CASE Quiet(c)
        <5>1. /\ asked' \in [Clients -> SUBSET Ids] /\ \A d \in Clients : asked'[d] \subseteq asked[d]
          BY <2>0, <4>2 DEF Quiet, Hears
        <5>2. \A j \in Ids : GoesOn(j) BY <4>2 DEF Quiet, GoesOn
        <5> QED BY <3>3, <5>1, <5>2, ImportOnward
      <4>3. ASSUME NEW i \in Ids, Leaves(c, i) PROVE ImportInv'
        <5>1. /\ asked' \in [Clients -> SUBSET Ids] /\ \A d \in Clients : asked'[d] \subseteq asked[d]
          BY <2>0, <4>3 DEF Leaves, Hears
        <5>2. \A j \in Ids : GoesOn(j) BY <2>0, <4>3, LeavingGoesOn
        <5> QED BY <3>3, <5>1, <5>2, ImportOnward
      <4> QED BY <2>0, <2>4, <4>1, <4>2, <4>3, ClientSteps
    <3> QED BY <3>2, <3>3
  <2> QED BY <2>1, <2>3, <2>4, NextSteps
<1>3. Types /\ ImportInv => ImportsInOrder
  <2> SUFFICES ASSUME Types, ImportInv, NEW i \in Ids, NEW y \in DOMAIN File, handler[i].hit = File[y],
                      handler[i].op = "add", NEW z \in 1..y - 1
               PROVE  \E j \in 1..i - 1 : handler[j].op = "add" /\ handler[j].hit = File[z]
    BY Zenon DEF ImportsInOrder
  <2>1. handler[i].name = File[y] BY EntriesAre, ConstantsAssumption DEF ImportInv, Writes
  <2>2. PICK j \in Ids : j < i /\ WrittenBy(j, File[z]) BY <2>1 DEF ImportInv, Ordered
  <2>3. j \in 1..i - 1 BY <2>2 DEF Ids
  <2> QED BY <2>2, <2>3 DEF WrittenBy
<1> QED BY <1>1, <1>2, <1>3, TypesHold, PTL DEF Spec

-----------------------------------------------------------------------------
(* Signatures *)

\* One connection to the agent, and nobody deletes the keys it signs with.
OneSigner   == \A g, h \in Signers : g = h
SshKeysStay == \A c \in Clients : "ssh" \notin Deletable[c]

Begins(s, t) == \A x \in 1..Len(s) : x \in 1..Len(t) /\ t[x] = s[x]

Own(i)      == [key |-> handler[i].name, of |-> i]
Signing(i)  == handler[i].op = "sign" /\ handler[i].at \in {"queued", "awake"}
PastGate(i) == Signing(i) /\ handler[i].more # 3
NoneLeft    == \A j \in Ids : handler[j].at # "left"
AtKey(i)    == handler[i].idx + 1 \in 1..Len(keys["ssh"]) /\ keys["ssh"][handler[i].idx + 1] = handler[i].name

\* The agent's connection waits for whoever signs, one at a time; who has left its gate
\* is still in the queue, ahead of it; and past its gate nobody is ahead and what the
\* device holds is its own.
KeysOK   == Begins(cache["ssh"], keys["ssh"])
AskedFor ==
  \A i \in Ids : /\ handler[i].op = "delete" => handler[i].cat # "ssh"
                 /\ handler[i].op = "sign" => handler[i].cat = "ssh"
OneAsked == \A g \in Signers : \A i, j \in asked[g] : i = j
AtWork   == \A i \in Ids : Signing(i) => AtKey(i) /\ i \in asked[handler[i].by]
Results  == \A i \in Ids : PastGate(i) => result = Own(i) /\ NoneLeft
Parts    == \A i \in Ids : handler[i].op = "sign" => \A x \in DOMAIN handler[i].sig : handler[i].sig[x] = Own(i)
InTurn   == \A x, y \in DOMAIN queue : handler[queue[x]].at = "left" /\ Signing(queue[y]) => x < y

SignInv == KeysOK /\ AskedFor /\ OneAsked /\ AtWork /\ Results /\ Parts /\ InTurn

\* With one connection, who signs is one.
LEMMA OneSigns ==
  ASSUME OneSigner, Types, SignInv, NEW i \in Ids, NEW j \in Ids, Signing(i), Signing(j)
  PROVE  i = j /\ handler[i].by \in Signers
<1>1. handler[i].by \in Signers /\ handler[j].by \in Signers
  BY DEF Signing, Types, DaemonOK, HandlersOK, Fit
<1> QED BY <1>1 DEF OneSigner, SignInv, OneAsked, AtWork

LEMMA KeyStays ==
  ASSUME NEW i, AtKey(i), Begins(keys["ssh"], keys'["ssh"]), handler'[i].idx = handler[i].idx,
         handler'[i].name = handler[i].name
  PROVE  AtKey(i)'
BY DEF AtKey, Begins

LEMMA BeginsSame == \A s : Begins(s, s)
BY DEF Begins

LEMMA BeginsOn == \A s, t, u : Begins(s, t) /\ Begins(t, u) => Begins(s, u)
BY DEF Begins

\* The worker has run the head command of i, whose handler is now h.
LEMMA RunSigns ==
  ASSUME OneSigner, Types, SignInv, NEW i \in Ids, Runs(i), NEW h, Steps(i, h),
         h.at \in {"awake", "ok", "failed"}, h.at = "awake" => handler[i].at = "queued",
         h.by = handler[i].by, h.op = handler[i].op, h.cat = handler[i].cat, h.name = handler[i].name,
         h.idx = handler[i].idx, UNCHANGED asked,
         Begins(keys["ssh"], keys'["ssh"]), Begins(cache'["ssh"], keys'["ssh"]),
         result' = result \/ (handler[i].op = "sign" /\ GateOf(i)),
         h.op = "sign" /\ h.at = "awake" => result' = Own(i),
         h.op = "sign" => \A x \in DOMAIN h.sig : h.sig[x] = Own(i)
  PROVE  SignInv'
<1> USE DEF SignInv
<1>0. HandlersOK /\ QueueOK BY DEF Types, DaemonOK
<1>1. handler'[i] = h /\ \A j \in Ids \ {i} : handler'[j] = handler[j] BY <1>0 DEF Steps, HandlersOK
<1>2. /\ queue # <<>> /\ queue[1] = i /\ 1 \in DOMAIN queue /\ handler[i].at \in {"queued", "left"}
      /\ DOMAIN queue = 1..Len(queue) /\ Len(queue) \in Nat \ {0}
      /\ DOMAIN queue' = 1..Len(queue) - 1
      /\ \A x \in DOMAIN queue' : x + 1 \in DOMAIN queue /\ queue'[x] = queue[x + 1]
      /\ \A x \in DOMAIN queue : queue[x] \in Ids
  <2>1. queue \in Seq(Ids) /\ queue # <<>> /\ Head(queue) = i /\ queue' = Tail(queue) BY <1>0 DEF Runs, QueueOK
  <2>2. handler[i].at \in {"queued", "left"} BY AtHead DEF Types
  <2> QED BY <2>1, <2>2, Served, InRange
<1>3. ASSUME NEW j \in Ids, Signing(j)' PROVE Signing(j)
  BY <1>1, <1>2, <1>3 DEF Signing
<1>4. \A j \in Ids : Own(j)' = Own(j) /\ handler'[j].by = handler[j].by /\ handler'[j].idx = handler[j].idx
                     /\ handler'[j].name = handler[j].name
  BY <1>1 DEF Own
<1>5. KeysOK' BY DEF KeysOK
<1>6. AskedFor' BY <1>1 DEF AskedFor
<1>7. OneAsked' BY DEF OneAsked
<1>8. AtWork' BY <1>3, <1>4, KeyStays DEF AtWork
<1>9. Results'
  <2> SUFFICES ASSUME NEW j \in Ids, PastGate(j)' PROVE result' = Own(j) /\ NoneLeft'
    BY <1>4 DEF Results
  <2>1. CASE j = i
    <3>1. h.at = "awake" /\ h.op = "sign" /\ handler[i].at = "queued"
      BY <1>1, <2>1 DEF PastGate, Signing
    <3>2. Signing(i) BY <3>1 DEF Signing
    <3>3. NoneLeft
      <4>1. CASE PastGate(i) BY <4>1 DEF Results
      <4>2. CASE ~PastGate(i)
        <5>1. ASSUME NEW k \in Ids, handler[k].at = "left" PROVE FALSE
          <6>1. k \in Range(queue) BY <1>0, <5>1 DEF QueueOK
          <6>2. PICK x \in DOMAIN queue : queue[x] = k BY <6>1 DEF Range
          <6>3. x < 1 BY <1>2, <3>2, <5>1, <6>2 DEF InTurn
          <6> QED BY <1>2, <6>3
        <5> QED BY <5>1 DEF NoneLeft
      <4> QED BY <4>1, <4>2
    <3>4. NoneLeft' BY <1>1, <3>1, <3>3 DEF NoneLeft
    <3> QED BY <2>1, <3>1, <3>4
  <2>2. CASE j # i
    <3>1. PastGate(j) BY <1>1, <2>2 DEF PastGate, Signing
    <3>2. result = Own(j) /\ NoneLeft /\ Signing(j) BY <3>1 DEF Results, PastGate
    <3>3. result' = result
      <4> SUFFICES ASSUME handler[i].op = "sign" PROVE FALSE OBVIOUS
      <4>1. Signing(i) BY <1>2, <3>2 DEF Signing, NoneLeft
      <4> QED BY <2>2, <3>2, <4>1, OneSigns
    <3>4. NoneLeft' BY <1>1, <3>2 DEF NoneLeft
    <3> QED BY <3>2, <3>3, <3>4
  <2> QED BY <2>1, <2>2
<1>10. Parts' BY <1>1, <1>4 DEF Parts
<1>11. InTurn'
  <2> SUFFICES ASSUME NEW x \in DOMAIN queue', NEW y \in DOMAIN queue', handler'[queue'[x]].at = "left",
                      handler'[queue'[y]].op = "sign", handler'[queue'[y]].at \in {"queued", "awake"}
               PROVE  x < y
    BY Zenon DEF InTurn, Signing
  <2>1. queue'[x] = queue[x + 1] /\ queue'[y] = queue[y + 1] /\ x + 1 \in DOMAIN queue /\ y + 1 \in DOMAIN queue
    BY <1>2
  <2>2. queue[x + 1] \in Ids /\ queue[y + 1] \in Ids BY <1>2, <2>1
  <2>3. handler[queue[x + 1]].at = "left" BY <1>1, <2>1, <2>2
  <2>4. Signing(queue[y + 1])
    <3>1. PICK j \in Ids : j = queue[y + 1] BY <2>2
    <3>2. Signing(j)' BY <2>1, <3>1 DEF Signing
    <3> QED BY <1>3, <3>1, <3>2
  <2>5. x + 1 < y + 1 BY <2>1, <2>3, <2>4 DEF InTurn
  <2> QED BY <1>2, <2>5
<1> QED BY <1>5, <1>6, <1>7, <1>8, <1>9, <1>10, <1>11

LEMMA SshGrows ==
  ASSUME Types, SignInv, NEW i \in Ids, Touched(i)
  PROVE  Begins(keys["ssh"], keys'["ssh"]) /\ Begins(cache'["ssh"], keys'["ssh"])
<1>1. "ssh" \in Cats /\ keys \in [Cats -> Seq(Names)] BY ConstantsAssumption DEF Types, DeviceOK
<1>2. Runs(i) /\ cache' = cache BY DEF Touched
<1>3. handler[i].cat \in Cats /\ handler[i].name \in Names /\ handler[i].op \in Ops
  BY <1>2, AtHead DEF Types
<1>4. Begins(keys["ssh"], keys'["ssh"])
  <2>1. CASE handler[i].op = "add"
    <3>1. keys' = [keys EXCEPT ![handler[i].cat] = Append(@, handler[i].name)] BY <2>1 DEF Touched
    <3>2. CASE handler[i].cat = "ssh"
      <4>1. keys'["ssh"] = Append(keys["ssh"], handler[i].name) BY <1>1, <3>1, <3>2
      <4>2. Begins(keys["ssh"], Append(keys["ssh"], handler[i].name))
        <5> DEFINE s == keys["ssh"]
                   n == handler[i].name
        <5>1. s \in Seq(Names) /\ n \in Names BY <1>1, <1>3
        <5> HIDE DEF s, n
        <5>2. /\ Len(Append(s, n)) = Len(s) + 1 /\ Len(s) \in Nat /\ DOMAIN s = 1..Len(s)
              /\ \A x \in DOMAIN s : Append(s, n)[x] = s[x]
          BY <5>1, Appended
        <5>3. Begins(s, Append(s, n)) BY <5>2 DEF Begins
        <5> QED BY <5>3 DEF s, n
      <4> QED BY <4>1, <4>2
    <3>3. CASE handler[i].cat # "ssh"
      <4>1. keys'["ssh"] = keys["ssh"] BY <1>1, <3>1, <3>3
      <4> QED BY <4>1, BeginsSame
    <3> QED BY <3>2, <3>3
  <2>2. CASE handler[i].op = "delete"
    <3>1. keys' = [keys EXCEPT ![handler[i].cat] = RemoveAt(@, handler[i].idx + 1)] BY <2>2 DEF Touched
    <3>2. handler[i].cat # "ssh" BY <2>2 DEF SignInv, AskedFor
    <3>3. keys'["ssh"] = keys["ssh"] BY <1>1, <3>1, <3>2
    <3> QED BY <3>3, BeginsSame
  <2>3. CASE handler[i].op \in {"sign", "get"}
    <3>1. keys' = keys BY <2>3 DEF Touched, deviceVars
    <3> QED BY <3>1, BeginsSame
  <2> QED BY <1>3, <2>1, <2>2, <2>3 DEF Ops
<1> QED BY <1>2, <1>4, BeginsOn DEF SignInv, KeysOK

\* At its gate whoever still waits to sign is signed for, with the key it named.
LEMMA TouchedSigns ==
  ASSUME OneSigner, Types, SignInv, NEW i \in Ids, Touched(i)
  PROVE  SignInv'
<1> DEFINE n == IF handler[i].op = "add" THEN handler[i].name ELSE Is(handler[i].cat, handler[i].idx)
           h == After([handler[i] EXCEPT !.hit = n])
<1>1. Runs(i) /\ GateOf(i) /\ Steps(i, h) /\ UNCHANGED asked BY DEF Touched, listVars
<1>2. /\ handler[i] \in Handlers /\ Fit(handler[i]) /\ handler[i].at \in {"queued", "left"} /\ handler[i].op \in Ops
  BY <1>1, AtHead DEF Types
<1>3. /\ h.by = handler[i].by /\ h.op = handler[i].op /\ h.cat = handler[i].cat /\ h.name = handler[i].name
      /\ h.idx = handler[i].idx /\ h.sig = handler[i].sig /\ h.at \in {"awake", "ok", "failed"}
      /\ (h.at = "awake" => handler[i].at = "queued")
  BY <1>2 DEF After, Handlers
<1>4. handler[i].op = "sign" => result' = [key |-> Is(handler[i].cat, handler[i].idx), of |-> i]
  BY DEF Touched
<1>5. handler[i].op # "sign" => result' = result BY <1>2 DEF Touched, deviceVars, Ops
<1>6. ASSUME h.op = "sign", h.at = "awake" PROVE result' = Own(i)
  <2>1. Signing(i) BY <1>3, <1>6 DEF Signing
  <2>2. AtKey(i) BY <2>1 DEF SignInv, AtWork
  <2>3. handler[i].cat = "ssh" BY <2>1 DEF SignInv, AskedFor, Signing
  <2>4. Is("ssh", handler[i].idx) = handler[i].name
    <3>1. keys["ssh"] \in Seq(Names) BY ConstantsAssumption DEF Types, DeviceOK
    <3>2. Len(keys["ssh"]) \in Nat BY <3>1, InRange
    <3>3. handler[i].idx \in Nat BY <1>2 DEF Handlers
    <3>4. handler[i].idx < Len(keys["ssh"]) BY <2>2, <3>2, <3>3 DEF AtKey
    <3> QED BY <2>2, <3>4 DEF AtKey, Is
  <2> QED BY <1>3, <1>4, <1>6, <2>3, <2>4 DEF Own
<1>7. h.op = "sign" => \A x \in DOMAIN h.sig : h.sig[x] = Own(i) BY <1>3 DEF SignInv, Parts
<1>8. Begins(keys["ssh"], keys'["ssh"]) /\ Begins(cache'["ssh"], keys'["ssh"]) BY SshGrows
<1> HIDE DEF h
<1>9. result' = result \/ (handler[i].op = "sign" /\ GateOf(i)) BY <1>1, <1>5
<1> QED BY <1>1, <1>3, <1>6, <1>7, <1>8, <1>9, RunSigns

LEMMA FailedSigns ==
  ASSUME OneSigner, Types, SignInv, NEW i, Fails(i), UNCHANGED asked
  PROVE  SignInv'
<1> DEFINE h == [handler[i] EXCEPT !.at = "failed"]
<1>1. Runs(i) /\ Steps(i, h) /\ UNCHANGED <<deviceVars, cache>> BY DEF Fails
<1>2. i \in Ids /\ handler[i] \in Handlers BY <1>1, AtHead DEF Types
<1>3. /\ h.by = handler[i].by /\ h.op = handler[i].op /\ h.cat = handler[i].cat /\ h.name = handler[i].name
      /\ h.idx = handler[i].idx /\ h.sig = handler[i].sig /\ h.at = "failed"
  BY <1>2 DEF Handlers
<1> HIDE DEF h
<1>4. h.op = "sign" => \A x \in DOMAIN h.sig : h.sig[x] = Own(i) BY <1>2, <1>3 DEF SignInv, Parts
<1>5. Begins(keys["ssh"], keys'["ssh"]) /\ Begins(cache'["ssh"], keys'["ssh"]) /\ result' = result
  BY <1>1, BeginsSame DEF deviceVars, SignInv, KeysOK
<1> QED BY <1>1, <1>2, <1>3, <1>4, <1>5, RunSigns

\* A read or a sync leaves what the device signed.
LEMMA ReadSigns ==
  ASSUME OneSigner, Types, SignInv, NEW i, Runs(i), NEW g \in Handlers, Steps(i, After(g)), g.op # "sign",
         g.at = handler[i].at, g.by = handler[i].by, g.op = handler[i].op, g.cat = handler[i].cat,
         g.name = handler[i].name, g.idx = handler[i].idx, UNCHANGED <<deviceVars, asked>>,
         cache' \in {cache, keys, [cache EXCEPT !["ssh"] = keys["ssh"]]}
  PROVE  SignInv'
<1>1. i \in Ids /\ handler[i].at \in {"queued", "left"} BY AtHead DEF Types
<1> DEFINE h == After(g)
<1>2. /\ h.by = g.by /\ h.op = g.op /\ h.cat = g.cat /\ h.name = g.name /\ h.idx = g.idx
      /\ h.at \in {"awake", "ok", "failed"} /\ (h.at = "awake" => g.at = "queued")
  BY <1>1 DEF After, Handlers
<1> HIDE DEF h
<1>3. Steps(i, h) BY DEF h
<1>4. cache'["ssh"] \in {cache["ssh"], keys["ssh"]} /\ keys' = keys /\ result' = result
  BY ConstantsAssumption DEF deviceVars, Types, DeviceOK
<1>5. Begins(keys["ssh"], keys'["ssh"]) /\ Begins(cache'["ssh"], keys'["ssh"])
  BY <1>4, BeginsSame DEF SignInv, KeysOK
<1> QED BY <1>1, <1>2, <1>3, <1>4, <1>5, RunSigns

LEMMA SignatureRead ==
  ASSUME OneSigner, Types, SignInv, NEW i \in Ids, ReadSignature(i)
  PROVE  SignInv'
<1> DEFINE g == [handler[i] EXCEPT !.sig = Append(@, result)]
           h == After(g)
<1>1. /\ Runs(i) /\ ~GateOf(i) /\ handler[i].op = "sign" /\ Steps(i, h) /\ result # None
      /\ UNCHANGED <<deviceVars, cache, asked>>
  BY DEF ReadSignature, listVars
<1>2. /\ handler[i] \in Handlers /\ Fit(handler[i]) /\ handler[i].at \in {"queued", "left"}
  BY <1>1, AtHead DEF Types
<1>3. /\ h.by = handler[i].by /\ h.op = handler[i].op /\ h.cat = handler[i].cat /\ h.name = handler[i].name
      /\ h.idx = handler[i].idx /\ h.sig = Append(handler[i].sig, result) /\ h.at \in {"awake", "ok", "failed"}
      /\ (h.at = "awake" => handler[i].at = "queued")
  BY <1>2 DEF After, Handlers
<1>4. PastGate(i)
  <2>1. handler[i].more # 3 BY <1>1 DEF GateOf, Commands
  <2>2. handler[i].at = "queued" BY <1>2, <2>1 DEF Fit
  <2> QED BY <1>1, <2>1, <2>2 DEF PastGate, Signing
<1>5. result = Own(i) /\ result' = result BY <1>1, <1>4 DEF SignInv, Results, deviceVars
<1>6. \A x \in DOMAIN h.sig : h.sig[x] = Own(i)
  <2>1. handler[i].sig \in Seq(Signature) /\ result \in Signature
    BY <1>1, <1>2 DEF Handlers, Types, DeviceOK
  <2>2. \A x \in DOMAIN handler[i].sig : handler[i].sig[x] = Own(i) BY <1>1 DEF SignInv, Parts
  <2> DEFINE s == handler[i].sig
  <2> HIDE DEF s
  <2>3. /\ DOMAIN Append(s, result) = 1..Len(s) + 1 /\ DOMAIN s = 1..Len(s) /\ Len(s) \in Nat
        /\ \A x \in DOMAIN s : Append(s, result)[x] = s[x]
        /\ Append(s, result)[Len(s) + 1] = result
    BY <2>1, Appended DEF s
  <2>4. \A x \in DOMAIN Append(s, result) : x \in DOMAIN s \/ x = Len(s) + 1 BY <2>3
  <2>5. \A x \in DOMAIN s : s[x] = Own(i) BY <2>2 DEF s
  <2>6. \A x \in DOMAIN Append(s, result) : Append(s, result)[x] = Own(i) BY <1>5, <2>3, <2>4, <2>5
  <2> QED BY <1>3, <2>6 DEF s
<1>7. Begins(keys["ssh"], keys'["ssh"]) /\ Begins(cache'["ssh"], keys'["ssh"])
  BY <1>1, BeginsSame DEF deviceVars, SignInv, KeysOK
<1> HIDE DEF h
<1> QED BY <1>1, <1>3, <1>5, <1>6, <1>7, RunSigns

\* The next command goes to the end of the queue, behind whoever has left.
LEMMA FollowUpSigns ==
  ASSUME OneSigner, Types, SignInv, NEW i \in Ids, FollowUp(i)
  PROVE  SignInv'
<1> USE DEF SignInv
<1> DEFINE h == [handler[i] EXCEPT !.at = "queued"]
<1>0. HandlersOK /\ QueueOK BY DEF Types, DaemonOK
<1>1. /\ handler[i].at = "awake" /\ handler' = [handler EXCEPT ![i] = h] /\ queue' = Append(queue, i)
      /\ UNCHANGED <<keys, result, cache, asked>>
  BY DEF FollowUp, Steps, listVars, deviceVars
<1>2. handler[i] \in Handlers BY <1>0 DEF HandlersOK
<1>3. /\ h.by = handler[i].by /\ h.op = handler[i].op /\ h.cat = handler[i].cat /\ h.name = handler[i].name
      /\ h.idx = handler[i].idx /\ h.sig = handler[i].sig /\ h.more = handler[i].more /\ h.at = "queued"
  BY <1>2 DEF Handlers
<1> HIDE DEF h
<1>4. handler'[i] = h /\ \A j \in Ids \ {i} : handler'[j] = handler[j] BY <1>0, <1>1 DEF HandlersOK
<1>5. \A j \in Ids : /\ Signing(j)' = Signing(j) /\ PastGate(j)' = PastGate(j) /\ Own(j)' = Own(j)
                     /\ AtKey(j)' = AtKey(j) /\ (handler'[j].at = "left") = (handler[j].at = "left")
                     /\ handler'[j].by = handler[j].by /\ handler'[j].op = handler[j].op
                     /\ handler'[j].sig = handler[j].sig /\ handler'[j].cat = handler[j].cat
  BY <1>1, <1>3, <1>4 DEF Signing, PastGate, Own, AtKey
<1>6. KeysOK' /\ OneAsked' BY <1>1 DEF KeysOK, OneAsked
<1>7. AskedFor' BY <1>5 DEF AskedFor
<1>8. AtWork' BY <1>1, <1>5 DEF AtWork
<1>9. Results' BY <1>1, <1>5 DEF Results, NoneLeft
<1>10. Parts' BY <1>5 DEF Parts
<1>11. InTurn'
  <2>1. /\ DOMAIN queue' = 1..Len(queue) + 1 /\ DOMAIN queue = 1..Len(queue) /\ Len(queue) \in Nat
        /\ \A x \in DOMAIN queue : queue'[x] = queue[x] /\ queue[x] \in Ids
        /\ queue'[Len(queue) + 1] = i
    BY <1>0, <1>1, Appended, InRange DEF QueueOK
  <2> SUFFICES ASSUME NEW x \in DOMAIN queue', NEW y \in DOMAIN queue', handler'[queue'[x]].at = "left",
                      handler'[queue'[y]].op = "sign", handler'[queue'[y]].at \in {"queued", "awake"}
               PROVE  x < y
    BY Zenon DEF InTurn, Signing
  <2>2. x \in DOMAIN queue /\ queue'[x] = queue[x] /\ queue[x] \in Ids
    <3>1. x # Len(queue) + 1 BY <1>3, <1>4, <2>1
    <3> QED BY <2>1, <3>1
  <2>3. CASE y = Len(queue) + 1 BY <2>1, <2>2, <2>3
  <2>4. CASE y # Len(queue) + 1
    <3>1. y \in DOMAIN queue /\ queue'[y] = queue[y] BY <2>1, <2>4
    <3>2. PICK j \in Ids : j = queue[y] BY <2>1, <3>1
    <3>3. Signing(j)' BY <3>1, <3>2 DEF Signing
    <3>4. Signing(queue[y]) BY <1>5, <3>2, <3>3
    <3>5. handler[queue[x]].at = "left" BY <1>5, <2>2
    <3> QED BY <2>2, <3>1, <3>4, <3>5 DEF InTurn
  <2> QED BY <2>3, <2>4
<1> QED BY <1>6, <1>7, <1>8, <1>9, <1>10, <1>11

\* A signature is asked for when nothing else is, with a key the cache has.
LEMMA AskingSigns ==
  ASSUME OneSigner, SshKeysStay, Types, SignInv, NEW c \in Clients, AsksFor(c)
  PROVE  SignInv'
<1> USE DEF SignInv
<1>0. HandlersOK /\ QueueOK /\ AskedOK /\ DeviceOK BY DEF Types, DaemonOK
<1>1. PICK i \in Ids, h \in Handlers : Enters(i, h) /\ Waits(c, i) /\ RequestOf(c, h) BY DEF AsksFor
<1>2. /\ handler[i].at = "unused" /\ handler' = [handler EXCEPT ![i] = h]
      /\ queue' = IF h.at = "queued" THEN Append(queue, i) ELSE queue
      /\ UNCHANGED <<keys, result, cache>>
  BY <1>1 DEF Enters, Fresh, deviceVars
<1>3. handler'[i] = h /\ \A j \in Ids \ {i} : handler'[j] = handler[j] BY <1>0, <1>2 DEF HandlersOK
<1>4. /\ Fit(h) /\ h.by = c /\ h.at \in {"queued", "failed"} /\ h.sig = <<>> /\ h.more = Commands(h.op)
      /\ h.op = "sign" => /\ c \in Signers /\ asked[c] = {} /\ h.cat = "ssh" /\ h.more = 3
                          /\ h.at = "queued" => Cached("ssh", h.name) /\ h.idx = IndexOf("ssh", h.name)
      /\ h.op = "delete" => h.cat # "ssh"
      /\ c \in Signers => h.op = "sign"
  <2>1. Fit(h) /\ h.by = c /\ h.at # "unused" BY <1>1 DEF RequestOf
  <2>2. h.op = "sign" <=> c \in Signers BY <2>1 DEF Fit
  <2> QED BY <1>1, <2>1, <2>2 DEF RequestOf, Commands, SshKeysStay
<1>5. handler[i].op = None /\ handler[i].by = None /\ handler[i].at = "unused"
  BY <1>0, <1>2, UnusedIs, UnusedOp
<1>6. /\ asked'[c] = asked[c] \cup {i} /\ \A d \in Clients \ {c} : asked'[d] = asked[d]
  BY <1>0, <1>1 DEF Waits, AskedOK
<1>7. \A j \in Ids \ {i} : /\ Signing(j)' = Signing(j) /\ PastGate(j)' = PastGate(j) /\ Own(j)' = Own(j)
                           /\ AtKey(j)' = AtKey(j) /\ handler'[j] = handler[j]
  BY <1>2, <1>3 DEF Signing, PastGate, Own, AtKey
<1>8. KeysOK' BY <1>2 DEF KeysOK
<1>9. AskedFor' BY <1>3, <1>4 DEF AskedFor
<1>10. OneAsked'
  <2> SUFFICES ASSUME NEW g \in Signers, NEW a \in asked'[g], NEW b \in asked'[g] PROVE a = b
    BY DEF OneAsked
  <2>1. g \in Clients BY DEF Clients
  <2>2. CASE g = c BY <1>4, <1>6, <2>2
  <2>3. CASE g # c BY <1>6, <2>1, <2>3 DEF OneAsked
  <2> QED BY <2>2, <2>3
<1>11. AtWork'
  <2> SUFFICES ASSUME NEW j \in Ids, Signing(j)' PROVE AtKey(j)' /\ j \in asked'[handler'[j].by]
    BY DEF AtWork
  <2>1. CASE j = i
    <3>1. h.op = "sign" /\ h.at = "queued" BY <1>3, <1>4, <2>1 DEF Signing
    <3>2. h.idx \in Nat /\ h.idx < Len(cache["ssh"]) /\ cache["ssh"][h.idx + 1] = h.name
      BY <1>0, <1>4, <3>1, CachedIndex, ConstantsAssumption
    <3>3. Len(cache["ssh"]) \in Nat
      <4>1. cache["ssh"] \in Seq(Names) BY <1>0, ConstantsAssumption DEF DeviceOK
      <4> QED BY <4>1, InRange
    <3>4. h.idx + 1 \in 1..Len(cache["ssh"]) BY <3>2, <3>3
    <3>5. h.idx + 1 \in 1..Len(keys["ssh"]) /\ keys["ssh"][h.idx + 1] = h.name
      BY <3>2, <3>4 DEF KeysOK, Begins
    <3> QED BY <1>2, <1>3, <1>4, <1>6, <2>1, <3>5 DEF AtKey
  <2>2. CASE j # i
    <3>1. Signing(j) /\ handler'[j] = handler[j] /\ AtKey(j)' = AtKey(j) BY <1>7, <2>2
    <3>2. AtKey(j) /\ j \in asked[handler[j].by] BY <3>1 DEF AtWork
    <3>3. handler[j].by \in Clients BY <1>0, <3>1 DEF HandlersOK, Fit, Signing
    <3> QED BY <1>6, <3>1, <3>2, <3>3
  <2> QED BY <2>1, <2>2
<1>12. Results'
  <2> SUFFICES ASSUME NEW j \in Ids, PastGate(j)' PROVE result' = Own(j)' /\ NoneLeft'
    BY DEF Results
  <2>1. j # i BY <1>3, <1>4 DEF PastGate, Signing
  <2>2. result = Own(j) /\ NoneLeft BY <1>7, <2>1 DEF Results
  <2>3. NoneLeft' BY <1>3, <1>4, <2>2 DEF NoneLeft
  <2> QED BY <1>2, <1>7, <2>1, <2>2, <2>3
<1>13. Parts'
  <2>1. DOMAIN <<>> = {} OBVIOUS
  <2> QED BY <1>3, <1>4, <1>7, <2>1 DEF Parts
<1>14. InTurn'
  <2>0. queue \in Seq(Ids) /\ i \notin Range(queue) BY <1>0, <1>5 DEF QueueOK
  <2>1. \A x \in DOMAIN queue : queue[x] \in Ids \ {i} BY <2>0, InRange DEF Range
  <2>2. ASSUME NEW x \in DOMAIN queue, NEW y \in DOMAIN queue, handler'[queue[x]].at = "left",
               handler'[queue[y]].op = "sign", handler'[queue[y]].at \in {"queued", "awake"}
        PROVE  x < y
    <3>1. handler[queue[x]].at = "left" /\ Signing(queue[y]) BY <1>3, <2>1, <2>2 DEF Signing
    <3> QED BY <3>1 DEF InTurn
  <2> SUFFICES ASSUME NEW x \in DOMAIN queue', NEW y \in DOMAIN queue', handler'[queue'[x]].at = "left",
                      handler'[queue'[y]].op = "sign", handler'[queue'[y]].at \in {"queued", "awake"}
               PROVE  x < y
    BY Zenon DEF InTurn, Signing
  <2>3. CASE h.at = "queued"
    <3>1. /\ DOMAIN queue' = 1..Len(queue) + 1 /\ DOMAIN queue = 1..Len(queue) /\ Len(queue) \in Nat
          /\ \A z \in DOMAIN queue : queue'[z] = queue[z]
          /\ queue'[Len(queue) + 1] = i
      <4>1. queue' = Append(queue, i) BY <1>2, <2>3
      <4> QED BY <2>0, <4>1, Appended
    <3>2. x # Len(queue) + 1 BY <1>3, <2>3, <3>1
    <3>3. x \in DOMAIN queue /\ queue'[x] = queue[x] BY <3>1, <3>2
    <3>4. CASE y = Len(queue) + 1 BY <3>1, <3>3, <3>4
    <3>5. CASE y # Len(queue) + 1
      <4>1. y \in DOMAIN queue /\ queue'[y] = queue[y] BY <3>1, <3>5
      <4> QED BY <2>2, <3>3, <4>1
    <3> QED BY <3>4, <3>5
  <2>4. CASE h.at # "queued" BY <1>2, <2>2, <2>4
  <2> QED BY <2>3, <2>4
<1> QED BY <1>8, <1>9, <1>10, <1>11, <1>12, <1>13, <1>14

\* Who hears an answer, or drops its requests, does not sign.
LEMMA QuietSigns ==
  ASSUME Types, SignInv, NEW c \in Clients, Quiet(c), UNCHANGED <<deviceVars, cache>>
  PROVE  SignInv'
<1> USE DEF SignInv
<1>0. HandlersOK /\ AskedOK BY DEF Types, DaemonOK
<1>1. UNCHANGED <<queue, handler, keys, result, cache>> BY DEF Quiet, deviceVars
<1>2. \A d \in Clients : asked'[d] \subseteq asked[d] BY <1>0 DEF Quiet, Hears, AskedOK
<1>3. KeysOK' /\ AskedFor' /\ Results' /\ Parts' /\ InTurn'
  BY <1>1 DEF KeysOK, AskedFor, Results, PastGate, Signing, NoneLeft, Own, Parts, InTurn
<1>4. OneAsked' BY <1>2 DEF OneAsked, Clients
<1>5. AtWork'
  <2> SUFFICES ASSUME NEW j \in Ids, Signing(j) PROVE AtKey(j) /\ j \in asked'[handler[j].by]
    BY <1>1 DEF AtWork, AtKey, Signing
  <2>1. AtKey(j) /\ j \in asked[handler[j].by] BY DEF AtWork
  <2>2. handler[j].by \in Signers /\ handler[j].by \in Clients BY <1>0 DEF HandlersOK, Fit, Signing
  <2>3. CASE UNCHANGED asked BY <2>1, <2>3
  <2>4. ASSUME NEW i \in Ids, Hears(c, i), i \in asked[c], c \in Signers => handler[i].at \in {"ok", "failed"}
        PROVE  j \in asked'[handler[j].by]
    <3>1. asked' = [asked EXCEPT ![c] = @ \ {i}] BY <2>4 DEF Hears
    <3>2. c = handler[j].by => i # j BY <2>2, <2>4 DEF Signing
    <3> QED BY <1>0, <2>1, <2>2, <3>1, <3>2 DEF AskedOK
  <2>5. CASE c \in Fills /\ asked' = [asked EXCEPT ![c] = {}]
    <3>1. c # handler[j].by BY <2>2, <2>5, ConstantsAssumption
    <3> QED BY <1>0, <2>1, <2>2, <2>5, <3>1 DEF AskedOK
  <2> QED BY <2>1, <2>3, <2>4, <2>5 DEF Quiet
<1> QED BY <1>3, <1>4, <1>5

\* Who leaves was the one who signed; after it nobody does.
LEMMA LeavingSigns ==
  ASSUME OneSigner, Types, SignInv, NEW g \in Signers, NEW i \in Ids, Leaves(g, i)
  PROVE  SignInv'
<1> USE DEF SignInv
<1> DEFINE h == [handler[i] EXCEPT !.at = "left"]
<1>0. HandlersOK /\ QueueOK /\ AskedOK BY DEF Types, DaemonOK
<1>1. /\ i \in asked[g] /\ handler[i].at = "queued" /\ handler' = [handler EXCEPT ![i] = h]
      /\ asked' = [asked EXCEPT ![g] = @ \ {i}] /\ UNCHANGED <<keys, result, cache, queue>>
  BY DEF Leaves, Steps, Hears, deviceVars
<1>2. handler[i] \in Handlers /\ handler[i].by = g /\ Fit(handler[i]) /\ g \in Clients
  BY <1>0, <1>1 DEF HandlersOK, AskedOK, Clients
<1>3. /\ h.by = handler[i].by /\ h.op = handler[i].op /\ h.cat = handler[i].cat /\ h.name = handler[i].name
      /\ h.sig = handler[i].sig /\ h.at = "left"
  BY <1>2 DEF Handlers
<1>4. Signing(i) BY <1>1, <1>2 DEF Fit, Signing
<1> HIDE DEF h
<1>5. handler'[i] = h /\ \A j \in Ids \ {i} : handler'[j] = handler[j] BY <1>0, <1>1 DEF HandlersOK
<1>6. \A j \in Ids : ~Signing(j)'
  <2> SUFFICES ASSUME NEW j \in Ids, Signing(j)' PROVE FALSE OBVIOUS
  <2>1. j # i BY <1>3, <1>5 DEF Signing
  <2>2. Signing(j) BY <1>5, <2>1 DEF Signing
  <2> QED BY <1>4, <2>1, <2>2, OneSigns
<1>7. KeysOK' BY <1>1 DEF KeysOK
<1>8. AskedFor' BY <1>3, <1>5 DEF AskedFor
<1>9. OneAsked'
  <2>1. \A d \in Clients : asked'[d] \subseteq asked[d] BY <1>0, <1>1 DEF AskedOK
  <2> QED BY <2>1 DEF OneAsked, Clients
<1>10. AtWork' /\ Results' BY <1>6 DEF AtWork, Results, PastGate
<1>11. Parts' BY <1>3, <1>5 DEF Parts, Own
<1>12. InTurn'
  <2>1. \A y \in DOMAIN queue : queue[y] \in Ids BY <1>0, InRange DEF QueueOK
  <2>2. ASSUME NEW y \in DOMAIN queue, handler'[queue[y]].op = "sign", handler'[queue[y]].at \in {"queued", "awake"}
        PROVE  FALSE
    <3>1. PICK j \in Ids : j = queue[y] BY <2>1
    <3>2. Signing(j)' BY <2>2, <3>1 DEF Signing
    <3> QED BY <1>6, <3>2
  <2> QED BY <1>1, <2>2 DEF InTurn, Signing
<1> QED BY <1>7, <1>8, <1>9, <1>10, <1>11, <1>12

\* A signature the agent hands out was made for this request, with the key it named, in
\* both its parts, whatever was left in the queue by those who hung up before and whatever
\* came between the touch and the reading.  It needs that the connections sign one after
\* the other (KeyClients_sign) and that no index moves under a request.  (handle_sign_request)
THEOREM SignaturesAreOwn == ASSUME OneSigner, SshKeysStay PROVE Spec => []SignsOwn
<1>1. Init => SignInv
  <2> SUFFICES ASSUME Init PROVE SignInv OBVIOUS
  <2>1. \A i \in Ids : handler[i] = Unused BY DEF Init
  <2>2. \A i \in Ids : handler[i].op = None /\ handler[i].at = "unused" BY <2>1, UnusedOp
  <2>3. None # "sign" /\ None # "delete" BY ConstantsAssumption DEF Ops
  <2>4. KeysOK BY BeginsSame DEF KeysOK, Init
  <2>5. OneAsked BY DEF OneAsked, Init, Clients
  <2>6. queue = <<>> /\ DOMAIN <<>> = {} BY DEF Init
  <2>7. InTurn BY <2>6 DEF InTurn
  <2> QED BY <2>2, <2>3, <2>4, <2>5, <2>7 DEF SignInv, AskedFor, AtWork, Results, Parts, PastGate, Signing
<1>2. Types /\ SignInv /\ [Next]_vars => SignInv'
  <2> SUFFICES ASSUME Types, SignInv, [Next]_vars PROVE SignInv'
    OBVIOUS
  <2>0. DeviceOK /\ DaemonOK /\ ListsOK BY DEF Types
  <2>1. CASE DaemonNext
    <3>0. UNCHANGED asked BY <2>1, DaemonFrame DEF listVars
    <3>1. CASE CancelArrives
      <4>1. CASE Fails(Head(queue)) BY <3>0, <4>1, FailedSigns
      <4>2. CASE UNCHANGED <<deviceVars, queue, handler, cache, slot>>
        BY <3>0, <4>2 DEF deviceVars, SignInv, KeysOK, AskedFor, OneAsked, AtWork, AtKey, Results, PastGate,
                          Signing, NoneLeft, Own, Parts, InTurn
      <4> QED BY <3>1, <4>1, <4>2 DEF CancelArrives
    <3>2. ASSUME NEW i \in Ids, Touched(i) PROVE SignInv' BY <3>2, TouchedSigns
    <3>3. ASSUME NEW i \in Ids, Refused(i) \/ ReadFails(i) PROVE SignInv'
      BY <3>0, <3>3, FailedSigns DEF Refused, GateFails, ReadFails
    <3>4. ASSUME NEW i \in Ids, FollowUp(i) PROVE SignInv' BY <3>4, FollowUpSigns
    <3>5. ASSUME NEW i \in Ids, Syncs(i) \/ SyncFails(i) PROVE SignInv'
      <4>1. /\ Runs(i) /\ Steps(i, After(handler[i])) /\ handler[i].op # "sign" /\ UNCHANGED deviceVars
            /\ cache' \in {cache, keys, [cache EXCEPT !["ssh"] = keys["ssh"]]}
        BY <3>5 DEF Syncs, SyncFails
      <4>2. handler[i] \in Handlers BY <2>0, <4>1, AtHead
      <4> QED BY <3>0, <4>1, <4>2, ReadSigns
    <3>6. ASSUME NEW i \in Ids, ReadSecret(i) PROVE SignInv'
      <4> DEFINE n == Is(handler[i].cat, handler[i].idx)
                 h == [handler[i] EXCEPT !.hit = n]
      <4>1. /\ Runs(i) /\ Steps(i, After(h)) /\ handler[i].op = "get" /\ UNCHANGED <<deviceVars, cache>> /\ n # None
        BY <3>6 DEF ReadSecret
      <4>2. /\ handler[i] \in Handlers /\ Fit(handler[i]) /\ handler[i].at # "unused"
            /\ handler[i].cat \in Cats /\ handler[i].idx \in Nat
        BY <2>0, <4>1, AtHead DEF Handlers
      <4>3. n \in Names BY <2>0, <4>1, <4>2, IsAKey
      <4>4. h \in Handlers BY <4>2, <4>3, HitFits
      <4>5. /\ h.by = handler[i].by /\ h.op = handler[i].op /\ h.cat = handler[i].cat /\ h.name = handler[i].name
            /\ h.idx = handler[i].idx /\ h.at = handler[i].at
        BY <4>2 DEF Handlers
      <4> HIDE DEF h
      <4> QED BY <3>0, <4>1, <4>4, <4>5, ReadSigns
    <3>7. ASSUME NEW i \in Ids, ReadSignature(i) PROVE SignInv' BY <3>7, SignatureRead
    <3> QED BY <2>1, <3>1, <3>2, <3>3, <3>4, <3>5, <3>6, <3>7 DEF DaemonNext
  <2>2. CASE UserCopies \/ UNCHANGED vars
    BY <2>2 DEF UserCopies, vars, deviceVars, daemonVars, listVars, SignInv, KeysOK, AskedFor, OneAsked, AtWork,
                AtKey, Results, PastGate, Signing, NoneLeft, Own, Parts, InTurn
  <2>3. ASSUME NEW c \in Clients, Acts(c) PROVE SignInv'
    <3>1. UNCHANGED <<deviceVars, cache>> BY <2>0, <2>3, ClientFrame
    <3> QED BY <2>0, <2>3, <3>1, ClientSteps, AskingSigns, QuietSigns, LeavingSigns
  <2> QED BY <2>1, <2>2, <2>3, NextSteps
<1>3. Types /\ SignInv => SignsOwn
  <2> SUFFICES ASSUME Types, SignInv, NEW i \in Ids, handler[i].op = "sign", Len(handler[i].sig) = 2, NEW x \in 1..2
               PROVE  handler[i].sig[x] = [key |-> handler[i].name, of |-> i]
    BY DEF SignsOwn
  <2>1. handler[i].sig \in Seq(Signature) BY DEF Types, DaemonOK, HandlersOK, Handlers
  <2>2. x \in DOMAIN handler[i].sig BY <2>1, InRange
  <2> QED BY <2>2 DEF SignInv, Parts, Own
<1> QED BY <1>1, <1>2, <1>3, TypesHold, PTL DEF Spec

-----------------------------------------------------------------------------
(* Deletes *)

\* The names a category may come to hold: those it has, those typed in, and, of the
\* one that is imported, those of the file.
NamesOf(k) == Range(Kept[k]) \cup New[k] \cup (IF k = "otp" THEN Range(File) ELSE {})

\* Nothing of one category ever turns up in another: on the device, in the cache, in
\* what clients show and point at, in requests and in what they have met.
FiledKeys  == \A k \in Cats : keys[k] \in Seq(NamesOf(k)) /\ cache[k] \in Seq(NamesOf(k))
FiledLists ==
  \A c \in Clients : /\ todo[c] \in Seq(Range(File))
                     /\ chosen[c] # None => chosen[c].name \in NamesOf(chosen[c].cat)
                     /\ \A k \in Cats : rows[c][k] \in Seq(NamesOf(k))
FiledAs(h) ==
  /\ h.op \in {"add", "delete"} => h.name \in NamesOf(h.cat)
  /\ h.op = "delete" => h.cat \in Deletable[h.by] /\ h.hit \in NamesOf(h.cat) \cup {None}
FiledRequests == \A i \in Ids : FiledAs(handler[i])
Filed == FiledKeys /\ FiledLists /\ FiledRequests

LEMMA WithinNames ==
  ASSUME NEW S, NEW s \in Seq(S), NEW T, Range(s) \subseteq T
  PROVE  s \in Seq(T)
<1>1. DOMAIN s = 1..Len(s) /\ Len(s) \in Nat /\ \A x \in 1..Len(s) : s[x] \in T
  BY InRange
<1>2. s = [x \in 1..Len(s) |-> s[x]] BY SeqDef
<1>3. s \in [1..Len(s) -> T] BY <1>1, <1>2
<1> QED BY <1>1, <1>3, SeqDef

LEMMA FiledStart == Init => Filed
<1> SUFFICES ASSUME Init PROVE Filed OBVIOUS
<1>1. \A k \in Cats : Kept[k] \in Seq(NamesOf(k))
  BY WithinNames, ConstantsAssumption DEF NamesOf
<1>2. FiledKeys BY <1>1 DEF Init, FiledKeys
<1>3. FiledLists BY <1>1 DEF Init, FiledLists
<1>4. FiledRequests
  <2>1. \A i \in Ids : handler[i] = Unused BY DEF Init
  <2>2. None \notin {"add", "delete"} BY ConstantsAssumption DEF Ops
  <2> QED BY <2>1, <2>2, UnusedOp DEF FiledRequests, FiledAs
<1> QED BY <1>2, <1>3, <1>4 DEF Filed

\* What the device holds at an index is of its category.
LEMMA FiledIs ==
  ASSUME FiledKeys, NEW k \in Cats, NEW idx \in Nat
  PROVE  Is(k, idx) \in NamesOf(k) \cup {None}
<1>1. keys[k] \in Seq(NamesOf(k)) BY DEF FiledKeys
<1>2. DOMAIN keys[k] = 1..Len(keys[k]) /\ Len(keys[k]) \in Nat /\ \A x \in DOMAIN keys[k] : keys[k][x] \in NamesOf(k)
  BY <1>1, InRange
<1>3. CASE idx < Len(keys[k])
  <2>1. idx + 1 \in DOMAIN keys[k] BY <1>2, <1>3
  <2> QED BY <1>2, <1>3, <2>1 DEF Is
<1>4. CASE ~(idx < Len(keys[k])) BY <1>4 DEF Is
<1> QED BY <1>3, <1>4

LEMMA FiledOnward ==
  ASSUME Types, Filed, \A j \in Ids : GoesOn(j)
  PROVE  FiledRequests'
<1> SUFFICES ASSUME NEW i \in Ids PROVE FiledAs(handler'[i]) BY DEF FiledRequests
<1>1. FiledAs(handler[i]) BY DEF Filed, FiledRequests
<1>2. CASE handler'[i] = handler[i] BY <1>1, <1>2
<1>3. CASE handler[i].at # "unused" /\ Onward(handler[i], handler'[i])
  <2>1. handler[i].cat \in Cats /\ handler[i].idx \in Nat
    BY <1>3 DEF Types, DaemonOK, HandlersOK, Fit, Handlers
  <2>2. Is(handler[i].cat, handler[i].idx) \in NamesOf(handler[i].cat) \cup {None}
    BY <2>1, FiledIs DEF Filed
  <2> QED BY <1>1, <1>3, <2>2 DEF FiledAs, Onward
<1> QED BY <1>2, <1>3 DEF GoesOn

\* The device's keys are those it had, with one added or one removed.
LEMMA FiledTouched ==
  ASSUME Types, Filed, NEW i \in Ids, Touched(i)
  PROVE  FiledKeys'
<1> DEFINE k == handler[i].cat
           n == handler[i].name
<1>0. DeviceOK /\ DaemonOK BY DEF Types
<1>1. Runs(i) /\ cache' = cache BY DEF Touched
<1>2. k \in Cats /\ n \in Names /\ handler[i].op \in Ops /\ handler[i] \in Handlers BY <1>0, <1>1, AtHead
<1>3. keys \in [Cats -> Seq(Names)] /\ keys[k] \in Seq(NamesOf(k)) BY <1>0, <1>2 DEF DeviceOK, Filed, FiledKeys
<1>4. CASE handler[i].op = "add"
  <2>1. keys' = [keys EXCEPT ![k] = Append(@, n)] BY <1>4 DEF Touched
  <2>2. n \in NamesOf(k) BY <1>4 DEF Filed, FiledRequests, FiledAs
  <2>3. Append(keys[k], n) \in Seq(NamesOf(k)) BY <1>3, <2>2, Appended
  <2> HIDE DEF k, n
  <2> QED BY <1>1, <1>2, <1>3, <2>1, <2>3 DEF Filed, FiledKeys
<1>5. CASE handler[i].op = "delete"
  <2>1. keys' = [keys EXCEPT ![k] = RemoveAt(@, handler[i].idx + 1)] /\ Is(k, handler[i].idx) # None
    BY <1>5 DEF Touched
  <2>2. handler[i].idx \in Nat BY <1>2 DEF Handlers
  <2>3. handler[i].idx + 1 \in 1..Len(keys[k]) BY <1>0, <1>2, <2>1, <2>2, IsAKey
  <2>4. RemoveAt(keys[k], handler[i].idx + 1) \in Seq(NamesOf(k)) BY <1>3, <2>3, Removed
  <2> HIDE DEF k
  <2> QED BY <1>1, <1>2, <1>3, <2>1, <2>4 DEF Filed, FiledKeys
<1>6. CASE handler[i].op \in {"sign", "get"}
  <2>1. keys' = keys BY <1>6 DEF Touched, deviceVars
  <2> QED BY <1>1, <2>1 DEF Filed, FiledKeys
<1> QED BY <1>2, <1>4, <1>5, <1>6 DEF Ops

LEMMA FiledDaemon ==
  ASSUME Types, Filed, DaemonNext
  PROVE  Filed'
<1>0. DeviceOK /\ DaemonOK BY DEF Types
<1>1. FiledRequests' BY <1>0, DaemonGoesOn, FiledOnward
<1>2. FiledLists' BY DaemonFrame DEF listVars, Filed, FiledLists
<1>3. FiledKeys'
  <2>1. UNCHANGED <<deviceVars, cache>> => FiledKeys' BY DEF deviceVars, Filed, FiledKeys
  <2>2. ASSUME NEW i \in Ids, Touched(i) PROVE FiledKeys' BY <2>2, FiledTouched
  <2>3. ASSUME NEW i \in Ids, Syncs(i) \/ SyncFails(i) PROVE FiledKeys'
    <3>1. keys' = keys /\ cache' \in {cache, keys, [cache EXCEPT !["ssh"] = keys["ssh"]]}
      BY <2>3 DEF Syncs, SyncFails, deviceVars
    <3>2. cache \in [Cats -> Seq(Names)] /\ keys \in [Cats -> Seq(Names)] BY <1>0 DEF DeviceOK
    <3>3. \A k \in Cats : keys'[k] = keys[k] /\ cache'[k] \in {cache[k], keys[k]} BY <3>1, <3>2
    <3> QED BY <3>3 DEF Filed, FiledKeys
  <2>4. CASE CancelArrives BY <2>1, <2>4 DEF CancelArrives, Fails
  <2>5. ASSUME NEW i \in Ids,
               \/ Refused(i) \/ FollowUp(i) \/ ReadSecret(i) \/ ReadSignature(i) \/ ReadFails(i)
        PROVE  FiledKeys'
    BY <2>1, <2>5 DEF Refused, GateFails, Fails, FollowUp, ReadSecret, ReadSignature, ReadFails
  <2> QED BY <2>2, <2>3, <2>4, <2>5 DEF DaemonNext
<1> QED BY <1>1, <1>2, <1>3 DEF Filed

\* A request names a key its client has seen, types in or imports.
LEMMA FiledAsking ==
  ASSUME Types, Filed, NEW c \in Clients, AsksFor(c)
  PROVE  FiledRequests'
<1>0. HandlersOK /\ ListsOK BY DEF Types, DaemonOK
<1>1. PICK i \in Ids, h \in Handlers : Enters(i, h) /\ RequestOf(c, h) BY DEF AsksFor
<1>2. handler'[i] = h /\ \A j \in Ids \ {i} : handler'[j] = handler[j] BY <1>0, <1>1 DEF Enters, HandlersOK
<1>3. /\ h.by = c /\ h.hit = None /\ h.cat \in Cats
      /\ h.op = "delete" => h.cat \in Deletable[c] /\ Seen(c, h.cat, h.name)
      /\ h.op = "add" => \/ h.name \in New[h.cat]
                         \/ todo[c] # <<>> /\ h.name = Head(todo[c]) /\ h.cat = "otp"
  BY <1>1 DEF RequestOf, Fit
<1>4. h.op = "delete" => h.name \in NamesOf(h.cat)
  <2>1. rows[c][h.cat] \in Seq(NamesOf(h.cat)) BY <1>3 DEF Filed, FiledLists
  <2>2. Range(rows[c][h.cat]) \subseteq NamesOf(h.cat) BY <2>1, InRange
  <2> QED BY <1>3, <2>2 DEF Seen, Filed, FiledLists
<1>5. h.op = "add" => h.name \in NamesOf(h.cat)
  <2>1. todo[c] # <<>> => Head(todo[c]) \in Range(File) BY Served DEF Filed, FiledLists
  <2> QED BY <1>3, <2>1 DEF NamesOf
<1>6. FiledAs(h) BY <1>3, <1>4, <1>5 DEF FiledAs
<1> QED BY <1>2, <1>6 DEF Filed, FiledRequests

LEMMA FiledShown ==
  ASSUME Types, Filed, NEW c \in Clients, RowsStep(c), ChosenStep(c), TodoStep(c)
  PROVE  FiledLists'
<1>0. ListsOK /\ FiledLists /\ FiledKeys BY DEF Types, Filed
<1>1. ASSUME NEW d \in Clients, NEW k \in Cats PROVE rows'[d][k] \in Seq(NamesOf(k))
  <2>1. rows'[d] \in {rows[d], cache} BY <1>0 DEF RowsStep, Lists, ListsOK
  <2> QED BY <1>0, <2>1 DEF FiledLists, FiledKeys
<1>2. ASSUME NEW d \in Clients, chosen'[d] # None PROVE chosen'[d].name \in NamesOf(chosen'[d].cat)
  <2>1. CASE UNCHANGED chosen \/ chosen' = [chosen EXCEPT ![c] = None]
    BY <1>0, <1>2, <2>1 DEF ListsOK, FiledLists
  <2>2. CASE AsksWhether(c)
    <3>1. PICK k \in Deletable[c] : \E x \in DOMAIN rows[c][k] :
            chosen' = [chosen EXCEPT ![c] = [cat |-> k, name |-> rows[c][k][x], idx |-> x - 1]]
      BY <2>2 DEF AsksWhether
    <3>2. PICK x \in DOMAIN rows[c][k] :
            chosen' = [chosen EXCEPT ![c] = [cat |-> k, name |-> rows[c][k][x], idx |-> x - 1]]
      BY <3>1
    <3>3. k \in Cats BY ConstantsAssumption
    <3>4. rows[c][k][x] \in NamesOf(k)
      <4>1. rows[c][k] \in Seq(NamesOf(k)) BY <1>0, <3>3 DEF FiledLists
      <4> QED BY <3>2, <4>1, InRange
    <3>5. CASE d = c BY <1>0, <3>2, <3>4, <3>5 DEF ListsOK
    <3>6. CASE d # c BY <1>0, <1>2, <3>2, <3>6 DEF ListsOK, FiledLists
    <3> QED BY <3>5, <3>6
  <2> QED BY <2>1, <2>2 DEF ChosenStep
<1>3. ASSUME NEW d \in Clients PROVE todo'[d] \in Seq(Range(File))
  <2>1. todo'[d] \in {todo[d], File, <<>>} \/ (todo[d] # <<>> /\ todo'[d] = Tail(todo[d]))
    BY <1>0 DEF TodoStep, Importing, ListsOK
  <2>2. todo[d] \in Seq(Range(File)) BY <1>0 DEF FiledLists
  <2>3. File \in Seq(Range(File)) BY NamesAre, WithinNames
  <2>4. <<>> \in Seq(Range(File)) OBVIOUS
  <2>5. todo[d] # <<>> => Tail(todo[d]) \in Seq(Range(File)) BY <2>2, Served
  <2> QED BY <2>1, <2>2, <2>3, <2>4, <2>5
<1> QED BY <1>1, <1>2, <1>3 DEF FiledLists

LEMMA FiledHolds == Spec => []Filed
<1>1. Types /\ Filed /\ [Next]_vars => Filed'
  <2> SUFFICES ASSUME Types, Filed, [Next]_vars PROVE Filed' OBVIOUS
  <2>0. DeviceOK /\ DaemonOK /\ ListsOK BY DEF Types
  <2>1. CASE DaemonNext BY <2>1, FiledDaemon
  <2>2. CASE UserCopies \/ UNCHANGED vars
    BY <2>2 DEF UserCopies, vars, deviceVars, daemonVars, listVars, Filed, FiledKeys, FiledLists, FiledRequests
  <2>3. ASSUME NEW c \in Clients, Acts(c) PROVE Filed'
    <3>1. FiledKeys' BY <2>0, <2>3, ClientFrame DEF deviceVars, Filed, FiledKeys
    <3>2. FiledLists' BY <2>0, <2>3, ListSteps, FiledShown
    <3>3. FiledRequests'
      <4>1. CASE AsksFor(c) BY <4>1, FiledAsking
      <4>2. CASE Quiet(c) BY <4>2 DEF Quiet, Filed, FiledRequests
      <4>3. ASSUME NEW i \in Ids, Leaves(c, i) PROVE FiledRequests' BY <2>0, <4>3, LeavingGoesOn, FiledOnward
      <4> QED BY <2>0, <2>3, <4>1, <4>2, <4>3, ClientSteps
    <3> QED BY <3>1, <3>2, <3>3 DEF Filed
  <2> QED BY <2>1, <2>2, <2>3, NextSteps
<1> QED BY <1>1, FiledStart, TypesHold, PTL DEF Spec

\* A terminal that waits for its answers and is the only one to delete from a category
\* whose requests do not fail past their touch.
Deleters(k) == {c \in Clients : k \in Deletable[c]}
Sole(k, t)  == k \in Cats \ Flaky /\ t \in Terms \ Impatient /\ Deleters(k) \subseteq {t}

Deleting(i, k)   == handler[i].op = "delete" /\ handler[i].cat = k
Alive(i, k)      == Deleting(i, k) /\ handler[i].at \in {"queued", "awake"}
KeyIs(k, idx, n) == idx + 1 \in 1..Len(keys[k]) /\ keys[k][idx + 1] = n

\* Before its touch a delete has met nothing, after it, with its sync to come, the key
\* it named.
HitsNamed(k) ==
  \A i \in Ids : Deleting(i, k) => /\ handler[i].hit \in {None, handler[i].name}
                                   /\ GateOf(i) => handler[i].hit = None
                                   /\ handler[i].more \in 0..2
\* The terminal waits for one request, and for each delete until its handler is done;
\* while it waits it asks its user about no row.
AskedOnce(k, t) ==
  /\ \A i, j \in asked[t] : i = j
  /\ chosen[t] # None => asked[t] = {}
  /\ \A i \in Ids : Alive(i, k) => i \in asked[t]
\* A delete that has yet to happen, and a row the user is asked about, are at the
\* index of the key they name.
Aimed(k, t) ==
  /\ \A i \in Ids : Alive(i, k) /\ handler[i].hit = None => KeyIs(k, handler[i].idx, handler[i].name)
  /\ chosen[t] # None /\ chosen[t].cat = k => KeyIs(k, chosen[t].idx, chosen[t].name)
\* What the cache holds and the terminal shows is a beginning of the device's keys, but
\* for the cache from a delete's touch to its sync, and the rows from there to its answer.
InStep(k, t) ==
  /\ (\A i \in Ids : Alive(i, k) => handler[i].hit = None) => Begins(cache[k], keys[k])
  /\ (\A i \in asked[t] : Deleting(i, k) => handler[i].hit = None) => Begins(rows[t][k], keys[k])

DeleteInv(k, t) == HitsNamed(k) /\ AskedOnce(k, t) /\ Aimed(k, t) /\ InStep(k, t)

\* Nothing that the deletes of k depend on has changed.
LEMMA DeletesKept ==
  ASSUME Types, NEW k, NEW t \in Clients, DeleteInv(k, t), keys'[k] = keys[k], cache'[k] = cache[k],
         rows'[t][k] = rows[t][k], chosen'[t] = chosen[t], asked'[t] = asked[t],
         \A j \in Ids : Deleting(j, k)' = Deleting(j, k) /\ (Deleting(j, k) => handler'[j] = handler[j])
  PROVE  DeleteInv(k, t)'
<1>0. asked[t] \subseteq Ids BY DEF Types, DaemonOK, AskedOK
<1>1. \A j \in Ids : Alive(j, k)' = Alive(j, k) BY DEF Alive, Deleting
<1>2. \A j \in Ids : Deleting(j, k) => GateOf(j)' = GateOf(j) BY DEF GateOf
<1>3. HitsNamed(k)' BY <1>2 DEF DeleteInv, HitsNamed
<1>4. AskedOnce(k, t)' BY <1>1 DEF DeleteInv, AskedOnce
<1>5. \A j \in Ids : Alive(j, k) => handler'[j] = handler[j] BY DEF Alive
<1>6. \A idx, n : KeyIs(k, idx, n)' = KeyIs(k, idx, n) BY DEF KeyIs
<1>7. Aimed(k, t)' BY <1>1, <1>5, <1>6 DEF DeleteInv, Aimed
<1>8. InStep(k, t)' BY <1>0, <1>1, <1>5 DEF DeleteInv, InStep
<1> QED BY <1>3, <1>4, <1>7, <1>8 DEF DeleteInv

\* A handler goes on, or is done, without any key being deleted; a delete that is done
\* has met no key or has had its sync.
LEMMA HandlerDeletes ==
  ASSUME Types, NEW k, NEW t \in Clients, DeleteInv(k, t), NEW i \in Ids, NEW h, Steps(i, h),
         h.op = handler[i].op, h.cat = handler[i].cat, h.name = handler[i].name, h.idx = handler[i].idx,
         Deleting(i, k) => /\ h.hit = handler[i].hit
                           /\ h.more = handler[i].more \/ h.more \in 0..1
                           /\ h.at \in {"queued", "awake"} => handler[i].at \in {"queued", "awake"},
         asked'[t] = asked[t], rows'[t][k] = rows[t][k], chosen'[t] = chosen[t],
         Begins(keys[k], keys'[k]),
         \/ Begins(cache'[k], keys'[k])
         \/ cache'[k] = cache[k] /\ (Deleting(i, k) /\ h.at \notin {"queued", "awake"} => h.hit = None)
  PROVE  DeleteInv(k, t)'
<1>0. asked[t] \subseteq Ids /\ HandlersOK BY DEF Types, DaemonOK, AskedOK
<1>1. handler'[i] = h /\ \A j \in Ids \ {i} : handler'[j] = handler[j] BY <1>0 DEF Steps, HandlersOK
<1>2. \A j \in Ids : /\ Deleting(j, k)' = Deleting(j, k)
                     /\ handler'[j].name = handler[j].name /\ handler'[j].idx = handler[j].idx
                     /\ Deleting(j, k) => /\ handler'[j].hit = handler[j].hit /\ (GateOf(j)' => GateOf(j))
                                          /\ handler'[j].more = handler[j].more \/ handler'[j].more \in 0..1
  BY <1>1 DEF Deleting, GateOf, Commands
<1>3. \A j \in Ids : Alive(j, k)' => Alive(j, k) BY <1>1 DEF Alive, Deleting
<1>4. HitsNamed(k)' BY <1>2 DEF DeleteInv, HitsNamed
<1>5. AskedOnce(k, t)' BY <1>3 DEF DeleteInv, AskedOnce
<1>6. Aimed(k, t)'
  <2>1. ASSUME NEW j \in Ids, Alive(j, k)', handler'[j].hit = None
        PROVE  KeyIs(k, handler[j].idx, handler[j].name)'
    <3>1. Alive(j, k) /\ handler[j].hit = None BY <1>2, <1>3, <2>1 DEF Alive
    <3>2. KeyIs(k, handler[j].idx, handler[j].name) BY <3>1 DEF DeleteInv, Aimed
    <3> QED BY <1>2, <3>2 DEF KeyIs, Begins
  <2>2. chosen'[t] # None /\ chosen'[t].cat = k => KeyIs(k, chosen[t].idx, chosen[t].name)'
    BY DEF DeleteInv, Aimed, KeyIs, Begins
  <2> QED BY <2>1, <2>2 DEF Aimed
<1>7. InStep(k, t)'
  <2>1. ASSUME \A j \in Ids : Alive(j, k)' => handler'[j].hit = None
        PROVE  Begins(cache'[k], keys'[k])
    <3>1. CASE Begins(cache'[k], keys'[k]) BY <3>1
    <3>2. CASE cache'[k] = cache[k] /\ (Deleting(i, k) /\ h.at \notin {"queued", "awake"} => h.hit = None)
      <4>1. \A j \in Ids : Alive(j, k) => handler[j].hit = None
        BY <1>1, <1>2, <2>1, <3>2 DEF Alive, Deleting
      <4>2. Begins(cache[k], keys[k]) BY <4>1 DEF DeleteInv, InStep
      <4> QED BY <3>2, <4>2, BeginsOn
    <3> QED BY <3>1, <3>2
  <2>2. ASSUME \A j \in asked[t] : Deleting(j, k)' => handler'[j].hit = None
        PROVE  Begins(rows[t][k], keys'[k])
    <3>1. \A j \in asked[t] : Deleting(j, k) => handler[j].hit = None BY <1>0, <1>2, <2>2
    <3>2. Begins(rows[t][k], keys[k]) BY <3>1 DEF DeleteInv, InStep
    <3> QED BY <3>2, BeginsOn
  <2> QED BY <2>1, <2>2 DEF InStep
<1> QED BY <1>4, <1>5, <1>6, <1>7 DEF DeleteInv

\* The touch of a delete meets the key it named, and nothing else is on its way.
LEMMA TouchedDeletes ==
  ASSUME Types, NEW k \in Cats, NEW t \in Clients, DeleteInv(k, t), NEW i \in Ids, Touched(i), Deleting(i, k)
  PROVE  DeleteInv(k, t)'
<1> DEFINE n == handler[i].name
           h == After([handler[i] EXCEPT !.hit = Is(k, handler[i].idx)])
<1>0. HandlersOK /\ DeviceOK /\ DaemonOK /\ asked[t] \subseteq Ids BY DEF Types, DaemonOK, AskedOK
<1>1. Runs(i) /\ GateOf(i) /\ Steps(i, h) /\ UNCHANGED <<asked, rows, chosen>>
  BY DEF Touched, Deleting, listVars
<1>2. /\ handler[i] \in Handlers /\ Fit(handler[i]) /\ handler[i].at \in {"queued", "left"} /\ n \in Names
      /\ handler[i].more = 2 /\ handler[i].idx \in Nat
  BY <1>0, <1>1, AtHead DEF GateOf, Commands, Deleting, Handlers
<1>3. handler[i].at = "queued" BY <1>2 DEF Fit, Deleting
<1>4. Alive(i, k) /\ handler[i].hit = None BY <1>1, <1>3 DEF Alive, Deleting, DeleteInv, HitsNamed
<1>5. Is(k, handler[i].idx) = n
  <2>1. KeyIs(k, handler[i].idx, n) BY <1>4 DEF DeleteInv, Aimed
  <2>2. keys[k] \in Seq(Names) /\ Len(keys[k]) \in Nat BY <1>0, InRange DEF DeviceOK
  <2>3. handler[i].idx < Len(keys[k]) BY <1>2, <2>1, <2>2 DEF KeyIs
  <2> QED BY <2>1, <2>3 DEF KeyIs, Is
<1>6. /\ h.op = "delete" /\ h.cat = k /\ h.name = n /\ h.hit = n /\ h.at = "awake" /\ h.more = 1
  BY <1>2, <1>3, <1>5 DEF After, Handlers, Deleting
<1> HIDE DEF h
<1>7. handler'[i] = h /\ \A j \in Ids \ {i} : handler'[j] = handler[j] BY <1>0, <1>1 DEF Steps, HandlersOK
<1>8. i \in asked[t] /\ chosen[t] = None BY <1>4 DEF DeleteInv, AskedOnce
<1>9. ASSUME NEW j \in Ids, Alive(j, k)' PROVE j = i
  <2> SUFFICES ASSUME j # i PROVE FALSE OBVIOUS
  <2>1. Alive(j, k) BY <1>7, <1>9 DEF Alive, Deleting
  <2> QED BY <1>8, <2>1 DEF DeleteInv, AskedOnce
<1>10. n # None BY <1>2, ConstantsAssumption
<1>11. HitsNamed(k)'
  <2> SUFFICES ASSUME NEW j \in Ids, Deleting(j, k)'
               PROVE  /\ handler'[j].hit \in {None, handler'[j].name} /\ (GateOf(j)' => handler'[j].hit = None)
                      /\ handler'[j].more \in 0..2
    BY DEF HitsNamed
  <2>1. CASE j = i BY <1>6, <1>7, <2>1 DEF GateOf, Commands
  <2>2. CASE j # i BY <1>7, <2>2 DEF Deleting, GateOf, DeleteInv, HitsNamed
  <2> QED BY <2>1, <2>2
<1>12. AskedOnce(k, t)' BY <1>1, <1>8, <1>9 DEF DeleteInv, AskedOnce
<1>13. Aimed(k, t)' BY <1>1, <1>6, <1>7, <1>8, <1>9, <1>10 DEF Aimed
<1>14. Alive(i, k)' /\ Deleting(i, k)' /\ handler'[i].hit # None BY <1>6, <1>7, <1>10 DEF Alive, Deleting
<1>15. InStep(k, t)' BY <1>1, <1>8, <1>14 DEF InStep
<1> QED BY <1>11, <1>12, <1>13, <1>15 DEF DeleteInv

LEMMA FailedDeletes ==
  ASSUME Types, NEW k \in Cats, NEW t \in Clients, DeleteInv(k, t), NEW i, Fails(i),
         Deleting(i, k) => GateOf(i), UNCHANGED <<asked, rows, chosen>>
  PROVE  DeleteInv(k, t)'
<1> DEFINE h == [handler[i] EXCEPT !.at = "failed"]
<1>1. Runs(i) /\ Steps(i, h) /\ UNCHANGED <<deviceVars, cache>> BY DEF Fails
<1>2. i \in Ids /\ handler[i] \in Handlers BY <1>1, AtHead DEF Types
<1>3. /\ h.op = handler[i].op /\ h.cat = handler[i].cat /\ h.name = handler[i].name /\ h.idx = handler[i].idx
      /\ h.hit = handler[i].hit /\ h.more = handler[i].more /\ h.at = "failed"
  BY <1>2 DEF Handlers
<1> HIDE DEF h
<1>4. Deleting(i, k) => h.hit = None BY <1>2, <1>3 DEF DeleteInv, HitsNamed
<1>5. Begins(keys[k], keys'[k]) /\ cache'[k] = cache[k] BY <1>1, BeginsSame DEF deviceVars
<1> QED BY <1>1, <1>2, <1>3, <1>4, <1>5, HandlerDeletes

\* A read, or the sync after a write.
LEMMA ReadDeletes ==
  ASSUME Types, NEW k \in Cats, NEW t \in Clients, DeleteInv(k, t), NEW i, Runs(i), NEW g \in Handlers,
         Steps(i, After(g)), g.op = handler[i].op, g.cat = handler[i].cat, g.name = handler[i].name,
         g.idx = handler[i].idx, g.at = handler[i].at, g.more = handler[i].more,
         UNCHANGED <<keys, asked, rows, chosen>>, cache'[k] \in {cache[k], keys[k]},
         Deleting(i, k) => g.hit = handler[i].hit /\ cache'[k] = keys[k] /\ ~GateOf(i)
  PROVE  DeleteInv(k, t)'
<1> DEFINE h == After(g)
<1>1. i \in Ids /\ handler[i] \in Handlers /\ Fit(handler[i]) /\ handler[i].at \in {"queued", "left"}
  BY AtHead DEF Types
<1>2. /\ h.op = g.op /\ h.cat = g.cat /\ h.name = g.name /\ h.idx = g.idx /\ h.hit = g.hit
      /\ h.at \in {"awake", "ok"} /\ (h.at = "awake" => g.at = "queued") /\ h.more = g.more - 1
  BY <1>1 DEF After, Handlers
<1> HIDE DEF h
<1>3. Steps(i, h) BY DEF h
<1>4. Deleting(i, k) => h.more \in 0..1
  <2> SUFFICES ASSUME Deleting(i, k) PROVE h.more \in 0..1 OBVIOUS
  <2>1. handler[i].more \in 0..2 /\ handler[i].more # 2 BY <1>1 DEF DeleteInv, HitsNamed, GateOf, Commands, Deleting
  <2>2. handler[i].more # 0 BY <1>1 DEF Fit, Deleting, Open
  <2> QED BY <1>2, <2>1, <2>2
<1> QED BY <1>1, <1>2, <1>3, <1>4, BeginsSame, HandlerDeletes

LEMMA AppendBegins ==
  ASSUME NEW S, NEW s \in Seq(S), NEW e \in S
  PROVE  Begins(s, Append(s, e))
<1>1. /\ Len(Append(s, e)) = Len(s) + 1 /\ Len(s) \in Nat /\ DOMAIN s = 1..Len(s)
      /\ \A x \in DOMAIN s : Append(s, e)[x] = s[x]
  BY Appended
<1> QED BY <1>1 DEF Begins

LEMMA DaemonDeletes ==
  ASSUME Types, NEW k \in Cats \ Flaky, NEW t \in Clients, DeleteInv(k, t), DaemonNext
  PROVE  DeleteInv(k, t)'
<1>0. DeviceOK /\ DaemonOK /\ HandlersOK BY DEF Types, DaemonOK
<1>1. UNCHANGED <<asked, rows, chosen>> BY DaemonFrame DEF listVars
<1>2. CASE CancelArrives
  <2>1. ASSUME Fails(Head(queue)), GateOf(Head(queue)) PROVE DeleteInv(k, t)' BY <1>1, <2>1, FailedDeletes
  <2>2. CASE UNCHANGED <<deviceVars, queue, handler, cache, slot>>
    BY <1>1, <2>2, DeletesKept DEF deviceVars, Deleting
  <2> QED BY <1>2, <2>1, <2>2 DEF CancelArrives
<1>3. ASSUME NEW i \in Ids, Touched(i) PROVE DeleteInv(k, t)'
  <2>1. CASE Deleting(i, k) BY <1>3, <2>1, TouchedDeletes
  <2>2. CASE ~Deleting(i, k)
    <3> DEFINE n == IF handler[i].op = "add" THEN handler[i].name ELSE Is(handler[i].cat, handler[i].idx)
               h == After([handler[i] EXCEPT !.hit = n])
    <3>1. Runs(i) /\ Steps(i, h) /\ cache' = cache BY <1>3 DEF Touched
    <3>2. /\ handler[i] \in Handlers /\ handler[i].op \in Ops /\ handler[i].cat \in Cats /\ handler[i].name \in Names
      BY <1>0, <3>1, AtHead
    <3>3. /\ h.op = handler[i].op /\ h.cat = handler[i].cat /\ h.name = handler[i].name /\ h.idx = handler[i].idx
      BY <3>2 DEF After, Handlers
    <3> HIDE DEF h
    <3>4. Begins(keys[k], keys'[k])
      <4>0. keys \in [Cats -> Seq(Names)] BY <1>0 DEF DeviceOK
      <4>1. CASE handler[i].op = "add"
        <5>1. keys' = [keys EXCEPT ![handler[i].cat] = Append(@, handler[i].name)] BY <1>3, <4>1 DEF Touched
        <5>2. keys'[k] \in {keys[k], Append(keys[k], handler[i].name)} BY <4>0, <5>1
        <5>3. keys[k] \in Seq(Names) BY <4>0
        <5> QED BY <3>2, <5>2, <5>3, AppendBegins, BeginsSame
      <4>2. CASE handler[i].op = "delete"
        <5>1. keys' = [keys EXCEPT ![handler[i].cat] = RemoveAt(@, handler[i].idx + 1)] BY <1>3, <4>2 DEF Touched
        <5>2. handler[i].cat # k BY <2>2, <4>2 DEF Deleting
        <5>3. keys'[k] = keys[k] BY <4>0, <5>1, <5>2
        <5> QED BY <5>3, BeginsSame
      <4>3. CASE handler[i].op \in {"sign", "get"}
        <5>1. keys' = keys BY <1>3, <4>3 DEF Touched, deviceVars
        <5> QED BY <5>1, BeginsSame
      <4> QED BY <3>2, <4>1, <4>2, <4>3 DEF Ops
    <3> QED BY <1>1, <2>2, <3>1, <3>3, <3>4, HandlerDeletes
  <2> QED BY <2>1, <2>2
<1>4. ASSUME NEW i \in Ids, Refused(i) \/ ReadFails(i) PROVE DeleteInv(k, t)'
  <2>1. Fails(i) /\ (Deleting(i, k) => GateOf(i)) BY <1>4 DEF Refused, GateFails, ReadFails, Deleting
  <2> QED BY <1>1, <2>1, FailedDeletes
<1>5. ASSUME NEW i \in Ids, FollowUp(i) PROVE DeleteInv(k, t)'
  <2> DEFINE h == [handler[i] EXCEPT !.at = "queued"]
  <2>1. /\ Steps(i, h) /\ handler[i].at = "awake" /\ handler[i] \in Handlers /\ keys' = keys /\ cache' = cache
    BY <1>0, <1>5 DEF FollowUp, HandlersOK, deviceVars
  <2>2. /\ h.op = handler[i].op /\ h.cat = handler[i].cat /\ h.name = handler[i].name /\ h.idx = handler[i].idx
        /\ h.hit = handler[i].hit /\ h.more = handler[i].more /\ h.at = "queued"
    BY <2>1 DEF Handlers
  <2> HIDE DEF h
  <2> QED BY <1>1, <2>1, <2>2, BeginsSame, HandlerDeletes
<1>6. ASSUME NEW i \in Ids, Syncs(i) \/ SyncFails(i) PROVE DeleteInv(k, t)'
  <2>1. Runs(i) /\ Steps(i, After(handler[i])) /\ UNCHANGED keys /\ ~GateOf(i) BY <1>6 DEF Syncs, SyncFails, deviceVars
  <2>2. cache \in [Cats -> Seq(Names)] BY <1>0 DEF DeviceOK
  <2>3. cache'[k] \in {cache[k], keys[k]} BY <1>6, <2>2 DEF Syncs, SyncFails
  <2>4. Deleting(i, k) => cache'[k] = keys[k] BY <1>6 DEF Syncs, SyncFails, Deleting
  <2>5. handler[i] \in Handlers BY <1>0, <2>1, AtHead
  <2> QED BY <1>1, <2>1, <2>3, <2>4, <2>5, ReadDeletes
<1>7. ASSUME NEW i \in Ids, ReadSecret(i) PROVE DeleteInv(k, t)'
  <2> DEFINE g == [handler[i] EXCEPT !.hit = Is(handler[i].cat, handler[i].idx)]
  <2>1. Runs(i) /\ Steps(i, After(g)) /\ handler[i].op = "get" /\ UNCHANGED <<keys, cache>>
        /\ Is(handler[i].cat, handler[i].idx) # None
    BY <1>7 DEF ReadSecret, deviceVars
  <2>2. handler[i] \in Handlers /\ handler[i].cat \in Cats /\ handler[i].idx \in Nat BY <1>0, <2>1, AtHead DEF Handlers
  <2>3. Is(handler[i].cat, handler[i].idx) \in Names BY <1>0, <2>1, <2>2, IsAKey
  <2>4. /\ g \in Handlers /\ g.op = handler[i].op /\ g.cat = handler[i].cat /\ g.name = handler[i].name
        /\ g.idx = handler[i].idx /\ g.at = handler[i].at /\ g.more = handler[i].more
    BY <2>2, <2>3 DEF Handlers
  <2>5. ~Deleting(i, k) BY <2>1 DEF Deleting
  <2> HIDE DEF g
  <2> QED BY <1>1, <2>1, <2>4, <2>5, ReadDeletes
<1>8. ASSUME NEW i \in Ids, ReadSignature(i) PROVE DeleteInv(k, t)'
  <2> DEFINE g == [handler[i] EXCEPT !.sig = Append(@, result)]
  <2>1. Runs(i) /\ Steps(i, After(g)) /\ handler[i].op = "sign" /\ UNCHANGED <<keys, cache>> /\ result # None
    BY <1>8 DEF ReadSignature, deviceVars
  <2>2. handler[i] \in Handlers /\ result \in Signature BY <1>0, <2>1, AtHead DEF DeviceOK
  <2>3. /\ g \in Handlers /\ g.op = handler[i].op /\ g.cat = handler[i].cat /\ g.name = handler[i].name
        /\ g.idx = handler[i].idx /\ g.at = handler[i].at /\ g.more = handler[i].more
    BY <2>2, AppendProperties DEF Handlers
  <2>4. ~Deleting(i, k) BY <2>1 DEF Deleting
  <2> HIDE DEF g
  <2> QED BY <1>1, <2>1, <2>3, <2>4, ReadDeletes
<1> QED BY <1>2, <1>3, <1>4, <1>5, <1>6, <1>7, <1>8 DEF DaemonNext

\* Whatever other clients ask for and hear, they delete nothing from k.
LEMMA OthersDelete ==
  ASSUME Types, NEW k, NEW t, Sole(k, t), DeleteInv(k, t), NEW c \in Clients \ {t}, Acts(c)
  PROVE  DeleteInv(k, t)'
<1>0. DeviceOK /\ DaemonOK /\ ListsOK /\ HandlersOK /\ AskedOK /\ t \in Clients
  BY DEF Types, DaemonOK, Sole, Clients
<1>1. keys'[k] = keys[k] /\ cache'[k] = cache[k] BY <1>0, ClientFrame DEF deviceVars
<1>2. rows'[t][k] = rows[t][k] /\ chosen'[t] = chosen[t]
  <2>1. RowsStep(c) /\ ChosenStep(c) BY <1>0, ListSteps
  <2>2. rows'[t] = rows[t] BY <1>0, <2>1 DEF RowsStep, Lists, ListsOK
  <2>3. chosen'[t] = chosen[t] BY <1>0, <2>1 DEF ChosenStep, AsksWhether, ListsOK
  <2> QED BY <2>2, <2>3
<1>3. /\ asked'[t] = asked[t]
      /\ \A j \in Ids : Deleting(j, k)' = Deleting(j, k) /\ (Deleting(j, k) => handler'[j] = handler[j])
  <2>1. CASE AsksFor(c)
    <3>1. PICK i \in Ids, h \in Handlers : Enters(i, h) /\ Waits(c, i) /\ RequestOf(c, h) BY <2>1 DEF AsksFor
    <3>2. /\ handler'[i] = h /\ \A j \in Ids \ {i} : handler'[j] = handler[j]
          /\ handler[i].at = "unused"
      BY <1>0, <3>1 DEF Enters, Fresh, HandlersOK
    <3>3. handler[i].op = None /\ None # "delete" BY <1>0, <3>2, UnusedIs, UnusedOp, ConstantsAssumption DEF Ops
    <3>4. ~(h.op = "delete" /\ h.cat = k)
      <4>1. h.op = "delete" => h.cat \in Deletable[c] BY <3>1 DEF RequestOf
      <4> QED BY <4>1 DEF Sole, Deleters
    <3>5. asked'[t] = asked[t] BY <1>0, <3>1 DEF Waits, AskedOK
    <3> QED BY <3>2, <3>3, <3>4, <3>5 DEF Deleting
  <2>2. CASE Quiet(c) BY <1>0, <2>2 DEF Quiet, Hears, AskedOK, Deleting
  <2>3. ASSUME c \in Signers, NEW i \in Ids, Leaves(c, i)
        PROVE  /\ asked'[t] = asked[t]
               /\ \A j \in Ids : Deleting(j, k)' = Deleting(j, k) /\ (Deleting(j, k) => handler'[j] = handler[j])
    <3> DEFINE h == [handler[i] EXCEPT !.at = "left"]
    <3>1. /\ i \in asked[c] /\ handler[i].at = "queued" /\ handler' = [handler EXCEPT ![i] = h]
          /\ asked' = [asked EXCEPT ![c] = @ \ {i}]
      BY <2>3 DEF Leaves, Steps, Hears
    <3>2. handler[i].by \in Signers /\ handler[i] \in Handlers /\ Fit(handler[i]) BY <1>0, <2>3, <3>1 DEF AskedOK, HandlersOK
    <3>3. handler[i].op = "sign" /\ h.op = "sign" BY <3>1, <3>2 DEF Fit, Handlers
    <3> HIDE DEF h
    <3>4. handler'[i] = h /\ \A j \in Ids \ {i} : handler'[j] = handler[j] BY <1>0, <3>1 DEF HandlersOK
    <3> QED BY <1>0, <3>1, <3>3, <3>4 DEF AskedOK, Deleting
  <2> QED BY <1>0, <2>1, <2>2, <2>3, ClientSteps
<1> QED BY <1>0, <1>1, <1>2, <1>3, DeletesKept

\* What the terminal asks for, it asks for when it waits for nothing; a delete goes to
\* the row its user was asked about.
LEMMA TermAsks ==
  ASSUME Types, NEW t \in Terms, NEW i \in Ids, SubmitKey(t, i) \/ KeyValue(t, i) \/ ConfirmDelete(t, i)
  PROVE  /\ asked[t] = {} /\ Waits(t, i) /\ UNCHANGED rows /\ chosen'[t] = None
         /\ \E h : /\ Enters(i, h) /\ h.hit = None /\ h.more \in {Commands(h.op)} /\ h.op \in {"add", "get", "delete"}
                   /\ h.op = "delete" => chosen[t] # None /\ h.cat = chosen[t].cat
                                         /\ h.name = chosen[t].name /\ h.idx = chosen[t].idx
<1>0. chosen \in [Clients -> Row \cup {None}] /\ t \in Clients BY DEF Types, ListsOK, Clients
<1>1. ASSUME NEW op \in {"add", "get", "delete"}, NEW k, NEW n, NEW idx, NEW at
      PROVE  LET h == Handler(t, op, k, n, idx, at)
             IN  h.hit = None /\ h.more = Commands(h.op) /\ h.op = op /\ h.cat = k /\ h.name = n /\ h.idx = idx
  BY DEF Handler
<1>2. CASE SubmitKey(t, i)
  <2>1. PICK k, n : KeyAdd(t, i, k, n) BY <1>2 DEF SubmitKey, KeyGenerate, KeyAddEntry
  <2>2. asked[t] = {} /\ chosen[t] = None BY <1>2 DEF SubmitKey, EnterAdd, Normal, Busy
  <2>3. Waits(t, i) /\ UNCHANGED <<rows, chosen>> BY <1>2 DEF SubmitKey
  <2>4. Enters(i, Handler(t, "add", k, n, 0, "queued")) BY <2>1 DEF KeyAdd
  <2> QED BY <1>1, <2>2, <2>3, <2>4
<1>3. CASE KeyValue(t, i)
  <2>1. PICK k, n : GetKey(t, i, k, n) BY <1>3 DEF KeyValue, ShowApi, ShowOtp
  <2>2. asked[t] = {} /\ chosen[t] = None BY <1>3 DEF KeyValue, Normal, Busy
  <2>3. Waits(t, i) /\ UNCHANGED <<rows, chosen>> BY <1>3 DEF KeyValue
  <2>4. \E idx, at : Enters(i, Handler(t, "get", k, n, idx, at)) BY <2>1 DEF GetKey, Reads
  <2> QED BY <1>1, <2>2, <2>3, <2>4
<1>4. CASE ConfirmDelete(t, i)
  <2>1. /\ asked[t] = {} /\ Waits(t, i) /\ UNCHANGED rows /\ chosen[t] # None
        /\ chosen' = [chosen EXCEPT ![t] = None]
        /\ KeyDelete(t, i, chosen[t].cat, chosen[t].name, chosen[t].idx)
    BY <1>4 DEF ConfirmDelete, Confirms, Busy
  <2>2. Enters(i, Handler(t, "delete", chosen[t].cat, chosen[t].name, chosen[t].idx, "queued"))
    BY <2>1 DEF KeyDelete
  <2> QED BY <1>0, <1>1, <2>1, <2>2
<1> QED BY <1>2, <1>3, <1>4

LEMMA TermAsksDelete ==
  ASSUME Types, NEW k \in Cats, NEW t \in Terms, DeleteInv(k, t), NEW i \in Ids,
         SubmitKey(t, i) \/ KeyValue(t, i) \/ ConfirmDelete(t, i)
  PROVE  DeleteInv(k, t)'
<1>0. HandlersOK /\ AskedOK /\ t \in Clients BY DEF Types, DaemonOK, Clients
<1>1. /\ asked[t] = {} /\ Waits(t, i) /\ UNCHANGED rows /\ chosen'[t] = None
      /\ \E h : /\ Enters(i, h) /\ h.hit = None /\ h.more \in {Commands(h.op)} /\ h.op \in {"add", "get", "delete"}
                /\ h.op = "delete" => chosen[t] # None /\ h.cat = chosen[t].cat
                                      /\ h.name = chosen[t].name /\ h.idx = chosen[t].idx
  BY TermAsks
<1>2. PICK h : /\ Enters(i, h) /\ h.hit = None /\ h.more = Commands(h.op)
               /\ h.op = "delete" => chosen[t] # None /\ h.cat = chosen[t].cat
                                     /\ h.name = chosen[t].name /\ h.idx = chosen[t].idx
  BY <1>1
<1>3. /\ handler'[i] = h /\ \A j \in Ids \ {i} : handler'[j] = handler[j]
      /\ keys' = keys /\ cache' = cache
  BY <1>0, <1>2 DEF Enters, HandlersOK, deviceVars
<1>4. asked'[t] = {i} BY <1>0, <1>1 DEF Waits, AskedOK
<1>5. \A j \in Ids : ~Alive(j, k) BY <1>1 DEF DeleteInv, AskedOnce
<1>6. Begins(cache[k], keys[k]) /\ Begins(rows[t][k], keys[k]) BY <1>1, <1>5 DEF DeleteInv, InStep
<1>7. ASSUME NEW j \in Ids, Alive(j, k)' PROVE j = i BY <1>3, <1>5, <1>7 DEF Alive, Deleting
<1>8. HitsNamed(k)'
  <2> SUFFICES ASSUME NEW j \in Ids, Deleting(j, k)'
               PROVE  /\ handler'[j].hit \in {None, handler'[j].name} /\ (GateOf(j)' => handler'[j].hit = None)
                      /\ handler'[j].more \in 0..2
    BY DEF HitsNamed
  <2>1. CASE j = i BY <1>2, <1>3, <2>1 DEF Deleting, Commands
  <2>2. CASE j # i BY <1>3, <2>2 DEF Deleting, GateOf, DeleteInv, HitsNamed
  <2> QED BY <2>1, <2>2
<1>9. AskedOnce(k, t)' BY <1>1, <1>4, <1>7 DEF AskedOnce
<1>10. Aimed(k, t)'
  <2> SUFFICES ASSUME NEW j \in Ids, Alive(j, k)' PROVE KeyIs(k, handler[j].idx, handler[j].name)'
    BY <1>1 DEF Aimed
  <2>1. j = i /\ h.op = "delete" /\ h.cat = k BY <1>3, <1>7 DEF Alive, Deleting
  <2>2. KeyIs(k, h.idx, h.name) BY <1>2, <2>1 DEF DeleteInv, Aimed
  <2> QED BY <1>3, <2>1, <2>2 DEF KeyIs
<1>11. InStep(k, t)' BY <1>1, <1>3, <1>6 DEF InStep
<1> QED BY <1>8, <1>9, <1>10, <1>11 DEF DeleteInv

\* The answer to a write brings the rows up to date; after any other they still are.
LEMMA TermHearsDelete ==
  ASSUME Types, NEW k \in Cats, NEW t \in Terms \ Impatient, DeleteInv(k, t), NEW i \in Ids, TermHears(t, i)
  PROVE  DeleteInv(k, t)'
<1>0. AskedOK /\ ListsOK /\ t \in Clients BY DEF Types, DaemonOK, Clients
<1>1. /\ i \in asked[t] /\ handler[i].at \in {"ok", "failed"} /\ asked' = [asked EXCEPT ![t] = @ \ {i}]
      /\ UNCHANGED <<keys, cache, handler, chosen>>
      /\ \/ handler[i].op = "get" /\ UNCHANGED rows
         \/ rows' = [rows EXCEPT ![t] = cache]
  BY DEF TermHears, Good, Bad, Hears, Refreshes, Lists, deviceVars, daemonVars
<1>2. \A j \in asked[t] : j = i BY <1>1 DEF DeleteInv, AskedOnce
<1>3. asked'[t] = {} /\ chosen[t] = None BY <1>0, <1>1, <1>2 DEF AskedOK, DeleteInv, AskedOnce
<1>4. \A j \in Ids : ~Alive(j, k) BY <1>1, <1>2 DEF DeleteInv, AskedOnce, Alive
<1>5. Begins(cache[k], keys[k]) BY <1>4 DEF DeleteInv, InStep
<1>6. Begins(rows'[t][k], keys[k])
  <2>1. CASE handler[i].op = "get" /\ UNCHANGED rows
    <3>1. \A j \in asked[t] : ~Deleting(j, k) BY <1>2, <2>1 DEF Deleting
    <3> QED BY <2>1, <3>1 DEF DeleteInv, InStep
  <2>2. CASE rows' = [rows EXCEPT ![t] = cache] BY <1>0, <1>5, <2>2 DEF ListsOK
  <2> QED BY <1>1, <2>1, <2>2
<1>7. \A j \in Ids : ~Alive(j, k)' BY <1>1, <1>4 DEF Alive, Deleting
<1>8. HitsNamed(k)' BY <1>1 DEF DeleteInv, HitsNamed, Deleting, GateOf
<1>9. AskedOnce(k, t)' BY <1>3, <1>7 DEF AskedOnce
<1>10. Aimed(k, t)' BY <1>1, <1>3, <1>7 DEF Aimed
<1>11. InStep(k, t)' BY <1>1, <1>5, <1>6 DEF InStep
<1> QED BY <1>8, <1>9, <1>10, <1>11 DEF DeleteInv

\* A step of the terminal that deletes.
LEMMA TermDeletes ==
  ASSUME Types, NEW k, NEW t, Sole(k, t), DeleteInv(k, t), TermNext(t)
  PROVE  DeleteInv(k, t)'
<1>0. ListsOK /\ t \in Clients /\ t \in Terms \ Impatient /\ k \in Cats BY DEF Types, Sole, Clients
<1>1. CASE RefreshKeys(t)
  <2>1. rows' = [rows EXCEPT ![t] = cache] /\ UNCHANGED <<keys, cache, handler, asked, chosen>>
    BY <1>1 DEF RefreshKeys, Lists, deviceVars, daemonVars
  <2>2. rows'[t] = cache BY <1>0, <2>1 DEF ListsOK
  <2>3. HitsNamed(k)' BY <2>1 DEF DeleteInv, HitsNamed, Deleting, GateOf
  <2>4. AskedOnce(k, t)' BY <2>1 DEF DeleteInv, AskedOnce, Alive, Deleting
  <2>5. Aimed(k, t)' BY <2>1 DEF DeleteInv, Aimed, Alive, Deleting, KeyIs
  <2>6. InStep(k, t)'
    <3>1. ASSUME \A j \in asked[t] : Deleting(j, k) => handler[j].hit = None PROVE Begins(cache[k], keys[k])
      <4>1. \A j \in Ids : Alive(j, k) => handler[j].hit = None BY <3>1 DEF DeleteInv, AskedOnce, Alive
      <4> QED BY <4>1 DEF DeleteInv, InStep
    <3>2. (\A j \in Ids : Alive(j, k) => handler[j].hit = None) => Begins(cache[k], keys[k]) BY DEF DeleteInv, InStep
    <3> QED BY <2>1, <2>2, <3>1, <3>2 DEF InStep, Alive, Deleting
  <2> QED BY <2>3, <2>4, <2>5, <2>6 DEF DeleteInv
<1>2. CASE EnterDelete(t)
  <2>1. asked[t] = {} /\ AsksWhether(t) /\ UNCHANGED <<keys, cache, handler, asked, rows>>
    BY <1>2 DEF EnterDelete, Busy, AsksWhether, deviceVars, daemonVars
  <2>2. PICK m \in Deletable[t] : \E x \in DOMAIN rows[t][m] :
          chosen' = [chosen EXCEPT ![t] = [cat |-> m, name |-> rows[t][m][x], idx |-> x - 1]]
    BY <2>1 DEF AsksWhether
  <2>3. PICK x \in DOMAIN rows[t][m] :
          chosen' = [chosen EXCEPT ![t] = [cat |-> m, name |-> rows[t][m][x], idx |-> x - 1]]
    BY <2>2
  <2>4. chosen'[t].cat = m /\ chosen'[t].name = rows[t][m][x] /\ chosen'[t].idx = x - 1 BY <1>0, <2>3 DEF ListsOK
  <2>5. m = k => KeyIs(k, x - 1, rows[t][k][x])
    <3>1. Begins(rows[t][k], keys[k]) BY <2>1 DEF DeleteInv, InStep
    <3>2. rows[t][k] \in Seq(Names) BY <1>0 DEF ListsOK
    <3>3. DOMAIN rows[t][k] = 1..Len(rows[t][k]) /\ Len(rows[t][k]) \in Nat BY <3>2, InRange
    <3>4. m = k => x \in 1..Len(rows[t][k]) /\ (x - 1) + 1 = x BY <2>3, <3>3
    <3> QED BY <3>1, <3>4 DEF Begins, KeyIs
  <2>6. HitsNamed(k)' BY <2>1 DEF DeleteInv, HitsNamed, Deleting, GateOf
  <2>7. AskedOnce(k, t)' BY <2>1 DEF DeleteInv, AskedOnce, Alive, Deleting
  <2>8. Aimed(k, t)'
    <3>1. \A j \in Ids : ~Alive(j, k)' BY <2>1 DEF DeleteInv, AskedOnce, Alive, Deleting
    <3> QED BY <2>1, <2>4, <2>5, <3>1 DEF Aimed, KeyIs
  <2>9. InStep(k, t)' BY <2>1 DEF DeleteInv, InStep, Alive, Deleting
  <2> QED BY <2>6, <2>7, <2>8, <2>9 DEF DeleteInv
<1>3. CASE Declines(t)
  <2>1. chosen'[t] = None /\ UNCHANGED <<keys, cache, handler, asked, rows>>
    BY <1>0, <1>3 DEF Declines, deviceVars, daemonVars, ListsOK
  <2>2. HitsNamed(k)' BY <2>1 DEF DeleteInv, HitsNamed, Deleting, GateOf
  <2>3. AskedOnce(k, t)' BY <2>1 DEF DeleteInv, AskedOnce, Alive, Deleting
  <2>4. Aimed(k, t)' BY <2>1 DEF DeleteInv, Aimed, Alive, Deleting, KeyIs
  <2>5. InStep(k, t)' BY <2>1 DEF DeleteInv, InStep, Alive, Deleting
  <2> QED BY <2>2, <2>3, <2>4, <2>5 DEF DeleteInv
<1>4. ASSUME NEW i \in Ids, SubmitKey(t, i) \/ KeyValue(t, i) \/ ConfirmDelete(t, i) PROVE DeleteInv(k, t)'
  BY <1>0, <1>4, TermAsksDelete
<1>5. ASSUME NEW i \in Ids, TermHears(t, i) PROVE DeleteInv(k, t)' BY <1>0, <1>5, TermHearsDelete
<1> QED BY <1>1, <1>2, <1>3, <1>4, <1>5 DEF TermNext

LEMMA SoleDeletes == Spec => [](\A k, t : Sole(k, t) => DeleteInv(k, t))
<1> DEFINE Inv == \A k, t : Sole(k, t) => DeleteInv(k, t)
<1>1. Init => Inv
  <2> SUFFICES ASSUME Init, NEW k, NEW t, Sole(k, t) PROVE DeleteInv(k, t) OBVIOUS
  <2>0. t \in Clients /\ k \in Cats BY DEF Sole, Clients
  <2>1. \A i \in Ids : handler[i].op = None BY UnusedOp DEF Init
  <2>2. None # "delete" BY ConstantsAssumption DEF Ops
  <2>3. asked[t] = {} /\ chosen[t] = None /\ rows[t] = Kept /\ cache = Kept /\ keys = Kept BY <2>0 DEF Init
  <2>4. HitsNamed(k) BY <2>1, <2>2 DEF HitsNamed, Deleting
  <2>5. AskedOnce(k, t) BY <2>1, <2>2, <2>3 DEF AskedOnce, Alive, Deleting
  <2>6. Aimed(k, t) BY <2>1, <2>2, <2>3 DEF Aimed, Alive, Deleting
  <2>7. InStep(k, t) BY <2>3, BeginsSame DEF InStep
  <2> QED BY <2>4, <2>5, <2>6, <2>7 DEF DeleteInv
<1>2. Types /\ Inv /\ [Next]_vars => Inv'
  <2> SUFFICES ASSUME Types, Inv, [Next]_vars, NEW k, NEW t, Sole(k, t) PROVE DeleteInv(k, t)' OBVIOUS
  <2>0. t \in Clients /\ k \in Cats \ Flaky /\ DeleteInv(k, t) BY DEF Sole, Clients
  <2>1. CASE DaemonNext BY <2>0, <2>1, DaemonDeletes
  <2>2. CASE UserCopies \/ UNCHANGED vars
    BY <2>0, <2>2, DeletesKept DEF UserCopies, vars, deviceVars, daemonVars, listVars, Deleting
  <2>3. ASSUME NEW c \in Clients, Acts(c) PROVE DeleteInv(k, t)'
    <3>1. CASE c # t BY <2>0, <2>3, <3>1, OthersDelete
    <3>2. CASE c = t
      <4>1. TermNext(t) BY <2>3, <3>2, ConstantsAssumption DEF Acts, Sole
      <4> QED BY <2>0, <4>1, TermDeletes
    <3> QED BY <3>1, <3>2
  <2> QED BY <2>1, <2>2, <2>3, NextSteps
<1> QED BY <1>1, <1>2, TypesHold, PTL DEF Spec

\* Of each category nobody deletes, or one patient terminal does, or it never holds
\* another key than one.
DeletesApart ==
  \A k \in Cats : \/ Deleters(k) = {}
                  \/ \E t : Sole(k, t)
                  \/ \E n : NamesOf(k) \subseteq {n}

\* A delete that a user has confirmed meets the key that was named to them, though it goes
\* by the index of a row: whatever is added in between, by this client or by others, and
\* however late answers, syncs and refreshes come.  It needs a client that asks for one thing
\* at a time, as the terminal does (KeyClients_page shows the other), that nobody else deletes
\* from its category, that its 60 s outlast its requests, and that the sync after a delete
\* succeeds; a category of one key has no index to slip.  (confirm_key_delete, refresh_keys)
THEOREM DeletesAreConfirmed == ASSUME DeletesApart PROVE Spec => []DeletesConfirmed
<1> DEFINE Inv == \A k, t : Sole(k, t) => DeleteInv(k, t)
<1>1. Types /\ Filed /\ Inv => DeletesConfirmed
  <2> SUFFICES ASSUME Types, Filed, Inv, NEW i \in Ids, handler[i].op = "delete"
               PROVE  handler[i].hit \in {None, handler[i].name}
    BY DEF DeletesConfirmed
  <2> DEFINE k == handler[i].cat
  <2>1. handler[i].at # "unused" /\ Fit(handler[i])
    <3>1. HandlersOK BY DEF Types, DaemonOK
    <3>2. None # "delete" BY ConstantsAssumption DEF Ops
    <3> QED BY <3>1, <3>2, UnusedIs, UnusedOp DEF HandlersOK
  <2>2. k \in Cats /\ handler[i].by \in Clients BY <2>1 DEF Fit
  <2>3. FiledAs(handler[i]) BY DEF Filed, FiledRequests
  <2>4. Deleters(k) # {} BY <2>2, <2>3 DEF FiledAs, Deleters
  <2>5. ASSUME NEW t, Sole(k, t) PROVE handler[i].hit \in {None, handler[i].name}
    BY <2>5 DEF DeleteInv, HitsNamed, Deleting
  <2>6. ASSUME NEW n, NamesOf(k) \subseteq {n} PROVE handler[i].hit \in {None, handler[i].name}
    BY <2>3, <2>6 DEF FiledAs
  <2> QED BY <2>2, <2>4, <2>5, <2>6 DEF DeletesApart
<1>2. Spec => []Inv BY SoleDeletes
<1> QED BY <1>1, <1>2, TypesHold, FiledHolds, PTL

=============================================================================
