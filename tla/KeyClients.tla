----------------------------- MODULE KeyClients -----------------------------
(***************************************************************************)
(* Who uses the keys of the device, and where their secrets go.            *)
(*                                                                         *)
(* Clients list keys from the daemon's cache and then ask by what they saw:*)
(* a row's index to delete, a name to read, a public key to sign with.     *)
(* Each request has a handler in the daemon, which sends the device one    *)
(* command at a time through a queue all handlers share.  The first of a   *)
(* request waits for a touch; what follows it (the rest of an answer, the  *)
(* signature, the sync of the cache) is queued again, behind whatever came *)
(* in between.  A client may be gone when the answer comes.                *)
(*                                                                         *)
(* The desktop's keys page shows a code for a while, its quick-fill panel  *)
(* leaves a secret on the clipboard and takes it back.                     *)
(***************************************************************************)
EXTENDS Naturals, Sequences, SequencesExt

CONSTANTS
  Pages, Fills, \* the desktop's keys page, its quick-fill panel
  Terms,        \* terminal interfaces
  Shells,       \* command lines: immurok-cli key, imk
  Signers,      \* connections to the SSH agent
  Crews,        \* which of them run in the same behaviour: one of these sets
  None,         \* nothing
  Cats,         \* the categories of keys
  Kept,         \* category -> the keys on the device at the start
  New,          \* category -> the keys people may add
  File,         \* the entries of an export, in their order
  Deletable,    \* client -> the categories it deletes from
  Impatient,    \* the clients whose timeout may be up before the answer
  Flaky,        \* the categories whose requests may fail after their touch
  MaxKeys,      \* capacity of a category
  MaxRequests,  \* bound: crew -> requests in a behaviour
  MaxGens       \* bound: how often a page forgets its codes

Clients == Pages \cup Fills \cup Terms \cup Shells \cup Signers
Names   == (UNION {Range(Kept[k]) \cup New[k] : k \in Cats}) \cup Range(File)
Ids     == 1..Max({MaxRequests[w] : w \in Crews})
Ops     == {"add", "delete", "get", "sign"}

ASSUME ConstantsAssumption ==
  /\ Cats = {"ssh", "otp", "api"} /\ File \in Seq(Names)
  /\ Kept \in [Cats -> Seq(Names)] /\ \A k \in Cats : Len(Kept[k]) <= MaxKeys
  /\ None \notin Names \cup Clients \cup Ops
  /\ Fills \cap (Pages \cup Terms \cup Shells \cup Signers) = {}
  /\ Signers \cap (Pages \cup Terms \cup Shells) = {} /\ Terms \cap (Pages \cup Shells) = {}
  /\ Crews \subseteq SUBSET Clients /\ Impatient \subseteq Clients
  /\ Deletable \in [Clients -> SUBSET Cats] /\ Flaky \subseteq Cats
  /\ MaxKeys \in Nat /\ MaxRequests \in [Crews -> Nat] /\ MaxGens \in Nat \ {0}

VARIABLES
  crew,    \* the clients that run, as chosen at the start
  keys,    \* category -> the device's keys, by index
  result,  \* the signature the device holds: key, and request it was made for
  queue,   \* the commands sent, each by the request it belongs to
  handler, \* request -> its handler in the daemon
  cache,   \* category -> the keys as last read
  slot,    \* the request that holds the authentication slot, or 0
  cancel,  \* a cancel of the running gate is on its way
  asked,   \* client -> the requests it waits for
  rows,    \* client -> category -> the keys it shows
  chosen,  \* client -> the row it asks its user about, or None
  todo,    \* client -> entries of its import still to be written
  code,    \* page -> the code it shows: of which key, its generation, or None
  gen,     \* page -> code_gen
  timers,  \* page -> the generations for which a timer runs
  stale,   \* page -> a reload is due
  front,   \* page -> it is the one in view
  panel,   \* panel -> "closed", "listing" or "waiting"
  clip,    \* the clipboard: whose copy, of what
  clears   \* the copies the panel's process will take back

deviceVars == <<keys, result>>
daemonVars == <<queue, handler, cache, slot, cancel>>
listVars   == <<asked, rows, chosen, todo>>
pageVars   == <<crew, code, gen, timers, stale, front>>
panelVars  == <<panel, clip, clears>>
vars == <<deviceVars, daemonVars, listVars, pageVars, panelVars>>

Signature == [key : Names, of : Ids]
Row       == [cat : Cats, name : Names, idx : Nat]
Handlers  ==
  [by : Clients \cup {None}, op : Ops \cup {None}, cat : Cats \cup {None},
   name : Names \cup {None}, idx : Nat,
   at : {"unused", "queued", "awake", "left", "ok", "failed"},
   more : 0..3,                  \* commands still to be run
   hit : Names \cup {None},      \* the key the device worked on
   sig : Seq(Signature)]         \* the parts of the signature read so far
Unused == [by |-> None, op |-> None, cat |-> None, name |-> None, idx |-> 0,
           at |-> "unused", more |-> 0, hit |-> None, sig |-> <<>>]
Empty  == [by |-> None, name |-> None]

TypeOK ==
  /\ crew \in Crews
  /\ keys \in [Cats -> Seq(Names)] /\ \A k \in Cats : Len(keys[k]) <= MaxKeys
  /\ result \in Signature \cup {None}
  /\ queue \in Seq(Ids) /\ IsInjective(queue)
  /\ handler \in [Ids -> Handlers]
  /\ \A i \in Ids : (i \in Range(queue)) = (handler[i].at \in {"queued", "left"})
  /\ cache \in [Cats -> Seq(Names)]
  /\ slot \in Ids \cup {0} /\ (slot # 0 => handler[slot].at \in {"queued", "awake", "left"})
  /\ cancel \in BOOLEAN
  /\ asked \in [Clients -> SUBSET Ids]
  /\ \A c \in Clients : \A i \in asked[c] : handler[i].by = c
  /\ rows \in [Clients -> [Cats -> Seq(Names)]]
  /\ chosen \in [Clients -> Row \cup {None}]
  /\ todo \in [Clients -> Seq(Names)]
  /\ gen \in [Pages -> 0..MaxGens]
  /\ code \in [Pages -> [name : Names, gen : 0..MaxGens] \cup {None}]
  /\ timers \in [Pages -> SUBSET (0..MaxGens)]
  /\ stale \in [Pages -> BOOLEAN] /\ front \in [Pages -> BOOLEAN]
  /\ panel \in [Fills -> {"closed", "listing", "waiting"}]
  /\ clip \in [by : Clients \cup {None}, name : Names \cup {None}]
  /\ clears \subseteq [by : Fills, name : Names, id : Ids \cup {0}]

Init ==
  /\ crew \in Crews
  /\ keys = Kept /\ cache = Kept /\ result = None
  /\ queue = <<>> /\ handler = [i \in Ids |-> Unused] /\ slot = 0 /\ cancel = FALSE
  /\ asked = [c \in Clients |-> {}]
  /\ rows = [c \in Clients |-> Kept]
  /\ chosen = [c \in Clients |-> None] /\ todo = [c \in Clients |-> <<>>]
  /\ code = [p \in Pages |-> None] /\ gen = [p \in Pages |-> 0]
  /\ timers = [p \in Pages |-> {}] /\ stale = [p \in Pages |-> FALSE]
  /\ front = [p \in Pages |-> TRUE]
  /\ panel = [f \in Fills |-> "closed"] /\ clip = Empty /\ clears = {}

-----------------------------------------------------------------------------
(* The daemon's handlers *)

\* How many commands a request takes: the gated one and what follows it.
Commands(op) == IF op = "sign" THEN 3 ELSE 2
Fresh(i)    == i <= MaxRequests[crew] /\ handler[i].at = "unused" /\ \A j \in 1..i - 1 : handler[j].at # "unused"

\* The index a name has in the cache, and the key the device has at an index.
Cached(k, n)    == n \in Range(cache[k])
IndexOf(k, n)   == CHOOSE x \in 0..MaxKeys : x < Len(cache[k]) /\ cache[k][x + 1] = n
Is(k, idx)      == IF idx < Len(keys[k]) THEN keys[k][idx + 1] ELSE None

\* A new request, refused at once or with its first command in the queue.
Handler(c, op, k, n, idx, at) ==
  [by |-> c, op |-> op, cat |-> k, name |-> n, idx |-> idx, at |-> at,
   more |-> Commands(op), hit |-> None, sig |-> <<>>]
Enters(i, h) ==
  /\ Fresh(i)
  /\ handler' = [handler EXCEPT ![i] = h]
  /\ queue' = IF h.at = "queued" THEN Append(queue, i) ELSE queue
  /\ UNCHANGED <<deviceVars, cache, cancel>>

\* KEY:GENERATE, KEY:IMPORT and the like; KEY:DELETE by index.
KeyAdd(c, i, k, n)         == Enters(i, Handler(c, "add", k, n, 0, "queued")) /\ UNCHANGED slot
KeyDelete(c, i, k, n, idx) == Enters(i, Handler(c, "delete", k, n, idx, "queued")) /\ UNCHANGED slot

\* GET by name, KEY:OTP by index: one at a time, by the authentication slot.
Reads(c, i, k, n, idx) ==
  IF slot = 0
  THEN Enters(i, Handler(c, "get", k, n, idx, "queued")) /\ slot' = i
  ELSE Enters(i, Handler(c, "get", k, n, idx, "failed")) /\ UNCHANGED slot
GetKey(c, i, k, n) ==
  IF Cached(k, n) THEN Reads(c, i, k, n, IndexOf(k, n))
  ELSE Enters(i, Handler(c, "get", k, n, 0, "failed")) /\ UNCHANGED slot
KeyOtp(c, i, n, idx) == Reads(c, i, "otp", n, idx)

\* The agent finds the key in the cache by its public key.
SignRequest(c, i, n) ==
  /\ Enters(i, IF Cached("ssh", n) THEN Handler(c, "sign", "ssh", n, IndexOf("ssh", n), "queued")
               ELSE Handler(c, "sign", "ssh", n, 0, "failed"))
  /\ UNCHANGED slot

Runs(i)    == queue # <<>> /\ Head(queue) = i /\ queue' = Tail(queue)
GateOf(i)  == handler[i].more = Commands(handler[i].op)
\* (mutation: a handler that fails keeps the slot)
Keeps(i)   == UNCHANGED slot
Frees(i)   == slot' = IF slot = i THEN 0 ELSE slot
Steps(i, h) == handler' = [handler EXCEPT ![i] = h]

\* The handler goes on, if it is still there, and answers when all is done.
After(h) ==
  [h EXCEPT !.at = IF @ = "left" \/ h.more = 1 THEN "ok" ELSE "awake", !.more = @ - 1]

Fails(i) ==
  /\ Runs(i) /\ Steps(i, [handler[i] EXCEPT !.at = "failed"]) /\ Frees(i)
  /\ UNCHANGED <<deviceVars, cache>>

\* The touch: the device does what the command says, on the key at its index.
Touched(i) ==
  LET h == handler[i]
      k == h.cat IN
  /\ GateOf(i) /\ Runs(i)
  /\ CASE h.op = "add"    -> /\ Len(keys[k]) < MaxKeys
                             /\ keys' = [keys EXCEPT ![k] = Append(@, h.name)] /\ UNCHANGED result
       [] h.op = "delete" -> /\ Is(k, h.idx) # None
                             /\ keys' = [keys EXCEPT ![k] = RemoveAt(@, h.idx + 1)] /\ UNCHANGED result
       [] h.op = "sign"   -> /\ Is(k, h.idx) # None
                             /\ result' = [key |-> Is(k, h.idx), of |-> i] /\ UNCHANGED keys
       [] h.op = "get"    -> Is(k, h.idx) # None /\ UNCHANGED deviceVars
  /\ Steps(i, After([h EXCEPT !.hit = IF h.op = "add" THEN h.name ELSE Is(k, h.idx)]))
  /\ IF k = "api" THEN Frees(i) ELSE UNCHANGED slot
  /\ UNCHANGED <<cache, cancel, listVars, pageVars, panelVars>>

\* Not touched in time, not recognised, refused by the device, or an error.
\* (mutation: a refused signature is read all the same)
ReadsOn(i)   == Runs(i) /\ Steps(i, After(handler[i])) /\ Frees(i) /\ UNCHANGED <<deviceVars, cache>>
GateFails(i) == Fails(i)
Refused(i)   == GateOf(i) /\ GateFails(i) /\ UNCHANGED <<cancel, listVars, pageVars, panelVars>>

\* GATE:CANCEL, or a signer that hung up: ends the gate that is running, whose
\* ever it is; without one it is drained.
CancelArrives ==
  /\ cancel /\ cancel' = FALSE
  /\ IF queue # <<>> /\ GateOf(Head(queue)) THEN Fails(Head(queue))
     ELSE UNCHANGED <<deviceVars, queue, handler, cache, slot>>
  /\ UNCHANGED <<listVars, pageVars, panelVars>>

\* The next command of a handler: the rest of an answer, KEY_RESULT, a sync.
FollowUp(i) ==
  /\ handler[i].at = "awake"
  /\ Steps(i, [handler[i] EXCEPT !.at = "queued"]) /\ queue' = Append(queue, i)
  /\ UNCHANGED <<deviceVars, cache, slot, cancel, listVars, pageVars, panelVars>>

\* After a write: the cache is read again; the answer waits for it.
Syncs(i) ==
  /\ handler[i].op \in {"add", "delete"} /\ ~GateOf(i) /\ Runs(i)
  /\ cache' = keys
  /\ Steps(i, After(handler[i])) /\ Frees(i)
  /\ UNCHANGED <<deviceVars, cancel, listVars, pageVars, panelVars>>

\* The SSH keys are read and saved first, the names of the others together; what
\* was saved before an error stays, and the answer is the same.
SyncFails(i) ==
  /\ handler[i].cat \in Flaky
  /\ handler[i].op \in {"add", "delete"} /\ ~GateOf(i) /\ Runs(i)
  /\ cache' \in {cache, [cache EXCEPT !["ssh"] = keys["ssh"]]}
  /\ Steps(i, After(handler[i])) /\ Frees(i)
  /\ UNCHANGED <<deviceVars, cancel, listVars, pageVars, panelVars>>

ReadSecret(i) ==
  LET h == handler[i] IN
  /\ h.op = "get" /\ ~GateOf(i) /\ Runs(i) /\ Is(h.cat, h.idx) # None
  /\ Steps(i, After([h EXCEPT !.hit = Is(h.cat, h.idx)])) /\ Frees(i)
  /\ UNCHANGED <<deviceVars, cache, cancel, listVars, pageVars, panelVars>>

\* KEY_RESULT: the device's signature, in two parts.
ReadSignature(i) ==
  /\ handler[i].op = "sign" /\ ~GateOf(i) /\ Runs(i) /\ result # None
  /\ Steps(i, After([handler[i] EXCEPT !.sig = Append(@, result)]))
  /\ UNCHANGED <<deviceVars, cache, slot, cancel, listVars, pageVars, panelVars>>

ReadFails(i) ==
  /\ handler[i].op \in {"get", "sign"} /\ ~GateOf(i)
  /\ handler[i].cat \in Flaky \/ Is(handler[i].cat, handler[i].idx) = None
  /\ Fails(i)
  /\ UNCHANGED <<cancel, listVars, pageVars, panelVars>>

-----------------------------------------------------------------------------
(* What clients have in common *)

Shows(c, k)   == Range(rows[c][k])
Fits(c, k)    == Len(rows[c][k]) < MaxKeys
Lists(c)      == rows' = [rows EXCEPT ![c] = cache]
Waits(c, i)   == asked' = [asked EXCEPT ![c] = @ \cup {i}]
Hears(c, i)   == asked' = [asked EXCEPT ![c] = @ \ {i}]
IsNew(k, n)   == n \in New[k] /\ n \notin Range(keys[k]) /\ \A i \in Ids : handler[i].name # n
Good(c, i)    == i \in asked[c] /\ handler[i].at = "ok"
\* An error, or the client's own timeout: the handler goes on without it.
Bad(c, i)     ==
  /\ i \in asked[c]
  /\ \/ handler[i].at = "failed"
     \/ c \in Impatient /\ handler[i].at \in {"queued", "awake"}

\* A row to delete is shown with a question; what is deleted is its index.
AsksWhether(c) ==
  /\ chosen[c] = None
  /\ \E k \in Deletable[c] : \E x \in DOMAIN rows[c][k] :
       chosen' = [chosen EXCEPT ![c] = [cat |-> k, name |-> rows[c][k][x], idx |-> x - 1]]
  /\ UNCHANGED <<deviceVars, daemonVars, asked, rows, todo, pageVars, panelVars>>

Declines(c) ==
  /\ chosen[c] # None /\ chosen' = [chosen EXCEPT ![c] = None]
  /\ UNCHANGED <<deviceVars, daemonVars, asked, rows, todo, pageVars, panelVars>>

Confirms(c, i) ==
  /\ chosen[c] # None /\ chosen' = [chosen EXCEPT ![c] = None]
  /\ KeyDelete(c, i, chosen[c].cat, chosen[c].name, chosen[c].idx) /\ Waits(c, i)
  /\ UNCHANGED <<rows, todo, pageVars, panelVars>>

\* An export is written entry by entry, if the cache says that it fits.
StartImport(c) ==
  /\ \A d \in Clients : todo[d] = <<>>
  /\ \A i \in Ids : handler[i].name \notin Range(File)
  /\ Len(File) <= MaxKeys - Len(cache["otp"])
  /\ todo' = [todo EXCEPT ![c] = File]
  /\ UNCHANGED <<deviceVars, daemonVars, asked, rows, chosen, pageVars, panelVars>>

NextEntry(c, i) ==
  /\ todo[c] # <<>> /\ asked[c] = {}
  /\ KeyAdd(c, i, "otp", Head(todo[c])) /\ Waits(c, i)
  /\ UNCHANGED <<rows, chosen, todo, pageVars, panelVars>>

\* (mutation: the import goes on with the next one)
Skips(c, i)      == Tail(todo[c])
StopsAt(c, i)    == <<>>
Importing(c, i)  == handler[i].op = "add" /\ todo[c] # <<>>
Imported(c, i)   == todo' = [todo EXCEPT ![c] = IF Importing(c, i) THEN Tail(@) ELSE @]
EntryFails(c, i) == todo' = [todo EXCEPT ![c] = IF Importing(c, i) THEN StopsAt(c, i) ELSE @]

-----------------------------------------------------------------------------
(* The keys page of the desktop *)

Adding(p) == todo[p] # <<>> \/ \E i \in asked[p] : handler[i].op = "add"
Free(p)   == front[p] /\ chosen[p] = None /\ ~Adding(p)  \* no dialog before it

ClearCodes(p) ==
  /\ gen[p] < MaxGens /\ gen' = [gen EXCEPT ![p] = @ + 1]
  /\ code' = [code EXCEPT ![p] = None]

Populate(p) == ClearCodes(p) /\ Lists(p)
Reload(p) ==
  /\ stale[p] /\ stale' = [stale EXCEPT ![p] = FALSE]
  /\ Populate(p)
  /\ UNCHANGED <<deviceVars, daemonVars, asked, chosen, todo, crew, timers, front, panelVars>>

\* The dialog of a category: made on the device or read from a file, or typed in.
AddSsh(p, i)   == \E n \in New["ssh"] : IsNew("ssh", n) /\ KeyAdd(p, i, "ssh", n)
AddEntry(p, i) == \E k \in Cats \ {"ssh"} : \E n \in New[k] :
                    Fits(p, k) /\ IsNew(k, n) /\ KeyAdd(p, i, k, n)
OpenAdd(p, i) ==
  /\ Free(p)
  /\ \/ Fits(p, "ssh") /\ AddSsh(p, i)
     \/ AddEntry(p, i)
  /\ Waits(p, i) /\ UNCHANGED <<rows, chosen, todo, pageVars, panelVars>>

\* Each row has its own buttons, dead while theirs is waited for: several
\* requests at a time.
Pressed(p, op, n) == \E j \in asked[p] : handler[j].op = op /\ handler[j].name = n

PrimaryAction(p, i) ==
  /\ Free(p)
  /\ \E k \in Cats \ {"ssh"} : \E n \in Shows(p, k) :
       ~Pressed(p, "get", n) /\ GetKey(p, i, k, n)
  /\ Waits(p, i) /\ UNCHANGED <<rows, chosen, todo, pageVars, panelVars>>

PressDelete(p)     == Free(p) /\ AsksWhether(p) /\ ~Pressed(p, "delete", chosen'[p].name)
DeleteAction(p, i) == Confirms(p, i)

\* A code replaces the one before it, which ends its generation, and is shown
\* until its timer, the next code, a reload or a switch of pages.
\* (mutation: the generation is read before the clear)
ShowCodeEarly(p, n) ==
  /\ gen[p] < MaxGens /\ gen' = [gen EXCEPT ![p] = @ + 1]
  /\ code' = [code EXCEPT ![p] = [name |-> n, gen |-> gen[p]]]
  /\ timers' = [timers EXCEPT ![p] = @ \cup {gen[p]}]
ShowCode(p, n) ==
  /\ gen[p] < MaxGens /\ gen' = [gen EXCEPT ![p] = @ + 1]
  /\ code' = [code EXCEPT ![p] = [name |-> n, gen |-> gen[p] + 1]]
  /\ timers' = [timers EXCEPT ![p] = @ \cup {gen[p] + 1}]

PageHears(p, i) ==
  /\ Good(p, i) /\ Hears(p, i)
  /\ IF handler[i].op = "get" /\ handler[i].cat = "otp"
     THEN ShowCode(p, handler[i].hit) ELSE UNCHANGED <<code, gen, timers>>
  /\ stale' = [stale EXCEPT ![p] = @ \/ (handler[i].op # "get" /\ Len(todo[p]) <= 1)]
  /\ Imported(p, i)
  /\ UNCHANGED <<deviceVars, daemonVars, rows, chosen, crew, front, panelVars>>

PageFails(p, i) ==
  /\ Bad(p, i) /\ Hears(p, i) /\ EntryFails(p, i)
  /\ UNCHANGED <<deviceVars, daemonVars, rows, chosen, pageVars, panelVars>>

CodeExpires(p) ==
  /\ \E g \in timers[p] :
       /\ timers' = [timers EXCEPT ![p] = @ \ {g}]
       /\ IF g = gen[p] THEN ClearCodes(p) ELSE UNCHANGED <<code, gen>>
  /\ UNCHANGED <<deviceVars, daemonVars, listVars, crew, stale, front, panelVars>>

SwitchAway(p) ==
  /\ Free(p) /\ front' = [front EXCEPT ![p] = FALSE] /\ ClearCodes(p)
  /\ UNCHANGED <<deviceVars, daemonVars, listVars, crew, timers, stale, panelVars>>

SwitchTo(p) ==
  /\ ~front[p] /\ front' = [front EXCEPT ![p] = TRUE]
  /\ UNCHANGED <<deviceVars, daemonVars, listVars, crew, code, gen, timers, stale, panelVars>>

CopyCode(p) ==
  /\ front[p] /\ code[p] # None /\ clip' = [by |-> p, name |-> code[p].name]
  /\ UNCHANGED <<deviceVars, daemonVars, listVars, pageVars, panel, clears>>

-----------------------------------------------------------------------------
(* The quick-fill panel *)

Shuts(f) == panel' = [panel EXCEPT ![f] = "closed"]

OpenPanel(f) ==
  /\ panel[f] = "closed" /\ panel' = [panel EXCEPT ![f] = "listing"] /\ Lists(f)
  /\ UNCHANGED <<deviceVars, daemonVars, asked, chosen, todo, pageVars, clip, clears>>

\* The process is held up by the copy it will take back.
\* (mutation: it ends with its panel)
LeavesWith(f, x)   == clears' = {y \in clears : y.by # f}
HoldsUpFor(f, x)   == clears' = clears \cup {x}
CopyAndClear(f, x) == clip' = [by |-> f, name |-> x.name] /\ HoldsUpFor(f, x)
Deliver(f, n, i)   == CopyAndClear(f, [by |-> f, name |-> n, id |-> i]) /\ Shuts(f)

ActivatePublic(f) ==
  /\ panel[f] = "listing"
  /\ \E n \in Range(rows[f]["ssh"]) : Deliver(f, n, 0)
  /\ UNCHANGED <<deviceVars, daemonVars, listVars, pageVars>>

WaitForTouch(f, i) ==
  /\ panel[f] = "listing" /\ panel' = [panel EXCEPT ![f] = "waiting"]
  /\ \E k \in Cats \ {"ssh"} : \E n \in Shows(f, k) : GetKey(f, i, k, n)
  /\ Waits(f, i) /\ UNCHANGED <<rows, chosen, todo, pageVars, clip, clears>>

SecretArrives(f, i) ==
  /\ Good(f, i) /\ Hears(f, i) /\ Deliver(f, handler[i].hit, i)
  /\ UNCHANGED <<deviceVars, daemonVars, rows, chosen, todo, pageVars>>

BackToListing(f, i) ==
  /\ Bad(f, i) /\ Hears(f, i) /\ panel' = [panel EXCEPT ![f] = "listing"]
  /\ UNCHANGED <<deviceVars, daemonVars, rows, chosen, todo, pageVars, clip, clears>>

\* Escape, or the focus elsewhere: the panel is dropped and an answer finds none.
\* (mutation: the answer still finds it)
ClosesOnly(f) == UNCHANGED asked
Drops(f)      == asked' = [asked EXCEPT ![f] = {}]
ClosePanel(f) ==
  /\ panel[f] # "closed" /\ Shuts(f) /\ Drops(f)
  /\ cancel' = (cancel \/ panel[f] = "waiting")
  /\ UNCHANGED <<deviceVars, queue, handler, cache, slot, rows, chosen, todo, pageVars, clip, clears>>

\* Only what is still there is cleared: text is compared, not who copied it.
TakeBack(f) ==
  /\ \E x \in clears :
       /\ x.by = f /\ clears' = clears \ {x}
       /\ clip' = IF clip.name = x.name THEN Empty ELSE clip
  /\ UNCHANGED <<deviceVars, daemonVars, listVars, pageVars, panel>>

\* The user copies something else.
UserCopies ==
  /\ clip # Empty /\ clip' = Empty
  /\ UNCHANGED <<deviceVars, daemonVars, listVars, pageVars, panel, clears>>

-----------------------------------------------------------------------------
(* The terminal interface *)

Busy(t)   == asked[t] # {}
Normal(t) == ~Busy(t) /\ chosen[t] = None

RefreshKeys(t) ==
  /\ rows[t] # cache /\ Lists(t)
  /\ UNCHANGED <<deviceVars, daemonVars, asked, chosen, todo, pageVars, panelVars>>

EnterAdd(t, k)       == Normal(t) /\ Fits(t, k)
KeyGenerate(t, i)    == \E n \in New["ssh"] : IsNew("ssh", n) /\ KeyAdd(t, i, "ssh", n)
KeyAddEntry(t, i, k) == \E n \in New[k] : IsNew(k, n) /\ KeyAdd(t, i, k, n)
SubmitKey(t, i) ==
  /\ \/ EnterAdd(t, "ssh") /\ KeyGenerate(t, i)
     \/ \E k \in Cats \ {"ssh"} : EnterAdd(t, k) /\ KeyAddEntry(t, i, k)
  /\ Waits(t, i) /\ UNCHANGED <<rows, chosen, todo, pageVars, panelVars>>

ShowApi(t, i) == \E n \in Shows(t, "api") : GetKey(t, i, "api", n)
ShowOtp(t, i) == \E n \in Shows(t, "otp") : GetKey(t, i, "otp", n)
KeyValue(t, i) ==
  /\ Normal(t)
  /\ ShowApi(t, i) \/ ShowOtp(t, i)
  /\ Waits(t, i) /\ UNCHANGED <<rows, chosen, todo, pageVars, panelVars>>

EnterDelete(t)      == ~Busy(t) /\ AsksWhether(t)
ConfirmDelete(t, i) == ~Busy(t) /\ Confirms(t, i)

\* A write's answer refreshes the lists before it ends the work.
\* (mutation: it ends the work only)
StaysBehind(t)  == UNCHANGED rows
Refreshes(t)    == Lists(t)
TermHears(t, i) ==
  /\ Good(t, i) \/ Bad(t, i)
  /\ Hears(t, i)
  /\ IF handler[i].op = "get" THEN UNCHANGED rows ELSE Refreshes(t)
  /\ UNCHANGED <<deviceVars, daemonVars, chosen, todo, pageVars, panelVars>>

-----------------------------------------------------------------------------
(* The command lines, one command after the other *)

RunList(s) ==
  /\ asked[s] = {} /\ rows[s] # cache /\ Lists(s)
  /\ UNCHANGED <<deviceVars, daemonVars, asked, chosen, todo, pageVars, panelVars>>

\* key delete <index>, of a list the user has seen
RunDelete(s, i) ==
  /\ asked[s] = {} /\ todo[s] = <<>>
  /\ \E k \in Deletable[s] : \E x \in DOMAIN rows[s][k] : KeyDelete(s, i, k, rows[s][k][x], x - 1)
  /\ Waits(s, i) /\ UNCHANGED <<rows, chosen, todo, pageVars, panelVars>>

CheckCapacity(k) == Len(cache[k]) < MaxKeys
RunGenerate(s, i) ==
  /\ asked[s] = {} /\ todo[s] = <<>>
  /\ \E n \in New["ssh"] : CheckCapacity("ssh") /\ IsNew("ssh", n) /\ KeyAdd(s, i, "ssh", n)
  /\ Waits(s, i) /\ UNCHANGED <<rows, chosen, todo, pageVars, panelVars>>

RunAdd(s, i) ==
  /\ asked[s] = {} /\ todo[s] = <<>>
  /\ \E k \in Cats \ {"ssh"} : \E n \in New[k] :
       CheckCapacity(k) /\ IsNew(k, n) /\ KeyAdd(s, i, k, n)
  /\ Waits(s, i) /\ UNCHANGED <<rows, chosen, todo, pageVars, panelVars>>

RunImportOtp(s) == asked[s] = {} /\ StartImport(s)

RunOtp(s, i) ==
  /\ asked[s] = {} /\ todo[s] = <<>>
  /\ \E x \in DOMAIN rows[s]["otp"] : KeyOtp(s, i, rows[s]["otp"][x], x - 1)
  /\ Waits(s, i) /\ UNCHANGED <<rows, chosen, todo, pageVars, panelVars>>

ImkGet(s, i) ==
  /\ asked[s] = {} /\ todo[s] = <<>>
  /\ \E k \in Cats \ {"ssh"} : \E n \in Shows(s, k) : GetKey(s, i, k, n)
  /\ Waits(s, i) /\ UNCHANGED <<rows, chosen, todo, pageVars, panelVars>>

ShellHears(s, i) ==
  /\ Hears(s, i)
  /\ \/ Good(s, i) /\ Imported(s, i)
     \/ Bad(s, i) /\ EntryFails(s, i)
  /\ UNCHANGED <<deviceVars, daemonVars, rows, chosen, pageVars, panelVars>>

-----------------------------------------------------------------------------
(* Connections to the SSH agent *)

Identities(g) ==
  /\ asked[g] = {} /\ rows[g] # cache /\ Lists(g)
  /\ UNCHANGED <<deviceVars, daemonVars, asked, chosen, todo, pageVars, panelVars>>

AsksToSign(g, i) ==
  /\ asked[g] = {}
  /\ \E n \in Shows(g, "ssh") : SignRequest(g, i, n)
  /\ Waits(g, i) /\ UNCHANGED <<rows, chosen, todo, pageVars, panelVars>>

SignerHears(g, i) ==
  /\ i \in asked[g] /\ handler[i].at \in {"ok", "failed"} /\ Hears(g, i)
  /\ UNCHANGED <<deviceVars, daemonVars, rows, chosen, todo, pageVars, panelVars>>

\* At its gate the handler leaves when its 50 s are over, or its client has hung
\* up; the command stays in the queue.
Leaves(g, i) ==
  /\ i \in asked[g] /\ handler[i].at = "queued" /\ GateOf(i)
  /\ Steps(i, [handler[i] EXCEPT !.at = "left"]) /\ Hears(g, i)
  /\ UNCHANGED <<deviceVars, queue, cache, slot, rows, chosen, todo, pageVars, panelVars>>
SignDeadline(g, i) == g \in Impatient /\ Leaves(g, i) /\ UNCHANGED cancel
HangsUp(g, i)      == Leaves(g, i) /\ cancel' = TRUE

-----------------------------------------------------------------------------
DaemonNext ==
  \/ CancelArrives
  \/ \E i \in Ids : \/ Touched(i) \/ Refused(i) \/ FollowUp(i) \/ Syncs(i) \/ SyncFails(i)
                    \/ ReadSecret(i) \/ ReadSignature(i) \/ ReadFails(i)
PageNext(p) ==
  \/ Reload(p) \/ CodeExpires(p) \/ SwitchAway(p) \/ SwitchTo(p) \/ CopyCode(p)
  \/ PressDelete(p)
  \/ Free(p) /\ StartImport(p)
  \/ Declines(p)
  \/ \E i \in Ids : \/ OpenAdd(p, i) \/ PrimaryAction(p, i) \/ DeleteAction(p, i)
                    \/ NextEntry(p, i) \/ PageHears(p, i) \/ PageFails(p, i)
FillNext(f) ==
  \/ OpenPanel(f) \/ ActivatePublic(f) \/ ClosePanel(f) \/ TakeBack(f)
  \/ \E i \in Ids : WaitForTouch(f, i) \/ SecretArrives(f, i) \/ BackToListing(f, i)
TermNext(t) ==
  \/ RefreshKeys(t) \/ EnterDelete(t) \/ Declines(t)
  \/ \E i \in Ids : SubmitKey(t, i) \/ KeyValue(t, i) \/ ConfirmDelete(t, i) \/ TermHears(t, i)
ShellNext(s) ==
  \/ RunList(s)
  \/ RunImportOtp(s)
  \/ \E i \in Ids : \/ RunDelete(s, i) \/ RunAdd(s, i) \/ RunGenerate(s, i) \/ RunOtp(s, i) \/ ImkGet(s, i)
                    \/ NextEntry(s, i) \/ ShellHears(s, i)
SignerNext(g) ==
  \/ Identities(g)
  \/ \E i \in Ids : AsksToSign(g, i) \/ SignerHears(g, i) \/ SignDeadline(g, i) \/ HangsUp(g, i)

Next ==
  \/ DaemonNext
  \/ UserCopies
  \/ \E p \in Pages \cap crew : PageNext(p)
  \/ \E f \in Fills \cap crew : FillNext(f)
  \/ \E t \in Terms \cap crew : TermNext(t)
  \/ \E s \in Shells \cap crew : ShellNext(s)
  \/ \E g \in Signers \cap crew : SignerNext(g)

Spec == Init /\ [][Next]_vars

-----------------------------------------------------------------------------
(* Properties *)

\* What a client that asked its user "delete this one?" has deleted is the key it
\* named.  A delete goes by the index of a row, the device closes the gap a deleted
\* key leaves, and the rows follow by way of sync, cache, answer and refresh.
DeletesConfirmed == \A i \in Ids : handler[i].op = "delete" => handler[i].hit \in {None, handler[i].name}

\* A signature the agent hands out was made for this request, with the key it
\* named, in both its parts: KEY_RESULT reads whatever the device signed last.
SignsOwn ==
  \A i \in Ids : handler[i].op = "sign" /\ Len(handler[i].sig) = 2 =>
    \A x \in 1..2 : handler[i].sig[x] = [key |-> handler[i].name, of |-> i]

\* A code on the keys page is one that the timer of its own generation will hide:
\* older timers and reloads pass it by and its own finds it.
ShownIsTimed == \A p \in Pages : code[p] # None => code[p].gen = gen[p] /\ gen[p] \in timers[p]

\* A secret that quick-fill left on the clipboard has a clear on its way, and a
\* process that lives until then, though its panel is closed.
CopyIsTakenBack == \A f \in Fills : clip.by = f => \E x \in clears : x.by = f /\ x.name = clip.name

\* A panel that was closed while it waited for a touch delivers nothing when the
\* answer comes all the same.
ClosedStaysSilent == [][\A f \in Fills : clip' # clip /\ clip'.by = f => panel[f] # "closed"]_vars

\* What has been written of an export is its beginning, in its order, whichever
\* entry failed or timed out and whatever other clients did in between.
ImportsInOrder ==
  \A i \in Ids : \A y \in DOMAIN File : handler[i].hit = File[y] /\ handler[i].op = "add" =>
    \A z \in 1..y - 1 : \E j \in 1..i - 1 : handler[j].op = "add" /\ handler[j].hit = File[z]

-----------------------------------------------------------------------------
(* What fails *)

\* pages/keys.rs:4-8: a code is cleared when the page is switched away.  That is
\* a moment: an answer that comes later is shown on the hidden page.
\* (KeyClients_hidden.cfg)
HiddenShowsNothing == \A p \in Pages : code[p] # None => front[p]
=============================================================================
