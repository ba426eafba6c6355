------------------------------ MODULE KeyStore ------------------------------
(***************************************************************************)
(* The keys of the device and the daemon's cache of them.                  *)
(*                                                                         *)
(* The device numbers the keys of a category 0..count-1 and closes the gap *)
(* when one is deleted.  The daemon keeps a cache on disk (ssh_keys.json,  *)
(* key_names.json), from which clients list keys and GET finds the index   *)
(* of a name, and a digest of each category (keystore_digests.json), by    *)
(* which a sync decides whether to read the category again.                *)
(*                                                                         *)
(* A handler is a series of commands: the worker runs each to its end, and *)
(* other clients' commands between them.  A sync is one command; its       *)
(* intermediate states are what a crash or an error leaves on disk.        *)
(***************************************************************************)
EXTENDS Naturals, Sequences

CONSTANTS
  Clients,   \* connection handlers
  None,      \* nothing
  Names,     \* names keys may have
  Cats,      \* the categories of this instance
  Ops,       \* the requests clients make: "import", "delete", "get"
  MaxKeys,   \* capacity of a category (KEY_MAX_SSH, _OTP, _API)
  Drops,     \* TRUE: the link may be lost
  Foreign,   \* TRUE: another host may change the keys while we are away
  ReadsFail, \* TRUE: reading one entry may fail
  Aborts     \* TRUE: commands fail or lose their answer, syncs break off,
             \* the daemon restarts

ASSUME ConstantsAssumption ==
  /\ None \notin Names /\ None \notin Clients
  /\ Cats \subseteq {"ssh", "otp", "api"}
  /\ Ops \subseteq {"import", "delete", "get"}
  /\ MaxKeys \in Nat \ {0}
  /\ Drops \in BOOLEAN /\ Foreign \in BOOLEAN /\ ReadsFail \in BOOLEAN /\ Aborts \in BOOLEAN

VARIABLES
  pc,      \* client -> where its handler is
  job,     \* client -> the key it works on: category, name, index
  got,     \* client -> name of the key its last read came from, or None
  device,  \* category -> sequence of keys
  stage,   \* category -> the device's staging buffer
  cache,   \* category -> index -> key as last read (a partial function)
  digest,  \* category -> the content the digest on disk stands for, or None
  fresh,   \* category -> the digest map a sync is building
  sync,    \* "off" | "ssh" | "names" | "save": where the worker's sync is
  syncFor, \* the client it answers, or None
  online   \* connected and verified

clientVars == <<pc, job, got>>
diskVars   == <<cache, digest>>
syncVars   == <<fresh, sync, syncFor>>
vars == <<clientVars, device, stage, diskVars, syncVars, online>>

\* A key is written in two parts: head, which carries its name, and tail, which
\* carries the secret; each is known by the key it was imported for.
Keys   == [head : Names \cup {None}, tail : Names \cup {None}]
Blank  == [head |-> None, tail |-> None]
Idle   == [cat |-> None, name |-> None, idx |-> 0]
Places == {"idle", "count", "head", "tail", "commit", "delete", "ask", "wait",
           "read head", "read tail", "got"}

TypeOK ==
  /\ pc \in [Clients -> Places]
  /\ job \in [Clients -> [cat : Cats \cup {None}, name : Names \cup {None}, idx : Nat]]
  /\ got \in [Clients -> Names \cup {None}]
  /\ device \in [Cats -> Seq(Keys)]
  /\ \A k \in Cats : Len(device[k]) <= MaxKeys
  /\ stage \in [Cats -> Keys]
  /\ \A k \in Cats : DOMAIN cache[k] \subseteq 0..MaxKeys - 1
                     /\ \A i \in DOMAIN cache[k] : cache[k][i] \in Keys
  /\ \A k \in Cats : digest[k] = None \/ digest[k] \in Seq(Keys)
  /\ \A k \in Cats : fresh[k] = None \/ fresh[k] \in Seq(Keys)
  /\ sync \in {"off", "ssh", "names", "save"}
  /\ syncFor \in Clients \cup {None}
  /\ online \in BOOLEAN

\* The entries of a category by index, some of them or all.
\* (mutation: numbered from 1)
Shifted(keys, some) == [i \in {j + 1 : j \in some} |-> keys[i]]
Entries(keys, some) == [i \in some |-> keys[i + 1]]
Indices(keys)       == 0..Len(keys) - 1
Full(keys)          == Entries(keys, Indices(keys))

Init ==
  /\ pc = [c \in Clients |-> "idle"]
  /\ job = [c \in Clients |-> Idle]
  /\ got = [c \in Clients |-> None]
  /\ device = [k \in Cats |-> <<>>]
  /\ stage = [k \in Cats |-> Blank]
  /\ cache = [k \in Cats |-> Entries(<<>>, {})]
  /\ digest = [k \in Cats |-> None] /\ fresh = digest
  /\ sync = "off" /\ syncFor = None /\ online = FALSE

-----------------------------------------------------------------------------
(* Requests *)

\* The handler's next command runs on the device: the worker is free.
Commands(c, at) == pc[c] = at /\ online /\ sync = "off"
Moves(c, to)    == pc' = [pc EXCEPT ![c] = to]
Ends(c)         == Moves(c, "idle") /\ job' = [job EXCEPT ![c] = Idle]
                   /\ got' = [got EXCEPT ![c] = None]

Import(c, k, n) ==
  /\ pc[c] = "idle" /\ online
  /\ Moves(c, "count")
  /\ job' = [job EXCEPT ![c] = [cat |-> k, name |-> n, idx |-> 0]]
  /\ UNCHANGED <<got, device, stage, diskVars, syncVars, online>>

\* (mutation: resume an upload found in the buffer)
Resumed(k)    == IF stage[k].head # None THEN "tail" ELSE "head"
FirstChunk(k) == "head"

CountKeys(c) ==
  /\ Commands(c, "count")
  /\ IF Len(device[job[c].cat]) < MaxKeys
     THEN Moves(c, FirstChunk(job[c].cat)) /\ UNCHANGED <<job, got>>
     ELSE Ends(c)
  /\ UNCHANGED <<device, stage, diskVars, syncVars, online>>

\* KEY_WRITE to index 0xFF, one buffer per category.
WriteHead(c) ==
  /\ Commands(c, "head") /\ Moves(c, "tail")
  /\ stage' = [stage EXCEPT ![job[c].cat].head = job[c].name]
  /\ UNCHANGED <<job, got, device, diskVars, syncVars, online>>

WriteTail(c) ==
  /\ Commands(c, "tail") /\ Moves(c, "commit")
  /\ stage' = [stage EXCEPT ![job[c].cat].tail = job[c].name]
  /\ UNCHANGED <<job, got, device, diskVars, syncVars, online>>

\* KEY_COMMIT appends what is staged, if it is complete and there is room.
Commit(c) ==
  /\ Commands(c, "commit")
  /\ LET k == job[c].cat IN
     IF None \in {stage[k].head, stage[k].tail} \/ Len(device[k]) >= MaxKeys
     THEN Ends(c) /\ UNCHANGED <<device, stage>>
     ELSE /\ device' = [device EXCEPT ![k] = Append(@, stage[k])]
          /\ stage' = [stage EXCEPT ![k] = Blank]
          /\ Moves(c, "ask") /\ UNCHANGED <<job, got>>
  /\ UNCHANGED <<diskVars, syncVars, online>>

\* KEY:DELETE:<cat>:<index>, the index as the user saw it listed.
Delete(c, k, i) ==
  /\ pc[c] = "idle" /\ online /\ i \in DOMAIN cache[k]
  /\ Moves(c, "delete")
  /\ job' = [job EXCEPT ![c] = [cat |-> k, name |-> cache[k][i].head, idx |-> i]]
  /\ UNCHANGED <<got, device, stage, diskVars, syncVars, online>>

Without(keys, i) == SubSeq(keys, 1, i) \o SubSeq(keys, i + 2, Len(keys))

\* (mutation: a deletion is not followed by a sync)
DeleteEnds == "idle"
DeleteSyncs == "ask"

DeleteKey(c) ==
  /\ Commands(c, "delete")
  /\ LET k == job[c].cat IN
     IF job[c].idx \in Indices(device[k])
     THEN /\ device' = [device EXCEPT ![k] = Without(@, job[c].idx)]
          /\ Moves(c, DeleteSyncs) /\ UNCHANGED <<job, got>>
     ELSE Ends(c) /\ UNCHANGED device
  /\ UNCHANGED <<stage, diskVars, syncVars, online>>

\* GET:<cat>:<name>: find_key_index takes the first entry of that name.
Find(k, n) == {i \in DOMAIN cache[k] : cache[k][i].head = n
                 /\ \A j \in DOMAIN cache[k] : cache[k][j].head = n => i <= j}

Get(c, k, n) ==
  /\ pc[c] = "idle" /\ online /\ k # "ssh"
  /\ \E i \in Find(k, n) :
       job' = [job EXCEPT ![c] = [cat |-> k, name |-> n, idx |-> i]]
  /\ Moves(c, IF k = "api" THEN "read head" ELSE "read tail")
  /\ UNCHANGED <<got, device, stage, diskVars, syncVars, online>>

\* KEY_READ in chunks: the first one carries the name, which nobody looks at.
ReadHead(c) ==
  /\ Commands(c, "read head")
  /\ IF job[c].idx \in Indices(device[job[c].cat])
     THEN Moves(c, "read tail") /\ UNCHANGED <<job, got>>
     ELSE Ends(c)
  /\ UNCHANGED <<device, stage, diskVars, syncVars, online>>

\* The chunk with the secret, or KEY_OTP_GET: the answer to the client.
ReadTail(c) ==
  /\ Commands(c, "read tail")
  /\ IF job[c].idx \in Indices(device[job[c].cat])
     THEN /\ got' = [got EXCEPT ![c] = device[job[c].cat][job[c].idx + 1].tail]
          /\ Moves(c, "got") /\ UNCHANGED job
     ELSE Ends(c)
  /\ UNCHANGED <<device, stage, diskVars, syncVars, online>>

Answered(c) ==
  /\ pc[c] = "got" /\ Ends(c)
  /\ UNCHANGED <<device, stage, diskVars, syncVars, online>>

\* A command is refused, times out, or finds the device gone.
Fails(c) ==
  /\ pc[c] \in Places \ {"idle", "ask", "wait", "got"}
  /\ Aborts \/ ~online
  /\ Ends(c)
  /\ UNCHANGED <<device, stage, diskVars, syncVars, online>>

-----------------------------------------------------------------------------
(* sync_ssh_keys *)

StartSync(c) ==
  /\ sync = "off" /\ sync' = "ssh" /\ syncFor' = c
  /\ fresh' = digest

\* sync_keys after a write: its failure is ignored.  A write whose answer is lost
\* is followed by none.
AskSync(c) ==
  /\ pc[c] = "ask" /\ online
  /\ StartSync(c)
  /\ Moves(c, "wait")
  /\ UNCHANGED <<job, got, device, stage, diskVars, online>>

NoSync(c) ==
  /\ pc[c] = "ask" /\ (Aborts \/ ~online)
  /\ Ends(c)
  /\ UNCHANGED <<device, stage, diskVars, syncVars, online>>

\* digest_hit: the count and checksum the device reports are those on disk; the
\* checksum of an empty category never hits.
\* (mutation: compare the counts only)
SameCount(k) == digest[k] # None /\ Len(digest[k]) = Len(device[k]) /\ device[k] # <<>>
Hit(k)       == digest[k] # None /\ digest[k] = device[k] /\ device[k] # <<>>

\* What reading the entries of a category leaves in its cache: an entry that
\* cannot be read is skipped.
Reads(k) == IF ReadsFail THEN SUBSET Indices(device[k]) ELSE {Indices(device[k])}

\* The cache files of the categories ks are written, unless all of them hit; a
\* category that hits keeps its entries.
Refresh(ks) ==
  /\ IF \A k \in ks : Hit(k)
     THEN UNCHANGED <<cache, fresh>>
     ELSE /\ \E read \in [ks -> SUBSET (0..MaxKeys - 1)] :
               /\ \A k \in ks : read[k] \in Reads(k)
               /\ cache' = [k \in Cats |-> IF k \in ks /\ ~Hit(k)
                                           THEN Entries(device[k], read[k]) ELSE cache[k]]
          /\ fresh' = [k \in Cats |-> IF k \in ks THEN device[k] ELSE fresh[k]]
  /\ UNCHANGED <<clientVars, device, stage, digest, syncFor, online>>

SyncSsh   == sync = "ssh" /\ sync' = "names" /\ Refresh(Cats \cap {"ssh"})
SyncNames == sync = "names" /\ sync' = "save" /\ Refresh(Cats \cap {"otp", "api"})

SyncOver ==
  /\ sync' = "off" /\ syncFor' = None /\ fresh' = fresh
  /\ IF syncFor = None THEN UNCHANGED clientVars ELSE Ends(syncFor)

SyncSave ==
  /\ sync = "save" /\ digest' = fresh
  /\ SyncOver
  /\ UNCHANGED <<device, stage, cache, online>>

\* KEY_COUNT fails or a file cannot be written: what was saved stays saved.
SyncFails ==
  /\ Aborts /\ sync # "off"
  /\ SyncOver
  /\ UNCHANGED <<device, stage, diskVars, online>>

-----------------------------------------------------------------------------
(* Sessions, the daemon, other hosts *)

\* A session is verified and syncs before it serves.
Connect ==
  /\ ~online /\ online' = TRUE
  /\ StartSync(None)
  /\ UNCHANGED <<clientVars, device, stage, diskVars>>

Disconnect ==
  /\ Drops /\ online /\ sync = "off" /\ online' = FALSE
  /\ UNCHANGED <<clientVars, device, stage, diskVars, syncVars>>

\* The daemon dies and restarts.
Restart ==
  /\ Aborts
  /\ pc' = [c \in Clients |-> "idle"] /\ job' = [c \in Clients |-> Idle]
  /\ got' = [c \in Clients |-> None]
  /\ sync' = "off" /\ syncFor' = None /\ fresh' = digest /\ online' = FALSE
  /\ UNCHANGED <<device, stage, diskVars>>

\* Another paired host adds or deletes a key.
ForeignChange ==
  /\ Foreign /\ ~online
  /\ \E k \in Cats :
       \/ /\ Len(device[k]) < MaxKeys
          /\ \E n \in Names :
               device' = [device EXCEPT ![k] = Append(@, [head |-> n, tail |-> n])]
       \/ \E i \in Indices(device[k]) : device' = [device EXCEPT ![k] = Without(@, i)]
  /\ UNCHANGED <<clientVars, stage, diskVars, syncVars, online>>

Handler(c) ==
  \/ \E k \in Cats, n \in Names : "import" \in Ops /\ Import(c, k, n)
  \/ CountKeys(c) \/ WriteHead(c) \/ WriteTail(c) \/ Commit(c)
  \/ \E k \in Cats, i \in 0..MaxKeys - 1 : "delete" \in Ops /\ Delete(c, k, i)
  \/ DeleteKey(c)
  \/ \E k \in Cats, n \in Names : "get" \in Ops /\ Get(c, k, n)
  \/ ReadHead(c) \/ ReadTail(c) \/ Answered(c)
  \/ Fails(c) \/ AskSync(c) \/ NoSync(c)

Sync == SyncSsh \/ SyncNames \/ SyncSave \/ SyncFails

Next ==
  \/ \E c \in Clients : Handler(c)
  \/ Sync
  \/ Connect \/ Disconnect \/ Restart \/ ForeignChange

Spec == Init /\ [][Next]_vars

-----------------------------------------------------------------------------
(* Properties *)

\* A digest that will hit stands for a cache that holds every key of the device
\* under its index: skipping the read loses nothing.  (digest_hit, keystore.rs:46)
HitIsCurrent ==
  sync = "off" => \A k \in Cats : Hit(k) => cache[k] = Full(device[k])

\* While a device is connected and no write is still on its way to its sync,
\* clients list exactly the device's keys.  (sync_ssh_keys on connect, sync_keys
\* after each write)
CacheCurrent ==
  online /\ sync = "off" /\ (\A c \in Clients : pc[c] # "ask")
    => \A k \in Cats : cache[k] = Full(device[k])

\* Every key on the device is the key one client imported.  (socket.rs:1941)
KeysWhole ==
  \A k \in Cats : \A i \in 1..Len(device[k]) : device[k][i].head = device[k][i].tail

\* GET by name answers with the secret of a key of that name.  (socket.rs:1477)
GetReturnsNamed ==
  \A c \in Clients : pc[c] = "got" => got[c] = job[c].name
=============================================================================
