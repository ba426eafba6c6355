--------------------------- MODULE KeyStoreProofs ---------------------------
(***************************************************************************)
(* For any clients, names, categories and capacity: the cache is typed;    *)
(* it is current, and so is what a digest hits on, when reads and syncs    *)
(* end well; keys are whole, and named reads true, for a single client.    *)
(***************************************************************************)
EXTENDS KeyStore, SequenceTheorems, TLAPS

\* TypeOK in four parts; a handler at work works on a key of some category.
JobType == [cat : Cats \cup {None}, name : Names \cup {None}, idx : Nat]

ClientsOK ==
  /\ pc \in [Clients -> Places] /\ job \in [Clients -> JobType]
  /\ got \in [Clients -> Names \cup {None}]
  /\ \A c \in Clients : pc[c] # "idle" => job[c].cat \in Cats

DeviceOK ==
  /\ device \in [Cats -> Seq(Keys)] /\ \A k \in Cats : Len(device[k]) <= MaxKeys
  /\ stage \in [Cats -> Keys]

DiskOK ==
  /\ \A k \in Cats : DOMAIN cache[k] \subseteq 0..MaxKeys - 1
                     /\ \A i \in DOMAIN cache[k] : cache[k][i] \in Keys
  /\ \A k \in Cats : digest[k] = None \/ digest[k] \in Seq(Keys)
  /\ \A k \in Cats : fresh[k] = None \/ fresh[k] \in Seq(Keys)

SyncOK ==
  /\ sync \in {"off", "ssh", "names", "save"} /\ syncFor \in Clients \cup {None}
  /\ online \in BOOLEAN

Types == ClientsOK /\ DeviceOK /\ DiskOK /\ SyncOK

-----------------------------------------------------------------------------
(* What the operators on keys return *)

LEMMA WithoutIsShorter ==
  ASSUME NEW S, NEW s \in Seq(S), NEW i \in Indices(s)
  PROVE  /\ Without(s, i) \in Seq(S) /\ Len(Without(s, i)) = Len(s) - 1
         /\ \A j \in 1..Len(Without(s, i)) : \E m \in 1..Len(s) : Without(s, i)[j] = s[m]
<1> DEFINE a == SubSeq(s, 1, i)
           b == SubSeq(s, i + 2, Len(s))
<1>1. Len(s) \in Nat /\ i \in Nat /\ i < Len(s)
  BY LenProperties DEF Indices
<1>2. \A m \in 1..Len(s) : s[m] \in S
  BY ElementOfSeq
<1>3. /\ a \in Seq(S) /\ Len(a) = i
      /\ \A j \in 1..i : a[j] = s[j]
  BY <1>1, <1>2, SubSeqProperties
<1>4. /\ b \in Seq(S) /\ Len(b) = Len(s) - i - 1
      /\ \A j \in 1..Len(s) - i - 1 : b[j] = s[i + 1 + j]
  <2>1. i + 2 \in Int /\ Len(s) \in Int /\ \A m \in i + 2..Len(s) : s[m] \in S
    BY <1>1, <1>2
  <2>2. /\ b \in Seq(S)
        /\ Len(b) = IF i + 2 <= Len(s) THEN Len(s) - (i + 2) + 1 ELSE 0
        /\ \A j \in 1..Len(s) - (i + 2) + 1 : b[j] = s[(i + 2) + j - 1]
    BY <2>1, SubSeqProperties
  <2> QED BY <2>2, <1>1
<1> HIDE DEF a, b
<1>5. /\ a \o b \in Seq(S) /\ Len(a \o b) = Len(s) - 1
      /\ \A j \in 1..Len(s) - 1 : (a \o b)[j] = IF j <= i THEN a[j] ELSE b[j - i]
  <2>1. /\ a \o b \in Seq(S) /\ Len(a \o b) = Len(a) + Len(b)
        /\ \A j \in 1..Len(a) + Len(b) : (a \o b)[j] = IF j <= Len(a) THEN a[j] ELSE b[j - Len(a)]
    BY <1>3, <1>4, ConcatProperties
  <2>2. Len(a) + Len(b) = Len(s) - 1 BY <1>1, <1>3, <1>4
  <2> QED BY <2>1, <2>2, <1>3
<1>6. ASSUME NEW j \in 1..Len(s) - 1 PROVE \E m \in 1..Len(s) : (a \o b)[j] = s[m]
  <2>1. CASE j <= i BY <2>1, <1>1, <1>3, <1>5
  <2>2. CASE j > i
    <3>1. j - i \in 1..Len(s) - i - 1 BY <2>2, <1>1
    <3>2. (a \o b)[j] = b[j - i] BY <2>2, <1>1, <1>5
    <3>3. b[j - i] = s[i + 1 + (j - i)] BY <3>1, <1>4
    <3>4. i + 1 + (j - i) \in 1..Len(s) BY <2>2, <1>1
    <3> QED BY <3>2, <3>3, <3>4
  <2>3. j <= i \/ j > i BY <1>1
  <2> QED BY <2>1, <2>2, <2>3
<1> QED BY <1>5, <1>6 DEF Without, a, b

LEMMA EntriesOfKeys ==
  ASSUME NEW S, NEW s \in Seq(S), NEW some \in SUBSET Indices(s)
  PROVE  /\ DOMAIN Entries(s, some) = some
         /\ \A i \in some : i + 1 \in 1..Len(s) /\ Entries(s, some)[i] = s[i + 1] /\ s[i + 1] \in S
<1>1. \A i \in Indices(s) : i + 1 \in 1..Len(s) /\ s[i + 1] \in S
  BY LenProperties, ElementOfSeq DEF Indices
<1> QED BY <1>1 DEF Entries

\* What a refresh leaves, category by category.
LEMMA RefreshReads ==
  ASSUME NEW ks \in SUBSET Cats, Refresh(ks)
  PROVE  /\ \A k \in Cats \ ks : cache'[k] = cache[k] /\ fresh'[k] = fresh[k]
         /\ \A k \in ks : \/ Hit(k) /\ cache'[k] = cache[k] /\ fresh'[k] \in {fresh[k], device[k]}
                          \/ /\ ~Hit(k) /\ fresh'[k] = device[k]
                             /\ \E some \in SUBSET Indices(device[k]) :
                                  /\ cache'[k] = Entries(device[k], some)
                                  /\ ~ReadsFail => some = Indices(device[k])
<1>1. CASE \A k \in ks : Hit(k)
  BY <1>1 DEF Refresh
<1>2. CASE ~\A k \in ks : Hit(k)
  <2>1. PICK read \in [ks -> SUBSET (0..MaxKeys - 1)] :
          /\ \A k \in ks : read[k] \in Reads(k)
          /\ cache' = [k \in Cats |-> IF k \in ks /\ ~Hit(k)
                                      THEN Entries(device[k], read[k]) ELSE cache[k]]
          /\ fresh' = [k \in Cats |-> IF k \in ks THEN device[k] ELSE fresh[k]]
    BY <1>2 DEF Refresh
  <2>2. \A k \in ks : read[k] \in SUBSET Indices(device[k])
                      /\ (~ReadsFail => read[k] = Indices(device[k]))
    BY <2>1 DEF Reads
  <2> HIDE DEF Refresh
  <2> QED BY <2>1, <2>2
<1> QED BY <1>1, <1>2

-----------------------------------------------------------------------------
(* Types *)

LEMMA HandlerMoves ==
  ASSUME ClientsOK, NEW c \in Clients, NEW to \in Places, Moves(c, to), UNCHANGED <<job, got>>,
         pc[c] # "idle"
  PROVE  ClientsOK'
BY DEF ClientsOK, Moves

LEMMA HandlerStarts ==
  ASSUME ClientsOK, NEW c \in Clients, NEW to \in Places, Moves(c, to), UNCHANGED got,
         NEW j \in JobType, j.cat \in Cats, job' = [job EXCEPT ![c] = j]
  PROVE  ClientsOK'
BY DEF ClientsOK, Moves

LEMMA HandlerEnds ==
  ASSUME ClientsOK, NEW c \in Clients, Ends(c)
  PROVE  ClientsOK'
<1>1. Idle \in JobType /\ "idle" \in Places BY DEF Idle, JobType, Places
<1> QED BY <1>1 DEF ClientsOK, Ends, Moves

LEMMA KeysStay ==
  ASSUME DeviceOK, DiskOK, SyncOK, UNCHANGED <<device, stage, diskVars, syncVars, online>>
  PROVE  DeviceOK' /\ DiskOK' /\ SyncOK'
BY DEF DeviceOK, DiskOK, SyncOK, diskVars, syncVars

LEMMA DeviceChanges ==
  ASSUME DeviceOK, NEW k \in Cats, NEW s \in Seq(Keys), Len(s) <= MaxKeys,
         device' = [device EXCEPT ![k] = s], stage' \in [Cats -> Keys]
  PROVE  DeviceOK'
BY DEF DeviceOK

LEMMA DiskStays ==
  ASSUME DiskOK, SyncOK, UNCHANGED <<diskVars, syncVars, online>>
  PROVE  DiskOK' /\ SyncOK'
BY DEF DiskOK, SyncOK, diskVars, syncVars

LEMMA HandlerTypes ==
  ASSUME Types, NEW c \in Clients, Handler(c)
  PROVE  Types'
<1> USE DEF Types
<1>1. ASSUME NEW k \in Cats, NEW n \in Names, Import(c, k, n) PROVE Types'
  <2>1. [cat |-> k, name |-> n, idx |-> 0] \in JobType /\ "count" \in Places BY DEF JobType, Places
  <2>2. ClientsOK' BY <1>1, <2>1, HandlerStarts DEF Import
  <2> QED BY <1>1, <2>2, KeysStay DEF Import
<1>2. CASE CountKeys(c)
  <2>1. "head" \in Places BY DEF Places
  <2>2. ClientsOK' BY <1>2, <2>1, HandlerMoves, HandlerEnds DEF CountKeys, FirstChunk, Commands
  <2> QED BY <1>2, <2>2, KeysStay DEF CountKeys
<1>3. CASE WriteHead(c)
  <2>1. "tail" \in Places BY DEF Places
  <2>2. ClientsOK' BY <1>3, <2>1, HandlerMoves DEF WriteHead, Commands
  <2>3. stage' \in [Cats -> Keys]
    <3>1. job[c].cat \in Cats /\ job[c].name \in Names \cup {None}
      BY <1>3 DEF ClientsOK, WriteHead, Commands, JobType
    <3> QED BY <1>3, <3>1 DEF WriteHead, DeviceOK, Keys
  <2> QED BY <1>3, <2>2, <2>3, DiskStays DEF WriteHead, DeviceOK
<1>4. CASE WriteTail(c)
  <2>1. "commit" \in Places BY DEF Places
  <2>2. ClientsOK' BY <1>4, <2>1, HandlerMoves DEF WriteTail, Commands
  <2>3. stage' \in [Cats -> Keys]
    <3>1. job[c].cat \in Cats /\ job[c].name \in Names \cup {None}
      BY <1>4 DEF ClientsOK, WriteTail, Commands, JobType
    <3> QED BY <1>4, <3>1 DEF WriteTail, DeviceOK, Keys
  <2> QED BY <1>4, <2>2, <2>3, DiskStays DEF WriteTail, DeviceOK
<1>5. CASE Commit(c)
  <2>1. CASE UNCHANGED <<device, stage>> /\ Ends(c)
    BY <1>5, <2>1, HandlerEnds, KeysStay DEF Commit
  <2>2. CASE ~(UNCHANGED <<device, stage>> /\ Ends(c))
    <3> DEFINE k == job[c].cat
    <3>0. k \in Cats /\ Len(device[k]) \in Nat /\ MaxKeys \in Nat
      BY <1>5, LenProperties, ConstantsAssumption DEF Commit, Commands, ClientsOK, DeviceOK
    <3>1. /\ k \in Cats /\ Len(device[k]) < MaxKeys
          /\ device' = [device EXCEPT ![k] = Append(device[k], stage[k])]
          /\ stage' = [stage EXCEPT ![k] = Blank]
          /\ Moves(c, "ask") /\ pc[c] # "idle"
          /\ UNCHANGED <<job, got, diskVars, syncVars, online>>
      BY <1>5, <2>2, <3>0 DEF Commit, Commands
    <3> HIDE DEF k
    <3>2. device[k] \in Seq(Keys) /\ stage[k] \in Keys BY <3>1 DEF DeviceOK
    <3>3. /\ Append(device[k], stage[k]) \in Seq(Keys)
          /\ Len(Append(device[k], stage[k])) <= MaxKeys
      BY <3>1, <3>2, AppendProperties, LenProperties, ConstantsAssumption
    <3>4. stage' \in [Cats -> Keys]
      <4>1. Blank \in Keys BY DEF Blank, Keys
      <4> QED BY <3>1, <4>1 DEF DeviceOK
    <3>5. DeviceOK' BY <3>1, <3>3, <3>4, DeviceChanges
    <3>6. "ask" \in Places BY DEF Places
    <3> QED BY <3>1, <3>5, <3>6, HandlerMoves, DiskStays
  <2> QED BY <2>1, <2>2
<1>6. ASSUME NEW k \in Cats, NEW i \in 0..MaxKeys - 1, Delete(c, k, i) PROVE Types'
  <2>1. cache[k][i].head \in Names \cup {None} /\ i \in Nat
    BY <1>6, ConstantsAssumption DEF Delete, Keys, DiskOK
  <2>2. [cat |-> k, name |-> cache[k][i].head, idx |-> i] \in JobType /\ "delete" \in Places
    BY <2>1 DEF JobType, Places
  <2>3. ClientsOK' BY <1>6, <2>2, HandlerStarts DEF Delete
  <2> QED BY <1>6, <2>3, KeysStay DEF Delete
<1>7. CASE DeleteKey(c)
  <2>1. CASE UNCHANGED device /\ Ends(c)
    BY <1>7, <2>1, HandlerEnds, KeysStay DEF DeleteKey
  <2>2. CASE ~(UNCHANGED device /\ Ends(c))
    <3> DEFINE k == job[c].cat
    <3>1. /\ k \in Cats /\ job[c].idx \in Indices(device[k])
          /\ device' = [device EXCEPT ![k] = Without(device[k], job[c].idx)]
          /\ Moves(c, "ask") /\ pc[c] # "idle"
          /\ UNCHANGED <<job, got, stage, diskVars, syncVars, online>>
      BY <1>7, <2>2 DEF DeleteKey, DeleteSyncs, Commands, ClientsOK
    <3> HIDE DEF k
    <3>2. device[k] \in Seq(Keys) /\ Len(device[k]) \in Nat /\ Len(device[k]) <= MaxKeys
      BY <3>1, LenProperties DEF DeviceOK
    <3>3. Without(device[k], job[c].idx) \in Seq(Keys) /\ Len(Without(device[k], job[c].idx)) = Len(device[k]) - 1
      BY <3>1, <3>2, WithoutIsShorter
    <3>4. Len(Without(device[k], job[c].idx)) <= MaxKeys
      BY <3>2, <3>3, ConstantsAssumption
    <3>5. stage' \in [Cats -> Keys] BY <3>1 DEF DeviceOK
    <3>6. DeviceOK' BY <3>1, <3>3, <3>4, <3>5, DeviceChanges
    <3>7. "ask" \in Places BY DEF Places
    <3> QED BY <3>1, <3>6, <3>7, HandlerMoves, DiskStays
  <2> QED BY <2>1, <2>2
<1>8. ASSUME NEW k \in Cats, NEW n \in Names, Get(c, k, n) PROVE Types'
  <2>1. PICK i \in Find(k, n) : job' = [job EXCEPT ![c] = [cat |-> k, name |-> n, idx |-> i]]
    BY <1>8 DEF Get
  <2>2. i \in Nat BY ConstantsAssumption DEF Find, DiskOK
  <2>3. [cat |-> k, name |-> n, idx |-> i] \in JobType /\ {"read head", "read tail"} \subseteq Places
    BY <2>2 DEF JobType, Places
  <2>4. ClientsOK' BY <1>8, <2>1, <2>3, HandlerStarts DEF Get
  <2> QED BY <1>8, <2>4, KeysStay DEF Get
<1>9. CASE ReadHead(c)
  <2>1. "read tail" \in Places BY DEF Places
  <2>2. ClientsOK' BY <1>9, <2>1, HandlerMoves, HandlerEnds DEF ReadHead, Commands
  <2> QED BY <1>9, <2>2, KeysStay DEF ReadHead
<1>10. CASE ReadTail(c)
  <2>1. CASE Ends(c) BY <1>10, <2>1, HandlerEnds, KeysStay DEF ReadTail
  <2>2. CASE ~Ends(c)
    <3> DEFINE k == job[c].cat
    <3>1. /\ k \in Cats /\ job[c].idx \in Indices(device[k]) /\ job[c].idx \in Nat
          /\ got' = [got EXCEPT ![c] = device[k][job[c].idx + 1].tail]
          /\ Moves(c, "got") /\ UNCHANGED job
      BY <1>10, <2>2 DEF ReadTail, Commands, ClientsOK, JobType
    <3> HIDE DEF k
    <3>2. device[k] \in Seq(Keys) BY <3>1 DEF DeviceOK
    <3>3. job[c].idx + 1 \in 1..Len(device[k]) BY <3>1, <3>2, LenProperties DEF Indices
    <3>4. device[k][job[c].idx + 1].tail \in Names \cup {None}
      <4>1. device[k][job[c].idx + 1] \in Keys BY <3>2, <3>3, ElementOfSeq
      <4> QED BY <4>1 DEF Keys
    <3>5. pc[c] # "idle" BY <1>10 DEF ReadTail, Commands
    <3>6. ClientsOK' BY <3>1, <3>4, <3>5 DEF ClientsOK, Moves, Places
    <3> QED BY <1>10, <3>6, KeysStay DEF ReadTail
  <2> QED BY <2>1, <2>2
<1>11. CASE Answered(c) BY <1>11, HandlerEnds, KeysStay DEF Answered
<1>12. CASE Fails(c) BY <1>12, HandlerEnds, KeysStay DEF Fails
<1>13. CASE AskSync(c)
  <2>1. "wait" \in Places BY DEF Places
  <2>2. ClientsOK' BY <1>13, <2>1, HandlerMoves DEF AskSync
  <2>3. DeviceOK' BY <1>13 DEF AskSync, DeviceOK
  <2>4. DiskOK' BY <1>13 DEF AskSync, StartSync, DiskOK, diskVars
  <2>5. SyncOK' BY <1>13 DEF AskSync, StartSync, SyncOK
  <2> QED BY <2>2, <2>3, <2>4, <2>5
<1>14. CASE NoSync(c) BY <1>14, HandlerEnds, KeysStay DEF NoSync
<1> HIDE DEF Types
<1> QED BY <1>1, <1>2, <1>3, <1>4, <1>5, <1>6, <1>7, <1>8, <1>9, <1>10, <1>11, <1>12, <1>13, <1>14
        DEF Handler

LEMMA RefreshTypes ==
  ASSUME Types, NEW ks \in SUBSET Cats, Refresh(ks), sync' \in {"names", "save"}
  PROVE  Types'
<1>1. UNCHANGED <<clientVars, device, stage, digest, syncFor, online>> BY DEF Refresh
<1>2. ASSUME NEW k \in Cats
      PROVE  /\ DOMAIN cache'[k] \subseteq 0..MaxKeys - 1 /\ \A i \in DOMAIN cache'[k] : cache'[k][i] \in Keys
             /\ fresh'[k] = None \/ fresh'[k] \in Seq(Keys)
  <2>0. device[k] \in Seq(Keys) /\ Len(device[k]) \in Nat /\ Len(device[k]) <= MaxKeys
    BY LenProperties DEF Types, DeviceOK
  <2>1. CASE cache'[k] = cache[k] /\ fresh'[k] \in {fresh[k], device[k]}
    BY <2>0, <2>1 DEF Types, DiskOK
  <2>2. ASSUME fresh'[k] = device[k],
               NEW some \in SUBSET Indices(device[k]), cache'[k] = Entries(device[k], some)
        PROVE  /\ DOMAIN cache'[k] \subseteq 0..MaxKeys - 1 /\ \A i \in DOMAIN cache'[k] : cache'[k][i] \in Keys
               /\ fresh'[k] = None \/ fresh'[k] \in Seq(Keys)
    <3>2. some \subseteq 0..MaxKeys - 1 BY <2>0, ConstantsAssumption DEF Indices
    <3>3. DOMAIN cache'[k] = some /\ \A i \in some : cache'[k][i] \in Keys
      BY <2>0, <2>2, EntriesOfKeys
    <3> QED BY <2>0, <3>2, <3>3, <2>2
  <2>3. \/ cache'[k] = cache[k] /\ fresh'[k] \in {fresh[k], device[k]}
        \/ /\ fresh'[k] = device[k]
           /\ \E some \in SUBSET Indices(device[k]) : cache'[k] = Entries(device[k], some)
    BY RefreshReads
  <2> QED BY <2>1, <2>2, <2>3
<1>3. ClientsOK' BY <1>1 DEF Types, ClientsOK, clientVars
<1>4. DeviceOK' BY <1>1 DEF Types, DeviceOK
<1>5. DiskOK' BY <1>1, <1>2 DEF Types, DiskOK
<1>6. SyncOK' BY <1>1 DEF Types, SyncOK
<1> QED BY <1>3, <1>4, <1>5, <1>6 DEF Types

LEMMA SyncEnds ==
  ASSUME Types, SyncOver, UNCHANGED <<device, stage, cache, online>>, digest' \in {digest, fresh}
  PROVE  Types'
<1>1. ClientsOK'
  <2>1. CASE syncFor = None BY <2>1 DEF SyncOver, Types, ClientsOK, clientVars
  <2>2. CASE syncFor # None BY <2>2, HandlerEnds DEF SyncOver, Types, SyncOK
  <2> QED BY <2>1, <2>2
<1>2. DeviceOK' BY DEF Types, DeviceOK
<1>3. DiskOK' BY DEF Types, DiskOK, SyncOver
<1>4. SyncOK' BY DEF Types, SyncOK, SyncOver
<1> QED BY <1>1, <1>2, <1>3, <1>4 DEF Types

LEMMA SyncTypes == Types /\ Sync => Types'
<1> SUFFICES ASSUME Types, Sync PROVE Types' OBVIOUS
<1>1. CASE SyncSsh BY <1>1, RefreshTypes DEF SyncSsh
<1>2. CASE SyncNames BY <1>2, RefreshTypes DEF SyncNames
<1>3. CASE SyncSave BY <1>3, SyncEnds DEF SyncSave
<1>4. CASE SyncFails BY <1>4, SyncEnds DEF SyncFails, diskVars
<1> QED BY <1>1, <1>2, <1>3, <1>4 DEF Sync

\* What another host does to the keys.
LEMMA ForeignKeys ==
  ASSUME DeviceOK, ForeignChange
  PROVE  \E k \in Cats, s \in Seq(Keys) :
           /\ Len(s) <= MaxKeys /\ device' = [device EXCEPT ![k] = s]
           /\ \A j \in 1..Len(s) : \/ \E m \in 1..Len(device[k]) : s[j] = device[k][m]
                                   \/ s[j].head = s[j].tail
<1>1. PICK k \in Cats :
        \/ /\ Len(device[k]) < MaxKeys
           /\ \E n \in Names :
                device' = [device EXCEPT ![k] = Append(device[k], [head |-> n, tail |-> n])]
        \/ \E i \in Indices(device[k]) : device' = [device EXCEPT ![k] = Without(device[k], i)]
  BY DEF ForeignChange
<1>2. device[k] \in Seq(Keys) /\ Len(device[k]) \in Nat /\ Len(device[k]) <= MaxKeys
  BY LenProperties DEF DeviceOK
<1>3. ASSUME NEW n \in Names, Len(device[k]) < MaxKeys,
             device' = [device EXCEPT ![k] = Append(device[k], [head |-> n, tail |-> n])]
      PROVE  \E s \in Seq(Keys) :
               /\ Len(s) <= MaxKeys /\ device' = [device EXCEPT ![k] = s]
               /\ \A j \in 1..Len(s) : \/ \E m \in 1..Len(device[k]) : s[j] = device[k][m]
                                       \/ s[j].head = s[j].tail
  <2> DEFINE e == [head |-> n, tail |-> n]
             s == Append(device[k], e)
  <2>1. e \in Keys /\ e.head = e.tail BY DEF Keys
  <2> HIDE DEF e
  <2>2. /\ s \in Seq(Keys) /\ Len(s) = Len(device[k]) + 1 /\ s[Len(s)] = e
        /\ \A j \in 1..Len(device[k]) : s[j] = device[k][j]
    BY <2>1, <1>2, AppendProperties
  <2> HIDE DEF s
  <2>3. device' = [device EXCEPT ![k] = s] BY <1>3 DEF s, e
  <2>4. Len(s) <= MaxKeys BY <2>2, <1>3, <1>2, ConstantsAssumption
  <2>5. \A j \in 1..Len(s) : j \in 1..Len(device[k]) \/ j = Len(s) BY <2>2, <1>2
  <2> QED BY <2>1, <2>2, <2>3, <2>4, <2>5
<1>4. ASSUME NEW i \in Indices(device[k]), device' = [device EXCEPT ![k] = Without(device[k], i)]
      PROVE  \E s \in Seq(Keys) :
               /\ Len(s) <= MaxKeys /\ device' = [device EXCEPT ![k] = s]
               /\ \A j \in 1..Len(s) : \/ \E m \in 1..Len(device[k]) : s[j] = device[k][m]
                                       \/ s[j].head = s[j].tail
  <2>1. /\ Without(device[k], i) \in Seq(Keys) /\ Len(Without(device[k], i)) = Len(device[k]) - 1
        /\ \A j \in 1..Len(Without(device[k], i)) :
             \E m \in 1..Len(device[k]) : Without(device[k], i)[j] = device[k][m]
    BY <1>2, WithoutIsShorter
  <2>2. Len(Without(device[k], i)) <= MaxKeys BY <2>1, <1>2, ConstantsAssumption
  <2> QED BY <2>1, <2>2, <1>4
<1> QED BY <1>1, <1>3, <1>4

LEMMA OthersTypes == Types /\ (Connect \/ Disconnect \/ Restart \/ ForeignChange) => Types'
<1> SUFFICES ASSUME Types, Connect \/ Disconnect \/ Restart \/ ForeignChange PROVE Types' OBVIOUS
<1> USE DEF Types
<1>1. CASE Connect
  BY <1>1 DEF Connect, StartSync, ClientsOK, DeviceOK, DiskOK, SyncOK, clientVars, diskVars
<1>2. CASE Disconnect
  BY <1>2 DEF Disconnect, ClientsOK, DeviceOK, DiskOK, SyncOK, clientVars, diskVars, syncVars
<1>3. CASE Restart
  <2>1. ClientsOK' BY <1>3 DEF Restart, ClientsOK, JobType, Idle, Places
  <2> QED BY <1>3, <2>1 DEF Restart, DeviceOK, DiskOK, SyncOK, diskVars
<1>4. CASE ForeignChange
  <2>1. stage' \in [Cats -> Keys] BY <1>4 DEF ForeignChange, DeviceOK
  <2>2. DeviceOK' BY <1>4, <2>1, ForeignKeys, DeviceChanges
  <2>3. ClientsOK' BY <1>4 DEF ForeignChange, ClientsOK, clientVars
  <2> QED BY <1>4, <2>2, <2>3, DiskStays DEF ForeignChange
<1> QED BY <1>1, <1>2, <1>3, <1>4

LEMMA InitTypes == Init => Types
<1> SUFFICES ASSUME Init PROVE Types OBVIOUS
<1>1. ClientsOK BY DEF Init, ClientsOK, JobType, Idle, Places
<1>2. DeviceOK
  <2>1. Blank \in Keys /\ <<>> \in Seq(Keys) /\ Len(<<>>) = 0 /\ MaxKeys \in Nat
    BY ConstantsAssumption, EmptySeq DEF Blank, Keys
  <2> QED BY <2>1 DEF Init, DeviceOK
<1>3. DiskOK
  <2>1. DOMAIN Entries(<<>>, {}) = {} BY DEF Entries
  <2> QED BY <2>1 DEF Init, DiskOK
<1>4. SyncOK BY DEF Init, SyncOK
<1> QED BY <1>1, <1>2, <1>3, <1>4 DEF Types

LEMMA StutterTypes == Types /\ UNCHANGED vars => Types'
BY DEF Types, ClientsOK, DeviceOK, DiskOK, SyncOK, vars, clientVars, diskVars, syncVars

LEMMA TypesHold == Spec => []Types
<1>1. Types /\ [Next]_vars => Types'
  BY HandlerTypes, SyncTypes, OthersTypes, StutterTypes DEF Next
<1> QED BY InitTypes, <1>1, PTL DEF Spec

\* Every variable keeps its type, whatever fails: no category holds more keys than
\* it may, and the cache has no entry beyond its capacity.
THEOREM TypeCorrect == Spec => []TypeOK
<1>1. Types => TypeOK BY DEF Types, ClientsOK, DeviceOK, DiskOK, SyncOK, JobType, TypeOK
<1> QED BY <1>1, TypesHold, PTL

-----------------------------------------------------------------------------
(* The cache is current, where reads succeed and a sync ends as a whole.   *)
(*                                                                         *)
(* What a digest stands for is in the cache; a sync replaces first the     *)
(* entries of a category, then, at its end, the digests of all.            *)

Faithful(k) == digest[k] # None => cache[k] = Full(digest[k])
Unread(k)   == Faithful(k) /\ fresh[k] = digest[k]
Read(k)     == fresh[k] = device[k] /\ cache[k] = Full(device[k])

CacheInv ==
  /\ sync # "off" => online
  /\ sync = "off"   => \A k \in Cats : Faithful(k)
  /\ sync = "ssh"   => \A k \in Cats : Unread(k)
  /\ sync = "names" => \A k \in Cats : IF k = "ssh" THEN Read(k) ELSE Unread(k)
  /\ sync = "save"  => \A k \in Cats : Read(k)
  /\ CacheCurrent

\* A handler's step asks for the sync, or leaves the disk alone: what it changes on
\* the device it goes on to ask a sync for, and no request for a sync is dropped
\* while there is a device.
LEMMA HandlerSteps ==
  ASSUME ~Aborts, Types, NEW c \in Clients, Handler(c)
  PROVE  \/ AskSync(c)
         \/ /\ UNCHANGED <<diskVars, syncVars, online>>
            /\ UNCHANGED device \/ pc'[c] = "ask"
            /\ online => \A d \in Clients : pc[d] = "ask" => pc'[d] = "ask"
<1> USE DEF Moves, Ends, Commands
<1>0. pc \in [Clients -> Places] BY DEF Types, ClientsOK
<1>1. ASSUME NEW k \in Cats, NEW n \in Names, Import(c, k, n) PROVE UNCHANGED <<diskVars, syncVars, online, device>> /\ \A d \in Clients : pc[d] = "ask" => pc'[d] = "ask"
  BY <1>0, <1>1 DEF Import
<1>2. CASE CountKeys(c) BY <1>0, <1>2 DEF CountKeys
<1>3. CASE WriteHead(c) BY <1>0, <1>3 DEF WriteHead
<1>4. CASE WriteTail(c) BY <1>0, <1>4 DEF WriteTail
<1>5. CASE Commit(c) BY <1>0, <1>5 DEF Commit
<1>6. ASSUME NEW k \in Cats, NEW i \in 0..MaxKeys - 1, Delete(c, k, i) PROVE UNCHANGED <<diskVars, syncVars, online, device>> /\ \A d \in Clients : pc[d] = "ask" => pc'[d] = "ask"
  BY <1>0, <1>6 DEF Delete
<1>7. CASE DeleteKey(c) BY <1>0, <1>7 DEF DeleteKey, DeleteSyncs
<1>8. ASSUME NEW k \in Cats, NEW n \in Names, Get(c, k, n) PROVE UNCHANGED <<diskVars, syncVars, online, device>> /\ \A d \in Clients : pc[d] = "ask" => pc'[d] = "ask"
  BY <1>0, <1>8 DEF Get
<1>9. CASE ReadHead(c) BY <1>0, <1>9 DEF ReadHead
<1>10. CASE ReadTail(c) BY <1>0, <1>10 DEF ReadTail
<1>11. CASE Answered(c) BY <1>0, <1>11 DEF Answered
<1>12. CASE Fails(c) BY <1>0, <1>12 DEF Fails
<1>13. CASE NoSync(c) BY <1>0, <1>13 DEF NoSync
<1> QED BY <1>1, <1>2, <1>3, <1>4, <1>5, <1>6, <1>7, <1>8, <1>9, <1>10, <1>11, <1>12, <1>13 DEF Handler

\* A handler's commands do not run in the middle of a sync.
LEMMA DeviceAtRest ==
  ASSUME NEW c \in Clients, Handler(c), sync # "off"
  PROVE  UNCHANGED device
BY DEF Handler, Import, CountKeys, WriteHead, WriteTail, Commit, Delete, DeleteKey, Get, ReadHead,
       ReadTail, Answered, Fails, AskSync, NoSync, Commands

LEMMA HandlerKeepsCache ==
  ASSUME ~Aborts, Types, CacheInv, NEW c \in Clients, Handler(c)
  PROVE  CacheInv'
<1>1. CASE AskSync(c)
  <2>1. /\ sync = "off" /\ sync' = "ssh" /\ fresh' = digest /\ online'
        /\ UNCHANGED <<device, cache, digest>>
    BY <1>1 DEF AskSync, StartSync, diskVars
  <2> QED BY <2>1 DEF CacheInv, CacheCurrent, Faithful, Unread
<1>2. CASE ~AskSync(c)
  <2>1. /\ UNCHANGED <<cache, digest, fresh, sync, online>>
        /\ UNCHANGED device \/ pc'[c] = "ask"
        /\ online => \A d \in Clients : pc[d] = "ask" => pc'[d] = "ask"
    BY <1>2, HandlerSteps DEF diskVars, syncVars
  <2>2. CASE UNCHANGED device
    BY <2>1, <2>2 DEF CacheInv, CacheCurrent, Faithful, Unread, Read
  <2>3. CASE ~UNCHANGED device
    <3>1. sync = "off" BY <2>3, DeviceAtRest
    <3> QED BY <2>1, <2>3, <3>1 DEF CacheInv, CacheCurrent, Faithful, Unread
  <2> QED BY <2>2, <2>3
<1> QED BY <1>1, <1>2

LEMMA RefreshIsCurrent ==
  ASSUME ~ReadsFail, NEW ks \in SUBSET Cats, Refresh(ks), \A k \in ks : Unread(k)
  PROVE  /\ \A k \in ks : Read(k)'
         /\ \A k \in Cats \ ks : cache'[k] = cache[k] /\ fresh'[k] = fresh[k]
         /\ UNCHANGED <<device, digest, online>>
<1>1. UNCHANGED <<device, digest, online>> BY DEF Refresh
<1>2. ASSUME NEW k \in ks PROVE Read(k)'
  <2>1. CASE Hit(k) /\ cache'[k] = cache[k] /\ fresh'[k] \in {fresh[k], device[k]}
    BY <1>1, <2>1 DEF Hit, Unread, Faithful, Read
  <2>2. ASSUME fresh'[k] = device[k], cache'[k] = Entries(device[k], Indices(device[k]))
        PROVE  Read(k)'
    BY <1>1, <2>2 DEF Read, Full
  <2> QED BY <2>1, <2>2, RefreshReads
<1> QED BY <1>1, <1>2, RefreshReads

LEMMA SyncKeepsCache ==
  ASSUME ~ReadsFail, ~Aborts, Types, CacheInv, Sync
  PROVE  CacheInv'
<1>1. CASE SyncSsh
  <2>1. sync = "ssh" /\ sync' = "names" /\ online /\ \A k \in Cats : Unread(k)
    BY <1>1 DEF SyncSsh, CacheInv
  <2>2. /\ \A k \in Cats \cap {"ssh"} : Read(k)'
        /\ \A k \in Cats \ (Cats \cap {"ssh"}) : cache'[k] = cache[k] /\ fresh'[k] = fresh[k]
        /\ UNCHANGED <<device, digest, online>>
    BY <1>1, <2>1, RefreshIsCurrent DEF SyncSsh
  <2>3. \A k \in Cats : k # "ssh" => Unread(k)'
    BY <2>1, <2>2 DEF Unread, Faithful
  <2> QED BY <2>1, <2>2, <2>3 DEF CacheInv, CacheCurrent
<1>2. CASE SyncNames
  <2>1. /\ sync = "names" /\ sync' = "save" /\ online
        /\ \A k \in Cats : IF k = "ssh" THEN Read(k) ELSE Unread(k)
    BY <1>2 DEF SyncNames, CacheInv
  <2> DEFINE ks == Cats \cap {"otp", "api"}
  <2>2. \A k \in ks : Unread(k) BY <2>1
  <2>3. /\ \A k \in ks : Read(k)'
        /\ \A k \in Cats \ ks : cache'[k] = cache[k] /\ fresh'[k] = fresh[k]
        /\ UNCHANGED <<device, digest, online>>
    BY <1>2, <2>2, RefreshIsCurrent DEF SyncNames
  <2>4. \A k \in Cats \ ks : k = "ssh" BY ConstantsAssumption
  <2>5. \A k \in Cats \ ks : Read(k)' BY <2>1, <2>3, <2>4 DEF Read
  <2>6. \A k \in Cats : Read(k)' BY <2>3, <2>5
  <2> HIDE DEF ks
  <2> QED BY <2>1, <2>3, <2>6 DEF CacheInv, CacheCurrent
<1>3. CASE SyncSave
  <2>1. /\ sync' = "off" /\ digest' = fresh /\ fresh' = fresh /\ UNCHANGED <<device, cache, online>>
        /\ \A k \in Cats : Read(k)
    BY <1>3 DEF SyncSave, SyncOver, CacheInv
  <2> QED BY <2>1 DEF CacheInv, CacheCurrent, Faithful, Read
<1> QED BY <1>1, <1>2, <1>3 DEF Sync, SyncFails

LEMMA OthersKeepCache ==
  ASSUME ~Aborts, Types, CacheInv, Connect \/ Disconnect \/ Restart \/ ForeignChange
  PROVE  CacheInv'
<1>1. CASE Connect
  <2>1. sync = "off" /\ sync' = "ssh" /\ online' /\ fresh' = digest /\ UNCHANGED <<device, cache, digest>>
    BY <1>1 DEF Connect, StartSync, diskVars
  <2> QED BY <2>1 DEF CacheInv, CacheCurrent, Faithful, Unread
<1>2. CASE Disconnect
  BY <1>2 DEF Disconnect, diskVars, syncVars, CacheInv, CacheCurrent, Faithful
<1>3. CASE ForeignChange
  <2>1. ~online /\ UNCHANGED <<cache, digest, fresh, sync, online>>
    BY <1>3 DEF ForeignChange, diskVars, syncVars
  <2> QED BY <2>1 DEF CacheInv, CacheCurrent, Faithful
<1> QED BY <1>1, <1>2, <1>3 DEF Restart

LEMMA CacheHolds ==
  ASSUME ~ReadsFail, ~Aborts
  PROVE  Spec => []CacheInv
<1>1. Init => CacheInv
  BY DEF Init, CacheInv, CacheCurrent, Faithful
<1>2. Types /\ CacheInv /\ [Next]_vars => CacheInv'
  <2> SUFFICES ASSUME Types, CacheInv, [Next]_vars PROVE CacheInv' OBVIOUS
  <2>1. CASE UNCHANGED vars
    BY <2>1 DEF vars, clientVars, diskVars, syncVars, CacheInv, CacheCurrent, Faithful, Unread, Read
  <2> QED BY <2>1, HandlerKeepsCache, SyncKeepsCache, OthersKeepCache DEF Next
<1> QED BY <1>1, <1>2, TypesHold, PTL DEF Spec

\* While reads succeed and a sync ends as a whole, clients are listed exactly the
\* device's keys, however many clients write and however other hosts changed them.
THEOREM CacheIsCurrent ==
  ASSUME ~ReadsFail, ~Aborts
  PROVE  Spec => []CacheCurrent
<1>1. CacheInv => CacheCurrent BY DEF CacheInv
<1> QED BY <1>1, CacheHolds, PTL

\* Under the same conditions a digest that hits stands for the cache beside it, so
\* that a sync which skips the category loses nothing.
THEOREM HitsAreCurrent ==
  ASSUME ~ReadsFail, ~Aborts
  PROVE  Spec => []HitIsCurrent
<1>1. CacheInv => HitIsCurrent BY DEF CacheInv, HitIsCurrent, Hit, Faithful
<1> QED BY <1>1, CacheHolds, PTL

-----------------------------------------------------------------------------
(* Keys are whole where one client imports: the device's buffer holds what *)
(* the client has sent of its key, whatever an import before it left there.*)

OneClient == \A c, d \in Clients : c = d

Staged(c) ==
  /\ pc[c] = "tail"   => stage[job[c].cat].head = job[c].name
  /\ pc[c] = "commit" => stage[job[c].cat].head = job[c].name /\ stage[job[c].cat].tail = job[c].name

WholeInv == KeysWhole /\ \A c \in Clients : Staged(c)

LEMMA CommitAppends ==
  ASSUME Types, NEW c \in Clients, Commit(c), ~UNCHANGED device
  PROVE  LET k == job[c].cat IN
         /\ k \in Cats /\ pc[c] = "commit" /\ pc'[c] = "ask"
         /\ \A h \in Cats \ {k} : device'[h] = device[h]
         /\ device[k] \in Seq(Keys) /\ Len(device'[k]) = Len(device[k]) + 1
         /\ device'[k][Len(device'[k])] = stage[k]
         /\ \A i \in 1..Len(device[k]) : device'[k][i] = device[k][i]
<1> DEFINE k == job[c].cat
<1>1. /\ k \in Cats /\ device' = [device EXCEPT ![k] = Append(device[k], stage[k])]
      /\ pc[c] = "commit" /\ pc'[c] = "ask"
  BY DEF Commit, Commands, Moves, Types, ClientsOK
<1> HIDE DEF k
<1>2. device \in [Cats -> Seq(Keys)] /\ device[k] \in Seq(Keys) /\ stage[k] \in Keys
  BY <1>1 DEF Types, DeviceOK
<1>3. device'[k] = Append(device[k], stage[k]) /\ \A h \in Cats \ {k} : device'[h] = device[h]
  BY <1>1, <1>2
<1>4. /\ Len(device'[k]) = Len(device[k]) + 1 /\ device'[k][Len(device[k]) + 1] = stage[k]
      /\ \A i \in 1..Len(device[k]) : device'[k][i] = device[k][i]
  BY <1>2, <1>3, AppendProperties
<1> QED BY <1>1, <1>2, <1>3, <1>4 DEF k

\* A handler's steps other than those that write or delete keys.
LEMMA HandlerLeavesKeys ==
  ASSUME Types, NEW c \in Clients, Handler(c), ~WriteHead(c), ~WriteTail(c), ~Commit(c), ~DeleteKey(c)
  PROVE  UNCHANGED <<device, stage>> /\ pc'[c] \notin {"tail", "commit"}
<1> USE DEF Moves, Ends
<1>0. pc \in [Clients -> Places] BY DEF Types, ClientsOK
<1>1. ASSUME NEW k \in Cats, NEW n \in Names, Import(c, k, n)
      PROVE  UNCHANGED <<device, stage>> /\ pc'[c] \notin {"tail", "commit"}
  BY <1>0, <1>1 DEF Import
<1>2. CASE CountKeys(c) BY <1>0, <1>2 DEF CountKeys, FirstChunk
<1>3. ASSUME NEW k \in Cats, NEW i \in 0..MaxKeys - 1, Delete(c, k, i)
      PROVE  UNCHANGED <<device, stage>> /\ pc'[c] \notin {"tail", "commit"}
  BY <1>0, <1>3 DEF Delete
<1>4. ASSUME NEW k \in Cats, NEW n \in Names, Get(c, k, n)
      PROVE  UNCHANGED <<device, stage>> /\ pc'[c] \notin {"tail", "commit"}
  BY <1>0, <1>4 DEF Get
<1>5. CASE ReadHead(c) BY <1>0, <1>5 DEF ReadHead
<1>6. CASE ReadTail(c) BY <1>0, <1>6 DEF ReadTail
<1>7. CASE Answered(c) BY <1>0, <1>7 DEF Answered
<1>8. CASE Fails(c) BY <1>0, <1>8 DEF Fails
<1>9. CASE AskSync(c) BY <1>0, <1>9 DEF AskSync
<1>10. CASE NoSync(c) BY <1>0, <1>10 DEF NoSync
<1> QED BY <1>1, <1>2, <1>3, <1>4, <1>5, <1>6, <1>7, <1>8, <1>9, <1>10 DEF Handler

LEMMA HandlerKeepsWhole ==
  ASSUME OneClient, Types, WholeInv, NEW c \in Clients, Handler(c)
  PROVE  WholeInv'
<1>0. /\ \A d \in Clients : d = c
      /\ pc \in [Clients -> Places] /\ stage \in [Cats -> Keys]
      /\ pc[c] # "idle" => job[c].cat \in Cats
  BY DEF OneClient, Types, ClientsOK, DeviceOK
<1>1. CASE ~WriteHead(c) /\ ~WriteTail(c) /\ ~Commit(c) /\ ~DeleteKey(c)
  <2>1. UNCHANGED <<device, stage>> /\ pc'[c] \notin {"tail", "commit"}
    BY <1>1, HandlerLeavesKeys
  <2> QED BY <1>0, <2>1 DEF WholeInv, KeysWhole, Staged
<1>2. CASE WriteHead(c)
  <2>1. stage'[job[c].cat].head = job[c].name /\ pc'[c] = "tail" /\ UNCHANGED <<job, device>>
    BY <1>0, <1>2 DEF WriteHead, Commands, Moves, Keys
  <2> QED BY <1>0, <2>1 DEF WholeInv, KeysWhole, Staged
<1>3. CASE WriteTail(c)
  <2>1. /\ stage'[job[c].cat].tail = job[c].name /\ stage'[job[c].cat].head = stage[job[c].cat].head
        /\ pc[c] = "tail" /\ pc'[c] = "commit" /\ UNCHANGED <<job, device>>
    BY <1>0, <1>3 DEF WriteTail, Commands, Moves, Keys
  <2> QED BY <1>0, <2>1 DEF WholeInv, KeysWhole, Staged
<1>4. CASE Commit(c)
  <2>1. pc'[c] \in {"idle", "ask"} BY <1>0, <1>4 DEF Commit, Moves, Ends
  <2>2. \A d \in Clients : Staged(d)' BY <1>0, <2>1 DEF Staged
  <2>3. CASE UNCHANGED device BY <2>2, <2>3 DEF WholeInv, KeysWhole
  <2>4. CASE ~UNCHANGED device
    <3> DEFINE k == job[c].cat
    <3>1. /\ k \in Cats /\ pc[c] = "commit" /\ device[k] \in Seq(Keys) /\ Len(device'[k]) = Len(device[k]) + 1
          /\ \A h \in Cats \ {k} : device'[h] = device[h]
          /\ device'[k][Len(device'[k])] = stage[k]
          /\ \A i \in 1..Len(device[k]) : device'[k][i] = device[k][i]
      BY <1>4, <2>4, CommitAppends
    <3>2. stage[k].head = stage[k].tail BY <3>1 DEF WholeInv, Staged
    <3> HIDE DEF k
    <3>3. Len(device[k]) \in Nat BY <3>1, LenProperties
    <3>4. \A i \in 1..Len(device'[k]) : device'[k][i].head = device'[k][i].tail
      <4>1. \A i \in 1..Len(device'[k]) : i \in 1..Len(device[k]) \/ i = Len(device'[k])
        BY <3>1, <3>3
      <4> QED BY <3>1, <3>2, <4>1 DEF WholeInv, KeysWhole
    <3>5. KeysWhole' BY <3>1, <3>4 DEF WholeInv, KeysWhole
    <3> QED BY <2>2, <3>5 DEF WholeInv
  <2> QED BY <2>3, <2>4
<1>5. CASE DeleteKey(c)
  <2>1. pc'[c] \in {"idle", "ask"} BY <1>0, <1>5 DEF DeleteKey, DeleteSyncs, Moves, Ends
  <2>2. \A d \in Clients : Staged(d)' BY <1>0, <2>1 DEF Staged
  <2>3. CASE UNCHANGED device BY <2>2, <2>3 DEF WholeInv, KeysWhole
  <2>4. CASE ~UNCHANGED device
    <3> DEFINE k == job[c].cat
               i == job[c].idx
    <3>1. /\ k \in Cats /\ i \in Indices(device[k])
          /\ device' = [device EXCEPT ![k] = Without(device[k], i)]
      BY <1>0, <1>5, <2>4 DEF DeleteKey, Commands
    <3> HIDE DEF k, i
    <3>2. device \in [Cats -> Seq(Keys)] BY DEF Types, DeviceOK
    <3>3. \A h \in Cats : \A j \in 1..Len(device'[h]) : \E m \in 1..Len(device[h]) : device'[h][j] = device[h][m]
      <4>1. \A h \in Cats \ {k} : device'[h] = device[h] BY <3>1, <3>2
      <4>2. device'[k] = Without(device[k], i) BY <3>1, <3>2
      <4>3. \A j \in 1..Len(device'[k]) : \E m \in 1..Len(device[k]) : device'[k][j] = device[k][m]
        BY <3>1, <3>2, <4>2, WithoutIsShorter
      <4> QED BY <4>1, <4>3
    <3>4. KeysWhole' BY <3>3 DEF WholeInv, KeysWhole
    <3> QED BY <2>2, <3>4 DEF WholeInv
  <2> QED BY <2>3, <2>4
<1> QED BY <1>1, <1>2, <1>3, <1>4, <1>5

\* A sync writes no key, and the handler it answers has written its own.
LEMMA SyncLeavesKeys ==
  ASSUME Types, Sync
  PROVE  /\ UNCHANGED <<device, stage>>
         /\ \A c \in Clients : UNCHANGED <<pc[c], job[c], got[c]>> \/ pc'[c] = "idle"
<1>1. CASE SyncSsh \/ SyncNames
  BY <1>1 DEF SyncSsh, SyncNames, Refresh, clientVars
<1>2. CASE SyncSave \/ SyncFails
  <2>1. SyncOver /\ UNCHANGED <<device, stage>> BY <1>2 DEF SyncSave, SyncFails
  <2>2. \A c \in Clients : UNCHANGED <<pc[c], job[c], got[c]>> \/ pc'[c] = "idle"
    BY <2>1 DEF SyncOver, Ends, Moves, clientVars, Types, ClientsOK, SyncOK
  <2> QED BY <2>1, <2>2
<1> QED BY <1>1, <1>2 DEF Sync

LEMMA ForeignKeysWhole ==
  ASSUME Types, KeysWhole, ForeignChange
  PROVE  KeysWhole'
<1>1. PICK k \in Cats, s \in Seq(Keys) :
        /\ device' = [device EXCEPT ![k] = s]
        /\ \A j \in 1..Len(s) : \/ \E m \in 1..Len(device[k]) : s[j] = device[k][m]
                                \/ s[j].head = s[j].tail
  BY ForeignKeys DEF Types
<1>2. device'[k] = s /\ \A h \in Cats \ {k} : device'[h] = device[h]
  BY <1>1 DEF Types, DeviceOK
<1>3. \A j \in 1..Len(s) : s[j].head = s[j].tail BY <1>1 DEF KeysWhole
<1> QED BY <1>2, <1>3 DEF KeysWhole

LEMMA WholeHolds ==
  ASSUME OneClient
  PROVE  Spec => []WholeInv
<1>1. Init => WholeInv
  BY EmptySeq DEF Init, WholeInv, KeysWhole, Staged
<1>2. Types /\ WholeInv /\ [Next]_vars => WholeInv'
  <2> SUFFICES ASSUME Types, WholeInv, [Next]_vars PROVE WholeInv' OBVIOUS
  <2>1. CASE UNCHANGED vars \/ Connect \/ Disconnect
    BY <2>1 DEF vars, Connect, Disconnect, clientVars, WholeInv, KeysWhole, Staged
  <2>2. CASE Sync BY <2>2, SyncLeavesKeys DEF WholeInv, KeysWhole, Staged
  <2>3. CASE Restart BY <2>3 DEF Restart, WholeInv, KeysWhole, Staged
  <2>4. CASE ForeignChange
    <3>1. KeysWhole' BY <2>4, ForeignKeysWhole DEF WholeInv
    <3>2. \A c \in Clients : Staged(c)' BY <2>4 DEF ForeignChange, clientVars, WholeInv, Staged
    <3> QED BY <3>1, <3>2 DEF WholeInv
  <2> QED BY <2>1, <2>2, <2>3, <2>4, HandlerKeepsWhole DEF Next
<1> QED BY <1>1, <1>2, TypesHold, PTL DEF Spec

\* One client writes its keys whole, whatever is refused, lost or broken off, and
\* whatever an earlier import left in the device's buffer.
THEOREM KeysAreWhole ==
  ASSUME OneClient
  PROVE  Spec => []KeysWhole
<1>1. WholeInv => KeysWhole BY DEF WholeInv
<1> QED BY <1>1, WholeHolds, PTL

-----------------------------------------------------------------------------
(* A read by name gets the key of that name, where keys are only added:    *)
(* the cache is then a part of the device's keys, index by index, however  *)
(* old it is and whatever entries could not be read.                       *)

CachedPart(k) ==
  \A i \in DOMAIN cache[k] : i \in Indices(device[k]) /\ cache[k][i] = device[k][i + 1]

Named(c) ==
  pc[c] \in {"read head", "read tail"} =>
    /\ job[c].idx \in Indices(device[job[c].cat])
    /\ device[job[c].cat][job[c].idx + 1].head = job[c].name

NamedInv ==
  /\ \A k \in Cats : CachedPart(k)
  /\ \A c \in Clients : pc[c] # "delete" /\ Named(c)
  /\ GetReturnsNamed

Grows ==
  \A k \in Cats : \A i \in Indices(device[k]) :
    i \in Indices(device'[k]) /\ device'[k][i + 1] = device[k][i + 1]

LEMMA NamedKept ==
  ASSUME Types, NamedInv, Grows, UNCHANGED cache,
         \A c \in Clients : \/ UNCHANGED <<pc[c], job[c], got[c]>>
                            \/ pc'[c] \notin {"delete", "read head", "read tail", "got"}
  PROVE  NamedInv'
<1>1. \A k \in Cats : CachedPart(k)' BY DEF NamedInv, CachedPart, Grows
<1>2. \A c \in Clients : pc'[c] # "delete" /\ Named(c)'
  BY DEF NamedInv, Named, Grows, Types, ClientsOK
<1>3. GetReturnsNamed' BY DEF NamedInv, GetReturnsNamed
<1> QED BY <1>1, <1>2, <1>3 DEF NamedInv

LEMMA UnchangedGrows == UNCHANGED device => Grows
BY DEF Grows

LEMMA CommitGrows ==
  ASSUME Types, NEW c \in Clients, Commit(c)
  PROVE  Grows
<1>1. CASE ~UNCHANGED device
  <2> DEFINE k == job[c].cat
  <2>1. /\ k \in Cats /\ device[k] \in Seq(Keys) /\ Len(device'[k]) = Len(device[k]) + 1
        /\ \A h \in Cats \ {k} : device'[h] = device[h]
        /\ \A i \in 1..Len(device[k]) : device'[k][i] = device[k][i]
    BY <1>1, CommitAppends
  <2> HIDE DEF k
  <2>2. \A h \in Cats \ {k} : \A i \in Indices(device[h]) :
          i \in Indices(device'[h]) /\ device'[h][i + 1] = device[h][i + 1]
    BY <2>1
  <2>3. \A i \in Indices(device[k]) : i \in Indices(device'[k]) /\ i + 1 \in 1..Len(device[k])
    BY <2>1, LenProperties DEF Indices
  <2> QED BY <2>1, <2>2, <2>3 DEF Grows
<1> QED BY <1>1, UnchangedGrows

\* One handler moves, the others stay where they are.
LEMMA MovesAlone ==
  ASSUME ClientsOK, NEW c \in Clients, NEW to, Moves(c, to), UNCHANGED <<job, got>>
  PROVE  pc'[c] = to /\ \A d \in Clients \ {c} : UNCHANGED <<pc[d], job[d], got[d]>>
BY DEF ClientsOK, Moves

LEMMA EndsAlone ==
  ASSUME ClientsOK, NEW c \in Clients, Ends(c)
  PROVE  pc'[c] = "idle" /\ \A d \in Clients \ {c} : UNCHANGED <<pc[d], job[d], got[d]>>
BY DEF ClientsOK, Moves, Ends

LEMMA NextIndex ==
  ASSUME NEW n \in Nat, NEW m \in 0..n - 1 PROVE m + 1 \in 1..n
OBVIOUS

\* The key that is read is the one that was looked up.
LEMMA ReadsTheNamed ==
  ASSUME Types, KeysWhole, NamedInv, NEW c \in Clients, pc[c] = "read tail"
  PROVE  device[job[c].cat][job[c].idx + 1].tail = job[c].name
<1>1. job[c].cat \in Cats BY DEF Types, ClientsOK
<1> DEFINE k == job[c].cat
           i == job[c].idx
<1>2. i \in Indices(device[k]) /\ device[k][i + 1].head = job[c].name
  BY DEF NamedInv, Named
<1>3. device[k] \in Seq(Keys) BY <1>1 DEF Types, DeviceOK
<1> HIDE DEF k, i
<1>4. i + 1 \in 1..Len(device[k])
  <2>1. Len(device[k]) \in Nat BY <1>3, LenProperties
  <2>2. i \in 0..Len(device[k]) - 1 BY <1>2 DEF Indices
  <2> QED BY <2>1, <2>2, NextIndex
<1>5. \A j \in 1..Len(device[k]) : device[k][j].head = device[k][j].tail
  BY <1>1 DEF KeysWhole, k
<1> QED BY <1>2, <1>4, <1>5 DEF k, i

LEMMA ReadTailKeepsNamed ==
  ASSUME Types, KeysWhole, NamedInv, NEW c \in Clients, ReadTail(c)
  PROVE  NamedInv'
<1>0. ClientsOK /\ pc[c] = "read tail" /\ UNCHANGED <<cache, device>>
  BY DEF Types, ReadTail, Commands, diskVars
<1> DEFINE key == device[job[c].cat][job[c].idx + 1].tail
<1>1. \/ Ends(c)
      \/ Moves(c, "got") /\ UNCHANGED job /\ got' = [got EXCEPT ![c] = key]
  BY DEF ReadTail
<1>2. key = job[c].name BY <1>0, ReadsTheNamed
<1> HIDE DEF key
<1>3. /\ pc'[c] \in {"idle", "got"}
      /\ pc'[c] = "got" => UNCHANGED job /\ got'[c] = key
      /\ \A d \in Clients \ {c} : UNCHANGED <<pc[d], job[d], got[d]>>
  <2>1. CASE Ends(c) BY <1>0, <2>1, EndsAlone
  <2>2. CASE Moves(c, "got") /\ UNCHANGED job /\ got' = [got EXCEPT ![c] = key]
    BY <1>0, <2>2 DEF Moves, ClientsOK
  <2> QED BY <1>1, <2>1, <2>2
<1>4. GetReturnsNamed' BY <1>2, <1>3 DEF NamedInv, GetReturnsNamed
<1>5. \A d \in Clients : pc'[d] # "delete" /\ Named(d)' BY <1>0, <1>3 DEF NamedInv, Named
<1>6. \A h \in Cats : CachedPart(h)' BY <1>0 DEF NamedInv, CachedPart
<1> QED BY <1>4, <1>5, <1>6 DEF NamedInv

LEMMA HandlerKeepsNamed ==
  ASSUME "delete" \notin Ops, Types, KeysWhole, NamedInv, NEW c \in Clients, Handler(c)
  PROVE  NamedInv'
<1>0. /\ ClientsOK /\ pc \in [Clients -> Places] /\ job \in [Clients -> JobType]
      /\ got \in [Clients -> Names \cup {None}] /\ pc[c] # "idle" => job[c].cat \in Cats
  BY DEF Types, ClientsOK
<1>1. ASSUME NEW k \in Cats, NEW n \in Names, Import(c, k, n) PROVE NamedInv'
  BY <1>0, <1>1, NamedKept, UnchangedGrows DEF Import, Moves, diskVars
<1>2. CASE CountKeys(c)
  BY <1>0, <1>2, MovesAlone, EndsAlone, NamedKept, UnchangedGrows DEF CountKeys, FirstChunk, diskVars
<1>3. CASE WriteHead(c)
  BY <1>0, <1>3, MovesAlone, NamedKept, UnchangedGrows DEF WriteHead, diskVars
<1>4. CASE WriteTail(c)
  BY <1>0, <1>4, MovesAlone, NamedKept, UnchangedGrows DEF WriteTail, diskVars
<1>5. CASE Commit(c)
  <2>1. /\ UNCHANGED cache /\ pc'[c] \in {"idle", "ask"}
        /\ \A d \in Clients \ {c} : UNCHANGED <<pc[d], job[d], got[d]>>
    BY <1>0, <1>5, MovesAlone, EndsAlone DEF Commit, diskVars
  <2> QED BY <1>5, <2>1, NamedKept, CommitGrows
<1>6. ASSUME NEW k \in Cats, NEW n \in Names, Get(c, k, n) PROVE NamedInv'
  <2>1. PICK i \in Find(k, n) : job' = [job EXCEPT ![c] = [cat |-> k, name |-> n, idx |-> i]]
    BY <1>6 DEF Get
  <2>2. /\ i \in Indices(device[k]) /\ device[k][i + 1].head = n
    BY <2>1 DEF Find, NamedInv, CachedPart
  <2>3. job'[c].cat = k /\ job'[c].idx = i /\ job'[c].name = n BY <1>0, <2>1
  <2>4. /\ UNCHANGED <<cache, device, got>> /\ pc'[c] \in {"read head", "read tail"}
        /\ \A d \in Clients \ {c} : UNCHANGED <<pc[d], job[d]>>
    BY <1>0, <1>6, <2>1 DEF Get, Moves, diskVars
  <2>5. \A d \in Clients : pc'[d] # "delete" /\ Named(d)'
    <3>1. Named(c)' BY <2>2, <2>3, <2>4 DEF Named
    <3>2. \A d \in Clients \ {c} : pc'[d] # "delete" /\ Named(d)' BY <2>4 DEF NamedInv, Named
    <3> QED BY <2>4, <3>1, <3>2
  <2>6. GetReturnsNamed' BY <2>4 DEF NamedInv, GetReturnsNamed
  <2>7. \A h \in Cats : CachedPart(h)' BY <2>4 DEF NamedInv, CachedPart
  <2> QED BY <2>5, <2>6, <2>7 DEF NamedInv
<1>7. CASE ReadHead(c)
  <2>1. /\ UNCHANGED <<cache, device, job, got>> \/ pc'[c] = "idle"
        /\ UNCHANGED <<cache, device>> /\ pc[c] = "read head" /\ pc'[c] \in {"idle", "read tail"}
        /\ \A d \in Clients \ {c} : UNCHANGED <<pc[d], job[d], got[d]>>
    BY <1>0, <1>7, MovesAlone, EndsAlone DEF ReadHead, Commands, diskVars
  <2>2. \A d \in Clients : pc'[d] # "delete" /\ Named(d)' BY <2>1 DEF NamedInv, Named
  <2>3. GetReturnsNamed' BY <2>1 DEF NamedInv, GetReturnsNamed
  <2>4. \A h \in Cats : CachedPart(h)' BY <2>1 DEF NamedInv, CachedPart
  <2> QED BY <2>2, <2>3, <2>4 DEF NamedInv
<1>8. CASE ReadTail(c) BY <1>8, ReadTailKeepsNamed
<1>9. CASE Answered(c)
  BY <1>0, <1>9, EndsAlone, NamedKept, UnchangedGrows DEF Answered, diskVars
<1>10. CASE Fails(c)
  BY <1>0, <1>10, EndsAlone, NamedKept, UnchangedGrows DEF Fails, diskVars
<1>11. CASE AskSync(c)
  BY <1>0, <1>11, MovesAlone, NamedKept, UnchangedGrows DEF AskSync, diskVars
<1>12. CASE NoSync(c)
  BY <1>0, <1>12, EndsAlone, NamedKept, UnchangedGrows DEF NoSync, diskVars
<1>13. ~DeleteKey(c) BY DEF DeleteKey, Commands, NamedInv
<1> QED BY <1>1, <1>2, <1>3, <1>4, <1>5, <1>6, <1>7, <1>8, <1>9, <1>10, <1>11, <1>12, <1>13 DEF Handler

LEMMA SyncKeepsNamed ==
  ASSUME Types, NamedInv, Sync
  PROVE  NamedInv'
<1>1. /\ UNCHANGED device
      /\ \A c \in Clients : UNCHANGED <<pc[c], job[c], got[c]>> \/ pc'[c] = "idle"
  BY SyncLeavesKeys
<1>2. ASSUME NEW ks \in SUBSET Cats, Refresh(ks) PROVE \A k \in Cats : CachedPart(k)'
  <2> SUFFICES ASSUME NEW k \in Cats PROVE CachedPart(k)' OBVIOUS
  <2>1. CASE cache'[k] = cache[k] BY <1>1, <2>1 DEF NamedInv, CachedPart
  <2>2. ASSUME NEW some \in SUBSET Indices(device[k]), cache'[k] = Entries(device[k], some)
        PROVE  CachedPart(k)'
    BY <1>1, <2>2 DEF CachedPart, Entries
  <2> QED BY <1>2, <2>1, <2>2, RefreshReads
<1>3. \A k \in Cats : CachedPart(k)'
  <2>1. CASE UNCHANGED cache BY <1>1, <2>1 DEF NamedInv, CachedPart
  <2>2. CASE SyncSsh \/ SyncNames BY <1>2, <2>2 DEF SyncSsh, SyncNames
  <2> QED BY <2>1, <2>2 DEF Sync, SyncSave, SyncFails, diskVars
<1>4. \A c \in Clients : pc'[c] # "delete" /\ Named(c)' BY <1>1 DEF NamedInv, Named
<1>5. GetReturnsNamed' BY <1>1 DEF NamedInv, GetReturnsNamed
<1> QED BY <1>3, <1>4, <1>5 DEF NamedInv

\* Where keys are added by one client and deleted by nobody, GET answers with the key
\* that was asked for, from a cache of any age, with requests refused, lost or broken
\* off, and entries that could not be read.
THEOREM NamedReadsAreTrue ==
  ASSUME OneClient, "delete" \notin Ops, ~Foreign
  PROVE  Spec => []GetReturnsNamed
<1>1. Init => NamedInv
  BY DEF Init, NamedInv, CachedPart, Named, GetReturnsNamed, Entries
<1>2. Types /\ WholeInv /\ NamedInv /\ [Next]_vars => NamedInv'
  <2> SUFFICES ASSUME Types, WholeInv, NamedInv, [Next]_vars PROVE NamedInv' OBVIOUS
  <2>1. CASE UNCHANGED vars \/ Connect \/ Disconnect
    BY <2>1, NamedKept, UnchangedGrows DEF vars, Connect, Disconnect, clientVars, diskVars
  <2>2. CASE Restart BY <2>2, NamedKept, UnchangedGrows DEF Restart, diskVars
  <2>3. ~ForeignChange BY DEF ForeignChange
  <2> QED BY <2>1, <2>2, <2>3, HandlerKeepsNamed, SyncKeepsNamed DEF Next, WholeInv
<1>3. NamedInv => GetReturnsNamed BY DEF NamedInv
<1> QED BY <1>1, <1>2, <1>3, TypesHold, WholeHolds, PTL DEF Spec

=============================================================================
