----------------------------- MODULE BlobServer -----------------------------
(***************************************************************************)
(* The HTTP proxy that lets SQL Server back up to a URL: one blob, stored  *)
(* as an object per block and an index of the blocks, the requests that    *)
(* write and read it, the goroutine that saves the index in the background,*)
(* and the lease.                                                          *)
(***************************************************************************)
EXTENDS Integers, Sequences, SequencesExt, FiniteSets, TLC

CONSTANTS
    Clients,        \* clients of the proxy
    BlockIDs,       \* the ids that clients give to blocks
    MaxPuts,        \* bound: payloads uploaded after Init
    MaxCommits,     \* bound: requests that replace the content
    SizeOf,         \* payload -> its size
    FirstContents,  \* payloads of the blocks that the blob may start with, by position
    MaxFaults,      \* bound: failed storage calls and restarts
    Circumstances   \* which of the unlikely circumstances below may happen

VARIABLES
    objects,    \* stored blocks: <<id, revision>> -> payload
    disk,       \* the stored index, or NoIndex
    heap,       \* indexes in memory
    registered, \* the one that bs.indexes holds, or 0
    proc,       \* requests in progress and the saver
    lease,      \* the lease of the blob
    holders,    \* clients that were granted the lease, until it ends
    puts,       \* payloads used
    commits,    \* Put Block List, Put Blob and Delete Blob requests
    faults,
    content,    \* the durable content: what a server started now would serve
    asked       \* contents asked for since the last answer of success, in order

blobVars == <<objects, disk, heap, registered, proc, lease, holders, puts, commits, faults, content, asked>>

store == <<objects, disk>>
memory == <<heap, registered>>
leases == <<lease, holders>>
bounds == <<puts, commits, faults>>

Writers == {"w1", "w2"}     \* bound: two requests that write at a time
Slots == Writers \cup {"saver"}

\* Circumstances that a passing run excludes, each with what it breaks:
\*   "saves"     two saves of the index overlap: the older one may be stored last
\*   "badlist"   a block list names a block that is not there
\*   "unstored"  a block list names a block whose upload failed
\*   "unsaved"   a client goes on to put blocks after a save of the index failed
\*   "putdata"   Put Blob with a body replaces a blob that has blocks
\*   "delete"    Delete Blob while the index has changes to be saved
\*   "infinite"  a lease is acquired with the duration -1, which Azure calls infinite
May(circumstance) == circumstance \in Circumstances

NoIndex == [size |-> -1, blocks |-> <<>>]
NoLease == [id |-> <<"none", 0>>, live |-> FALSE]
Idle == [pc |-> "idle"]
Data == "data"      \* the id that Put Blob uses

Fault == faults < MaxFaults /\ faults' = faults + 1

--------------------------------------------------------------------------
(* blob.go: the index. A block has an uploaded and a committed revision. *)

Bytes(n) == [k \in 1 .. SizeOf[n] |-> <<n, k>>]

NewIndex == [size |-> 0, blocks |-> <<>>, ocache |-> <<>>, needSave |-> FALSE]

\* The icache: the blocks by their ids.
HasBlock(idx, id) == \E i \in DOMAIN idx.blocks : idx.blocks[i].id = id
BlockOf(idx, id) == idx.blocks[CHOOSE i \in DOMAIN idx.blocks : idx.blocks[i].id = id]

\* The ocache: ids of the committed blocks by offset.
buildCache(idx) ==
    LET committed == SelectSeq(idx.blocks, LAMBDA b : b.cr > 0)
        sorted    == SortSeq(committed, LAMBDA a, b : a.of < b.of)
    IN  [idx EXCEPT !.ocache = [i \in DOMAIN sorted |-> sorted[i].id]]

\* What JSON keeps, and what Load makes of it.
Marshal(idx) == [size |-> idx.size, blocks |-> idx.blocks]
Load(stored) ==
    buildCache([size |-> stored.size, blocks |-> stored.blocks, ocache |-> <<>>, needSave |-> FALSE])

\* Mutant: the revision of a rewritten block is that of its committed data.
PutBlockSameRev(idx, id, size) ==
    IF HasBlock(idx, id)
    THEN LET i == CHOOSE i \in DOMAIN idx.blocks : idx.blocks[i].id = id
         IN  [idx EXCEPT !.blocks[i].ur = IF @ = 0 THEN idx.blocks[i].cr ELSE @, !.blocks[i].us = size]
    ELSE [idx EXCEPT !.blocks = Append(@, [id |-> id, of |-> 0, us |-> size, ur |-> 1, cs |-> 0, cr |-> 0])]

PutBlock(idx, id, size) ==
    IF HasBlock(idx, id)
    THEN LET i == CHOOSE i \in DOMAIN idx.blocks : idx.blocks[i].id = id
         IN  [idx EXCEPT !.blocks[i].ur = idx.blocks[i].cr + 1, !.blocks[i].us = size]
    ELSE [idx EXCEPT !.blocks = Append(@, [id |-> id, of |-> 0, us |-> size, ur |-> 1, cs |-> 0, cr |-> 0])]

UploadedName(idx, id) == <<id, BlockOf(idx, id).ur>>

\* One entry of a block list: the block it makes, what it makes garbage, whether it is refused.
CommitEntry(b, mode) ==
    LET promoted == [b EXCEPT !.cr = b.ur, !.cs = b.us, !.ur = 0, !.us = 0]
        replaced == IF b.cr # 0 THEN {<<b.id, b.cr>>} ELSE {}
        kept     == [block |-> b, garbage |-> {}, ok |-> TRUE]
    IN  CASE mode = "Committed" ->
               IF b.cr = 0 THEN [kept EXCEPT !.ok = FALSE]
               ELSE IF b.ur = 0 THEN kept
               ELSE [kept EXCEPT !.block.ur = 0, !.block.us = 0, !.garbage = {<<b.id, 0>>}]
          [] mode = "Uncommitted" /\ b.ur = 0 -> [kept EXCEPT !.ok = FALSE]
          [] mode = "Latest" /\ b.ur = 0 -> kept
          [] OTHER -> [block |-> promoted, garbage |-> replaced, ok |-> TRUE]

\* The garbage of PutBlockList that comes from blocks the list does not name.
Dropped(idx, list) ==
    UNION {{<<b.id, r>> : r \in {b.ur, b.cr} \ {0}} :
           b \in {idx.blocks[i] : i \in DOMAIN idx.blocks} \ {BlockOf(idx, x.id) : x \in ToSet(list)}}

\* PutBlockList goes over the list and gives up at the first entry it refuses: the blocks
\* it changed stay changed.
PutBlockList(idx, list) ==
    LET upto[i \in 0 .. Len(list)] ==
            IF i = 0 THEN [ok |-> TRUE, garbage |-> {}, size |-> 0, blocks |-> <<>>]
            ELSE LET acc == upto[i - 1]
                 IN  IF ~acc.ok \/ ~HasBlock(idx, list[i].id) THEN [acc EXCEPT !.ok = FALSE]
                     ELSE LET done == CommitEntry([BlockOf(idx, list[i].id) EXCEPT !.of = acc.size], list[i].mode)
                          IN  [ok |-> done.ok, garbage |-> acc.garbage \cup done.garbage,
                               size |-> acc.size + done.block.cs, blocks |-> Append(acc.blocks, done.block)]
        all == upto[Len(list)]
        half == [i \in DOMAIN idx.blocks |->
                   IF HasBlock(all, idx.blocks[i].id) THEN BlockOf(all, idx.blocks[i].id) ELSE idx.blocks[i]]
    IN  IF all.ok
        THEN [ok |-> TRUE, garbage |-> all.garbage \cup Dropped(idx, list),
              idx |-> buildCache([idx EXCEPT !.size = all.size, !.blocks = all.blocks])]
        ELSE [ok |-> FALSE, garbage |-> {}, idx |-> [idx EXCEPT !.blocks = half]]

\* Clear keeps the size.
Clear(idx) == [idx EXCEPT !.blocks = <<>>, !.ocache = <<>>]
AllNames(idx) ==
    UNION {{<<b.id, r>> : r \in {b.ur, b.cr} \ {0}} : b \in {idx.blocks[i] : i \in DOMAIN idx.blocks}}

\* GetBlockList, the committed part.
GetBlockList(idx) == [i \in DOMAIN idx.ocache |-> BlockOf(idx, idx.ocache[i])]

MaxUint == 2^30     \* stands for 2^64 - 1, which Size - 1 is for an empty blob

\* The binary search for the first block of a range, over positions 0 .. n - 1.
FirstBlock(c, min) ==
    LET search[l \in 0 .. Len(c), r \in -1 .. Len(c)] ==
            IF r <= l THEN l
            ELSE LET m == (l + r) \div 2
                     b == c[m + 1]
                 IN  IF b.of + b.cs - 1 < min THEN search[m + 1, r]
                     ELSE IF b.of > min THEN search[l, m - 1]
                     ELSE m
    IN  search[0, Len(c) - 1]

\* Mutant: a block that begins where the range ends is left out.
GetSectionsStopEarly(idx, min, max) ==
    LET c     == GetBlockList(idx)
        first == FirstBlock(c, min)
        hit   == {i \in first + 1 .. Len(c) : c[i].of < max}
        skip(b) == IF min > b.of THEN min - b.of ELSE 0
        upto(b) == IF max < b.of + b.cs - 1 THEN max - b.of + 1 ELSE b.cs
    IN  [i \in 1 .. Cardinality(hit) |->
            LET b == c[first + i]
            IN  [name |-> <<b.id, b.cr>>, offset |-> skip(b), limit |-> upto(b) - skip(b)]]

\* From that block on, the parts of the blocks that begin no later than the range ends.
GetSections(idx, min, max) ==
    LET c     == GetBlockList(idx)
        first == FirstBlock(c, min)
        hit   == {i \in first + 1 .. Len(c) : c[i].of <= max}
        skip(b) == IF min > b.of THEN min - b.of ELSE 0
        upto(b) == IF max < b.of + b.cs - 1 THEN max - b.of + 1 ELSE b.cs
    IN  [i \in 1 .. Cardinality(hit) |->
            LET b == c[first + i]
            IN  [name |-> <<b.id, b.cr>>, offset |-> skip(b), limit |-> upto(b) - skip(b)]]

\* The content that an index describes, read from the stored objects.
Absent == <<<<0, 0>>>>
Broken == <<<<0, 1>>>>
ContentOf(idx, objs) ==
    LET list == GetBlockList(idx)
        names == {<<list[i].id, list[i].cr>> : i \in DOMAIN list}
        upto[i \in 0 .. Len(list)] ==
            IF i = 0 THEN <<>> ELSE upto[i - 1] \o Bytes(objs[<<list[i].id, list[i].cr>>])
    IN  IF names \subseteq DOMAIN objs THEN upto[Len(list)] ELSE Broken

DurableContent(stored, objs) == IF stored = NoIndex THEN Absent ELSE ContentOf(Load(stored), objs)

--------------------------------------------------------------------------
(* server.go: leases *)

checkLease(id) == lease.live => lease.id = id

\* The lease id that a client proposes, and the one it changes to.
LeaseIDs(c) == {<<c, 1>>, <<c, 2>>}

\* Mutant: a lease is granted while another is held.
HandleAcquireLeaseAnyTime(c) ==
    \E id \in {<<c, 1>>}, finite \in IF May("infinite") THEN BOOLEAN ELSE {TRUE} :
       /\ lease' = [id |-> id, live |-> finite]
       /\ holders' = holders \cup {c}
       /\ UNCHANGED <<store, memory, proc, bounds, asked>>

\* The lease is granted when there is none, or it has ended, or it has the same id. A
\* duration of -1 ends before it begins.
HandleAcquireLease(c) ==
    \E id \in {<<c, 1>>}, finite \in IF May("infinite") THEN BOOLEAN ELSE {TRUE} :
       /\ lease' = IF lease.live THEN lease ELSE [id |-> id, live |-> finite]
       /\ lease'.id = id
       /\ holders' = holders \cup {c}
       /\ UNCHANGED <<store, memory, proc, bounds, asked>>

\* A lease that has ended can be renewed while no other has been granted.
HandleRenewLease(c) ==
    /\ lease.id \in LeaseIDs(c)
    /\ lease' = [lease EXCEPT !.live = TRUE]
    /\ holders' = holders \cup {c}
    /\ UNCHANGED <<store, memory, proc, bounds, asked>>

HandleChangeLease(c) ==
    /\ lease.id = <<c, 1>>
    /\ lease' = [lease EXCEPT !.id = <<c, 2>>]
    /\ UNCHANGED <<store, memory, proc, holders, bounds, asked>>

HandleReleaseLease(c) ==
    /\ lease.id \in LeaseIDs(c)
    /\ \A w \in Writers : proc[w] = Idle
    /\ lease' = NoLease
    /\ holders' = holders \ {c}
    /\ UNCHANGED <<store, memory, proc, bounds, asked>>

\* Time passes. A client renews its lease in time while it writes.
LeaseEnds ==
    /\ lease.live
    /\ \A w \in Writers : proc[w] = Idle
    /\ lease' = [lease EXCEPT !.live = FALSE]
    /\ holders' = {}
    /\ UNCHANGED <<store, memory, proc, bounds, asked>>

--------------------------------------------------------------------------
(* server.go: requests that write. A client writes under its lease, sends  *)
(* blocks in parallel and everything else alone, as SQL Server does.       *)

\* loadBlobIndex: the registered index, or the stored one read and registered.
NotFound == registered = 0 /\ disk = NoIndex
Loaded == IF registered # 0 THEN registered ELSE Len(heap) + 1
LoadedHeap == IF registered # 0 THEN heap ELSE Append(heap, Load(disk))

BeginsWrite(w, c) ==
    /\ proc[w] = Idle
    /\ c \in holders
    /\ \E id \in LeaseIDs(c) : checkLease(id)

Commits == commits < MaxCommits /\ commits' = commits + 1

Alone(w) == \A v \in Writers \ {w} : proc[v] = Idle

HandleBlockPut(w, c, id) ==
    /\ BeginsWrite(w, c) /\ ~NotFound
    /\ \A v \in Writers : proc[v] = Idle \/ (proc[v].pc = "put" /\ proc[v].name[1] # id)
    /\ May("unsaved") \/ asked = <<>> \/ registered = 0
    /\ puts < MaxPuts
    /\ puts' = puts + 1
    /\ LET i   == Loaded
           idx == PutBlock(LoadedHeap[i], id, SizeOf[puts'])
       IN  /\ heap' = [LoadedHeap EXCEPT ![i] = idx]
           /\ registered' = i
           /\ proc' = [proc EXCEPT ![w] = [pc |-> "put", idx |-> i, name |-> UploadedName(idx, id), payload |-> puts']]
    /\ UNCHANGED <<store, leases, commits, faults, asked>>

\* The object is stored; SaveDelayed.
PutObject(w) ==
    /\ proc[w].pc = "put"
    /\ objects' = (proc[w].name :> proc[w].payload) @@ objects
    /\ heap' = [heap EXCEPT ![proc[w].idx].needSave = TRUE]
    /\ proc' = [proc EXCEPT ![w] = Idle]
    /\ UNCHANGED <<disk, registered, leases, bounds, asked>>

PutObjectFails(w) ==
    /\ proc[w].pc \in {"put", "putdata"}
    /\ Fault
    /\ proc' = [proc EXCEPT ![w] = Idle]
    /\ UNCHANGED <<store, memory, leases, puts, commits, asked>>

Modes == {"Committed", "Uncommitted", "Latest"}
BlockLists ==
    UNION {{[i \in 1 .. n |-> [id |-> ids[i], mode |-> modes[i]]] :
            ids \in {s \in [1 .. n -> BlockIDs] : \A i, j \in 1 .. n : s[i] = s[j] => i = j},
            modes \in [1 .. n -> Modes]} : n \in 1 .. Cardinality(BlockIDs)}

\* The uploads that the list would commit have been stored.
Stored(idx, list) ==
    \A i \in DOMAIN list :
       LET b == BlockOf(idx, list[i].id)
       IN  HasBlock(idx, list[i].id) /\ list[i].mode # "Committed" /\ b.ur # 0 =>
              /\ <<b.id, b.ur>> \in DOMAIN objects
              /\ SizeOf[objects[<<b.id, b.ur>>]] = b.us

HandleBlockListPut(w, c, list) ==
    /\ BeginsWrite(w, c) /\ Alone(w) /\ Commits /\ ~NotFound
    /\ May("unstored") \/ Stored(LoadedHeap[Loaded], list)
    /\ LET i    == Loaded
           done == PutBlockList(LoadedHeap[i], list)
       IN  /\ heap' = [LoadedHeap EXCEPT ![i] = done.idx]
           /\ registered' = i
           /\ IF done.ok
              THEN /\ asked' = Append(asked, ContentOf(done.idx, objects))
                   /\ proc' = [proc EXCEPT ![w] = [pc |-> "marshal", idx |-> i, garbage |-> done.garbage]]
              ELSE May("badlist") /\ UNCHANGED <<asked, proc>>
    /\ UNCHANGED <<store, leases, puts, faults>>

\* Save writes what it marshalled under the lock after it has released the lock.
Save(w) ==
    /\ proc[w].pc = "marshal"
    /\ May("saves") \/ \A v \in Slots : proc[v].pc # "write"
    /\ proc' = [proc EXCEPT ![w] = [@ EXCEPT !.pc = "write"] @@ [data |-> Marshal(heap[proc[w].idx])]]
    /\ UNCHANGED <<store, memory, leases, bounds, asked>>

SaveWrites(w) ==
    /\ proc[w].pc = "write"
    /\ disk' = proc[w].data
    /\ proc' = [proc EXCEPT ![w] = IF w = "saver" THEN Idle ELSE [pc |-> "garbage", garbage |-> @.garbage]]
    /\ UNCHANGED <<objects, memory, leases, bounds, asked>>

SaveFails(w) ==
    /\ proc[w].pc = "write"
    /\ Fault
    /\ proc' = [proc EXCEPT ![w] = Idle]
    /\ UNCHANGED <<store, memory, leases, puts, commits, asked>>

\* deleteGarbage, and the answer 201; a failure to delete is a warning.
deleteGarbage(w) ==
    /\ proc[w].pc = "garbage"
    /\ \/ objects' = [n \in DOMAIN objects \ proc[w].garbage |-> objects[n]] /\ UNCHANGED faults
       \/ proc[w].garbage # {} /\ Fault /\ UNCHANGED objects
    /\ proc' = [proc EXCEPT ![w] = Idle]
    /\ asked' = <<>>
    /\ UNCHANGED <<disk, memory, leases, puts, commits>>

\* The saver of any index that was made, registered or not, wakes up.
saver(i) ==
    /\ proc["saver"] = Idle /\ heap[i].needSave
    /\ heap' = [heap EXCEPT ![i].needSave = FALSE]
    /\ proc' = [proc EXCEPT !["saver"] = [pc |-> "marshal", idx |-> i]]
    /\ UNCHANGED <<store, registered, leases, bounds, asked>>

\* An index that Put Blob makes for a new blob is not registered.
HandleBlobPut(w, c, full) ==
    /\ BeginsWrite(w, c) /\ Alone(w) /\ Commits
    /\ LET i   == IF NotFound THEN Len(heap) + 1 ELSE Loaded
           old == IF NotFound THEN NewIndex ELSE LoadedHeap[i]
           idx == IF full THEN PutBlock(Clear(old), Data, SizeOf[puts + 1]) ELSE Clear(old)
       IN  /\ full => puts < MaxPuts /\ (May("putdata") \/ old.blocks = <<>>)
           /\ heap' = IF NotFound THEN Append(heap, idx) ELSE [LoadedHeap EXCEPT ![i] = idx]
           /\ registered' = IF NotFound THEN 0 ELSE i
           /\ puts' = IF full THEN puts + 1 ELSE puts
           /\ asked' = Append(asked, IF full THEN Bytes(puts + 1) ELSE <<>>)
           /\ proc' = [proc EXCEPT ![w] =
                IF full THEN [pc |-> "putdata", idx |-> i, garbage |-> AllNames(old), payload |-> puts + 1]
                        ELSE [pc |-> "marshal", idx |-> i, garbage |-> AllNames(old)]]
    /\ UNCHANGED <<store, leases, faults>>

\* The body is stored and committed.
PutData(w) ==
    /\ proc[w].pc = "putdata"
    /\ objects' = (<<Data, 1>> :> proc[w].payload) @@ objects
    /\ heap' = [heap EXCEPT ![proc[w].idx] = PutBlockList(@, <<[id |-> Data, mode |-> "Latest"]>>).idx]
    /\ proc' = [proc EXCEPT ![w] = [pc |-> "marshal", idx |-> @.idx, garbage |-> @.garbage]]
    /\ UNCHANGED <<disk, registered, leases, bounds, asked>>

\* Storage removes the folder of the blob, with the index and the blocks.
HandleBlobDelete(w, c) ==
    /\ BeginsWrite(w, c) /\ Alone(w) /\ Commits
    /\ May("delete") \/ (proc["saver"] = Idle /\ \A i \in DOMAIN heap : ~heap[i].needSave)
    /\ objects' = <<>>
    /\ disk' = NoIndex
    /\ registered' = 0
    /\ asked' = <<>>
    /\ UNCHANGED <<heap, proc, leases, puts, faults>>

--------------------------------------------------------------------------
(* server.go: Get Blob *)

\* The sections of the range one after the other, each read from its object, skipped to
\* the offset and cut at the limit; a missing object ends the answer.
Answer(idx, min, max) ==
    LET sections == GetSections(idx, min, max)
        upto[i \in 0 .. Len(sections)] ==
            IF i = 0 THEN <<>>
            ELSE LET s == sections[i]
                 IN  upto[i - 1] \o SubSeq(Bytes(objects[s.name]), s.offset + 1, s.offset + s.limit)
        missing == {i \in DOMAIN sections : sections[i].name \notin DOMAIN objects}
    IN  upto[IF missing = {} THEN Len(sections) ELSE (CHOOSE i \in missing : \A j \in missing : i <= j) - 1]

\* Without a range, all of it.
HandleBlobGet(idx) == Answer(idx, 0, IF idx.size = 0 THEN MaxUint ELSE idx.size - 1)

\* A request that reads changes nothing but the index in memory.
HandleBlobHead ==
    /\ registered = 0 /\ ~NotFound
    /\ heap' = LoadedHeap
    /\ registered' = Loaded
    /\ UNCHANGED <<store, proc, leases, bounds, asked>>

--------------------------------------------------------------------------

\* The server runs inside the command: it ends with it, and so do the requests.
Restart ==
    /\ Fault
    /\ heap' = <<>>
    /\ registered' = 0
    /\ proc' = [s \in Slots |-> Idle]
    /\ lease' = NoLease
    /\ holders' = {}
    /\ UNCHANGED <<store, puts, commits, asked>>

\* The blob begins absent, or as a block list of FirstContents left it.
FirstIndex(payloads) ==
    LET Put(idx, p) == PutBlock(idx, p[1], SizeOf[p[2]])
        list == [i \in DOMAIN payloads |-> [id |-> payloads[i][1], mode |-> "Latest"]]
    IN  PutBlockList(FoldLeft(Put, NewIndex, payloads), list).idx

Init ==
    /\ \/ disk = NoIndex /\ objects = <<>>
       \/ \E n \in {0, Len(FirstContents)} :
             LET payloads == SubSeq(FirstContents, 1, n)
             IN  /\ disk = Marshal(FirstIndex(payloads))
                 /\ objects = [o \in {<<payloads[i][1], 1>> : i \in 1 .. n} |->
                                 payloads[CHOOSE i \in 1 .. n : payloads[i][1] = o[1]][2]]
    /\ heap = <<>> /\ registered = 0
    /\ proc = [s \in Slots |-> Idle]
    /\ lease = NoLease /\ holders = {}
    /\ puts = 0 /\ commits = 0 /\ faults = 0
    /\ asked = <<>>
    /\ content = DurableContent(disk, objects)

HandleLease(c) ==
    HandleAcquireLease(c) \/ HandleRenewLease(c) \/ HandleChangeLease(c) \/ HandleReleaseLease(c)

HandleBlock(c) == \E w \in Writers, id \in BlockIDs : HandleBlockPut(w, c, id)

HandleBlockList(c) == \E list \in BlockLists : HandleBlockListPut("w1", c, list)

HandleBlob(c) ==
    \/ \E full \in BOOLEAN : HandleBlobPut("w1", c, full)
    \/ HandleBlobDelete("w1", c)

ServeHTTP(c) == HandleLease(c) \/ HandleBlock(c) \/ HandleBlockList(c) \/ HandleBlob(c)

Step ==
    \/ \E c \in Clients : ServeHTTP(c)
    \/ HandleBlobHead
    \/ LeaseEnds
    \/ \E w \in Writers : PutObject(w) \/ PutObjectFails(w) \/ PutData(w) \/ deleteGarbage(w)
    \/ \E s \in Slots : Save(s) \/ SaveWrites(s) \/ SaveFails(s)
    \/ \E i \in DOMAIN heap : saver(i)
    \/ Restart

Next ==
    /\ Step
    /\ content' = IF <<objects', disk'>> = store THEN content ELSE DurableContent(disk', objects')

Spec == Init /\ [][Next]_blobVars

--------------------------------------------------------------------------

\* What a reader expects: the durable content, unless a write is under way or has failed.
Expected(idx) == IF asked = <<>> THEN content ELSE ContentOf(idx, objects)

\* Every answer to Get Blob is exactly the asked-for bytes of the durable content, in
\* order: the binary search, the sections and the skipping and limiting readers together
\* cover every range of every blob once.
GetExact ==
    registered # 0 =>
       LET idx  == heap[registered]
           want == Expected(idx)
       IN  /\ HandleBlobGet(idx) = want
           /\ \A min, max \in 0 .. Len(want) - 1 : min <= max => Answer(idx, min, max) = SubSeq(want, min + 1, max + 1)

\* The lease that checkLease enforces is granted to one client at a time, across
\* renewals, changes and expiry.
OneHolder == Cardinality(holders) <= 1

\* The blob is atomic: its durable content changes only to one that a client asked for,
\* and once Put Block List, Put Blob or Delete Blob has answered with success the durable
\* content is the client's, whatever the saver, garbage deletion, failed calls and
\* restarts do.
Blob == INSTANCE AtomicBlob WITH content <- content, asked <- asked, Absent <- Absent

AtomicWrites == Blob!Spec
=============================================================================
