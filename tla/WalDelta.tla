------------------------------- MODULE WalDelta -------------------------------
(***************************************************************************)
(* Delta files: while wal-push uploads WAL it records which blocks the WAL *)
(* changes, in one delta file for each WalFileInDelta segments, so that a  *)
(* delta backup reads only those blocks (WALG_USE_WAL_DELTA).              *)
(*                                                                         *)
(* A delta file takes several wal-push processes.  Between them the        *)
(* locations so far and, in a part file, the heads and tails of records    *)
(* that cross from one segment to the next lie in a local folder.  A delta *)
(* file is uploaded when its part file is complete.                        *)
(***************************************************************************)
EXTENDS WalParser, FiniteSets, Functions

CONSTANTS
    Patterns,       \* lengths of records that repeat through the WAL; 0: a WAL switch
    Files,          \* segments in the WAL
    WalFileInDelta,
    BlocksInRelFile,
    MaxBackground,  \* segments the background uploader takes
    MaxDeaths,      \* bound: deaths of wal-push
    Mishaps         \* unusual circumstances that may arise, see README

ASSUME DeltaAssumption ==
    /\ Files \in Nat \ {0} /\ WalFileInDelta \in Nat \ {0} /\ BlocksInRelFile \in Nat \ {0}
    /\ MaxBackground \in Nat /\ MaxDeaths \in Nat
    /\ Mishaps \subseteq {"skips", "breaks", "flushcrash"}

GetDeltaFilenameFor(f) == f - (f % WalFileInDelta)
GetPositionInDelta(f) == f % WalFileInDelta
Deltas == {GetDeltaFilenameFor(f) : f \in 0 .. Files}

VARIABLES
    pattern,        \* member of Patterns
    layout, wal,    \* the records of the WAL, and its segments
    recordings,     \* segment -> what is recorded of it after 0, 1 ... of its pages
    backup,         \* a delta backup that reads its delta map
    archived,         \* archived segments
    acked,          \* segments the server has got rid of
    deltas,         \* storage: delta number -> delta file
    folder,         \* the local folder: [parts, deltas]
    deltaPc, main, todo, \* wal-push: the segment asked for, and those still to upload
    cache,          \* the DeltaFileManager: [parts, deltas, canceled]
    deaths

given == <<pattern, layout, wal, recordings>>
process == <<deltaPc, main, todo, cache>>
deltaVars == <<given, backup, archived, acked, deltas, folder, process, deaths>>

-----------------------------------------------------------------------------
(* Recording one segment *)

Nil == <<Zero>>     \* what was not recorded, as opposed to an empty head or tail

NewWalPartFile ==
    [WalTails |-> [i \in 0 .. WalFileInDelta - 1 |-> Nil], PreviousWalHead |-> Nil,
     WalHeads |-> [i \in 0 .. WalFileInDelta - 1 |-> Nil]]

IsComplete(part) ==
    /\ \A i \in DOMAIN part.WalTails : part.WalTails[i] # Nil
    /\ part.PreviousWalHead # Nil
    /\ \A i \in DOMAIN part.WalHeads : part.WalHeads[i] # Nil

\* On disk a part file is the parts that were recorded, each with its type and number.
NewWalPart(type, id, data) == [type |-> type, id |-> id, data |-> data]

SavePartFile(part) ==
    {w \in {NewWalPart("tail", i, part.WalTails[i]) : i \in DOMAIN part.WalTails}
            \cup {NewWalPart("previous", 0, part.PreviousWalHead)}
            \cup {NewWalPart("head", i, part.WalHeads[i]) : i \in DOMAIN part.WalHeads} : w.data # Nil}

LoadPartFile(walParts) ==
    LET of(type, i) == {w.data : w \in {w \in walParts : w.type = type /\ w.id = i}}
        the(data) == IF data = {} THEN Nil ELSE CHOOSE d \in data : TRUE
    IN  [WalTails |-> [i \in 0 .. WalFileInDelta - 1 |-> the(of("tail", i))],
         PreviousWalHead |-> the(of("previous", 0)),
         WalHeads |-> [i \in 0 .. WalFileInDelta - 1 |-> the(of("head", i))]]

NewRecording == [parser |-> NewWalParser, tail |-> Nil, locations |-> {}, canceled |-> FALSE]

\* RecordBlockLocationsFromPage on a page after what was recorded before.
RecordBlockLocationsFromPage(l, rec, page) ==
    LET r == ParseRecordsFromPage(l, rec.parser, page)
    IN  IF r.err = "zeropage" THEN rec
        ELSE IF r.err = "error" THEN [rec EXCEPT !.canceled = TRUE, !.parser = setCurrentRecordData(<<>>)]
        ELSE IF rec.tail # Nil /\ r.tail # <<>> THEN [rec EXCEPT !.canceled = TRUE, !.parser = r.parser]
        ELSE [rec EXCEPT !.parser = r.parser,
                         !.tail = IF rec.tail = Nil /\ (r.tail # <<>> \/ r.records # <<>>) THEN r.tail ELSE @,
                         !.locations = @ \cup ExtractBlockLocations(r.records)]

\* WalDeltaRecordingReader reads the next page of some segment.  What it records
\* depends on the segment alone, so it is worked out once, before the uploads.
ReadPage ==
    /\ deltaPc = "read"
    /\ LET f == CHOOSE f \in DOMAIN wal : Len(recordings[f]) <= PagesInFile
           n == Len(recordings[f])
       IN  IF \A g \in DOMAIN wal : Len(recordings[g]) > PagesInFile
           THEN deltaPc' = "idle" /\ UNCHANGED recordings
           ELSE /\ recordings' = [recordings EXCEPT
                        ![f] = Append(@, RecordBlockLocationsFromPage(layout, recordings[f][n], wal[f][n]))]
                /\ UNCHANGED deltaPc
    /\ UNCHANGED <<pattern, layout, wal, backup, archived, acked, deltas, folder, main, todo, cache, deaths>>

-----------------------------------------------------------------------------
(* The DeltaFileManager *)

NewCache == [parts |-> <<>>, deltas |-> <<>>, canceled |-> {}]

\* LazyCache.Load
Load(cached, d, loaded) == IF d \in DOMAIN cached THEN cached[d] ELSE loaded

\* From the folder, or new.
loadPartFile(c, d) ==
    Load(c.parts, d, IF d \in DOMAIN folder.parts THEN LoadPartFile(folder.parts[d]) ELSE NewWalPartFile)

loadDeltaFile(c, d) ==
    Load(c.deltas, d, IF d \in DOMAIN folder.deltas THEN folder.deltas[d] ELSE [locations |-> {}, parser |-> NewWalParser])

Put(f, k, v) == [x \in DOMAIN f \cup {k} |-> IF x = k THEN v ELSE f[x]]

SavePreviousWalTail(c, f, tail) ==
    LET d == GetDeltaFilenameFor(f)
    IN  IF tail = Nil THEN c
        ELSE [c EXCEPT !.parts = Put(@, d, [loadPartFile(c, d) EXCEPT !.WalTails[GetPositionInDelta(f)] = tail])]

\* The head that a segment ends with is also what the next delta file begins with.
SaveNextWalHead(c, f, head) ==
    LET d == GetDeltaFilenameFor(f)
        e == GetDeltaFilenameFor(f + 1)
        saved == [c EXCEPT !.parts = Put(@, d, [loadPartFile(c, d) EXCEPT !.WalHeads[GetPositionInDelta(f)] = head])]
    IN  IF GetPositionInDelta(f) # WalFileInDelta - 1 THEN saved
        ELSE [saved EXCEPT !.parts = Put(@, e, [loadPartFile(saved, e) EXCEPT !.PreviousWalHead = head])]

recordWalDelta(c, f, locations) ==
    LET d == GetDeltaFilenameFor(f)
        file == loadDeltaFile(c, d)
    IN  [c EXCEPT !.deltas = Put(@, d, [file EXCEPT !.locations = @ \cup locations])]

collectCanceledDeltaFiles(c, f, canceled) ==
    IF canceled THEN [c EXCEPT !.canceled = @ \cup {GetDeltaFilenameFor(f), GetDeltaFilenameFor(f + 1)}] ELSE c

\* The cache after n pages of segment f were read and the reader closed.
Recorded(f, n) ==
    LET r == recordings[f][n + 1]
        c1 == SavePreviousWalTail(cache, f, r.tail)
        c2 == recordWalDelta(c1, f, r.locations)
        c3 == collectCanceledDeltaFiles(c2, f, r.canceled)
    IN  SaveNextWalHead(c3, f, r.parser.data)

-----------------------------------------------------------------------------
(* FlushFiles *)

\* Mutant: the record that crosses into the delta file is left out.
CombineRecordsNotFirst(part) ==
    LET of(i) == part.WalHeads[i - 1] \o part.WalTails[i]
        parsed(i) == ParseXLogRecordFromBytes(layout, of(i))
        some == {i \in 1 .. WalFileInDelta - 1 : of(i) # <<>>}
    IN  [ok |-> \A i \in some : parsed(i).ok, locations |-> UNION {readXLogRecordBlockHeaderPart(parsed(i).record) : i \in some}]

\* The records that cross into each segment: head of the one before, tail in this.
CombineRecords(part) ==
    LET head(i) == IF i = 0 THEN part.PreviousWalHead ELSE part.WalHeads[i - 1]
        of(i) == head(i) \o part.WalTails[i]
        parsed(i) == ParseXLogRecordFromBytes(layout, of(i))
        some == {i \in 0 .. WalFileInDelta - 1 : of(i) # <<>>}
    IN  [ok |-> \A i \in some : parsed(i).ok, locations |-> UNION {readXLogRecordBlockHeaderPart(parsed(i).record) : i \in some}]

CombinePartFile(d) ==
    LET part == cache.parts[d]
        combined == CombineRecords(part)
    IN  IF d \in DOMAIN cache.deltas /\ combined.ok
        THEN [ok |-> TRUE, file |-> [locations |-> cache.deltas[d].locations \cup combined.locations,
                      parser |-> LoadWalParserFromCurrentRecordHead(part.WalHeads[WalFileInDelta - 1])]]
        ELSE [ok |-> FALSE]

CleanFolder == [parts |-> <<>>, deltas |-> <<>>]

\* The parts that are complete, and the folder after CleanFolder and FlushPartFiles.
FlushPartFiles ==
    LET live == DOMAIN cache.parts \ cache.canceled
        complete == {d \in live : IsComplete(cache.parts[d])}
    IN  [complete |-> {d \in complete : CombinePartFile(d).ok},
         canceled |-> cache.canceled \cup {d \in complete : ~CombinePartFile(d).ok},
         folder |-> [CleanFolder EXCEPT !.parts = [d \in live \ complete |-> SavePartFile(cache.parts[d])]]]

Saved(file) == [file EXCEPT !.parser = SaveAndLoad(@)]

\* Complete delta files are uploaded, those in work saved.  An upload that fails is
\* only reported.
FlushDeltaFiles(flushed, uploaded) ==
    LET live == DOMAIN cache.deltas \ flushed.canceled
    IN  /\ deltas' = [d \in DOMAIN deltas \cup uploaded |->
                        IF d \in uploaded THEN Saved(CombinePartFile(d).file) ELSE deltas[d]]
        /\ folder' = [flushed.folder EXCEPT
                        !.deltas = [d \in live \ flushed.complete |-> Saved(cache.deltas[d])]]

\* FlushFiles, and wal-push ends: the server is told that its segment is archived.
FlushFiles ==
    /\ deltaPc = "push" /\ todo = {}
    /\ \E flushed \in {FlushPartFiles} :
           \E uploaded \in SUBSET flushed.complete : FlushDeltaFiles(flushed, uploaded)
    /\ acked' = acked \cup {main}
    /\ deltaPc' = "idle" /\ main' = 0 /\ cache' = NewCache
    /\ UNCHANGED <<given, backup, archived, todo, deaths>>

\* wal-push dies: anywhere but in FlushFiles, or after FlushPartFiles too.
PushDies ==
    /\ deltaPc = "push" /\ deaths < MaxDeaths
    /\ folder' \in {folder} \cup {FlushPartFiles.folder : x \in Mishaps \cap {"flushcrash"}}
    /\ deltaPc' = "idle" /\ main' = 0 /\ todo' = {} /\ cache' = NewCache /\ deaths' = deaths + 1
    /\ UNCHANGED <<given, backup, archived, acked, deltas>>

-----------------------------------------------------------------------------
(* wal-push *)

\* The server runs it for its oldest segment; the background uploader takes some of
\* the following ones.
HandleWALPush ==
    /\ deltaPc = "idle" /\ acked # 0 .. Files - 1
    /\ main' = CHOOSE f \in (0 .. Files - 1) \ acked : \A g \in (0 .. Files - 1) \ acked : f <= g
    /\ \E n \in 0 .. MaxBackground : todo' = (main' .. main' + n) \cap ((0 .. Files - 1) \ acked)
    /\ deltaPc' = "push" /\ cache' = NewCache
    /\ UNCHANGED <<given, backup, archived, acked, deltas, folder, deaths>>

\* How many pages of a background upload that fails were read: none, or some.
FailedAfter ==
    (IF "skips" \in Mishaps THEN {0} ELSE {}) \cup (IF "breaks" \in Mishaps THEN 1 .. PagesInFile ELSE {})

\* UploadWalFile; the background uploader tells the server at once.
RecordAndUpload(f) ==
    /\ deltaPc = "push" /\ f \in todo
    /\ todo' = todo \ {f}
    /\ \E ok \in {TRUE} \cup {FALSE : n \in FailedAfter} :
        /\ ok \/ f # main
        /\ cache' \in IF ok THEN {Recorded(f, PagesInFile)}
                     ELSE {IF n = 0 THEN cache ELSE Recorded(f, n) : n \in FailedAfter}
        /\ archived' = IF ok THEN archived \cup {f} ELSE archived
        /\ acked' = IF ok /\ f # main THEN acked \cup {f} ELSE acked
    /\ UNCHANGED <<given, backup, deltas, folder, deltaPc, main, deaths>>

-----------------------------------------------------------------------------
(* A delta backup *)

newDeltaNoFromLsn(lsn) == GetDeltaFilenameFor(lsn \div FileSize)

NoBackup == [first |-> 0, firstNotUsed |-> 0, next |-> 0, page |-> 1, parser |-> NewWalParser, map |-> {}, ok |-> FALSE]

\* Starts that ask most of the map: of the base backup where a delta file begins, of
\* the delta backup where a segment ends or just before.
FirstUsedLSNs == {d * FileSize : d \in Deltas}
FirstNotUsedLSNs == {f * FileSize - o : f \in 1 .. Files, o \in {0, 1}}

\* getDeltaMap, getLocationsFromDeltas: the delta files of the range, all of them, and
\* the parser of the last one.
getDeltaMap ==
    /\ deltaPc = "idle"
    /\ \E a \in FirstUsedLSNs, b \in FirstNotUsedLSNs :
        LET last == newDeltaNoFromLsn(b) - WalFileInDelta
            used == {d \in Deltas : newDeltaNoFromLsn(a) <= d /\ d <= last} \cup {last}
        IN  /\ a < b /\ used \subseteq DOMAIN deltas
            /\ backup' = [NoBackup EXCEPT !.first = a, !.firstNotUsed = b, !.next = last + WalFileInDelta,
                            !.parser = deltas[last].parser, !.map = UNION {deltas[d].locations : d \in used}]
    /\ deltaPc' = "backup"
    /\ UNCHANGED <<given, archived, acked, deltas, folder, main, todo, cache, deaths>>

\* getLocationsFromWals: the WAL that has no delta file, to the segment that holds the
\* last LSN.  A backup that cannot read it scans all files instead.
getLocationsFromWals ==
    /\ deltaPc = "backup" /\ ~backup.ok
    /\ IF backup.next > (backup.firstNotUsed - 1) \div FileSize
       THEN backup' = [backup EXCEPT !.ok = TRUE]
       ELSE /\ backup.next \in archived
            /\ \E r \in {ParseRecordsFromPage(layout, backup.parser, wal[backup.next][backup.page])} :
                /\ r.err # "error"
                /\ backup' = [backup EXCEPT !.parser = r.parser, !.map = @ \cup ExtractBlockLocations(r.records),
                        !.page = IF @ = PagesInFile THEN 1 ELSE @ + 1,
                        !.next = IF backup.page = PagesInFile THEN @ + 1 ELSE @]
    /\ UNCHANGED <<given, archived, acked, deltas, folder, process, deaths>>

\* The blocks of one file of a relation, counted from its first one.
SelectRelFileBlocks(blocks, relFileID) ==
    {b - relFileID * BlocksInRelFile : b \in blocks \cap (relFileID * BlocksInRelFile .. (relFileID + 1) * BlocksInRelFile - 1)}

GetDeltaBitmapFor(map, rel, relFileID) == SelectRelFileBlocks({l.no : l \in {l \in map : l.rel = rel}}, relFileID)

-----------------------------------------------------------------------------
DeltaInit ==
    /\ pattern \in Patterns
    /\ layout = <<>> /\ wal = <<>> /\ recordings = <<>> /\ backup = NoBackup
    /\ archived = {} /\ acked = {} /\ deltas = <<>>
    /\ folder = CleanFolder
    /\ deltaPc = "write" /\ main = 0 /\ todo = {} /\ cache = NewCache /\ deaths = 0

\* The server writes a record, after a WAL switch in the next segment.
WriteWal ==
    /\ deltaPc = "write"
    /\ LET n == Len(layout)
           end == IF n = 0 THEN 0 ELSE layout[n].end
           start == IF n > 0 /\ layout[n].switch THEN ((end + FileSize - 1) \div FileSize) * FileSize ELSE end
           length == pattern[(n % Len(pattern)) + 1]
           len == IF length = 0 THEN HeaderSize ELSE length
       IN  IF start < Files * FileSize
           THEN /\ layout' = Append(layout, [len |-> len, end |-> start + len, switch |-> length = 0])
                /\ UNCHANGED <<wal, recordings, deltaPc>>
           ELSE /\ wal' = [f \in 0 .. Files - 1 |-> FilePages(layout, f)]
                /\ recordings' = [f \in 0 .. Files - 1 |-> <<NewRecording>>]
                /\ deltaPc' = "read"
                /\ UNCHANGED layout
    /\ UNCHANGED <<pattern, backup, archived, acked, deltas, folder, main, todo, cache, deaths>>

DeltaNext ==
    \/ WriteWal \/ ReadPage \/ getDeltaMap \/ getLocationsFromWals \/ HandleWALPush \/ FlushFiles \/ PushDies
    \/ \E f \in 0 .. Files - 1 : RecordAndUpload(f)

DeltaSpec == DeltaInit /\ [][DeltaNext]_deltaVars

-----------------------------------------------------------------------------
\* A delta backup that got its delta map does not miss a block: every block that
\* WAL changed between the start of the base backup and its own start is in the
\* map of its file, whatever segments and processes the records and the delta files
\* between them were spread over (getDeltaMap, DeltaFileManager, WalPartRecorder).
DeltaMapCovers ==
    backup.ok => \A r \in DOMAIN layout :
        backup.first < layout[r].end /\ layout[r].end <= backup.firstNotUsed =>
            \A no \in {r, r + 1} :
                no % BlocksInRelFile \in GetDeltaBitmapFor(backup.map, r % 2, no \div BlocksInRelFile)
=============================================================================
