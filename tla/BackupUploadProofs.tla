------------------------- MODULE BackupUploadProofs -------------------------
(***************************************************************************)
(* For all files, ratings, queue lengths and numbers of failures: tarballs *)
(* are conserved, pg_control is uploaded after everything else, and a      *)
(* backup that is visible is complete.  First the inductive invariant of   *)
(* backup-push and the lemmas on its tarballs: every step keeps the shape  *)
(* of the state, and conserves the tarballs that packers, the fill queue   *)
(* and FinishQueue pass to each other.                                     *)
(***************************************************************************)
EXTENDS BackupUpload, FiniteSetTheorems, TLAPS

Elems(s) == {s[i] : i \in 1 .. Len(s)}
Distinct(s) == \A i, j \in 1 .. Len(s) : s[i] = s[j] => i = j

\* PackTarballs has begun to compose, or has ended.
Late == {"compose", "start", "finish", "pgcontrol", "label", "failover", "await", "sentinel", "done"}

\* FinishQueue has ended.
Ended == {"pgcontrol", "label", "failover", "await", "sentinel", "done"}

\* The shape of the state that the steps rely on.
FlowShape ==
    /\ composer \in {"regular", "rating"} /\ main \in {"walk", "pack", "dead"} \cup Late
    /\ toWalk \subseteq Items /\ errors \in Nat
    /\ addFileQueue \in Seq(Files) /\ addFileWorkers \in Nat
    /\ collected \subseteq Items

RecordShape ==
    /\ contents \in [Tarballs -> SUBSET Items] /\ tarFileSets \in [Tarballs -> SUBSET Items]
    /\ bundleFiles \in [Items -> {"absent", "added", "skipped"}]
    /\ collections \in Seq(SUBSET Files)
    /\ taken \in Nat /\ closing \in Tarballs \cup {NoTar} /\ parts \subseteq Tarballs

QueueShape ==
    /\ fillQueue \in Seq(Tarballs) /\ uploadQueue \in Seq(Tarballs)
    /\ made \in 0 .. MaxTarballs /\ mutex \in Tarballs \cup {NoTar}
    /\ upload \in [Tarballs -> {"unset", "open", "closed", "stored"}]
    /\ Holders \subseteq Tarballs /\ packing \in [Holders -> SUBSET Files]

Shape == FlowShape /\ RecordShape /\ QueueShape

\* A tarball is in the fill queue once, or with a packer, and the next one is new.
QueueInv ==
    /\ Distinct(fillQueue) /\ Elems(fillQueue) \cap Holders = {}
    /\ \A t \in Elems(fillQueue) \cup Holders : t <= made
    /\ \A t \in Tarballs : t > made => upload[t] = "unset"
    /\ \A t \in Holders : upload[t] # "unset" /\ packing[t] \subseteq tarFileSets[t]
    /\ composer = "regular" => \A t \in Holders : \A f, g \in packing[t] : f = g
    /\ mutex # NoTar => mutex \in Holders /\ packing[mutex] = {} /\ upload[mutex] # "open"

\* Where the main goroutine is, and what is over by then.
MainInv ==
    /\ composer = "regular" =>
        addFileQueue = <<>> /\ addFileWorkers = 0 /\ collected = {} /\ main \notin {"compose", "start"}
    /\ composer = "rating" /\ ~Failed => addFileWorkers = ParallelTarballs
    /\ main = "pack" => toWalk = {} \/ Failed
    /\ main \in Late => ~Failed /\ toWalk = {} /\ addFileQueue = <<>>
    /\ main \in Late /\ composer = "regular" => Holders = {}
    /\ main = "compose" => collections # <<>>
    /\ main \in Ended => taken = ParallelTarballs /\ closing = NoTar /\ uploadQueue = <<>>
    /\ parts # {} => main \in (Ended \ {"pgcontrol"}) \cup {"dead"}
    /\ main \in {"sentinel", "done"} => \A t \in parts : upload[t] = "stored"
    /\ main \in {"await", "sentinel", "done"} => ~(Replica /\ timeline = "changed")
    /\ sentinel => main = "done"

\* An upload in progress is still going to be closed or awaited.
AwaitedInv ==
    /\ main # "dead" /\ ~Failed =>
        \A t \in Tarballs : upload[t] = "open" => t \in Elems(fillQueue) \cup Holders
    /\ \A t \in Tarballs : upload[t] = "closed" => t \in Elems(uploadQueue) \cup {closing} \cup parts

\* What the walk met is on its way into a tarball, or has been recorded.
Pending(i) ==
    \/ i \in toWalk \/ i \in Elems(addFileQueue)
    \/ i \in collected /\ main \in {"walk", "pack", "compose"}
    \/ main = "start" /\ i \in Composed
    \/ \E t \in Holders : i \in packing[t]

\* i is in a tarball that is named for it.
Written(i) == \E t \in Tarballs : i \in contents[t] \cap tarFileSets[t] /\ upload[t] # "unset"

FilesInv ==
    /\ \A h \in Headers : h \in collected => bundleFiles[h] = "added"
    /\ main # "dead" /\ ~Failed =>
        \A i \in Items :
            /\ Pending(i) \/ bundleFiles[i] # "absent" \/ i \in gone
            /\ bundleFiles[i] = "added" =>
                Written(i) \/ (i \in collected \cap Headers /\ main \in {"walk", "pack", "compose"})

UploadInv == Shape /\ QueueInv /\ TarballsConserved /\ MainInv /\ AwaitedInv /\ FilesInv

-----------------------------------------------------------------------------
(* Queues and packers *)

\* Tarballs are numbered: the next one is above those made.
LEMMA Numbered ==
    /\ \A t \in Tarballs : t \in Nat
    /\ \A m \in 0 .. MaxTarballs : m \in Nat
    /\ \A m \in 0 .. MaxTarballs, t \in Tarballs : t <= m \/ t > m
    /\ \A m \in 0 .. MaxTarballs, t, u \in Tarballs : t <= m /\ u > m => u # t
    /\ \A m \in 0 .. MaxTarballs, t \in Tarballs : t <= m => t <= m + 1 /\ t # m + 1
    /\ \A m \in 0 .. MaxTarballs, t \in Tarballs : t > m + 1 => t > m /\ t # m + 1
    /\ \A m \in 0 .. MaxTarballs : m + 1 <= m + 1 /\ m + 1 > m
    /\ \A m \in 0 .. MaxTarballs : m < MaxTarballs => m + 1 \in Tarballs /\ m + 1 \in 0 .. MaxTarballs
  BY QueueAssumption DEF Tarballs

\* What a tarball is named for only grows.
LEMMA Named ==
    ASSUME NEW S, NEW f \in [Tarballs -> SUBSET S], NEW t, NEW a \in SUBSET S
    PROVE  /\ [f EXCEPT ![t] = @ \cup a] \in [Tarballs -> SUBSET S]
           /\ \A u \in Tarballs : f[u] \subseteq [f EXCEPT ![t] = @ \cup a][u]
  BY Zenon

\* A receive takes the first element and leaves the others.
LEMMA Received ==
    ASSUME NEW S, NEW s \in Seq(S), s # <<>>
    PROVE  /\ Head(s) \in S /\ Tail(s) \in Seq(S) /\ Len(Tail(s)) = Len(s) - 1 /\ Len(s) > 0
           /\ Elems(s) = Elems(Tail(s)) \cup {Head(s)}
           /\ Distinct(s) => Distinct(Tail(s)) /\ Head(s) \notin Elems(Tail(s))
  <1>1. /\ Head(s) \in S /\ Tail(s) \in Seq(S) /\ Len(Tail(s)) = Len(s) - 1 /\ Len(s) > 0
        /\ Len(s) \in Nat /\ Head(s) = s[1]
        /\ \A i \in 1 .. Len(s) - 1 : Tail(s)[i] = s[i + 1]
    OBVIOUS
  <1>2. Elems(s) = Elems(Tail(s)) \cup {Head(s)}
    <2>1. ASSUME NEW i \in 1 .. Len(s) PROVE s[i] \in Elems(Tail(s)) \cup {Head(s)}
      <3>1. CASE i = 1
        BY <3>1, <1>1, Zenon
      <3>2. CASE i # 1
        <4>1. i - 1 \in 1 .. Len(Tail(s)) /\ Tail(s)[i - 1] = s[i]
          BY <3>2, <1>1
        <4> QED  BY <4>1, Zenon DEF Elems
      <3> QED  BY <3>1, <3>2, Zenon
    <2>2. ASSUME NEW i \in 1 .. Len(Tail(s)) PROVE Tail(s)[i] \in Elems(s)
      <3>1. i + 1 \in 1 .. Len(s) /\ Tail(s)[i] = s[i + 1]
        BY <1>1
      <3> QED  BY <3>1, Zenon DEF Elems
    <2>3. Head(s) \in Elems(s)
      BY <1>1 DEF Elems
    <2> QED  BY <2>1, <2>2, <2>3, Zenon DEF Elems
  <1>3. ASSUME Distinct(s) PROVE Distinct(Tail(s)) /\ Head(s) \notin Elems(Tail(s))
    <2>1. \A i, j \in 1 .. Len(s) - 1 : s[i + 1] = s[j + 1] => i = j
      BY <1>1, <1>3 DEF Distinct
    <2>2. \A i \in 1 .. Len(s) - 1 : s[i + 1] # s[1]
      BY <1>1, <1>3 DEF Distinct
    <2> QED  BY <1>1, <2>1, <2>2 DEF Distinct, Elems
  <1> QED  BY <1>1, <1>2, <1>3, Zenon

\* A send adds an element.
LEMMA SentTo ==
    ASSUME NEW S, NEW s \in Seq(S), NEW e \in S
    PROVE  /\ Append(s, e) \in Seq(S) /\ Len(Append(s, e)) = Len(s) + 1
           /\ Elems(Append(s, e)) = Elems(s) \cup {e}
           /\ Distinct(s) /\ e \notin Elems(s) => Distinct(Append(s, e))
  <1>1. /\ Append(s, e) \in Seq(S) /\ Len(Append(s, e)) = Len(s) + 1 /\ Len(s) \in Nat
        /\ \A i \in 1 .. Len(s) : Append(s, e)[i] = s[i]
        /\ Append(s, e)[Len(s) + 1] = e
    OBVIOUS
  <1>2. Elems(Append(s, e)) = Elems(s) \cup {e}
    <2>1. ASSUME NEW i \in 1 .. Len(s) + 1 PROVE Append(s, e)[i] \in Elems(s) \cup {e}
      BY <1>1 DEF Elems
    <2>2. ASSUME NEW i \in 1 .. Len(s) PROVE s[i] \in Elems(Append(s, e))
      <3>1. i \in 1 .. Len(Append(s, e)) /\ Append(s, e)[i] = s[i]
        BY <1>1
      <3> QED  BY <3>1, Zenon DEF Elems
    <2>3. e \in Elems(Append(s, e))
      <3>1. Len(s) + 1 \in 1 .. Len(Append(s, e))
        BY <1>1
      <3> QED  BY <1>1, <3>1, Zenon DEF Elems
    <2> QED  BY <1>1, <2>1, <2>2, <2>3, Zenon DEF Elems
  <1>3. ASSUME Distinct(s), e \notin Elems(s) PROVE Distinct(Append(s, e))
    <2>1. \A i \in 1 .. Len(s) : s[i] # e
      BY <1>3, Zenon DEF Elems
    <2> QED  BY <1>1, <1>3, <2>1 DEF Distinct
  <1> QED  BY <1>1, <1>2, <1>3, Zenon

\* Elements are of the set, and an empty queue has none.
LEMMA ElemsIn ==
    ASSUME NEW S, NEW s \in Seq(S)
    PROVE  Elems(s) \subseteq S /\ (s = <<>> <=> Elems(s) = {}) /\ Len(s) \in Nat /\ (Len(s) = 0 => s = <<>>)
  <1>1. Len(s) \in Nat /\ \A i \in 1 .. Len(s) : s[i] \in S
    OBVIOUS
  <1>2. Elems(s) \subseteq S
    BY <1>1, Zenon DEF Elems
  <1>3. Len(s) = 0 => s = <<>>
    OBVIOUS
  <1>4. s # <<>> => s[1] \in Elems(s)
    BY <1>1, <1>3 DEF Elems
  <1>5. Elems(<<>>) = {}
    BY DEF Elems
  <1> QED  BY <1>1, <1>2, <1>3, <1>4, <1>5, Zenon

\* The number of packers, one less or one more.
LEMMA PackersCounted ==
    ASSUME QueueShape
    PROVE  /\ Cardinality(Holders) \in Nat /\ (Cardinality(Holders) = 0 => Holders = {})
           /\ \A t \in Holders : Cardinality(Holders \ {t}) = Cardinality(Holders) - 1
           /\ \A t \in Tarballs \ Holders : Cardinality(Holders \cup {t}) = Cardinality(Holders) + 1
  <1>1. IsFiniteSet(Tarballs)
    BY QueueAssumption, FS_Interval DEF Tarballs
  <1>2. IsFiniteSet(Holders)
    BY <1>1, FS_Subset, Zenon DEF QueueShape
  <1> QED  BY <1>2, FS_CardinalityType, FS_EmptySet, FS_AddElement, FS_RemoveElement, Zenon

\* AddFile and StartPackers hand the first tarball of the fill queue to a packer.
LEMMA HandedOut ==
    ASSUME QueueShape, QueueInv, NEW t \in Tarballs, Deque(t), NEW fs, packing' = Hand(t, fs)
    PROVE  /\ t \in Elems(fillQueue) /\ t \notin Holders
           /\ fillQueue' \in Seq(Tarballs) /\ Len(fillQueue') = Len(fillQueue) - 1
           /\ Elems(fillQueue') = Elems(fillQueue) \ {t} /\ Distinct(fillQueue')
           /\ Holders' = Holders \cup {t} /\ Cardinality(Holders') = Cardinality(Holders) + 1
           /\ packing'[t] = fs /\ \A u \in Holders : packing'[u] = packing[u]
           /\ upload' \in [Tarballs -> {"unset", "open", "closed", "stored"}]
           /\ upload'[t] = (IF upload[t] = "unset" THEN "open" ELSE upload[t])
           /\ \A u \in Tarballs \ {t} : upload'[u] = upload[u]
           /\ UNCHANGED <<uploadQueue, made, mutex>>
  <1>1. fillQueue \in Seq(Tarballs) /\ fillQueue # <<>> /\ t = Head(fillQueue) /\ fillQueue' = Tail(fillQueue)
        /\ upload' = SetUp(t) /\ UNCHANGED <<uploadQueue, made, mutex>>
    BY Zenon DEF QueueShape, Deque
  <1>2. /\ t \in Elems(fillQueue) /\ Elems(fillQueue') = Elems(fillQueue) \ {t} /\ Distinct(fillQueue')
        /\ fillQueue' \in Seq(Tarballs) /\ Len(fillQueue') = Len(fillQueue) - 1
    BY <1>1, Received DEF QueueInv
  <1>3. t \notin Holders
    BY <1>2, Zenon DEF QueueInv
  <1>4. /\ Holders' = Holders \cup {t} /\ packing'[t] = fs
        /\ \A u \in Holders : packing'[u] = packing[u]
    <2>1. /\ DOMAIN Hand(t, fs) = Holders \cup {t} /\ Hand(t, fs)[t] = fs
          /\ \A u \in Holders \ {t} : Hand(t, fs)[u] = packing[u]
      BY Zenon DEF Hand
    <2>2. Holders' = DOMAIN Hand(t, fs)
      BY Zenon DEF Holders
    <2> QED  BY <1>3, <2>1, <2>2, Zenon
  <1>5. Cardinality(Holders') = Cardinality(Holders) + 1
    BY <1>3, <1>4, PackersCounted, Zenon
  <1>6. /\ upload' \in [Tarballs -> {"unset", "open", "closed", "stored"}]
        /\ upload'[t] = (IF upload[t] = "unset" THEN "open" ELSE upload[t])
        /\ \A u \in Tarballs \ {t} : upload'[u] = upload[u]
    BY <1>1, Zenon DEF QueueShape, SetUp
  <1> QED  BY <1>1, <1>2, <1>3, <1>4, <1>5, <1>6, Zenon

\* What is received and sent again stays in the queue.
LEMMA Rotated ==
    ASSUME NEW S, NEW s \in Seq(S), s # <<>>, Distinct(s)
    PROVE  /\ Append(Tail(s), Head(s)) \in Seq(S) /\ Len(Append(Tail(s), Head(s))) = Len(s)
           /\ Elems(Append(Tail(s), Head(s))) = Elems(s) /\ Distinct(Append(Tail(s), Head(s)))
  <1>1. /\ Head(s) \in S /\ Tail(s) \in Seq(S) /\ Len(Tail(s)) = Len(s) - 1
        /\ Elems(s) = Elems(Tail(s)) \cup {Head(s)}
        /\ Distinct(Tail(s)) /\ Head(s) \notin Elems(Tail(s))
    BY Received, Zenon
  <1>2. ASSUME NEW r \in Seq(S), NEW e \in S, Distinct(r), e \notin Elems(r)
        PROVE  /\ Append(r, e) \in Seq(S) /\ Distinct(Append(r, e))
               /\ Elems(Append(r, e)) = Elems(r) \cup {e}
    <2>1. Append(r, e) \in Seq(S)
      OBVIOUS
    <2>2. Elems(Append(r, e)) = Elems(r) \cup {e}
      BY SentTo
    <2>3. Distinct(Append(r, e))
      BY <1>2, SentTo, Zenon
    <2> QED  BY <2>1, <2>2, <2>3, Zenon
  <1>3. /\ Append(Tail(s), Head(s)) \in Seq(S) /\ Distinct(Append(Tail(s), Head(s)))
        /\ Elems(Append(Tail(s), Head(s))) = Elems(Tail(s)) \cup {Head(s)}
    BY <1>1, <1>2, Zenon
  <1>4. Len(Append(Tail(s), Head(s))) = Len(s)
    OBVIOUS
  <1> QED  BY <1>1, <1>3, <1>4, Zenon

\* AddHeader and WriteHeaders take a tarball and put it back.
LEMMA PutBack ==
    ASSUME QueueShape, QueueInv, fillQueue # <<>>, NEW t, t = Head(fillQueue),
           fillQueue' = Append(Tail(fillQueue), t), upload' = SetUp(t)
    PROVE  /\ t \in Tarballs /\ t \in Elems(fillQueue)
           /\ fillQueue' \in Seq(Tarballs) /\ Len(fillQueue') = Len(fillQueue)
           /\ Elems(fillQueue') = Elems(fillQueue) /\ Distinct(fillQueue')
           /\ upload' \in [Tarballs -> {"unset", "open", "closed", "stored"}]
           /\ upload'[t] = (IF upload[t] = "unset" THEN "open" ELSE upload[t])
           /\ \A u \in Tarballs \ {t} : upload'[u] = upload[u]
  <1>1. fillQueue \in Seq(Tarballs) /\ Distinct(fillQueue)
    BY Zenon DEF QueueShape, QueueInv
  <1>2. t \in Tarballs /\ t \in Elems(fillQueue)
    BY <1>1, Received
  <1>3. /\ fillQueue' \in Seq(Tarballs) /\ Len(fillQueue') = Len(fillQueue)
        /\ Elems(fillQueue') = Elems(fillQueue) /\ Distinct(fillQueue')
    BY <1>1, Rotated, Zenon
  <1>4. /\ upload' \in [Tarballs -> {"unset", "open", "closed", "stored"}]
        /\ upload'[t] = (IF upload[t] = "unset" THEN "open" ELSE upload[t])
        /\ \A u \in Tarballs \ {t} : upload'[u] = upload[u]
    BY <1>2, Zenon DEF QueueShape, SetUp
  <1> QED  BY <1>2, <1>3, <1>4, Zenon

\* A packer ends and puts x, its tarball or a new one, into the fill queue.
LEMMA GivenBack ==
    ASSUME QueueShape, QueueInv, NEW t \in Holders, NEW x \in Tarballs, x = t \/ x > made,
           fillQueue' = Append(fillQueue, x), packing' = Release(t)
    PROVE  /\ fillQueue' \in Seq(Tarballs) /\ Len(fillQueue') = Len(fillQueue) + 1
           /\ Elems(fillQueue') = Elems(fillQueue) \cup {x} /\ Distinct(fillQueue')
           /\ x \notin Elems(fillQueue) /\ x \notin Holders'
           /\ Holders' = Holders \ {t} /\ Cardinality(Holders') = Cardinality(Holders) - 1
           /\ \A u \in Holders' : packing'[u] = packing[u]
  <1>1. fillQueue \in Seq(Tarballs) /\ Distinct(fillQueue) /\ Elems(fillQueue) \subseteq Tarballs
        /\ Holders \subseteq Tarballs /\ made \in Nat /\ \A u \in Tarballs : u \in Nat
    BY ElemsIn, QueueAssumption DEF QueueShape, QueueInv, Tarballs
  <1>2. Holders' = Holders \ {t} /\ \A u \in Holders' : packing'[u] = packing[u]
    <2>1. DOMAIN Release(t) = Holders \ {t} /\ \A u \in Holders \ {t} : Release(t)[u] = packing[u]
      BY Zenon DEF Release
    <2>2. Holders' = DOMAIN Release(t)
      BY Zenon DEF Holders
    <2> QED  BY <2>1, <2>2, Zenon
  <1>3. x \notin Elems(fillQueue) /\ x \notin Holders'
    BY <1>1, <1>2 DEF QueueInv
  <1>4. Cardinality(Holders') = Cardinality(Holders) - 1
    BY <1>2, PackersCounted, Zenon
  <1> QED  BY <1>1, <1>2, <1>3, <1>4, SentTo

\* FinishQueue takes a tarball out for good.
LEMMA TakenOut ==
    ASSUME QueueShape, QueueInv, NEW t \in Tarballs, FinishQueueTake(t)
    PROVE  /\ t \in Elems(fillQueue)
           /\ fillQueue' \in Seq(Tarballs) /\ Len(fillQueue') = Len(fillQueue) - 1
           /\ Elems(fillQueue') = Elems(fillQueue) \ {t} /\ Distinct(fillQueue')
           /\ upload' \in [Tarballs -> {"unset", "open", "closed", "stored"}]
           /\ upload'[t] = (IF upload[t] = "open" THEN "closed" ELSE upload[t])
           /\ \A u \in Tarballs \ {t} : upload'[u] = upload[u]
           /\ UNCHANGED <<uploadQueue, made, mutex>>
  <1>1. fillQueue \in Seq(Tarballs) /\ fillQueue # <<>> /\ t = Head(fillQueue) /\ fillQueue' = Tail(fillQueue)
        /\ Distinct(fillQueue)
    BY Zenon DEF QueueShape, QueueInv, FinishQueueTake
  <1>2. /\ t \in Elems(fillQueue) /\ Elems(fillQueue') = Elems(fillQueue) \ {t} /\ Distinct(fillQueue')
        /\ fillQueue' \in Seq(Tarballs) /\ Len(fillQueue') = Len(fillQueue) - 1
    BY <1>1, Received
  <1>3. /\ upload' \in [Tarballs -> {"unset", "open", "closed", "stored"}]
        /\ upload'[t] = (IF upload[t] = "open" THEN "closed" ELSE upload[t])
        /\ \A u \in Tarballs \ {t} : upload'[u] = upload[u]
        /\ UNCHANGED <<uploadQueue, made, mutex>>
    BY Zenon DEF QueueShape, FinishQueueTake
  <1> QED  BY <1>2, <1>3, Zenon

-----------------------------------------------------------------------------
(* The shape of the state *)

\* The walk and the composers keep the shape of what they work on.
LEMMA FlowStep ==
    ASSUME UploadInv, Next
    PROVE  FlowShape'
  <1> USE DEF finishVars, ratingVars
  <1>1. CASE Walk
    <2>1. PICK i \in Items : SkipFile(i) \/ AddFile(i) \/ AddHeader(i) \/ AddFileToQueue(i) \/ CollectHeader(i)
      BY <1>1, Zenon DEF Walk
    <2>2. CASE SkipFile(i)
      BY <2>2, Zenon DEF SkipFile, UploadInv, Shape, FlowShape
    <2>3. CASE AddFile(i)
      BY <2>3, Zenon DEF AddFile, UploadInv, Shape, FlowShape
    <2>4. CASE AddHeader(i)
      BY <2>4, Zenon DEF AddHeader, UploadInv, Shape, FlowShape
    <2>5. CASE AddFileToQueue(i)
      BY <2>5 DEF AddFileToQueue, UploadInv, Shape, FlowShape
    <2>6. CASE CollectHeader(i)
      BY <2>6, Zenon DEF CollectHeader, Items, UploadInv, Shape, FlowShape
    <2> QED  BY <2>1, <2>2, <2>3, <2>4, <2>5, <2>6, Zenon DEF Shape, FlowShape
  <1>2. CASE EndWalk \/ AwaitPackers
    BY <1>2, Zenon DEF EndWalk, AwaitPackers, UploadInv, Shape, FlowShape, Late
  <1>3. CASE AwaitWorkers \/ (\E f \in Files : ComposeFile(f)) \/ WriteHeaders \/ StartPackers
    BY <1>3, Zenon DEF AwaitWorkers, ComposeFile, WriteHeaders, StartPackers, UploadInv, Shape, FlowShape, Late
  <1>4. CASE FinishQueue \/ UploadPgControl \/ UploadLabelFiles
    BY <1>4, Zenon DEF FinishQueue, UploadPgControl, UploadLabelFiles, UploadInv, Shape, FlowShape, Late
  <1>5. CASE UploaderFinish \/ UploadSentinel
    BY <1>5, ZenonT(30) DEF UploaderFinish, UploadSentinel, UploadInv, Shape, FlowShape, Late
  <1>6. ASSUME NEW t \in Tarballs, Packer(t) \/ BackgroundUpload(t) \/ UploadFails(t)
        PROVE  FlowShape'
    BY <1>6
       DEF Packer, PackFileIntoTar, PackFileError, FinishTarBall, BackgroundUpload, UploadFails, UploadInv,
           Shape, FlowShape
  <1>7. CASE AddFileWorker
    BY <1>7 DEF AddFileWorker, Items, UploadInv, Shape, FlowShape
  <1>8. CASE FatalOnError \/ Promote \/ Terminated
    BY <1>8, Zenon DEF FatalOnError, Promote, Terminated, vars, UploadInv, Shape, FlowShape
  <1> QED  BY <1>1, <1>2, <1>3, <1>4, <1>5, <1>6, <1>7, <1>8, Zenon DEF Next, Main, UploadInv, Late

\* What packers and FinishQueue record keeps its shape.
LEMMA RecordStep ==
    ASSUME UploadInv, Next
    PROVE  RecordShape'
  <1> USE UploadAssumption
          DEF UploadInv, Shape, RecordShape, Late, finishVars, ratingVars, packVars
  <1>1. CASE Walk
    <2>1. PICK i \in Items : SkipFile(i) \/ AddFile(i) \/ AddHeader(i) \/ AddFileToQueue(i) \/ CollectHeader(i)
      BY <1>1, Zenon DEF Walk
    <2>2. CASE SkipFile(i)
      BY <2>2, Zenon DEF SkipFile
    <2>3. CASE AddFile(i)
      <3>1. {i} \in SUBSET Items
        BY Zenon
      <3>2. tarFileSets' = tarFileSets \/ \E t \in Tarballs : tarFileSets' = [tarFileSets EXCEPT ![t] = @ \cup {i}]
        BY <2>3, Zenon DEF AddFile
      <3>3. tarFileSets' \in [Tarballs -> SUBSET Items]
        <4>1. CASE tarFileSets' = tarFileSets
          BY <4>1, Zenon
        <4>2. ASSUME NEW t \in Tarballs, tarFileSets' = [tarFileSets EXCEPT ![t] = @ \cup {i}]
              PROVE  tarFileSets' \in [Tarballs -> SUBSET Items]
          BY <3>1, <4>2, Named
        <4> QED  BY <3>2, <4>1, <4>2, Zenon
      <3> QED  BY <2>3, <3>3, Zenon DEF AddFile
    <2>4. CASE AddHeader(i)
      <3>1. CASE UNCHANGED packVars
        BY <2>4, <3>1, Zenon DEF AddHeader
      <3>2. ASSUME NEW t \in Tarballs,
                   tarFileSets' = [tarFileSets EXCEPT ![t] = @ \cup {i}],
                   contents' = [contents EXCEPT ![t] = @ \cup {i}],
                   bundleFiles' = [bundleFiles EXCEPT ![i] = "added"]
            PROVE  RecordShape'
        <4>1. /\ tarFileSets' \in [Tarballs -> SUBSET Items] /\ contents' \in [Tarballs -> SUBSET Items]
              /\ bundleFiles' \in [Items -> {"absent", "added", "skipped"}]
          BY <3>2, Zenon
        <4> QED  BY <2>4, <4>1, Zenon DEF AddHeader
      <3>3. fillQueue # <<>> => Head(fillQueue) \in Tarballs
        BY Received, Zenon DEF QueueShape
      <3> QED  BY <2>4, <3>1, <3>2, <3>3, Zenon DEF AddHeader
    <2>5. CASE AddFileToQueue(i)
      BY <2>5, Zenon DEF AddFileToQueue
    <2>6. CASE CollectHeader(i)
      BY <2>6, Zenon DEF CollectHeader
    <2> QED  BY <2>1, <2>2, <2>3, <2>4, <2>5, <2>6, Zenon
  <1>2. CASE EndWalk \/ AwaitPackers
    BY <1>2, Zenon DEF EndWalk, AwaitPackers
  <1>3. CASE AwaitWorkers
    <2>1. <<{}>> \in Seq(SUBSET Files)
      OBVIOUS
    <2> QED  BY <1>3, <2>1, Zenon DEF AwaitWorkers
  <1>4. ASSUME NEW f \in Files, ComposeFile(f) PROVE RecordShape'
    <2>1. collections # <<>>
      BY <1>4, Zenon DEF ComposeFile, MainInv
    <2>2. collections' \in Seq(SUBSET Files)
      <3>1. Len(collections) \in 1 .. Len(collections)
        BY <2>1
      <3>2. Append(collections, {f}) \in Seq(SUBSET Files)
        OBVIOUS
      <3>3. [collections EXCEPT ![Len(collections)] = @ \cup {f}] \in Seq(SUBSET Files)
        BY <3>1
      <3> QED  BY <1>4, <3>2, <3>3, Zenon DEF ComposeFile
    <2> QED  BY <1>4, <2>2, Zenon DEF ComposeFile
  <1>5. CASE WriteHeaders
    <2>1. \E t \in Tarballs :
              /\ tarFileSets' = [tarFileSets EXCEPT ![t] = @ \cup (collected \cap Headers)]
              /\ contents' = [contents EXCEPT ![t] = @ \cup (collected \cap Headers)]
      BY <1>5, Received, Zenon DEF WriteHeaders, QueueShape
    <2> QED  BY <1>5, Zenon DEF WriteHeaders, FlowShape
  <1>6. CASE StartPackers
    <2>1. CASE collections = <<>>
      BY <1>6, <2>1, Zenon DEF StartPackers
    <2>2. CASE collections # <<>>
      <3>1. Head(collections) \in SUBSET Files /\ Tail(collections) \in Seq(SUBSET Files)
        BY <2>2
      <3>2. PICK t \in Tarballs : tarFileSets' = [tarFileSets EXCEPT ![t] = @ \cup Head(collections)]
        BY <1>6, <2>2, Zenon DEF StartPackers
      <3>3. tarFileSets' \in [Tarballs -> SUBSET Items]
        BY <3>1, <3>2, Zenon DEF Items
      <3> QED  BY <1>6, <2>2, <3>1, <3>3, Zenon DEF StartPackers
    <2> QED  BY <2>1, <2>2, Zenon
  <1>7. CASE FinishQueue
    <2>1. taken' \in Nat /\ closing' \in Tarballs \cup {NoTar}
      BY <1>7 DEF FinishQueue
    <2> QED  BY <1>7, <2>1, Zenon DEF FinishQueue
  <1>8. CASE UploadPgControl \/ UploadLabelFiles
    <2>1. UploadSeparatePart => made' \in Tarballs
      BY QueueAssumption DEF UploadSeparatePart, QueueShape, Tarballs
    <2>2. parts' \subseteq Tarballs
      BY <1>8, <2>1, Zenon DEF UploadPgControl, UploadLabelFiles
    <2> QED  BY <1>8, <2>2, Zenon DEF UploadPgControl, UploadLabelFiles
  <1>9. CASE UploaderFinish \/ UploadSentinel
    BY <1>9, Zenon DEF UploaderFinish, UploadSentinel
  <1>10. ASSUME NEW t \in Tarballs, Packer(t) \/ BackgroundUpload(t) \/ UploadFails(t)
         PROVE  RecordShape'
    <2>1. CASE PackFileIntoTar(t)
      <3>1. PICK f \in packing[t], outcome \in {"added", "skipped", "absent"} : PackFile(t, f, outcome)
        BY <2>1, Zenon DEF PackFileIntoTar
      <3>2. f \in Items
        BY <2>1, Zenon DEF PackFileIntoTar, QueueShape, Items
      <3>3. contents' \in [Tarballs -> SUBSET Items] /\ bundleFiles' \in [Items -> {"absent", "added", "skipped"}]
        BY <3>1, <3>2, Zenon DEF PackFile
      <3> QED  BY <2>1, <3>3, Zenon DEF PackFileIntoTar
    <2>2. CASE PackFileError(t)
      <3>1. packing[t] \subseteq Items
        BY <2>2, Zenon DEF PackFileError, QueueShape, Items
      <3>2. bundleFiles' \in [Items -> {"absent", "added", "skipped"}]
        BY <2>2, <3>1, Zenon DEF PackFileError
      <3> QED  BY <2>2, <3>2, Zenon DEF PackFileError
    <2>3. CASE FinishTarBall(t)
      BY <2>3, Zenon DEF FinishTarBall
    <2>4. CASE BackgroundUpload(t) \/ UploadFails(t)
      BY <2>4, Zenon DEF BackgroundUpload, UploadFails
    <2> QED  BY <1>10, <2>1, <2>2, <2>3, <2>4, Zenon DEF Packer
  <1>11. CASE AddFileWorker
    BY <1>11, Zenon DEF AddFileWorker
  <1>12. CASE FatalOnError \/ Promote \/ Terminated
    BY <1>12, Zenon DEF FatalOnError, Promote, Terminated, vars
  <1> QED  BY <1>1, <1>2, <1>3, <1>4, <1>5, <1>6, <1>7, <1>8, <1>9, <1>10, <1>11, <1>12, ZenonT(30) DEF Next, Main

-----------------------------------------------------------------------------
(* Tarballs are conserved *)

Conservation == QueueShape /\ QueueInv /\ TarballsConserved

\* A step that touches neither the queues nor the packers.
LEMMA QueueKept ==
    ASSUME UploadInv, UNCHANGED <<queueVars, packing, tarFileSets, composer, taken>>,
           composer = "regular" => errors' = errors, main' # "dead" => main # "dead"
    PROVE  Conservation'
  <1>1. QueueShape' /\ QueueInv'
    BY Zenon DEF UploadInv, Shape, QueueShape, QueueInv, queueVars, Holders
  <1>2. TarballsConserved'
    BY Zenon DEF UploadInv, TarballsConserved, queueVars, Holders
  <1> QED  BY <1>1, <1>2, Zenon DEF Conservation

\* A tarball goes from the fill queue to a packer that gets fs.
LEMMA QueueHandedOut ==
    ASSUME UploadInv, NEW t \in Tarballs, Deque(t), NEW fs \in SUBSET Files, packing' = Hand(t, fs),
           tarFileSets' = [tarFileSets EXCEPT ![t] = @ \cup fs],
           composer = "regular" => \A f, g \in fs : f = g,
           UNCHANGED <<composer, taken, errors>>, main # "dead"
    PROVE  Conservation'
  <1>1. /\ t \in Elems(fillQueue) /\ t \notin Holders
        /\ fillQueue' \in Seq(Tarballs) /\ Len(fillQueue') = Len(fillQueue) - 1
        /\ Elems(fillQueue') = Elems(fillQueue) \ {t} /\ Distinct(fillQueue')
        /\ Holders' = Holders \cup {t} /\ Cardinality(Holders') = Cardinality(Holders) + 1
        /\ packing'[t] = fs /\ \A u \in Holders : packing'[u] = packing[u]
        /\ upload' \in [Tarballs -> {"unset", "open", "closed", "stored"}]
        /\ upload'[t] = (IF upload[t] = "unset" THEN "open" ELSE upload[t])
        /\ \A u \in Tarballs \ {t} : upload'[u] = upload[u]
        /\ UNCHANGED <<uploadQueue, made, mutex>>
    BY HandedOut, Zenon DEF UploadInv, Shape
  <1>2. QueueShape'
    <2>1. packing' \in [Holders' -> SUBSET Files]
      <3>1. packing' = [u \in Holders' |-> packing'[u]]
        BY <1>1, Zenon DEF Hand, Holders
      <3> QED  BY <1>1, <3>1, Zenon DEF QueueShape, UploadInv, Shape
    <2> QED  BY <1>1, <2>1, Zenon DEF QueueShape, UploadInv, Shape
  <1>3. \A u \in Tarballs : tarFileSets[u] \subseteq tarFileSets'[u] /\ (u = t => fs \subseteq tarFileSets'[u])
    BY Zenon DEF RecordShape, UploadInv, Shape
  <1>4. QueueInv'
    <2>1. /\ Distinct(fillQueue') /\ Elems(fillQueue') \cap Holders' = {}
          /\ \A u \in Elems(fillQueue') \cup Holders' : u <= made
      BY <1>1, Zenon DEF QueueInv, UploadInv
    <2>2. \A u \in Tarballs : u > made => upload'[u] = "unset"
      <3>1. t <= made
        BY <1>1, Zenon DEF QueueInv, UploadInv
      <3>2. \A u \in Tarballs : u > made => u # t
        BY <3>1, Numbered, Zenon DEF QueueShape, UploadInv, Shape
      <3> QED  BY <1>1, <3>2, Zenon DEF QueueInv, UploadInv
    <2>3. \A u \in Holders' : upload'[u] # "unset" /\ packing'[u] \subseteq tarFileSets'[u]
      <3>1. upload'[t] # "unset" /\ packing'[t] \subseteq tarFileSets'[t]
        BY <1>1, <1>3, Zenon
      <3>2. \A u \in Holders : u \in Tarballs \ {t} /\ packing[u] \subseteq tarFileSets[u]
        BY <1>1, Zenon DEF QueueInv, QueueShape, UploadInv, Shape
      <3> QED  BY <1>1, <1>3, <3>1, <3>2, Zenon DEF QueueInv, UploadInv
    <2>4. composer = "regular" => \A u \in Holders' : \A f, g \in packing'[u] : f = g
      BY <1>1 DEF QueueInv, UploadInv
    <2>5. mutex # NoTar => mutex \in Holders' /\ packing'[mutex] = {} /\ upload'[mutex] # "open"
      BY <1>1, Zenon DEF QueueInv, QueueShape, UploadInv, Shape
    <2> QED  BY <1>1, <2>1, <2>2, <2>3, <2>4, <2>5, Zenon DEF QueueInv
  <1>5. TarballsConserved'
    <2>1. Cardinality(Holders) \in Nat /\ Len(fillQueue) \in Nat /\ taken \in Nat /\ errors \in Nat
      BY PackersCounted, ElemsIn DEF RecordShape, FlowShape, UploadInv, Shape
    <2> QED  BY <1>1, <2>1, QueueAssumption DEF TarballsConserved, UploadInv, Shape
  <1> QED  BY <1>2, <1>4, <1>5, Zenon DEF Conservation

\* A tarball leaves the fill queue and returns.
LEMMA QueuePutBack ==
    ASSUME UploadInv, fillQueue # <<>>, NEW t, t = Head(fillQueue), fillQueue' = Append(Tail(fillQueue), t),
           upload' = SetUp(t), NEW hs, tarFileSets' = [tarFileSets EXCEPT ![t] = @ \cup hs],
           UNCHANGED <<uploadQueue, made, mutex, packing, composer, taken, errors>>, main # "dead"
    PROVE  Conservation'
  <1>1. /\ t \in Tarballs /\ t \in Elems(fillQueue)
        /\ fillQueue' \in Seq(Tarballs) /\ Len(fillQueue') = Len(fillQueue)
        /\ Elems(fillQueue') = Elems(fillQueue) /\ Distinct(fillQueue')
        /\ upload' \in [Tarballs -> {"unset", "open", "closed", "stored"}]
        /\ upload'[t] = (IF upload[t] = "unset" THEN "open" ELSE upload[t])
        /\ \A u \in Tarballs \ {t} : upload'[u] = upload[u]
    BY PutBack, Zenon DEF UploadInv, Shape
  <1>2. Holders' = Holders
    BY Zenon DEF Holders
  <1>3. QueueShape'
    BY <1>1, <1>2, Zenon DEF QueueShape, UploadInv, Shape
  <1>4. \A u \in Tarballs : tarFileSets[u] \subseteq tarFileSets'[u]
    BY DEF RecordShape, UploadInv, Shape
  <1>5. QueueInv'
    <2>1. t \notin Holders /\ t <= made
      BY <1>1, Zenon DEF QueueInv, UploadInv
    <2>2. \A u \in Tarballs : u > made => upload'[u] = "unset"
      <3>1. \A u \in Tarballs : u > made => u # t
        BY <1>1, <2>1, Numbered, Zenon DEF QueueShape, UploadInv, Shape
      <3> QED  BY <1>1, <3>1, Zenon DEF QueueInv, UploadInv
    <2>3. \A u \in Holders : upload'[u] = upload[u] /\ packing[u] \subseteq tarFileSets'[u]
      BY <1>1, <1>4, <2>1, Zenon DEF QueueInv, QueueShape, UploadInv, Shape
    <2>4. /\ Distinct(fillQueue') /\ Elems(fillQueue') \cap Holders' = {}
          /\ \A u \in Elems(fillQueue') \cup Holders' : u <= made'
      BY <1>1, <1>2, Zenon DEF QueueInv, UploadInv
    <2>5. \A u \in Holders' : upload'[u] # "unset" /\ packing'[u] \subseteq tarFileSets'[u]
      BY <1>2, <2>3, Zenon DEF QueueInv, UploadInv
    <2>6. composer' = "regular" => \A u \in Holders' : \A f, g \in packing'[u] : f = g
      BY <1>2, Zenon DEF QueueInv, UploadInv
    <2>7. mutex' # NoTar => mutex' \in Holders' /\ packing'[mutex'] = {} /\ upload'[mutex'] # "open"
      BY <1>2, <2>3, Zenon DEF QueueInv, UploadInv
    <2> QED  BY <2>2, <2>4, <2>5, <2>6, <2>7, Zenon DEF QueueInv
  <1>6. TarballsConserved'
    BY <1>1, <1>2, Zenon DEF TarballsConserved, UploadInv
  <1> QED  BY <1>3, <1>5, <1>6, Zenon DEF Conservation

\* A packer packs a file, and perhaps puts its tarball back.
LEMMA QueuePacked ==
    ASSUME UploadInv, NEW t \in Tarballs, PackFileIntoTar(t)
    PROVE  Conservation'
  <1>1. PICK f \in packing[t] :
          \/ EnqueueBack(t) /\ packing' = Release(t)
          \/ UNCHANGED queueVars /\ packing' = Hand(t, packing[t] \ {f})
    BY Zenon DEF PackFileIntoTar
  <1>2. t \in Holders /\ t # mutex /\ main # "dead"
        /\ UNCHANGED <<main, errors, tarFileSets, composer, taken>>
    BY <1>1 DEF PackFileIntoTar, QueueInv, ratingVars, finishVars, Tarballs, NoTar, UploadInv
  <1>3. Cardinality(Holders) \in Nat /\ Len(fillQueue) \in Nat /\ taken \in Nat /\ errors \in Nat
    BY PackersCounted, ElemsIn, Zenon DEF QueueShape, RecordShape, FlowShape, UploadInv, Shape
  <1>4. CASE EnqueueBack(t) /\ packing' = Release(t)
    <2>1. /\ fillQueue' \in Seq(Tarballs) /\ Len(fillQueue') = Len(fillQueue) + 1
          /\ Elems(fillQueue') = Elems(fillQueue) \cup {t} /\ Distinct(fillQueue')
          /\ Holders' = Holders \ {t} /\ Cardinality(Holders') = Cardinality(Holders) - 1
          /\ \A u \in Holders' : packing'[u] = packing[u]
      BY <1>2, <1>4, GivenBack, Zenon DEF EnqueueBack, UploadInv, Shape
    <2>2. UNCHANGED <<uploadQueue, made, upload, mutex>>
      BY <1>4, Zenon DEF EnqueueBack
    <2>3. QueueShape'
      <3>1. packing' = [u \in Holders' |-> packing'[u]]
        BY <1>4, <2>1, Zenon DEF Release, Holders
      <3>2. packing' \in [Holders' -> SUBSET Files]
        BY <2>1, <3>1, Zenon DEF QueueShape, UploadInv, Shape
      <3> QED  BY <2>1, <2>2, <3>2, Zenon DEF QueueShape, UploadInv, Shape
    <2>4. QueueInv'
      <3>1. Elems(fillQueue') \cap Holders' = {} /\ \A u \in Elems(fillQueue') \cup Holders' : u <= made
        BY <1>2, <2>1, Zenon DEF QueueInv, UploadInv
      <3>2. mutex # NoTar => mutex \in Holders' /\ packing'[mutex] = {} /\ upload[mutex] # "open"
        BY <1>2, <2>1, Zenon DEF QueueInv, UploadInv, Shape
      <3> QED  BY <1>2, <2>1, <2>2, <3>1 DEF QueueInv, UploadInv
    <2>5. TarballsConserved'
      BY <1>2, <1>3, <2>1 DEF TarballsConserved, UploadInv
    <2> QED  BY <2>3, <2>4, <2>5, Zenon DEF Conservation, UploadInv
  <1>5. CASE UNCHANGED queueVars /\ packing' = Hand(t, packing[t] \ {f})
    <2>1. /\ Holders' = Holders /\ packing'[t] = packing[t] \ {f}
          /\ \A u \in Holders \ {t} : packing'[u] = packing[u]
          /\ packing' = [u \in Holders' |-> packing'[u]]
      BY <1>2, <1>5, Zenon DEF Hand, Holders
    <2>2. QueueShape'
      <3>1. packing' \in [Holders' -> SUBSET Files]
        BY <1>2, <2>1, Zenon DEF QueueShape, UploadInv, Shape
      <3> QED  BY <1>5, <2>1, <3>1, Zenon DEF QueueShape, queueVars, UploadInv, Shape
    <2>3. QueueInv'
      <3>1. \A u \in Holders : packing'[u] \subseteq packing[u]
        BY <2>1, Zenon
      <3>2. \A u \in Holders : packing'[u] \subseteq tarFileSets[u]
        BY <3>1, Zenon DEF QueueInv, UploadInv
      <3>3. composer = "regular" => \A u \in Holders : \A g, h \in packing'[u] : g = h
        BY <3>1, Zenon DEF QueueInv, UploadInv
      <3>4. mutex # NoTar => packing'[mutex] = {}
        BY <3>1, Zenon DEF QueueInv, UploadInv
      <3> QED  BY <1>2, <1>5, <2>1, <3>3, Zenon DEF QueueInv, queueVars, UploadInv
    <2>4. TarballsConserved'
      BY <1>2, <1>5, <2>1, Zenon DEF TarballsConserved, queueVars, UploadInv
    <2> QED  BY <2>2, <2>3, <2>4, Zenon DEF Conservation
  <1> QED  BY <1>1, <1>4, <1>5, Zenon DEF UploadInv, Shape

\* A packer fails: its tarball is lost, or the process dies.
LEMMA QueuePackError ==
    ASSUME UploadInv, NEW t \in Tarballs, PackFileError(t)
    PROVE  Conservation'
  <1>1. /\ t \in Holders /\ t # mutex /\ main # "dead" /\ errors' = errors + 1
        /\ UNCHANGED <<queueVars, tarFileSets, composer, taken>> /\ packing' = Release(t)
        /\ main' = IF composer = "regular" THEN main ELSE "dead"
    BY DEF PackFileError, QueueInv, ratingVars, finishVars, Tarballs, NoTar, UploadInv
  <1>2. /\ Holders' = Holders \ {t} /\ packing' = [u \in Holders' |-> packing'[u]]
        /\ \A u \in Holders' : packing'[u] = packing[u]
    BY <1>1, Zenon DEF Release, Holders
  <1>3. QueueShape'
    <2>1. packing' \in [Holders' -> SUBSET Files]
      BY <1>2, Zenon DEF QueueShape, UploadInv, Shape
    <2> QED  BY <1>1, <1>2, Zenon DEF QueueShape, queueVars, UploadInv, Shape
  <1>4. QueueInv'
    BY <1>1, <1>2 DEF QueueInv, queueVars, UploadInv, Shape
  <1>5. TarballsConserved'
    <2>1. Cardinality(Holders) \in Nat /\ Len(fillQueue) \in Nat /\ taken \in Nat /\ errors \in Nat
          /\ Cardinality(Holders') = Cardinality(Holders) - 1
      BY <1>1, <1>2, PackersCounted, SMTT(20) DEF RecordShape, FlowShape, UploadInv, Shape
    <2>2. Len(fillQueue) + Cardinality(Holders') + taken + errors'
            = Len(fillQueue) + Cardinality(Holders) + taken + errors
      <3>1. errors' = errors + 1
        BY <1>1, Zenon
      <3> QED  BY <2>1, <3>1
    <2> QED  BY <1>1, <2>2, Zenon DEF TarballsConserved, queueVars, UploadInv
  <1> QED  BY <1>3, <1>4, <1>5, Zenon DEF Conservation

\* A packer replaces its tarball by a new one.
LEMMA QueueFinished ==
    ASSUME UploadInv, NEW t \in Tarballs, FinishTarBall(t)
    PROVE  Conservation'
  <1>1. t \in Holders /\ packing[t] = {} /\ main # "dead" /\ t # NoTar
        /\ UNCHANGED <<main, errors, tarFileSets, composer, taken>>
    BY SMTT(20) DEF FinishTarBall, ratingVars, finishVars, Tarballs, NoTar
  <1>2. Cardinality(Holders) \in Nat /\ Len(fillQueue) \in Nat /\ taken \in Nat /\ errors \in Nat
    BY PackersCounted, ElemsIn, Zenon DEF QueueShape, RecordShape, FlowShape, UploadInv, Shape
  <1>3. CASE FinishTarBallClose(t) /\ UNCHANGED packing
    <2>1. /\ mutex' = t /\ upload' = [upload EXCEPT ![t] = "closed"] /\ UNCHANGED <<fillQueue, made, packing>>
          /\ uploadQueue' \in Seq(Tarballs) /\ Holders' = Holders
      BY <1>3, SentTo, Zenon DEF FinishTarBallClose, QueueShape, Holders, UploadInv, Shape
    <2>2. QueueShape'
      BY <1>1, <2>1, Zenon DEF QueueShape, UploadInv, Shape
    <2>3. t <= made /\ \A u \in Tarballs : u <= made \/ u > made
      BY <1>1, Numbered, Zenon DEF QueueInv, QueueShape, UploadInv, Shape
    <2>4. QueueInv'
      <3>1. \A u \in Tarballs : u > made => upload'[u] = "unset"
        <4>1. \A u \in Tarballs : u > made => u # t
          BY <2>3, Numbered, Zenon DEF QueueShape, UploadInv, Shape
        <4>2. \A u \in Tarballs : u # t => upload'[u] = upload[u]
          BY <2>1, Zenon DEF QueueShape, UploadInv, Shape
        <4> QED  BY <4>1, <4>2, Zenon DEF QueueInv, UploadInv
      <3>2. \A u \in Holders : upload'[u] # "unset"
        BY <2>1 DEF QueueInv, UploadInv
      <3>3. upload'[t] = "closed"
        BY <2>1, Zenon DEF QueueShape, UploadInv, Shape
      <3>4. /\ Distinct(fillQueue') /\ Elems(fillQueue') \cap Holders' = {}
            /\ \A u \in Elems(fillQueue') \cup Holders' : u <= made'
            /\ \A u \in Holders' : packing'[u] \subseteq tarFileSets'[u]
            /\ composer' = "regular" => \A u \in Holders' : \A f, g \in packing'[u] : f = g
        BY <1>1, <2>1, Zenon DEF QueueInv, UploadInv
      <3>5. mutex' # NoTar => mutex' \in Holders' /\ packing'[mutex'] = {} /\ upload'[mutex'] # "open"
        BY <1>1, <2>1, <3>3, Zenon
      <3> QED  BY <2>1, <3>1, <3>2, <3>4, <3>5, Zenon DEF QueueInv
    <2>5. TarballsConserved'
      BY <1>1, <2>1, Zenon DEF TarballsConserved, UploadInv, Shape
    <2> QED  BY <2>2, <2>4, <2>5, Zenon DEF Conservation
  <1>4. CASE FinishTarBallAwait /\ UNCHANGED packing
    <2>1. /\ UNCHANGED <<fillQueue, made, upload, mutex, packing>> /\ uploadQueue' \in Seq(Tarballs)
          /\ Holders' = Holders
      BY <1>4, QueueAssumption, SMTT(20) DEF FinishTarBallAwait, QueueShape, Holders, UploadInv, Shape
    <2>2. QueueShape' /\ QueueInv'
      BY <1>1, <2>1, Zenon DEF QueueShape, QueueInv, UploadInv, Shape
    <2>3. TarballsConserved'
      BY <1>1, <2>1, Zenon DEF TarballsConserved, UploadInv, Shape
    <2> QED  BY <2>2, <2>3, Zenon DEF Conservation
  <1>5. CASE FinishTarBallRefill(t) /\ packing' = Release(t)
    <2>1. /\ mutex = t /\ mutex' = NoTar /\ made' = made + 1 /\ made + 1 \in Tarballs /\ made \in Nat
          /\ fillQueue' = Append(fillQueue, made + 1) /\ UNCHANGED <<uploadQueue, upload>>
          /\ made' \in 0 .. MaxTarballs
      <3>1. /\ mutex = t /\ mutex' = NoTar /\ made' = made + 1 /\ made < MaxTarballs
            /\ fillQueue' = Append(fillQueue, made + 1) /\ UNCHANGED <<uploadQueue, upload>>
        BY <1>5, Zenon DEF FinishTarBallRefill
      <3> QED  BY <3>1, Numbered, Zenon DEF QueueShape, UploadInv, Shape
    <2>2. /\ fillQueue' \in Seq(Tarballs) /\ Len(fillQueue') = Len(fillQueue) + 1
          /\ Elems(fillQueue') = Elems(fillQueue) \cup {made + 1} /\ Distinct(fillQueue')
          /\ made + 1 \notin Holders'
          /\ Holders' = Holders \ {t} /\ Cardinality(Holders') = Cardinality(Holders) - 1
          /\ \A u \in Holders' : packing'[u] = packing[u]
      <3>1. made + 1 > made
        BY Numbered, Zenon DEF QueueShape, UploadInv, Shape
      <3> QED  BY <1>1, <1>5, <2>1, GivenBack DEF UploadInv, Shape
    <2>3. QueueShape'
      <3>1. packing' = [u \in Holders' |-> packing'[u]]
        BY <1>5, <2>2, Zenon DEF Release, Holders, UploadInv, Shape
      <3>2. packing' \in [Holders' -> SUBSET Files]
        BY <2>2, <3>1, Zenon DEF QueueShape, UploadInv, Shape
      <3> QED  BY <2>1, <2>2, <3>2, Zenon DEF QueueShape, UploadInv, Shape
    <2>4. QueueInv'
      <3>1. Elems(fillQueue) \subseteq Tarballs /\ Holders \subseteq Tarballs /\ \A u \in Tarballs : u \in Nat
        BY ElemsIn, Numbered, Zenon DEF QueueShape, UploadInv, Shape
      <3>2. \A u \in Elems(fillQueue') \cup Holders' : u <= made'
        <4>1. \A u \in Elems(fillQueue) \cup Holders : u <= made + 1
          BY <3>1, Numbered, Zenon DEF QueueInv, QueueShape, UploadInv, Shape
        <4>2. made + 1 <= made + 1
          BY Numbered, Zenon DEF QueueShape, UploadInv, Shape
        <4> QED  BY <2>1, <2>2, <4>1, <4>2, Zenon
      <3>3. \A u \in Tarballs : u > made' => upload'[u] = "unset"
        <4>1. \A u \in Tarballs : u > made + 1 => u > made
          BY Numbered, Zenon DEF QueueShape, UploadInv, Shape
        <4> QED  BY <2>1, <4>1, Zenon DEF QueueInv, UploadInv
      <3>4. Elems(fillQueue') \cap Holders' = {}
        BY <2>2, Zenon DEF QueueInv, UploadInv
      <3>5. \A u \in Holders' : upload'[u] # "unset" /\ packing'[u] \subseteq tarFileSets'[u]
        BY <1>1, <2>1, <2>2, Zenon DEF QueueInv, UploadInv
      <3>6. composer' = "regular" => \A u \in Holders' : \A f, g \in packing'[u] : f = g
        <4>1. \A u \in Holders' : u \in Holders /\ packing'[u] = packing[u]
          BY <2>2, Zenon
        <4>2. composer = "regular" => \A u \in Holders : \A f, g \in packing[u] : f = g
          BY Zenon DEF QueueInv, UploadInv
        <4> QED  BY <1>1, <4>1, <4>2, Zenon
      <3> QED  BY <2>1, <2>2, <3>2, <3>3, <3>4, <3>5, <3>6, Zenon DEF QueueInv
    <2>5. TarballsConserved'
      BY <1>1, <1>2, <2>2, QueueAssumption DEF TarballsConserved, UploadInv
    <2> QED  BY <2>3, <2>4, <2>5, Zenon DEF Conservation
  <1> QED  BY <1>3, <1>4, <1>5, Zenon DEF FinishTarBall

\* FinishQueue takes tarballs out and awaits the upload queue.
LEMMA QueueTaken ==
    ASSUME UploadInv, FinishQueue
    PROVE  Conservation'
  <1>1. main = "finish" /\ main' # "dead" /\ UNCHANGED <<errors, packing, tarFileSets, composer>>
        /\ Holders' = Holders
    BY Zenon DEF FinishQueue, packVars, ratingVars, Holders
  <1>2. ASSUME NEW t \in Tarballs, FinishQueueTake(t), taken' = taken + 1
        PROVE  Conservation'
    <2>1. /\ t \in Elems(fillQueue)
          /\ fillQueue' \in Seq(Tarballs) /\ Len(fillQueue') = Len(fillQueue) - 1
          /\ Elems(fillQueue') = Elems(fillQueue) \ {t} /\ Distinct(fillQueue')
          /\ upload' \in [Tarballs -> {"unset", "open", "closed", "stored"}]
          /\ upload'[t] = (IF upload[t] = "open" THEN "closed" ELSE upload[t])
          /\ \A u \in Tarballs \ {t} : upload'[u] = upload[u]
          /\ UNCHANGED <<uploadQueue, made, mutex>>
      BY <1>2, TakenOut, Zenon DEF UploadInv, Shape
    <2>2. QueueShape'
      BY <1>1, <2>1, Zenon DEF QueueShape, UploadInv, Shape
    <2>3. QueueInv'
      <3>1. t \notin Holders
        BY <2>1, Zenon DEF QueueInv, UploadInv
      <3>2. \A u \in Holders : upload'[u] = upload[u]
        BY <2>1, <3>1, Zenon DEF QueueShape, UploadInv, Shape
      <3>3. \A u \in Tarballs : upload[u] = "unset" => upload'[u] = "unset"
        BY <2>1, Zenon
      <3>4. /\ Distinct(fillQueue') /\ Elems(fillQueue') \cap Holders' = {}
            /\ \A u \in Elems(fillQueue') \cup Holders' : u <= made'
        BY <1>1, <2>1, Zenon DEF QueueInv, UploadInv
      <3>5. /\ \A u \in Tarballs : u > made' => upload'[u] = "unset"
            /\ \A u \in Holders' : upload'[u] # "unset" /\ packing'[u] \subseteq tarFileSets'[u]
        BY <1>1, <2>1, <3>2, <3>3, Zenon DEF QueueInv, UploadInv
      <3>6. /\ composer' = "regular" => \A u \in Holders' : \A f, g \in packing'[u] : f = g
            /\ mutex' # NoTar => mutex' \in Holders' /\ packing'[mutex'] = {} /\ upload'[mutex'] # "open"
        BY <1>1, <2>1, <3>2, ZenonT(30) DEF QueueInv, UploadInv
      <3> QED  BY <3>4, <3>5, <3>6, <2>1, Zenon DEF QueueInv
    <2>4. TarballsConserved'
      <3>1. Cardinality(Holders) \in Nat /\ Len(fillQueue) \in Nat /\ taken \in Nat /\ errors \in Nat
        BY PackersCounted, ElemsIn DEF RecordShape, FlowShape, UploadInv, Shape
      <3>2. Len(fillQueue') + Cardinality(Holders') + taken' = Len(fillQueue) + Cardinality(Holders) + taken
        BY <1>1, <1>2, <2>1, <3>1
      <3> QED  BY <1>1, <3>2, Zenon DEF TarballsConserved, UploadInv
    <2> QED  BY <2>2, <2>3, <2>4, Zenon DEF Conservation
  <1>3. CASE FinishQueueDrain /\ UNCHANGED taken
    <2>1. UNCHANGED <<fillQueue, made, upload, mutex>> /\ uploadQueue' \in Seq(Tarballs)
      BY <1>3, SMTT(20) DEF FinishQueueDrain, QueueShape, UploadInv, Shape
    <2>2. QueueShape' /\ QueueInv'
      BY <1>1, <2>1, Zenon DEF QueueShape, QueueInv, UploadInv, Shape
    <2>3. TarballsConserved'
      BY <1>1, <1>3, <2>1, Zenon DEF TarballsConserved, UploadInv
    <2> QED  BY <2>2, <2>3, Zenon DEF Conservation
  <1>4. CASE UNCHANGED <<queueVars, taken>>
    BY <1>1, <1>4, QueueKept, Zenon
  <1> QED  BY <1>2, <1>3, <1>4, Zenon DEF FinishQueue

\* A part that does not go through the queue has the next number, and an upload that
\* ends changes no queue.
LEMMA QueueUploads ==
    ASSUME UploadInv, main # "dead", UNCHANGED <<packing, tarFileSets, composer, taken, errors>>,
           UploadSeparatePart \/ \E t \in Tarballs : FinishUpload(t)
    PROVE  Conservation'
  <1>1. Holders' = Holders
    BY Zenon DEF Holders
  <1>2. \A u \in Tarballs : u \in Nat
    BY QueueAssumption DEF Tarballs
  <1>3. CASE UploadSeparatePart
    <2>1. /\ made' = made + 1 /\ made + 1 \in Tarballs /\ made \in Nat /\ made' \in 0 .. MaxTarballs
          /\ upload' = [upload EXCEPT ![made + 1] = "closed"] /\ UNCHANGED <<fillQueue, uploadQueue, mutex>>
      BY <1>3, QueueAssumption DEF UploadSeparatePart, QueueShape, Tarballs, UploadInv, Shape
    <2>2. QueueShape'
      BY <1>1, <2>1, Zenon DEF QueueShape, UploadInv, Shape
    <2>3. QueueInv'
      <3>1. Elems(fillQueue) \subseteq Tarballs /\ Holders \subseteq Tarballs
        BY ElemsIn, Zenon DEF QueueShape, UploadInv, Shape
      <3>2. \A u \in Elems(fillQueue) \cup Holders : u <= made + 1 /\ u # made + 1
        BY <3>1, Numbered, Zenon DEF QueueInv, QueueShape, UploadInv, Shape
      <3>3. \A u \in Tarballs : u # made + 1 => upload'[u] = upload[u]
        BY <2>1, Zenon DEF QueueShape, UploadInv, Shape
      <3>4. \A u \in Tarballs : u > made + 1 => upload'[u] = "unset"
        <4>1. \A u \in Tarballs : u > made + 1 => u > made /\ u # made + 1
          BY Numbered, Zenon DEF QueueShape, UploadInv, Shape
        <4> QED  BY <3>3, <4>1, Zenon DEF QueueInv, UploadInv
      <3>5. \A u \in Holders : upload'[u] = upload[u]
        BY <3>1, <3>2, <3>3, Zenon
      <3>6. /\ Distinct(fillQueue') /\ Elems(fillQueue') \cap Holders' = {}
            /\ \A u \in Elems(fillQueue') \cup Holders' : u <= made'
            /\ \A u \in Holders' : upload'[u] # "unset" /\ packing'[u] \subseteq tarFileSets'[u]
        BY <1>1, <2>1, <3>2, <3>5, Zenon DEF QueueInv, UploadInv
      <3>7. /\ composer' = "regular" => \A u \in Holders' : \A f, g \in packing'[u] : f = g
            /\ mutex' # NoTar => mutex' \in Holders' /\ packing'[mutex'] = {} /\ upload'[mutex'] # "open"
        BY <1>1, <2>1, <3>5, Zenon DEF QueueInv, UploadInv
      <3> QED  BY <2>1, <3>4, <3>6, <3>7, Zenon DEF QueueInv
    <2>4. TarballsConserved'
      BY <1>1, <2>1, Zenon DEF TarballsConserved, UploadInv
    <2> QED  BY <2>2, <2>3, <2>4, Zenon DEF Conservation, UploadInv
  <1>4. ASSUME NEW t \in Tarballs, FinishUpload(t) PROVE Conservation'
    <2>1. /\ upload[t] = "closed" /\ upload' = [upload EXCEPT ![t] = "stored"]
          /\ UNCHANGED <<fillQueue, uploadQueue, made, mutex>>
      BY <1>4, Zenon DEF FinishUpload
    <2>2. QueueShape'
      BY <1>1, <2>1, Zenon DEF QueueShape, UploadInv, Shape
    <2>3. \A u \in Tarballs : (upload'[u] = "unset" <=> upload[u] = "unset") /\ (upload'[u] = "open" <=> upload[u] = "open")
      <3>1. \A u \in Tarballs \ {t} : upload'[u] = upload[u]
        BY <2>1, Zenon DEF QueueShape, UploadInv, Shape
      <3>2. upload'[t] = "stored"
        BY <2>1, Zenon DEF QueueShape, UploadInv, Shape
      <3> QED  BY <2>1, <3>1, <3>2, Zenon
    <2>4. QueueInv'
      <3>1. /\ Distinct(fillQueue') /\ Elems(fillQueue') \cap Holders' = {}
            /\ \A u \in Elems(fillQueue') \cup Holders' : u <= made'
            /\ \A u \in Tarballs : u > made' => upload'[u] = "unset"
        BY <1>1, <2>1, <2>3, Zenon DEF QueueInv, UploadInv
      <3>2. \A u \in Holders' : upload'[u] # "unset" /\ packing'[u] \subseteq tarFileSets'[u]
        BY <1>1, <2>3, Zenon DEF QueueInv, QueueShape, UploadInv, Shape
      <3>3. composer' = "regular" => \A u \in Holders' : \A f, g \in packing'[u] : f = g
        BY <1>1, Zenon DEF QueueInv, UploadInv
      <3>4. mutex # NoTar => mutex \in Tarballs /\ mutex \in Holders /\ packing[mutex] = {} /\ upload[mutex] # "open"
        BY Zenon DEF QueueInv, QueueShape, UploadInv, Shape
      <3>5. mutex' # NoTar => mutex' \in Holders' /\ packing'[mutex'] = {} /\ upload'[mutex'] # "open"
        BY <1>1, <2>1, <2>3, <3>4, Zenon
      <3> QED  BY <3>1, <3>2, <3>3, <3>5, Zenon DEF QueueInv
    <2>5. TarballsConserved'
      BY <1>1, <2>1, Zenon DEF TarballsConserved, UploadInv
    <2> QED  BY <2>2, <2>4, <2>5, Zenon DEF Conservation
  <1> QED  BY <1>3, <1>4, Zenon

\* Every step conserves the tarballs.
LEMMA QueueStep ==
    ASSUME UploadInv, Next
    PROVE  Conservation'
  <1> USE DEF packVars, ratingVars, finishVars
  <1>1. CASE Walk
    <2>1. PICK i \in Items : SkipFile(i) \/ AddFile(i) \/ AddHeader(i) \/ AddFileToQueue(i) \/ CollectHeader(i)
      BY <1>1, Zenon DEF Walk
    <2>2. CASE SkipFile(i) \/ AddFileToQueue(i) \/ CollectHeader(i)
      BY <2>2, QueueKept, Zenon DEF SkipFile, AddFileToQueue, CollectHeader
    <2>3. CASE AddFile(i)
      <3>1. main = "walk" /\ {i} \in SUBSET Files /\ UNCHANGED <<main, errors, composer, taken>>
        BY <2>3, Zenon DEF AddFile
      <3>2. CASE UNCHANGED <<queueVars, packing, tarFileSets>>
        BY <3>1, <3>2, QueueKept, Zenon
      <3>3. ASSUME NEW t \in Tarballs, Deque(t), packing' = Hand(t, {i}),
                   tarFileSets' = [tarFileSets EXCEPT ![t] = @ \cup {i}]
            PROVE  Conservation'
        BY <3>1, <3>3, QueueHandedOut, Zenon
      <3> QED  BY <2>3, <3>2, <3>3, Zenon DEF AddFile
    <2>4. CASE AddHeader(i)
      <3>1. main = "walk" /\ UNCHANGED <<errors, composer, taken, packing>>
        BY <2>4, Zenon DEF AddHeader
      <3>2. CASE UNCHANGED <<queueVars, packVars>>
        BY <3>1, <3>2, QueueKept, Zenon
      <3>3. CASE ~UNCHANGED <<queueVars, packVars>>
        BY <2>4, <3>1, <3>3, QueuePutBack, Zenon DEF AddHeader
      <3> QED  BY <3>2, <3>3, Zenon
    <2> QED  BY <2>1, <2>2, <2>3, <2>4, Zenon
  <1>2. CASE EndWalk \/ AwaitPackers \/ AwaitWorkers \/ \E f \in Files : ComposeFile(f)
    BY <1>2, QueueKept, Zenon DEF EndWalk, AwaitPackers, AwaitWorkers, ComposeFile
  <1>3. CASE WriteHeaders
    BY <1>3, QueuePutBack, Zenon DEF WriteHeaders
  <1>4. CASE StartPackers
    <2>1. main = "start" /\ composer # "regular" /\ UNCHANGED <<errors, composer, taken>> /\ main' # "dead"
      BY <1>4, Zenon DEF StartPackers, UploadInv, MainInv
    <2>2. CASE collections = <<>>
      BY <1>4, <2>1, <2>2, QueueKept, Zenon DEF StartPackers
    <2>3. CASE collections # <<>>
      <3>1. Head(collections) \in SUBSET Files
        BY <2>3 DEF UploadInv, Shape, RecordShape
      <3>2. PICK t \in Tarballs : /\ Deque(t) /\ packing' = Hand(t, Head(collections))
                                  /\ tarFileSets' = [tarFileSets EXCEPT ![t] = @ \cup Head(collections)]
        BY <1>4, <2>3, Zenon DEF StartPackers
      <3> QED  BY <2>1, <3>1, <3>2, QueueHandedOut, Zenon
    <2> QED  BY <2>2, <2>3, Zenon
  <1>5. CASE FinishQueue
    BY <1>5, QueueTaken, Zenon
  <1>6. CASE UploadPgControl \/ UploadLabelFiles
    <2>1. main # "dead" /\ UNCHANGED <<packing, tarFileSets, composer, taken, errors>>
          /\ (UploadSeparatePart \/ UNCHANGED queueVars)
      BY <1>6, Zenon DEF UploadPgControl, UploadLabelFiles
    <2> QED  BY <2>1, QueueKept, QueueUploads, Zenon
  <1>7. CASE UploaderFinish \/ UploadSentinel
    BY <1>7, QueueKept, Zenon DEF UploaderFinish, UploadSentinel
  <1>8. ASSUME NEW t \in Tarballs, Packer(t) \/ BackgroundUpload(t) \/ UploadFails(t)
        PROVE  Conservation'
    <2>1. CASE Packer(t)
      BY <2>1, QueuePacked, QueuePackError, QueueFinished, Zenon DEF Packer
    <2>2. CASE BackgroundUpload(t)
      BY <2>2, QueueUploads, Zenon DEF BackgroundUpload
    <2>3. CASE UploadFails(t)
      BY <2>3, QueueKept, Zenon DEF UploadFails
    <2> QED  BY <1>8, <2>1, <2>2, <2>3, Zenon
  <1>9. CASE AddFileWorker
    <2>1. composer # "regular"
      BY <1>9, Zenon DEF AddFileWorker, UploadInv, MainInv
    <2> QED  BY <1>9, <2>1, QueueKept, Zenon DEF AddFileWorker
  <1>10. CASE FatalOnError \/ Promote \/ Terminated
    BY <1>10, QueueKept, Zenon DEF FatalOnError, Promote, Terminated, vars
  <1>11. CASE Main
    BY <1>1, <1>2, <1>3, <1>4, <1>5, <1>6, <1>7, <1>11, ZenonT(30) DEF Main
  <1> QED  BY <1>8, <1>9, <1>10, <1>11, Zenon DEF Next

-----------------------------------------------------------------------------
(* The main goroutine *)

\* FinishQueue got as many tarballs as there are, so nobody else has one.
LEMMA NobodyLeft ==
    ASSUME UploadInv, main \in Ended \/ (main = "finish" /\ taken = ParallelTarballs)
    PROVE  Holders = {} /\ Elems(fillQueue) = {}
  <1>1. Cardinality(Holders) \in Nat /\ Len(fillQueue) \in Nat /\ taken \in Nat /\ errors \in Nat
    BY PackersCounted, ElemsIn DEF RecordShape, FlowShape, UploadInv, Shape
  <1>2. main # "dead" /\ taken = ParallelTarballs
    BY Zenon DEF MainInv, Ended, UploadInv
  <1>3. Cardinality(Holders) = 0 /\ Len(fillQueue) = 0
    BY <1>1, <1>2, QueueAssumption DEF TarballsConserved, UploadInv
  <1> QED  BY <1>3, PackersCounted, ElemsIn, ZenonT(30) DEF QueueShape, UploadInv, Shape

\* A step of the walk leaves the main goroutine where it can go on.
LEMMA MainWalk ==
    ASSUME UploadInv, Walk \/ EndWalk \/ AddFileWorker
    PROVE  MainInv'
  <1> USE DEF packVars, ratingVars, finishVars
  <1>1. CASE Walk
    <2>1. PICK i \in Items : SkipFile(i) \/ AddFile(i) \/ AddHeader(i) \/ AddFileToQueue(i) \/ CollectHeader(i)
      BY <1>1, Zenon DEF Walk
    <2>2. CASE SkipFile(i)
      BY <2>2, Zenon DEF SkipFile, UploadInv, MainInv, Failed, Ended
    <2>3. CASE AddFile(i)
      BY <2>3, Zenon DEF AddFile, UploadInv, MainInv, Ended
    <2>4. CASE AddHeader(i)
      BY <2>4, Zenon DEF AddHeader, UploadInv, MainInv, Failed, Late, Ended
    <2>5. CASE AddFileToQueue(i)
      BY <2>5, Zenon DEF AddFileToQueue, UploadInv, MainInv, Failed, Ended
    <2>6. CASE CollectHeader(i)
      BY <2>6, Zenon DEF CollectHeader, UploadInv, MainInv, Failed, Ended
    <2> QED  BY <2>1, <2>2, <2>3, <2>4, <2>5, <2>6, ZenonT(30)
  <1>2. CASE EndWalk
    BY <1>2, Zenon DEF EndWalk, UploadInv, FlowShape, MainInv, Failed, Late, Ended
  <1>3. CASE AddFileWorker
    <2>1. composer = "rating" /\ main \notin Late /\ main' = main /\ errors' \in {errors, errors + 1}
          /\ (errors' = errors => UNCHANGED addFileWorkers)
      <3>1. addFileWorkers # 0
        BY <1>3 DEF AddFileWorker
      <3>2. main # "dead" /\ addFileQueue # <<>> /\ main' = main /\ errors' \in {errors, errors + 1}
        BY <1>3, Zenon DEF AddFileWorker
      <3>3. composer = "rating" /\ main \notin Late
        BY <3>1, <3>2, Zenon DEF UploadInv, Shape, FlowShape, MainInv
      <3>4. errors + 1 # errors
        BY DEF UploadInv, Shape, FlowShape
      <3> QED  BY <1>3, <3>2, <3>3, <3>4, ZenonT(30) DEF AddFileWorker
    <2>2. /\ UNCHANGED <<queueVars, toWalk, packing, composer, collections, taken, closing, parts, timeline, sentinel>>
          /\ UNCHANGED <<uploadQueue, upload>> /\ Holders' = Holders
      BY <1>3, Zenon DEF AddFileWorker, queueVars, Holders
    <2>3. ~(errors' > 0) => ~(errors > 0) /\ errors' = errors
      BY <2>1 DEF UploadInv, Shape, FlowShape
    <2>4. ~Failed' => ~Failed /\ UNCHANGED addFileWorkers
      BY <2>1, <2>3, Zenon DEF Failed
    <2>5. Late' = Late /\ Ended' = Ended /\ main \notin Ended
      BY <2>1, Zenon DEF Late, Ended
    <2> QED  BY <2>1, <2>2, <2>4, <2>5, Zenon DEF UploadInv, MainInv, Late, Ended
  <1> QED  BY <1>1, <1>2, <1>3, Zenon

\* A step of PackTarballs, of either composer.
LEMMA MainPack ==
    ASSUME UploadInv, \/ AwaitPackers \/ AwaitWorkers \/ (\E f \in Files : ComposeFile(f))
                      \/ WriteHeaders \/ StartPackers
    PROVE  MainInv'
  <1> USE DEF packVars, ratingVars, finishVars
  <1>1. CASE AwaitPackers
    BY <1>1, Zenon DEF AwaitPackers, Holders, UploadInv, MainInv, Failed, Late, Ended
  <1>2. CASE AwaitWorkers
    <2>1. ~Failed => addFileQueue = <<>>
      BY <1>2, QueueAssumption, Zenon DEF AwaitWorkers, UploadInv, Shape, MainInv, Failed, Ended
    <2>2. <<{}>> # <<>>
      BY Zenon
    <2> QED  BY <1>2, <2>1, <2>2, Zenon DEF AwaitWorkers, UploadInv, MainInv, Failed, Late, Ended
  <1>3. ASSUME NEW f \in Files, ComposeFile(f) PROVE MainInv'
    <2>1. collections' # <<>>
      <3>1. collections \in Seq(SUBSET Files) /\ collections # <<>>
        BY <1>3, Zenon DEF ComposeFile, RecordShape, UploadInv, Shape, MainInv
      <3>2. Append(collections, {f}) # <<>>
        BY <3>1
      <3>3. DOMAIN [collections EXCEPT ![Len(collections)] = @ \cup {f}] = DOMAIN collections
        OBVIOUS
      <3>4. 1 \in DOMAIN collections /\ 1 \notin DOMAIN <<>>
        BY <3>1, SMTT(20)
      <3> QED  BY <1>3, <3>2, <3>3, <3>4, Zenon DEF ComposeFile
    <2> QED  BY <1>3, <2>1, Zenon DEF ComposeFile, UploadInv, MainInv, Failed, Late, Ended
  <1>4. CASE WriteHeaders
    BY <1>4, Zenon DEF WriteHeaders, UploadInv, MainInv, Failed, Late, Ended
  <1>5. CASE StartPackers
    BY <1>5, Zenon DEF StartPackers, UploadInv, MainInv, Failed, Late, Ended
  <1> QED  BY <1>1, <1>2, <1>3, <1>4, <1>5, Zenon

\* A step of the main goroutine after PackTarballs.
LEMMA MainFinish ==
    ASSUME UploadInv, FinishQueue \/ UploadPgControl \/ UploadLabelFiles \/ UploaderFinish \/ UploadSentinel
    PROVE  MainInv'
  <1> USE DEF packVars, ratingVars, finishVars
  <1>1. CASE FinishQueue
    <2>1. /\ main = "finish" /\ main' \in {"finish", "pgcontrol"}
          /\ UNCHANGED <<toWalk, errors, packing, composer, addFileQueue, addFileWorkers, collected, collections,
                         parts, timeline, sentinel>>
          /\ (main' = "pgcontrol" => taken' = ParallelTarballs /\ closing' = NoTar /\ uploadQueue' = <<>>)
      BY <1>1, Zenon DEF FinishQueue, queueVars
    <2> QED  BY <2>1, Zenon DEF Holders, UploadInv, MainInv, Failed, Late, Ended
  <1>2. CASE UploadPgControl
    BY <1>2, Zenon DEF UploadPgControl, UploadSeparatePart, Holders, UploadInv, MainInv, Failed, Late, Ended
  <1>3. CASE UploadLabelFiles
    <2>1. /\ main = "label" /\ main' \in {"failover", "await"}
          /\ (main' = "await" => ~(Replica /\ timeline = "changed")) /\ UNCHANGED uploadQueue
          /\ UNCHANGED <<toWalk, errors, packing, composer, addFileQueue, addFileWorkers, collected, collections,
                         taken, closing, timeline, sentinel>>
      BY <1>3, Zenon DEF UploadLabelFiles, UploadSeparatePart, CheckTimelineChanged, queueVars
    <2> QED  BY <2>1, Zenon DEF Holders, UploadInv, MainInv, Failed, Late, Ended
  <1>4. CASE UploaderFinish
    BY <1>4, Zenon DEF UploaderFinish, queueVars, Holders, UploadInv, MainInv, Failed, Late, Ended
  <1>5. CASE UploadSentinel
    BY <1>5, Zenon DEF UploadSentinel, queueVars, Holders, UploadInv, MainInv, Failed, Late, Ended
  <1> QED  BY <1>1, <1>2, <1>3, <1>4, <1>5, Zenon

\* Neither packers, uploads nor errors disturb where the main goroutine is.
LEMMA MainOthers ==
    ASSUME UploadInv, \/ \E t \in Tarballs : Packer(t) \/ BackgroundUpload(t) \/ UploadFails(t)
                      \/ FatalOnError \/ Promote \/ Terminated
    PROVE  MainInv'
  <1> USE DEF packVars, ratingVars, finishVars
  <1>1. ASSUME NEW t \in Tarballs, PackFileIntoTar(t) PROVE MainInv'
    <2>1. t \in Holders /\ main # "dead" /\ UNCHANGED <<main, toWalk, errors, ratingVars, finishVars>>
          /\ UNCHANGED <<uploadQueue, upload>>
      BY <1>1, Zenon DEF PackFileIntoTar, EnqueueBack, queueVars
    <2>2. main \notin Ended
      BY <2>1, NobodyLeft, ZenonT(30)
    <2> QED  BY <2>1, <2>2, Zenon DEF UploadInv, MainInv, Failed
  <1>2. ASSUME NEW t \in Tarballs, PackFileError(t) PROVE MainInv'
    <2>1. /\ t \in Holders /\ main # "dead" /\ errors' = errors + 1
          /\ main' = (IF composer = "regular" THEN main ELSE "dead")
          /\ UNCHANGED <<queueVars, toWalk, ratingVars, finishVars>>
      BY <1>2, Zenon DEF PackFileError
    <2>2. main \notin Ended
      BY <2>1, NobodyLeft, Zenon
    <2>3. composer = "regular" => main \notin Late
      BY <2>1, Zenon DEF UploadInv, MainInv
    <2> QED  BY <2>1, <2>2, <2>3, SMTT(20)
                DEF queueVars, Late, Ended, UploadInv, Shape, FlowShape, MainInv, Failed
  <1>3. ASSUME NEW t \in Tarballs, FinishTarBall(t) PROVE MainInv'
    <2>1. t \in Holders /\ main # "dead" /\ UNCHANGED <<main, toWalk, errors, ratingVars, finishVars>>
      BY <1>3, Zenon DEF FinishTarBall
    <2>2. main \notin Ended
      BY <2>1, NobodyLeft, Zenon
    <2> QED  BY <2>1, <2>2, Zenon DEF Late, Ended, UploadInv, FlowShape, MainInv, Failed
  <1>4. ASSUME NEW t \in Tarballs, BackgroundUpload(t) PROVE MainInv'
    <2>1. /\ UNCHANGED <<main, toWalk, errors, packing, ratingVars, finishVars, uploadQueue>>
          /\ upload' = [upload EXCEPT ![t] = "stored"]
      BY <1>4, Zenon DEF BackgroundUpload, FinishUpload
    <2>2. \A u \in Tarballs : upload[u] = "stored" => upload'[u] = "stored"
      BY <2>1, Zenon DEF UploadInv, Shape, QueueShape
    <2> QED  BY <2>1, <2>2, Zenon DEF Holders, RecordShape, UploadInv, Shape, FlowShape, MainInv, Failed
  <1>5. ASSUME NEW t \in Tarballs, UploadFails(t) PROVE MainInv'
    <2>1. upload[t] # "stored" /\ main' = "dead" /\ UNCHANGED <<toWalk, errors, ratingVars, finishVars>>
      BY <1>5, Zenon DEF UploadFails
    <2>2. ~sentinel
      <3> SUFFICES ASSUME sentinel PROVE FALSE
        OBVIOUS
      <3>1. /\ main = "done" /\ ~Failed /\ uploadQueue = <<>> /\ closing = NoTar
            /\ \A u \in parts : upload[u] = "stored"
        BY Zenon DEF UploadInv, MainInv, Late, Ended
      <3>2. Holders = {} /\ Elems(fillQueue) = {}
        BY <3>1, NobodyLeft, Zenon DEF Ended
      <3>3. Elems(uploadQueue) = {} /\ t # NoTar
        <4>1. \A u \in Tarballs : u # NoTar
          BY DEF NoTar, Tarballs
        <4>2. 1 .. Len(<<>>) = {}
          OBVIOUS
        <4> QED  BY <3>1, <4>1, <4>2, Zenon DEF Elems
      <3>4. upload[t] \in {"open", "closed"}
        BY <1>5, Zenon DEF UploadFails
      <3> QED  BY <2>1, <3>1, <3>2, <3>3, <3>4, Zenon DEF UploadInv, AwaitedInv
    <2> QED  BY <2>1, <2>2, Zenon DEF Late, Ended, UploadInv, Shape, MainInv, Failed
  <1>6. CASE FatalOnError
    BY <1>6, Zenon DEF FatalOnError, Late, Ended, UploadInv, Shape, MainInv, Failed
  <1>7. CASE Promote
    BY <1>7, Zenon DEF Promote, queueVars, Holders, UploadInv, MainInv, Failed
  <1>8. CASE Terminated
    BY <1>8, Zenon DEF Terminated, vars, queueVars, Holders, UploadInv, FlowShape, MainInv, Failed
  <1> QED  BY <1>1, <1>2, <1>3, <1>4, <1>5, <1>6, <1>7, <1>8, ZenonT(30) DEF Packer

-----------------------------------------------------------------------------
(* Uploads are awaited *)

\* A step that touches no upload.
LEMMA AwaitedKept ==
    ASSUME UploadInv, UNCHANGED <<queueVars, packing>>, closing' = closing, parts' = parts,
           main' # "dead" /\ ~Failed' => main # "dead" /\ ~Failed
    PROVE  AwaitedInv'
  BY Zenon DEF UploadInv, AwaitedInv, queueVars, Holders

\* A tarball that is opened, for a packer or for headers, is still held.
LEMMA AwaitedOpened ==
    ASSUME UploadInv, NEW t \in Tarballs,
           upload'[t] = (IF upload[t] = "unset" THEN "open" ELSE upload[t]),
           \A u \in Tarballs \ {t} : upload'[u] = upload[u],
           Elems(fillQueue') \cup Holders' = Elems(fillQueue) \cup Holders, t \in Elems(fillQueue) \cup Holders,
           UNCHANGED <<uploadQueue, closing, parts, errors>>, main # "dead"
    PROVE  AwaitedInv'
  BY Zenon DEF UploadInv, AwaitedInv, Failed

\* Every upload in progress is still awaited after a step.
LEMMA AwaitedStep ==
    ASSUME UploadInv, Next
    PROVE  AwaitedInv'
  <1> USE DEF packVars, ratingVars, finishVars
  <1>1. CASE Walk
    <2>1. PICK i \in Items : SkipFile(i) \/ AddFile(i) \/ AddHeader(i) \/ AddFileToQueue(i) \/ CollectHeader(i)
      BY <1>1, Zenon DEF Walk
    <2>2. CASE SkipFile(i) \/ AddFileToQueue(i) \/ CollectHeader(i)
      BY <2>2, AwaitedKept, Zenon DEF SkipFile, AddFileToQueue, CollectHeader, Failed
    <2>3. CASE AddFile(i)
      <3>1. main = "walk" /\ UNCHANGED <<main, errors, closing, parts>>
        BY <2>3, Zenon DEF AddFile
      <3>2. CASE UNCHANGED <<queueVars, packing, tarFileSets>>
        BY <3>1, <3>2, AwaitedKept, Zenon DEF Failed
      <3>3. ASSUME NEW t \in Tarballs, Deque(t), packing' = Hand(t, {i}) PROVE AwaitedInv'
        <4>1. /\ t \in Elems(fillQueue) /\ Elems(fillQueue') = Elems(fillQueue) \ {t}
              /\ Holders' = Holders \cup {t}
              /\ upload'[t] = (IF upload[t] = "unset" THEN "open" ELSE upload[t])
              /\ \A u \in Tarballs \ {t} : upload'[u] = upload[u]
              /\ UNCHANGED uploadQueue
          BY <3>3, HandedOut, Zenon DEF UploadInv, Shape
        <4> QED  BY <3>1, <4>1, AwaitedOpened, Zenon
      <3> QED  BY <2>3, <3>2, <3>3, Zenon DEF AddFile
    <2>4. CASE AddHeader(i)
      <3>1. main = "walk" /\ UNCHANGED <<errors, closing, parts, packing>>
        BY <2>4, Zenon DEF AddHeader
      <3>2. CASE UNCHANGED <<queueVars, packVars>>
        BY <3>1, <3>2, AwaitedKept, Zenon DEF Failed
      <3>3. CASE ~UNCHANGED <<queueVars, packVars>>
        <4>1. PICK t : /\ fillQueue # <<>> /\ t = Head(fillQueue) /\ fillQueue' = Append(Tail(fillQueue), t)
                       /\ upload' = SetUp(t) /\ UNCHANGED uploadQueue
          BY <2>4, <3>3, Zenon DEF AddHeader, Failed
        <4>2. /\ t \in Tarballs /\ t \in Elems(fillQueue) /\ Elems(fillQueue') = Elems(fillQueue)
              /\ upload'[t] = (IF upload[t] = "unset" THEN "open" ELSE upload[t])
              /\ \A u \in Tarballs \ {t} : upload'[u] = upload[u]
          BY <4>1, PutBack, Zenon DEF UploadInv, Shape
        <4>3. Holders' = Holders
          BY <3>1, Zenon DEF Holders
        <4> QED  BY <3>1, <4>1, <4>2, <4>3, AwaitedOpened, Zenon
      <3> QED  BY <3>2, <3>3, Zenon
    <2> QED  BY <2>1, <2>2, <2>3, <2>4, Zenon
  <1>2. CASE EndWalk \/ AwaitPackers \/ AwaitWorkers \/ \E f \in Files : ComposeFile(f)
    BY <1>2, AwaitedKept, Zenon DEF EndWalk, AwaitPackers, AwaitWorkers, ComposeFile, Failed
  <1>3. CASE WriteHeaders
    <2>1. /\ main = "compose" /\ UNCHANGED <<errors, closing, parts, packing, uploadQueue>>
          /\ fillQueue # <<>> /\ fillQueue' = Append(Tail(fillQueue), Head(fillQueue))
          /\ upload' = SetUp(Head(fillQueue))
      BY <1>3, Zenon DEF WriteHeaders
    <2>2. PICK t : t = Head(fillQueue)
      OBVIOUS
    <2>3. /\ t \in Tarballs /\ t \in Elems(fillQueue) /\ Elems(fillQueue') = Elems(fillQueue)
          /\ upload'[t] = (IF upload[t] = "unset" THEN "open" ELSE upload[t])
          /\ \A u \in Tarballs \ {t} : upload'[u] = upload[u]
      BY <2>1, <2>2, PutBack, Zenon DEF UploadInv, Shape, Failed
    <2>4. Holders' = Holders
      BY <2>1, Zenon DEF Holders
    <2> QED  BY <2>1, <2>3, <2>4, AwaitedOpened, Zenon DEF Failed
  <1>4. CASE StartPackers
    <2>1. main = "start" /\ UNCHANGED <<errors, closing, parts>>
      BY <1>4, Zenon DEF StartPackers
    <2>2. CASE collections = <<>>
      BY <1>4, <2>2, AwaitedKept, Zenon DEF StartPackers, Failed
    <2>3. CASE collections # <<>>
      <3>1. PICK t \in Tarballs : Deque(t) /\ packing' = Hand(t, Head(collections))
        BY <1>4, <2>3, Zenon DEF StartPackers, Failed
      <3>2. /\ t \in Elems(fillQueue) /\ Elems(fillQueue') = Elems(fillQueue) \ {t}
            /\ Holders' = Holders \cup {t}
            /\ upload'[t] = (IF upload[t] = "unset" THEN "open" ELSE upload[t])
            /\ \A u \in Tarballs \ {t} : upload'[u] = upload[u]
            /\ UNCHANGED uploadQueue
        BY <3>1, HandedOut, Zenon DEF UploadInv, Shape
      <3> QED  BY <2>1, <3>2, AwaitedOpened, Zenon DEF Failed
    <2> QED  BY <2>2, <2>3, Zenon DEF Failed
  <1>5. CASE FinishQueue
    <2>1. main = "finish" /\ UNCHANGED <<errors, packing, parts>> /\ Holders' = Holders
      BY <1>5, Zenon DEF FinishQueue, Holders
    <2>2. ASSUME NEW t \in Tarballs, FinishQueueTake(t), closing = NoTar,
                 closing' = IF upload[t] = "unset" THEN NoTar ELSE t
          PROVE  AwaitedInv'
      <3>1. /\ Elems(fillQueue') = Elems(fillQueue) \ {t}
            /\ upload'[t] = (IF upload[t] = "open" THEN "closed" ELSE upload[t])
            /\ \A u \in Tarballs \ {t} : upload'[u] = upload[u]
            /\ UNCHANGED uploadQueue
        BY <2>2, TakenOut, Zenon DEF Failed, UploadInv, Shape
      <3>2. ASSUME NEW u \in Tarballs, upload'[u] = "open", ~Failed
            PROVE  u \in Elems(fillQueue') \cup Holders'
        BY <2>1, <3>1, <3>2, Zenon DEF AwaitedInv, UploadInv, Shape
      <3>3. ASSUME NEW u \in Tarballs, upload'[u] = "closed"
            PROVE  u \in Elems(uploadQueue') \cup {closing'} \cup parts'
        <4>1. CASE u = t
          BY <2>2, <3>1, <3>3, <4>1, Zenon DEF UploadInv, Shape
        <4>2. CASE u # t
          <5>1. upload[u] = "closed" /\ u # closing
            BY <2>2, <3>1, <3>3, <4>2 DEF NoTar, Tarballs
          <5> QED  BY <2>1, <3>1, <5>1, Zenon DEF AwaitedInv, UploadInv, Shape
        <4> QED  BY <4>1, <4>2, Zenon
      <3> QED  BY <2>1, <3>2, <3>3, Zenon DEF AwaitedInv, Failed
    <2>3. CASE closing # NoTar /\ upload[closing] = "stored" /\ UNCHANGED queueVars
      BY <2>1, <2>3, Zenon DEF AwaitedInv, queueVars, Failed, UploadInv
    <2>4. CASE FinishQueueDrain /\ UNCHANGED closing
      <3>1. /\ uploadQueue # <<>> /\ upload[Head(uploadQueue)] = "stored" /\ uploadQueue' = Tail(uploadQueue)
            /\ UNCHANGED <<fillQueue, upload>>
        BY <2>4, Zenon DEF FinishQueueDrain
      <3>2. Elems(uploadQueue) = Elems(uploadQueue') \cup {Head(uploadQueue)}
        BY <3>1, Received, Zenon DEF QueueShape, UploadInv, Shape
      <3> QED  BY <2>1, <2>4, <3>1, <3>2, Zenon DEF AwaitedInv, Failed, UploadInv
    <2>5. CASE UNCHANGED <<queueVars, closing>>
      BY <2>1, <2>5, AwaitedKept, Zenon DEF Failed, UploadInv, Shape
    <2> QED  BY <1>5, <2>2, <2>3, <2>4, <2>5, Zenon DEF FinishQueue, Failed, UploadInv, Shape
  <1>6. CASE UploadPgControl \/ UploadLabelFiles
    <2>1. main # "dead" /\ UNCHANGED <<packing, errors, closing>> /\ Holders' = Holders
          /\ ((UploadSeparatePart /\ parts' = parts \cup {made'}) \/ UNCHANGED <<queueVars, parts>>)
      BY <1>6, Zenon DEF UploadPgControl, UploadLabelFiles, Holders
    <2>2. CASE UNCHANGED <<queueVars, parts>>
      BY <2>1, <2>2, AwaitedKept, Zenon DEF Failed
    <2>3. CASE UploadSeparatePart /\ parts' = parts \cup {made'}
      <3>1. /\ UNCHANGED <<fillQueue, uploadQueue>> /\ parts' = parts \cup {made + 1}
            /\ upload' = [upload EXCEPT ![made + 1] = "closed"]
        BY <2>3, Zenon DEF UploadSeparatePart
      <3>2. \A u \in Tarballs : u = made + 1 \/ upload'[u] = upload[u]
        BY <3>1
      <3>3. made + 1 \in Tarballs => upload'[made + 1] = "closed"
        BY <3>1, Zenon DEF UploadInv, Shape, QueueShape
      <3> QED  BY <2>1, <3>1, <3>3 DEF UploadInv, AwaitedInv, Failed
    <2> QED  BY <2>1, <2>2, <2>3, Zenon DEF Failed
  <1>7. CASE UploaderFinish \/ UploadSentinel
    BY <1>7, AwaitedKept, Zenon DEF UploaderFinish, UploadSentinel, Failed
  <1>8. ASSUME NEW t \in Tarballs, Packer(t) \/ BackgroundUpload(t) \/ UploadFails(t)
        PROVE  AwaitedInv'
    <2>1. CASE PackFileIntoTar(t)
      <3>1. t \in Holders /\ main # "dead" /\ UNCHANGED <<upload, uploadQueue, closing, parts, errors>>
            /\ (\/ EnqueueBack(t) /\ packing' = Release(t)
                \/ UNCHANGED queueVars /\ \E fs : packing' = Hand(t, fs))
        BY <2>1, Zenon DEF PackFileIntoTar, EnqueueBack, queueVars
      <3>2. Elems(fillQueue') \cup Holders' = Elems(fillQueue) \cup Holders
        <4>1. CASE EnqueueBack(t) /\ packing' = Release(t)
          BY <3>1, <4>1, GivenBack DEF EnqueueBack, UploadInv, Shape
        <4>2. CASE UNCHANGED queueVars /\ \E fs : packing' = Hand(t, fs)
          BY <3>1, <4>2, Zenon DEF queueVars, Hand, Holders
        <4> QED  BY <3>1, <4>1, <4>2, Zenon
      <3> QED  BY <3>1, <3>2, Zenon DEF AwaitedInv, Failed, UploadInv
    <2>2. CASE PackFileError(t)
      BY <2>2, SMTT(20) DEF PackFileError, AwaitedInv, queueVars, FlowShape, Failed, UploadInv, Shape
    <2>3. CASE FinishTarBall(t)
      <3>1. t \in Holders /\ main # "dead" /\ UNCHANGED <<main, errors, closing, parts>>
        BY <2>3, Zenon DEF FinishTarBall
      <3>2. CASE FinishTarBallClose(t) /\ UNCHANGED packing
        <4>1. /\ upload' = [upload EXCEPT ![t] = "closed"] /\ UNCHANGED fillQueue /\ Holders' = Holders
              /\ Elems(uploadQueue') = Elems(uploadQueue) \cup {t}
          BY <3>2, SentTo DEF FinishTarBallClose, QueueShape, Holders, Failed, UploadInv, Shape
        <4>2. upload'[t] = "closed" /\ \A u \in Tarballs \ {t} : upload'[u] = upload[u]
          BY <4>1, Zenon DEF QueueShape, UploadInv, Shape
        <4> QED  BY <3>1, <4>1, <4>2, Zenon DEF AwaitedInv, Failed, UploadInv, Shape
      <3>3. CASE FinishTarBallAwait /\ UNCHANGED packing
        <4>1. /\ uploadQueue # <<>> /\ upload[Head(uploadQueue)] = "stored" /\ uploadQueue' = Tail(uploadQueue)
              /\ UNCHANGED <<fillQueue, upload>> /\ Holders' = Holders
          BY <3>3, QueueAssumption DEF FinishTarBallAwait, Holders, Failed, UploadInv, Shape
        <4>2. Elems(uploadQueue) = Elems(uploadQueue') \cup {Head(uploadQueue)}
          BY <4>1, Received, Zenon DEF QueueShape, UploadInv, Shape
        <4> QED  BY <3>1, <4>1, <4>2, Zenon DEF AwaitedInv, Failed, UploadInv, Shape
      <3>4. CASE FinishTarBallRefill(t) /\ packing' = Release(t)
        <4>1. /\ mutex = t /\ UNCHANGED <<upload, uploadQueue>> /\ fillQueue' = Append(fillQueue, made + 1)
              /\ made + 1 \in Tarballs /\ made + 1 > made
          BY <3>4, QueueAssumption DEF FinishTarBallRefill, QueueShape, Tarballs, UploadInv, Shape
        <4>2. Elems(fillQueue') = Elems(fillQueue) \cup {made + 1} /\ Holders' = Holders \ {t}
          BY <3>1, <3>4, <4>1, GivenBack, Zenon DEF UploadInv, Shape
        <4>3. upload[t] # "open"
          BY <4>1, QueueAssumption DEF QueueInv, Tarballs, NoTar, Failed, UploadInv
        <4> QED  BY <3>1, <4>1, <4>2, <4>3 DEF AwaitedInv, Failed, UploadInv, Shape
      <3> QED  BY <2>3, <3>2, <3>3, <3>4, Zenon DEF FinishTarBall
    <2>4. CASE BackgroundUpload(t)
      <3>1. /\ main # "dead" /\ UNCHANGED <<errors, packing, closing, parts, fillQueue, uploadQueue>>
            /\ upload' = [upload EXCEPT ![t] = "stored"] /\ Holders' = Holders
        BY <2>4, Zenon DEF BackgroundUpload, FinishUpload, Holders
      <3>2. \A u \in Tarballs : upload'[u] \in {"open", "closed"} => upload'[u] = upload[u]
        BY <3>1
      <3> QED  BY <3>1, <3>2, Zenon DEF AwaitedInv, Failed, UploadInv
    <2>5. CASE UploadFails(t)
      BY <2>5, AwaitedKept, Zenon DEF UploadFails
    <2> QED  BY <1>8, <2>1, <2>2, <2>3, <2>4, <2>5, Zenon DEF Packer
  <1>9. CASE AddFileWorker
    <2>1. errors' = errors \/ errors' > 0
      BY <1>9 DEF AddFileWorker, UploadInv, Shape, FlowShape
    <2> QED  BY <1>9, <2>1, AwaitedKept, Zenon DEF AddFileWorker, Failed
  <1>10. CASE FatalOnError \/ Promote \/ Terminated
    BY <1>10, AwaitedKept, Zenon DEF FatalOnError, Promote, Terminated, vars, Failed
  <1>11. CASE Main
    BY <1>1, <1>2, <1>3, <1>4, <1>5, <1>6, <1>7, <1>11, Zenon DEF Main
  <1> QED  BY <1>8, <1>9, <1>10, <1>11, Zenon DEF Next

-----------------------------------------------------------------------------
(* Files are on their way or recorded *)

\* What was written stays written and listed.
Grown ==
    \A t \in Tarballs :
        /\ contents[t] \subseteq contents'[t] /\ tarFileSets[t] \subseteq tarFileSets'[t]
        /\ upload[t] # "unset" => upload'[t] # "unset"

\* SetUp and a longer list take nothing away.
LEMMA SetUpGrows ==
    ASSUME UploadInv, NEW t
    PROVE  /\ \A u \in Tarballs : upload[u] # "unset" => SetUp(t)[u] # "unset"
           /\ \A hs : \A u \in Tarballs : tarFileSets[u] \subseteq [tarFileSets EXCEPT ![t] = @ \cup hs][u]
           /\ \A hs : \A u \in Tarballs : contents[u] \subseteq [contents EXCEPT ![t] = @ \cup hs][u]
  <1>1. \A u \in Tarballs : upload[u] # "unset" => SetUp(t)[u] # "unset"
    BY Zenon DEF SetUp, QueueShape, UploadInv, Shape
  <1>2. \A hs : \A u \in Tarballs : tarFileSets[u] \subseteq [tarFileSets EXCEPT ![t] = @ \cup hs][u]
    BY Zenon DEF RecordShape, UploadInv, Shape
  <1>3. \A hs : \A u \in Tarballs : contents[u] \subseteq [contents EXCEPT ![t] = @ \cup hs][u]
    BY Zenon DEF RecordShape, UploadInv, Shape
  <1> QED  BY <1>1, <1>2, <1>3, Zenon

\* No step takes anything out of a tarball or its list.
LEMMA Grows ==
    ASSUME UploadInv, Next
    PROVE  Grown
  <1> USE DEF packVars, ratingVars, finishVars
  <1>1. CASE Walk
    <2>1. PICK i \in Items : SkipFile(i) \/ AddFile(i) \/ AddHeader(i) \/ AddFileToQueue(i) \/ CollectHeader(i)
      BY <1>1, Zenon DEF Walk
    <2>2. CASE SkipFile(i) \/ AddFileToQueue(i) \/ CollectHeader(i)
      BY <2>2, Zenon DEF SkipFile, AddFileToQueue, CollectHeader, queueVars, Grown
    <2>3. CASE AddFile(i)
      <3>1. CASE UNCHANGED <<queueVars, tarFileSets>>
        BY <2>3, <3>1, Zenon DEF AddFile, queueVars, Grown
      <3>2. ASSUME NEW t \in Tarballs, Deque(t), tarFileSets' = [tarFileSets EXCEPT ![t] = @ \cup {i}]
            PROVE  Grown
        <4>1. contents' = contents /\ upload' = SetUp(t)
          BY <2>3, <3>2, Zenon DEF AddFile, Deque
        <4> QED  BY <3>2, <4>1, SetUpGrows, Zenon DEF Grown
      <3> QED  BY <2>3, <3>1, <3>2, Zenon DEF AddFile
    <2>4. CASE AddHeader(i)
      <3>1. CASE UNCHANGED <<upload, tarFileSets, contents>>
        BY <3>1, Zenon DEF Grown
      <3>2. ASSUME NEW t, upload' = SetUp(t), tarFileSets' = [tarFileSets EXCEPT ![t] = @ \cup {i}],
                   contents' = [contents EXCEPT ![t] = @ \cup {i}]
            PROVE  Grown
        BY <3>2, SetUpGrows, Zenon DEF Grown
      <3> QED  BY <2>4, <3>1, <3>2, Zenon DEF AddHeader, queueVars
    <2> QED  BY <2>1, <2>2, <2>3, <2>4, Zenon
  <1>2. CASE EndWalk \/ AwaitPackers \/ AwaitWorkers \/ \E f \in Files : ComposeFile(f)
    BY <1>2, Zenon DEF EndWalk, AwaitPackers, AwaitWorkers, ComposeFile, queueVars, Grown
  <1>3. CASE WriteHeaders
    BY <1>3 DEF WriteHeaders, SetUp, Grown
  <1>4. CASE StartPackers
    BY <1>4 DEF StartPackers, Deque, SetUp, queueVars, Grown, RecordShape, QueueShape, UploadInv, Shape
  <1>5. CASE FinishQueue
    BY <1>5, Zenon
       DEF FinishQueue, FinishQueueTake, FinishQueueDrain, queueVars, Grown, QueueShape, UploadInv, Shape
  <1>6. CASE UploadPgControl \/ UploadLabelFiles
    BY <1>6, Zenon
       DEF UploadPgControl, UploadLabelFiles, UploadSeparatePart, queueVars, Grown, QueueShape, UploadInv,
           Shape
  <1>7. CASE UploaderFinish \/ UploadSentinel
    BY <1>7, Zenon DEF UploaderFinish, UploadSentinel, queueVars, Grown
  <1>8. ASSUME NEW t \in Tarballs, Packer(t) \/ BackgroundUpload(t) \/ UploadFails(t)
        PROVE  Grown
    <2>1. CASE PackFileIntoTar(t)
      BY <2>1 DEF PackFileIntoTar, PackFile, EnqueueBack, queueVars, Grown
    <2>2. CASE PackFileError(t)
      BY <2>2, Zenon DEF PackFileError, queueVars, Grown
    <2>3. CASE FinishTarBall(t)
      BY <2>3, Zenon
         DEF FinishTarBall, FinishTarBallClose, FinishTarBallAwait, FinishTarBallRefill, Grown, QueueShape,
             UploadInv, Shape
    <2>4. CASE BackgroundUpload(t) \/ UploadFails(t)
      BY <2>4, Zenon
         DEF BackgroundUpload, FinishUpload, UploadFails, queueVars, Grown, QueueShape, UploadInv, Shape
    <2> QED  BY <1>8, <2>1, <2>2, <2>3, <2>4, Zenon DEF Packer
  <1>9. CASE AddFileWorker \/ FatalOnError \/ Promote \/ Terminated
    BY <1>9, Zenon DEF AddFileWorker, FatalOnError, Promote, Terminated, vars, queueVars, Grown
  <1>10. CASE Main
    BY <1>1, <1>2, <1>3, <1>4, <1>5, <1>6, <1>7, <1>10, ZenonT(30) DEF Main
  <1> QED  BY <1>8, <1>9, <1>10, Zenon DEF Next

\* The headers that the rating composer has recorded but not written.
Unwritten(i) == i \in collected \cap Headers /\ main \in {"walk", "pack", "compose"}

\* Every pending file stays pending or is recorded, and a header that is recorded is
\* written or still collected.
Advances ==
    \A i \in Items :
        /\ Pending(i) \/ bundleFiles[i] # "absent" \/ i \in gone =>
             Pending(i)' \/ bundleFiles'[i] # "absent" \/ i \in gone'
        /\ bundleFiles'[i] = "added" => bundleFiles[i] = "added" \/ Written(i)' \/ Unwritten(i)'
        /\ Unwritten(i) => Written(i)' \/ Unwritten(i)'

\* FilesInv after a step on which every pending file stays so or is recorded.
LEMMA FilesMoved ==
    ASSUME UploadInv, Next, main' # "dead" /\ ~Failed' => main # "dead" /\ ~Failed,
           \A h \in Headers : h \in collected' => bundleFiles'[h] = "added",
           main' # "dead" /\ ~Failed' => Advances
    PROVE  FilesInv'
  <1>1. \A i \in Items : Written(i) => Written(i)'
    BY Grows, Zenon DEF Grown, Written
  <1> QED  BY <1>1, Zenon DEF UploadInv, FilesInv, Unwritten, Advances

\* A step that moves no file.
LEMMA FilesKept ==
    ASSUME UploadInv, Next, main' # "dead" /\ ~Failed' => main # "dead" /\ ~Failed,
           UNCHANGED <<toWalk, addFileQueue, collected, bundleFiles, gone>>,
           \A t \in Holders : packing[t] # {} => t \in Holders' /\ packing'[t] = packing[t],
           main' # "dead" => \/ main \in {"walk", "pack", "compose"} /\ main' \in {"walk", "pack", "compose"}
                             \/ main' = main /\ collections' = collections
                             \/ main # "start" /\ (collected = {} \/ main \notin {"walk", "pack", "compose"})
    PROVE  FilesInv'
  <1>1. ASSUME main' # "dead", NEW i \in Items, Pending(i) PROVE Pending(i)'
    <2>1. CASE \E t \in Holders : i \in packing[t]
      BY <2>1, Zenon DEF Pending
    <2>2. CASE main = "start" /\ i \in Composed
      BY <1>1, <2>2, Zenon DEF Pending, Composed
    <2>3. CASE i \in collected /\ main \in {"walk", "pack", "compose"}
      BY <1>1, <2>3, Zenon DEF Pending
    <2> QED  BY <1>1, <2>1, <2>2, <2>3, Zenon DEF Pending
  <1>2. \A i \in Items : main' # "dead" /\ Unwritten(i) => Unwritten(i)'
    BY Zenon DEF Unwritten
  <1> QED  BY <1>1, <1>2, FilesMoved, Zenon DEF UploadInv, FilesInv, Advances

\* A packer records a file, fails, or replaces its tarball.
LEMMA FilesPacked ==
    ASSUME UploadInv, Next, NEW t \in Tarballs, Packer(t)
    PROVE  FilesInv'
  <1> USE DEF packVars, ratingVars, finishVars
  <1>1. CASE PackFileIntoTar(t)
    <2>1. PICK f \in packing[t], outcome \in {"added", "skipped", "absent"} :
            /\ PackFile(t, f, outcome)
            /\ \/ composer = "regular" /\ EnqueueBack(t) /\ packing' = Release(t)
               \/ UNCHANGED queueVars /\ packing' = Hand(t, packing[t] \ {f})
      BY <1>1, Zenon DEF PackFileIntoTar
    <2>2. t \in Holders /\ UNCHANGED <<main, toWalk, errors, tarFileSets, ratingVars>> /\ upload' = upload
      BY <1>1, <2>1, Zenon DEF PackFileIntoTar, EnqueueBack, queueVars
    <2>3. f \in Files /\ f \in Items /\ f \notin Headers
      BY <2>2, UploadAssumption, Zenon DEF QueueShape, Items, UploadInv, Shape
    <2>4. /\ bundleFiles'[f] = outcome /\ \A i \in Items \ {f} : bundleFiles'[i] = bundleFiles[i]
          /\ gone' = IF outcome = "absent" THEN gone \cup {f} ELSE gone
          /\ outcome = "added" => f \in contents'[t]
      BY <2>1, <2>3, Zenon DEF PackFile, RecordShape, UploadInv, Shape
    <2>5. outcome = "added" => Written(f)'
      <3>1. f \in tarFileSets'[t] /\ upload'[t] # "unset"
        BY <2>2, Zenon DEF QueueInv, UploadInv, Shape
      <3> QED  BY <2>4, <3>1, Zenon DEF Written
    <2>6. \A u \in Holders : \A i \in packing[u] : i = f \/ (u \in Holders' /\ i \in packing'[u])
      <3>1. CASE composer = "regular" /\ packing' = Release(t)
        <4>1. \A i \in packing[t] : i = f
          BY <2>2, <3>1, Zenon DEF QueueInv, UploadInv
        <4>2. Holders' = Holders \ {t} /\ \A u \in Holders' : packing'[u] = packing[u]
          BY <3>1, Zenon DEF Release, Holders
        <4> QED  BY <4>1, <4>2, Zenon DEF Shape
      <3>2. CASE packing' = Hand(t, packing[t] \ {f})
        <4>1. Holders' = Holders /\ \A u \in Holders : packing'[u] = (IF u = t THEN packing[t] \ {f} ELSE packing[u])
          BY <2>2, <3>2, Zenon DEF Hand, Holders, Shape
        <4> QED  BY <4>1, Zenon
      <3> QED  BY <2>1, <3>1, <3>2, Zenon
    <2>7. \A i \in Items : i # f /\ Pending(i) => Pending(i)'
      BY <2>2, <2>6, Zenon DEF Pending, Composed
    <2>8. \A i \in Items : Unwritten(i) => Unwritten(i)'
      BY <2>2, Zenon DEF Unwritten
    <2>9. \A h \in Headers : h \in collected' => bundleFiles'[h] = "added"
      BY <2>2, <2>3, <2>4, Zenon DEF FilesInv, Items, UploadInv, Shape
    <2>10. Failed' = Failed
      BY <2>2, Zenon DEF Failed
    <2>11. Advances
      BY <2>4, <2>5, <2>7, <2>8, Zenon DEF Advances
    <2> QED  BY <2>2, <2>9, <2>10, <2>11, FilesMoved, Zenon
  <1>2. CASE PackFileError(t)
    <2>1. t \in Holders /\ errors' = errors + 1 /\ collected' = collected /\ Failed'
      BY <1>2 DEF PackFileError, FlowShape, Failed, UploadInv, Shape
    <2>2. \A h \in Headers : bundleFiles'[h] = bundleFiles[h]
      <3>1. packing[t] \cap Headers = {}
        BY <2>1, UploadAssumption, Zenon DEF QueueShape, UploadInv, Shape
      <3> QED  BY <1>2, <3>1, Zenon DEF PackFileError, RecordShape, Items, UploadInv, Shape
    <2> QED  BY <2>1, <2>2, Zenon DEF FilesInv, UploadInv, Shape
  <1>3. CASE FinishTarBall(t)
    <2>1. packing[t] = {} /\ UNCHANGED <<main, toWalk, errors, bundleFiles, gone, ratingVars>>
          /\ (packing' = packing \/ packing' = Release(t))
      BY <1>3, Zenon DEF FinishTarBall
    <2>2. \A u \in Holders : packing[u] # {} => u \in Holders' /\ packing'[u] = packing[u]
      BY <2>1, Zenon DEF Release, Holders
    <2> QED  BY <2>1, <2>2, FilesKept, Zenon DEF Failed
  <1> QED  BY <1>1, <1>2, <1>3, Zenon DEF Packer, UploadInv, Shape

\* The walk hands a file on, records it, or drops it once the backup has failed.
LEMMA FilesWalked ==
    ASSUME UploadInv, Next, Walk
    PROVE  FilesInv'
  <1> USE DEF packVars, ratingVars, finishVars
  <1>1. PICK i \in Items : SkipFile(i) \/ AddFile(i) \/ AddHeader(i) \/ AddFileToQueue(i) \/ CollectHeader(i)
    BY Zenon DEF Walk
  <1>2. main = "walk" /\ toWalk' = toWalk \ {i} /\ errors' = errors /\ (Failed' = Failed) /\ gone' = gone
    BY <1>1, Zenon DEF SkipFile, AddFile, AddHeader, AddFileToQueue, CollectHeader, Failed
  <1>3. CASE SkipFile(i)
    <2>1. /\ UNCHANGED <<main, packing, addFileQueue, collected>> /\ bundleFiles' = [bundleFiles EXCEPT ![i] = "skipped"]
          /\ i \notin Headers
      BY <1>3, UploadAssumption, Zenon DEF SkipFile
    <2>2. \A j \in Items : bundleFiles'[j] = IF j = i THEN "skipped" ELSE bundleFiles[j]
      BY <2>1, Zenon DEF RecordShape, UploadInv, Shape
    <2>3. \A j \in Items : j # i /\ Pending(j) => Pending(j)'
      BY <1>2, <2>1, Zenon DEF Pending, Holders, UploadInv
    <2>4. \A j \in Items : Unwritten(j) => Unwritten(j)'
      BY <1>2, <2>1, Zenon DEF Unwritten
    <2>5. \A h \in Headers : h \in collected' => bundleFiles'[h] = "added"
      BY <2>1, <2>2 DEF FilesInv, UploadInv, Shape
    <2>6. Advances
      BY <1>2, <2>2, <2>3, <2>4, Zenon DEF Advances
    <2> QED  BY <1>2, <2>5, <2>6, FilesMoved, Zenon
  <1>4. CASE AddFile(i)
    <2>1. UNCHANGED <<main, addFileQueue, collected, bundleFiles>>
      BY <1>4, Zenon DEF AddFile
    <2>2. CASE Failed
      BY <1>2, <2>1, <2>2, Zenon DEF FilesInv, UploadInv, Shape
    <2>3. CASE ~Failed
      <3>1. PICK t \in Tarballs : Deque(t) /\ packing' = Hand(t, {i})
        BY <1>4, <2>3, Zenon DEF AddFile
      <3>2. Holders' = Holders \cup {t} /\ packing'[t] = {i} /\ \A u \in Holders : packing'[u] = packing[u]
        BY <3>1, HandedOut, Zenon DEF UploadInv, Shape
      <3>3. \A j \in Items : Pending(j) => Pending(j)'
        BY <1>2, <2>1, <3>2, Zenon DEF Pending, Composed
      <3>4. \A j \in Items : Unwritten(j) => Unwritten(j)'
        BY <1>2, <2>1, Zenon DEF Unwritten
      <3>5. \A h \in Headers : h \in collected' => bundleFiles'[h] = "added"
        BY <2>1, Zenon DEF FilesInv, UploadInv
      <3>6. Advances
        BY <1>2, <2>1, <3>3, <3>4, Zenon DEF Advances
      <3> QED  BY <1>2, <3>5, <3>6, FilesMoved, Zenon
    <2> QED  BY <2>2, <2>3, Zenon
  <1>5. CASE AddHeader(i)
    <2>1. UNCHANGED <<packing, addFileQueue, collected>> /\ collected = {} /\ i \in Items
      BY <1>5, Zenon DEF AddHeader, MainInv, UploadInv, Shape
    <2>2. CASE Failed
      BY <1>2, <2>1, <2>2, Zenon DEF FilesInv, Shape
    <2>3. CASE ~Failed
      <3>1. PICK t : /\ fillQueue # <<>> /\ t = Head(fillQueue) /\ fillQueue' = Append(Tail(fillQueue), t)
                     /\ upload' = SetUp(t) /\ bundleFiles' = [bundleFiles EXCEPT ![i] = "added"]
                     /\ tarFileSets' = [tarFileSets EXCEPT ![t] = @ \cup {i}]
                     /\ contents' = [contents EXCEPT ![t] = @ \cup {i}] /\ main' = main
        BY <1>5, <2>3, Zenon DEF AddHeader, UploadInv
      <3>2. t \in Tarballs /\ upload'[t] = (IF upload[t] = "unset" THEN "open" ELSE upload[t])
        BY <3>1, PutBack, Zenon DEF UploadInv, Shape
      <3>3. i \in contents'[t] \cap tarFileSets'[t] /\ upload'[t] # "unset"
        BY <3>1, <3>2, Zenon DEF RecordShape, UploadInv, Shape
      <3>4. Written(i)'
        BY <3>2, <3>3, Zenon DEF Written
      <3>5. \A j \in Items : bundleFiles'[j] = IF j = i THEN "added" ELSE bundleFiles[j]
        BY <3>1, Zenon DEF RecordShape, UploadInv, Shape
      <3>6. \A j \in Items : j # i /\ Pending(j) => Pending(j)'
        BY <1>2, <2>1, <3>1, Zenon DEF Pending, Holders, Shape
      <3>7. \A j \in Items : ~Unwritten(j)
        BY <2>1, Zenon DEF Unwritten
      <3>8. Advances
        BY <1>2, <3>4, <3>5, <3>6, <3>7, ZenonT(30) DEF Advances
      <3>9. \A h \in Headers : h \notin collected'
        BY <2>1, ZenonT(30)
      <3> QED  BY <1>2, <3>8, <3>9, FilesMoved, Zenon
    <2> QED  BY <2>2, <2>3, Zenon DEF UploadInv
  <1>6. CASE AddFileToQueue(i)
    <2>1. /\ UNCHANGED <<main, packing, collected, bundleFiles>> /\ addFileQueue' = Append(addFileQueue, i)
          /\ i \in Files
      BY <1>6, Zenon DEF AddFileToQueue
    <2>2. Elems(addFileQueue') = Elems(addFileQueue) \cup {i}
      BY <2>1, SentTo DEF FlowShape, UploadInv, Shape
    <2>3. \A j \in Items : Pending(j) => Pending(j)'
      BY <1>2, <2>1, <2>2, Zenon DEF Pending, Holders
    <2>4. \A j \in Items : Unwritten(j) => Unwritten(j)'
      BY <1>2, <2>1, Zenon DEF Unwritten
    <2>5. \A h \in Headers : h \in collected' => bundleFiles'[h] = "added"
      BY <2>1, Zenon DEF FilesInv, UploadInv
    <2>6. Advances
      BY <1>2, <2>1, <2>3, <2>4, ZenonT(30) DEF Advances
    <2> QED  BY <1>2, <2>5, <2>6, FilesMoved, Zenon
  <1>7. CASE CollectHeader(i)
    <2>1. /\ UNCHANGED <<main, packing, addFileQueue>> /\ collected' = collected \cup {i}
          /\ bundleFiles' = [bundleFiles EXCEPT ![i] = "added"] /\ i \in Headers
      BY <1>7, Zenon DEF CollectHeader
    <2>2. \A j \in Items : bundleFiles'[j] = IF j = i THEN "added" ELSE bundleFiles[j]
      BY <2>1, Zenon DEF RecordShape, UploadInv, Shape
    <2>3. \A j \in Items : j # i /\ Pending(j) => Pending(j)'
      BY <1>2, <2>1, Zenon DEF Pending, Holders, UploadInv
    <2>4. Unwritten(i)' /\ \A j \in Items : Unwritten(j) => Unwritten(j)'
      BY <1>2, <2>1, Zenon DEF Unwritten, UploadInv, Shape
    <2>5. \A h \in Headers : h \in collected' => bundleFiles'[h] = "added"
      BY <2>1, <2>2 DEF FilesInv, UploadInv
    <2>6. Advances
      BY <1>2, <2>2, <2>3, <2>4, Zenon DEF Advances
    <2> QED  BY <1>2, <2>5, <2>6, FilesMoved, Zenon
  <1> QED  BY <1>1, <1>3, <1>4, <1>5, <1>6, <1>7, ZenonT(30)

\* An addFileWorker rates a file or ends.
LEMMA FilesRated ==
    ASSUME UploadInv, Next, AddFileWorker
    PROVE  FilesInv'
  <1> USE DEF packVars, ratingVars, finishVars
  <1>1. /\ addFileQueue # <<>> /\ addFileQueue' = Tail(addFileQueue) /\ main # "dead"
        /\ UNCHANGED <<main, toWalk, packing, bundleFiles, gone, collections>>
    BY Zenon DEF AddFileWorker
  <1>2. main \in {"walk", "pack"}
    BY <1>1, Zenon DEF MainInv, FlowShape, UploadInv, Shape
  <1>3. Head(addFileQueue) \in Files /\ Elems(addFileQueue) = Elems(addFileQueue') \cup {Head(addFileQueue)}
    BY <1>1, Received, Zenon DEF FlowShape, UploadInv, Shape
  <1>4. CASE collected' = collected \cup {Head(addFileQueue)} /\ errors' = errors
    <2>1. \A j \in Items : Pending(j) => Pending(j)'
      BY <1>1, <1>2, <1>3, <1>4, Zenon DEF Pending, Composed, Holders
    <2>2. \A j \in Items : Unwritten(j) => Unwritten(j)'
      BY <1>1, <1>4, Zenon DEF Unwritten
    <2>3. \A h \in Headers : h \in collected' => bundleFiles'[h] = "added"
      BY <1>1, <1>3, <1>4, UploadAssumption, ZenonT(30) DEF FilesInv, UploadInv
    <2> QED  BY <1>1, <1>4, <2>1, <2>2, <2>3, FilesMoved, ZenonT(30) DEF Failed, Advances
  <1>5. CASE collected' = collected /\ errors' = errors + 1
    BY <1>1, <1>5 DEF FilesInv, Failed, FlowShape, UploadInv, Shape
  <1> QED  BY <1>4, <1>5, Zenon DEF AddFileWorker

\* The rating composer writes its headers when all files are in collections, and hands
\* the collections to packers.
LEMMA FilesComposed ==
    ASSUME UploadInv, Next, WriteHeaders \/ StartPackers
    PROVE  FilesInv'
  <1> USE DEF packVars, ratingVars, finishVars
  <1>1. UNCHANGED <<toWalk, errors, bundleFiles, gone, addFileQueue, collected>> /\ (Failed' = Failed)
        /\ main \in {"compose", "start"}
    BY Zenon DEF WriteHeaders, StartPackers, Failed
  <1>2. \A h \in Headers : h \in collected' => bundleFiles'[h] = "added"
    BY <1>1, Zenon DEF FilesInv, UploadInv
  <1>3. CASE WriteHeaders
    <2>1. PICK t : /\ fillQueue # <<>> /\ t = Head(fillQueue) /\ fillQueue' = Append(Tail(fillQueue), t)
                   /\ upload' = SetUp(t)
                   /\ tarFileSets' = [tarFileSets EXCEPT ![t] = @ \cup (collected \cap Headers)]
                   /\ contents' = [contents EXCEPT ![t] = @ \cup (collected \cap Headers)]
      BY <1>3, Zenon DEF WriteHeaders
    <2>2. t \in Tarballs /\ upload'[t] = (IF upload[t] = "unset" THEN "open" ELSE upload[t])
      BY <2>1, PutBack, Zenon DEF UploadInv, Shape
    <2>3. \A i \in Items : Unwritten(i) => Written(i)'
      <3>1. collected \cap Headers \subseteq contents'[t] \cap tarFileSets'[t] /\ upload'[t] # "unset"
        BY <2>1, <2>2, Zenon DEF RecordShape, UploadInv, Shape
      <3> QED  BY <2>2, <3>1, Zenon DEF Unwritten, Written
    <2>4. ASSUME NEW i \in Items, Pending(i) PROVE Pending(i)' \/ bundleFiles'[i] # "absent"
      <3>1. main = "compose" /\ main' = "start" /\ Uncomposed = {} /\ UNCHANGED <<collections, packing>>
        BY <1>3, Zenon DEF WriteHeaders
      <3>2. CASE i \in collected
        <4>1. i \in Headers \/ i \in Composed
          BY <3>1, <3>2, Zenon DEF Uncomposed, Items, UploadInv
        <4>2. CASE i \in Headers
          BY <1>1, <1>2, <3>2, <4>2, Zenon DEF UploadInv, Shape
        <4>3. CASE i \in Composed
          BY <3>1, <4>3, Zenon DEF Pending, Composed
        <4> QED  BY <4>1, <4>2, <4>3, Zenon DEF UploadInv, Shape
      <3>3. CASE i \notin collected
        BY <1>1, <2>4, <3>1, <3>3, Zenon DEF Pending, Holders, UploadInv
      <3> QED  BY <3>2, <3>3, Zenon
    <2> QED  BY <1>1, <1>2, <2>3, <2>4, FilesMoved, Zenon DEF Advances
  <1>4. CASE StartPackers
    <2>1. main = "start" /\ \A i \in Items : ~Unwritten(i)
      BY <1>4, Zenon DEF StartPackers, Unwritten
    <2>2. CASE collections = <<>>
      <3>1. Composed = {} /\ main' = "finish" /\ UNCHANGED packing
        BY <1>4, <2>2 DEF StartPackers, Composed, Shape
      <3>2. \A i \in Items : Pending(i) => Pending(i)'
        BY <1>1, <2>1, <3>1, Zenon DEF Pending, Holders
      <3> QED  BY <1>1, <1>2, <2>1, <3>2, FilesMoved, ZenonT(30) DEF Advances
    <2>3. CASE collections # <<>>
      <3>1. PICK t \in Tarballs : Deque(t) /\ packing' = Hand(t, Head(collections))
        BY <1>4, <2>3, Zenon DEF StartPackers, Shape
      <3>2. main' = main /\ collections' = Tail(collections)
        BY <1>4, <2>3, Zenon DEF StartPackers
      <3>3. /\ Holders' = Holders \cup {t} /\ packing'[t] = Head(collections)
            /\ \A u \in Holders : packing'[u] = packing[u]
        BY <3>1, HandedOut, Zenon DEF UploadInv, Shape
      <3>4. \A i \in Composed : i \in Head(collections) \/ i \in Composed'
        <4>1. \A s \in Seq(SUBSET Files) : {s[k] : k \in DOMAIN s} = Elems(s)
          BY DEF Elems
        <4>2. Elems(collections) = Elems(Tail(collections)) \cup {Head(collections)}
              /\ Tail(collections) \in Seq(SUBSET Files)
          BY <2>3, Received, Zenon DEF RecordShape, UploadInv, Shape
        <4>3. Composed = UNION Elems(collections)
          BY DEF Composed, Elems
        <4>4. Composed' = UNION Elems(collections')
          BY <3>2, <4>2, SMTT(20) DEF Composed, Elems, Shape
        <4> QED  BY <3>2, <4>2, <4>3, <4>4 DEF UploadInv, Shape
      <3>5. \A i \in Items : Pending(i) => Pending(i)'
        BY <1>1, <2>1, <3>2, <3>3, <3>4, ZenonT(30) DEF Pending, Shape
      <3> QED  BY <1>1, <1>2, <2>1, <3>5, FilesMoved, Zenon DEF Advances
    <2> QED  BY <2>2, <2>3, Zenon DEF UploadInv, Shape
  <1> QED  BY <1>3, <1>4, Zenon DEF UploadInv, Shape

\* Every step keeps the files on their way.
LEMMA FilesStep ==
    ASSUME UploadInv, Next
    PROVE  FilesInv'
  <1> USE DEF packVars, ratingVars, finishVars
  <1>1. CASE Walk
    BY <1>1, FilesWalked, Zenon
  <1>2. CASE EndWalk
    BY <1>2, FilesKept, Zenon DEF EndWalk, Holders, Failed
  <1>3. CASE AwaitPackers
    BY <1>3, FilesKept, Zenon DEF AwaitPackers, UploadInv, MainInv
  <1>4. CASE AwaitWorkers
    BY <1>4, FilesKept, Zenon DEF AwaitWorkers, Holders
  <1>5. CASE \E f \in Files : ComposeFile(f)
    BY <1>5, FilesKept, Zenon DEF ComposeFile, Holders, Failed
  <1>6. CASE WriteHeaders \/ StartPackers
    BY <1>6, FilesComposed, Zenon DEF Failed
  <1>7. CASE FinishQueue
    <2>1. main = "finish" /\ main' # "dead" /\ UNCHANGED <<toWalk, errors, packing, bundleFiles, gone, addFileQueue, collected>>
      BY <1>7, Zenon DEF FinishQueue
    <2> QED  BY <2>1, FilesKept, Zenon DEF Holders, Failed
  <1>8. CASE UploadPgControl \/ UploadLabelFiles
    BY <1>8, FilesKept, Zenon DEF UploadPgControl, UploadLabelFiles, Holders, Failed
  <1>9. CASE UploaderFinish \/ UploadSentinel
    BY <1>9, FilesKept, Zenon DEF UploaderFinish, UploadSentinel, Holders, Failed
  <1>10. ASSUME NEW t \in Tarballs, Packer(t) \/ BackgroundUpload(t) \/ UploadFails(t)
         PROVE  FilesInv'
    BY <1>10, FilesPacked, FilesKept, Zenon DEF BackgroundUpload, UploadFails, Holders, Failed
  <1>11. CASE AddFileWorker
    BY <1>11, FilesRated, Zenon
  <1>12. CASE FatalOnError \/ Promote \/ Terminated
    BY <1>12, FilesKept, Zenon DEF FatalOnError, Promote, Terminated, vars, Holders, Failed
  <1>13. CASE Main
    BY <1>1, <1>2, <1>3, <1>4, <1>5, <1>6, <1>7, <1>8, <1>9, <1>13, ZenonT(30) DEF Main
  <1> QED  BY <1>10, <1>11, <1>12, <1>13, Zenon DEF Next

-----------------------------------------------------------------------------
(* Theorems *)

\* The invariant holds when the walk begins.
LEMMA UploadInvInit == Init => UploadInv
  <1> SUFFICES ASSUME Init PROVE UploadInv
    OBVIOUS
  <1> USE QueueAssumption, UploadAssumption DEF Init, StartQueue
  <1>1. Holders = {}
    BY Zenon DEF Holders
  <1>2. FlowShape
    BY DEF FlowShape
  <1>3. RecordShape
    BY DEF RecordShape
  <1>4. fillQueue \in Seq(Tarballs) /\ Len(fillQueue) = ParallelTarballs
        /\ \A i \in 1 .. ParallelTarballs : fillQueue[i] = i
    <2>1. \A i \in 1 .. ParallelTarballs : i \in Tarballs
      BY DEF Tarballs
    <2> QED  BY <2>1
  <1>5. QueueShape
    <2>1. uploadQueue \in Seq(Tarballs)
      OBVIOUS
    <2>2. made \in 0 .. MaxTarballs
      OBVIOUS
    <2>3. mutex \in Tarballs \cup {NoTar} /\ upload \in [Tarballs -> {"unset", "open", "closed", "stored"}]
      BY Zenon
    <2>4. Holders \subseteq Tarballs /\ packing \in [Holders -> SUBSET Files]
      BY <1>1
    <2> QED  BY <1>4, <2>1, <2>2, <2>3, <2>4, ZenonT(30) DEF QueueShape
  <1>6. QueueInv
    <2>1. Distinct(fillQueue) /\ \A t \in Elems(fillQueue) : t <= made
      BY <1>4 DEF Distinct, Elems
    <2>2. \A t \in Tarballs : upload[t] = "unset"
      BY Zenon
    <2> QED  BY <1>1, <2>1, <2>2, Zenon DEF QueueInv
  <1>7. TarballsConserved
    <2>1. Cardinality(Holders) = 0
      BY <1>1, FS_EmptySet, Zenon
    <2> QED  BY <1>4, <2>1 DEF TarballsConserved
  <1>8. MainInv
    BY <1>1, Zenon DEF MainInv, Late, Ended
  <1>9. AwaitedInv
    BY Zenon DEF AwaitedInv
  <1>10. FilesInv
    BY Zenon DEF FilesInv, Pending, Items
  <1> QED  BY <1>2, <1>3, <1>5, <1>6, <1>7, <1>8, <1>9, <1>10, ZenonT(30) DEF UploadInv, Shape

\* The invariant of backup-push: where its tarballs, its uploads and its files are at
\* every step of the walk, the composers, the packers and the main goroutine.
THEOREM UploadInvariant == Spec => []UploadInv
  <1>1. UploadInv /\ [Next]_vars => UploadInv'
    <2> SUFFICES ASSUME UploadInv, [Next]_vars PROVE UploadInv'
      OBVIOUS
    <2>1. CASE Next
      <3>1. MainInv'
        BY <2>1, MainWalk, MainPack, MainFinish, MainOthers, Zenon DEF Next, Main
      <3>2. FlowShape' /\ RecordShape'
        BY <2>1, FlowStep, RecordStep, Zenon
      <3>3. QueueShape' /\ QueueInv' /\ TarballsConserved'
        BY <2>1, QueueStep, Zenon DEF Conservation
      <3>4. AwaitedInv' /\ FilesInv'
        BY <2>1, AwaitedStep, FilesStep, Zenon
      <3> QED  BY <3>1, <3>2, <3>3, <3>4, Zenon DEF UploadInv, Shape
    <2>2. CASE UNCHANGED vars
      <3> USE <2>2 DEF UploadInv, Shape, vars, queueVars, packVars, ratingVars, finishVars
      <3>1. Holders' = Holders /\ Failed' = Failed
        BY Zenon DEF Holders, Failed
      <3>2. FlowShape' /\ RecordShape' /\ QueueShape'
        BY <3>1, Zenon DEF FlowShape, RecordShape, QueueShape
      <3>3. QueueInv' /\ TarballsConserved'
        BY <3>1, ZenonT(30) DEF QueueInv, TarballsConserved
      <3>4. MainInv'
        BY <3>1 DEF MainInv
      <3>5. AwaitedInv'
        BY <3>1, Zenon DEF AwaitedInv
      <3>6. FilesInv'
        BY <3>1, ZenonT(30) DEF FilesInv, Pending, Written, Composed
      <3> QED  BY <3>2, <3>3, <3>4, <3>5, <3>6, ZenonT(30)
    <2> QED  BY <2>1, <2>2, Zenon
  <1> QED  BY <1>1, UploadInvInit, PTL DEF Spec

\* TarballsConserved for every number of tarballs and packers: no tarball is lost to
\* the queue or counted twice, so FinishQueue, which receives exactly ParallelTarballs
\* of them, has waited for all packers (NewTarBallQueue, EnqueueBack, FinishTarBall).
THEOREM TarballsAreConserved == Spec => []TarballsConserved
  <1>1. UploadInv => TarballsConserved
    BY Zenon DEF UploadInv
  <1> QED  BY <1>1, UploadInvariant, PTL

\* PgControlLast for every data directory and queue length: UploadPgControl runs after
\* all packers have ended and every tarball is stored.
THEOREM PgControlIsLast == Spec => []PgControlLast
  <1>1. UploadInv => PgControlLast
    <2> SUFFICES ASSUME UploadInv, main = "pgcontrol"
                 PROVE  Holders = {} /\ \A t \in Tarballs : upload[t] \in {"unset", "stored"}
      BY Zenon DEF PgControlLast
    <2>1. Holders = {} /\ Elems(fillQueue) = {}
      BY NobodyLeft, Zenon DEF Ended
    <2>2. Elems(uploadQueue) = {} /\ closing = NoTar /\ parts = {} /\ ~Failed
      BY ElemsIn, Zenon DEF UploadInv, Shape, QueueShape, MainInv, Ended, Late
    <2>3. \A t \in Tarballs : t # NoTar /\ upload[t] \in {"unset", "open", "closed", "stored"}
      BY QueueAssumption DEF UploadInv, Shape, QueueShape, Tarballs, NoTar
    <2> QED  BY <2>1, <2>2, <2>3, Zenon DEF UploadInv, AwaitedInv
  <1> QED  BY <1>1, UploadInvariant, PTL

\* BackupComplete for every data directory, either composer and every pattern of
\* failures: a sentinel is written only over a backup in which each file is recorded and
\* stored (uploadBackup, PackTarballs, FinishQueue, Uploader.Finish).
THEOREM BackupIsComplete == Spec => []BackupComplete
  <1>1. UploadInv => BackupComplete
    <2> SUFFICES ASSUME UploadInv, sentinel
                 PROVE  /\ \A i \in Items \ gone : bundleFiles[i] # "absent"
                        /\ \A i \in Items : bundleFiles[i] = "added" =>
                             \E t \in Tarballs : i \in contents[t] \cap tarFileSets[t] /\ upload[t] = "stored"
                        /\ \A t \in Tarballs : upload[t] \in {"unset", "stored"}
                        /\ ~(Replica /\ timeline = "changed")
      BY Zenon DEF BackupComplete
    <2>1. /\ main = "done" /\ ~Failed /\ toWalk = {} /\ addFileQueue = <<>> /\ uploadQueue = <<>>
          /\ closing = NoTar /\ \A t \in parts : upload[t] = "stored"
          /\ ~(Replica /\ timeline = "changed")
      BY Zenon DEF UploadInv, MainInv, Late, Ended
    <2>2. Holders = {} /\ Elems(fillQueue) = {}
      BY <2>1, NobodyLeft, Zenon DEF Ended
    <2>3. Elems(uploadQueue) = {} /\ Elems(addFileQueue) = {}
      BY <2>1, ElemsIn, Zenon DEF UploadInv, Shape, FlowShape
    <2>4. \A t \in Tarballs : upload[t] \in {"unset", "stored"}
      <3>1. \A t \in Tarballs : t # NoTar /\ upload[t] \in {"unset", "open", "closed", "stored"}
        BY QueueAssumption DEF UploadInv, Shape, QueueShape, Tarballs, NoTar
      <3> QED  BY <2>1, <2>2, <2>3, <3>1, ZenonT(30) DEF UploadInv, AwaitedInv
    <2>5. \A i \in Items : ~Pending(i)
      BY <2>1, <2>2, <2>3, Zenon DEF Pending
    <2>6. \A i \in Items : /\ bundleFiles[i] # "absent" \/ i \in gone
                           /\ bundleFiles[i] = "added" => Written(i)
      BY <2>1, <2>5, Zenon DEF UploadInv, FilesInv
    <2> QED  BY <2>1, <2>4, <2>6, Zenon DEF Written
  <1> QED  BY <1>1, UploadInvariant, PTL
=============================================================================
